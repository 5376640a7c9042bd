------------------------------- MODULE Paging -------------------------------
(***************************************************************************)
(* Page-table trees: the Mapper of crates/paging/src/lib.rs, over a frame  *)
(* pool reached the way crates/kernel/src/mem.rs and vm.rs reach it.  An   *)
(* operation takes a memory and returns the memory it leaves.              *)
(*                                                                         *)
(* Addresses are page numbers: virtual pages 0 .. Fan^4 - 1, physical      *)
(* frames 0 .. Frames - 1 (a device's registers have numbers above RAM).   *)
(* The code has Fan = 512 and the same four levels; every address it maps  *)
(* is page-aligned, so the Misaligned refusal has no counterpart here.     *)
(***************************************************************************)
EXTENDS Integers, FiniteSets, Sequences, FiniteSetsExt, SequencesExt

CONSTANTS Frames,   \* physical frames of RAM
          Fan       \* entries of a table

ASSUME PagingAssumption == Frames \in Nat \ {0} /\ Fan \in Nat \ {0, 1}

Frame == 0 .. Frames - 1
Slot == 0 .. Fan - 1
Top == 3

(* The pages an entry of level l covers, Fan^l, and the slot v has there. *)
level_size(l) == <<1, Fan, Fan * Fan, Fan * Fan * Fan, Fan * Fan * Fan * Fan>>[l + 1]
index(v, l) == (v \div level_size(l)) % Fan

Page == 0 .. level_size(Top + 1) - 1

(***************************************************************************)
(* Rights, and the entries of a table.  Entry 0 is Empty; NX is ~exec, so  *)
(* an intermediate entry, which never sets it, has exec.                   *)
(***************************************************************************)
RO == [write |-> FALSE, exec |-> FALSE, user |-> FALSE]
RW == [RO EXCEPT !.write = TRUE]
RX == [RO EXCEPT !.exec = TRUE]
to_user(r) == [r EXCEPT !.user = TRUE]
is_wx(r) == r.write /\ r.exec

intersect(r, e) == [write |-> r.write /\ e.write, exec |-> r.exec /\ e.exec,
                    user |-> r.user /\ e.user]

Empty == [present |-> FALSE, write |-> FALSE, exec |-> TRUE, user |-> FALSE,
          huge |-> FALSE, device |-> FALSE, to |-> 0]
EmptyTable == [s \in Slot |-> Empty]

Leaf(p, r, device, l) ==
  [present |-> TRUE, write |-> r.write, exec |-> r.exec, user |-> r.user,
   huge |-> l > 0, device |-> device, to |-> p]

Intermediate(f, r) ==
  [present |-> TRUE, write |-> TRUE, exec |-> TRUE, user |-> r.user,
   huge |-> FALSE, device |-> FALSE, to |-> f]

Widened(e, r) == [e EXCEPT !.write = TRUE, !.user = @ \/ r.user]

(***************************************************************************)
(* A memory: what each frame holds when read as a table, whose bytes it    *)
(* holds otherwise, the frames the pool can give, the count IN_USE, and    *)
(* the error of the operation in progress.  An operation that has failed   *)
(* does nothing more, which is what the code's `?' does.                   *)
(***************************************************************************)
Failed(m) == m.err # "none"
Fail(m, why) == [m EXCEPT !.err = why]

(* The pool gives its lowest frames, so that a frame just freed is soon    *)
(* given again.  How staros_mm really chooses is external.                 *)
RunStarts(pool, n) == {f \in pool : f .. f + n - 1 \subseteq pool}
TakeRun(m, f, n) == [m EXCEPT !.pool = @ \ (f .. f + n - 1), !.inUse = @ + n, !.got = f]

alloc_frames(m, n) ==
  IF Failed(m) THEN m
  ELSE IF RunStarts(m.pool, n) = {} THEN Fail(m, "OutOfFrames")
  ELSE TakeRun(m, Min(RunStarts(m.pool, n)), n)

alloc_frame(m) == alloc_frames(m, 1)

(* Zero the frame just allocated, which then holds bytes of `whose' only.  *)
Zeroed(m, whose) ==
  IF Failed(m) THEN m
  ELSE [m EXCEPT !.table[m.got] = EmptyTable, !.bytes[m.got] = whose]

(* The pool's own free does not look at what the frame holds. *)
free_frame(m, f) == [m EXCEPT !.pool = @ \cup {f}, !.inUse = @ - 1]

Kernel == 0
(* Mutant: the recycled frame keeps the entries it had. *)
alloc_table_MutantNotZeroed(m) == alloc_frame(m)

alloc_table(m) == Zeroed(alloc_frame(m), {Kernel})

Write(m, t, s, e) == [m EXCEPT !.table[t][s] = e]

(***************************************************************************)
(* Walking down.  A step of the walk for page v at level l; the walk as a  *)
(* whole, from the root, ends at a leaf or at an absent entry.             *)
(***************************************************************************)
WalkStep(m, w, v, l) ==
  LET e == m.table[w.to][index(v, l)]
  IN  IF w.end # "table" THEN w
      ELSE IF ~e.present THEN [w EXCEPT !.end = "absent"]
      ELSE [end |-> IF l = 0 \/ e.huge THEN "leaf" ELSE "table", to |-> e.to, level |-> l,
            in |-> w.to, rights |-> intersect(w.rights, e), device |-> e.device]

From(root) ==
  [end |-> "table", to |-> root, level |-> Top + 1, in |-> root, device |-> FALSE,
   rights |-> [write |-> TRUE, exec |-> TRUE, user |-> TRUE]]

Descent(m, root, v) ==
  LET down[l \in 0 .. Top + 1] ==
        IF l = Top + 1 THEN From(root) ELSE WalkStep(m, down[l + 1], v, l)
  IN  down

Walk(m, root, v) == Descent(m, root, v)[0]

Unmapped == [mapped |-> FALSE, phys |-> 0, rights |-> RO, device |-> FALSE]
Mapping(p, r, device) == [mapped |-> TRUE, phys |-> p, rights |-> r, device |-> device]

Translation(w, v, size) ==
  IF w.end = "absent" THEN Unmapped
  ELSE Mapping((w.to - (w.to % size)) + (v % size), w.rights, w.device)

translate(m, root, v) ==
  LET w == Walk(m, root, v) IN Translation(w, v, level_size(w.level))

Cleared(m, w, v) ==
  IF w.end = "absent" THEN m ELSE Write(m, w.in, index(v, w.level), Empty)

unmap(m, root, v) == Cleared(m, Walk(m, root, v), v)

(***************************************************************************)
(* Mapping.  next_table goes from w.at through entry i to the table below, *)
(* adding it if it is absent and widening it if it is present.             *)
(***************************************************************************)
next_table_present(w, e, i, r) ==
  IF e.huge THEN [w EXCEPT !.m = Fail(w.m, "LargePageCollision")]
  ELSE [m |-> Write(w.m, w.at, i, Widened(e, r)), at |-> e.to]

Linked(w, m, i, r) ==
  IF Failed(m) THEN [w EXCEPT !.m = m]
  ELSE [m |-> Write(m, w.at, i, Intermediate(m.got, r)), at |-> m.got]
next_table_absent(w, i, r) == Linked(w, alloc_table(w.m), i, r)

next_table(w, i, r) ==
  LET e == w.m.table[w.at][i]
  IN  IF Failed(w.m) THEN w
      ELSE IF e.present THEN next_table_present(w, e, i, r)
      ELSE next_table_absent(w, i, r)

PutLeaf(w, i, e) == IF Failed(w.m) THEN w.m ELSE Write(w.m, w.at, i, e)

(* The tables on the way to v, added where there are none: one per level. *)
Path(m, root, v, r) ==
  LET down[l \in 0 .. Top] ==
        IF l = Top THEN [m |-> m, at |-> root] ELSE next_table(down[l + 1], index(v, l + 1), r)
  IN  down

map_leaf(m, root, v, p, r, device, level) ==
  PutLeaf(Path(m, root, v, r)[level], index(v, level), Leaf(p, r, device, level))

fits(v, p, left, size) == v % size = 0 /\ p % size = 0 /\ left >= size

(* The level of the page that covers v when `left' pages are still to do.  *)
LevelFor(v, p, left, gib) ==
  IF gib /\ fits(v, p, left, level_size(2)) THEN 2
  ELSE IF fits(v, p, left, level_size(1)) THEN 1
  ELSE 0

(* A round of the loop, with d.at pages done: the next page, as large as it may be. *)
map_next(d, root, v, p, n, r, device, gib) ==
  LET l == LevelFor(v + d.at, p + d.at, n - d.at, gib)
  IN  IF Failed(d.m) \/ d.at >= n THEN d
      ELSE [m |-> map_leaf(d.m, root, v + d.at, p + d.at, r, device, l),
            at |-> d.at + level_size(l)]

map_as(m, root, v, p, n, r, device, gib) ==
  LET after[i \in 0 .. n] ==
        IF i = 0 THEN [m |-> m, at |-> 0]
        ELSE map_next(after[i - 1], root, v, p, n, r, device, gib)
  IN  after[n].m

map(m, root, v, p, n, r, gib) == map_as(m, root, v, p, n, r, FALSE, gib)
map_device(m, root, v, p, n, r, gib) == map_as(m, root, v, p, n, r, TRUE, gib)
=============================================================================
