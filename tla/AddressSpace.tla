---------------------------- MODULE AddressSpace ----------------------------
(***************************************************************************)
(* The kernel's page-table tree and the trees of ring-3 tasks, sharing one *)
(* frame pool: vm.rs, addrspace.rs, the single-frame half of mem.rs, and   *)
(* the callers that order them (kmain, irq, smp and usermode of            *)
(* crates/kernel/src).                                                     *)
(*                                                                         *)
(* The boot core builds the kernel's tree, maps device windows, and then   *)
(* spaces are built, one at a time, and torn down in any order by the      *)
(* scheduler's reaper.  Any allocation may find the pool empty.            *)
(*                                                                         *)
(* Nothing keeps the trampoline's page out of the pool, so a machine may   *)
(* have it there.  When the kernel's stores into it hit a frame that is    *)
(* lent, the model ends: nothing in the code says what follows.            *)
(***************************************************************************)
EXTENDS Paging

CONSTANTS
  KernelFirst,    \* KERNEL_PML4_FIRST: the first root slot of the kernel half
  Spaces,         \* how many spaces may exist at once
  Machines,       \* machines to boot: [pool, gib, smap, fb, image]; pool is a
                  \* set of frames, fb [phys, len] with len 0 for none, and
                  \* image the embedded program, [segments, entry]
  TRAMPOLINE_PHYS,  \* the frame the trampoline is copied to
  StackPages,     \* AP_STACK_PAGES
  PageBytes       \* bytes of a page, for the ranges ring 3 passes

Space == 1 .. Spaces

ASSUME AddressSpaceAssumption ==
  /\ KernelFirst \in 1 .. Fan - 3
  /\ Spaces \in Nat \ {0}
  /\ StackPages \in Nat \ {0}
  /\ PageBytes \in Nat \ {0}

(***************************************************************************)
(* Where things are.  The linear map, the device window and the image have *)
(* a root slot each; everything of a program is under the first root slot. *)
(***************************************************************************)
USER_LIMIT == KernelFirst * level_size(Top)
PHYS_MAP_BASE == KernelFirst * level_size(Top)
DEVICE_BASE == (KernelFirst + 1) * level_size(Top)
IMAGE_BASE == (Fan - 1) * level_size(Top)
USER_STACK == 2 * level_size(2) - 1
USER_DATA_VA == 2 * level_size(2)
USER_CLOCK_VA == USER_DATA_VA + 1
SMAP_TEST_ADDR == 3 * level_size(1)
DEVICE_WINDOW == Fan

UserPage == {v \in Page : v < USER_LIMIT}

(* The image's sections as <<first page, pages, rights>>: text, rodata,    *)
(* data and stack, with a guard page before the stack that no section has. *)
Sections == << <<0, 1, RX>>, <<1, 1, RO>>, <<2, 1, RW>>, <<4, 1, RW>> >>
Guard == 3
ImagePages == 5

LinearPages ==
  LET g == level_size(2) IN ((Frames + g - 1) \div g) * g

(* A loadable segment, in pages, and the pages it takes. *)
Segment == [vaddr : Nat, pages : Nat, write : BOOLEAN, exec : BOOLEAN]
PagesOf(seg) == seg.vaddr .. seg.vaddr + seg.pages - 1

(* The trampoline's page is RAM below 1 MiB, and so under the first root   *)
(* slot, and the image is not there.                                       *)
ASSUME TrampolineAssumption ==
  TRAMPOLINE_PHYS \in ImagePages .. Frames - 1 /\ TRAMPOLINE_PHYS < level_size(Top)

(* A machine: the pool is RAM the image does not take, and the linear map  *)
(* and the screen end before the device window, which vm.rs puts "above    *)
(* the linear map's reach".                                                *)
ASSUME MachinesAssumption ==
  /\ LinearPages <= level_size(Top)
  /\ \A x \in Machines :
       /\ x.pool \subseteq ImagePages .. Frames - 1
       /\ x.gib \in BOOLEAN /\ x.smap \in BOOLEAN
       /\ x.fb.phys \in Nat /\ x.fb.len \in Nat /\ x.fb.phys + x.fb.len <= level_size(Top)
       /\ x.image.entry \in Nat /\ x.image.segments \in Seq(Segment)

(* The embedded program as it is linked (services/init/boot/image.ld): its *)
(* segments on pages of their own, and away from the pages the kernel adds *)
(* to a space.  The loader takes this for granted and never checks it.     *)
ASSUME ImagesAssumption ==
  \A x \in Machines :
    LET seg == x.image.segments
    IN  /\ \A i, j \in DOMAIN seg : i # j => PagesOf(seg[i]) \cap PagesOf(seg[j]) = {}
        /\ \A i \in DOMAIN seg :
             PagesOf(seg[i]) \cap {USER_STACK, USER_DATA_VA, USER_CLOCK_VA} = {}

(* Device registers, in the hole between RAM and the linear map's end. *)
LAPIC == LinearPages - 4
IOAPIC == LinearPages - 3
HPET == LinearPages - 2

VARIABLES
  phase,      \* how far the boot has come; "run" once spaces may be built,
              \* "overwritten" when the trampoline hit a frame that was lent
  mem,        \* memory and the frame pool: see Paging
  pooled,     \* the frames the pool was given
  gib,        \* whether the CPU has 1 GiB pages
  smap,       \* whether CR4.SMAP is on
  fb,         \* the screen
  image,      \* the embedded program
  kroot,      \* tables.root: the kernel's tree
  deviceNext, \* DEVICE_NEXT
  stacks,     \* the frames of the woken cores' stacks
  clock,      \* CLOCK_FRAME, 0 before it is allocated
  space,      \* the spaces: [stage, root, borrowed]
  leaked      \* history: frames of builds that failed

vars == <<phase, mem, pooled, gib, smap, fb, image, kroot, deviceNext, stacks, clock, space,
          leaked>>
machine == <<pooled, gib, smap, fb, image>>

NoSpace == [stage |-> "none", root |-> 0, borrowed |-> {}]

Init ==
  /\ phase = "vm"
  /\ \E x \in Machines :
       /\ pooled = x.pool
       /\ gib = x.gib
       /\ smap = x.smap
       /\ fb = x.fb
       /\ image = x.image
  /\ mem = [table |-> [f \in Frame |-> EmptyTable], bytes |-> [f \in Frame |-> {Kernel}],
            pool |-> pooled, inUse |-> 0, got |-> 0, err |-> "none",
            asked |-> [f \in Frame |-> <<>>]]
  /\ kroot = 0
  /\ deviceNext = 0
  /\ stacks = {}
  /\ clock = 0
  /\ space = [s \in Space |-> NoSpace]
  /\ leaked = {}

(* A memory between operations: no error pending, no frame in hand. *)
Settled(m) == [m EXCEPT !.err = "none", !.got = 0]

(***************************************************************************)
(* The calls to the Mapper.  mem.asked is history: for each root, what its *)
(* tree was asked to map, by page, independent of the tables.              *)
(***************************************************************************)
Overlay(a, b) == [y \in DOMAIN a \cup DOMAIN b |-> IF y \in DOMAIN a THEN a[y] ELSE b[y]]
Noted(m, root, a) == IF Failed(m) THEN m ELSE [m EXCEPT !.asked[root] = Overlay(a, @)]

Map(m, root, v, p, n, r, device) ==
  Noted(map_as(m, root, v, p, n, r, device, gib), root,
        [y \in v .. v + n - 1 |-> Mapping(p + (y - v), r, device)])

Unmap(m, root, v) ==
  [unmap(m, root, v) EXCEPT !.asked[root] = [y \in DOMAIN @ \ {v} |-> @[y]]]

-----------------------------------------------------------------------------
(* vm.rs: the kernel's tree. *)

place(m, root, section) ==
  IF Failed(m) THEN m
  ELSE Map(m, root, IMAGE_BASE + section[1], section[1], section[2], section[3], FALSE)

place_framebuffer(m, root) ==
  IF ~Failed(m) /\ fb.len > 0 /\ fb.phys + fb.len > LinearPages
  THEN Map(m, root, PHYS_MAP_BASE + fb.phys, fb.phys, fb.len, RW, FALSE)
  ELSE m

Writable(t) == t.mapped /\ t.rights.write

verify(m, root) ==
  LET at(v) == translate(m, root, v)
      section(i) == at(IMAGE_BASE + Sections[i][1])
  IN  /\ section(1).mapped /\ section(1).rights.exec /\ ~section(1).rights.write
      /\ Writable(section(4))
      /\ Writable(at(PHYS_MAP_BASE))
      /\ fb.len > 0 => Writable(at(PHYS_MAP_BASE + fb.phys + fb.len - 1))
      /\ section(2).mapped /\ ~section(2).rights.write /\ ~section(2).rights.exec
      /\ section(3).mapped /\ ~section(3).rights.exec
      /\ ~at(0).mapped
      /\ ~at(IMAGE_BASE + Guard).mapped

build_kernel(m, root) ==
  LET linear == Map(m, root, PHYS_MAP_BASE, 0, LinearPages, RW, FALSE)
      text == place(linear, root, Sections[1])
      rodata == place(text, root, Sections[2])
      data == place(rodata, root, Sections[3])
      stack == place(data, root, Sections[4])
  IN  place_framebuffer(stack, root)

(* Load CR3 with the tree, or halt. *)
SwitchTo(root, m) ==
  /\ mem' = Settled(m)
  /\ \/ /\ ~Failed(m) /\ verify(m, root)
        /\ phase' = "smap"
        /\ kroot' = root
     \/ /\ Failed(m) \/ ~verify(m, root)
        /\ phase' = "halt"
        /\ UNCHANGED kroot
  /\ UNCHANGED <<machine, deviceNext, stacks, clock, space, leaked>>

(* vm::init. *)
Rooted(m) == SwitchTo(m.got, build_kernel(m, m.got))
VmInit == phase = "vm" /\ Rooted(alloc_table(mem))

(* vm::selftest_smap: a user page in the kernel's tree, for as long as the *)
(* test lasts.  A failure is reported and the boot goes on.                *)
smap_unmap_MutantLeavesThePage(m, f) == free_frame(m, f)   \* mutant: no unmap

smap_unmap(m, f) ==
  IF Failed(m) THEN free_frame(m, f) ELSE free_frame(Unmap(m, kroot, SMAP_TEST_ADDR), f)
smap_map(m) ==
  IF Failed(m) THEN m
  ELSE smap_unmap(Map(m, kroot, SMAP_TEST_ADDR, m.got, 1, to_user(RW), FALSE), m.got)
selftest_smap(m) == smap_map(alloc_frame(m))

SelftestSmap ==
  /\ phase = "smap"
  /\ phase' = "apic"
  /\ mem' = IF smap THEN Settled(selftest_smap(mem)) ELSE mem
  /\ UNCHANGED <<machine, kroot, deviceNext, stacks, clock, space, leaked>>

(***************************************************************************)
(* vm::map_device, for one page: DEVICE_NEXT advances whether or not the   *)
(* mapping is made.  d carries the memory and the counter.                 *)
(***************************************************************************)
map_window(d, phys) ==
  IF Failed(d.m) THEN d
  ELSE [m |-> IF d.next + 1 > DEVICE_WINDOW THEN Fail(d.m, "WindowFull")
              ELSE Map(d.m, kroot, DEVICE_BASE + d.next, phys, 1, RW, TRUE),
        next |-> d.next + 1]

Window(m, phys) == map_window([m |-> m, next |-> deviceNext], phys)
NoWindow(m) == [m |-> m, next |-> deviceNext]

Proceed(d, ok, then, otherwise) ==
  /\ phase' = IF ok /\ ~Failed(d.m) THEN then ELSE otherwise
  /\ mem' = Settled(d.m)
  /\ deviceNext' = d.next
  /\ UNCHANGED <<machine, kroot, stacks, clock, space, leaked>>

(* kmain without ACPI tables maps nothing; irq::init_apic maps the local   *)
(* APIC, and the I/O APIC if the first came up and the MADT names one.     *)
(* Short of both, kmain stops before the scheduler and ring 3.             *)
InitApic ==
  /\ phase = "apic"
  /\ \/ Proceed(NoWindow(mem), FALSE, "timer", "stop")
     \/ Proceed(Window(mem, LAPIC), FALSE, "timer", "stop")
     \/ Proceed(map_window(Window(mem, LAPIC), IOAPIC), TRUE, "timer", "stop")

(* irq::init_timer: no HPET, one that does not count, or one that does. *)
InitTimer ==
  /\ phase = "timer"
  /\ \/ Proceed(NoWindow(mem), FALSE, "stage", "stop")
     \/ \E counts \in BOOLEAN : Proceed(Window(mem, HPET), counts, "stage", "stop")

(***************************************************************************)
(* smp::start_cores, up to the first message: the stores of the code and   *)
(* its parameters, the identity mapping of the trampoline, then a second   *)
(* window onto the local APIC.  Either mapping may fail, and the boot      *)
(* stays single-core.  One core needs none of it.                          *)
(***************************************************************************)
map_identity(m, v, r) == Map(m, kroot, v, v, 1, r, FALSE)

(* The trampoline's bytes, read as a table: present entries, to anywhere.  *)
Code == [s \in Slot |-> Leaf(0, [RW EXCEPT !.exec = TRUE], FALSE, 0)]
Stored(m) ==
  [m EXCEPT !.table[TRAMPOLINE_PHYS] = Code, !.bytes[TRAMPOLINE_PHYS] = {Kernel}]

(* Whether the pool has handed the trampoline's page to somebody. *)
LentOut(m) == TRAMPOLINE_PHYS \in pooled \ m.pool

Overwrite(m) ==
  /\ phase' = "overwritten"
  /\ mem' = Stored(m)
  /\ UNCHANGED <<machine, kroot, deviceNext, stacks, clock, space, leaked>>

StageTrampoline ==
  /\ phase = "stage"
  /\ \/ LentOut(mem) /\ Overwrite(mem)
     \/ /\ ~LentOut(mem)
        /\ Proceed(Window(map_identity(Stored(mem), TRAMPOLINE_PHYS, [RW EXCEPT !.exec = TRUE]),
                          LAPIC),
                   TRUE, "cores", "user")

OneCore ==
  /\ phase = "stage"
  /\ phase' = "user"
  /\ UNCHANGED <<machine, mem, kroot, deviceNext, stacks, clock, space, leaked>>

(* For each core a stack, or none, and prepare_slot's stores into the page; *)
(* then the identity mapping goes.                                          *)
AllAwake(m) ==
  /\ phase' = "user"
  /\ mem' = Unmap(m, kroot, TRAMPOLINE_PHYS)
  /\ stacks' = mem.pool \ m.pool
  /\ UNCHANGED <<machine, kroot, deviceNext, clock, space, leaked>>
core_stack(m) == Settled(alloc_frames(m, StackPages))
core_stacks(m, n) ==
  LET after[i \in 0 .. n] == IF i = 0 THEN m ELSE core_stack(after[i - 1]) IN after[n]

WakeCores(n) ==
  LET m == core_stacks(mem, n)
  IN  /\ phase = "cores"
      /\ \/ n = 0 /\ AllAwake(m)
         \/ n > 0 /\ ~LentOut(m) /\ AllAwake(Stored(m))
         \/ n > 0 /\ LentOut(m) /\ Overwrite(m)

(* usermode::init: the page every space shares, which holds nobody's bytes. *)
SharedClock(m) ==
  /\ \E enabled \in BOOLEAN : phase' = IF Failed(m) \/ ~enabled THEN "stop" ELSE "run"
  /\ clock' = IF Failed(m) THEN 0 ELSE m.got
  /\ mem' = Settled(m)
UserInit ==
  /\ phase = "user"
  /\ SharedClock(Zeroed(alloc_frame(mem), {}))
  /\ UNCHANGED <<machine, kroot, deviceNext, stacks, space, leaked>>

-----------------------------------------------------------------------------
(* addrspace.rs: building a space, as usermode::build_space orders it. *)

(* AddressSpace::new: an empty root but for the kernel's upper half. *)
WithKernelHalf(m) ==
  IF Failed(m) THEN m
  ELSE [m EXCEPT !.table[m.got] =
          [i \in Slot |-> IF i >= KernelFirst THEN m.table[kroot][i] ELSE @[i]]]
new(m) == WithKernelHalf(Zeroed(alloc_frame(m), {Kernel}))

(* AddressSpace::map, of a fresh zeroed frame. *)
map_got(m, root, v, r) == IF Failed(m) THEN m ELSE Map(m, root, v, m.got, 1, to_user(r), FALSE)

map_fresh(m, s, root, v, r) ==
  map_got(Zeroed(alloc_frame(m), IF r.write THEN {s} ELSE {}), root, v, r)

load_page(m, s, root, seg, i) ==
  IF Failed(m) THEN m
  ELSE map_fresh(m, s, root, seg.vaddr + i - 1,
                 [write |-> seg.write, exec |-> seg.exec, user |-> TRUE])
load_pages(m, s, root, seg) ==
  LET after[i \in 0 .. seg.pages] ==
        IF i = 0 THEN m ELSE load_page(after[i - 1], s, root, seg, i)
  IN  after[seg.pages]

load_segment(m, s, root, seg) ==
  IF Failed(m) THEN m
  ELSE IF is_wx(seg) \/ seg.vaddr >= USER_LIMIT \/ seg.pages > USER_LIMIT - seg.vaddr
  THEN Fail(m, "Refused")
  ELSE load_pages(m, s, root, seg)
load_segments(m, s, root) ==
  LET after[i \in 0 .. Len(image.segments)] ==
        IF i = 0 THEN m ELSE load_segment(after[i - 1], s, root, image.segments[i])
  IN  after[Len(image.segments)]

check_entry(m) == IF ~Failed(m) /\ image.entry >= USER_LIMIT THEN Fail(m, "Refused") ELSE m
load(m, s, root) == check_entry(load_segments(m, s, root))

Idle == \A s \in Space : space[s].stage \in {"none", "live"}

(* History: the frames reached from a root through its lower half, by the  *)
(* definition of the walk, and not the clock.                              *)
TablesOf(m, root, pages) ==
  UNION {LET d == Descent(m, root, v)
         IN  {d[l].to : l \in {k \in 1 .. Top + 1 : d[k].end = "table"}} : v \in pages}
DataOf(m, root, pages) ==
  {translate(m, root, v).phys : v \in {x \in pages : translate(m, root, x).mapped}}
OwnedBy(m, root) == (TablesOf(m, root, UserPage) \cup DataOf(m, root, UserPage)) \ {clock}

(* A step of the build, from one stage to the next.  If it fails the error *)
(* is returned, and the handle to what was built so far is dropped.        *)
BuildStep(s, from, to, root, borrowed, m) ==
  /\ phase = "run"
  /\ space[s].stage = from
  /\ IF Failed(m)
     THEN /\ space' = [space EXCEPT ![s] = NoSpace]
          /\ mem' = [Settled(m) EXCEPT !.asked[root] = IF root = 0 THEN @ ELSE <<>>]
          /\ leaked' = (leaked \cup (mem.pool \ m.pool))
                         \cup (IF root = 0 THEN {} ELSE OwnedBy(m, root))
     ELSE /\ space' = [space EXCEPT ![s] = [stage |-> to, root |-> root, borrowed |-> borrowed]]
          /\ mem' = Settled(m)
          /\ UNCHANGED leaked
  /\ UNCHANGED <<machine, phase, kroot, deviceNext, stacks, clock>>

Begun(s, m) == BuildStep(s, "none", "new", IF Failed(m) THEN 0 ELSE m.got, {}, m)
New(s) == Idle /\ Begun(s, new(mem))

Load(s) ==
  BuildStep(s, "new", "loaded", space[s].root, {}, load(mem, s, space[s].root))

map_stack(m, s, root) == map_fresh(m, s, root, USER_STACK, RW)
MapStack(s) ==
  BuildStep(s, "loaded", "stacked", space[s].root, {}, map_stack(mem, s, space[s].root))

seed_id(m, s, root) == map_fresh(m, s, root, USER_DATA_VA, RW)
SeedId(s) ==
  BuildStep(s, "stacked", "seeded", space[s].root, {}, seed_id(mem, s, space[s].root))

(* Mutant: the shared page is mapped for writing too. *)
map_clock_MutantWritable(m, root) == Map(m, root, USER_CLOCK_VA, clock, 1, to_user(RW), FALSE)

map_clock(m, root) == Map(m, root, USER_CLOCK_VA, clock, 1, to_user(RO), FALSE)
MapClock(s) ==
  BuildStep(s, "seeded", "built", space[s].root, {clock}, map_clock(mem, space[s].root))

(* sched::spawn_user takes the space, or refuses it for want of heap or of *)
(* a slot, and then nobody holds it.                                       *)
Spawn(s) ==
  /\ space[s].stage = "built"
  /\ \/ /\ space' = [space EXCEPT ![s].stage = "live"]
        /\ UNCHANGED <<mem, leaked>>
     \/ /\ space' = [space EXCEPT ![s] = NoSpace]
        /\ leaked' = leaked \cup OwnedBy(mem, space[s].root)
        /\ mem' = [mem EXCEPT !.asked[space[s].root] = <<>>]
  /\ UNCHANGED <<machine, phase, kroot, deviceNext, stacks, clock>>

-----------------------------------------------------------------------------
(* AddressSpace::destroy. *)

(* The entries free_level visits at each level: every slot of each table   *)
(* found in the level above, and of the root only the lower half.          *)
Visited(m, root) ==
  LET Entry(q) == m.table[q[1]][q[2]]
      at[l \in 0 .. Top] ==
        IF l = Top THEN {root} \X (0 .. KernelFirst - 1)
        ELSE {Entry(q).to : q \in {x \in at[l + 1] : Entry(x).present /\ ~Entry(x).huge}} \X Slot
  IN  at

(* Mutant: the borrowed frame is freed with the rest. *)
free_level_MutantFreesBorrowed(m, root, borrowed) ==
  UNION {{q \in Visited(m, root)[l] : m.table[q[1]][q[2]].present} : l \in 0 .. Top}

(* What free_level frees: each table it went into, and each leaf but the   *)
(* borrowed frame.                                                         *)
free_level(m, root, borrowed) ==
  LET Entry(q) == m.table[q[1]][q[2]]
      at == Visited(m, root)
      IsLeaf(q, l) == l = 0 \/ Entry(q).huge
  IN  UNION {{q \in at[l] : /\ Entry(q).present
                            /\ IsLeaf(q, l) => Entry(q).to \notin borrowed} : l \in 0 .. Top}

destroy(m, root, borrowed) ==
  LET freed == free_level(m, root, borrowed)
      frames == {m.table[q[1]][q[2]].to : q \in freed}
  IN  [m EXCEPT !.pool = @ \cup frames \cup {root}, !.inUse = @ - (Cardinality(freed) + 1),
                !.asked[root] = <<>>]

(* The reaper, on a core that has left the tree. *)
Destroy(s) ==
  /\ Idle
  /\ space[s].stage = "live"
  /\ mem' = destroy(mem, space[s].root, space[s].borrowed)
  /\ space' = [space EXCEPT ![s] = NoSpace]
  /\ UNCHANGED <<machine, phase, kroot, deviceNext, stacks, clock, leaked>>

-----------------------------------------------------------------------------
Boot ==
  \/ VmInit \/ SelftestSmap \/ InitApic \/ InitTimer \/ StageTrampoline \/ OneCore
  \/ \E n \in 0 .. 2 : WakeCores(n)
  \/ UserInit

Next ==
  \/ Boot
  \/ \E s \in Space : \/ New(s) \/ Load(s) \/ MapStack(s) \/ SeedId(s) \/ MapClock(s)
                       \/ Spawn(s) \/ Destroy(s)

Spec == Init /\ [][Next]_vars

(* AddressSpace::range_ok, in bytes. *)
range_ok(m, root, ptr, len, write) ==
  \/ len = 0
  \/ /\ ptr < USER_LIMIT * PageBytes
     /\ len <= USER_LIMIT * PageBytes - ptr
     /\ \A v \in ptr \div PageBytes .. (ptr + len - 1) \div PageBytes :
          LET t == translate(m, root, v)
          IN  t.mapped /\ t.rights.user /\ (write => t.rights.write)

-----------------------------------------------------------------------------
Held == {s \in Space : space[s].stage # "none"}
(* The trampoline was copied over a frame that the pool had lent. *)
Overwritten == phase = "overwritten" /\ LentOut(mem)

Trees == (IF kroot = 0 THEN {} ELSE {kroot}) \cup {space[s].root : s \in Held}

(* What a tree was asked for: in the kernel half, what the kernel was. *)
Asked(a, v) == IF v \in DOMAIN a THEN a[v] ELSE Unmapped
AskedOf(root, v) == Asked(mem.asked[IF v >= USER_LIMIT THEN kroot ELSE root], v)

(* Every tree resolves every page to exactly what was asked for it: the frame, the rights  *)
(* the walk computes, the cacheability; and nothing to a page nobody asked for.  Large     *)
(* pages, widened tables, frames recycled from trees torn down and the copied upper half   *)
(* make no difference (paging translate, map_as; addrspace new).  Not asked of a memory    *)
(* the trampoline was copied into while the pool had lent that page to somebody.           *)
ResolvesAsAsked ==
  Overwritten \/ \A root \in Trees : \A v \in Page : translate(mem, root, v) = AskedOf(root, v)

(* Every frame the pool has given out is a table of the kernel's tree, a core's stack, the *)
(* clock, a frame some space reaches, or was lost by a build that failed: tearing a space  *)
(* down returns all it took and nothing else, and IN_USE counts exactly those frames       *)
(* (destroy, free_level, mem::frames_in_use).                                              *)
Accounted ==
  LET held == (IF kroot = 0 THEN {} ELSE TablesOf(mem, kroot, Page))
              \cup stacks \cup ({clock} \ {0}) \cup leaked
              \cup UNION {OwnedBy(mem, space[s].root) : s \in Held}
  IN  phase # "halt" /\ ~Overwritten =>
                        /\ mem.pool = pooled \ held
                        /\ mem.inUse = Cardinality(pooled) - Cardinality(mem.pool)

(* What ring 3 can reach in a space is the space's own: frames no other tree uses as a     *)
(* table or maps for another program, or the clock, read-only.                             *)
ReachesItsOwn ==
  LET tables == UNION {TablesOf(mem, root, Page) : root \in Trees}
      data == [s \in Held |-> DataOf(mem, space[s].root, UserPage)]
      others == [s \in Held |-> UNION {data[u] : u \in Held \ {s}}]
  IN  \A s \in Held : \A v \in Page :
        LET t == translate(mem, space[s].root, v)
        IN  t.mapped /\ t.rights.user =>
              \/ t.phys = clock /\ ~t.rights.write
              \/ t.phys \in data[s] \ (mem.pool \cup stacks \cup {clock} \cup tables \cup others[s])

(* A page handed to ring 3 holds no byte of another program or of the kernel: frames are   *)
(* recycled uncleared, and every path that maps one clears it first (load, map_stack,      *)
(* seed_id, usermode::init).                                                               *)
NoForeignBytes ==
  \A s \in Held : \A v \in UserPage :
     LET t == translate(mem, space[s].root, v)
     IN  t.mapped => mem.bytes[t.phys] \subseteq {s}

(* No page of any tree is both writable and executable, but the trampoline's while cores   *)
(* are woken; and once ring 3 can run, the kernel's tree maps nothing below the user limit,*)
(* neither the self-test's page nor the trampoline's (selftest_smap, unmap_identity).      *)
NothingLeftBehind ==
  /\ ~Overwritten => \A root \in Trees : \A v \in Page :
       is_wx(translate(mem, root, v).rights) => phase = "cores" /\ v = TRAMPOLINE_PHYS
  /\ phase = "run" => \A v \in UserPage : ~translate(mem, kroot, v).mapped

(* The check a system call makes of a pointer and a length is exact: it accepts a range    *)
(* if and only if every byte of it is one the program asked to have, with the right to     *)
(* write it if that is what is wanted, whatever the offsets and at the user limit.         *)
RangesExact ==
  \A s \in {t \in Held : space[t].stage = "built"} :
    LET root == space[s].root
        near == Page \cap UNION {{v - 1, v, v + 1} : v \in DOMAIN mem.asked[root] \cup {USER_LIMIT}}
    IN  \A ptr \in UNION {v * PageBytes .. v * PageBytes + PageBytes - 1 : v \in near} :
          \A len \in 0 .. 2 * PageBytes + 1 : \A write \in BOOLEAN :
            range_ok(mem, root, ptr, len, write)
              <=> \A b \in ptr .. ptr + len - 1 :
                    LET a == AskedOf(root, b \div PageBytes)
                    IN  a.mapped /\ a.rights.user /\ (write => a.rights.write)

(* What a program can reach, by itself or through a system call it gives a pointer to, is  *)
(* its own: the frames, the bytes in them, and the ranges the kernel accepts.              *)
OnlyItsOwn == ReachesItsOwn /\ NoForeignBytes /\ RangesExact

(* stage_trampoline's argument for its stores (smp.rs:128): "a physical page below 1 MiB   *)
(* reached through the linear map, which the memory map marks reserved and the frame pool  *)
(* therefore never hands out".                                                             *)
TrampolineNeverHandedOut == phase \in {"cores", "overwritten"} => ~LentOut(mem)
=============================================================================
