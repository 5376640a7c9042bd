----------------------------- MODULE MemoryMap -----------------------------
(***************************************************************************)
(* The physical memory map on its way from the firmware to the kernel:     *)
(* crates/boot-uefi/src/memmap.rs, which turns the firmware's descriptors  *)
(* into regions, and the arithmetic of crates/bootinfo/src/lib.rs over     *)
(* regions, whose free runs become the frame pool.                         *)
(*                                                                         *)
(* An address is a number of units, PAGE_SIZE of them to a page.  ADDR_MAX *)
(* is the largest address a 64-bit word holds.                             *)
(***************************************************************************)
EXTENDS Integers, Sequences, FiniteSets, FiniteSetsExt, SequencesExt

CONSTANTS PAGE_SIZE, ADDR_MAX, GIB

ASSUME MemoryMapAssumption ==
  /\ {PAGE_SIZE, ADDR_MAX, GIB} \subseteq Nat \ {0}
  /\ GIB % PAGE_SIZE = 0

saturating(n) == IF n > ADDR_MAX THEN ADDR_MAX ELSE n
UpTo(n, size) == ((n + size - 1) \div size) * size
pages_for(n) == UpTo(n, PAGE_SIZE) \div PAGE_SIZE

-----------------------------------------------------------------------------
(* What the firmware says of a page, and what that means to the kernel.    *)

UefiType == {"RESERVED", "LOADER_CODE", "LOADER_DATA", "BOOT_SERVICES", "RUNTIME_SERVICES",
             "CONVENTIONAL", "UNUSABLE", "ACPI_RECLAIM", "ACPI_NVS", "MMIO"}

(* Mutant: what the loader allocated counts as free memory. *)
classify_MutantLoaderUsable(ty) ==
  CASE ty \in {"CONVENTIONAL", "LOADER_DATA"} -> "Usable"
    [] ty = "ACPI_RECLAIM" -> "AcpiReclaimable"
    [] ty = "ACPI_NVS" -> "AcpiNvs"
    [] ty = "UNUSABLE" -> "BadMemory"
    [] ty = "LOADER_CODE" -> "LoaderReclaimable"
    [] OTHER -> "Reserved"

classify(ty) ==
  CASE ty = "CONVENTIONAL" -> "Usable"
    [] ty = "ACPI_RECLAIM" -> "AcpiReclaimable"
    [] ty = "ACPI_NVS" -> "AcpiNvs"
    [] ty = "UNUSABLE" -> "BadMemory"
    [] ty \in {"LOADER_CODE", "LOADER_DATA"} -> "LoaderReclaimable"
    [] OTHER -> "Reserved"

(* MMIO stands for MMIO, MMIO_PORT and PAL_CODE. *)
IsMemory(ty) == ty \notin {"RESERVED", "MMIO"}

Region(start, len, kind) == [start |-> start, len |-> len, kind |-> kind]
end(r) == saturating(r.start + r.len)
usable_at_boot(r) == r.kind = "Usable"

(***************************************************************************)
(* convert.  A descriptor is [ty, phys, pages]; the walk by the firmware's *)
(* stride is the walk of a sequence.                                       *)
(***************************************************************************)
Converting == [regions |-> <<>>, full |-> FALSE]

Coalesces(regions, phys, kind) ==
  regions # <<>> /\ Last(regions).kind = kind /\ end(Last(regions)) = phys

ConvertStep(acc, d, room) ==
  LET len == saturating(d.pages * PAGE_SIZE)
      kind == classify(d.ty)
      n == Len(acc.regions)
  IN  IF acc.full \/ len = 0 THEN acc
      ELSE IF Coalesces(acc.regions, d.phys, kind)
           THEN [acc EXCEPT !.regions[n].len = saturating(@ + len)]
      ELSE IF n = room THEN [acc EXCEPT !.full = TRUE]
      ELSE [acc EXCEPT !.regions = Append(@, Region(d.phys, len, kind))]

convert(map, room) == FoldLeft(LAMBDA acc, d : ConvertStep(acc, d, room), Converting, map)

(* Mutant: only what will be handed out counts, so tables above it do not. *)
highest_ram_address_MutantUsableOnly(map) ==
  LET tops == {saturating(map[i].phys + saturating(map[i].pages * PAGE_SIZE)) :
                 i \in {j \in DOMAIN map : map[j].ty = "CONVENTIONAL"}}
      hi == Max(tops \cup {0})
  IN  saturating(UpTo(hi, GIB))

(* Rounded up to a GiB; a rounding that would overflow is the top itself.  *)
highest_ram_address(map) ==
  LET tops == {saturating(map[i].phys + saturating(map[i].pages * PAGE_SIZE)) :
                 i \in {j \in DOMAIN map : IsMemory(map[j].ty)}}
      hi == Max(tops \cup {0})
  IN  saturating(UpTo(hi, GIB))

-----------------------------------------------------------------------------
(* Over regions: summarise and free_runs. *)

Described(regions) == {regions[i] : i \in {j \in DOMAIN regions : regions[j].len > 0}}
Tops(rs) == Max({end(r) : r \in rs} \cup {0})
AddLen(n, r) == saturating(n + r.len)
AddUsable(n, r) == IF usable_at_boot(r) THEN AddLen(n, r) ELSE n

summarise(regions) ==
  [usable |-> FoldLeft(AddUsable, 0, regions),
   total |-> FoldLeft(AddLen, 0, regions),
   highest |-> Tops(Described(regions)),
   highest_ram |-> Tops({r \in Described(regions) : r.kind # "Reserved"})]

(***************************************************************************)
(* free_runs.  `out' holds <<start, end>> while exclusions are carved and  *)
(* <<start, len>> after the compaction; entries past the compacted ones    *)
(* keep whatever they held.  An exclusion is <<start, len>>.               *)
(***************************************************************************)
Bounds(r) == <<r.start, end(r)>>

FillRun(acc, r) ==
  IF ~usable_at_boot(r) \/ r.len = 0 THEN acc
  ELSE [acc EXCEPT !.n = @ + 1,
                   !.out = IF acc.n < Len(@) THEN [@ EXCEPT ![acc.n + 1] = Bounds(r)] ELSE @]

Least(a, b) == IF a < b THEN a ELSE b
Greatest(a, b) == IF a < b THEN b ELSE a

NoRuns(room) == [out |-> [i \in 1 .. room |-> <<0, 0>>], live |-> 0, n |-> 0]
Filled(regions, room) ==
  LET all == FoldLeft(FillRun, NoRuns(room), regions) IN [all EXCEPT !.live = Least(all.n, room)]

Length(piece) == piece[2] - piece[1]

Split(acc, i, left, right) ==
  CASE Length(left) > 0 /\ Length(right) > 0 /\ acc.live < Len(acc.out) ->
         [acc EXCEPT !.out[i] = left, !.out[acc.live + 1] = right, !.live = @ + 1]
    [] Length(left) > 0 /\ Length(right) > 0 /\ acc.live = Len(acc.out) ->
         [acc EXCEPT !.out[i] = IF Length(left) >= Length(right) THEN left ELSE right]
    [] Length(left) > 0 /\ Length(right) = 0 -> [acc EXCEPT !.out[i] = left]
    [] Length(left) = 0 /\ Length(right) > 0 -> [acc EXCEPT !.out[i] = right]
    [] OTHER -> [acc EXCEPT !.out[i] = <<@[1], @[1]>>]

CarveRun(acc, i, from, to) ==
  LET s == acc.out[i][1]
      e == acc.out[i][2]
  IN  IF to <= s \/ from >= e THEN acc
      ELSE Split(acc, i, <<s, Least(Greatest(from, s), e)>>, <<Greatest(Least(to, e), s), e>>)

Carve(acc, ex) ==
  LET to == saturating(ex[1] + ex[2])
      step(a, i) == CarveRun(a, i, ex[1], to)
  IN  IF to <= ex[1] THEN acc
      ELSE FoldLeft(step, acc, [i \in 1 .. acc.live |-> i])

Keep(acc, i) ==
  IF Length(acc.out[i]) > 0
  THEN [acc EXCEPT !.out[acc.kept + 1] = <<acc.out[i][1], Length(acc.out[i])>>, !.kept = @ + 1]
  ELSE acc

Compacted(acc) ==
  FoldLeft(Keep, [out |-> acc.out, kept |-> 0], [i \in 1 .. acc.live |-> i])

Carved(regions, exclusions, room) == FoldLeft(Carve, Filled(regions, room), exclusions)

FreeRuns(c, k) == [out |-> k.out, found |-> k.kept + Greatest(c.n - Len(c.out), 0)]

free_runs(regions, exclusions, room) ==
  LET c == Carved(regions, exclusions, room) IN FreeRuns(c, Compacted(c))

(* The runs a caller takes: `found' of them, or as many as there is room for. *)
Taken(f) == [i \in 1 .. Least(f.found, Len(f.out)) |-> f.out[i]]
=============================================================================
