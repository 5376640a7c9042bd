-------------------------------- MODULE Boot --------------------------------
(***************************************************************************)
(* From power-on to a kernel that owns its memory: the UEFI loader         *)
(* (crates/boot-uefi/src: boot.rs, fs.rs, alloc.rs, paging.rs), the        *)
(* hand-off (crates/bootinfo), and the first half of kmain: mem::init and  *)
(* acpi::discover (crates/kernel/src).                                     *)
(*                                                                         *)
(* The other actor is the firmware, whose own events may allocate or free  *)
(* a page between any two of the loader's steps until ExitBootServices     *)
(* succeeds, which changes the memory map and makes its key stale.         *)
(***************************************************************************)
EXTENDS Elf, Acpi

CONSTANTS
  Pages,                  \* pages of physical address space the firmware describes
  KERNEL_VMA, MIN_MAPPED, MAP_SLACK_DESCRIPTORS, EXIT_ATTEMPTS,
  MAX_REGIONS, MAX_FREE_RUNS, HEAP_SLACK,
  DESC, REGION, INFO,     \* sizes of a descriptor, a MemoryRegion, a BootInfo
  Machines                \* the machines to boot; the fields are read below

PhysPage == 0 .. Pages - 1
Place == {"file", "initrd", "kernel", "probe", "info", "map", "regions"}

ASSUME BootAssumption ==
  /\ {Pages, KERNEL_VMA, MIN_MAPPED, EXIT_ATTEMPTS, MAX_REGIONS, MAX_FREE_RUNS, DESC, REGION, INFO}
       \subseteq Nat \ {0}
  /\ {MAP_SLACK_DESCRIPTORS, HEAP_SLACK} \subseteq Nat
  /\ REGION <= DESC /\ INFO <= PAGE_SIZE
  /\ MIN_MAPPED % GIB = 0 /\ KERNEL_VMA % PAGE_SIZE = 0
  /\ Pages * PAGE_SIZE <= ADDR_MAX
  /\ \A x \in Machines :
       x.ram \in [PhysPage -> UefiType \cup {"HOLE"}] /\ x.file.len \in Nat /\ x.initrd.len \in Nat

(* What the firmware lists beyond its pages lies beyond them, or is empty. *)
ASSUME ExtraAssumption ==
  \A x \in Machines :
    /\ x.extra \in Seq([ty : UefiType, phys : Nat, pages : Nat])
    /\ \A i \in DOMAIN x.extra : x.extra[i].pages = 0 \/ x.extra[i].phys >= Pages * PAGE_SIZE

(* Nor is it memory to be given out, if there is any of it.                *)
ASSUME ExtraKindAssumption ==
  \A x \in Machines : \A i \in DOMAIN x.extra :
    x.extra[i].pages = 0 \/ x.extra[i].ty # "CONVENTIONAL"

(* The kernel is linked with each segment on pages of its own (linker.ld   *)
(* begins and ends every section on a page).                               *)
SegmentPage(p) == p.vaddr \div PAGE_SIZE .. p.vaddr \div PAGE_SIZE + SegPages(p) - 1
ASSUME LinkAssumption ==
  \A x \in Machines :
    /\ segments(x.file.elf) \in Seq([load : BOOLEAN, write : BOOLEAN, exec : BOOLEAN,
                                      offset : Nat, vaddr : Nat, filesz : Nat, memsz : Nat])
    /\ \A s, t \in DOMAIN segments(x.file.elf) :
         s # t => SegmentPage(segments(x.file.elf)[s]) \cap SegmentPage(segments(x.file.elf)[t]) = {}

VARIABLES
  machine,    \* the machine: what its firmware, its ESP and its tables hold
  ram,        \* the firmware's own record: the type of each page
  stale,      \* whether the map has changed since its key was last given
  stage,      \* the loader's, then the kernel's, next step
  why,        \* why the boot stopped, or "none"
  rsdp, fb,   \* what was found before any file was read
  place,      \* where each of the loader's allocations is: a page, 0 for none
  tables,     \* the pages of the loader's page-table tree
  seg,        \* the next segment to place
  image,      \* what the kernel's block holds, unit by unit
  ktree,      \* the loader's tree at KERNEL_VMA: page -> [page, write, exec]
  linear,     \* the physical pages its identity and linear maps cover
  room,       \* [map, regions]: how many entries the two buffers hold
  attempt, map,
  info,       \* the BootInfo
  layout,     \* what mem::init worked out: [heap, pool, truncated, highest_ram]
  facts       \* what acpi::discover found

vars == <<machine, ram, stale, stage, why, rsdp, fb, place, tables, seg, image, ktree, linear,
          room, attempt, map, info, layout, facts>>

Found == <<rsdp, fb>>
Leaving == <<attempt, map>>
KernelVars == <<info, layout, facts>>
TreeVars == <<seg, image, ktree, linear>>

NoFb == [phys |-> 0, width |-> 0, height |-> 0, stride |-> 0]
NoInfo == [memory_map |-> 0, regions |-> <<>>, framebuffer |-> NoFb, rsdp |-> 0, initrd |-> 0,
           initrd_len |-> 0, kernel_phys |-> 0, kernel_len |-> 0]
NoLayout == [heap |-> <<0, 0>>, pool |-> {}, truncated |-> 0, usable |-> 0, highest_ram |-> 0]

Init ==
  /\ machine \in Machines
  /\ ram = machine.ram
  /\ stale = TRUE
  /\ stage = "start"
  /\ why = "none"
  /\ rsdp = None /\ fb = NoFb
  /\ place = [x \in Place |-> 0]
  /\ tables = {}
  /\ seg = 1 /\ image = <<>> /\ ktree = <<>> /\ linear = {}
  /\ room = [map |-> 0, regions |-> 0]
  /\ attempt = 0 /\ map = <<>>
  /\ info = NoInfo /\ layout = NoLayout /\ facts = NoFacts

-----------------------------------------------------------------------------
(* The firmware (external).  AllocatePages gives the highest or the lowest *)
(* run that fits, never page 0, an address the BootInfo reads as absent;   *)
(* GetMemoryMap reports runs of a type or page by page, upwards or         *)
(* downwards, then entries for what is not RAM.                            *)

FreeAt(n) == {p \in PhysPage \ {0} : p + n <= Pages /\ \A q \in p .. p + n - 1 : ram[q] = "CONVENTIONAL"}
AllocAt(n) ==
  CHOOSE p \in FreeAt(n) : \A q \in FreeAt(n) : IF machine.fromTop THEN q <= p ELSE p <= q
Marked(p, n) == [q \in PhysPage |-> IF q \in p .. p + n - 1 THEN "LOADER_DATA" ELSE ram[q]]

IsStart(p) == p = 0 \/ machine.split \/ ram[p] # ram[p - 1]
RunLen(p) == Min({q \in p + 1 .. Pages : q = Pages \/ IsStart(q)}) - p
Descriptor(p) == [ty |-> ram[p], phys |-> p * PAGE_SIZE, pages |-> RunLen(p)]
Reported(list, p) == IF ram[p] # "HOLE" /\ IsStart(p) THEN Append(list, Descriptor(p)) ELSE list
Order == [i \in 1 .. Pages |-> IF machine.downwards THEN Pages - i ELSE i - 1]
GetMemoryMap == FoldLeft(Reported, <<>>, Order) \o machine.extra

(* A firmware event: one of its own pages comes or goes. *)
BeforeExit == {"start", "volume", "kernel file", "initrd", "parse", "tables", "segments", "probe",
               "probe read", "maps", "info", "size", "array", "take", "exit"}

FirmwareActs ==
  /\ stage \in BeforeExit
  /\ \E p \in machine.noisy :
       /\ ram[p] \in {"CONVENTIONAL", "BOOT_SERVICES"}
       /\ ram' = [ram EXCEPT ![p] = IF @ = "CONVENTIONAL" THEN "BOOT_SERVICES" ELSE "CONVENTIONAL"]
  /\ stale' = TRUE
  /\ UNCHANGED <<machine, stage, why, Found, place, tables, TreeVars, room, Leaving, KernelVars>>

-----------------------------------------------------------------------------
(* The loader.  alloc_pages gives n pages of LOADER_DATA, zeroed; any      *)
(* failure ends the boot, which is what the code's `?' does.               *)

Stop(reason) ==
  /\ stage' = "stopped"
  /\ why' = reason
  /\ UNCHANGED <<machine, ram, stale, Found, place, tables, TreeVars, room, Leaving, KernelVars>>

Goto(s) == stage' = s /\ UNCHANGED <<machine, why, KernelVars>>

(* Where n pages are given: nowhere if there are none.  Given(p, n) gives  *)
(* them there.                                                             *)
alloc_pages(n) == IF n = 0 \/ FreeAt(n) = {} THEN {} ELSE {AllocAt(n)}
Given(p, n) == ram' = Marked(p, n) /\ stale' = TRUE

AllocPlace(what, count, failure, next, rest) ==
  \E n \in {count} :
    \/ alloc_pages(n) = {} /\ Stop(failure)
    \/ \E p \in alloc_pages(n) :
         /\ Given(p, n)
         /\ place' = [place EXCEPT ![what] = p]
         /\ Goto(next)
         /\ UNCHANGED <<Found, tables, Leaving>>
         /\ rest

(* find_rsdp: the last of the 1.0 entries, unless there is a 2.0 one. *)
find_rsdp(config) ==
  LET named(g) == SelectSeq(config, LAMBDA e : e.guid = g)
  IN  IF named("ACPI2") # <<>> THEN named("ACPI2")[1].table
      ELSE IF named("ACPI1") # <<>> THEN Last(named("ACPI1")).table
      ELSE None

bytes(f) == f.height * f.stride
is_sane(f) == f.phys # 0 /\ f.width > 0 /\ f.height > 0 /\ f.stride >= f.width

(* locate_framebuffer; a pixel is one unit, and only a linear mode counts. *)
locate_framebuffer(gop) ==
  LET f == [phys |-> gop.base, width |-> gop.width, height |-> gop.height, stride |-> gop.line]
  IN  IF gop.linear /\ is_sane(f) THEN f ELSE NoFb

(* The firmware keeps its tables, and their root, in memory it types as    *)
(* ACPI's, which no allocation takes: what kernel/acpi.rs counts on when   *)
(* it reads them after the pool is built.                                  *)
TableAddresses(x) == (DOMAIN x.acpi.at) \cup ({find_rsdp(x.config)} \ {None})
ASSUME TablesAssumption ==
  \A x \in Machines : \A a \in TableAddresses(x) :
    /\ a \div PAGE_SIZE \in PhysPage
    /\ x.ram[a \div PAGE_SIZE] \in {"ACPI_RECLAIM", "ACPI_NVS"}

(* A screen is a device aperture, aligned to its size as those are, so     *)
(* within one gigabyte: the loader asks only where it begins when it       *)
(* decides whether the linear map has it.                                  *)
ASSUME ScreenAssumption ==
  \A x \in Machines :
    LET f == locate_framebuffer(x.gop)
    IN  f # NoFb =>
          /\ f.phys \in Nat /\ bytes(f) \in Nat \ {0}
          /\ f.phys + bytes(f) <= ADDR_MAX
          /\ f.phys \div GIB = (f.phys + bytes(f) - 1) \div GIB

Survey ==
  /\ stage = "start"
  /\ rsdp' = find_rsdp(machine.config)
  /\ fb' = locate_framebuffer(machine.gop)
  /\ Goto("volume")
  /\ UNCHANGED <<ram, stale, place, tables, TreeVars, room, Leaving>>

OpenVolume ==
  /\ stage = "volume"
  /\ IF machine.volume
     THEN Goto("kernel file") /\ UNCHANGED <<ram, stale, Found, place, tables, TreeVars, room, Leaving>>
     ELSE Stop("open volume")

(* read_file: open, size, allocate, read.  A file is [opens, len, got].    *)
ReadFile(file, what, next) ==
  IF file.len = 0 THEN Stop("empty file")
  ELSE IF file.got # file.len THEN Stop("short read")
  ELSE AllocPlace(what, pages_for(file.len), "allocate file", next, UNCHANGED <<TreeVars, room>>)

ReadKernel ==
  /\ stage = "kernel file"
  /\ IF ~machine.file.opens THEN Stop("open kernel")
     ELSE ReadFile(machine.file, "file", "initrd")

(* A missing initramfs is no error; a broken one is. *)
ReadInitrd ==
  /\ stage = "initrd"
  /\ IF ~machine.initrd.opens
     THEN Goto("parse") /\ UNCHANGED <<ram, stale, Found, place, tables, TreeVars, room, Leaving>>
     ELSE ReadFile(machine.initrd, "initrd", "parse")

elf == machine.file.elf
Span == load_span(elf)

(* Elf::parse and load_span, and the block the whole span needs, zeroed. *)
ParseKernel ==
  /\ stage = "parse"
  /\ IF parse(elf) # "none" THEN Stop(parse(elf))
     ELSE IF Span.err # "none" THEN Stop(Span.err)
     ELSE IF Span.base # KERNEL_VMA THEN Stop("not linked at KERNEL_VMA")
     ELSE AllocPlace("kernel", pages_for(Span.size), "allocate kernel image", "tables",
                     /\ image' = [u \in 0 .. Span.size - 1 |-> <<0, 0>>]
                     /\ UNCHANGED <<seg, ktree, linear, room>>)

(* One page of tables for the root, and one for every map call: how many   *)
(* a call really takes is in Paging.                                       *)
TakeTable(next, rest) ==
  \/ alloc_pages(1) = {} /\ Stop("allocate page table")
  \/ \E p \in alloc_pages(1) :
       /\ Given(p, 1)
       /\ tables' = tables \cup {p}
       /\ Goto(next)
       /\ UNCHANGED <<Found, place, room, Leaving>>
       /\ rest

NewTables ==
  /\ stage = "tables"
  /\ TakeTable("segments", UNCHANGED TreeVars)

(* Byte k of segment s is <<s, k>>; <<0, 0>> is a zeroed byte. *)
Copied(p, s, from) ==
  [u \in DOMAIN image |-> IF u \in from .. from + p.filesz - 1 THEN <<s, u - from>> ELSE image[u]]

SegRights(p, page) == [page |-> page, write |-> p.write /\ ~p.exec, exec |-> p.exec]

MappedSegment(p, from) ==
  LET dest == place["kernel"] + (from \div PAGE_SIZE) - (p.vaddr \div PAGE_SIZE)
  IN  [q \in DOMAIN ktree \cup SegmentPage(p) |->
         IF q \in SegmentPage(p) THEN SegRights(p, dest + q) ELSE ktree[q]]

PlaceAt(p, base) ==
  TakeTable("segments",
            /\ image' = Copied(p, seg, p.vaddr - base)
            /\ ktree' = MappedSegment(p, p.vaddr - base)
            /\ seg' = seg + 1
            /\ UNCHANGED linear)

PlaceSegment ==
  /\ stage = "segments"
  /\ seg <= Len(segments(elf))
  /\ \E p \in {segments(elf)[seg]}, base \in {Span.base} :
       IF seg_is_wx(p) THEN Stop("writable and executable segment") ELSE PlaceAt(p, base)

AllPlaced ==
  /\ stage = "segments"
  /\ seg > Len(segments(elf))
  /\ Goto("probe")
  /\ UNCHANGED <<ram, stale, Found, place, tables, TreeVars, room, Leaving>>

(* The probe: its size is asked, a buffer allocated, and the map read into *)
(* it, which by then may have grown.                                       *)
ProbeRoom == (pages_for(Len(GetMemoryMap) * DESC) * PAGE_SIZE) \div DESC

SizeProbe ==
  /\ stage = "probe"
  /\ AllocPlace("probe", pages_for(Len(GetMemoryMap) * DESC), "allocate probe map", "probe read",
                room' = [room EXCEPT !.map = ProbeRoom] /\ UNCHANGED TreeVars)

(* What the identity and linear maps cover, in bytes. *)
Mapped(m) == Greatest(highest_ram_address(m), MIN_MAPPED)
PagesOf(from, to) == {p \in 0 .. ADDR_MAX \div PAGE_SIZE : from <= p * PAGE_SIZE /\ p * PAGE_SIZE < to}

ReadProbe ==
  /\ stage = "probe read"
  /\ IF Len(GetMemoryMap) > room.map THEN Stop("probe map too small")
     ELSE /\ \E m \in {GetMemoryMap} : \E top \in {Mapped(m)} : linear' = PagesOf(0, top)
          /\ stale' = FALSE
          /\ Goto("maps")
          /\ UNCHANGED <<ram, Found, place, tables, seg, image, ktree, room, Leaving>>

FbBase == fb.phys - (fb.phys % PAGE_SIZE)
FbEnd == UpTo(fb.phys + bytes(fb), PAGE_SIZE)
FbPages == IF is_sane(fb) THEN PagesOf(FbBase, FbEnd) ELSE {}

(* The screen, when it begins above what is mapped. *)
ExtraFb == IF is_sane(fb) /\ FbBase \div PAGE_SIZE \notin linear THEN FbPages ELSE {}

BuildMaps ==
  /\ stage = "maps"
  /\ TakeTable("info", linear' = linear \cup ExtraFb /\ UNCHANGED <<seg, image, ktree>>)

AllocInfo ==
  /\ stage = "info"
  /\ AllocPlace("info", 1, "allocate boot info", "size", UNCHANGED <<TreeVars, room>>)

(* Room for the map as it is now and MAP_SLACK_DESCRIPTORS more, in whole  *)
(* pages; then one region for every descriptor that fits in that.          *)
MapPages == pages_for((Len(GetMemoryMap) + MAP_SLACK_DESCRIPTORS) * DESC)
MapRoom == (MapPages * PAGE_SIZE) \div DESC

SizeMap ==
  /\ stage = "size"
  /\ AllocPlace("map", MapPages, "allocate memory map", "array",
                room' = [room EXCEPT !.map = MapRoom] /\ UNCHANGED TreeVars)

RegionRoom == room.map

AllocRegions ==
  /\ stage = "array"
  /\ AllocPlace("regions", pages_for(RegionRoom * REGION), "allocate region array", "take",
                room' = [room EXCEPT !.regions = RegionRoom] /\ UNCHANGED TreeVars)

(* The map is taken, then the firmware is left with its key.  No step of   *)
(* this loop allocates.                                                    *)
TakeMap ==
  /\ stage = "take"
  /\ IF Len(GetMemoryMap) > room.map THEN Stop("memory map outgrew its buffer")
     ELSE /\ attempt' = attempt + 1
          /\ map' = GetMemoryMap
          /\ stale' = FALSE
          /\ Goto("exit")
          /\ UNCHANGED <<ram, Found, place, tables, TreeVars, room>>

LeaveFirmware ==
  /\ Goto("handoff")
  /\ UNCHANGED <<ram, stale, Found, place, tables, TreeVars, room, Leaving>>
ReadAgain ==
  /\ Goto("take")
  /\ UNCHANGED <<ram, stale, Found, place, tables, TreeVars, room, Leaving>>

(* Mutant: a rejected key is replaced, and the map already read is kept. *)
ExitBootServices_MutantKeepsMap ==
  /\ stage = "exit"
  /\ IF machine.exitFails THEN Stop("ExitBootServices")
     ELSE LeaveFirmware

(* Mutant: the map is read again for as long as it takes. *)
ExitBootServices_MutantForEver ==
  /\ stage = "exit"
  /\ IF machine.exitFails THEN Stop("ExitBootServices")
     ELSE IF ~stale THEN LeaveFirmware
     ELSE /\ Goto("take")
          /\ attempt' = 0
          /\ UNCHANGED <<ram, stale, Found, place, tables, TreeVars, room, map>>

ExitBootServices ==
  /\ stage = "exit"
  /\ IF machine.exitFails THEN Stop("ExitBootServices")
     ELSE IF ~stale THEN LeaveFirmware
     ELSE IF attempt >= EXIT_ATTEMPTS THEN Stop("ExitBootServices")
     ELSE ReadAgain

(* The regions and the BootInfo are written, and the kernel entered. *)
HandOff ==
  /\ stage = "handoff"
  /\ \E c \in {convert(map, room.regions)} :
     IF c.full THEN Stop("TooManyRegions")
     ELSE /\ info' = [memory_map |-> place["regions"] * PAGE_SIZE,
                      regions |-> c.regions,
                      framebuffer |-> fb,
                      rsdp |-> rsdp,
                      initrd |-> place["initrd"] * PAGE_SIZE,
                      initrd_len |-> IF place["initrd"] = 0 THEN 0 ELSE machine.initrd.len,
                      kernel_phys |-> place["kernel"] * PAGE_SIZE,
                      kernel_len |-> Span.size]
          /\ stage' = "kernel"
          /\ UNCHANGED <<machine, ram, stale, why, Found, place, tables, TreeVars, room, Leaving,
                         layout, facts>>

-----------------------------------------------------------------------------
(* The kernel: kmain validates the hand-off and calls mem::init. *)

KernelStep(next) ==
  /\ stage' = next
  /\ UNCHANGED <<machine, ram, stale, Found, place, tables, TreeVars, room, Leaving, info>>

(* Magic and version match, since both binaries are of one build. *)
validate == info.memory_map # 0 /\ info.regions # <<>>

Exclusions ==
  << <<info.kernel_phys, info.kernel_len>>,
     <<info.memory_map, Len(info.regions) * REGION>>,
     <<place["info"] * PAGE_SIZE, INFO>>,
     IF info.initrd # 0 /\ info.initrd_len # 0 THEN <<info.initrd, info.initrd_len>> ELSE <<0, 0>> >>

(* The frame pool (external): the whole frames of a run, and the bytes its *)
(* trees need, an eighth of a unit for a frame.                            *)
WholeFrames(run) == {p \in PhysPage : run[1] <= p * PAGE_SIZE /\ (p + 1) * PAGE_SIZE <= run[1] + run[2]}
metadata_bytes_for(runs) ==
  UpTo(Cardinality(UNION {WholeFrames(runs[i]) : i \in DOMAIN runs}), 8) \div 8

HeapLen(runs) == UpTo(metadata_bytes_for(runs) + HEAP_SLACK, PAGE_SIZE)

(* The last of the longest, as max_by_key gives it. *)
Biggest(runs) ==
  Max({i \in DOMAIN runs : \A j \in DOMAIN runs : runs[j][2] <= runs[i][2]})

Shortened(runs, b, n) == [runs EXCEPT ![b] = <<@[1] + n, @[2] - n>>]

PoolOf(runs) == UNION {WholeFrames(runs[i]) : i \in DOMAIN runs}

LayoutOf(runs, n, found, stats) ==
  LET b == Biggest(runs)
  IN  [heap |-> <<runs[b][1], n>>, pool |-> PoolOf(Shortened(runs, b, n)),
       truncated |-> found - Len(runs), usable |-> stats.usable, highest_ram |-> stats.highest_ram]

Settle(f, runs, heap_len) ==
  IF runs = <<>> THEN why' = "NoFreeRun" /\ layout' = layout /\ KernelStep("halted")
  ELSE IF runs[Biggest(runs)][2] <= heap_len
       THEN why' = "TooSmall" /\ layout' = layout /\ KernelStep("halted")
  ELSE /\ layout' = LayoutOf(runs, heap_len, f.found, summarise(info.regions))
       /\ why' = why
       /\ KernelStep("memory")

MemInit ==
  /\ stage = "kernel"
  /\ IF ~validate THEN why' = "NoMemoryMap" /\ layout' = layout /\ KernelStep("halted")
     ELSE IF Len(info.regions) > MAX_REGIONS
          THEN why' = "MapTooLarge" /\ layout' = layout /\ KernelStep("halted")
     ELSE \E f \in {free_runs(info.regions, Exclusions, MAX_FREE_RUNS)} :
            \E runs \in {Taken(f)} : \E heap_len \in {HeapLen(runs)} : Settle(f, runs, heap_len)
  /\ UNCHANGED facts

Discover ==
  /\ stage = "memory"
  /\ facts' = discover(machine.acpi, info.rsdp)
  /\ UNCHANGED <<why, layout>>
  /\ KernelStep("ready")

Loader ==
  \/ Survey \/ OpenVolume \/ ReadKernel \/ ReadInitrd \/ ParseKernel \/ NewTables
  \/ PlaceSegment \/ AllPlaced \/ SizeProbe \/ ReadProbe \/ BuildMaps \/ AllocInfo \/ SizeMap
  \/ AllocRegions \/ TakeMap \/ ExitBootServices \/ HandOff

Next == Loader \/ MemInit \/ Discover \/ FirmwareActs

(* The one processor runs the loader and then the kernel.  A step of       *)
(* theirs is a step that moves the stage or the segment, which no event of *)
(* the firmware does, and until the boot is over one is always possible.   *)
Over == {"stopped", "halted", "ready"}
Stage == BeforeExit \cup {"handoff", "kernel", "memory"} \cup Over
Advance == stage \notin Over /\ stage' \in Stage /\ seg' \in 1 .. Len(elf.ph) + 1

Spec == Init /\ [][Next]_vars /\ WF_<<stage, seg>>(Advance)

-----------------------------------------------------------------------------
(* Properties. *)

Entered == stage \in {"kernel", "memory", "halted", "ready"}
Owned == stage \in {"memory", "ready"}
PlacePages(what) ==
  CASE what = "file" -> pages_for(machine.file.len)
    [] what = "initrd" -> pages_for(machine.initrd.len)
    [] what = "kernel" -> pages_for(Span.size)
    [] what = "map" -> pages_for(room.map * DESC)
    [] what = "regions" -> pages_for(room.regions * REGION)
    [] OTHER -> 1
Occupied(what) == IF place[what] = 0 THEN {} ELSE place[what] .. place[what] + PlacePages(what) - 1

(* boot.rs's loop re-reads the map when the key is refused: the regions    *)
(* the kernel is given say of every page exactly what the firmware says of *)
(* it at the moment it is left, and list no page twice.                    *)
CountedIn(p) == {i \in DOMAIN info.regions :
                   info.regions[i].start <= p * PAGE_SIZE /\ p * PAGE_SIZE < end(info.regions[i])}
HandsOverTheTruth ==
  Entered =>
    \A p \in PhysPage :
      IF ram[p] = "HOLE" THEN CountedIn(p) = {}
      ELSE \E i \in CountedIn(p) : CountedIn(p) = {i} /\ info.regions[i].kind = classify(ram[p])

(* mem::init owns only what is free: no frame of the pool or the heap is   *)
(* firmware's, the loader's (the kernel image, its tables, the hand-off,   *)
(* the initramfs) or ACPI's, and the heap and the pool share none.         *)
HeapPages == PagesOf(layout.heap[1], layout.heap[1] + layout.heap[2])
OwnsOnlyFree ==
  Owned =>
    /\ \A p \in layout.pool \cup HeapPages : ram[p] = "CONVENTIONAL"
    /\ layout.pool \cap HeapPages = {}
    /\ (layout.pool \cup HeapPages) \cap (tables \cup UNION {Occupied(w) : w \in Place}) = {}

(* Nothing is lost between the firmware's map and the pool but what is     *)
(* reported: a free page is the heap's or the pool's unless it is in one   *)
(* of the usable regions counted as truncated, which are lost whole.       *)
NothingLost ==
  Owned =>
    LET free == {p \in PhysPage : ram[p] = "CONVENTIONAL"}
        lost == free \ (layout.pool \cup HeapPages)
        usable == {PagesOf(r.start, end(r)) : r \in {x \in Described(info.regions) : usable_at_boot(x)}}
        truncated == {ps \in usable : ps \cap lost # {}}
    IN  /\ lost = UNION truncated
        /\ Cardinality(truncated) = layout.truncated
        /\ layout.usable = PAGE_SIZE * Cardinality(free)

(* What the kernel reads and writes by physical address is inside the      *)
(* loader's linear map while that is live, and inside the one vm::init     *)
(* builds from highest_ram afterwards.                                     *)
KernelLinear == PagesOf(0, UpTo(Greatest(layout.highest_ram, MIN_MAPPED), GIB))
TablePages == {a \div PAGE_SIZE : a \in (DOMAIN machine.acpi.at) \cup ({info.rsdp} \ {None})}
WithinReach ==
  /\ Entered => Occupied("kernel") \cup Occupied("info") \cup Occupied("regions") \subseteq linear
  /\ Owned => layout.pool \cup HeapPages \cup TablePages \subseteq linear \cap KernelLinear

(* The screen the hand-off describes can be drawn on as soon as the kernel *)
(* runs: kmain attaches it before it has tables of its own.                *)
ScreenWithinReach == Entered => FbPages \subseteq linear

(* The kernel is entered as it was linked: every page of every segment is  *)
(* mapped with the rights the segment asked for, to a page of the kernel's *)
(* own block, which holds the file's bytes and zeroes after them.          *)
ByteAt(v) == image[(ktree[v \div PAGE_SIZE].page - place["kernel"]) * PAGE_SIZE + (v % PAGE_SIZE)]
SegmentInPlace(s) ==
  LET p == segments(elf)[s]
  IN  \A v \in p.vaddr .. p.vaddr + p.memsz - 1 :
        /\ v \div PAGE_SIZE \in DOMAIN ktree
        /\ ktree[v \div PAGE_SIZE].page \in Occupied("kernel")
        /\ ktree[v \div PAGE_SIZE].write = p.write /\ ktree[v \div PAGE_SIZE].exec = p.exec
        /\ ByteAt(v) = IF v - p.vaddr < p.filesz THEN <<s, v - p.vaddr>> ELSE <<0, 0>>
EnteredAsLinked == Entered => \A s \in DOMAIN segments(elf) : SegmentInPlace(s)

(* boot.rs sizes the region array so that "the conversion cannot fail for  *)
(* want of room after boot services are gone", however the map grew.       *)
ConversionFits == why # "TooManyRegions"

(* The boot comes to an end, in the kernel or with a message, whatever the *)
(* firmware does to its map meanwhile.                                     *)
BootEnds == <>(stage \in Over)

(* A MADT that is listed and sound is found, whatever the tables listed    *)
(* before it are; nothing is taken from one that is not.                   *)
Sound(t, a) == a \in DOMAIN t.at /\ t.at[a].sum /\ t.at[a].length \in HEADER .. MAX_TABLE
MadtFound ==
  LET t == machine.acpi
  IN  stage = "ready" =>
        /\ facts.found => Sound(t, facts.madt) /\ t.at[facts.madt].sig = "APIC"
        /\ (/\ info.rsdp # None
            /\ machine.listed # {}
            /\ \E a \in machine.listed : Sound(t, a) /\ t.at[a].sig = "APIC")
             => facts.found

(* The processors and the interrupt routes are those of the entries the    *)
(* firmware wrote, up to the first that cannot be stepped over: no entry   *)
(* is skipped or read twice, and the last one counts.                      *)
Written == machine.entries
Steps == {i \in DOMAIN Written : \A j \in 1 .. i : Written[j].len >= 1 /\ ~Written[j].overruns}
CpusAsListed ==
  stage = "ready" /\ facts.found /\ facts.madt = machine.madtAt =>
    /\ facts.cpus = Cardinality({i \in Steps : IsCpu(Decoded(Written[i]))})
    /\ {facts.cpu_ids[i] : i \in DOMAIN facts.cpu_ids}
         \subseteq {Written[i].id : i \in {j \in Steps : IsCpu(Decoded(Written[j]))}}
    /\ \A irq \in 0 .. 1 :
         LET over == {i \in Steps : Decoded(Written[i]).ty = "Override" /\ Written[i].id = irq}
         IN  /\ gsi_for_irq(machine.acpi, facts, irq)
                  = (IF over = {} THEN irq ELSE Written[Min(over)].gsi)
             /\ override_flags(machine.acpi, facts, irq)
                  = (IF over = {} THEN {} ELSE {Written[Min(over)].flags})

(* free_runs against its definition, for exclusions anywhere in the map    *)
(* just handed over: what is returned is free and disjoint, and it is all  *)
(* that is free whenever there is room for the pieces.                     *)
Units(run) == run[1] .. run[1] + run[2] - 1
FreeUnits(exs) ==
  (UNION {info.regions[i].start .. end(info.regions[i]) - 1 :
            i \in {j \in DOMAIN info.regions : info.regions[j].kind = "Usable"}})
    \ UNION {Units(exs[i]) : i \in DOMAIN exs}
UsableRuns == Cardinality({j \in DOMAIN info.regions : info.regions[j].kind = "Usable"})
RunsAreFree(exs, runs, free, n) ==
  /\ \A i \in DOMAIN runs : Units(runs[i]) \subseteq free
  /\ \A i, j \in DOMAIN runs : i < j => Units(runs[i]) \cap Units(runs[j]) = {}
  /\ n >= UsableRuns + Len(exs) => UNION {Units(runs[i]) : i \in DOMAIN runs} = free
TwoExclusions ==
  {<< <<p * PAGE_SIZE, n>>, <<(p + 2) * PAGE_SIZE + 1, PAGE_SIZE>> >> :
     p \in PhysPage, n \in {1, PAGE_SIZE + 1}}
FreeRunsExact ==
  stage = "memory" =>
    \A exs \in TwoExclusions, n \in {UsableRuns, UsableRuns + 2} :
      \E runs \in {Taken(free_runs(info.regions, exs, n))}, free \in {FreeUnits(exs)} :
        RunsAreFree(exs, runs, free, n)

(* The kernel is handed the whole truth about memory: the conversion never *)
(* lacks room (boot.rs), and what it yields is what the firmware last said.*)
MapHandedOver == HandsOverTheTruth /\ ConversionFits

(* What is given out as free is what is free: neither mem::init's heap and *)
(* pool, nor what free_runs answers for exclusions elsewhere, holds a page *)
(* that is taken or leaves one out.                                        *)
FreeMemoryExact == OwnsOnlyFree /\ NothingLost /\ FreeRunsExact

(* Nothing the kernel is told of lies beyond the linear maps (boot.rs's    *)
(* and vm::init's), the screen included.                                   *)
AllWithinReach == WithinReach /\ ScreenWithinReach

(* acpi::discover finds the sound MADT and reads from it what the firmware *)
(* wrote.                                                                  *)
TablesAsWritten == MadtFound /\ CpusAsListed
=============================================================================
