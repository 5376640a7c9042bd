------------------------------- MODULE BootMC -------------------------------
(***************************************************************************)
(* Machines for Boot: 36 pages of address space with RAM on both sides of  *)
(* a hole and ACPI tables at the top.  One machine is ordinary; the others *)
(* differ from it in how the firmware behaves, what the ESP holds, what    *)
(* the kernel file says, or what the tables say.                           *)
(***************************************************************************)
EXTENDS Boot

RECURSIVE Laid(_)
Laid(runs) == IF runs = <<>> THEN <<>> ELSE [i \in 1 .. Head(runs)[2] |-> Head(runs)[1]] \o Laid(Tail(runs))
RamOf(runs) == LET s == Laid(runs) IN [p \in PhysPage |-> s[p + 1]]

Ordinary == RamOf(<< <<"RESERVED", 1>>, <<"CONVENTIONAL", 5>>, <<"BOOT_SERVICES", 1>>,
                     <<"CONVENTIONAL", 15>>, <<"HOLE", 2>>, <<"LOADER_CODE", 1>>,
                     <<"CONVENTIONAL", 7>>, <<"RUNTIME_SERVICES", 2>>, <<"ACPI_NVS", 1>>, <<"ACPI_RECLAIM", 1>> >>)
TablePage == (Pages - 1) * PAGE_SIZE

(* The kernel: code of a page, then data with a zeroed tail. *)
Code == [load |-> TRUE, write |-> FALSE, exec |-> TRUE, offset |-> 4, vaddr |-> KERNEL_VMA,
         filesz |-> 5, memsz |-> 5]
Bss == [load |-> TRUE, write |-> TRUE, exec |-> FALSE, offset |-> 9,
        vaddr |-> KERNEL_VMA + PAGE_SIZE, filesz |-> 3, memsz |-> PAGE_SIZE + 2]
Note == [Code EXCEPT !.load = FALSE, !.vaddr = 3]
Linked(ph) == [len |-> 12, bad |-> {}, entry |-> KERNEL_VMA, phoff |-> 2, phentsize |-> 1,
               phnum |-> Len(ph), ph |-> ph]
Kernel == Linked(<<Code, Note, Bss>>)
KernelFile(x) == [opens |-> TRUE, len |-> x.len, got |-> x.len, elf |-> x]

RefusedKernels ==
  {Linked(<<Code, [Bss EXCEPT !.exec = TRUE]>>),
   Linked(<<Code, [Bss EXCEPT !.filesz = PAGE_SIZE + 3]>>),
   Linked(<<Code, [Bss EXCEPT !.offset = 10]>>),
   Linked(<<[Code EXCEPT !.vaddr = @ + 1]>>),
   Linked(<<[Code EXCEPT !.vaddr = @ - PAGE_SIZE]>>),
   Linked(<<Code, [Bss EXCEPT !.vaddr = ADDR_MAX - PAGE_SIZE + 1]>>),
   Linked(<<Note>>),
   [Kernel EXCEPT !.bad = {"WrongType", "WrongMachine"}],
   [Kernel EXCEPT !.phentsize = 4],
   [Kernel EXCEPT !.len = 1]}

(* The MADT's entries, laid out: what is read at each pair of bytes.       *)
Entry(ty, len, id, on, gsi) ==
  [ty |-> ty, len |-> len, id |-> id, on |-> on, gsi |-> gsi, flags |-> gsi + 1, overruns |-> FALSE]
Fill == Entry("Other", 0, 0, FALSE, 0)
RECURSIVE Body(_)
Body(es) == IF es = <<>> THEN <<>>
            ELSE <<Head(es)>> \o [i \in 1 .. Head(es).len - 1 |-> Fill] \o Body(Tail(es))
Listed == <<Entry("LocalApic", 4, 0, TRUE, 0), Entry("LocalApic", 4, 1, FALSE, 0),
            Entry("IoApic", 6, 7, TRUE, 0), Entry("Override", 5, 0, TRUE, 2),
            Entry("Nmi", 3, 0, TRUE, 0), Entry("X2Apic", 8, 5, TRUE, 0)>>
Short == <<Entry("LocalApic", 2, 9, TRUE, 0), Entry("LocalApic", 4, 3, TRUE, 0)>>
Stuck == <<Entry("LocalApic", 4, 0, TRUE, 0), Entry("LocalApic", 0, 1, TRUE, 0),
           Entry("LocalApic", 4, 2, TRUE, 0)>>
Overrun == <<Entry("LocalApic", 4, 4, TRUE, 0),
             [Entry("LocalApic", 5, 1, TRUE, 0) EXCEPT !.overruns = TRUE]>>
Crowd == [i \in 1 .. 4 |-> Entry("LocalApic", 4, i, TRUE, 0)]
Area(es) == IF Last(es).overruns THEN Front(Body(es)) ELSE Body(es)

Table(sig, length) == [Garbage EXCEPT !.sig = sig, !.length = length, !.sum = TRUE]
MadtOf(es) == [Table("APIC", MADT_ENTRIES + Len(Area(es))) EXCEPT !.apic = 90, !.pics = TRUE,
                                                                 !.body = Area(es)]
Hpet == [Table("HPET", HPET_LENGTH) EXCEPT !.block = 91]
Ssdt == Table("SSDT", HEADER + 2)
At(i) == TablePage + i
Directory(sig, width, as) ==
  [Table(sig, HEADER + width * Len(as)) EXCEPT !.dir = as]
Rsdp(rev) == [sum |-> TRUE, rev |-> rev, rsdt |-> At(2), xsdt |-> At(1), len |-> RSDP_V2_LEN,
              sum2 |-> TRUE]
TablesOf(rev, first, es) ==
  [rsdp |-> Rsdp(rev),
   at |-> At(1) :> Directory("XSDT", 4, <<At(3), At(4), At(5)>>)
            @@ At(2) :> Directory("RSDT", 2, <<At(3), At(5), At(4)>>)
            @@ At(3) :> first @@ At(4) :> MadtOf(es) @@ At(5) :> Hpet]

Fixed == [rsdp |-> At(0), config |-> <<[guid |-> "SMBIOS", table |-> 5],
                                       [guid |-> "ACPI1", table |-> At(0)]>>]
Machine ==
  [ram |-> Ordinary, fromTop |-> TRUE, split |-> FALSE, downwards |-> FALSE, extra |-> <<>>,
   noisy |-> {3, 9}, exitFails |-> FALSE, config |-> Fixed.config,
   gop |-> [linear |-> TRUE, base |-> 22 * PAGE_SIZE, width |-> 3, height |-> 2, line |-> 4],
   volume |-> TRUE, file |-> KernelFile(Kernel), initrd |-> [opens |-> TRUE, len |-> 5, got |-> 5],
   acpi |-> TablesOf(2, Ssdt, Listed), listed |-> {At(3), At(4), At(5)}, madtAt |-> At(4),
   entries |-> Listed]
Quiet == [Machine EXCEPT !.noisy = {}]

Aperture == [ty |-> "RESERVED", phys |-> ADDR_MAX - PAGE_SIZE + 1, pages |-> 1]
Nothing == [ty |-> "CONVENTIONAL", phys |-> 0, pages |-> 0]
Firmwares ==
  {[Machine EXCEPT !.fromTop = up, !.split = sp, !.downwards = dn, !.extra = <<Nothing, Aperture>>] :
     up \in BOOLEAN, sp \in BOOLEAN, dn \in BOOLEAN}
   \cup {[Machine EXCEPT !.noisy = {2, 4, 8, 10, 12}],
         [Quiet EXCEPT !.exitFails = TRUE],
         [Quiet EXCEPT !.ram = [p \in PhysPage |-> IF p = Pages - 1 THEN "ACPI_RECLAIM" ELSE "RESERVED"]],
         [Quiet EXCEPT !.gop.linear = FALSE],
         [Quiet EXCEPT !.gop.base = 5 * GIB],
         [Quiet EXCEPT !.gop.line = 2]}
Files ==
  {[Quiet EXCEPT !.file = KernelFile(x)] : x \in RefusedKernels}
   \cup {[Quiet EXCEPT !.file.got = 4], [Quiet EXCEPT !.file.opens = FALSE],
         [Quiet EXCEPT !.volume = FALSE], [Quiet EXCEPT !.initrd.opens = FALSE],
         [Quiet EXCEPT !.initrd.len = 0], [Quiet EXCEPT !.initrd.got = 1]}
MadtMachine(rev, first, es) ==
  [Quiet EXCEPT !.acpi = TablesOf(rev, first, es), !.entries = es]
Tables ==
  {MadtMachine(rev, first, es) :
     rev \in {0, 2}, first \in {Ssdt, [Ssdt EXCEPT !.sum = FALSE], [Ssdt EXCEPT !.length = 9]},
     es \in {Listed, Short, Stuck, Overrun, Crowd}}
   \cup {[Quiet EXCEPT !.config = <<>>],
         [Quiet EXCEPT !.acpi.rsdp.len = 20, !.listed = {}],
         [Quiet EXCEPT !.acpi.rsdp.sum = FALSE, !.listed = {}],
         [Quiet EXCEPT !.acpi.at[At(1)].sig = "RSDT", !.listed = {}],
         [Quiet EXCEPT !.acpi.at[At(4)].sum = FALSE],
         [Quiet EXCEPT !.acpi.at[At(4)].length = MAX_TABLE + 1],
         [Quiet EXCEPT !.acpi.at[At(5)].length = HPET_LENGTH - 1],
         [Quiet EXCEPT !.config = Append(@, [guid |-> "ACPI2", table |-> At(0)])]}

MCMachines == Firmwares \cup Files \cup Tables
=============================================================================
