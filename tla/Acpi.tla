-------------------------------- MODULE Acpi --------------------------------
(***************************************************************************)
(* ACPI tables: the parsers of crates/acpi/src/lib.rs and the walk over    *)
(* them in crates/kernel/src/acpi.rs.                                      *)
(*                                                                         *)
(* A firmware's tables are [rsdp, at]: the RSDP                            *)
(*   [sum, rev, rsdt, xsdt, len, sum2]                                     *)
(* and, by physical address, what is read there,                           *)
(*   [sig, length, sum, dir, apic, pics, body, block].                     *)
(* `sum' is whether the signature and checksum hold, over the length given *)
(* for a table; dir, apic, pics and block are the fields at fixed offsets  *)
(* of the directory, the MADT and the HPET table; body is the MADT's       *)
(* entries, body[i] what is read if an entry begins at byte-pair i:        *)
(*   [ty, len, id, on, gsi, flags].                                        *)
(* Lengths are in pairs of bytes.                                          *)
(***************************************************************************)
EXTENDS Integers, Sequences, FiniteSets, FiniteSetsExt, SequencesExt

CONSTANTS MAX_TABLE, MAX_CPU_IDS    \* MAX_TABLE_BYTES, in pairs of bytes

HEADER == 18
MADT_ENTRIES == 22
HPET_LENGTH == 28
RSDP_V2_LEN == 18

ASSUME AcpiAssumption == MAX_TABLE \in Nat /\ MAX_TABLE >= HEADER /\ MAX_CPU_IDS \in Nat \ {0}

None == 0
Garbage == [sig |-> "?", length |-> 0, sum |-> FALSE, dir |-> <<>>, apic |-> 0, pics |-> FALSE,
            body |-> <<>>, block |-> 0]
Read(t, a) == IF a \in DOMAIN t.at THEN t.at[a] ELSE Garbage

(* Rsdp::parse, which is always given the 36 bytes of the 2.0 form. *)
RsdpOk(r) == r.sum /\ (r.rev >= 2 => r.len = RSDP_V2_LEN /\ r.sum2)

directory(r) ==
  IF r.rev >= 2 /\ r.xsdt # None THEN [at |-> r.xsdt, width |-> 4, sig |-> "XSDT"]
  ELSE [at |-> r.rsdt, width |-> 2, sig |-> "RSDT"]

table_at(t, a) == Read(t, a).length \in HEADER .. MAX_TABLE /\ Read(t, a).sum

(* Directory::parse and entry: the addresses the directory lists. *)
DirectoryOk(t, d) == d.at # None /\ table_at(t, d.at) /\ Read(t, d.at).sig = d.sig
DirLen(t, d) == (Read(t, d.at).length - HEADER) \div d.width
DirEntries(t, d) == SubSeq(Read(t, d.at).dir, 1, DirLen(t, d))

Matching(t, entries, sig) ==
  {i \in DOMAIN entries : table_at(t, entries[i]) /\ Read(t, entries[i]).sig = sig}

FirstMatch(t, entries, sig) ==
  IF Matching(t, entries, sig) = {} THEN None ELSE entries[Min(Matching(t, entries, sig))]

find_table(t, sig) ==
  IF RsdpOk(t.rsdp) /\ DirectoryOk(t, directory(t.rsdp))
  THEN FirstMatch(t, DirEntries(t, directory(t.rsdp)), sig)
  ELSE None

(***************************************************************************)
(* MadtIter::next, from offset 0.  An entry shorter than its type needs is *)
(* Other; one that cannot be advanced past, or overruns, ends the walk.    *)
(***************************************************************************)
EntryMin == [LocalApic |-> 4, IoApic |-> 6, Override |-> 5, Nmi |-> 3, X2Apic |-> 8]
Decoded(e) ==
  IF e.ty \in DOMAIN EntryMin /\ e.len >= EntryMin[e.ty] THEN e ELSE [e EXCEPT !.ty = "Other"]

(* Mutant: an entry must end before the table does. *)
Advances_MutantOffByOne(off, len, size) == len >= 1 /\ off + len < size

Advances(off, len, size) == len >= 1 /\ off + len <= size

entries(body) ==
  LET walk[off \in 0 .. Len(body)] ==
        IF off = Len(body) THEN <<>>
        ELSE IF ~Advances(off, body[off + 1].len, Len(body)) THEN <<>>
        ELSE <<Decoded(body[off + 1])>> \o walk[off + body[off + 1].len]
  IN  walk[0]

MadtOk(x) == x.length >= MADT_ENTRIES
MadtBody(x) == SubSeq(x.body, 1, x.length - MADT_ENTRIES)
MadtEntries(t, a) == entries(MadtBody(Read(t, a)))

IsCpu(e) == e.ty \in {"LocalApic", "X2Apic"} /\ e.on
CpuIds(es) == [i \in DOMAIN SelectSeq(es, IsCpu) |-> SelectSeq(es, IsCpu)[i].id]

first_io_apic(es) ==
  LET found == SelectSeq(es, LAMBDA e : e.ty = "IoApic")
  IN  IF found = <<>> THEN <<>> ELSE <<found[1].id, found[1].gsi>>

OverridesOf(es, irq) == SelectSeq(es, LAMBDA e : e.ty = "Override" /\ e.id = irq)

MadtGsi(es, irq) == IF OverridesOf(es, irq) = <<>> THEN irq ELSE OverridesOf(es, irq)[1].gsi

(* Facts.  `cpus' counts them all; the ids kept are the first MAX_CPU_IDS. *)
NoFacts == [found |-> FALSE, local_apic |-> 0, io_apic |-> <<>>, legacy |-> FALSE, cpus |-> 0,
            cpu_ids |-> <<>>, hpet |-> None, madt |-> None]

HpetBlock(t, a) ==
  IF a # None /\ Read(t, a).length >= HPET_LENGTH THEN Read(t, a).block ELSE None

FactsOf(t, a, es) ==
  [found |-> TRUE,
   local_apic |-> Read(t, a).apic,
   io_apic |-> first_io_apic(es),
   legacy |-> Read(t, a).pics,
   cpus |-> Len(CpuIds(es)),
   cpu_ids |-> SubSeq(CpuIds(es), 1, Min({Len(CpuIds(es)), MAX_CPU_IDS})),
   hpet |-> HpetBlock(t, find_table(t, "HPET")),
   madt |-> a]

FactsAt(t, a) ==
  IF a = None \/ ~MadtOk(Read(t, a)) THEN NoFacts ELSE FactsOf(t, a, MadtEntries(t, a))

discover(t, rsdp) == IF rsdp = None THEN NoFacts ELSE FactsAt(t, find_table(t, "APIC"))

(* Facts::gsi_for_irq and override_flags, which read the table again. *)
gsi_for_irq(t, facts, irq) ==
  IF table_at(t, facts.madt) /\ MadtOk(Read(t, facts.madt))
  THEN MadtGsi(MadtEntries(t, facts.madt), irq)
  ELSE irq

override_flags(t, facts, irq) ==
  LET es == MadtEntries(t, facts.madt)
  IN  IF table_at(t, facts.madt) /\ MadtOk(Read(t, facts.madt)) /\ OverridesOf(es, irq) # <<>>
      THEN {OverridesOf(es, irq)[1].flags}
      ELSE {}
=============================================================================
