-------------------------------- MODULE Elf --------------------------------
(***************************************************************************)
(* The parser of crates/elf64/src/lib.rs, which both the loader (for the   *)
(* kernel) and the kernel (for programs) use.  An image is                 *)
(*   [len, bad, entry, phoff, phentsize, phnum, ph]                        *)
(* where `bad' is what is wrong with its identification, and ph[i] is what *)
(* is read at the i-th program header: [load, write, exec, offset, vaddr,  *)
(* filesz, memsz].  Lengths and addresses are in the units of MemoryMap.   *)
(***************************************************************************)
EXTENDS MemoryMap

CONSTANTS EHDR, PHDR    \* bytes of the file header, and of a program header

ASSUME ElfAssumption == EHDR \in Nat \ {0} /\ PHDR \in Nat \ {0}

(* In the order the code looks. *)
Identification == <<"NotElf", "NotElf64", "NotLittleEndian", "WrongType", "WrongMachine">>

FirstOf(checks, failing) ==
  IF \E i \in DOMAIN checks : checks[i] \in failing
  THEN checks[Min({i \in DOMAIN checks : checks[i] \in failing})]
  ELSE "none"

HeadersInside(x) ==
  /\ x.phentsize >= PHDR
  /\ x.phoff + x.phentsize * x.phnum <= x.len

parse(x) ==
  IF x.len < EHDR THEN "TruncatedHeader"
  ELSE IF x.bad # {} THEN FirstOf(Identification, x.bad)
  ELSE IF ~HeadersInside(x) THEN "TruncatedProgramHeaders"
  ELSE "none"

(* Segments::next at a header that asks to be loaded. *)
SegmentError(x, p) ==
  IF p.filesz > p.memsz THEN "FileLargerThanMemory"
  ELSE IF p.vaddr % PAGE_SIZE # 0 THEN "UnalignedSegment"
  ELSE IF p.offset + p.filesz > x.len THEN "SegmentOutOfImage"
  ELSE "none"

segments(x) == SelectSeq(SubSeq(x.ph, 1, x.phnum), LAMBDA p : p.load)
seg_is_wx(p) == p.write /\ p.exec
SegPages(p) == pages_for(p.memsz)

(* load_span: the first error any segment has, or the span of them all.    *)
SpanError(x, p) ==
  IF SegmentError(x, p) # "none" THEN SegmentError(x, p)
  ELSE IF p.vaddr + p.memsz > ADDR_MAX THEN "SpanOverflow"
  ELSE "none"

FirstSpanError(x, segs) ==
  LET bad == {i \in DOMAIN segs : SpanError(x, segs[i]) # "none"}
  IN  IF bad = {} THEN "none" ELSE SpanError(x, segs[Min(bad)])

(* Mutant: the memory size is forgotten and the span covers the file only. *)
SpanEnd_MutantFileSize(segs) == UpTo(Max({segs[i].vaddr + segs[i].filesz : i \in DOMAIN segs}), PAGE_SIZE)

SpanEnd(segs) == UpTo(Max({segs[i].vaddr + segs[i].memsz : i \in DOMAIN segs}), PAGE_SIZE)
SpanBase(segs) == Min({segs[i].vaddr : i \in DOMAIN segs})

SpanOf(x, segs) ==
  IF FirstSpanError(x, segs) # "none" THEN [err |-> FirstSpanError(x, segs), base |-> 0, size |-> 0]
  ELSE IF segs = <<>> THEN [err |-> "NoLoadableSegments", base |-> 0, size |-> 0]
  ELSE IF SpanEnd(segs) > ADDR_MAX THEN [err |-> "SpanOverflow", base |-> 0, size |-> 0]
  ELSE [err |-> "none", base |-> SpanBase(segs), size |-> SpanEnd(segs) - SpanBase(segs)]

load_span(x) == SpanOf(x, segments(x))
=============================================================================
