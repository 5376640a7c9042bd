--------------------------- MODULE BringUpProofs ---------------------------
(***************************************************************************)
(* Proofs about BringUp, for every set of machines, every cast of programs *)
(* and all the constants of Timers and Entry.  The inductive invariant     *)
(* BringUpInv is built in five layers, each inductive relative to those    *)
(* before it:                                                              *)
(*   Wired    what the registers of the interrupt controllers can hold     *)
(*   Control  who has the CPU, where everyone else stands, who waits where *)
(*   Home     GS, the two kernel stacks, and where entries landed          *)
(*   Served   interrupts in service, armed faults and the clock page       *)
(*   Judging  what the verdicts of the self-tests rest on                  *)
(***************************************************************************)
EXTENDS BringUp, SequenceTheorems, WellFoundedInduction, TLAPS

-----------------------------------------------------------------------------
(* The register images of the I/O APIC's entries. *)

\* A live entry names no exception, whoever programmed it.
Nameable(q) == q.masked \/ q.vector \in FirmwareVectors
LowWords == {low_bits(r) : r \in {q \in Redirection : Nameable(q)}}
HighWords == {high_bits(r) : r \in Redirection}

LEMMA BitTypes ==
    ASSUME NEW b \in BOOLEAN
    PROVE  Bit(b, 13) \in {0, 8192} /\ Bit(b, 15) \in {0, 32768} /\ Bit(b, 16) \in {0, 65536}
BY DEF Bit

LEMMA SameTruth ==
    ASSUME NEW p \in BOOLEAN, NEW q \in BOOLEAN, p <=> q
    PROVE  p = q
OBVIOUS

LEMMA LowReads ==
    ASSUME NEW r \in Redirection
    PROVE  /\ low_bits(r) \in Nat
           /\ low_bits(r) % 256 = r.vector
           /\ HasBit(low_bits(r), 13) = r.active_low
           /\ HasBit(low_bits(r), 15) = r.level_triggered
           /\ HasBit(low_bits(r), 16) = r.masked
<1>1. /\ r.vector \in 0 .. 255
      /\ r.active_low \in BOOLEAN /\ r.level_triggered \in BOOLEAN /\ r.masked \in BOOLEAN
  BY DEF Redirection
<1> DEFINE v == r.vector
           a == Bit(r.active_low, 13)
           l == Bit(r.level_triggered, 15)
           k == Bit(r.masked, 16)
<1>2. a \in {0, 8192} /\ l \in {0, 32768} /\ k \in {0, 65536}
  BY <1>1, BitTypes
<1>3. /\ r.active_low <=> a = 8192
      /\ r.level_triggered <=> l = 32768
      /\ r.masked <=> k = 65536
  BY <1>1 DEF Bit
<1>4. low_bits(r) = v + a + l + k
  BY DEF low_bits
<1>5. v \in 0 .. 255
  BY <1>1
<1> HIDE DEF v, a, l, k
<1>6. /\ (v + a + l + k) \in Nat
      /\ (v + a + l + k) % 256 = v
      /\ ((v + a + l + k) \div 8192) % 2 = 1 <=> a = 8192
      /\ ((v + a + l + k) \div 32768) % 2 = 1 <=> l = 32768
      /\ ((v + a + l + k) \div 65536) % 2 = 1 <=> k = 65536
  BY <1>2, <1>5
<1>7. /\ HasBit(low_bits(r), 13) <=> ((v + a + l + k) \div 8192) % 2 = 1
      /\ HasBit(low_bits(r), 15) <=> ((v + a + l + k) \div 32768) % 2 = 1
      /\ HasBit(low_bits(r), 16) <=> ((v + a + l + k) \div 65536) % 2 = 1
  BY <1>4 DEF HasBit
<1>8. /\ HasBit(low_bits(r), 13) = r.active_low
      /\ HasBit(low_bits(r), 15) = r.level_triggered
      /\ HasBit(low_bits(r), 16) = r.masked
  <2>1. /\ HasBit(low_bits(r), 13) <=> a = 8192
        /\ HasBit(low_bits(r), 15) <=> l = 32768
        /\ HasBit(low_bits(r), 16) <=> k = 65536
    BY <1>6, <1>7
  <2>2. /\ HasBit(low_bits(r), 13) <=> r.active_low
        /\ HasBit(low_bits(r), 15) <=> r.level_triggered
        /\ HasBit(low_bits(r), 16) <=> r.masked
    BY <1>3, <2>1
  <2>3. /\ HasBit(low_bits(r), 13) \in BOOLEAN
        /\ HasBit(low_bits(r), 15) \in BOOLEAN
        /\ HasBit(low_bits(r), 16) \in BOOLEAN
    BY Zenon DEF HasBit
  <2>4. QED BY <1>1, <2>2, <2>3, SameTruth, Zenon
<1>9. QED BY <1>4, <1>6, <1>8 DEF v

LEMMA HighReads ==
    ASSUME NEW r \in Redirection
    PROVE  high_bits(r) \in Nat /\ (high_bits(r) \div 2 ^ 24) % 256 = r.destination
<1>1. r.destination \in 0 .. 127
  BY DEF Redirection
<1>2. high_bits(r) = r.destination * 16777216
  BY DEF high_bits
<1>3. \A d \in 0 .. 127 : (d * 16777216) \in Nat /\ ((d * 16777216) \div 16777216) % 256 = d
  OBVIOUS
<1>4. 2 ^ 24 = 16777216
  OBVIOUS
<1>5. QED BY <1>1, <1>2, <1>3, <1>4

\* RedirectionEntry's two conversions: what was written is read back, and a
\* half that is kept from another entry keeps its own fields (apic.rs).
LEMMA RoundTrip ==
    ASSUME NEW r \in Redirection, NEW s \in Redirection
    PROVE  from_bits(low_bits(r), high_bits(s)) =
              [vector |-> r.vector, destination |-> s.destination, active_low |-> r.active_low,
               level_triggered |-> r.level_triggered, masked |-> r.masked]
BY LowReads, HighReads DEF from_bits
-----------------------------------------------------------------------------
(* The parts of the state that whole groups of actions leave alone. *)

Fault == <<"over", "fault">>

LEMMA TaskStepKeeps ==
    TaskStep => /\ UNCHANGED <<m, run, hw, irq>>
                /\ stage' = stage \/ stage' = Fault
<1> SUFFICES ASSUME TaskStep
             PROVE  /\ UNCHANGED <<m, run, hw, irq>>
                    /\ stage' = stage \/ stage' = Fault
  OBVIOUS
<1> USE DEF ControlRest, CallRest, Fault
<1>1. CASE EnterRing3
  BY <1>1 DEF EnterRing3
<1>2. ASSUME NEW t \in Tasks, WaitDone(t) \/ ThreadExit(t) \/ Syscall(t) \/ on_syscall(t)
                              \/ YieldCall(t)
      PROVE  UNCHANGED <<m, run, hw, irq, stage>>
  BY <1>2 DEF WaitDone, ThreadExit, Syscall, on_syscall, YieldCall
<1>3. ASSUME NEW t \in Tasks, Refused(t) \/ sys_send(t) \/ sys_recv(t) \/ Back(t)
      PROVE  UNCHANGED <<m, run, hw, irq, stage>>
  BY <1>3 DEF Refused, sys_send, sys_recv, Back
<1>4. ASSUME NEW t \in Tasks, UserFault(t) \/ Return(t)
      PROVE  /\ UNCHANGED <<m, run, hw, irq>>
             /\ stage' = stage \/ stage' = Fault
  BY <1>4 DEF UserFault, Return
<1>5. QED BY <1>1, <1>2, <1>3, <1>4 DEF TaskStep

-----------------------------------------------------------------------------
(* The interrupt controllers: the images in the I/O APIC are images of     *)
(* entries, and once mask_all has been through them the only live one is   *)
(* the one selftest_apic asked for, not before its second write.           *)

Chips ==
    [pit: {"off", "rate", "last"}, base: {FIRMWARE_BASE, PIC_BASE}, imr: SUBSET Lines,
     pirr: SUBSET {IRQ_TIMER}, pisr: SUBSET {IRQ_TIMER}, on: BOOLEAN,
     irr: SUBSET FirmwareVectors, isr: SUBSET FirmwareVectors, lvt: {"masked", "periodic"},
     io: [Gsis -> [low: LowWords, high: HighWords]]]

Silent(e) == HasBit(e.low, 16)
Unrouted(s) ==
    \/ s[1] \in {"traps", "arm", "touch", "check", "pic", "acpi"}
    \/ s \in {"apic"} \X {"init", "mask", "route", "low"}
Pins == {g \in Gsis : g < m.ioapic}
Routing ==
    irq.using => \A g \in Pins :
       ~Silent(hw.io[g]) =>
          g = m.told /\ hw.io[g] = BothHalves(TimerEntry) /\ ~Unrouted(stage)

Statics ==
    irq = [f \in {"using", "vec", "ticks", "fired", "rate", "count", "page", "clock"} |-> irq[f]]

Wired == m \in Machines /\ hw \in Chips /\ Statics /\ Routing

LEMMA MachineTypes ==
    ASSUME NEW x \in Machines
    PROVE  /\ x.lapic \in BOOLEAN /\ x.pit \in BOOLEAN
           /\ x.id \in 0 .. 127 /\ x.wired \in Gsis /\ x.told \in Nat
           /\ x.flags \in 0 .. 15 /\ x.ioapic \in Nat
           /\ x.left \in {0} \union FirmwareVectors
<1>1. /\ {x.protects, x.smap, x.patient, x.prompt, x.pit, x.madt, x.lapic, x.hpet, x.stuck}
            \subseteq BOOLEAN
      /\ x.id \in 0 .. 127 /\ x.wired \in Gsis /\ x.told \in Nat
      /\ x.flags \in 0 .. 15 /\ x.ioapic \in Nat
      /\ x.left \in {0} \union FirmwareVectors
  BY EntryConstants, Zenon
<1>2. x.lapic \in BOOLEAN /\ x.pit \in BOOLEAN
  BY <1>1, Zenon
<1>3. QED BY <1>1, <1>2

LEMMA TimerEntryType ==
    ASSUME m \in Machines
    PROVE  /\ TimerEntry \in Redirection
           /\ TimerEntry.vector = APIC_TIMER_VECTOR /\ ~TimerEntry.masked
<1>1. m.id \in 0 .. 127
  BY MachineTypes
<1>2. /\ polarity_and_trigger(m.flags)[1] \in BOOLEAN
      /\ polarity_and_trigger(m.flags)[2] \in BOOLEAN
  <2>1. /\ polarity_and_trigger(m.flags)[1] = (m.flags % 4 = 3)
        /\ polarity_and_trigger(m.flags)[2] = ((m.flags \div 4) % 4 = 3)
    BY DEF polarity_and_trigger
  <2>2. QED BY <2>1, Zenon
<1> DEFINE p == polarity_and_trigger(m.flags)[1]
           q == polarity_and_trigger(m.flags)[2]
<1>3. TimerEntry = [vector |-> 48, destination |-> m.id, active_low |-> p,
                    level_triggered |-> q, masked |-> FALSE]
  BY DEF TimerEntry, APIC_TIMER_VECTOR
<1>4. p \in BOOLEAN /\ q \in BOOLEAN
  BY <1>2
<1> HIDE DEF p, q
<1>5. QED BY <1>1, <1>3, <1>4 DEF Redirection, APIC_TIMER_VECTOR

LEMMA MaskedType == MaskedEntry \in Redirection /\ MaskedEntry.masked
BY DEF MaskedEntry, Redirection

\* An image is live exactly if the entry it is an image of is not masked.
LEMMA ImageOf ==
    ASSUME NEW r \in Redirection, NEW h
    PROVE  Silent([low |-> low_bits(r), high |-> h]) <=> r.masked
BY LowReads, Zenon DEF Silent

\* set_masked keeps an image an image, and leaves it masked.
LEMMA SetMasked ==
    ASSUME NEW e \in [low: LowWords, high: HighWords]
    PROVE  set_masked(e) \in [low: LowWords, high: HighWords] /\ Silent(set_masked(e))
<1>1. PICK r \in Redirection : e.low = low_bits(r)
  BY DEF LowWords
<1>2. PICK s \in Redirection : e.high = high_bits(s)
  BY DEF HighWords
<1>3. from_bits(e.low, e.high) =
         [vector |-> r.vector, destination |-> s.destination, active_low |-> r.active_low,
          level_triggered |-> r.level_triggered, masked |-> r.masked]
  BY <1>1, <1>2, RoundTrip
<1> DEFINE f == from_bits(e.low, e.high)
           x == [f EXCEPT !.masked = TRUE]
<1>4. f \in Redirection
  BY <1>3 DEF Redirection
<1> HIDE DEF f
<1>5. x \in Redirection
  <2>1. \A b \in BOOLEAN : [f EXCEPT !.masked = b] \in Redirection
    BY <1>4 DEF Redirection
  <2>2. QED BY <2>1, Zenon
<1>6. x.masked
  BY <1>4, Zenon DEF Redirection
<1>7. set_masked(e) = [low |-> low_bits(x), high |-> e.high]
  BY DEF set_masked, f
<1> HIDE DEF x
<1>8. low_bits(x) \in LowWords
  BY <1>5, <1>6 DEF LowWords, Nameable
<1>9. QED BY <1>5, <1>6, <1>7, <1>8, ImageOf

LEMMA InitWired == Init => Wired
<1> SUFFICES ASSUME Init PROVE Wired
  OBVIOUS
<1>1. m \in Machines /\ (\A g \in Gsis : hw.io[g] = FirmwareEntry) /\ ~irq.using /\ Statics
  <2>1. /\ m \in Machines
        /\ irq = [using |-> FALSE, vec |-> PIC_BASE + IRQ_TIMER, ticks |-> 0,
                   fired |-> 0, rate |-> 0, count |-> 0, page |-> FALSE, clock |-> 0]
    BY Zenon DEF Init
  <2>2. irq.using = FALSE /\ Statics
    BY <2>1 DEF Statics
  <2>3. hw.io = [g \in Gsis |-> FirmwareEntry]
    BY DEF Init
  <2>4. QED BY <2>1, <2>2, <2>3, Zenon
<1>2. m.left \in {0} \union FirmwareVectors /\ m.id \in 0 .. 127
  BY <1>1, MachineTypes
<1>3. low_bits(MaskedEntry) \in LowWords
  BY MaskedType DEF LowWords, Nameable
<1>4. \A d \in 0 .. 127 : d * 2 ^ 24 \in HighWords
  <2>1. ASSUME NEW d \in 0 .. 127 PROVE d * 2 ^ 24 \in HighWords
    <3>1. [MaskedEntry EXCEPT !.destination = d] \in Redirection
      BY MaskedType DEF Redirection
    <3>2. [MaskedEntry EXCEPT !.destination = d].destination = d
      BY MaskedType DEF Redirection
    <3>3. high_bits([MaskedEntry EXCEPT !.destination = d]) = d * 2 ^ 24
      BY <3>2 DEF high_bits
    <3>4. QED BY <3>1, <3>3 DEF HighWords
  <2>2. QED BY <2>1
<1>5. ASSUME m.left \in FirmwareVectors
      PROVE  low_bits([MaskedEntry EXCEPT !.vector = m.left, !.masked = FALSE]) \in LowWords
  <2>1. PICK v \in FirmwareVectors : v = m.left
    BY <1>5
  <2> DEFINE r == [MaskedEntry EXCEPT !.vector = v]
  <2>2. r \in Redirection /\ r.vector = v
    <3>1. v \in 0 .. 255
      BY DEF FirmwareVectors
    <3>2. QED BY <3>1, MaskedType DEF Redirection
  <2> HIDE DEF r
  <2>3. \A b \in BOOLEAN :
           [r EXCEPT !.masked = b] \in Redirection /\ [r EXCEPT !.masked = b].vector = v
    BY <2>2 DEF Redirection
  <2>4. [r EXCEPT !.masked = FALSE] \in Redirection /\ [r EXCEPT !.masked = FALSE].vector = v
    BY <2>3, Zenon
  <2>5. low_bits([r EXCEPT !.masked = FALSE]) \in LowWords
    BY <2>4 DEF LowWords, Nameable
  <2>6. QED BY <2>1, <2>5, Zenon DEF r
<1>6. FirmwareEntry \in [low: LowWords, high: HighWords]
  <2>1. 2 \in 0 .. 127
    OBVIOUS
  <2>2. 2 * 2 ^ 24 \in HighWords /\ m.id * 2 ^ 24 \in HighWords
    BY <1>2, <1>4, <2>1, Zenon
  <2>3. QED BY <1>2, <1>3, <1>5, <2>2, Zenon DEF FirmwareEntry
<1>7. hw \in Chips
  BY <1>6 DEF Init, Chips, Lines
<1>8. QED BY <1>1, <1>7, Zenon DEF Wired, Routing

\* Every step that leaves the I/O APIC alone, and does not go back to before.
LEMMA RoutingKept ==
    ASSUME Routing, UNCHANGED m, hw'.io = hw.io, UNCHANGED irq.using,
           Unrouted(stage') => Unrouted(stage)
    PROVE  Routing'
BY DEF Routing, Pins, TimerEntry

\* A set of natural numbers has a least element.
LEMMA LeastExists ==
    ASSUME NEW S, S \subseteq Nat, S # {}
    PROVE  \E x \in S : \A y \in S : x <= y
<1>1. PICK x \in S : \A y \in S : ~(<<y, x>> \in OpToRel(<, Nat))
  BY NatLessThanWellFounded, WFMin
<1>2. \A y \in S : ~(y < x)
  BY <1>1 DEF OpToRel
<1>3. QED BY <1>2

LEMMA HighestOne == \A S \in SUBSET FirmwareVectors : S # {} => Highest(S) \in S
<1> SUFFICES ASSUME NEW S \in SUBSET FirmwareVectors, S # {} PROVE Highest(S) \in S
  OBVIOUS
<1> DEFINE T == {k \in 0 .. 254 : 254 - k \in S}
<1>0. \A x \in S : x \in 32 .. 254
  BY DEF FirmwareVectors
<1>1. \A x \in S : 254 - x \in T
  <2>1. ASSUME NEW x \in S PROVE 254 - x \in 0 .. 254 /\ 254 - (254 - x) = x
    BY <1>0
  <2>2. QED BY <2>1
<1>2. T \in SUBSET Nat /\ T # {}
  <2>1. T # {}
    BY <1>1, Zenon
  <2>2. QED BY <2>1
<1>3. \A k \in T : k \in 0 .. 254 /\ 254 - k \in S
  OBVIOUS
<1> HIDE DEF T
<1>4. PICK n \in T : \A k \in T : n <= k
  BY <1>2, LeastExists
<1>5. PICK x \in S : x = 254 - n
  BY <1>3
<1>6. ASSUME NEW y \in S PROVE x >= y
  <2>1. n <= 254 - y
    BY <1>1, <1>4
  <2>2. y \in Int /\ n \in Int
    BY <1>0, <1>3
  <2>3. QED BY <1>5, <2>1, <2>2
<1>7. QED BY <1>6 DEF Highest

LEMMA LeastOne == \A S \in SUBSET {IRQ_TIMER} : S # {} => S = {IRQ_TIMER} /\ Least(S) = IRQ_TIMER
<1> SUFFICES ASSUME NEW S \in SUBSET {IRQ_TIMER}, S # {}
             PROVE  S = {IRQ_TIMER} /\ Least(S) = IRQ_TIMER
  OBVIOUS
<1>1. S = {IRQ_TIMER}
  OBVIOUS
<1>2. QED BY <1>1 DEF Least, IRQ_TIMER

\* USING_APIC is stored once, when mask_all is done.
LEMMA UsingKept ==
    Statics /\ [Next]_vars => Statics' /\ (mask_all \/ UNCHANGED irq.using)
<1> SUFFICES ASSUME Statics, [Next]_vars PROVE Statics' /\ (mask_all \/ UNCHANGED irq.using)
  OBVIOUS
<1>a. ASSUME UNCHANGED irq PROVE Statics' /\ UNCHANGED irq.using
  BY <1>a DEF Statics
<1> USE DEF BootRest
<1>1. ASSUME NEW x \in Tested, arm_page_fault(x) \/ Touch(x) \/ Check(x) PROVE UNCHANGED irq
  BY <1>1 DEF arm_page_fault, Touch, Check
<1>2. CASE Breakpoint \/ InitPic \/ StopPic \/ Discover \/ init_apic
  BY <1>2, <1>a DEF Breakpoint, InitPic, StopPic, Discover, init_apic
<1>3. CASE RouteHigh \/ RouteLow \/ StopApic \/ Spawn \/ Start \/ StopTicking \/ Finish
  BY <1>3, <1>a DEF RouteHigh, RouteLow, StopApic, Spawn, Start, StopTicking, Finish, ControlRest
<1>4. CASE mask_all
  <2>1. irq' \in {irq, [irq EXCEPT !.using = TRUE]}
    BY <1>4 DEF mask_all
  <2>2. QED BY <1>4, <2>1 DEF Statics
<1>5. CASE StartPic \/ StartApic
  <2>1. PICK v : irq' = Restarted(irq, v)
    BY <1>5 DEF StartPic, StartApic
  <2>2. QED BY <2>1 DEF Statics, Restarted
<1>6. CASE init_timer
  <2>1. irq' = irq \/ \E e : irq' = [irq EXCEPT !.rate = e]
    BY <1>6 DEF init_timer
  <2>2. QED BY <2>1 DEF Statics
<1>7. CASE StartTimer
  BY <1>7 DEF StartTimer, Statics, Restarted
<1>8. CASE StopTimer
  BY <1>8 DEF StopTimer, Statics
<1>9. CASE UserInit
  <2>1. irq' = Seeded(irq)
    BY <1>9 DEF UserInit
  <2>2. QED BY <2>1 DEF Statics, Seeded, publish_ticks
<1>10. CASE StartTicking
  <2>1. irq' = irq \/ irq' = [irq EXCEPT !.vec = LAPIC_TIMER_VECTOR]
    BY <1>10 DEF StartTicking
  <2>2. QED BY <2>1 DEF Statics
<1>11. CASE SwitchStep
  <2>1. CASE Dispatch
    <3>1. irq' = irq \/ irq' = Counting(irq) \/ irq' = publish_ticks(Counting(irq))
      BY <2>1 DEF Dispatch, dispatch_apic, dispatch_pic
    <3>2. /\ Counting(irq) = [f \in {"using", "vec", "ticks", "fired", "rate", "count", "page", "clock"} |->
                                Counting(irq)[f]]
          /\ Counting(irq).using = irq.using
      BY DEF Counting, Statics
    <3> HIDE DEF Counting
    <3>3. QED BY <3>1, <3>2 DEF Statics, publish_ticks
  <2>2. CASE Epilogue \/ Trampoline \/ StartLoop
    BY <2>2, <1>a DEF Epilogue, Trampoline, StartLoop, ControlRest
  <2>3. QED BY <1>11, <2>1, <2>2 DEF SwitchStep
<1>12. CASE TaskStep
  BY <1>12, <1>a, TaskStepKeeps
<1>13. CASE LapicTick
  <2>1. \E n : irq' = [irq EXCEPT !.fired = n]
    BY <1>13 DEF LapicTick
  <2>2. QED BY <2>1 DEF Statics
<1>14. CASE PitEdge \/ PicInterrupt \/ ApicInterrupt \/ Spurious
  BY <1>14, <1>a DEF PitEdge, PicInterrupt, ApicInterrupt, Spurious, TrapIn
<1>15. CASE UNCHANGED vars
  BY <1>15, <1>a DEF vars
<1>16. QED BY <1>a, <1>1, <1>2, <1>3, <1>4, <1>5, <1>6, <1>7, <1>8, <1>9, <1>10, <1>11, <1>12,
              <1>13, <1>14, <1>15 DEF Next, BootStep

LEMMA WiredInductive == Wired /\ [Next]_vars => Wired'
<1> SUFFICES ASSUME Wired, [Next]_vars PROVE Wired'
  OBVIOUS
<1>c. Statics' /\ (mask_all \/ UNCHANGED irq.using)
  BY UsingKept DEF Wired
<1>m. CASE mask_all
  <2> DEFINE e == [low |-> low_bits(MaskedEntry), high |-> high_bits(MaskedEntry)]
  <2>0. m \in Machines /\ hw \in Chips
    BY DEF Wired
  <2>1. e \in [low: LowWords, high: HighWords]
    BY MaskedType DEF LowWords, HighWords, Nameable
  <2>2. Silent(e)
    BY MaskedType, ImageOf
  <2>3. UNCHANGED m /\ m.ioapic \in Nat
    BY <1>m, <2>0, MachineTypes DEF mask_all, BootRest
  <2>4. CASE m.ioapic > 0
    <3>1. hw' = [hw EXCEPT !.io = [g \in Gsis |-> IF g < m.ioapic THEN e ELSE @[g]]]
      BY <1>m, <2>4 DEF mask_all
    <3> HIDE DEF e
    <3>2. hw' \in Chips
      BY <2>0, <2>1, <3>1 DEF Chips
    <3>3. \A g \in Pins : hw'.io[g] = e
      BY <2>0, <3>1 DEF Chips, Pins
    <3>4. Pins' = Pins
      BY <2>3 DEF Pins
    <3>5. Routing'
      BY <2>2, <3>3, <3>4 DEF Routing
    <3>6. QED BY <1>c, <2>0, <2>3, <3>2, <3>5 DEF Wired
  <2>5. CASE ~(m.ioapic > 0)
    <3>1. hw' = hw
      BY <1>m, <2>5 DEF mask_all
    <3>2. Pins' = {}
      BY <2>3, <2>5 DEF Pins, Gsis
    <3>3. Routing'
      BY <3>2 DEF Routing
    <3>4. QED BY <1>c, <2>0, <2>3, <3>1, <3>3 DEF Wired
  <2>6. QED BY <2>4, <2>5
<1>n. SUFFICES ASSUME ~mask_all PROVE Wired'
  BY <1>m
<1>o. Statics' /\ UNCHANGED irq.using
  BY <1>c, <1>n
<1>0. /\ m \in Machines /\ hw \in Chips /\ Routing
      /\ m.told \in Nat /\ m.wired \in Gsis /\ m.lapic \in BOOLEAN
  BY MachineTypes DEF Wired
<1>a. ASSUME UNCHANGED <<m, hw>>, Unrouted(stage') => Unrouted(stage)
      PROVE  Wired'
  BY <1>0, <1>o, <1>a, RoutingKept DEF Wired
<1>b. ASSUME UNCHANGED m, hw' \in Chips, hw'.io = hw.io, Unrouted(stage') => Unrouted(stage)
      PROVE  Wired'
  BY <1>0, <1>o, <1>b, RoutingKept DEF Wired
<1> USE DEF BootRest, At, Goto, Unrouted, Fault
<1>1. CASE Breakpoint
  BY <1>0, <1>1, <1>a DEF Breakpoint
<1>2. ASSUME NEW x \in Tested, arm_page_fault(x) \/ Touch(x) \/ Check(x)
      PROVE  Wired'
  <2>1. UNCHANGED <<m, hw>>
    BY <1>2 DEF arm_page_fault, Touch, Check
  <2>2. stage[1] \in {"arm", "touch", "check"}
    <3>1. stage \in {<<"arm", x>>, <<"touch", x>>, <<"check", x>>}
      BY <1>2, Zenon DEF arm_page_fault, Touch, Check
    <3>2. QED BY <3>1
  <2>3. QED BY <2>1, <2>2, <1>a
<1>3. CASE InitPic
  <2>1. hw' \in Chips /\ hw'.io = hw.io
    BY <1>0, <1>3 DEF InitPic, Chips, Lines
  <2>2. QED BY <1>3, <2>1, <1>b DEF InitPic
<1>4. CASE StartPic \/ StopPic
  <2>1. CASE StartPic
    <3>1. hw' \in Chips /\ hw'.io = hw.io
      BY <1>0, <2>1 DEF StartPic, Chips
    <3>2. QED BY <2>1, <3>1, <1>b DEF StartPic
  <2>2. CASE StopPic
    <3>1. hw' \in Chips /\ hw'.io = hw.io
      BY <1>0, <2>2 DEF StopPic, Chips, Lines
    <3>2. QED BY <2>2, <3>1, <1>b DEF StopPic
  <2>3. QED BY <1>4, <2>1, <2>2
<1>5. CASE Discover \/ init_timer \/ UserInit \/ Start \/ Finish
  <2>1. CASE Discover
    BY <2>1, <1>a DEF Discover
  <2>2. CASE init_timer
    <3>1. UNCHANGED <<m, hw>> /\ stage' \in {<<"end", "tests">>, <<"timer", "start">>}
      BY <2>2 DEF init_timer
    <3>2. QED BY <3>1, <1>a
  <2>3. CASE UserInit \/ Start
    BY <2>3, <1>a DEF UserInit, Start, ControlRest
  <2>4. CASE Finish
    BY <2>4, <1>a DEF Finish
  <2>5. QED BY <1>5, <2>1, <2>2, <2>3, <2>4
<1>6. CASE Spawn
  BY <1>0, <1>6, <1>a DEF Spawn
<1>7. CASE init_apic
  <2>1. hw' \in Chips /\ hw'.io = hw.io
    BY <1>0, <1>7 DEF init_apic, Chips, Lines
  <2>2. QED BY <1>7, <2>1, <1>b DEF init_apic
<1>8. CASE RouteHigh
  <2>1. UNCHANGED m /\ Unrouted(stage)
    BY <1>8 DEF RouteHigh
  <2>2. irq.using => \A g \in Pins : Silent(hw.io[g])
    BY <1>0, <2>1 DEF Routing
  <2>3. CASE UNCHANGED hw
    BY <2>1, <2>3, <1>a
  <2>4. CASE hw' = [hw EXCEPT !.io[m.told] = FirstHalf(@, TimerEntry)]
    <3>1. high_bits(TimerEntry) \in HighWords
      BY <1>0, TimerEntryType DEF HighWords
    <3>2. hw' \in Chips
      BY <1>0, <2>4, <3>1, SMTT(30) DEF Chips, FirstHalf
    <3>3. \A g \in Gsis : hw'.io[g].low = hw.io[g].low
      BY <1>0, <2>4 DEF Chips, FirstHalf
    <3>4. irq.using => \A g \in Pins : Silent(hw'.io[g])
      BY <2>2, <3>3 DEF Silent, Pins
    <3>5. Routing'
      BY <1>o, <2>1, <3>4 DEF Routing, Pins
    <3>6. QED BY <1>0, <1>o, <2>1, <3>2, <3>5 DEF Wired
  <2>5. QED BY <1>8, <2>3, <2>4 DEF RouteHigh
<1>9. CASE RouteLow
  <2>1. UNCHANGED m /\ Unrouted(stage)
    BY <1>9 DEF RouteLow
  <2>2. irq.using => \A g \in Pins : Silent(hw.io[g])
    BY <1>0, <2>1 DEF Routing
  <2>3. hw' = [hw EXCEPT !.io[m.told] = BothHalves(TimerEntry)]
    BY <1>9 DEF RouteLow
  <2>4. BothHalves(TimerEntry) \in [low: LowWords, high: HighWords]
    BY <1>0, TimerEntryType DEF BothHalves, LowWords, HighWords, Nameable, FirmwareVectors, APIC_TIMER_VECTOR
  <2>5. hw' \in Chips
    BY <1>0, <2>3, <2>4 DEF Chips
  <2>6. \A g \in Gsis : g # m.told => hw'.io[g] = hw.io[g]
    BY <1>0, <2>3 DEF Chips
  <2>7. m.told \in Gsis => hw'.io[m.told] = BothHalves(TimerEntry)
    BY <1>0, <2>3 DEF Chips
  <2>8. UNCHANGED TimerEntry
    BY <2>1 DEF TimerEntry
  <2>9. stage' = <<"apic", "start">>
    <3>1. from_bits(low_bits(TimerEntry), high_bits(TimerEntry)) = TimerEntry
      BY <1>0, TimerEntryType, RoundTrip DEF Redirection
    <3>2. /\ BothHalves(TimerEntry).low = low_bits(TimerEntry)
          /\ BothHalves(TimerEntry).high = high_bits(TimerEntry)
      BY DEF BothHalves
    <3>3. QED BY <1>9, <3>1, <3>2 DEF RouteLow
  <2>10. Routing'
    BY <1>o, <2>1, <2>2, <2>6, <2>7, <2>8, <2>9 DEF Routing, Pins, BothHalves
  <2>11. QED BY <1>0, <1>o, <2>1, <2>5, <2>10 DEF Wired
<1>10. CASE StartApic
  <2>1. hw' \in Chips /\ hw'.io = hw.io
    BY <1>0, <1>10 DEF StartApic, Chips
  <2>2. QED BY <1>10, <2>1, <1>b DEF StartApic
<1>11. CASE StopApic
  <2>1. UNCHANGED m /\ hw' = [hw EXCEPT !.pit = "last", !.io[m.told] = set_masked(@)]
    BY <1>11 DEF StopApic
  <2>2. m.told \in Gsis => /\ set_masked(hw.io[m.told]) \in [low: LowWords, high: HighWords]
                           /\ Silent(set_masked(hw.io[m.told]))
    BY <1>0, SetMasked DEF Chips
  <2>3. hw' \in Chips
    BY <1>0, <2>1, <2>2 DEF Chips
  <2>4. \A g \in Gsis : g # m.told => hw'.io[g] = hw.io[g]
    BY <1>0, <2>1 DEF Chips
  <2>5. m.told \in Gsis => hw'.io[m.told] = set_masked(hw.io[m.told])
    BY <1>0, <2>1 DEF Chips
  <2>6. irq.using => \A g \in Pins : Silent(hw'.io[g])
    BY <1>0, <2>2, <2>4, <2>5 DEF Routing, Pins
  <2>7. Routing'
    BY <1>o, <2>1, <2>6 DEF Routing, Pins
  <2>8. QED BY <1>0, <1>o, <2>1, <2>3, <2>7 DEF Wired
<1>12. CASE StartTimer \/ StopTimer \/ StartTicking \/ StopTicking
  <2>1. hw' \in Chips /\ hw'.io = hw.io
    BY <1>0, <1>12, ZenonT(30) DEF StartTimer, StopTimer, StartTicking, StopTicking, Chips
  <2>2. UNCHANGED m
    BY <1>12 DEF StartTimer, StopTimer, StartTicking, StopTicking
  <2>3. ~Unrouted(stage')
    <3>1. CASE StartTimer \/ StopTimer
      <4>1. stage' \in {<<"run", "spawn">>, <<"timer", "wait">>}
        BY <3>1, Zenon DEF StartTimer, StopTimer
      <4>2. QED BY <4>1
    <3>2. CASE StartTicking \/ StopTicking
      <4>1. stage' \in {<<"run", "go">>, <<"run", "spawn">>, <<"user", "init">>, <<"end", "tests">>}
        BY <3>2 DEF StartTicking, StopTicking, NextRun
      <4>2. QED BY <4>1
    <3>3. QED BY <1>12, <3>1, <3>2
  <2>4. QED BY <2>1, <2>2, <2>3, <1>b
<1>13. CASE SwitchStep
  <2>1. CASE Epilogue \/ Trampoline
    BY <2>1, <1>a DEF Epilogue, Trampoline, ControlRest
  <2>2. CASE StartLoop
    BY <2>2, <1>a DEF StartLoop
  <2>3. CASE Dispatch
    <3>1. UNCHANGED m /\ (stage' = stage \/ stage' = Fault)
      BY <2>3 DEF Dispatch
    <3>2. hw' = hw \/ hw' = PicEoi(hw) \/ hw' = ApicEoi(hw)
      BY <2>3 DEF Dispatch, dispatch_apic, dispatch_pic
    <3>3. PicEoi(hw) \in Chips /\ PicEoi(hw).io = hw.io
      BY <1>0 DEF PicEoi, Chips
    <3>4. ApicEoi(hw) \in Chips /\ ApicEoi(hw).io = hw.io
      BY <1>0 DEF ApicEoi, Chips
    <3>5. QED BY <1>0, <3>1, <3>2, <3>3, <3>4, <1>b
  <2>4. QED BY <1>13, <2>1, <2>2, <2>3 DEF SwitchStep
<1>14. CASE TaskStep
  BY <1>14, TaskStepKeeps, <1>a
<1>15. CASE PitEdge
  <2>1. Forwarded(m.wired) \subseteq FirmwareVectors
    <3> DEFINE e == hw.io[m.wired]
    <3>1. PICK r \in Redirection : e.low = low_bits(r) /\ Nameable(r)
      BY <1>0 DEF Chips, LowWords
    <3>2. PICK s \in Redirection : e.high = high_bits(s)
      BY <1>0 DEF Chips, HighWords
    <3>3. from_bits(e.low, e.high).vector = r.vector /\ from_bits(e.low, e.high).masked = r.masked
      BY <3>1, <3>2, RoundTrip
    <3> HIDE DEF e
    <3>4. QED BY <3>1, <3>3, Zenon DEF Forwarded, Nameable, e
  <2>2. hw' \in Chips /\ hw'.io = hw.io
    BY <1>0, <1>15, <2>1 DEF PitEdge, Chips
  <2>3. QED BY <1>15, <2>2, <1>b DEF PitEdge, Software
<1>16. CASE LapicTick
  <2>1. hw' \in Chips /\ hw'.io = hw.io
    BY <1>0, <1>16 DEF LapicTick, Chips, FirmwareVectors, LAPIC_TIMER_VECTOR
  <2>2. QED BY <1>16, <2>1, <1>b DEF LapicTick, Software
<1>17. CASE PicInterrupt
  <2>1. hw.pirr \ hw.imr \in SUBSET {IRQ_TIMER} /\ hw.pirr \ hw.imr # {}
    BY <1>0, <1>17 DEF PicInterrupt, Chips
  <2>2. Least(hw.pirr \ hw.imr) = IRQ_TIMER
    BY <2>1, LeastOne
  <2>3. TrapIn(hw.base + IRQ_TIMER,
               [hw EXCEPT !.pirr = @ \ {IRQ_TIMER}, !.pisr = @ \union {IRQ_TIMER}])
    BY <1>17, <2>2 DEF PicInterrupt
  <2>4. hw' \in Chips /\ hw'.io = hw.io
    BY <1>0, <2>3 DEF TrapIn, Chips
  <2>5. QED BY <2>3, <2>4, <1>b DEF TrapIn
<1>18. CASE ApicInterrupt
  <2>1. hw.irr \in SUBSET FirmwareVectors /\ hw.irr # {}
    BY <1>0, <1>18 DEF ApicInterrupt, Chips
  <2>2. PICK v \in FirmwareVectors : TrapIn(v, [hw EXCEPT !.irr = @ \ {v}, !.isr = @ \union {v}])
    BY <1>18, <2>1, HighestOne DEF ApicInterrupt
  <2>3. hw' \in Chips /\ hw'.io = hw.io
    BY <1>0, <2>2 DEF TrapIn, Chips
  <2>4. QED BY <2>2, <2>3, <1>b DEF TrapIn
<1>19. CASE Spurious
  BY <1>19, <1>a DEF Spurious, TrapIn
<1>20. CASE UNCHANGED vars
  BY <1>20, <1>a DEF vars
<1>21. QED BY <1>1, <1>2, <1>3, <1>4, <1>5, <1>6, <1>7, <1>8, <1>9, <1>10, <1>11, <1>12,
              <1>13, <1>14, <1>15, <1>16, <1>17, <1>18, <1>19, <1>20, <1>n DEF Next, BootStep

LEMMA WiredRoutes == Wired => RoutedAsAsked
<1> SUFFICES ASSUME Wired, irq.using, NEW g \in Gsis, g < m.ioapic
             PROVE  LET e == from_bits(hw.io[g].low, hw.io[g].high)
                    IN  e \in Redirection /\ (~e.masked => e = TimerEntry)
  BY DEF RoutedAsAsked
<1>1. hw.io[g] \in [low: LowWords, high: HighWords] /\ m \in Machines
  BY DEF Wired, Chips
<1>2. PICK r \in Redirection : hw.io[g].low = low_bits(r)
  BY <1>1 DEF LowWords
<1>3. PICK s \in Redirection : hw.io[g].high = high_bits(s)
  BY <1>1 DEF HighWords
<1> DEFINE e == from_bits(hw.io[g].low, hw.io[g].high)
<1>4. e = [vector |-> r.vector, destination |-> s.destination, active_low |-> r.active_low,
           level_triggered |-> r.level_triggered, masked |-> r.masked]
  BY <1>2, <1>3, RoundTrip
<1>5. e \in Redirection
  BY <1>4 DEF Redirection
<1>6. ASSUME ~e.masked PROVE e = TimerEntry
  <2>1. ~Silent(hw.io[g])
    BY <1>2, <1>4, <1>6, LowReads DEF Silent
  <2>2. hw.io[g] = BothHalves(TimerEntry)
    BY <2>1 DEF Wired, Routing, Pins
  <2>3. /\ hw.io[g].low = low_bits(TimerEntry)
        /\ hw.io[g].high = high_bits(TimerEntry)
    BY <2>2 DEF BothHalves
  <2>4. TimerEntry \in Redirection
    BY <1>1, TimerEntryType
  <2>5. from_bits(low_bits(TimerEntry), high_bits(TimerEntry)) = TimerEntry
    BY <2>4, RoundTrip DEF Redirection
  <2>6. QED BY <2>3, <2>5
<1>7. QED BY <1>5, <1>6

-----------------------------------------------------------------------------
(* The programs: an operation on an endpoint names one, and only the last  *)
(* operation of a program ends it.                                         *)

Late == {"SRV", "CLI", "S5", "S6", "SNK"}
Named == {"send", "recv", "dead", "revoke"}
Last == {"exit", "fault"}

WellFormed(p) ==
    /\ Len(p) \in Nat \ {0}
    /\ \A i \in 1 .. Len(p) :
          /\ p[i].op \in Named => p[i].ep \in Endpoints
          /\ p[i].tag \in Nat
          /\ p[i].op \notin Last => i # Len(p)
Solitary(p) == \A i \in 1 .. Len(p) : p[i].op \notin Named

LEMMA StormSenders ==
    ASSUME NEW n \in Nat PROVE WellFormed(storm_sender(n))
<1> DEFINE s == [k \in 1 .. n |-> On("send", "storm", 0)]
           e == <<Op("exit")>>
           D == {On("send", "storm", 0), Op("exit")}
<1>1. s \in Seq(D) /\ Len(s) = n /\ e \in Seq(D) /\ Len(e) = 1 /\ e[1] = Op("exit")
  OBVIOUS
<1>2. \A i \in 1 .. n : s[i] = On("send", "storm", 0)
  OBVIOUS
<1>3. storm_sender(n) = s \o e
  BY DEF storm_sender
<1> HIDE DEF s, e, D
<1>4. /\ Len(s \o e) = n + 1
      /\ \A i \in 1 .. n + 1 : (s \o e)[i] = IF i <= n THEN s[i] ELSE e[i - n]
  <2>1. /\ Len(s \o e) = Len(s) + Len(e)
        /\ \A i \in 1 .. Len(s) + Len(e) :
              (s \o e)[i] = IF i <= Len(s) THEN s[i] ELSE e[i - Len(s)]
    BY <1>1, ConcatProperties, Zenon
  <2>2. Len(s) = n /\ Len(e) = 1
    BY <1>1
  <2>3. QED BY <2>1, <2>2
<1>5. \A i \in 1 .. n + 1 : (s \o e)[i] = IF i <= n THEN On("send", "storm", 0) ELSE Op("exit")
  <2> TAKE i \in 1 .. n + 1
  <2>1. CASE i <= n
    BY <1>2, <1>4, <2>1
  <2>2. CASE i = n + 1
    BY <1>1, <1>4, <2>2
  <2>3. i <= n \/ i = n + 1
    OBVIOUS
  <2>4. QED BY <2>1, <2>2, <2>3
<1>6. Len(storm_sender(n)) = n + 1 /\ Len(storm_sender(n)) \in Nat \ {0}
  BY <1>3, <1>4
<1>7. ASSUME NEW i \in 1 .. n + 1
      PROVE  /\ storm_sender(n)[i].op \in Named => storm_sender(n)[i].ep \in Endpoints
             /\ storm_sender(n)[i].tag \in Nat
             /\ storm_sender(n)[i].op \notin Last => i # n + 1
  <2>1. storm_sender(n)[i] = IF i <= n THEN On("send", "storm", 0) ELSE Op("exit")
    BY <1>3, <1>5, <1>7
  <2>2. CASE i <= n
    BY <2>1, <2>2 DEF On, Endpoints
  <2>3. CASE ~(i <= n)
    BY <2>1, <2>3 DEF Op, Named, Last
  <2>4. QED BY <2>2, <2>3
<1>8. QED BY <1>6, <1>7, Zenon DEF WellFormed

LEMMA StormSink == WellFormed(storm_sink)
<1> DEFINE w == <<Op("wait")>>
           s == [k \in 1 .. 3 |-> On("recv", "storm", 0)]
           e == <<Op("exit")>>
           D == {On("recv", "storm", 0), Op("exit"), Op("wait")}
<1>1. /\ w \in Seq(D) /\ Len(w) = 1 /\ w[1] = Op("wait")
      /\ s \in Seq(D) /\ Len(s) = 3 /\ e \in Seq(D) /\ Len(e) = 1 /\ e[1] = Op("exit")
  OBVIOUS
<1>2. \A i \in 1 .. 3 : s[i] = On("recv", "storm", 0)
  OBVIOUS
<1>3. storm_sink = (w \o s) \o e
  BY DEF storm_sink
<1> HIDE DEF w, s, e
<1> DEFINE ws == w \o s
<1> HIDE DEF D
<1>4. /\ ws \in Seq(D) /\ Len(ws) = 4
      /\ \A i \in 1 .. 4 : ws[i] = IF i <= 1 THEN w[i] ELSE s[i - 1]
  <2>1. /\ ws \in Seq(D) /\ Len(ws) = Len(w) + Len(s)
        /\ \A i \in 1 .. Len(w) + Len(s) : ws[i] = IF i <= Len(w) THEN w[i] ELSE s[i - Len(w)]
    BY <1>1, ConcatProperties, Zenon
  <2> HIDE DEF ws
  <2>2. QED BY <1>1, <2>1
<1> HIDE DEF ws
<1>5. /\ Len(ws \o e) = 5
      /\ \A i \in 1 .. 5 : (ws \o e)[i] = IF i <= 4 THEN ws[i] ELSE e[i - 4]
  <2> DEFINE wse == ws \o e
  <2>1. /\ Len(wse) = Len(ws) + Len(e)
        /\ \A i \in 1 .. Len(ws) + Len(e) : wse[i] = IF i <= Len(ws) THEN ws[i] ELSE e[i - Len(ws)]
    BY <1>1, <1>4, ConcatProperties, Zenon
  <2> HIDE DEF wse
  <2>2. Len(wse) = 5 /\ \A i \in 1 .. 5 : wse[i] = IF i <= 4 THEN ws[i] ELSE e[i - 4]
    BY <1>1, <1>4, <2>1
  <2>3. QED BY <2>2 DEF wse
<1>6. \A i \in 1 .. 4 : ws[i] = IF i = 1 THEN Op("wait") ELSE On("recv", "storm", 0)
  BY <1>1, <1>2, <1>4
<1>7. \A i \in 1 .. 5 : (ws \o e)[i] = IF i = 1 THEN Op("wait")
                                       ELSE IF i = 5 THEN Op("exit") ELSE On("recv", "storm", 0)
  BY <1>1, <1>5, <1>6
<1>8. storm_sink = ws \o e
  BY <1>3 DEF ws
<1>9. QED BY <1>5, <1>7, <1>8, SMTT(30) DEF WellFormed, On, Op, Named, Last, Endpoints

LEMMA ProgramsWellFormed ==
    ASSUME NEW t \in Tasks
    PROVE  WellFormed(Program[t]) /\ (t \notin Late => Solitary(Program[t]))
<1> USE DEF Op, On, Named, Last, Endpoints
<1>1. WellFormed(ThreadBody) /\ Solitary(ThreadBody)
  BY DEF ThreadBody, WellFormed, Solitary
<1>2. WellFormed(TaskOne) /\ Solitary(TaskOne)
  BY DEF TaskOne, WellFormed, Solitary
<1>3. WellFormed(TaskTwo) /\ Solitary(TaskTwo)
  BY DEF TaskTwo, WellFormed, Solitary
<1>4. WellFormed(server)
  BY DEF server, WellFormed
<1>5. WellFormed(client)
  BY DEF client, WellFormed
<1>6. QED
  BY <1>1, <1>2, <1>3, <1>4, <1>5, StormSenders, StormSink
     DEF Program, Late, Tasks, User, Kernel

-----------------------------------------------------------------------------
(* Who runs.  One context has the CPU, all others stand where a switch or  *)
(* a wait left them, and what waits on an endpoint is blocked there.       *)

Places == {"none", "fresh", "entry", "body", "irq", "acked", "stub", "call", "back",
           "blocked", "served", "dead", "start"}
Resting == {"none", "fresh", "acked", "back", "blocked", "dead"}
Cpu == [ifl: BOOLEAN, saved: BOOLEAN, gs: {"home", "in"}, cur: Ctx, kstack: Ctx,
        rsp0: Ctx, vector: Nat, need: BOOLEAN]
Endpoint == [ring: Seq(Nat), senders: Seq(Tasks \X Nat), receivers: Seq(Tasks),
             live: BOOLEAN]
Resumes == {f \in [Ctx -> {"entry", "body"}] : f[Boot] = "body"}

Standing ==
    /\ cpu \in Cpu
    /\ pc \in [Ctx -> Places]
    /\ ret \in Resumes
    /\ ip \in [Tasks -> Nat]
    /\ eps \in [Endpoints -> Endpoint]
    /\ run \in 0 .. 4

OneRuns ==
    /\ \A t \in Tasks : pc[t] # "start" /\ (t # Cur => pc[t] \in Resting)
    /\ Cur \in Tasks => pc[Cur] \notin {"none", "blocked", "dead"}
    /\ pc[Boot] \in {"body", "irq", "acked", "start"}
    /\ Cur # Boot => pc[Boot] = "start"

\* Where a task stands in a call says which operation it is at.
Placed(t) ==
    /\ ip[t] \in 1 .. Len(Program[t])
    /\ pc[t] \in {"call", "back", "blocked"} => Doing(t).op \in MaySwitch
    /\ pc[t] = "stub" => Doing(t).op \notin {"wait", "fault"}
Placement == \A t \in Tasks : Placed(t)

Waits(t, e, ops) ==
    t \in Late /\ pc[t] = "blocked" /\ Doing(t).ep = e /\ Doing(t).op \in ops
QueuesOf(e) ==
    /\ \A i \in 1 .. Len(eps[e].receivers) : Waits(eps[e].receivers[i], e, {"recv"})
    /\ \A i \in 1 .. Len(eps[e].senders) : Waits(eps[e].senders[i][1], e, {"send", "dead"})
    /\ \A i, j \in 1 .. Len(eps[e].receivers) :
          eps[e].receivers[i] = eps[e].receivers[j] => i = j
    /\ \A i, j \in 1 .. Len(eps[e].senders) :
          eps[e].senders[i][1] = eps[e].senders[j][1] => i = j
Queues == \A e \in Endpoints : QueuesOf(e)

\* kmain's order: the machine first, then the runs of tasks one by one; the
\* programs that use endpoints are spawned for the last run, and once.
Machinery == {"traps", "arm", "touch", "check", "pic", "acpi", "apic", "timer"}
Order ==
    /\ stage[1] \in Machinery => run = 0
    /\ stage[1] = "run" => run \in 1 .. 4
    /\ stage[1] = "user" => run = 2
    /\ Cur # Boot \/ pc[Boot] = "start" => stage \in {<<"run", "go">>, Fault}
    /\ \A t \in Late : pc[t] = "none" \/ (run = 4 /\ stage # <<"run", "spawn">>)

Control == Standing /\ OneRuns /\ Placement /\ Queues /\ Order

LEMMA Appended ==
    ASSUME NEW S, NEW r \in Seq(S), NEW t \in S
    PROVE  /\ Len(Append(r, t)) = Len(r) + 1 /\ Append(r, t)[Len(r) + 1] = t
           /\ \A i \in 1 .. Len(r) : Append(r, t)[i] = r[i]
BY AppendProperties

LEMMA Names ==
    /\ Boot \in Ctx /\ Boot \notin Tasks /\ Late \subseteq Tasks /\ User \subseteq Tasks
    /\ \A t \in Tasks : t \in Ctx /\ t # Boot
    /\ \A c \in Ctx : c # Boot => c \in Tasks
BY DEF Ctx, Tasks, Late, User, Kernel, Boot

\* The task on the CPU goes from one place to another and keeps the CPU.
LEMMA GoesOn ==
    ASSUME Control, NEW q \in Places, pc' = [pc EXCEPT ![Cur] = q],
           cpu' \in Cpu, cpu'.cur = Cur,
           Cur = Boot => q \in {"body", "irq", "acked", "start"},
           Cur # Boot => q \notin {"none", "blocked", "dead", "start"}
    PROVE  pc' \in [Ctx -> Places] /\ OneRuns'
BY Names DEF Control, Standing, OneRuns, Cpu, Cur

\* It leaves the CPU to a task that is ready, or to the boot context.
LEMMA Leaves ==
    ASSUME Control, Cur # Boot, NEW q \in Resting, pc' = [pc EXCEPT ![Cur] = q],
           NEW u \in Ready \union {Boot}, cpu' \in Cpu, cpu'.cur = u
    PROVE  pc' \in [Ctx -> Places] /\ OneRuns'
<1>1. pc \in [Ctx -> Places] /\ Cur \in Tasks
  BY Names DEF Control, Standing, Cpu, Cur
<1>2. q \in Places
  BY DEF Resting, Places
<1>3. pc' \in [Ctx -> Places]
  BY <1>1, <1>2
<1>4. \A t \in Tasks : pc'[t] = IF t = Cur THEN q ELSE pc[t]
  BY <1>1, Names
<1>5. pc'[Boot] = pc[Boot] /\ pc[Boot] = "start"
  BY <1>1, Names DEF Control, OneRuns
<1>6. \A t \in Tasks : pc'[t] # "start" /\ pc'[t] \in Resting
  BY <1>4 DEF Control, OneRuns, Resting
<1>7. u # Boot => u \in Tasks /\ u # Cur /\ pc[u] \in {"fresh", "acked", "back"}
  BY Names DEF Ready
<1>8. u \in Tasks => pc'[u] \notin {"none", "blocked", "dead"}
  BY <1>4, <1>7, Names
<1>9. QED BY <1>3, <1>5, <1>6, <1>8, Names DEF OneRuns, Cur

\* What the order asks of a step that stays within a run.
LEMMA OrderKept ==
    ASSUME Order, run' = run, stage' \in {stage, Fault},
           \A t \in Late : pc[t] = "none" => pc'[t] = "none",
           cpu'.cur # Boot \/ pc'[Boot] = "start" => Cur # Boot \/ pc[Boot] = "start"
    PROVE  Order'
BY DEF Order, Fault, Machinery, Cur

\* What the queues of an endpoint are after a step.
WillWait(t, e, ops) ==
    /\ t \in Late /\ pc'[t] = "blocked"
    /\ Program[t][ip'[t]].ep = e /\ Program[t][ip'[t]].op \in ops

LEMMA QueuesThen ==
    ASSUME NEW e \in Endpoints, NEW r, NEW s, eps'[e].receivers = r, eps'[e].senders = s,
           \A i \in 1 .. Len(r) : WillWait(r[i], e, {"recv"}),
           \A i \in 1 .. Len(s) : WillWait(s[i][1], e, {"send", "dead"}),
           \A i, j \in 1 .. Len(r) : r[i] = r[j] => i = j,
           \A i, j \in 1 .. Len(s) : s[i][1] = s[j][1] => i = j
    PROVE  QueuesOf(e)'
BY ZenonT(30) DEF QueuesOf, Waits, WillWait, Doing

LEMMA StillWaits ==
    ASSUME NEW t, NEW e, NEW ops, Waits(t, e, ops),
           pc[t] = "blocked" => pc'[t] = "blocked" /\ ip'[t] = ip[t]
    PROVE  WillWait(t, e, ops)
BY DEF Waits, WillWait, Doing

\* A step that moves none of the tasks waiting on an endpoint.
LEMMA QueuesOfKept ==
    ASSUME NEW e \in Endpoints, QueuesOf(e),
           eps'[e].receivers = eps[e].receivers, eps'[e].senders = eps[e].senders,
           \A i \in 1 .. Len(eps[e].receivers) :
              LET t == eps[e].receivers[i] IN pc'[t] = "blocked" /\ ip'[t] = ip[t],
           \A i \in 1 .. Len(eps[e].senders) :
              LET t == eps[e].senders[i][1] IN pc'[t] = "blocked" /\ ip'[t] = ip[t]
    PROVE  QueuesOf(e)'
<1> DEFINE r == eps[e].receivers
           s == eps[e].senders
<1>1. \A i \in 1 .. Len(r) : WillWait(r[i], e, {"recv"})
  BY StillWaits DEF QueuesOf
<1>2. \A i \in 1 .. Len(s) : WillWait(s[i][1], e, {"send", "dead"})
  BY StillWaits DEF QueuesOf
<1>3. /\ \A i, j \in 1 .. Len(r) : r[i] = r[j] => i = j
      /\ \A i, j \in 1 .. Len(s) : s[i][1] = s[j][1] => i = j
  BY DEF QueuesOf
<1>4. eps'[e].receivers = r /\ eps'[e].senders = s
  OBVIOUS
<1> HIDE DEF r, s
<1>5. QED BY <1>1, <1>2, <1>3, <1>4, QueuesThen

LEMMA QueuesKept ==
    ASSUME Queues,
           \A e \in Endpoints : /\ eps'[e].receivers = eps[e].receivers
                                /\ eps'[e].senders = eps[e].senders,
           \A t \in Tasks : pc[t] = "blocked" => pc'[t] = "blocked" /\ ip'[t] = ip[t]
    PROVE  Queues'
<1>1. ASSUME NEW e \in Endpoints PROVE QueuesOf(e)'
  <2>1. QueuesOf(e)
    BY DEF Queues
  <2>2. /\ \A i \in 1 .. Len(eps[e].receivers) :
              eps[e].receivers[i] \in Tasks /\ pc[eps[e].receivers[i]] = "blocked"
        /\ \A i \in 1 .. Len(eps[e].senders) :
              eps[e].senders[i][1] \in Tasks /\ pc[eps[e].senders[i][1]] = "blocked"
    BY <2>1, Names DEF QueuesOf, Waits
  <2>3. QED BY <2>1, <2>2, QueuesOfKept
<1>2. QED BY <1>1 DEF Queues

\* What Placement asks of a step that moves one task.
LEMMA OthersPlaced ==
    ASSUME Placement, NEW t \in Tasks, Placed(t)',
           \A u \in Tasks : u # t => pc'[u] = pc[u] /\ ip'[u] = ip[u]
    PROVE  Placement'
<1>1. ASSUME NEW u \in Tasks, u # t PROVE Placed(u)'
  BY <1>1 DEF Placement, Placed, Doing
<1>2. QED BY <1>1 DEF Placement

LEMMA Entering ==
    ASSUME NEW c \in Cpu, NEW u \in Ctx
    PROVE  /\ enter(c, u) \in Cpu
           /\ enter(c, u).cur = u /\ enter(c, u).gs = c.gs /\ enter(c, u).ifl = c.ifl
           /\ u # Boot => enter(c, u).rsp0 = u /\ enter(c, u).kstack = u
BY DEF enter, Cpu

LEMMA CpuBits ==
    ASSUME NEW c \in Cpu, NEW i \in BOOLEAN, NEW n \in BOOLEAN, NEW s \in BOOLEAN,
           NEW v \in Nat, NEW g \in {"home", "in"}
    PROVE  /\ [c EXCEPT !.ifl = i] \in Cpu /\ [c EXCEPT !.ifl = i].cur = c.cur
           /\ [c EXCEPT !.ifl = i, !.vector = v] \in Cpu
           /\ [c EXCEPT !.ifl = i, !.vector = v].cur = c.cur
           /\ [c EXCEPT !.need = n] \in Cpu /\ [c EXCEPT !.need = n].cur = c.cur
           /\ [c EXCEPT !.need = n, !.vector = v] \in Cpu
           /\ [c EXCEPT !.need = n, !.vector = v].cur = c.cur
           /\ [c EXCEPT !.need = n, !.vector = v, !.ifl = i] \in Cpu
           /\ [c EXCEPT !.need = n, !.vector = v, !.ifl = i].cur = c.cur
           /\ [c EXCEPT !.saved = s, !.ifl = i] \in Cpu
           /\ [c EXCEPT !.saved = s, !.ifl = i].cur = c.cur
           /\ [c EXCEPT !.gs = g] \in Cpu /\ [c EXCEPT !.gs = g].cur = c.cur
           /\ [c EXCEPT !.ifl = i, !.gs = g] \in Cpu /\ [c EXCEPT !.ifl = i, !.gs = g].cur = c.cur
BY DEF Cpu

\* The step of the context on the CPU that keeps it there.
LEMMA KeepsCpu ==
    ASSUME Control, NEW t \in Ctx, Cur = t,
           NEW q \in Places \ {"blocked", "none", "dead", "start"},
           pc' = [pc EXCEPT ![t] = q], cpu' \in Cpu, cpu'.cur = t,
           t = Boot => q \in {"body", "irq", "acked"},
           ret' \in Resumes, ip' \in [Tasks -> Nat],
           t \in Tasks => Placed(t)',
           \A u \in Tasks : u # t => ip'[u] = ip[u],
           eps' \in [Endpoints -> Endpoint],
           \A e \in Endpoints : /\ eps'[e].receivers = eps[e].receivers
                                /\ eps'[e].senders = eps[e].senders,
           run' = run, stage' \in {stage, Fault}
    PROVE  Control'
<1>1. pc' \in [Ctx -> Places] /\ OneRuns'
  BY GoesOn
<1>2. Standing'
  BY <1>1 DEF Control, Standing
<1>3. pc \in [Ctx -> Places]
  BY DEF Control, Standing
<1>4. /\ \A u \in Ctx : u # t => pc'[u] = pc[u]
      /\ pc'[t] = q
  BY <1>3
<1>5. Placement'
  <2>1. CASE t \in Tasks
    BY <1>4, <2>1, OthersPlaced, Names DEF Control
  <2>2. CASE t \notin Tasks
    <3>1. ASSUME NEW u \in Tasks PROVE Placed(u)'
      BY <1>4, <2>2, Names DEF Control, Placement, Placed, Doing
    <3>2. QED BY <3>1 DEF Placement
  <2>3. QED BY <2>1, <2>2
<1>6. Queues'
  <2>1. t \in Tasks => pc[t] # "blocked"
    BY DEF Control, OneRuns
  <2>2. \A u \in Tasks : pc[u] = "blocked" => pc'[u] = "blocked" /\ ip'[u] = ip[u]
    BY <1>4, <2>1, Names
  <2>3. QED BY <2>2, QueuesKept DEF Control
<1>7. Order'
  <2>1. \A u \in Late : pc[u] = "none" => pc'[u] = "none"
    BY <1>4, Names DEF Control, OneRuns
  <2>2. cpu'.cur # Boot \/ pc'[Boot] = "start" => Cur # Boot \/ pc[Boot] = "start"
    BY <1>4, Names
  <2>3. QED BY <2>1, <2>2, OrderKept DEF Control
<1>8. QED BY <1>1, <1>2, <1>5, <1>6, <1>7 DEF Control

\* The step by which a task leaves it, other than to wait on an endpoint.
LEMMA LeavesCpu ==
    ASSUME Control, NEW t \in Tasks, Cur = t, NEW q \in Resting \ {"blocked", "none"},
           pc' = [pc EXCEPT ![t] = q],
           NEW u \in Ready \union {Boot}, cpu' \in Cpu, cpu'.cur = u,
           q = "back" => Doing(t).op \in MaySwitch,
           UNCHANGED <<ret, ip, eps, run, stage>>
    PROVE  Control'
<1>1. pc' \in [Ctx -> Places] /\ OneRuns'
  BY Leaves, Names
<1>2. Standing'
  BY <1>1 DEF Control, Standing
<1>3. pc \in [Ctx -> Places]
  BY DEF Control, Standing
<1>4. /\ \A x \in Ctx : x # t => pc'[x] = pc[x]
      /\ pc'[t] = q
  BY <1>3, Names
<1>5. Placement'
  <2>1. Placed(t)'
    BY <1>4 DEF Control, Placement, Placed, Doing, Resting
  <2>2. QED BY <1>4, <2>1, OthersPlaced, Names DEF Control
<1>6. Queues'
  <2>1. pc[t] # "blocked"
    BY DEF Control, OneRuns
  <2>2. \A x \in Tasks : pc[x] = "blocked" => pc'[x] = "blocked" /\ ip'[x] = ip[x]
    BY <1>4, <2>1, Names
  <2>3. QED BY <2>2, QueuesKept DEF Control
<1>7. Order'
  <2>1. \A x \in Late : pc[x] = "none" => pc'[x] = "none"
    BY <1>4, Names DEF Control, OneRuns
  <2>2. Cur # Boot
    BY Names
  <2>3. QED BY <2>1, <2>2, OrderKept DEF Control
<1>8. QED BY <1>1, <1>2, <1>5, <1>6, <1>7 DEF Control

-----------------------------------------------------------------------------
(* The endpoints' queues. *)

LEMMA TailOf ==
    ASSUME NEW S, NEW s \in Seq(S), s # << >>
    PROVE  /\ Tail(s) \in Seq(S) /\ Head(s) \in S /\ Head(s) = s[1] /\ 1 \in 1 .. Len(s)
           /\ \A i \in 1 .. Len(Tail(s)) : i + 1 \in 1 .. Len(s) /\ Tail(s)[i] = s[i + 1]
OBVIOUS

\* A waiting task at the head of a queue is taken out of it and woken.
LEMMA WokenReceiver ==
    ASSUME Standing, Queues, NEW t \in Tasks, pc[t] # "blocked", NEW e \in Endpoints,
           eps[e].receivers # << >>, NEW w, w = Head(eps[e].receivers),
           eps'[e].receivers = Tail(eps[e].receivers), eps'[e].senders = eps[e].senders,
           \A f \in Endpoints \ {e} : eps'[f] = eps[f],
           pc' = [u \in Ctx |-> IF u \in {t, w} THEN "back" ELSE pc[u]], UNCHANGED ip
    PROVE  w \in Late /\ pc[w] = "blocked" /\ Queues'
<1> DEFINE r == eps[e].receivers
<1>1. r \in Seq(Tasks)
  BY DEF Standing, Endpoint
<1>2. /\ w = r[1] /\ 1 \in 1 .. Len(r)
      /\ \A i \in 1 .. Len(Tail(r)) : i + 1 \in 1 .. Len(r) /\ Tail(r)[i] = r[i + 1]
  BY <1>1, TailOf
<1>3. Waits(w, e, {"recv"})
  BY <1>2 DEF Queues, QueuesOf
<1>4. w \in Late /\ pc[w] = "blocked" /\ Doing(w).ep = e /\ Doing(w).op = "recv"
  BY <1>3 DEF Waits
<1>5. \A x \in Tasks : x # w /\ pc[x] = "blocked" => pc'[x] = "blocked" /\ ip'[x] = ip[x]
  BY Names
<1>6. ASSUME NEW f \in Endpoints, f # e PROVE QueuesOf(f)'
  <2>1. eps'[f] = eps[f] /\ QueuesOf(f)
    BY <1>6 DEF Queues
  <2>2. \A i \in 1 .. Len(eps[f].receivers) :
           LET x == eps[f].receivers[i] IN x # w /\ x \in Tasks /\ pc[x] = "blocked"
    BY <1>4, <1>6, <2>1, Names DEF QueuesOf, Waits
  <2>3. \A i \in 1 .. Len(eps[f].senders) :
           LET x == eps[f].senders[i][1] IN x # w /\ x \in Tasks /\ pc[x] = "blocked"
    BY <1>4, <1>6, <2>1, Names DEF QueuesOf, Waits
  <2>4. QED BY <1>5, <2>1, <2>2, <2>3, QueuesOfKept
<1>7. QueuesOf(e)'
  <2> DEFINE s == eps[e].senders
  <2>1. QueuesOf(e)
    BY DEF Queues
  <2>2. \A i \in 1 .. Len(s) : WillWait(s[i][1], e, {"send", "dead"})
    <3> TAKE i \in 1 .. Len(s)
    <3>1. Waits(s[i][1], e, {"send", "dead"})
      BY <2>1 DEF QueuesOf
    <3>2. s[i][1] # w /\ s[i][1] \in Tasks
      BY <1>4, <3>1, Names DEF Waits
    <3>3. QED BY <1>5, <3>1, <3>2, StillWaits
  <2>3. \A i \in 1 .. Len(Tail(r)) : /\ i + 1 \in 1 .. Len(r)
                                     /\ Tail(r)[i] = r[i + 1] /\ r[i + 1] # w
    <3> TAKE i \in 1 .. Len(Tail(r))
    <3>1. i + 1 \in 1 .. Len(r) /\ i + 1 # 1 /\ Tail(r)[i] = r[i + 1]
      BY <1>1, <1>2
    <3>2. QED BY <1>2, <2>1, <3>1 DEF QueuesOf
  <2>4. \A i, j \in 1 .. Len(Tail(r)) : Tail(r)[i] = Tail(r)[j] => i = j
    <3> TAKE i, j \in 1 .. Len(Tail(r))
    <3>1. r[i + 1] = r[j + 1] => i + 1 = j + 1
      BY <2>1, <2>3 DEF QueuesOf
    <3>2. i \in Nat /\ j \in Nat
      BY <1>1
    <3>3. QED BY <2>3, <3>1, <3>2
  <2>5. \A i \in 1 .. Len(Tail(r)) : WillWait(Tail(r)[i], e, {"recv"})
    <3> TAKE i \in 1 .. Len(Tail(r))
    <3>1. Waits(Tail(r)[i], e, {"recv"}) /\ Tail(r)[i] # w
      BY <2>1, <2>3 DEF QueuesOf
    <3>2. Tail(r)[i] \in Tasks
      BY <3>1, Names DEF Waits
    <3>3. QED BY <1>5, <3>1, <3>2, StillWaits
  <2>6. eps'[e].receivers = Tail(r) /\ eps'[e].senders = s
    OBVIOUS
  <2>7. \A i, j \in 1 .. Len(s) : s[i][1] = s[j][1] => i = j
    BY <2>1 DEF QueuesOf
  <2> HIDE DEF r, s
  <2>8. QED BY <2>2, <2>4, <2>5, <2>6, <2>7, QueuesThen
<1>8. Queues'
  BY <1>6, <1>7 DEF Queues
<1>9. QED BY <1>4, <1>8
LEMMA WokenSender ==
    ASSUME Standing, Queues, NEW t \in Tasks, pc[t] # "blocked", NEW e \in Endpoints,
           eps[e].senders # << >>, NEW w, w = Head(eps[e].senders)[1],
           eps'[e].receivers = eps[e].receivers, eps'[e].senders = Tail(eps[e].senders),
           \A f \in Endpoints \ {e} : eps'[f] = eps[f],
           pc' = [u \in Ctx |-> IF u \in {t, w} THEN "back" ELSE pc[u]], UNCHANGED ip
    PROVE  w \in Late /\ pc[w] = "blocked" /\ Queues'
<1> DEFINE r == eps[e].senders
<1>1. r \in Seq(Tasks \X Nat)
  BY DEF Standing, Endpoint
<1>2. /\ w = r[1][1] /\ 1 \in 1 .. Len(r)
      /\ \A i \in 1 .. Len(Tail(r)) : i + 1 \in 1 .. Len(r) /\ Tail(r)[i] = r[i + 1]
  BY <1>1, TailOf
<1>3. Waits(w, e, {"send", "dead"})
  BY <1>2 DEF Queues, QueuesOf
<1>4. w \in Late /\ pc[w] = "blocked" /\ Doing(w).ep = e /\ Doing(w).op \in {"send", "dead"}
  BY <1>3 DEF Waits
<1>5. \A x \in Tasks : x # w /\ pc[x] = "blocked" => pc'[x] = "blocked" /\ ip'[x] = ip[x]
  BY Names
<1>6. ASSUME NEW f \in Endpoints, f # e PROVE QueuesOf(f)'
  <2>1. eps'[f] = eps[f] /\ QueuesOf(f)
    BY <1>6 DEF Queues
  <2>2. \A i \in 1 .. Len(eps[f].receivers) :
           LET x == eps[f].receivers[i] IN x # w /\ x \in Tasks /\ pc[x] = "blocked"
    BY <1>4, <1>6, <2>1, Names DEF QueuesOf, Waits
  <2>3. \A i \in 1 .. Len(eps[f].senders) :
           LET x == eps[f].senders[i][1] IN x # w /\ x \in Tasks /\ pc[x] = "blocked"
    BY <1>4, <1>6, <2>1, Names DEF QueuesOf, Waits
  <2>4. QED BY <1>5, <2>1, <2>2, <2>3, QueuesOfKept
<1>7. QueuesOf(e)'
  <2> DEFINE s == eps[e].receivers
  <2>1. QueuesOf(e)
    BY DEF Queues
  <2>2. \A i \in 1 .. Len(s) : WillWait(s[i], e, {"recv"})
    <3> TAKE i \in 1 .. Len(s)
    <3>1. Waits(s[i], e, {"recv"})
      BY <2>1 DEF QueuesOf
    <3>2. s[i] # w /\ s[i] \in Tasks
      BY <1>4, <3>1, Names DEF Waits
    <3>3. QED BY <1>5, <3>1, <3>2, StillWaits
  <2>3. \A i \in 1 .. Len(Tail(r)) : /\ i + 1 \in 1 .. Len(r)
                                     /\ Tail(r)[i] = r[i + 1] /\ r[i + 1][1] # w
    <3> TAKE i \in 1 .. Len(Tail(r))
    <3>1. i + 1 \in 1 .. Len(r) /\ i + 1 # 1 /\ Tail(r)[i] = r[i + 1]
      BY <1>1, <1>2, SMTT(30)
    <3>2. QED BY <1>2, <2>1, <3>1 DEF QueuesOf
  <2>4. \A i, j \in 1 .. Len(Tail(r)) : Tail(r)[i][1] = Tail(r)[j][1] => i = j
    <3> TAKE i, j \in 1 .. Len(Tail(r))
    <3>1. r[i + 1][1] = r[j + 1][1] => i + 1 = j + 1
      BY <2>1, <2>3 DEF QueuesOf
    <3>2. i \in Nat /\ j \in Nat
      BY <1>1
    <3>3. QED BY <2>3, <3>1, <3>2
  <2>5. \A i \in 1 .. Len(Tail(r)) : WillWait(Tail(r)[i][1], e, {"send", "dead"})
    <3> TAKE i \in 1 .. Len(Tail(r))
    <3>1. Waits(Tail(r)[i][1], e, {"send", "dead"}) /\ Tail(r)[i][1] # w
      BY <2>1, <2>3 DEF QueuesOf
    <3>2. Tail(r)[i][1] \in Tasks
      BY <3>1, Names DEF Waits
    <3>3. QED BY <1>5, <3>1, <3>2, StillWaits
  <2>6. eps'[e].receivers = s /\ eps'[e].senders = Tail(r)
    OBVIOUS
  <2>7. \A i, j \in 1 .. Len(s) : s[i] = s[j] => i = j
    BY <2>1 DEF QueuesOf
  <2> DEFINE q == Tail(r)
  <2>8. /\ eps'[e].senders = q /\ \A i \in 1 .. Len(q) : WillWait(q[i][1], e, {"send", "dead"})
        /\ \A i, j \in 1 .. Len(q) : q[i][1] = q[j][1] => i = j
    BY <2>4, <2>5, <2>6
  <2>9. eps'[e].receivers = s
    BY <2>6
  <2> HIDE DEF r, s, q
  <2>10. QED BY <2>2, <2>7, <2>8, <2>9, QueuesThen
<1>8. Queues'
  BY <1>6, <1>7 DEF Queues
<1>9. QED BY <1>4, <1>8

\* A task that parks is appended to a queue, and was in none.
LEMMA ParkedWaits ==
    ASSUME Standing, Queues, NEW t \in Late, pc[t] = "call", NEW e \in Endpoints,
           Doing(t).ep = e, pc' = [pc EXCEPT ![t] = "blocked"], UNCHANGED ip,
           \A f \in Endpoints \ {e} : eps'[f] = eps[f],
           \/ /\ Doing(t).op = "recv" /\ eps'[e].senders = eps[e].senders
              /\ eps'[e].receivers = Append(eps[e].receivers, t)
           \/ /\ Doing(t).op \in {"send", "dead"} /\ eps'[e].receivers = eps[e].receivers
              /\ \E n \in Nat : eps'[e].senders = Append(eps[e].senders, <<t, n>>)
    PROVE  Queues'
<1>1. pc \in [Ctx -> Places] /\ eps[e].receivers \in Seq(Tasks) /\ eps[e].senders \in Seq(Tasks \X Nat)
  BY DEF Standing, Endpoint
<1>2. \A x \in Tasks : pc[x] = "blocked" => pc'[x] = "blocked" /\ ip'[x] = ip[x] /\ x # t
  BY <1>1, Names
<1>3. pc'[t] = "blocked"
  BY <1>1, Names
<1>4. ASSUME NEW f \in Endpoints
      PROVE  /\ \A i \in 1 .. Len(eps[f].receivers) :
                   LET x == eps[f].receivers[i]
                   IN  x # t /\ pc'[x] = "blocked" /\ ip'[x] = ip[x] /\ WillWait(x, f, {"recv"})
             /\ \A i \in 1 .. Len(eps[f].senders) :
                   LET x == eps[f].senders[i][1]
                   IN  x # t /\ pc'[x] = "blocked" /\ ip'[x] = ip[x]
                       /\ WillWait(x, f, {"send", "dead"})
  <2>1. QueuesOf(f)
    BY DEF Queues
  <2>2. \A i \in 1 .. Len(eps[f].receivers) :
           eps[f].receivers[i] \in Tasks /\ Waits(eps[f].receivers[i], f, {"recv"})
    BY <2>1, Names DEF QueuesOf, Waits
  <2>3. \A i \in 1 .. Len(eps[f].senders) :
           eps[f].senders[i][1] \in Tasks /\ Waits(eps[f].senders[i][1], f, {"send", "dead"})
    BY <2>1, Names DEF QueuesOf, Waits
  <2>4. ASSUME NEW x \in Tasks, NEW ops, Waits(x, f, ops)
        PROVE  x # t /\ pc'[x] = "blocked" /\ ip'[x] = ip[x] /\ WillWait(x, f, ops)
    <3>1. pc[x] = "blocked"
      BY <2>4 DEF Waits
    <3>2. QED BY <1>2, <2>4, <3>1, StillWaits
  <2>5. QED BY <2>2, <2>3, <2>4
<1>5. ASSUME NEW f \in Endpoints, f # e PROVE QueuesOf(f)'
  <2>1. eps'[f] = eps[f] /\ QueuesOf(f)
    BY <1>5 DEF Queues
  <2>2. QED BY <1>4, <2>1, QueuesOfKept
<1>6. QueuesOf(e)'
  <2> DEFINE r == eps[e].receivers
             s == eps[e].senders
  <2>1. QueuesOf(e)
    BY DEF Queues
  <2>2. /\ \A i, j \in 1 .. Len(r) : r[i] = r[j] => i = j
        /\ \A i, j \in 1 .. Len(s) : s[i][1] = s[j][1] => i = j
    BY <2>1 DEF QueuesOf
  <2>3. /\ \A i \in 1 .. Len(r) : r[i] # t /\ WillWait(r[i], e, {"recv"})
        /\ \A i \in 1 .. Len(s) : s[i][1] # t /\ WillWait(s[i][1], e, {"send", "dead"})
    BY <1>4
  <2>4. r \in Seq(Tasks) /\ s \in Seq(Tasks \X Nat)
    BY <1>1
  <2>5. t \in Tasks
    BY Names
  <2>6. CASE /\ Doing(t).op = "recv" /\ eps'[e].senders = s
             /\ eps'[e].receivers = Append(r, t)
    <3> DEFINE q == Append(r, t)
    <3> HIDE DEF r, s
    <3>1. \A i \in 1 .. Len(q) : \/ i \in 1 .. Len(r) /\ q[i] = r[i]
                                 \/ i = Len(r) + 1 /\ q[i] = t
      <4>1. Len(q) = Len(r) + 1 /\ q[Len(r) + 1] = t /\ \A i \in 1 .. Len(r) : q[i] = r[i]
        BY <2>4, <2>5, Appended
      <4>2. Len(r) \in Nat
        BY <2>4
      <4> HIDE DEF q
      <4> TAKE i \in 1 .. Len(q)
      <4>3. i \in 1 .. Len(r) \/ i = Len(r) + 1
        BY <4>1, <4>2
      <4>4. QED BY <4>1, <4>3
    <3>2. WillWait(t, e, {"recv"})
      BY <1>3, <2>6 DEF WillWait, Doing
    <3> HIDE DEF q
    <3>3. \A i \in 1 .. Len(q) : WillWait(q[i], e, {"recv"})
      BY <2>3, <3>1, <3>2
    <3>4. \A i, j \in 1 .. Len(q) : q[i] = q[j] => i = j
      BY <2>2, <2>3, <3>1
    <3>5. eps'[e].receivers = q
      BY <2>6 DEF q
    <3>6. QED BY <2>2, <2>3, <2>6, <3>3, <3>4, <3>5, QueuesThen, SMTT(30)
  <2>7. CASE /\ Doing(t).op \in {"send", "dead"} /\ eps'[e].receivers = r
             /\ \E n \in Nat : eps'[e].senders = Append(s, <<t, n>>)
    <3>0. PICK n \in Nat : eps'[e].senders = Append(s, <<t, n>>)
      BY <2>7
    <3> DEFINE q == Append(s, <<t, n>>)
    <3> HIDE DEF r, s
    <3>1. \A i \in 1 .. Len(q) : \/ i \in 1 .. Len(s) /\ q[i] = s[i]
                                 \/ i = Len(s) + 1 /\ q[i] = <<t, n>>
      <4>1. <<t, n>> \in Tasks \X Nat
        BY <2>5
      <4>2. /\ Len(q) = Len(s) + 1 /\ q[Len(s) + 1] = <<t, n>>
            /\ \A i \in 1 .. Len(s) : q[i] = s[i]
        <5>1. PICK x \in Tasks \X Nat : x = <<t, n>>
          BY <4>1
        <5>2. /\ Len(Append(s, x)) = Len(s) + 1 /\ Append(s, x)[Len(s) + 1] = x
              /\ \A i \in 1 .. Len(s) : Append(s, x)[i] = s[i]
          BY <2>4, Appended
        <5> QED BY <5>1, <5>2
      <4>3. Len(s) \in Nat
        BY <2>4
      <4> HIDE DEF q
      <4> TAKE i \in 1 .. Len(q)
      <4>4. i \in 1 .. Len(s) \/ i = Len(s) + 1
        BY <4>2, <4>3
      <4>5. QED BY <4>2, <4>4
    <3>2. WillWait(t, e, {"send", "dead"})
      BY <1>3, <2>7 DEF WillWait, Doing
    <3> HIDE DEF q
    <3>a. <<t, n>>[1] = t
      OBVIOUS
    <3>3. \A i \in 1 .. Len(q) : WillWait(q[i][1], e, {"send", "dead"})
      BY <2>3, <3>1, <3>2, <3>a
    <3>4. \A i, j \in 1 .. Len(q) : q[i][1] = q[j][1] => i = j
      <4>1. ASSUME NEW i \in 1 .. Len(q), NEW j \in 1 .. Len(q), q[i][1] = q[j][1] PROVE i = j
        <5>1. CASE q[i][1] = t
          BY <2>3, <3>1, <4>1, <5>1
        <5>2. CASE q[i][1] # t
          <6>1. i \in 1 .. Len(s) /\ q[i] = s[i] /\ j \in 1 .. Len(s) /\ q[j] = s[j]
            BY <3>1, <3>a, <4>1, <5>2
          <6>2. s[i][1] = s[j][1]
            BY <4>1, <6>1
          <6> QED BY <2>2, <6>1, <6>2
        <5> QED BY <5>1, <5>2
      <4> QED BY <4>1
    <3>5. eps'[e].senders = q
      BY <3>0 DEF q
    <3>6. /\ \A i \in 1 .. Len(r) : WillWait(r[i], e, {"recv"})
          /\ \A i, j \in 1 .. Len(r) : r[i] = r[j] => i = j
          /\ eps'[e].receivers = r
      BY <2>2, <2>3, <2>7
    <3>7. QED BY <3>3, <3>4, <3>5, <3>6, QueuesThen
  <2>8. QED BY <2>6, <2>7
<1>7. QED BY <1>5, <1>6 DEF Queues

LEMMA Answers ==
    ASSUME Control, NEW t \in Tasks, Cur = t, pc[t] = "call", NEW w \in SUBSET Tasks,
           \A x \in w : pc[x] = "blocked", Answered(t, w),
           UNCHANGED <<ret, ip, run, stage>>, eps' \in [Endpoints -> Endpoint], Queues'
    PROVE  Control'
<1>1. /\ pc' = [u \in Ctx |-> IF u \in {t} \union w THEN "back" ELSE pc[u]]
      /\ UNCHANGED cpu /\ pc \in [Ctx -> Places]
  BY DEF Answered, Control, Standing
<1>2. Standing'
  BY <1>1 DEF Control, Standing, Places
<1>3. \A u \in Tasks : pc'[u] = IF u \in {t} \union w THEN "back" ELSE pc[u]
  BY <1>1, Names
<1>4. pc'[Boot] = pc[Boot]
  BY <1>1, Names
<1>5. OneRuns'
  BY <1>1, <1>3, <1>4 DEF Control, OneRuns, Resting, Cur
<1>6. Placement'
  <2>1. ASSUME NEW u \in Tasks PROVE Placed(u)'
    <3>1. Placed(u) /\ pc'[u] \in {"back", pc[u]} /\ (pc'[u] = "back" => pc[u] \in {"call", "back", "blocked"})
      BY <1>3 DEF Control, Placement
    <3>2. QED BY <3>1 DEF Placed, Doing
  <2>2. QED BY <2>1 DEF Placement
<1>7. Order'
  <2>1. \A u \in Late : pc[u] = "none" => pc'[u] = "none"
    BY <1>3, Names
  <2>2. QED BY <1>1, <1>4, <2>1, OrderKept DEF Control, Cur
<1>8. QED BY <1>2, <1>5, <1>6, <1>7 DEF Control

LEMMA Parks ==
    ASSUME Control, NEW t \in Tasks, Cur = t, pc[t] = "call", Parked(t),
           UNCHANGED <<ret, ip, run, stage>>, eps' \in [Endpoints -> Endpoint], Queues'
    PROVE  Control'
<1>1. PICK u \in Successors : cpu' = enter(cpu, u)
  BY DEF Parked
<1>2. u \in Ready \union {Boot} /\ u \in Ctx
  BY Names DEF Successors, Ready
<1>3. cpu' \in Cpu /\ cpu'.cur = u
  BY <1>1, <1>2, Entering DEF Control, Standing
<1>4. pc' = [pc EXCEPT ![t] = "blocked"] /\ "blocked" \in Resting
  BY DEF Parked, Resting
<1>5. pc' \in [Ctx -> Places] /\ OneRuns'
  BY <1>2, <1>3, <1>4, Leaves, Names
<1>6. Standing'
  BY <1>3, <1>5 DEF Control, Standing
<1>7. pc'[t] = "blocked" /\ \A x \in Ctx : x # t => pc'[x] = pc[x]
  BY <1>4, Names DEF Control, Standing
<1>8. Placement'
  <2>1. Placed(t)'
    BY <1>7 DEF Control, Placement, Placed, Doing
  <2>2. QED BY <1>7, <2>1, OthersPlaced, Names DEF Control
<1>9. Order'
  <2>1. \A x \in Late : pc[x] = "none" => pc'[x] = "none"
    BY <1>7, Names DEF Control, OneRuns
  <2>2. Cur # Boot
    BY Names
  <2>3. QED BY <2>1, <2>2, OrderKept DEF Control
<1>10. QED BY <1>5, <1>6, <1>8, <1>9 DEF Control

\* What a task's own operation is, given where it stands.
LEMMA DoingIs ==
    ASSUME Control, NEW t \in Tasks
    PROVE  /\ Doing(t).op \in Named => Doing(t).ep \in Endpoints /\ t \in Late
           /\ Doing(t).tag \in Nat
           /\ Doing(t).op \notin Last => ip[t] + 1 \in 1 .. Len(Program[t])
           /\ ip[t] \in Nat /\ Len(Program[t]) \in Nat
<1>1. WellFormed(Program[t]) /\ (t \notin Late => Solitary(Program[t]))
  BY ProgramsWellFormed
<1>2. ip[t] \in 1 .. Len(Program[t])
  BY DEF Control, Placement, Placed
<1>3. Len(Program[t]) \in Nat
  BY <1>1 DEF WellFormed
<1>4. QED BY <1>1, <1>2, <1>3 DEF WellFormed, Solitary, Doing

LEMMA SendControl ==
    ASSUME Control, NEW t \in Tasks, sys_send(t) PROVE Control'
<1> DEFINE d == Doing(t)
           e == d.ep
<1>1. /\ Cur = t /\ pc[t] = "call" /\ d.op \in {"send", "dead"}
      /\ UNCHANGED <<ret, ip, run, stage>>
  BY DEF sys_send, Calling, CallRest
<1>2. e \in Endpoints /\ t \in Late /\ d.tag \in Nat
  BY <1>1, DoingIs DEF Named
<1>3. eps \in [Endpoints -> Endpoint] /\ Standing /\ Queues
  BY DEF Control, Standing
<1>4. /\ eps[e].receivers \in Seq(Tasks) /\ eps[e].senders \in Seq(Tasks \X Nat)
      /\ eps[e].ring \in Seq(Nat) /\ eps[e] \in Endpoint
  BY <1>2, <1>3 DEF Endpoint
<1>5. CASE eps[e].receivers # << >>
  <2> DEFINE w == Head(eps[e].receivers)
  <2>1. eps' = [eps EXCEPT ![e].receivers = Tail(@)] /\ Answered(t, {w})
    BY <1>5 DEF sys_send
  <2>2. Tail(eps[e].receivers) \in Seq(Tasks)
    BY <1>4, <1>5
  <2>3. /\ eps' \in [Endpoints -> Endpoint]
        /\ eps'[e].receivers = Tail(eps[e].receivers) /\ eps'[e].senders = eps[e].senders
        /\ \A f \in Endpoints \ {e} : eps'[f] = eps[f]
    BY <1>2, <1>3, <2>1, <2>2 DEF Endpoint
  <2>4. pc' = [u \in Ctx |-> IF u \in {t, w} THEN "back" ELSE pc[u]]
    BY <2>1 DEF Answered
  <2> HIDE DEF d, e, w
  <2>5. w \in Late /\ pc[w] = "blocked" /\ Queues'
    BY <1>1, <1>2, <1>3, <1>5, <2>3, <2>4, WokenReceiver DEF w
  <2>6. QED BY <1>1, <2>1, <2>3, <2>5, Answers, Names
<1>6. CASE eps[e].receivers = << >> /\ Room(eps[e])
  <2>1. eps' = [eps EXCEPT ![e].ring = Append(@, d.tag)] /\ Answered(t, {})
    BY <1>6 DEF sys_send
  <2>2. Append(eps[e].ring, d.tag) \in Seq(Nat)
    BY <1>2, <1>4
  <2>3. /\ eps' \in [Endpoints -> Endpoint]
        /\ \A f \in Endpoints : /\ eps'[f].receivers = eps[f].receivers
                                /\ eps'[f].senders = eps[f].senders
    BY <1>2, <1>3, <2>1, <2>2 DEF Endpoint
  <2>4. \A x \in Tasks : pc[x] = "blocked" => pc'[x] = "blocked" /\ ip'[x] = ip[x]
    BY <1>1, <2>1, Names DEF Answered
  <2>5. Queues'
    BY <1>3, <2>3, <2>4, QueuesKept
  <2>6. QED BY <1>1, <2>1, <2>3, <2>5, Answers
<1>7. CASE eps[e].receivers = << >> /\ ~Room(eps[e])
  <2>1. eps' = [eps EXCEPT ![e].senders = Append(@, <<t, d.tag>>)] /\ Parked(t)
    BY <1>7 DEF sys_send
  <2>2. Append(eps[e].senders, <<t, d.tag>>) \in Seq(Tasks \X Nat)
    BY <1>2, <1>4
  <2>3. /\ eps' \in [Endpoints -> Endpoint]
        /\ eps'[e].receivers = eps[e].receivers
        /\ eps'[e].senders = Append(eps[e].senders, <<t, d.tag>>)
        /\ \A f \in Endpoints \ {e} : eps'[f] = eps[f]
    BY <1>2, <1>3, <2>1, <2>2 DEF Endpoint
  <2>4. pc' = [pc EXCEPT ![t] = "blocked"]
    BY <2>1 DEF Parked
  <2>5. Queues'
    BY <1>1, <1>2, <1>3, <2>3, <2>4, ParkedWaits
  <2>6. QED BY <1>1, <2>1, <2>3, <2>5, Parks
<1>8. QED BY <1>5, <1>6, <1>7

LEMMA RecvControl ==
    ASSUME Control, NEW t \in Tasks, sys_recv(t) PROVE Control'
<1> DEFINE d == Doing(t)
           e == d.ep
<1>1. /\ Cur = t /\ pc[t] = "call" /\ d.op = "recv"
      /\ UNCHANGED <<ret, ip, run, stage>>
  BY DEF sys_recv, Calling, CallRest
<1>2. e \in Endpoints /\ t \in Late
  BY <1>1, DoingIs DEF Named
<1>3. eps \in [Endpoints -> Endpoint] /\ Standing /\ Queues
  BY DEF Control, Standing
<1>4. /\ eps[e].receivers \in Seq(Tasks) /\ eps[e].senders \in Seq(Tasks \X Nat)
      /\ eps[e].ring \in Seq(Nat) /\ eps[e] \in Endpoint
  BY <1>2, <1>3 DEF Endpoint
<1>5. CASE eps[e].ring = << >>
  <2>1. eps' = [eps EXCEPT ![e].receivers = Append(@, t)] /\ Parked(t)
    BY <1>5 DEF sys_recv
  <2>2. Append(eps[e].receivers, t) \in Seq(Tasks)
    BY <1>4
  <2>3. /\ eps' \in [Endpoints -> Endpoint]
        /\ eps'[e].receivers = Append(eps[e].receivers, t)
        /\ eps'[e].senders = eps[e].senders
        /\ \A f \in Endpoints \ {e} : eps'[f] = eps[f]
    BY <1>2, <1>3, <2>1, <2>2 DEF Endpoint
  <2>4. pc' = [pc EXCEPT ![t] = "blocked"]
    BY <2>1 DEF Parked
  <2>5. Queues'
    BY <1>1, <1>2, <1>3, <2>3, <2>4, ParkedWaits
  <2>6. QED BY <1>1, <2>1, <2>3, <2>5, Parks
<1>6. CASE eps[e].ring # << >> /\ eps[e].senders = << >>
  <2>1. eps' = [eps EXCEPT ![e].ring = Tail(@)] /\ Answered(t, {})
    BY <1>6 DEF sys_recv
  <2>2. Tail(eps[e].ring) \in Seq(Nat)
    BY <1>4, <1>6
  <2>3. /\ eps' \in [Endpoints -> Endpoint]
        /\ \A f \in Endpoints : /\ eps'[f].receivers = eps[f].receivers
                                /\ eps'[f].senders = eps[f].senders
    BY <1>2, <1>3, <2>1, <2>2 DEF Endpoint
  <2>4. \A x \in Tasks : pc[x] = "blocked" => pc'[x] = "blocked" /\ ip'[x] = ip[x]
    BY <1>1, <2>1, Names DEF Answered
  <2>5. Queues'
    BY <1>3, <2>3, <2>4, QueuesKept
  <2>6. QED BY <1>1, <2>1, <2>3, <2>5, Answers
<1>7. CASE eps[e].ring # << >> /\ eps[e].senders # << >>
  <2> DEFINE w == Head(eps[e].senders)[1]
             n == Head(eps[e].senders)[2]
  <2>1. /\ eps' = [eps EXCEPT ![e].ring = Append(Tail(@), n), ![e].senders = Tail(@)]
        /\ Answered(t, {w})
    BY <1>7 DEF sys_recv
  <2>2. Head(eps[e].senders) \in Tasks \X Nat
    BY <1>4, <1>7
  <2>3. n \in Nat
    BY <2>2
  <2> HIDE DEF n
  <2>4. Append(Tail(eps[e].ring), n) \in Seq(Nat) /\ Tail(eps[e].senders) \in Seq(Tasks \X Nat)
    BY <1>4, <1>7, <2>3
  <2>5. /\ eps' \in [Endpoints -> Endpoint]
        /\ eps'[e].receivers = eps[e].receivers /\ eps'[e].senders = Tail(eps[e].senders)
        /\ \A f \in Endpoints \ {e} : eps'[f] = eps[f]
    BY <1>2, <1>3, <2>1, <2>4 DEF Endpoint
  <2>6. pc' = [u \in Ctx |-> IF u \in {t, w} THEN "back" ELSE pc[u]]
    BY <2>1 DEF Answered
  <2> HIDE DEF d, e, w
  <2>7. w \in Late /\ pc[w] = "blocked" /\ Queues'
    BY <1>1, <1>2, <1>3, <1>7, <2>5, <2>6, WokenSender DEF w
  <2>8. QED BY <1>1, <2>1, <2>5, <2>7, Answers, Names
<1>8. QED BY <1>5, <1>6, <1>7

\* sched::exit, from wherever a task calls it.
LEMMA ExitControl ==
    ASSUME Control, NEW t \in Tasks, Cur = t, NEW c \in Cpu, Exit(t, c),
           UNCHANGED <<ret, ip, eps, run, stage>>
    PROVE  Control'
<1>1. PICK u \in Successors : cpu' = enter(c, u)
  BY DEF Exit
<1>2. u \in Ready \union {Boot} /\ u \in Ctx
  BY Names DEF Successors, Ready
<1>3. cpu' \in Cpu /\ cpu'.cur = u
  BY <1>1, <1>2, Entering
<1>4. pc' = [pc EXCEPT ![t] = "dead"] /\ "dead" \in Resting \ {"blocked", "none"}
  BY DEF Exit, Resting
<1>5. QED BY <1>2, <1>3, <1>4, LeavesCpu

LEMMA TaskControl ==
    ASSUME Control, TaskStep PROVE Control'
<1>0. /\ Standing /\ Placement /\ cpu \in Cpu /\ Cur \in Ctx /\ ret \in Resumes
      /\ ip \in [Tasks -> Nat] /\ eps \in [Endpoints -> Endpoint] /\ pc \in [Ctx -> Places]
  BY DEF Control, Standing, Cpu, Cur
<1>a. /\ {"body", "stub", "call", "served", "back"} \subseteq Places \ {"blocked", "none", "dead", "start"}
      /\ "back" \in Resting \ {"blocked", "none"}
  BY DEF Places, Resting
<1>b. [cpu EXCEPT !.ifl = FALSE] \in Cpu /\ [cpu EXCEPT !.ifl = FALSE].cur = Cur
  BY <1>0, CpuBits, Zenon DEF Cur
<1>1. CASE EnterRing3
  <2>1. Cur # Boot
    BY <1>1 DEF EnterRing3, Control, OneRuns
  <2>2. PICK t \in Tasks : Cur = t
    BY <1>0, <2>1, Names
  <2>3. Placed(t)'
    BY <1>0, <1>1, <2>2, Names DEF EnterRing3, Placement, Placed, Doing
  <2>4. QED BY <1>0, <1>1, <1>a, <2>2, <2>3, KeepsCpu, Names DEF EnterRing3, ControlRest, Cur
<1>2. ASSUME NEW t \in Tasks, WaitDone(t) PROVE Control'
  <2>1. /\ Cur = t /\ pc[t] = "body" /\ Doing(t).op = "wait" /\ ip' = [ip EXCEPT ![t] = @ + 1]
        /\ UNCHANGED <<cpu, pc, ret, eps, run, stage>>
    BY <1>2 DEF WaitDone, Running, Past, ControlRest
  <2>2. ip[t] + 1 \in 1 .. Len(Program[t]) /\ ip[t] \in Nat
    BY <2>1, DoingIs DEF Last
  <2>3. Placed(t)' /\ ip' \in [Tasks -> Nat]
    BY <1>0, <2>1, <2>2 DEF Placed
  <2>4. pc' = [pc EXCEPT ![t] = "body"]
    BY <1>0, <2>1, Names
  <2>5. QED BY <1>0, <1>a, <2>1, <2>3, <2>4, KeepsCpu, Names DEF Cur
<1>3. ASSUME NEW t \in Tasks, ThreadExit(t) PROVE Control'
  BY <1>3, <1>b, ExitControl DEF ThreadExit, Running, ControlRest
<1>4. ASSUME NEW t \in Tasks, UserFault(t) PROVE Control'
  <2>1. Cur = t /\ pc[t] = "body"
    BY <1>4 DEF UserFault, Ring3, Control, OneRuns, Resting
  <2>2. UNCHANGED <<ret, ip, eps, run>>
    BY <1>4 DEF UserFault
  <2>3. CASE Exit(t, [cpu EXCEPT !.ifl = FALSE]) /\ UNCHANGED stage
    BY <1>b, <2>1, <2>2, <2>3, ExitControl
  <2>4. CASE UNCHANGED <<cpu, pc>> /\ stage' \in {stage, Fault}
    <3>1. pc' = [pc EXCEPT ![t] = "body"]
      BY <1>0, <2>1, <2>4, Names
    <3>2. Placed(t)'
      BY <1>0, <2>2, <2>4 DEF Placement, Placed, Doing
    <3>3. QED BY <1>0, <1>a, <2>1, <2>2, <2>4, <3>1, <3>2, KeepsCpu, Names DEF Cur
  <2>5. QED BY <1>4, <2>3, <2>4 DEF UserFault, Fault
<1>5. ASSUME NEW t \in Tasks, Syscall(t) PROVE Control'
  <2>1. /\ Cur = t /\ Doing(t).op \notin {"wait", "fault"} /\ pc' = [pc EXCEPT ![t] = "stub"]
        /\ cpu' = [cpu EXCEPT !.ifl = FALSE, !.gs = "in"]
        /\ UNCHANGED <<ret, ip, eps, run, stage>>
    BY <1>5 DEF Syscall, Running, ControlRest
  <2>2. cpu' \in Cpu /\ cpu'.cur = t
    BY <1>0, <2>1, CpuBits, Zenon DEF Cur
  <2>3. Placed(t)'
    BY <1>0, <2>1, Names DEF Placement, Placed, Doing
  <2>4. QED BY <1>0, <1>a, <2>1, <2>2, <2>3, KeepsCpu, Names
<1>6. ASSUME NEW t \in Tasks, on_syscall(t) PROVE Control'
  <2> DEFINE op == Doing(t).op
             c == IF SwapsFor(op) THEN [cpu EXCEPT !.gs = "home"] ELSE cpu
  <2>1. Cur = t /\ pc[t] = "stub" /\ UNCHANGED <<ret, run, stage>>
    BY <1>6 DEF on_syscall, ControlRest
  <2>2. c \in Cpu /\ c.cur = t
    BY <1>0, <2>1, CpuBits, Zenon DEF Cur
  <2>3. op \notin {"wait", "fault"}
    BY <1>0, <2>1 DEF Placement, Placed
  <2>4. CASE op = "exit"
    <3>1. Exit(t, c) /\ UNCHANGED <<ip, eps>>
      BY <1>6, <2>4 DEF on_syscall
    <3> HIDE DEF c
    <3>2. QED BY <2>1, <2>2, <3>1, ExitControl
  <2>5. CASE op \in MaySwitch
    <3>1. /\ pc' = [pc EXCEPT ![t] = "call"] /\ cpu' = c
          /\ UNCHANGED <<ip, eps>>
      BY <1>6, <2>5 DEF on_syscall, MaySwitch
    <3> HIDE DEF c
    <3>2. Placed(t)'
      BY <1>0, <2>5, <3>1, Names DEF Placement, Placed, Doing
    <3>3. QED BY <1>0, <1>a, <2>1, <2>2, <3>1, <3>2, KeepsCpu, Names
  <2>6. CASE op \notin MaySwitch \union {"exit"}
    <3>1. /\ pc' = [pc EXCEPT ![t] = "served"] /\ cpu' = c
          /\ ip' = [ip EXCEPT ![t] = @ + 1]
          /\ eps' = IF op = "revoke" THEN [eps EXCEPT ![Doing(t).ep].live = FALSE] ELSE eps
      BY <1>6, <2>6 DEF on_syscall
    <3>2. ip[t] + 1 \in 1 .. Len(Program[t]) /\ ip[t] \in Nat
      BY <2>3, <2>6, DoingIs DEF Last
    <3>3. Placed(t)' /\ ip' \in [Tasks -> Nat]
      BY <1>0, <3>1, <3>2, Names DEF Placed
    <3>4. /\ eps' \in [Endpoints -> Endpoint]
          /\ \A f \in Endpoints : /\ eps'[f].receivers = eps[f].receivers
                                  /\ eps'[f].senders = eps[f].senders
      <4>1. \A b \in BOOLEAN, f \in Endpoints :
               LET x == [eps EXCEPT ![f].live = b]
               IN  /\ x \in [Endpoints -> Endpoint]
                   /\ \A g \in Endpoints : x[g].receivers = eps[g].receivers
                                           /\ x[g].senders = eps[g].senders
        BY <1>0 DEF Endpoint
      <4>2. op = "revoke" => Doing(t).ep \in Endpoints
        BY DoingIs DEF Named
      <4>3. CASE op = "revoke"
        BY <3>1, <4>1, <4>2, <4>3, Zenon
      <4>4. CASE op # "revoke"
        BY <1>0, <3>1, <4>4
      <4>5. QED BY <4>3, <4>4
    <3> HIDE DEF c
    <3>5. \A u \in Tasks : u # t => ip'[u] = ip[u]
      BY <1>0, <3>1
    <3>6. QED BY <1>0, <1>a, <2>1, <2>2, <3>1, <3>3, <3>4, <3>5, KeepsCpu, Names
  <2>7. QED BY <2>4, <2>5, <2>6
<1>7. ASSUME NEW t \in Tasks, YieldCall(t) PROVE Control'
  <2>1. /\ Cur = t /\ pc' = [pc EXCEPT ![t] = "back"] /\ Doing(t).op \in MaySwitch
        /\ UNCHANGED <<ret, ip, eps, run, stage>>
    BY <1>7 DEF YieldCall, ControlRest, MaySwitch
  <2>2. PICK u \in IF Ready = {} THEN {t} ELSE Ready : cpu' = enter(cpu, u)
    BY <1>7 DEF YieldCall
  <2>3. u \in Ctx /\ (u = t \/ u \in Ready)
    BY <2>2, Names DEF Ready
  <2>4. cpu' \in Cpu /\ cpu'.cur = u
    BY <1>0, <2>2, <2>3, Entering
  <2>5. CASE u = t
    <3>1. Placed(t)'
      BY <1>0, <2>1, Names DEF Placement, Placed, Doing
    <3>2. QED BY <1>0, <1>a, <2>1, <2>4, <2>5, <3>1, KeepsCpu, Names
  <2>6. CASE u \in Ready
    BY <1>a, <2>1, <2>4, <2>6, LeavesCpu
  <2>7. QED BY <2>3, <2>5, <2>6
<1>8. ASSUME NEW t \in Tasks, Refused(t) PROVE Control'
  <2>1. Cur = t /\ pc[t] = "call" /\ Answered(t, {}) /\ UNCHANGED <<ret, ip, run, stage, eps>>
    BY <1>8 DEF Refused, Calling, CallRest
  <2>2. \A x \in Tasks : pc[x] = "blocked" => pc'[x] = "blocked" /\ ip'[x] = ip[x]
    BY <2>1, Names DEF Answered
  <2>3. Queues'
    BY <2>1, <2>2, QueuesKept DEF Control
  <2>4. QED BY <1>0, <2>1, <2>3, Answers
<1>9. ASSUME NEW t \in Tasks, sys_send(t) \/ sys_recv(t) PROVE Control'
  BY <1>9, SendControl, RecvControl
<1>10. ASSUME NEW t \in Tasks, Back(t) PROVE Control'
  <2>1. /\ Cur = t /\ pc[t] = "back" /\ pc' = [pc EXCEPT ![t] = "served"]
        /\ ip' = [ip EXCEPT ![t] = @ + 1] /\ UNCHANGED <<ret, eps, run, stage>>
    BY <1>10 DEF Back, Past
  <2>2. Doing(t).op \in MaySwitch
    BY <1>0, <2>1 DEF Placement, Placed
  <2>3. ip[t] + 1 \in 1 .. Len(Program[t]) /\ ip[t] \in Nat
    BY <2>2, DoingIs DEF MaySwitch, Last
  <2>4. Placed(t)' /\ ip' \in [Tasks -> Nat]
    BY <1>0, <2>1, <2>3, Names DEF Placed
  <2>5. cpu' \in Cpu /\ cpu'.cur = t
    <3>1. cpu' \in {cpu, [cpu EXCEPT !.gs = "in"], [cpu EXCEPT !.gs = "home"]}
      BY <1>10 DEF Back
    <3>2. QED BY <1>0, <2>1, <3>1, CpuBits, ZenonT(30) DEF Cur
  <2>6. \A u \in Tasks : u # t => ip'[u] = ip[u]
    BY <1>0, <2>1
  <2>7. QED BY <1>0, <1>a, <2>1, <2>4, <2>5, <2>6, KeepsCpu, Names
<1>11. ASSUME NEW t \in Tasks, Return(t) PROVE Control'
  <2>1. /\ Cur = t /\ pc' = [pc EXCEPT ![t] = "body"] /\ stage' \in {stage, Fault}
        /\ UNCHANGED <<ret, ip, eps, run>>
    BY <1>11 DEF Return, Fault
  <2>2. cpu' \in Cpu /\ cpu'.cur = t
    <3>1. cpu' \in {[cpu EXCEPT !.ifl = TRUE, !.gs = "in"], [cpu EXCEPT !.ifl = TRUE, !.gs = "home"]}
      BY <1>11 DEF Return
    <3>2. /\ [cpu EXCEPT !.ifl = TRUE, !.gs = "in"] \in Cpu
          /\ [cpu EXCEPT !.ifl = TRUE, !.gs = "in"].cur = cpu.cur
      BY <1>0, CpuBits, Zenon
    <3>3. /\ [cpu EXCEPT !.ifl = TRUE, !.gs = "home"] \in Cpu
          /\ [cpu EXCEPT !.ifl = TRUE, !.gs = "home"].cur = cpu.cur
      BY <1>0, CpuBits, Zenon
    <3>4. QED BY <2>1, <3>1, <3>2, <3>3 DEF Cur
  <2>3. Placed(t)'
    BY <1>0, <2>1, Names DEF Placement, Placed, Doing
  <2>4. QED BY <1>0, <1>a, <2>1, <2>2, <2>3, KeepsCpu, Names
<1>12. QED BY <1>1, <1>2, <1>3, <1>4, <1>5, <1>6, <1>7, <1>8, <1>9, <1>10, <1>11 DEF TaskStep

-----------------------------------------------------------------------------
(* kmain's own steps. *)

\* A step that leaves every task where it is, and follows the order.
LEMMA QuietControl ==
    ASSUME Control, Cur = Boot, pc[Boot] = "body", UNCHANGED <<pc, ret, ip, eps>>,
           cpu' \in Cpu, cpu'.cur = Boot, run' \in 0 .. 4,
           stage'[1] \in Machinery => run' = 0,
           stage'[1] = "run" => run' \in 1 .. 4,
           stage'[1] = "user" => run' = 2,
           \A t \in Late : pc[t] = "none" \/ (run' = 4 /\ stage' # <<"run", "spawn">>)
    PROVE  Control'
<1>1. Standing' /\ OneRuns'
  BY DEF Control, Standing, OneRuns, Cur
<1>2. Placement'
  <2>1. ASSUME NEW t \in Tasks PROVE Placed(t)'
    BY DEF Control, Placement, Placed, Doing
  <2>2. QED BY <2>1 DEF Placement
<1>3. Queues'
  BY QueuesKept DEF Control
<1>4. Order'
  BY DEF Order, Cur, Boot
<1>5. QED BY <1>1, <1>2, <1>3, <1>4 DEF Control

\* Bringing up the machine: every step stays before the runs, or gives up.
LEMMA MachineControl ==
    ASSUME Control, Cur = Boot, pc[Boot] = "body", UNCHANGED <<pc, ret, ip, eps, run>>,
           cpu' \in {cpu, [cpu EXCEPT !.ifl = TRUE], [cpu EXCEPT !.ifl = FALSE]},
           stage[1] \in Machinery, stage'[1] \in Machinery \union {"end", "over"}
    PROVE  Control'
<1>1. cpu \in Cpu /\ cpu.cur = Boot
  BY DEF Control, Standing, Cur
<1>2. [cpu EXCEPT !.ifl = TRUE] \in Cpu /\ [cpu EXCEPT !.ifl = TRUE].cur = cpu.cur
  BY <1>1, CpuBits, Zenon
<1>3. [cpu EXCEPT !.ifl = FALSE] \in Cpu /\ [cpu EXCEPT !.ifl = FALSE].cur = cpu.cur
  BY <1>1, CpuBits, Zenon
<1>4. cpu' \in Cpu /\ cpu'.cur = Boot
  BY <1>1, <1>2, <1>3
<1>5. run = 0 /\ run' = 0 /\ \A t \in Late : pc[t] = "none"
  BY DEF Control, Order
<1>6. stage'[1] # "run" /\ stage'[1] # "user"
  BY DEF Machinery
<1>7. QED BY <1>4, <1>5, <1>6, QuietControl

LEMMA BootControl ==
    ASSUME Control, BootStep PROVE Control'
<1> USE DEF At, Goto, BootRest, tasks
<1>0. /\ cpu \in Cpu /\ run \in 0 .. 4 /\ pc \in [Ctx -> Places]
      /\ (stage[1] \in Machinery => run = 0) /\ (stage[1] = "run" => run \in 1 .. 4)
      /\ (stage[1] = "user" => run = 2)
      /\ \A t \in Late : pc[t] = "none" \/ (run = 4 /\ stage # <<"run", "spawn">>)
  BY DEF Control, Standing, Order
<1>a. [cpu EXCEPT !.ifl = TRUE] \in Cpu /\ [cpu EXCEPT !.ifl = TRUE].cur = Cur
  BY <1>0, CpuBits, Zenon DEF Cur
<1>b. [cpu EXCEPT !.ifl = FALSE] \in Cpu /\ [cpu EXCEPT !.ifl = FALSE].cur = Cur
  BY <1>0, CpuBits, Zenon DEF Cur
<1>1. CASE Breakpoint
  BY <1>1, MachineControl DEF Breakpoint, Machinery
<1>2. ASSUME NEW x \in Tested, arm_page_fault(x) \/ Touch(x) \/ Check(x) PROVE Control'
  <2>1. Cur = Boot /\ pc[Boot] = "body" /\ UNCHANGED <<cpu, pc, ret, ip, eps, run>>
    BY <1>2 DEF arm_page_fault, Touch, Check
  <2>2. stage \in {<<"arm", x>>, <<"touch", x>>, <<"check", x>>}
    BY <1>2, Zenon DEF arm_page_fault, Touch, Check
  <2>3. stage' \in {<<"touch", x>>, <<"check", x>>, <<"over", "fault">>, AfterTest(x)}
    BY <1>2 DEF arm_page_fault, Touch, Check
  <2>4. AfterTest(x)[1] \in {"arm", "pic"}
    BY DEF AfterTest
  <2>5. stage[1] \in Machinery /\ stage'[1] \in Machinery \union {"end", "over"}
    BY <2>2, <2>3, <2>4 DEF Machinery
  <2>6. QED BY <2>1, <2>5, MachineControl
<1>3. CASE InitPic \/ StartPic \/ StopPic
  BY <1>3, MachineControl DEF InitPic, StartPic, StopPic, Machinery
<1>4. CASE Discover \/ init_apic \/ mask_all
  <2>1. CASE Discover
    <3>1. stage' \in {<<"apic", "init">>, <<"end", "tests">>}
      BY <2>1 DEF Discover
    <3>2. QED BY <2>1, <3>1, MachineControl DEF Discover, Machinery
  <2>2. CASE init_apic
    <3>1. stage' \in {<<"apic", "mask">>, <<"end", "tests">>}
      BY <2>2 DEF init_apic
    <3>2. QED BY <2>2, <3>1, MachineControl DEF init_apic, Machinery
  <2>3. CASE mask_all
    <3>1. stage' \in {<<"apic", "route">>, <<"end", "tests">>}
      BY <2>3 DEF mask_all
    <3>2. QED BY <2>3, <3>1, MachineControl DEF mask_all, Machinery
  <2>4. QED BY <1>4, <2>1, <2>2, <2>3
<1>5. CASE RouteHigh \/ RouteLow
  <2>1. /\ Cur = Boot /\ pc[Boot] = "body" /\ UNCHANGED <<cpu, pc, ret, ip, eps, run>>
        /\ stage \in {<<"apic", "route">>, <<"apic", "low">>}
    BY <1>5 DEF RouteHigh, RouteLow
  <2>2. stage' \in {<<"apic", "low">>, <<"apic", "start">>, <<"timer", "init">>}
    BY <1>5 DEF RouteHigh, RouteLow
  <2>3. stage[1] \in Machinery /\ stage'[1] \in Machinery \union {"end", "over"}
    BY <2>1, <2>2 DEF Machinery
  <2>4. QED BY <2>1, <2>3, MachineControl
<1>6. CASE StartApic \/ StopApic
  BY <1>6, MachineControl DEF StartApic, StopApic, Machinery
<1>7. CASE init_timer
  <2>1. stage' \in {<<"end", "tests">>, <<"timer", "start">>}
    BY <1>7 DEF init_timer
  <2>2. QED BY <1>7, <2>1, MachineControl DEF init_timer, Machinery
<1>8. CASE StartTimer \/ StopTimer
  <2>1. /\ Cur = Boot /\ pc[Boot] = "body" /\ UNCHANGED <<pc, ret, ip, eps>>
        /\ cpu' \in {cpu, [cpu EXCEPT !.ifl = TRUE], [cpu EXCEPT !.ifl = FALSE]}
        /\ stage \in {<<"timer", "start">>, <<"timer", "wait">>}
        /\ \/ stage' = <<"run", "spawn">> /\ run' = 1
           \/ stage' = <<"timer", "wait">> /\ run' = run
    BY <1>8 DEF StartTimer, StopTimer
  <2>2. run = 0 /\ \A t \in Late : pc[t] = "none"
    BY <1>0, <2>1 DEF Machinery
  <2>3. cpu' \in Cpu /\ cpu'.cur = Boot
    BY <1>0, <1>a, <1>b, <2>1 DEF Cur
  <2>4. QED BY <2>1, <2>2, <2>3, QuietControl DEF Machinery
<1>9. CASE UserInit
  <2>1. /\ Cur = Boot /\ pc[Boot] = "body" /\ UNCHANGED <<pc, ret, ip, eps, cpu, run>>
        /\ stage = <<"user", "init">> /\ stage' = <<"run", "spawn">>
    BY <1>9 DEF UserInit
  <2>2. run = 2
    BY <1>0, <2>1
  <2>3. QED BY <1>0, <2>1, <2>2, QuietControl DEF Cur, Machinery
<1>10. CASE StartTicking \/ StopTicking
  <2>1. /\ Cur = Boot /\ pc[Boot] = "body" /\ UNCHANGED <<pc, ret, ip, eps>>
        /\ cpu' \in {cpu, [cpu EXCEPT !.ifl = TRUE], [cpu EXCEPT !.ifl = FALSE]}
        /\ stage \in {<<"run", "tick">>, <<"run", "stop">>}
        /\ \/ stage' = <<"run", "go">> /\ run' = run
           \/ NextRun
    BY <1>10 DEF StartTicking, StopTicking
  <2>2. cpu' \in Cpu /\ cpu'.cur = Boot
    BY <1>0, <1>a, <1>b, <2>1 DEF Cur
  <2>3. run \in 1 .. 4 /\ \A t \in Late : pc[t] = "none" \/ run = 4
    BY <1>0, <2>1
  <2>4. CASE stage' = <<"run", "go">> /\ run' = run
    BY <2>1, <2>2, <2>3, <2>4, QuietControl DEF Machinery
  <2>5. CASE NextRun
    <3>1. Len(Runs) = 4
      BY DEF Runs
    <3>2. \/ run = 4 /\ run' = 4 /\ stage' = <<"end", "tests">>
          \/ run = 1 /\ run' = 2 /\ stage' = <<"user", "init">>
          \/ run \in {2, 3} /\ run' = run + 1 /\ stage' = <<"run", "spawn">>
      BY <2>3, <2>5, <3>1 DEF NextRun
    <3>3. QED BY <2>1, <2>2, <2>3, <3>2, QuietControl DEF Machinery
  <2>6. QED BY <2>1, <2>4, <2>5
<1>11. CASE Finish
  <2>1. /\ Cur = Boot /\ pc[Boot] = "body" /\ UNCHANGED <<pc, ret, ip, eps, cpu, run>>
        /\ stage = <<"end", "tests">> /\ stage'[1] = "over"
    BY <1>11 DEF Finish
  <2>2. stage' # <<"run", "spawn">> /\ stage # <<"run", "spawn">>
    BY <2>1
  <2>3. QED BY <1>0, <2>1, <2>2, QuietControl DEF Cur, Machinery
<1>12. CASE Start
  <2>1. /\ Cur = Boot /\ pc[Boot] = "body" /\ UNCHANGED <<ret, ip, eps, run, stage>>
        /\ stage = <<"run", "go">> /\ pc' = [pc EXCEPT ![Boot] = "start"]
        /\ cpu' = [cpu EXCEPT !.saved = cpu.ifl, !.ifl = FALSE]
    BY <1>12 DEF Start, ControlRest
  <2>2. cpu' \in Cpu /\ cpu'.cur = Boot
    <3>1. cpu.ifl \in BOOLEAN
      BY <1>0 DEF Cpu
    <3>2. QED BY <1>0, <2>1, <3>1, CpuBits, Zenon DEF Cur
  <2>3. /\ pc'[Boot] = "start" /\ \A t \in Tasks : pc'[t] = pc[t]
        /\ pc' \in [Ctx -> Places]
    BY <1>0, <2>1, Names DEF Places
  <2>4. Standing' /\ OneRuns'
    BY <2>1, <2>2, <2>3 DEF Control, Standing, OneRuns, Cur
  <2>5. Placement'
    <3>1. ASSUME NEW t \in Tasks PROVE Placed(t)'
      BY <2>1, <2>3 DEF Control, Placement, Placed, Doing
    <3>2. QED BY <3>1 DEF Placement
  <2>6. Queues'
    BY <2>1, <2>3, QueuesKept DEF Control
  <2>7. Order'
    BY <2>1, <2>3, Names DEF Control, Order
  <2>8. QED BY <2>4, <2>5, <2>6, <2>7 DEF Control
<1>13. CASE Spawn
  <2>1. /\ Cur = Boot /\ pc[Boot] = "body" /\ UNCHANGED <<ret, ip, eps, run, cpu>>
        /\ stage = <<"run", "spawn">> /\ stage' = <<"run", "tick">>
    BY <1>13 DEF Spawn
  <2>2. PICK c \in Cast(Runs[run]) : pc' = [t \in Ctx |-> IF t \in c THEN "fresh" ELSE pc[t]]
    BY <1>13 DEF Spawn
  <2>3. run \in 1 .. 4
    BY <1>0, <2>1
  <2>4. /\ run = 1 => Runs[run] = "sched"
        /\ run = 2 => Runs[run] = "user"
        /\ run = 3 => Runs[run] = "nc"
        /\ run = 4 => Runs[run] = "ipc"
    BY DEF Runs
  <2>5. c \subseteq Tasks /\ (run # 4 => c \cap Late = {})
    <3>1. CASE run = 4
      BY <2>2, <2>4, <3>1, EntryConstants, Names DEF Cast
    <3>2. CASE run # 4
      <4>1. c \in {Kernel, {"U1", "U2"}, {"N"}}
        BY <2>2, <2>3, <2>4, <3>2 DEF Cast
      <4>2. QED BY <3>2, <4>1 DEF Kernel, Late, Tasks, User
    <3>3. QED BY <3>1, <3>2
  <2>6. /\ \A t \in Tasks : pc'[t] = IF t \in c THEN "fresh" ELSE pc[t]
        /\ pc'[Boot] = "body" /\ pc' \in [Ctx -> Places]
    BY <1>0, <2>1, <2>2, <2>5, Names DEF Places
  <2>7. Standing' /\ OneRuns'
    BY <2>1, <2>6, Names DEF Control, Standing, OneRuns, Cur, Resting
  <2>8. Placement'
    <3>1. ASSUME NEW t \in Tasks PROVE Placed(t)'
      BY <2>1, <2>6 DEF Control, Placement, Placed, Doing
    <3>2. QED BY <3>1 DEF Placement
  <2>9. Queues'
    <3>1. \A t \in Late : pc[t] = "none"
      BY <1>0, <2>1
    <3>2. ASSUME NEW e \in Endpoints PROVE QueuesOf(e)'
      <4>1. QueuesOf(e)
        BY DEF Control, Queues
      <4>2. /\ \A i \in 1 .. Len(eps[e].receivers) : FALSE
            /\ \A i \in 1 .. Len(eps[e].senders) : FALSE
        BY <3>1, <4>1 DEF QueuesOf, Waits
      <4>3. QED BY <2>1, <4>1, <4>2, QueuesOfKept
    <3>3. QED BY <3>2 DEF Queues
  <2>10. Order'
    <3>1. \A t \in Late : pc'[t] = "none" \/ run' = 4
      BY <1>0, <2>1, <2>5, <2>6, Names
    <3>2. QED BY <2>1, <2>3, <2>6, <3>1 DEF Order, Cur, Machinery
  <2>11. QED BY <2>7, <2>8, <2>9, <2>10 DEF Control
<1>14. QED BY <1>1, <1>2, <1>3, <1>4, <1>5, <1>6, <1>7, <1>8, <1>9, <1>10, <1>11, <1>12, <1>13
       DEF BootStep

-----------------------------------------------------------------------------
(* Interrupts and switches. *)

LEMMA TrapControl ==
    ASSUME Control, NEW v \in Nat, NEW chips, TrapIn(v, chips) PROVE Control'
<1>1. PICK t \in Ctx : Cur = t
  BY DEF Control, Standing, Cpu, Cur
<1>2. /\ pc[t] \in {"entry", "body"} /\ cpu' = [cpu EXCEPT !.ifl = FALSE, !.vector = v]
      /\ pc' = [pc EXCEPT ![t] = "irq"] /\ ret' = [ret EXCEPT ![t] = pc[t]]
      /\ UNCHANGED <<ip, eps, run, stage>>
  BY <1>1 DEF TrapIn
<1>3. cpu \in Cpu /\ ret \in Resumes /\ ip \in [Tasks -> Nat] /\ eps \in [Endpoints -> Endpoint]
  BY DEF Control, Standing
<1>4. cpu' \in Cpu /\ cpu'.cur = t
  BY <1>1, <1>2, <1>3, CpuBits, Zenon DEF Cur
<1>5. ret' \in Resumes
  <2>1. t = Boot => pc[t] = "body"
    BY <1>2 DEF Control, OneRuns
  <2>2. QED BY <1>2, <1>3, <2>1, Names DEF Resumes
<1>6. t \in Tasks => Placed(t)'
  BY <1>2 DEF Control, Standing, Placement, Placed, Doing
<1>7. "irq" \in Places \ {"blocked", "none", "dead", "start"}
  BY DEF Places
<1>8. QED BY <1>1, <1>2, <1>3, <1>4, <1>5, <1>6, <1>7, KeepsCpu

LEMMA InterruptControl ==
    ASSUME Wired, Control, PicInterrupt \/ ApicInterrupt \/ Spurious PROVE Control'
<1>1. hw \in Chips /\ hw.base \in Nat
  BY DEF Wired, Chips, FIRMWARE_BASE, PIC_BASE
<1>2. CASE PicInterrupt
  <2>1. hw.pirr \ hw.imr \in SUBSET {IRQ_TIMER} /\ hw.pirr \ hw.imr # {}
    BY <1>1, <1>2 DEF PicInterrupt, Chips
  <2>2. Least(hw.pirr \ hw.imr) = IRQ_TIMER
    BY <2>1, LeastOne
  <2>3. hw.base + Least(hw.pirr \ hw.imr) \in Nat
    BY <1>1, <2>2 DEF IRQ_TIMER
  <2>4. QED BY <1>2, <2>3, TrapControl DEF PicInterrupt
<1>3. CASE ApicInterrupt
  <2>1. Highest(hw.irr) \in Nat
    BY <1>1, <1>3, HighestOne DEF ApicInterrupt, Chips, FirmwareVectors
  <2>2. QED BY <1>3, <2>1, TrapControl DEF ApicInterrupt
<1>4. CASE Spurious
  <2>1. (IF hw.on THEN APIC_SPURIOUS_VECTOR ELSE hw.base + SPURIOUS_MASTER) \in Nat
    BY <1>1 DEF APIC_SPURIOUS_VECTOR, SPURIOUS_MASTER
  <2>2. QED BY <1>4, <2>1, TrapControl DEF Spurious
<1>5. QED BY <1>2, <1>3, <1>4

LEMMA SwitchControl ==
    ASSUME Control, SwitchStep PROVE Control'
<1>0. /\ cpu \in Cpu /\ ret \in Resumes /\ ip \in [Tasks -> Nat]
      /\ eps \in [Endpoints -> Endpoint] /\ pc \in [Ctx -> Places]
      /\ \A t \in Tasks : Placed(t)
  BY DEF Control, Standing, Placement
<1>1. PICK t \in Ctx : Cur = t
  BY <1>0 DEF Cpu, Cur
<1>a. /\ {"body", "entry", "acked"} \subseteq Places \ {"blocked", "none", "dead", "start"}
      /\ "acked" \in Resting \ {"blocked", "none"}
  BY DEF Places, Resting
<1>2. CASE Dispatch
  <2>1. /\ UNCHANGED <<ret, ip, eps, run>> /\ stage' \in {stage, Fault} /\ pc[t] = "irq"
        /\ cpu' \in {cpu, [cpu EXCEPT !.need = TRUE]}
        /\ pc' = [pc EXCEPT ![t] = "acked"] \/ pc' = [pc EXCEPT ![t] = "irq"]
    BY <1>0, <1>1, <1>2 DEF Dispatch, dispatch_apic, dispatch_pic, Fault
  <2>2. [cpu EXCEPT !.need = TRUE] \in Cpu /\ [cpu EXCEPT !.need = TRUE].cur = cpu.cur
    BY <1>0, CpuBits, Zenon
  <2>3. cpu' \in Cpu /\ cpu'.cur = t
    BY <1>0, <1>1, <2>1, <2>2 DEF Cur
  <2>4. t \in Tasks => Placed(t)'
    BY <1>0, <2>1, Names DEF Placed, Doing
  <2>5. "irq" \in Places \ {"blocked", "none", "dead", "start"}
    BY DEF Places
  <2>6. QED BY <1>0, <1>1, <1>a, <2>1, <2>3, <2>4, <2>5, KeepsCpu
<1>3. CASE Epilogue
  <2>1. pc[t] = "acked" /\ UNCHANGED <<ip, eps, run, stage>>
    BY <1>1, <1>3 DEF Epilogue, ControlRest
  <2>2. CASE cpu.need /\ Cur # Boot /\ Ready # {}
    <3>1. PICK u \in Ready : cpu' = enter([cpu EXCEPT !.need = FALSE, !.vector = 0], u)
      BY <1>3, <2>2 DEF Epilogue
    <3>2. UNCHANGED <<pc, ret>>
      BY <1>0, <1>3, <2>1, <2>2, <1>1 DEF Epilogue, Cur, Ready, enter, Cpu
    <3>3. [cpu EXCEPT !.need = FALSE, !.vector = 0] \in Cpu
      BY <1>0, CpuBits, Zenon
    <3>4. u \in Ctx /\ u \in Tasks
      BY Names DEF Ready
    <3>5. cpu' \in Cpu /\ cpu'.cur = u
      BY <3>1, <3>3, <3>4, Entering
    <3>6. pc' = [pc EXCEPT ![t] = "acked"] /\ t \in Tasks
      BY <1>0, <1>1, <2>1, <2>2, <3>2, Names
    <3>7. QED BY <1>1, <1>a, <2>1, <3>2, <3>5, <3>6, LeavesCpu
  <2>3. CASE ~(cpu.need /\ Cur # Boot /\ Ready # {})
    <3>1. /\ cpu' = [cpu EXCEPT !.need = FALSE, !.vector = 0, !.ifl = TRUE]
          /\ pc' = [pc EXCEPT ![t] = ret[t]]
      BY <1>1, <1>3, <2>3 DEF Epilogue
    <3>2. cpu' \in Cpu /\ cpu'.cur = t
      BY <1>0, <1>1, <3>1, CpuBits, ZenonT(30) DEF Cur
    <3>3. ret' \in Resumes
      <4>1. ret' \in {ret, [ret EXCEPT ![t] = "body"]}
        BY <1>1, <1>3 DEF Epilogue
      <4>2. QED BY <1>0, <4>1, Names DEF Resumes
    <3>4. pc'[t] = ret[t] /\ ret[t] \in {"entry", "body"} /\ (t = Boot => ret[t] = "body")
      BY <1>0, <3>1 DEF Resumes
    <3>5. t \in Tasks => Placed(t)'
      BY <1>0, <2>1, <3>4, Names DEF Placed, Doing
    <3>6. QED BY <1>0, <1>1, <1>a, <2>1, <3>1, <3>2, <3>3, <3>4, <3>5, KeepsCpu
  <2>4. QED BY <2>2, <2>3
<1>4. CASE Trampoline
  <2>1. /\ pc[t] = "fresh" /\ UNCHANGED <<ret, ip, eps, run, stage>>
        /\ cpu' = [cpu EXCEPT !.ifl = TRUE]
        /\ pc' = [pc EXCEPT ![t] = IF t \in User THEN "entry" ELSE "body"]
    BY <1>1, <1>4 DEF Trampoline, ControlRest
  <2>2. t # Boot
    BY <2>1 DEF Control, OneRuns
  <2>3. cpu' \in Cpu /\ cpu'.cur = t
    BY <1>0, <1>1, <2>1, CpuBits, Zenon DEF Cur
  <2>4. t \in Tasks => Placed(t)'
    BY <1>0, <2>1, Names DEF Placed, Doing
  <2>5. QED BY <1>0, <1>1, <1>a, <2>1, <2>2, <2>3, <2>4, KeepsCpu
<1>5. CASE StartLoop
  <2>1. /\ t = Boot /\ pc[Boot] = "start" /\ UNCHANGED <<ret, ip, eps, run>>
    BY <1>1, <1>5 DEF StartLoop
  <2>2. stage = <<"run", "go">>
    <3>1. stage \in {<<"run", "go">>, Fault}
      BY <1>1, <2>1 DEF Control, Order
    <3>2. stage # Fault
      BY DEF SwitchStep, Over, Fault
    <3>3. QED BY <3>1, <3>2
  <2>3. CASE /\ Ready # {} /\ \E u \in Ready : cpu' = enter(cpu, u)
             /\ UNCHANGED <<pc, stage>>
    <3>1. PICK u \in Ready : cpu' = enter(cpu, u)
      BY <2>3
    <3>2. u \in Tasks /\ u \in Ctx /\ pc[u] \in {"fresh", "acked", "back"}
      BY Names DEF Ready
    <3>3. cpu' \in Cpu /\ cpu'.cur = u
      BY <1>0, <3>1, <3>2, Entering
    <3>4. Standing'
      BY <2>1, <2>3, <3>3 DEF Control, Standing
    <3>5. \A x \in Tasks : pc[x] # "start" /\ pc[x] \in Resting
      BY <1>1, <2>1, Names DEF Control, OneRuns
    <3>6. OneRuns'
      BY <2>1, <2>3, <3>2, <3>3, <3>5, Names DEF OneRuns, Cur
    <3>7. Placement'
      <4>1. ASSUME NEW x \in Tasks PROVE Placed(x)'
        BY <1>0, <2>1, <2>3 DEF Placed, Doing
      <4>2. QED BY <4>1 DEF Placement
    <3>8. Queues'
      BY <2>1, <2>3, QueuesKept DEF Control
    <3>9. Order'
      BY <2>1, <2>3, OrderKept DEF Control
    <3>10. QED BY <3>4, <3>6, <3>7, <3>8, <3>9 DEF Control
  <2>4. CASE /\ cpu' = [cpu EXCEPT !.ifl = cpu.saved] /\ pc' = [pc EXCEPT ![Boot] = "body"]
             /\ stage' = <<"run", "stop">>
    <3>1. cpu.saved \in BOOLEAN
      BY <1>0 DEF Cpu
    <3>2. cpu' \in Cpu /\ cpu'.cur = Boot
      BY <1>0, <1>1, <2>1, <2>4, <3>1, CpuBits, ZenonT(30) DEF Cur
    <3>3. /\ \A x \in Tasks : pc'[x] = pc[x]
          /\ pc'[Boot] = "body" /\ pc' \in [Ctx -> Places]
      BY <1>0, <2>4, Names DEF Places
    <3>4. Standing'
      BY <2>1, <3>2, <3>3 DEF Control, Standing
    <3>5. OneRuns'
      BY <1>1, <2>1, <3>2, <3>3, Names DEF Control, OneRuns, Cur
    <3>6. Placement'
      <4>1. ASSUME NEW x \in Tasks PROVE Placed(x)'
        BY <1>0, <2>1, <3>3 DEF Placed, Doing
      <4>2. QED BY <4>1 DEF Placement
    <3>7. Queues'
      BY <2>1, <3>3, QueuesKept DEF Control
    <3>8. Order'
      BY <2>1, <2>2, <2>4, <3>2, <3>3, Names DEF Control, Order, Cur, Machinery
    <3>9. QED BY <3>4, <3>5, <3>6, <3>7, <3>8 DEF Control
  <2>5. QED BY <1>5, <2>3, <2>4 DEF StartLoop, Goto
<1>6. QED BY <1>2, <1>3, <1>4, <1>5 DEF SwitchStep

LEMMA InitControl == Init => Control
<1> SUFFICES ASSUME Init PROVE Control
  OBVIOUS
<1>1. Standing
  <2>1. cpu \in Cpu
    BY Names DEF Init, Cpu
  <2>2. pc \in [Ctx -> Places] /\ ret \in Resumes /\ ip \in [Tasks -> Nat] /\ run \in 0 .. 4
    BY Names DEF Init, Places, Resumes
  <2>3. EmptyEndpoint \in Endpoint
    BY DEF EmptyEndpoint, Endpoint
  <2>4. eps \in [Endpoints -> Endpoint]
    BY <2>3 DEF Init
  <2>5. QED BY <2>1, <2>2, <2>4 DEF Standing
<1>2. /\ \A t \in Tasks : pc[t] = "none" /\ ip[t] = 1
      /\ pc[Boot] = "body" /\ Cur = Boot
  BY Names DEF Init, Cur
<1>3. OneRuns
  BY <1>2, Names DEF OneRuns, Resting
<1>4. Placement
  <2>1. ASSUME NEW t \in Tasks PROVE Placed(t)
    <3>1. Len(Program[t]) \in Nat \ {0}
      BY ProgramsWellFormed DEF WellFormed
    <3>2. QED BY <1>2, <3>1 DEF Placed
  <2>2. QED BY <2>1 DEF Placement
<1>5. Queues
  <2>1. \A e \in Endpoints : eps[e].receivers = << >> /\ eps[e].senders = << >>
    BY DEF Init, EmptyEndpoint
  <2>2. QED BY <2>1 DEF Queues, QueuesOf
<1>6. Order
  BY <1>2, Names DEF Order, Init, Machinery
<1>7. QED BY <1>1, <1>3, <1>4, <1>5, <1>6 DEF Control

LEMMA ControlInductive == Wired /\ Control /\ [Next]_vars => Control'
<1> SUFFICES ASSUME Wired, Control, [Next]_vars PROVE Control'
  OBVIOUS
<1>1. ASSUME UNCHANGED <<stage, run, cpu, pc, ret, ip, eps>> PROVE Control'
  <2>1. Standing' /\ OneRuns' /\ Order'
    BY <1>1 DEF Control, Standing, OneRuns, Order, Cur
  <2>2. Placement'
    <3>1. ASSUME NEW x \in Tasks PROVE Placed(x)'
      BY <1>1 DEF Control, Placement, Placed, Doing
    <3>2. QED BY <3>1 DEF Placement
  <2>3. Queues'
    BY <1>1, QueuesKept DEF Control
  <2>4. QED BY <2>1, <2>2, <2>3 DEF Control
<1>2. CASE PitEdge \/ LapicTick
  BY <1>1, <1>2 DEF PitEdge, LapicTick, Software, tasks
<1>3. CASE UNCHANGED vars
  BY <1>1, <1>3 DEF vars, tasks
<1>4. QED BY <1>2, <1>3, BootControl, SwitchControl, TaskControl, InterruptControl DEF Next

-----------------------------------------------------------------------------
(* The GS base and the kernel stacks of the task on the CPU. *)

Home ==
    /\ GsAtHome
    /\ Cur # Boot => cpu.rsp0 = Cur /\ cpu.kstack = Cur
    /\ landed = [t \in Tasks |-> t]

\* kmain never touches GS, a stack or the bookkeeping of a task.
LEMMA BootKeepsHome ==
    ASSUME Control, BootStep
    PROVE  /\ Cur = Boot /\ pc[Boot] = "body" /\ UNCHANGED landed
           /\ \E i, s \in BOOLEAN : cpu' = [cpu EXCEPT !.saved = s, !.ifl = i]
           /\ pc'[Boot] \in {"body", "start"}
<1> USE DEF At, BootRest, tasks
<1>0. cpu \in Cpu /\ cpu.ifl \in BOOLEAN /\ cpu.saved \in BOOLEAN /\ pc \in [Ctx -> Places]
  BY DEF Control, Standing, Cpu
<1>a. /\ cpu = [cpu EXCEPT !.saved = cpu.saved, !.ifl = cpu.ifl]
      /\ \A b \in BOOLEAN : [cpu EXCEPT !.ifl = b] = [cpu EXCEPT !.saved = cpu.saved, !.ifl = b]
  BY <1>0 DEF Cpu
<1>b. \A c \in {cpu, [cpu EXCEPT !.ifl = TRUE], [cpu EXCEPT !.ifl = FALSE]} :
         \E i, s \in BOOLEAN : c = [cpu EXCEPT !.saved = s, !.ifl = i]
  <2>1. [cpu EXCEPT !.ifl = TRUE] = [cpu EXCEPT !.saved = cpu.saved, !.ifl = TRUE]
    BY <1>a, Zenon
  <2>2. [cpu EXCEPT !.ifl = FALSE] = [cpu EXCEPT !.saved = cpu.saved, !.ifl = FALSE]
    BY <1>a, Zenon
  <2>3. \E i, s \in BOOLEAN : [cpu EXCEPT !.ifl = TRUE] = [cpu EXCEPT !.saved = s, !.ifl = i]
    BY <1>0, <2>1, Zenon
  <2>4. \E i, s \in BOOLEAN : [cpu EXCEPT !.ifl = FALSE] = [cpu EXCEPT !.saved = s, !.ifl = i]
    BY <1>0, <2>2, Zenon
  <2>5. \E i, s \in BOOLEAN : cpu = [cpu EXCEPT !.saved = s, !.ifl = i]
    BY <1>0, <1>a, Zenon
  <2>6. QED BY <2>3, <2>4, <2>5, Zenon
<1>1. ASSUME cpu' \in {cpu, [cpu EXCEPT !.ifl = TRUE], [cpu EXCEPT !.ifl = FALSE]},
             Cur = Boot, pc[Boot] = "body", UNCHANGED <<landed, pc>>
      PROVE  /\ Cur = Boot /\ pc[Boot] = "body" /\ UNCHANGED landed
             /\ \E i, s \in BOOLEAN : cpu' = [cpu EXCEPT !.saved = s, !.ifl = i]
             /\ pc'[Boot] \in {"body", "start"}
  BY <1>1, <1>b, Zenon
<1>2. CASE \/ Breakpoint \/ InitPic \/ Discover \/ init_apic \/ mask_all
           \/ RouteHigh \/ RouteLow
  BY <1>1, <1>2 DEF Breakpoint, InitPic, Discover, init_apic, mask_all, RouteHigh, RouteLow
<1>3. ASSUME NEW x \in Tested, arm_page_fault(x) \/ Touch(x) \/ Check(x)
      PROVE  Cur = Boot /\ pc[Boot] = "body" /\ UNCHANGED <<cpu, landed, pc>>
  BY <1>3 DEF arm_page_fault, Touch, Check
<1>4. CASE StartPic \/ StopPic \/ StartApic \/ StopApic
  BY <1>1, <1>4 DEF StartPic, StopPic, StartApic, StopApic
<1>5. CASE init_timer \/ StartTimer \/ StopTimer \/ UserInit \/ Finish
  BY <1>1, <1>5 DEF init_timer, StartTimer, StopTimer, UserInit, Finish
<1>6. CASE StartTicking \/ StopTicking
  BY <1>1, <1>6 DEF StartTicking, StopTicking
<1>7. CASE Spawn
  <2>1. Cur = Boot /\ pc[Boot] = "body" /\ UNCHANGED <<cpu, landed>>
    BY <1>7 DEF Spawn
  <2>2. PICK c \in Cast(Runs[run]) : pc' = [t \in Ctx |-> IF t \in c THEN "fresh" ELSE pc[t]]
    BY <1>7 DEF Spawn
  <2>3. Boot \notin c
    <3>1. Cast(Runs[run]) \subseteq {Kernel, {"U1", "U2"}, {"N"}} \union Casts
      BY DEF Cast
    <3>2. QED BY <3>1, EntryConstants DEF Kernel, Boot, User
  <2>4. pc'[Boot] = "body"
    BY <2>1, <2>2, <2>3, Names
  <2>5. QED BY <1>b, <2>1, <2>4, Zenon
<1>8. CASE Start
  <2>1. Cur = Boot /\ pc[Boot] = "body" /\ UNCHANGED landed /\ pc'[Boot] = "start"
    BY <1>0, <1>8, Names DEF Start
  <2>2. cpu' = [cpu EXCEPT !.saved = cpu.ifl, !.ifl = FALSE]
    BY <1>8 DEF Start
  <2>3. \E i, s \in BOOLEAN : cpu' = [cpu EXCEPT !.saved = s, !.ifl = i]
    BY <1>0, <2>2, Zenon
  <2>4. QED BY <2>1, <2>3
<1>9. QED BY <1>1, <1>2, <1>3, <1>4, <1>5, <1>6, <1>7, <1>8 DEF BootStep

\* A task leaves the CPU with GS at home, and the next one brings its stacks.
LEMMA HandsOver ==
    ASSUME Control, NEW c \in Cpu, c.gs = "home", NEW u \in Ready \union {Boot},
           cpu' = enter(c, u), pc'[u] = pc[u], landed' = [t \in Tasks |-> t]
    PROVE  Home'
<1>1. u \in Ctx /\ cpu'.cur = u /\ cpu'.gs = "home" /\ (u # Boot => cpu'.rsp0 = u /\ cpu'.kstack = u)
  BY Entering, Names DEF Ready
<1>2. pc'[u] \notin {"stub", "served"}
  BY DEF Control, OneRuns, Ready
<1>3. QED BY <1>1, <1>2 DEF Home, GsAtHome, Cur

\* The context on the CPU stays on it.
LEMMA StaysHome ==
    ASSUME Home, cpu'.cur = Cur, UNCHANGED <<cpu.rsp0, cpu.kstack>>,
           cpu'.gs = "in" <=> pc'[Cur] \in {"stub", "served"},
           landed' = [t \in Tasks |-> t]
    PROVE  Home'
BY DEF Home, GsAtHome, Cur

LEMMA TrapHome ==
    ASSUME Control, Home, NEW v, NEW chips, TrapIn(v, chips) PROVE Home'
<1>1. cpu \in Cpu /\ pc \in [Ctx -> Places] /\ Cur \in Ctx
  BY DEF Control, Standing, Cpu, Cur
<1>2. /\ pc[Cur] \in {"entry", "body"} /\ pc' = [pc EXCEPT ![Cur] = "irq"]
      /\ cpu' = [cpu EXCEPT !.ifl = FALSE, !.vector = v]
      /\ landed' = IF Ring3(Cur) THEN [landed EXCEPT ![Cur] = cpu.rsp0] ELSE landed
  BY DEF TrapIn
<1>3. /\ cpu'.cur = Cur /\ cpu'.gs = cpu.gs
      /\ UNCHANGED <<cpu.rsp0, cpu.kstack>>
  BY <1>1, <1>2 DEF Cpu, Cur
<1>4. cpu'.gs # "in" /\ pc'[Cur] = "irq"
  BY <1>1, <1>2, <1>3 DEF Home, GsAtHome
<1>5. landed' = [t \in Tasks |-> t]
  <2>1. CASE Ring3(Cur)
    <3>1. Cur \in Tasks /\ cpu.rsp0 = Cur
      BY <2>1, Names DEF Ring3, Home
    <3>2. QED BY <1>2, <2>1, <3>1 DEF Home
  <2>2. CASE ~Ring3(Cur)
    BY <1>2, <2>2 DEF Home
  <2>3. QED BY <2>1, <2>2
<1>6. QED BY <1>3, <1>4, <1>5, StaysHome

LEMMA SwitchHome ==
    ASSUME Control, Home, SwitchStep PROVE Home'
<1>1. cpu \in Cpu /\ pc \in [Ctx -> Places] /\ Cur \in Ctx /\ ret \in Resumes
  BY DEF Control, Standing, Cpu, Cur
<1>2. UNCHANGED landed /\ landed' = [t \in Tasks |-> t]
  BY DEF SwitchStep, Dispatch, Epilogue, Trampoline, StartLoop, Home
<1>3. CASE Dispatch
  <2>1. /\ pc[Cur] = "irq" /\ cpu' \in {cpu, [cpu EXCEPT !.need = TRUE]}
        /\ pc' = [pc EXCEPT ![Cur] = "acked"] \/ pc' = pc
    BY <1>3 DEF Dispatch, dispatch_apic, dispatch_pic
  <2>2. cpu'.cur = Cur /\ cpu'.gs = cpu.gs /\ UNCHANGED <<cpu.rsp0, cpu.kstack>>
    BY <1>1, <2>1 DEF Cpu, Cur
  <2>3. pc'[Cur] \in {"irq", "acked"}
    BY <1>1, <2>1
  <2>4. QED BY <1>2, <2>1, <2>2, <2>3, StaysHome DEF Home, GsAtHome
<1>4. CASE Epilogue
  <2>1. pc[Cur] = "acked" /\ cpu.gs = "home"
    BY <1>1, <1>4 DEF Epilogue, Home, GsAtHome, Cpu
  <2>2. CASE cpu.need /\ Cur # Boot /\ Ready # {}
    <3>1. PICK u \in Ready : cpu' = enter([cpu EXCEPT !.need = FALSE, !.vector = 0], u)
      BY <1>4, <2>2 DEF Epilogue
    <3>2. UNCHANGED pc
      BY <1>4, <2>2 DEF Epilogue
    <3>3. [cpu EXCEPT !.need = FALSE, !.vector = 0] \in Cpu
      BY <1>1, CpuBits, Zenon
    <3>4. [cpu EXCEPT !.need = FALSE, !.vector = 0].gs = "home"
      BY <1>1, <2>1 DEF Cpu
    <3>5. QED BY <1>2, <3>1, <3>2, <3>3, <3>4, HandsOver
  <2>3. CASE ~(cpu.need /\ Cur # Boot /\ Ready # {})
    <3>1. /\ cpu' = [cpu EXCEPT !.need = FALSE, !.vector = 0, !.ifl = TRUE]
          /\ pc' = [pc EXCEPT ![Cur] = ret[Cur]]
      BY <1>4, <2>3 DEF Epilogue
    <3>2. cpu'.cur = Cur /\ cpu'.gs = cpu.gs /\ UNCHANGED <<cpu.rsp0, cpu.kstack>>
      BY <1>1, <3>1 DEF Cpu, Cur
    <3>3. pc'[Cur] \in {"entry", "body"}
      BY <1>1, <3>1 DEF Resumes
    <3>4. QED BY <1>2, <2>1, <3>2, <3>3, StaysHome
  <2>4. QED BY <2>2, <2>3
<1>5. CASE Trampoline
  <2>1. /\ pc[Cur] = "fresh" /\ cpu' = [cpu EXCEPT !.ifl = TRUE]
        /\ pc' = [pc EXCEPT ![Cur] = IF Cur \in User THEN "entry" ELSE "body"]
    BY <1>5 DEF Trampoline
  <2>2. cpu'.cur = Cur /\ cpu'.gs = cpu.gs /\ UNCHANGED <<cpu.rsp0, cpu.kstack>>
    BY <1>1, <2>1 DEF Cpu, Cur
  <2>3. pc'[Cur] \in {"entry", "body"}
    BY <1>1, <2>1
  <2>4. QED BY <1>2, <2>1, <2>2, <2>3, StaysHome DEF Home, GsAtHome
<1>6. CASE StartLoop
  <2>1. Cur = Boot /\ pc[Boot] = "start" /\ cpu.gs = "home"
    BY <1>1, <1>6 DEF StartLoop, Home, GsAtHome, Cpu
  <2>2. CASE \E u \in Ready : cpu' = enter(cpu, u) /\ UNCHANGED pc
    BY <1>1, <1>2, <2>1, <2>2, HandsOver
  <2>3. CASE cpu' = [cpu EXCEPT !.ifl = cpu.saved] /\ pc' = [pc EXCEPT ![Boot] = "body"]
    <3>1. cpu'.cur = Cur /\ cpu'.gs = cpu.gs /\ UNCHANGED <<cpu.rsp0, cpu.kstack>>
      BY <1>1, <2>3 DEF Cpu, Cur
    <3>2. pc'[Cur] = "body"
      BY <1>1, <2>1, <2>3
    <3>3. QED BY <1>2, <2>1, <3>1, <3>2, StaysHome
  <2>4. QED BY <1>6, <2>2, <2>3 DEF StartLoop
<1>7. QED BY <1>3, <1>4, <1>5, <1>6 DEF SwitchStep

\* A task that ends or parks, from a place where GS is at home.
LEMMA ExitHome ==
    ASSUME Control, NEW t \in Tasks, Cur = t, NEW c \in Cpu, c.gs = "home", Exit(t, c),
           landed' = [x \in Tasks |-> x]
    PROVE  Home'
<1>1. PICK u \in Successors : cpu' = enter(c, u)
  BY DEF Exit
<1>2. u \in Ready \union {Boot} /\ u # t
  BY Names DEF Successors, Ready
<1>3. pc'[u] = pc[u]
  BY <1>2, Names DEF Exit, Control, Standing, Ready
<1>4. QED BY <1>1, <1>2, <1>3, HandsOver

LEMMA ParkHome ==
    ASSUME Control, Home, NEW t \in Tasks, Cur = t, pc[t] = "call", Parked(t), UNCHANGED landed
    PROVE  Home'
<1>1. PICK u \in Successors : cpu' = enter(cpu, u)
  BY DEF Parked
<1>2. u \in Ready \union {Boot} /\ u # t
  BY Names DEF Successors, Ready
<1>3. pc'[u] = pc[u]
  BY <1>2, Names DEF Parked, Control, Standing, Ready
<1>4. cpu \in Cpu /\ cpu.gs = "home"
  BY DEF Control, Standing, Cpu, Home, GsAtHome
<1>5. QED BY <1>1, <1>2, <1>3, <1>4, HandsOver DEF Home

LEMMA AnswerHome ==
    ASSUME Control, Home, NEW t \in Tasks, Cur = t, pc[t] = "call", NEW w, Answered(t, w),
           UNCHANGED landed
    PROVE  Home'
<1>1. UNCHANGED cpu /\ pc'[t] = "back"
  BY Names DEF Answered
<1>2. cpu.gs # "in"
  BY DEF Home, GsAtHome
<1>3. QED BY <1>1, <1>2, StaysHome DEF Home, Cur

LEMMA TaskHome ==
    ASSUME Control, Home, TaskStep PROVE Home'
<1>0. cpu \in Cpu /\ pc \in [Ctx -> Places] /\ Cur \in Ctx /\ cpu.gs \in {"home", "in"}
  BY DEF Control, Standing, Cpu, Cur
<1>a. landed = [x \in Tasks |-> x]
  BY DEF Home
<1>b. [cpu EXCEPT !.ifl = FALSE] \in Cpu
  BY <1>0, CpuBits, Zenon
<1>c. [cpu EXCEPT !.ifl = FALSE].gs = cpu.gs
  BY <1>0 DEF Cpu
<1>d. cpu.gs = "in" <=> pc[Cur] \in {"stub", "served"}
  BY DEF Home, GsAtHome
<1>1. CASE EnterRing3
  <2>1. UNCHANGED <<cpu, landed>> /\ pc[Cur] = "entry" /\ pc'[Cur] = "body"
    BY <1>0, <1>1 DEF EnterRing3
  <2>2. QED BY <1>a, <1>d, <2>1, StaysHome DEF Cur
<1>2. ASSUME NEW t \in Tasks, WaitDone(t) PROVE Home'
  BY <1>2, <1>a, <1>d, StaysHome DEF WaitDone, Cur
<1>3. ASSUME NEW t \in Tasks, ThreadExit(t) PROVE Home'
  <2>1. Cur = t /\ pc[t] = "body" /\ Exit(t, [cpu EXCEPT !.ifl = FALSE]) /\ UNCHANGED landed
    BY <1>3 DEF ThreadExit, Running
  <2>2. QED BY <1>0, <1>a, <1>b, <1>c, <1>d, <2>1, ExitHome
<1>4. ASSUME NEW t \in Tasks, UserFault(t) PROVE Home'
  <2>1. Cur = t /\ pc[t] = "body"
    BY <1>4 DEF UserFault, Ring3, Control, OneRuns, Resting
  <2>2. cpu.rsp0 = t
    BY <2>1, Names DEF Home
  <2>3. landed' = [x \in Tasks |-> x]
    BY <1>4, <1>a, <2>2 DEF UserFault
  <2>4. CASE Exit(t, [cpu EXCEPT !.ifl = FALSE])
    BY <1>0, <1>b, <1>c, <1>d, <2>1, <2>3, <2>4, ExitHome
  <2>5. CASE UNCHANGED <<cpu, pc>>
    BY <1>d, <2>3, <2>5, StaysHome DEF Cur
  <2>6. QED BY <1>4, <2>4, <2>5 DEF UserFault
<1>5. ASSUME NEW t \in Tasks, Syscall(t) PROVE Home'
  <2>1. /\ Cur = t /\ cpu' = [cpu EXCEPT !.ifl = FALSE, !.gs = "in"]
        /\ landed' = [landed EXCEPT ![t] = cpu.kstack] /\ pc' = [pc EXCEPT ![t] = "stub"]
    BY <1>5 DEF Syscall, Running
  <2>2. cpu.kstack = t
    BY <2>1, Names DEF Home
  <2>3. landed' = [x \in Tasks |-> x]
    BY <1>a, <2>1, <2>2
  <2>4. cpu'.cur = Cur /\ cpu'.gs = "in" /\ UNCHANGED <<cpu.rsp0, cpu.kstack>>
    BY <1>0, <2>1 DEF Cpu, Cur
  <2>5. pc'[Cur] = "stub"
    BY <1>0, <2>1, Names
  <2>6. QED BY <2>3, <2>4, <2>5, StaysHome
<1>6. ASSUME NEW t \in Tasks, on_syscall(t) PROVE Home'
  <2> DEFINE op == Doing(t).op
             c == IF SwapsFor(op) THEN [cpu EXCEPT !.gs = "home"] ELSE cpu
  <2>1. Cur = t /\ pc[t] = "stub" /\ UNCHANGED landed /\ cpu.gs = "in"
    BY <1>6, <1>d DEF on_syscall
  <2>2. c \in Cpu /\ c.cur = Cur
    BY <1>0, CpuBits, Zenon DEF Cur
  <2>3. /\ c.rsp0 = cpu.rsp0 /\ c.kstack = cpu.kstack
        /\ c.gs = IF SwapsFor(op) THEN "home" ELSE "in"
    BY <1>0, <2>1 DEF Cpu
  <2>4. CASE op = "exit"
    <3>1. Exit(t, c) /\ c.gs = "home"
      BY <1>6, <2>3, <2>4 DEF on_syscall, SwapsFor
    <3> HIDE DEF c
    <3>2. QED BY <1>a, <2>1, <2>2, <3>1, ExitHome
  <2>5. CASE op # "exit"
    <3>1. pc' = [pc EXCEPT ![t] = IF op \in MaySwitch THEN "call" ELSE "served"] /\ cpu' = c
      BY <1>6, <2>5 DEF on_syscall
    <3>2. pc'[Cur] = IF op \in MaySwitch THEN "call" ELSE "served"
      BY <1>0, <2>1, <3>1, Names
    <3>3. SwapsFor(op) <=> op \in MaySwitch
      BY <2>5 DEF SwapsFor
    <3> HIDE DEF c, op
    <3>4. QED BY <1>a, <2>1, <2>2, <2>3, <3>1, <3>2, <3>3, StaysHome
  <2>6. QED BY <2>4, <2>5
<1>7. ASSUME NEW t \in Tasks, YieldCall(t) PROVE Home'
  <2>1. /\ Cur = t /\ pc[t] = "call" /\ pc' = [pc EXCEPT ![t] = "back"] /\ UNCHANGED landed
        /\ cpu.gs = "home"
    BY <1>0, <1>7, <1>d DEF YieldCall
  <2>2. PICK u \in IF Ready = {} THEN {t} ELSE Ready : cpu' = enter(cpu, u)
    BY <1>7 DEF YieldCall
  <2>3. CASE u \in Ready
    <3>1. pc'[u] = pc[u]
      BY <1>0, <2>1, <2>3, Names DEF Ready
    <3>2. QED BY <1>0, <1>a, <2>1, <2>2, <2>3, <3>1, HandsOver
  <2>4. CASE u = t
    <3>1. /\ cpu'.cur = t /\ cpu'.gs = "home" /\ cpu'.rsp0 = t /\ cpu'.kstack = t
      BY <1>0, <2>1, <2>2, <2>4, Entering, Names
    <3>2. pc'[t] = "back"
      BY <1>0, <2>1, Names
    <3>3. QED BY <1>a, <2>1, <3>1, <3>2 DEF Home, GsAtHome, Cur
  <2>5. QED BY <2>2, <2>3, <2>4
<1>8. ASSUME NEW t \in Tasks, Refused(t) PROVE Home'
  BY <1>8, AnswerHome DEF Refused, Calling, CallRest
<1>9. ASSUME NEW t \in Tasks, sys_send(t) \/ sys_recv(t) PROVE Home'
  <2>1. Cur = t /\ pc[t] = "call" /\ UNCHANGED landed
    BY <1>9 DEF sys_send, sys_recv, Calling, CallRest
  <2>2. Parked(t) \/ \E w : Answered(t, w)
    BY <1>9 DEF sys_send, sys_recv
  <2>3. QED BY <2>1, <2>2, ParkHome, AnswerHome
<1>10. ASSUME NEW t \in Tasks, Back(t) PROVE Home'
  <2>1. Cur = t /\ pc[t] = "back" /\ pc' = [pc EXCEPT ![t] = "served"] /\ UNCHANGED landed
    BY <1>10 DEF Back
  <2>2. cpu.gs = "home"
    BY <1>0, <1>d, <2>1
  <2>3. Doing(t).op \in MaySwitch
    BY <2>1 DEF Control, Placement, Placed
  <2>4. cpu' = [cpu EXCEPT !.gs = "in"]
    BY <1>10, <2>2, <2>3 DEF Back, SwapsFor
  <2>5. cpu'.cur = Cur /\ cpu'.gs = "in" /\ UNCHANGED <<cpu.rsp0, cpu.kstack>>
    BY <1>0, <2>4 DEF Cpu, Cur
  <2>6. pc'[Cur] = "served"
    BY <1>0, <2>1, Names
  <2>7. QED BY <1>a, <2>1, <2>5, <2>6, StaysHome
<1>11. ASSUME NEW t \in Tasks, Return(t) PROVE Home'
  <2>1. Cur = t /\ pc[t] = "served" /\ pc' = [pc EXCEPT ![t] = "body"] /\ UNCHANGED landed
    BY <1>11 DEF Return
  <2>2. cpu' = [cpu EXCEPT !.ifl = TRUE, !.gs = "home"]
    BY <1>11, <1>d, <2>1 DEF Return
  <2>3. cpu'.cur = Cur /\ cpu'.gs = "home" /\ UNCHANGED <<cpu.rsp0, cpu.kstack>>
    BY <1>0, <2>2 DEF Cpu, Cur
  <2>4. pc'[Cur] = "body"
    BY <1>0, <2>1, Names
  <2>5. QED BY <1>a, <2>1, <2>3, <2>4, StaysHome
<1>12. QED BY <1>1, <1>2, <1>3, <1>4, <1>5, <1>6, <1>7, <1>8, <1>9, <1>10, <1>11 DEF TaskStep

LEMMA InitHome == Init => Home
BY Names DEF Init, Home, GsAtHome, Cur

LEMMA HomeInductive == Control /\ Home /\ [Next]_vars => Home'
<1> SUFFICES ASSUME Control, Home, [Next]_vars PROVE Home'
  OBVIOUS
<1>0. cpu \in Cpu /\ pc \in [Ctx -> Places]
  BY DEF Control, Standing
<1>1. ASSUME UNCHANGED <<cpu, pc, landed>> PROVE Home'
  BY <1>1 DEF Home, GsAtHome, Cur
<1>2. CASE BootStep
  <2>1. PICK i \in BOOLEAN, s \in BOOLEAN : cpu' = [cpu EXCEPT !.saved = s, !.ifl = i]
    BY <1>2, BootKeepsHome
  <2>2. cpu'.cur = Cur /\ cpu'.gs = cpu.gs /\ UNCHANGED <<cpu.rsp0, cpu.kstack>>
    BY <1>0, <2>1 DEF Cpu, Cur
  <2>3. Cur = Boot /\ pc[Boot] = "body" /\ UNCHANGED landed /\ pc'[Boot] \in {"body", "start"}
    BY <1>2, BootKeepsHome
  <2>4. QED BY <2>2, <2>3, StaysHome DEF Home, GsAtHome
<1>3. CASE PitEdge \/ LapicTick
  BY <1>1, <1>3 DEF PitEdge, LapicTick, Software, tasks
<1>4. CASE PicInterrupt \/ ApicInterrupt \/ Spurious
  <2>1. \E v, chips : TrapIn(v, chips)
    BY <1>4, Zenon DEF PicInterrupt, ApicInterrupt, Spurious
  <2>2. QED BY <2>1, TrapHome
<1>5. CASE UNCHANGED vars
  BY <1>1, <1>5 DEF vars, tasks
<1>6. QED BY <1>2, <1>3, <1>4, <1>5, SwitchHome, TaskHome DEF Next

-----------------------------------------------------------------------------
(* Interrupts in service, faults and the clock page.  kmain opens the      *)
(* interrupt flag only where a controller it has set up is in charge, so   *)
(* that every interrupt has a vector above the exceptions and is           *)
(* acknowledged to the controller that raised it; and nothing is armed     *)
(* where programs run.                                                     *)

Listening ==
    {<<"pic", "wait">>, <<"apic", "wait">>, <<"timer", "wait">>, <<"run", "go">>,
     <<"run", "stop">>}
FaultTests == {"traps", "arm", "touch", "check"}
PicsOnly(s) == s[1] \in FaultTests \union {"pic", "acpi"} \/ s = <<"apic", "init">>
ApicsOn(s) ==
    s[1] \in {"apic", "timer", "run", "user"} /\ s \notin {"apic"} \X {"init", "mask"}
Remapped(s) == s[1] \notin FaultTests /\ s # <<"pic", "init">>

Phases ==
    /\ PicsOnly(stage) => ~hw.on /\ ~irq.using
    /\ stage = <<"apic", "mask">> => hw.on /\ ~irq.using
    /\ ApicsOn(stage) => irq.using /\ hw.on
    /\ Remapped(stage) => hw.base = PIC_BASE
Masking == cpu.ifl \/ pc[Cur] \in {"irq", "acked"} => stage \in Listening

\* Nothing is in service, or what is in service is what the handler serves.
Service ==
    \/ /\ hw.pisr = {} /\ hw.isr = {}
       /\ pc[Cur] = "irq" =>
             cpu.vector = IF hw.on THEN APIC_SPURIOUS_VECTOR ELSE PIC_BASE + SPURIOUS_MASTER
    \/ /\ pc[Cur] = "irq" /\ ~hw.on /\ hw.isr = {}
       /\ cpu.vector = PIC_BASE + IRQ_TIMER /\ hw.pisr = {IRQ_TIMER}
    \/ pc[Cur] = "irq" /\ hw.on /\ hw.pisr = {} /\ hw.isr = {cpu.vector}

Armed ==
    /\ armed \in [on: BOOLEAN, at: Tested, resume: BOOLEAN]
    /\ ArmedOnlyInItsTest
    /\ stage[1] = "touch" => armed.on /\ armed.at = stage[2]
PageInStep == irq.page => irq.clock = irq.ticks /\ run # 0

Served == KernelNeverFaults /\ Statics /\ Phases /\ Masking /\ Service /\ Armed /\ PageInStep

\* kmain never runs while an interrupt is in service.
LEMMA BootServes ==
    ASSUME Wired, Wired', Control, Served, BootStep,
           KernelNeverFaults', Statics', Phases', Armed', PageInStep',
           cpu'.ifl => stage' \in Listening
    PROVE  Served'
<1>1. Cur = Boot /\ pc[Boot] = "body" /\ pc'[Boot] \in {"body", "start"}
  BY BootKeepsHome
<1>2. cpu'.cur = Boot
  <2>1. PICK i \in BOOLEAN, s \in BOOLEAN : cpu' = [cpu EXCEPT !.saved = s, !.ifl = i]
    BY BootKeepsHome
  <2>2. cpu \in Cpu
    BY DEF Control, Standing
  <2>3. QED BY <1>1, <2>1, <2>2 DEF Cur, Cpu
<1>3. Masking'
  BY <1>1, <1>2 DEF Masking, Cur
<1>4. hw.pisr = {} /\ hw.isr = {}
  BY <1>1 DEF Served, Service
<1>5. hw'.pisr = {} /\ hw'.isr = {}
  <2> USE DEF At, BootRest, tasks
  <2>1. hw \in Chips
    BY DEF Wired
  <2>2. CASE Breakpoint \/ Discover \/ init_timer \/ UserInit \/ Spawn \/ Start \/ Finish
    BY <1>4, <2>2 DEF Breakpoint, Discover, init_timer, UserInit, Spawn, Start, Finish, ControlRest
  <2>3. ASSUME NEW x \in Tested, arm_page_fault(x) \/ Touch(x) \/ Check(x) PROVE UNCHANGED hw
    BY <2>3 DEF arm_page_fault, Touch, Check
  <2>4. CASE InitPic \/ StartPic \/ StopPic
    BY <1>4, <2>1, <2>4 DEF InitPic, StartPic, StopPic, Chips
  <2>5. CASE init_apic \/ mask_all
    BY <1>4, <2>1, <2>5 DEF init_apic, mask_all, Chips
  <2>6. CASE RouteHigh \/ RouteLow \/ StartApic \/ StopApic
    BY <1>4, <2>1, <2>6 DEF RouteHigh, RouteLow, StartApic, StopApic, Chips
  <2>7. CASE StartTimer \/ StopTimer \/ StartTicking \/ StopTicking
    BY <1>4, <2>1, <2>7 DEF StartTimer, StopTimer, StartTicking, StopTicking, Chips
  <2>8. QED BY <1>4, <2>2, <2>3, <2>4, <2>5, <2>6, <2>7 DEF BootStep
<1>6. Service'
  BY <1>1, <1>2, <1>5 DEF Service, Cur
<1>7. QED BY <1>3, <1>6 DEF Served

\* A step of kmain that moves to another stage of the same phase.
LEMMA Moves ==
    ASSUME Wired, Wired', Control, Served, BootStep,
           UNCHANGED <<hw.on, hw.base, irq.using, armed>>, Statics', PageInStep',
           stage[1] \notin {"touch", "check"}, stage'[1] # "touch", stage' # Fault,
           PicsOnly(stage') => PicsOnly(stage), ApicsOn(stage') => ApicsOn(stage),
           Remapped(stage') => Remapped(stage), stage' # <<"apic", "mask">>,
           cpu'.ifl => stage' \in Listening
    PROVE  Served'
<1>1. KernelNeverFaults'
  BY DEF KernelNeverFaults, Fault
<1>2. Phases'
  BY DEF Served, Phases
<1>3. ~armed.on
  BY DEF Served, Armed, ArmedOnlyInItsTest
<1>4. Armed'
  BY <1>3 DEF Served, Armed, ArmedOnlyInItsTest
<1>5. QED BY <1>1, <1>2, <1>4, BootServes

\* The interrupt flag after a step that closes it.
LEMMA Closed ==
    ASSUME NEW c \in Cpu, NEW d, d = [c EXCEPT !.ifl = FALSE]
    PROVE  ~d.ifl
<1>1. \A b \in BOOLEAN : [c EXCEPT !.ifl = b].ifl = b
  BY DEF Cpu
<1>2. [c EXCEPT !.ifl = FALSE].ifl = FALSE
  BY <1>1, Zenon
<1>3. QED BY <1>2, Zenon

LEMMA FaultTestsServed ==
    ASSUME Wired, Wired', Control, Served, BootStep, NEW x \in Tested,
           arm_page_fault(x) \/ Touch(x) \/ Check(x)
    PROVE  Served'
<1> USE DEF At, Goto
<1>0. armed \in [on: BOOLEAN, at: Tested, resume: BOOLEAN]
  BY DEF Served, Armed
<1>1. UNCHANGED <<hw, irq, cpu, run>>
  BY DEF arm_page_fault, Touch, Check
<1>2. stage \in {"arm", "touch", "check"} \X {x}
  <2>1. stage \in {<<"arm", x>>, <<"touch", x>>, <<"check", x>>}
    BY Zenon DEF arm_page_fault, Touch, Check
  <2>2. QED BY <2>1
<1>3. ~cpu'.ifl
  <2>1. stage \notin Listening
    BY <1>2 DEF Listening
  <2>2. QED BY <1>1, <2>1 DEF Served, Masking
<1>4. Statics' /\ PageInStep'
  BY <1>1 DEF Served, Statics, PageInStep
<1>5. ~hw.on /\ ~irq.using
  BY <1>2 DEF Served, Phases, PicsOnly, FaultTests
<1>6. AfterTest(x) \in {<<"arm", "null">>, <<"arm", "smap">>, <<"pic", "init">>}
  BY DEF AfterTest
<1>7. CASE arm_page_fault(x)
  <2>1. stage = <<"arm", x>> /\ ~armed.on
    BY <1>7 DEF arm_page_fault, Served, Armed, ArmedOnlyInItsTest
  <2>2. CASE x = "smap" /\ ~m.smap
    <3>1. stage' = AfterTest(x) /\ UNCHANGED armed
      BY <1>7, <2>2 DEF arm_page_fault
    <3>2. QED BY <1>1, <1>2, <1>3, <1>4, <1>6, <2>1, <3>1, Moves
                 DEF Fault, PicsOnly, ApicsOn, Remapped, FaultTests
  <2>3. CASE ~(x = "smap" /\ ~m.smap)
    <3>1. stage' = <<"touch", x>> /\ armed' = [on |-> TRUE, at |-> x, resume |-> FALSE]
      BY <1>7, <2>3 DEF arm_page_fault
    <3>2. armed'.on /\ armed'.at = x
      BY <3>1, Zenon
    <3>3. armed' \in [on: BOOLEAN, at: Tested, resume: BOOLEAN]
      BY <3>1, Zenon
    <3>4. Armed'
      BY <3>1, <3>2, <3>3 DEF Armed, ArmedOnlyInItsTest
    <3>5. Phases' /\ KernelNeverFaults'
      BY <1>1, <1>5, <3>1 DEF Phases, KernelNeverFaults, ApicsOn, Remapped, FaultTests
    <3>6. QED BY <1>3, <1>4, <3>4, <3>5, BootServes
  <2>4. QED BY <2>2, <2>3
<1>8. CASE Touch(x)
  <2>1. stage = <<"touch", x>> /\ armed.on /\ armed.at = x
    BY <1>8 DEF Touch, Served, Armed
  <2> DEFINE a == [armed EXCEPT !.resume = TRUE]
  <2>2. a.at = x /\ a.on = armed.on
    BY <1>0, <2>1
  <2>3. \A b \in BOOLEAN : /\ [armed EXCEPT !.resume = b].resume = b
                           /\ [armed EXCEPT !.resume = b] \in [on: BOOLEAN, at: Tested, resume: BOOLEAN]
    BY <1>0
  <2>4. a.resume = TRUE
    BY <2>3, Zenon
  <2>5. a \in [on: BOOLEAN, at: Tested, resume: BOOLEAN]
    BY <2>3, Zenon
  <2>6. a.on /\ a.resume
    BY <2>1, <2>2, <2>4, Zenon
  <2>7. /\ stage' = <<"check", x>>
        /\ armed' = [a EXCEPT !.on = FALSE, !.resume = FALSE] \/ armed' = a
    BY <1>8, <2>2, <2>6 DEF Touch, Outcome, Expected
  <2> HIDE DEF a
  <2>8. \A b, c \in BOOLEAN : [a EXCEPT !.on = b, !.resume = c] \in [on: BOOLEAN, at: Tested, resume: BOOLEAN]
    BY <2>5
  <2>9. [a EXCEPT !.on = FALSE, !.resume = FALSE] \in [on: BOOLEAN, at: Tested, resume: BOOLEAN]
    BY <2>8, Zenon
  <2>10. [a EXCEPT !.on = FALSE, !.resume = FALSE].at = x
    BY <2>2, <2>5
  <2>11. Armed'
    BY <2>2, <2>5, <2>7, <2>9, <2>10 DEF Armed, ArmedOnlyInItsTest
  <2>12. Phases' /\ KernelNeverFaults'
    BY <1>1, <1>5, <2>7 DEF Phases, KernelNeverFaults, ApicsOn, Remapped, FaultTests
  <2>13. QED BY <1>3, <1>4, <2>11, <2>12, BootServes
<1>9. CASE Check(x)
  <2>1. stage' = AfterTest(x) /\ armed' = Unarmed
    BY <1>9 DEF Check, disarm
  <2>2. ~armed'.on
    BY <2>1, Zenon DEF Unarmed
  <2>3. armed' \in [on: BOOLEAN, at: Tested, resume: BOOLEAN]
    <3>1. "null" \in Tested
      BY DEF Tested
    <3>2. QED BY <2>1, <3>1, Zenon DEF Unarmed
  <2>4. Armed'
    BY <1>6, <2>1, <2>2, <2>3 DEF Armed, ArmedOnlyInItsTest
  <2>5. Phases' /\ KernelNeverFaults'
    BY <1>1, <1>5, <1>6, <2>1 DEF Phases, KernelNeverFaults, ApicsOn, Remapped, FaultTests
  <2>6. QED BY <1>3, <1>4, <2>4, <2>5, BootServes
<1>10. QED BY <1>7, <1>8, <1>9

LEMMA BootServed ==
    ASSUME Wired, Wired', Control, Served, BootStep PROVE Served'
<1> USE DEF At, Goto, BootRest, tasks
<1>0. /\ hw \in Chips /\ cpu \in Cpu /\ Statics /\ PageInStep /\ run \in 0 .. 4
      /\ stage[1] \in Machinery => run = 0 /\ ~irq.page
  BY DEF Wired, Control, Standing, Order, Served, PageInStep
<1>a. cpu.ifl => stage \in Listening
  BY DEF Served, Masking
<1>b. ASSUME UNCHANGED <<irq, run>> PROVE Statics' /\ PageInStep'
  BY <1>0, <1>b DEF Statics, PageInStep
<1>c. ASSUME NEW v, irq' = Restarted(irq, v), stage[1] \in Machinery
      PROVE  Statics' /\ PageInStep' /\ UNCHANGED irq.using
  BY <1>0, <1>c DEF Statics, PageInStep, Restarted
<1> USE DEF PicsOnly, ApicsOn, Remapped, FaultTests, Fault
<1>1. CASE Breakpoint
  <2>1. stage = <<"traps", "init">> /\ stage' = <<"arm", "guard">> /\ UNCHANGED <<hw, cpu, irq, armed, run>>
    BY <1>1 DEF Breakpoint, Outcome
  <2>2. ~cpu'.ifl
    BY <1>a, <2>1 DEF Listening
  <2>3. QED BY <1>b, <2>1, <2>2, Moves
<1>2. ASSUME NEW x \in Tested, arm_page_fault(x) \/ Touch(x) \/ Check(x) PROVE Served'
  BY <1>2, FaultTestsServed
<1>3. CASE InitPic
  <2>1. stage = <<"pic", "init">> /\ stage' = <<"pic", "start">> /\ UNCHANGED <<cpu, irq, armed, run>>
    BY <1>3 DEF InitPic
  <2>2. hw'.base = PIC_BASE /\ hw'.on = hw.on
    BY <1>0, <1>3 DEF InitPic, Chips
  <2>3. ~cpu'.ifl
    BY <1>a, <2>1 DEF Listening
  <2>4. Phases' /\ KernelNeverFaults'
    BY <2>1, <2>2 DEF Served, Phases, KernelNeverFaults
  <2>5. Armed'
    BY <2>1 DEF Served, Armed, ArmedOnlyInItsTest
  <2>6. QED BY <1>b, <2>1, <2>3, <2>4, <2>5, BootServes
<1>4. CASE StartPic
  <2>1. /\ stage = <<"pic", "start">> /\ stage' = <<"pic", "wait">> /\ UNCHANGED <<armed, run>>
        /\ irq' = Restarted(irq, irq.vec) /\ UNCHANGED <<hw.on, hw.base>>
    BY <1>0, <1>4 DEF StartPic, Chips
  <2>2. stage' \in Listening /\ stage[1] \in Machinery
    BY <2>1 DEF Listening, Machinery
  <2>3. Statics' /\ PageInStep' /\ UNCHANGED irq.using
    BY <1>c, <2>1, <2>2
  <2>4. QED BY <2>1, <2>2, <2>3, Moves
<1>5. CASE StopPic
  <2>1. /\ stage = <<"pic", "wait">> /\ stage' = <<"acpi", "init">> /\ UNCHANGED <<armed, run, irq>>
        /\ UNCHANGED <<hw.on, hw.base>>
    BY <1>0, <1>5 DEF StopPic, Chips
  <2>2. ~cpu'.ifl
    BY <1>0, <1>5, Closed DEF StopPic
  <2>3. QED BY <1>b, <2>1, <2>2, Moves
<1>6. CASE Discover
  <2>1. /\ stage = <<"acpi", "init">> /\ stage' \in {<<"apic", "init">>, <<"end", "tests">>}
        /\ UNCHANGED <<armed, run, irq, hw, cpu>>
    BY <1>6 DEF Discover
  <2>2. ~cpu'.ifl
    BY <1>a, <2>1 DEF Listening
  <2>3. QED BY <1>b, <2>1, <2>2, Moves
<1>7. CASE init_apic
  <2>1. /\ stage = <<"apic", "init">> /\ UNCHANGED <<armed, run, cpu, irq>>
        /\ stage' = IF m.lapic THEN <<"apic", "mask">> ELSE <<"end", "tests">>
    BY <1>7 DEF init_apic
  <2>2. hw'.on = m.lapic /\ hw'.base = hw.base
    BY <1>0, <1>7 DEF init_apic, Chips
  <2>3. hw.base = PIC_BASE /\ ~irq.using
    BY <2>1 DEF Served, Phases
  <2>4. Phases' /\ KernelNeverFaults'
    BY <2>1, <2>2, <2>3 DEF Phases, KernelNeverFaults
  <2>5. ~cpu'.ifl
    BY <1>a, <2>1 DEF Listening
  <2>6. Armed'
    BY <2>1 DEF Served, Armed, ArmedOnlyInItsTest
  <2>7. QED BY <1>b, <2>1, <2>4, <2>5, <2>6, BootServes
<1>7a. CASE mask_all
  <2>1. /\ stage = <<"apic", "mask">> /\ UNCHANGED <<armed, run, cpu>>
        /\ \/ stage' = <<"apic", "route">> /\ irq' = [irq EXCEPT !.using = TRUE]
           \/ stage' = <<"end", "tests">> /\ UNCHANGED irq
    BY <1>7a DEF mask_all
  <2>2. UNCHANGED <<hw.on, hw.base>>
    BY <1>0, <1>7a DEF mask_all, Chips
  <2>3. hw.base = PIC_BASE /\ hw.on
    BY <2>1 DEF Served, Phases
  <2>4. Statics' /\ PageInStep' /\ (stage' = <<"apic", "route">> => irq'.using)
    BY <1>0, <2>1 DEF Statics, PageInStep
  <2>5. Phases' /\ KernelNeverFaults'
    BY <2>1, <2>2, <2>3, <2>4 DEF Phases, KernelNeverFaults
  <2>6. ~cpu'.ifl
    BY <1>a, <2>1 DEF Listening
  <2>7. Armed'
    BY <2>1 DEF Served, Armed, ArmedOnlyInItsTest
  <2>8. QED BY <2>4, <2>5, <2>6, <2>7, BootServes
<1>8. CASE RouteHigh \/ RouteLow
  <2>1. /\ stage \in {<<"apic", "route">>, <<"apic", "low">>}
        /\ UNCHANGED <<armed, run, irq, cpu>>
    BY <1>8 DEF RouteHigh, RouteLow
  <2>2. stage' \in {<<"apic", "low">>, <<"apic", "start">>, <<"timer", "init">>}
    BY <1>8 DEF RouteHigh, RouteLow
  <2>3. UNCHANGED <<hw.on, hw.base>>
    BY <1>0, <1>8 DEF RouteHigh, RouteLow, Chips
  <2>4. ~cpu'.ifl
    BY <1>a, <2>1 DEF Listening
  <2>5. QED BY <1>b, <2>1, <2>2, <2>3, <2>4, Moves
<1>9. CASE StartApic
  <2>1. /\ stage = <<"apic", "start">> /\ stage' = <<"apic", "wait">> /\ UNCHANGED <<armed, run>>
        /\ irq' = Restarted(irq, APIC_TIMER_VECTOR) /\ UNCHANGED <<hw.on, hw.base>>
    BY <1>0, <1>9 DEF StartApic, Chips
  <2>2. stage' \in Listening /\ stage[1] \in Machinery
    BY <2>1 DEF Listening, Machinery
  <2>3. Statics' /\ PageInStep' /\ UNCHANGED irq.using
    BY <1>c, <2>1, <2>2
  <2>4. QED BY <2>1, <2>2, <2>3, Moves
<1>10. CASE StopApic
  <2>1. /\ stage = <<"apic", "wait">> /\ stage' = <<"timer", "init">> /\ UNCHANGED <<armed, run, irq>>
        /\ UNCHANGED <<hw.on, hw.base>>
    BY <1>0, <1>10 DEF StopApic, Chips
  <2>2. ~cpu'.ifl
    BY <1>0, <1>10, Closed DEF StopApic
  <2>3. QED BY <1>b, <2>1, <2>2, Moves
<1>11. CASE init_timer
  <2>1. /\ stage = <<"timer", "init">> /\ UNCHANGED <<armed, run, hw, cpu>>
        /\ stage' \in {<<"timer", "start">>, <<"end", "tests">>}
    BY <1>11 DEF init_timer
  <2>2. irq' = irq \/ \E r : irq' = [irq EXCEPT !.rate = r]
    BY <1>11 DEF init_timer
  <2>3. Statics' /\ PageInStep' /\ UNCHANGED irq.using
    BY <1>0, <2>1, <2>2 DEF Statics, PageInStep
  <2>4. ~cpu'.ifl
    BY <1>a, <2>1 DEF Listening
  <2>5. QED BY <2>1, <2>3, <2>4, Moves
<1>12. CASE StartTimer
  <2>1. stage = <<"timer", "start">> /\ UNCHANGED armed /\ stage[1] \in Machinery
    BY <1>12 DEF StartTimer, Machinery
  <2>2. CASE Reload(irq.rate) = 0
    <3>1. stage' = <<"run", "spawn">> /\ run' = 1 /\ UNCHANGED <<cpu, hw, irq>>
      BY <1>12, <2>2 DEF StartTimer
    <3>2. ~cpu'.ifl
      BY <1>a, <2>1, <3>1 DEF Listening
    <3>3. Statics' /\ PageInStep'
      BY <1>0, <3>1 DEF Statics, PageInStep
    <3>4. QED BY <2>1, <3>1, <3>2, <3>3, Moves
  <2>3. CASE Reload(irq.rate) # 0
    <3>1. /\ stage' = <<"timer", "wait">> /\ UNCHANGED run
          /\ irq' = [Restarted(irq, LAPIC_TIMER_VECTOR) EXCEPT !.count = Reload(irq.rate)]
      BY <1>12, <2>3 DEF StartTimer
    <3>2. UNCHANGED <<hw.on, hw.base>>
      BY <1>0, <1>12, <2>3 DEF StartTimer, Chips
    <3>3. Statics' /\ PageInStep' /\ UNCHANGED irq.using
      BY <1>0, <2>1, <3>1 DEF Statics, PageInStep, Restarted
    <3>4. stage' \in Listening
      BY <3>1 DEF Listening
    <3>5. QED BY <2>1, <3>1, <3>2, <3>3, <3>4, Moves
  <2>4. QED BY <2>2, <2>3
<1>13. CASE StopTimer
  <2>1. /\ stage = <<"timer", "wait">> /\ stage' = <<"run", "spawn">> /\ UNCHANGED armed
        /\ run' = 1 /\ irq' = [irq EXCEPT !.fired = 0, !.rate = 0, !.count = 1]
        /\ UNCHANGED <<hw.on, hw.base>>
    BY <1>0, <1>13 DEF StopTimer, Chips
  <2>2. ~cpu'.ifl
    BY <1>0, <1>13, Closed DEF StopTimer
  <2>3. Statics' /\ UNCHANGED <<irq.using, irq.page, irq.clock, irq.ticks>>
    BY <1>0, <2>1 DEF Statics
  <2>4. PageInStep'
    BY <1>0, <2>1, <2>3 DEF PageInStep
  <2>5. QED BY <2>1, <2>2, <2>3, <2>4, Moves
<1>14. CASE UserInit
  <2>1. /\ stage = <<"user", "init">> /\ stage' = <<"run", "spawn">>
        /\ UNCHANGED <<armed, run, hw, cpu>> /\ irq' = Seeded(irq)
    BY <1>14 DEF UserInit
  <2>2. run = 2
    BY <2>1 DEF Control, Order
  <2>3. Statics' /\ UNCHANGED irq.using /\ irq'.clock = irq'.ticks
    <3>1. [irq EXCEPT !.page = TRUE].page = TRUE
      <4>1. \A b \in BOOLEAN : [irq EXCEPT !.page = b].page = b
        BY <1>0 DEF Statics
      <4>2. QED BY <4>1, Zenon
    <3>2. irq' = [[irq EXCEPT !.page = TRUE] EXCEPT !.clock = [irq EXCEPT !.page = TRUE].ticks]
      BY <2>1, <3>1 DEF Seeded, publish_ticks
    <3>3. QED BY <1>0, <3>2 DEF Statics
  <2>4. PageInStep'
    BY <2>1, <2>2, <2>3 DEF PageInStep
  <2>5. ~cpu'.ifl
    BY <1>a, <2>1 DEF Listening
  <2>6. QED BY <2>1, <2>3, <2>4, <2>5, Moves
<1>15. CASE Spawn
  <2>1. /\ stage = <<"run", "spawn">> /\ stage' = <<"run", "tick">>
        /\ UNCHANGED <<armed, run, hw, cpu, irq>>
    BY <1>15 DEF Spawn
  <2>2. ~cpu'.ifl
    BY <1>a, <2>1 DEF Listening
  <2>3. QED BY <1>b, <2>1, <2>2, Moves
<1>d. ASSUME NextRun, stage[1] = "run"
      PROVE  /\ stage' \in {<<"user", "init">>, <<"end", "tests">>, <<"run", "spawn">>}
             /\ run' # 0
  <2>1. run \in 1 .. 4
    BY <1>d DEF Control, Order
  <2>2. QED BY <1>d, <2>1 DEF NextRun, Runs
<1>16. CASE StartTicking
  <2>1. stage = <<"run", "tick">> /\ UNCHANGED armed
    BY <1>16 DEF StartTicking
  <2>2. CASE irq.count # 0
    <3>1. /\ stage' = <<"run", "go">> /\ UNCHANGED run
          /\ irq' = [irq EXCEPT !.vec = LAPIC_TIMER_VECTOR]
          /\ hw' = [hw EXCEPT !.lvt = "periodic"]
      BY <1>16, <2>2 DEF StartTicking
    <3>2. UNCHANGED <<hw.on, hw.base>>
      BY <1>0, <3>1 DEF Chips
    <3>3. Statics' /\ PageInStep' /\ UNCHANGED irq.using
      BY <1>0, <3>1 DEF Statics, PageInStep
    <3>4. stage' \in Listening
      BY <3>1 DEF Listening
    <3>5. QED BY <2>1, <3>1, <3>2, <3>3, <3>4, Moves
  <2>3. CASE irq.count = 0
    <3>1. UNCHANGED <<cpu, hw, irq>> /\ (NextRun \/ (stage' = <<"run", "go">> /\ UNCHANGED run))
      BY <1>16, <2>3 DEF StartTicking
    <3>2. /\ stage' \in {<<"user", "init">>, <<"end", "tests">>, <<"run", "spawn">>, <<"run", "go">>}
          /\ run' # 0
      BY <1>d, <2>1, <3>1 DEF Control, Order
    <3>3. ~cpu'.ifl
      BY <1>a, <2>1, <3>1 DEF Listening
    <3>4. Statics' /\ PageInStep'
      BY <1>0, <3>1, <3>2 DEF Statics, PageInStep
    <3>5. QED BY <2>1, <3>1, <3>2, <3>3, <3>4, Moves
  <2>4. QED BY <2>2, <2>3
<1>17. CASE Start
  <2>1. /\ stage = <<"run", "go">> /\ UNCHANGED <<stage, armed, run, hw, irq>>
    BY <1>17 DEF Start, ControlRest
  <2>2. stage' \in Listening
    BY <2>1 DEF Listening
  <2>3. QED BY <1>b, <2>1, <2>2, Moves
<1>18. CASE StopTicking
  <2>1. /\ stage = <<"run", "stop">> /\ UNCHANGED <<armed, irq>> /\ NextRun
        /\ UNCHANGED <<hw.on, hw.base>>
    BY <1>0, <1>18 DEF StopTicking, Chips
  <2>2. ~cpu'.ifl
    BY <1>0, <1>18, Closed DEF StopTicking
  <2>3. /\ stage' \in {<<"user", "init">>, <<"end", "tests">>, <<"run", "spawn">>}
        /\ run' # 0
    BY <1>d, <2>1
  <2>4. Statics' /\ PageInStep'
    BY <1>0, <2>1, <2>3 DEF Statics, PageInStep
  <2>5. QED BY <2>1, <2>2, <2>3, <2>4, Moves
<1>19. CASE Finish
  <2>1. /\ stage = <<"end", "tests">> /\ UNCHANGED <<armed, run, hw, cpu, irq>>
        /\ stage' \in {<<"over", "complete">>, <<"over", "halted">>}
    BY <1>19 DEF Finish
  <2>2. ~cpu'.ifl
    BY <1>a, <2>1 DEF Listening
  <2>3. QED BY <1>b, <2>1, <2>2, Moves
<1>20. QED BY <1>1, <1>2, <1>3, <1>4, <1>5, <1>6, <1>7, <1>7a, <1>8, <1>9, <1>10, <1>11, <1>12, <1>13,
              <1>14, <1>15, <1>16, <1>17, <1>18, <1>19 DEF BootStep

\* No step of a task is taken inside a handler, or enters one.
LEMMA TaskQuiet ==
    ASSUME Control, Control', TaskStep
    PROVE  Cur # Boot /\ pc[Cur] # "irq" /\ pc'[cpu'.cur] # "irq"
<1>0. pc \in [Ctx -> Places] /\ cpu'.cur \in Ctx
  BY DEF Control, Standing, Cpu
<1>1. Cur # Boot /\ pc[Cur] # "irq"
  <2>1. CASE EnterRing3
    BY <2>1 DEF EnterRing3, Control, OneRuns
  <2>2. ASSUME NEW t \in Tasks, UserFault(t) PROVE Cur = t /\ pc[t] # "irq"
    BY <2>2 DEF UserFault, Ring3, Control, OneRuns, Resting
  <2>3. ASSUME NEW t \in Tasks, WaitDone(t) \/ ThreadExit(t) \/ Syscall(t) \/ on_syscall(t)
        PROVE  Cur = t /\ pc[t] # "irq"
    BY <2>3 DEF WaitDone, ThreadExit, Syscall, on_syscall, Running
  <2>4. ASSUME NEW t \in Tasks, YieldCall(t) \/ Refused(t) \/ sys_send(t) \/ sys_recv(t)
                                \/ Back(t) \/ Return(t)
        PROVE  Cur = t /\ pc[t] # "irq"
    BY <2>4 DEF YieldCall, Refused, sys_send, sys_recv, Back, Return, Calling
  <2>5. QED BY <2>1, <2>2, <2>3, <2>4, Names DEF TaskStep
<1>2. \A x \in Ctx : pc[x] # "irq"
  BY <1>1, Names DEF Control, OneRuns, Resting
<1>3. ASSUME NEW t \in Tasks, NEW q \in Places, q # "irq", pc' = [pc EXCEPT ![t] = q] \/ UNCHANGED pc
      PROVE  \A x \in Ctx : pc'[x] # "irq"
  BY <1>0, <1>2, <1>3
<1>4. {"dead", "body", "stub", "call", "served", "back", "blocked"} \subseteq Places \ {"irq"}
  BY DEF Places
<1>5. ASSUME NEW t \in Tasks, NEW w, Answered(t, w) PROVE \A x \in Ctx : pc'[x] # "irq"
  BY <1>2, <1>5 DEF Answered
<1>6. CASE EnterRing3
  <2>1. PICK t \in Tasks : Cur = t
    BY <1>1, Names DEF Control, Standing, Cpu, Cur
  <2>2. pc' = [pc EXCEPT ![t] = "body"]
    BY <1>6, <2>1 DEF EnterRing3
  <2>3. \A x \in Ctx : pc'[x] # "irq"
    BY <1>3, <1>4, <2>2
  <2>4. QED BY <1>0, <1>1, <2>3
<1>7. ASSUME NEW t \in Tasks, WaitDone(t) \/ ThreadExit(t) \/ UserFault(t) \/ Syscall(t)
      PROVE  pc'[cpu'.cur] # "irq"
  <2>1. UNCHANGED pc \/ pc' = [pc EXCEPT ![t] = "dead"] \/ pc' = [pc EXCEPT ![t] = "stub"]
    BY <1>7 DEF WaitDone, ThreadExit, UserFault, Syscall, Exit
  <2>2. QED BY <1>0, <1>3, <1>4, <2>1
<1>8. ASSUME NEW t \in Tasks, on_syscall(t) \/ YieldCall(t) \/ Back(t) \/ Return(t)
      PROVE  pc'[cpu'.cur] # "irq"
  <2>1. \E q \in {"dead", "call", "served", "back", "body"} : pc' = [pc EXCEPT ![t] = q]
    BY <1>8 DEF on_syscall, YieldCall, Back, Return, Exit
  <2>2. QED BY <1>0, <1>3, <1>4, <2>1
<1>9. ASSUME NEW t \in Tasks, Refused(t) \/ sys_send(t) \/ sys_recv(t)
      PROVE  pc'[cpu'.cur] # "irq"
  <2>1. pc' = [pc EXCEPT ![t] = "blocked"] \/ \E w : Answered(t, w)
    BY <1>9 DEF Refused, sys_send, sys_recv, Parked
  <2>2. QED BY <1>0, <1>3, <1>4, <1>5, <2>1
<1>10. QED BY <1>1, <1>6, <1>7, <1>8, <1>9 DEF TaskStep

\* Tasks run in a run, with nothing armed, and return to ring 3 as they may.
LEMMA TaskStays ==
    ASSUME Control, Control', Served, TaskStep
    PROVE  stage = <<"run", "go">> /\ UNCHANGED <<stage, armed>>
<1>1. Cur # Boot /\ pc[Cur] # "irq" /\ pc'[cpu'.cur] # "irq"
  BY TaskQuiet
<1>2. UNCHANGED <<m, run, hw, irq>>
  BY TaskStepKeeps
<1>3. stage = <<"run", "go">>
  BY <1>1 DEF Control, Order, Served, KernelNeverFaults, Fault
<1>4. ~armed.on
  BY <1>3 DEF Served, Armed, ArmedOnlyInItsTest
<1>5. UNCHANGED <<stage, armed>>
  <2>1. ASSUME NEW t \in Tasks, UserFault(t) PROVE UNCHANGED <<stage, armed>>
    <3>1. Outcome(armed, "gp", "none", TRUE) = "kill" /\ Outcome(armed, "pf", "null", TRUE) = "kill"
      BY <1>1, <1>4 DEF Outcome, Expected
    <3>2. QED BY <2>1, <3>1 DEF UserFault
  <2>2. ASSUME NEW t \in Tasks, Return(t) PROVE UNCHANGED <<stage, armed>>
    BY <2>2 DEF Return, Returns
  <2>3. CASE EnterRing3
    BY <2>3 DEF EnterRing3, ControlRest
  <2>4. ASSUME NEW t \in Tasks, WaitDone(t) \/ ThreadExit(t) \/ Syscall(t) \/ on_syscall(t) \/ YieldCall(t)
        PROVE  UNCHANGED <<stage, armed>>
    BY <2>4 DEF WaitDone, ThreadExit, Syscall, on_syscall, YieldCall, ControlRest
  <2>5. ASSUME NEW t \in Tasks, Refused(t) \/ sys_send(t) \/ sys_recv(t) \/ Back(t)
        PROVE  UNCHANGED <<stage, armed>>
    BY <2>5 DEF Refused, sys_send, sys_recv, Back, CallRest
  <2>6. QED BY <2>1, <2>2, <2>3, <2>4, <2>5 DEF TaskStep
<1>6. QED BY <1>3, <1>5

LEMMA TaskServed ==
    ASSUME Control, Control', Served, TaskStep PROVE Served'
<1>1. pc[Cur] # "irq" /\ pc'[cpu'.cur] # "irq"
  BY TaskQuiet
<1>2. UNCHANGED <<m, run, hw, irq>>
  BY TaskStepKeeps
<1>3. stage = <<"run", "go">> /\ UNCHANGED <<stage, armed>>
  BY TaskStays
<1>4. KernelNeverFaults' /\ Statics' /\ Phases' /\ Armed' /\ PageInStep'
  BY <1>2, <1>3 DEF Served, KernelNeverFaults, Statics, Phases, Armed, ArmedOnlyInItsTest, PageInStep
<1>5. Masking'
  BY <1>3 DEF Masking, Listening
<1>6. Service'
  BY <1>1, <1>2 DEF Served, Service, Cur
<1>7. QED BY <1>4, <1>5, <1>6 DEF Served

\* An interrupt is taken on a vector of the controller in charge.
LEMMA InterruptServed ==
    ASSUME Wired, Control, Served, PicInterrupt \/ ApicInterrupt \/ Spurious PROVE Served'
<1>0. hw \in Chips /\ cpu \in Cpu /\ pc \in [Ctx -> Places] /\ Cur \in Ctx
  BY DEF Wired, Control, Standing, Cpu, Cur
<1>1. /\ cpu.ifl /\ pc[Cur] \in {"entry", "body"} /\ pc' = [pc EXCEPT ![Cur] = "irq"]
      /\ UNCHANGED <<m, stage, run, irq, armed>>
      /\ \E v : cpu' = [cpu EXCEPT !.ifl = FALSE, !.vector = v]
  BY DEF PicInterrupt, ApicInterrupt, Spurious, TrapIn
<1>2. stage \in Listening /\ hw.pisr = {} /\ hw.isr = {}
  BY <1>1 DEF Served, Masking, Service
<1>3. hw.base = PIC_BASE
  <2>1. Remapped(stage)
    BY <1>2 DEF Listening, Remapped, FaultTests
  <2>2. QED BY <2>1 DEF Served, Phases
<1>4. cpu'.cur = Cur /\ pc'[Cur] = "irq"
  BY <1>0, <1>1 DEF Cpu, Cur
<1>5. \A v : [cpu EXCEPT !.ifl = FALSE, !.vector = v].vector = v
  BY <1>0 DEF Cpu
<1>6. UNCHANGED <<hw.on, hw.base>> /\ Service'
  <2>1. CASE PicInterrupt
    <3>1. hw.pirr \ hw.imr \in SUBSET {IRQ_TIMER} /\ hw.pirr \ hw.imr # {} /\ ~hw.on
      BY <1>0, <2>1 DEF PicInterrupt, Chips
    <3>2. Least(hw.pirr \ hw.imr) = IRQ_TIMER
      BY <3>1, LeastOne
    <3>3. /\ hw' = [hw EXCEPT !.pirr = @ \ {IRQ_TIMER}, !.pisr = @ \union {IRQ_TIMER}]
          /\ cpu' = [cpu EXCEPT !.ifl = FALSE, !.vector = hw.base + IRQ_TIMER]
      BY <2>1, <3>2 DEF PicInterrupt, TrapIn
    <3>4. /\ hw'.on = hw.on /\ hw'.base = hw.base /\ hw'.isr = {} /\ hw'.pisr = {IRQ_TIMER}
      BY <1>0, <1>2, <3>3 DEF Chips
    <3>5. cpu'.vector = PIC_BASE + IRQ_TIMER
      BY <1>3, <1>5, <3>3
    <3>6. QED BY <1>4, <3>1, <3>4, <3>5 DEF Service, Cur
  <2>2. CASE ApicInterrupt
    <3> DEFINE v == Highest(hw.irr)
    <3>1. hw.on /\ v \in FirmwareVectors
      BY <1>0, <2>2, HighestOne DEF ApicInterrupt, Chips
    <3>2. /\ hw' = [hw EXCEPT !.irr = @ \ {v}, !.isr = @ \union {v}]
          /\ cpu' = [cpu EXCEPT !.ifl = FALSE, !.vector = v]
      BY <2>2 DEF ApicInterrupt, TrapIn
    <3> HIDE DEF v
    <3>3. hw'.on = hw.on /\ hw'.base = hw.base /\ hw'.isr = {v} /\ hw'.pisr = {}
      BY <1>0, <1>2, <3>2 DEF Chips
    <3>4. cpu'.vector = v
      BY <1>5, <3>2
    <3>5. QED BY <1>4, <3>1, <3>3, <3>4 DEF Service, Cur
  <2>3. CASE Spurious
    <3>1. /\ UNCHANGED hw
          /\ cpu' = [cpu EXCEPT !.ifl = FALSE,
                                !.vector = IF hw.on THEN APIC_SPURIOUS_VECTOR
                                                    ELSE hw.base + SPURIOUS_MASTER]
      BY <2>3 DEF Spurious, TrapIn
    <3>2. cpu'.vector = IF hw.on THEN APIC_SPURIOUS_VECTOR ELSE PIC_BASE + SPURIOUS_MASTER
      BY <1>3, <1>5, <3>1
    <3>3. QED BY <1>2, <3>1, <3>2 DEF Service
  <2>4. QED BY <2>1, <2>2, <2>3
<1>7. KernelNeverFaults' /\ Statics' /\ Phases' /\ Armed' /\ PageInStep'
  BY <1>1, <1>6 DEF Served, KernelNeverFaults, Statics, Phases, Armed, ArmedOnlyInItsTest, PageInStep
<1>8. Masking'
  BY <1>1, <1>2 DEF Masking
<1>9. QED BY <1>6, <1>7, <1>8 DEF Served

\* The handler acknowledges what it serves and nothing else, counts it if it
\* was asked for, and has a vector that is not an exception's.
LEMMA DispatchServed ==
    ASSUME Wired, Control, Served, Dispatch PROVE Served'
<1>0. hw \in Chips /\ cpu \in Cpu /\ pc \in [Ctx -> Places] /\ Cur \in Ctx
  BY DEF Wired, Control, Standing, Cpu, Cur
<1>1. pc[Cur] = "irq" /\ stage \in Listening /\ UNCHANGED <<m, run, armed>>
  BY DEF Dispatch, Served, Masking
<1> USE DEF PIC_BASE, IRQ_TIMER, SPURIOUS_MASTER, APIC_SPURIOUS_VECTOR, APIC_TIMER_VECTOR,
            LAPIC_TIMER_VECTOR
<1>2. \/ stage = <<"pic", "wait">> /\ ~hw.on /\ ~irq.using
      \/ stage # <<"pic", "wait">> /\ hw.on /\ irq.using
  <2>1. PicsOnly(<<"pic", "wait">>)
    BY DEF PicsOnly
  <2>2. stage # <<"pic", "wait">> => ApicsOn(stage)
    BY <1>1 DEF Listening, ApicsOn
  <2>3. QED BY <2>1, <2>2 DEF Served, Phases
<1>3. cpu.vector \in 32 .. 255
  <2>1. hw.isr \subseteq 32 .. 254
    BY <1>0 DEF Chips, FirmwareVectors
  <2>2. QED BY <1>1, <2>1 DEF Served, Service
<1>4. /\ pc' = [pc EXCEPT ![Cur] = "acked"] /\ UNCHANGED stage
      /\ IF irq.using THEN dispatch_apic(cpu.vector) ELSE dispatch_pic(cpu.vector)
  BY <1>3 DEF Dispatch
<1>5. cpu' \in {cpu, [cpu EXCEPT !.need = TRUE]}
  BY <1>4 DEF dispatch_apic, dispatch_pic
<1>6. cpu'.cur = Cur /\ pc'[Cur] = "acked"
  BY <1>0, <1>4, <1>5 DEF Cpu, Cur
<1>7. hw'.pisr = {} /\ hw'.isr = {} /\ UNCHANGED <<hw.on, hw.base>>
  <2>1. CASE ~irq.using
    <3>1. ~hw.on /\ dispatch_pic(cpu.vector) /\ hw.isr = {}
      BY <1>2, <1>4, <2>1 DEF Served, Service
    <3>2. CASE hw.pisr = {}
      <4>1. cpu.vector = 39
        BY <1>1, <3>1, <3>2 DEF Served, Service
      <4>2. UNCHANGED hw
        BY <3>1, <3>2, <4>1 DEF dispatch_pic
      <4>3. QED BY <3>1, <3>2, <4>2
    <3>3. CASE hw.pisr # {}
      <4>1. hw.pisr = {0} /\ cpu.vector = 32
        BY <3>1, <3>3 DEF Served, Service
      <4>2. hw' = [hw EXCEPT !.pisr = @ \ {Least(@)}]
        BY <3>1, <4>1 DEF dispatch_pic, PicEoi
      <4>3. Least(hw.pisr) = 0
        BY <4>1, LeastOne
      <4>4. QED BY <1>0, <3>1, <4>1, <4>2, <4>3 DEF Chips
    <3>4. QED BY <3>2, <3>3
  <2>2. CASE irq.using
    <3>1. hw.on /\ dispatch_apic(cpu.vector) /\ hw.pisr = {}
      BY <1>2, <1>4, <2>2 DEF Served, Service
    <3>2. CASE hw.isr = {}
      <4>1. cpu.vector = 255
        BY <1>1, <3>1, <3>2 DEF Served, Service
      <4>2. UNCHANGED hw
        BY <3>1, <4>1 DEF dispatch_apic
      <4>3. QED BY <3>1, <3>2, <4>2
    <3>3. CASE hw.isr # {}
      <4>1. hw.isr = {cpu.vector} /\ hw.isr \in SUBSET FirmwareVectors
        BY <1>0, <3>1, <3>3 DEF Served, Service, Chips
      <4>2. cpu.vector # 255
        BY <4>1 DEF FirmwareVectors
      <4>3. hw' = [hw EXCEPT !.isr = @ \ {Highest(@)}]
        BY <3>1, <3>3, <4>2 DEF dispatch_apic, ApicEoi
      <4>4. Highest(hw.isr) = cpu.vector
        BY <4>1, HighestOne
      <4>5. QED BY <1>0, <3>1, <4>1, <4>3, <4>4 DEF Chips
    <3>4. QED BY <3>2, <3>3
  <2>3. QED BY <2>1, <2>2
<1>8. Statics' /\ UNCHANGED <<irq.using, irq.page>> /\ PageInStep'
  <2>0. Statics /\ PageInStep
    BY DEF Served
  <2>1. CASE ~irq.using
    <3>1. ~irq.page
      <4>1. run = 0
        BY <1>2, <2>1 DEF Control, Order, Machinery
      <4>2. QED BY <2>0, <4>1 DEF PageInStep
    <3>2. irq' \in {irq, Counting(irq)}
      BY <1>4, <2>1 DEF dispatch_pic
    <3>3. QED BY <1>1, <2>0, <3>1, <3>2 DEF Statics, PageInStep, Counting
  <2>2. CASE irq.using
    <3>1. irq' \in {irq, publish_ticks(Counting(irq))}
      BY <1>4, <2>2 DEF dispatch_apic
    <3>2. CASE irq' = irq
      BY <1>1, <2>0, <3>2 DEF Statics, PageInStep
    <3>3. CASE irq' = publish_ticks(Counting(irq))
      <4>1. /\ Counting(irq) = [f \in {"using", "vec", "ticks", "fired", "rate", "count", "page", "clock"} |->
                                  Counting(irq)[f]]
            /\ Counting(irq).using = irq.using /\ Counting(irq).page = irq.page
            /\ Counting(irq).clock = irq.clock
        BY <2>0 DEF Statics, Counting
      <4> HIDE DEF Counting
      <4>2. CASE irq.page
        <5>1. irq' = [Counting(irq) EXCEPT !.clock = Counting(irq).ticks]
          BY <3>3, <4>1, <4>2 DEF publish_ticks
        <5>2. QED BY <1>1, <2>0, <4>1, <4>2, <5>1 DEF Statics, PageInStep
      <4>3. CASE ~irq.page
        <5>1. irq' = Counting(irq)
          BY <3>3, <4>1, <4>3 DEF publish_ticks
        <5>2. QED BY <1>1, <2>0, <4>1, <4>3, <5>1 DEF Statics, PageInStep
      <4>4. QED BY <4>2, <4>3
    <3>4. QED BY <3>1, <3>2, <3>3
  <2>3. QED BY <2>1, <2>2
<1>9. KernelNeverFaults' /\ Phases' /\ Armed'
  BY <1>1, <1>4, <1>7, <1>8 DEF Served, KernelNeverFaults, Phases, Armed, ArmedOnlyInItsTest
<1>10. Masking' /\ Service'
  BY <1>1, <1>4, <1>6, <1>7 DEF Masking, Service, Cur
<1>11. QED BY <1>8, <1>9, <1>10 DEF Served

LEMMA SwitchServed ==
    ASSUME Wired, Control, Control', Served, SwitchStep PROVE Served'
<1>0. cpu \in Cpu /\ pc \in [Ctx -> Places] /\ Cur \in Ctx /\ ret \in Resumes /\ cpu'.cur \in Ctx
  BY DEF Control, Standing, Cpu, Cur
<1>1. ASSUME UNCHANGED <<m, run, hw, irq, armed>>, pc[Cur] # "irq", pc'[cpu'.cur] # "irq",
             stage' \in Listening, ~PicsOnly(stage'), ApicsOn(stage') => ApicsOn(stage),
             Remapped(stage)
      PROVE  Served'
  <2>1. Phases'
    BY <1>1 DEF Served, Phases, Listening
  <2>2. ~armed.on
    BY <1>1 DEF Served, Armed, ArmedOnlyInItsTest, Remapped, FaultTests
  <2>3. KernelNeverFaults' /\ stage'[1] # "touch"
    BY <1>1 DEF KernelNeverFaults, Listening
  <2>4. Armed'
    BY <1>1, <2>2, <2>3 DEF Served, Armed, ArmedOnlyInItsTest
  <2>5. Statics' /\ PageInStep'
    BY <1>1 DEF Served, Statics, PageInStep
  <2>6. Masking' /\ Service'
    BY <1>1 DEF Served, Masking, Service, Cur
  <2>7. QED BY <2>1, <2>3, <2>4, <2>5, <2>6 DEF Served
<1>2. CASE Dispatch
  BY <1>2, DispatchServed
<1>3. CASE Epilogue
  <2>1. pc[Cur] = "acked" /\ UNCHANGED <<m, stage, run, log, hw, irq, armed>>
    BY <1>3 DEF Epilogue, ControlRest
  <2>2. stage \in Listening /\ hw.pisr = {} /\ hw.isr = {}
    BY <2>1 DEF Served, Masking, Service
  <2>3. pc'[cpu'.cur] # "irq"
    <3>1. \A x \in Ctx : pc[x] # "irq"
      BY <2>1, Names DEF Control, OneRuns, Resting
    <3>2. pc' = pc \/ pc' = [pc EXCEPT ![Cur] = ret[Cur]]
      BY <1>3 DEF Epilogue
    <3>3. ret[Cur] # "irq"
      BY <1>0 DEF Resumes
    <3>4. QED BY <1>0, <3>1, <3>2, <3>3
  <2>4. Statics' /\ Phases' /\ KernelNeverFaults' /\ Armed' /\ PageInStep'
    BY <2>1 DEF Served, KernelNeverFaults, Statics, Phases, Armed, ArmedOnlyInItsTest, PageInStep
  <2>5. Masking' /\ Service'
    BY <2>1, <2>2, <2>3 DEF Masking, Service, Cur
  <2>6. QED BY <2>4, <2>5 DEF Served
<1>4. CASE Trampoline \/ StartLoop
  <2>1. Cur # Boot \/ pc[Boot] = "start"
    BY <1>4 DEF Trampoline, StartLoop, Control, OneRuns
  <2>2. stage = <<"run", "go">>
    BY <2>1 DEF Control, Order, Served, KernelNeverFaults, Fault
  <2>3. UNCHANGED <<m, run, hw, irq, armed>> /\ pc[Cur] # "irq" /\ stage' \in {stage, <<"run", "stop">>}
    BY <1>4 DEF Trampoline, StartLoop, ControlRest, Goto
  <2>4. pc'[cpu'.cur] # "irq"
    <3>1. \A x \in Ctx : pc[x] # "irq"
      BY <2>3, Names DEF Control, OneRuns, Resting
    <3>2. pc' = pc \/ \E q \in {"entry", "body"} : pc' = [pc EXCEPT ![Cur] = q]
      BY <1>4 DEF Trampoline, StartLoop
    <3>3. QED BY <1>0, <3>1, <3>2
  <2>5. /\ stage' \in Listening /\ ~PicsOnly(stage') /\ Remapped(stage) /\ ApicsOn(stage)
    BY <2>2, <2>3 DEF Listening, PicsOnly, Remapped, ApicsOn, FaultTests
  <2>6. QED BY <1>1, <2>3, <2>4, <2>5
<1>5. QED BY <1>2, <1>3, <1>4 DEF SwitchStep

LEMMA InitServed == Init => Served
<1> SUFFICES ASSUME Init PROVE Served
  OBVIOUS
<1>1. /\ stage = <<"traps", "init">> /\ pc[Cur] = "body"
  BY Names DEF Init, Cur
<1>2. hw.pisr = {} /\ hw.isr = {}
  BY DEF Init
<1>3. ~cpu.ifl
  BY Zenon DEF Init
<1>4. ~hw.on
  <2>1. PICK pit \in {"off", "rate"} :
          hw = [pit |-> pit, base |-> FIRMWARE_BASE, imr |-> {}, pirr |-> {}, pisr |-> {},
                on |-> FALSE, irr |-> {}, isr |-> {}, lvt |-> "masked",
                io |-> [g \in Gsis |-> FirmwareEntry]]
    BY DEF Init
  <2>2. QED BY <2>1, Zenon
<1>5. ~irq.using
  BY Zenon DEF Init
<1>6. ~irq.page
  BY Zenon DEF Init
<1>7. Statics
  BY DEF Init, Statics
<1>8. ~armed.on
  BY Zenon DEF Init
<1>9. armed \in [on: BOOLEAN, at: Tested, resume: BOOLEAN]
  <2>1. "null" \in Tested
    BY DEF Tested
  <2>2. armed = [on |-> FALSE, at |-> "null", resume |-> FALSE]
    BY DEF Init
  <2>3. QED BY <2>1, <2>2, Zenon
<1>10. Phases
  BY <1>1, <1>4, <1>5 DEF Phases, ApicsOn, Remapped, FaultTests
<1>11. KernelNeverFaults /\ Armed /\ PageInStep
  BY <1>1, <1>6, <1>8, <1>9 DEF KernelNeverFaults, Armed, ArmedOnlyInItsTest, PageInStep
<1>12. Masking /\ Service
  BY <1>1, <1>2, <1>3 DEF Masking, Service
<1>13. QED BY <1>7, <1>10, <1>11, <1>12 DEF Served

LEMMA ServedInductive ==
    Wired /\ Wired' /\ Control /\ Control' /\ Served /\ [Next]_vars => Served'
<1> SUFFICES ASSUME Wired, Wired', Control, Control', Served, [Next]_vars PROVE Served'
  OBVIOUS
<1>0. hw \in Chips
  BY DEF Wired
<1>1. ASSUME UNCHANGED <<m, stage, run, cpu, armed, pc>>, UNCHANGED irq \/ \E n : irq' = [irq EXCEPT !.fired = n],
             UNCHANGED <<hw.on, hw.base, hw.pisr, hw.isr>>
      PROVE  Served'
  <2>1. Statics' /\ UNCHANGED <<irq.using, irq.page, irq.clock, irq.ticks>>
    BY <1>1 DEF Served, Statics
  <2>2. KernelNeverFaults' /\ Phases' /\ Masking' /\ PageInStep'
    BY <1>1, <2>1 DEF Served, KernelNeverFaults, Phases, Masking, PageInStep, Cur
  <2>3. Armed' /\ Service'
    BY <1>1 DEF Served, Armed, ArmedOnlyInItsTest, Service, Cur
  <2>4. QED BY <2>1, <2>2, <2>3 DEF Served
<1>2. CASE PitEdge
  BY <1>0, <1>1, <1>2 DEF PitEdge, Software, tasks, Chips
<1>3. CASE LapicTick
  BY <1>0, <1>1, <1>3 DEF LapicTick, Software, tasks, Chips
<1>4. CASE UNCHANGED vars
  BY <1>1, <1>4 DEF vars, tasks
<1>5. QED BY <1>2, <1>3, <1>4, BootServed, TaskServed, SwitchServed, InterruptServed DEF Next

-----------------------------------------------------------------------------
(* What the self-tests' verdicts rest on: where a pending interrupt comes  *)
(* from, what a tick counted in each test vouches for, and which verdicts  *)
(* kmain has given by when.                                                *)

Origins == hw.pirr \union hw.pisr # {} => m.pit

\* Of the I/O APIC test's vector one request can be pending that firmware's
\* routing raised before mask_all.  It is counted once.
Sound == m.pit /\ m.told = m.wired
AtMostOnce ==
    \/ irq.ticks = 0 /\ ~(APIC_TIMER_VECTOR \in hw.irr /\ APIC_TIMER_VECTOR \in hw.isr)
    \/ irq.ticks = 1 /\ APIC_TIMER_VECTOR \notin hw.irr \union hw.isr

Vouched ==
    /\ irq.ticks \in Nat
    /\ stage = <<"pic", "wait">> => (irq.ticks # 0 => m.pit)
    /\ stage = <<"apic", "wait">> =>
          irq.vec = APIC_TIMER_VECTOR /\ (~Sound => AtMostOnce)

\* The line a test waits on is open, and the timer runs that is waited for.
Coming ==
    /\ stage \in {"timer"} \X {"start", "wait"} => m.speed[1] > 0
    /\ stage = <<"pic", "wait">> => hw.pit = "rate" /\ IRQ_TIMER \notin hw.imr
    /\ stage = <<"apic", "wait">> => hw.pit = "rate"
    /\ stage \in {"apic"} \X {"low", "start", "wait"} => Covers(m.told)
    /\ stage \in {"apic"} \X {"start", "wait"} /\ m.told \in Gsis =>
          hw.io[m.told] = BothHalves(TimerEntry)

Caught == stage \in {"check"} \X {"null", "smap"} => (armed.on <=> ~m.protects)

Given == log.passed \union log.failed
Reports ==
    /\ log = [f \in {"passed", "failed"} |-> log[f]]
    /\ stage # <<"traps", "init">> /\ stage \notin {"arm", "touch", "check"} \X {"guard", "null"}
          => "null" \in Given
    /\ stage[1] \notin FaultTests \union {"pic"} => "pic" \in Given
    /\ run # 0 => "timer" \in Given
    /\ stage[1] \in {"end", "over"} /\ run = 0 => log.failed # {}
    /\ stage = <<"over", "complete">> => log.failed = {}

\* The self-tests of the devices, whose failures have their cause in the machine.
DeviceTests == {"null", "smap", "pic", "acpi", "apic"}
BlamesRightly == \A test \in log.failed \intersect DeviceTests : Cause(test)

Rightly ==
    /\ "null" \in log.passed \/ ("smap" \in log.passed /\ m.smap) => m.protects
    /\ "pic" \in log.passed => m.pit
    /\ "apic" \in log.passed => m.pit /\ m.told = m.wired
    /\ "timer" \in log.passed => m.speed[1] > 0 /\ irq.count > 0
    /\ BlamesRightly

Judging == Origins /\ Vouched /\ Coming /\ Caught /\ Reports /\ Rightly

LEMMA MachineKept == [Next]_vars => UNCHANGED m
<1> SUFFICES ASSUME [Next]_vars PROVE UNCHANGED m
  OBVIOUS
<1>1. CASE BootStep
  <2> USE DEF BootRest
  <2>1. ASSUME NEW x \in Tested, arm_page_fault(x) \/ Touch(x) \/ Check(x) PROVE UNCHANGED m
    BY <2>1 DEF arm_page_fault, Touch, Check
  <2>2. CASE Breakpoint \/ InitPic \/ StartPic \/ StopPic \/ Discover
    BY <2>2 DEF Breakpoint, InitPic, StartPic, StopPic, Discover
  <2>2a. CASE init_apic \/ mask_all
    BY <2>2a DEF init_apic, mask_all
  <2>3. CASE RouteHigh \/ RouteLow \/ StartApic \/ StopApic \/ init_timer
    BY <2>3 DEF RouteHigh, RouteLow, StartApic, StopApic, init_timer
  <2>4. CASE StartTimer \/ StopTimer \/ UserInit \/ Spawn \/ StartTicking
    BY <2>4 DEF StartTimer, StopTimer, UserInit, Spawn, StartTicking
  <2>5. CASE Start \/ StopTicking \/ Finish
    BY <2>5 DEF Start, StopTicking, Finish, ControlRest
  <2>6. QED BY <1>1, <2>1, <2>2, <2>2a, <2>3, <2>4, <2>5 DEF BootStep
<1>2. CASE SwitchStep
  BY <1>2 DEF SwitchStep, Dispatch, Epilogue, Trampoline, StartLoop, ControlRest
<1>3. CASE TaskStep
  BY <1>3, TaskStepKeeps
<1>4. CASE PitEdge \/ LapicTick
  BY <1>4 DEF PitEdge, LapicTick, Software
<1>5. CASE PicInterrupt \/ ApicInterrupt \/ Spurious
  BY <1>5 DEF PicInterrupt, ApicInterrupt, Spurious, TrapIn
<1>6. CASE UNCHANGED vars
  BY <1>6 DEF vars
<1>7. QED BY <1>1, <1>2, <1>3, <1>4, <1>5, <1>6 DEF Next

\* What a machine is said to be, is or is not so.
LEMMA MachineTruths ==
    ASSUME NEW x \in Machines
    PROVE  /\ x.protects \in BOOLEAN /\ x.smap \in BOOLEAN /\ x.patient \in BOOLEAN
           /\ x.pit \in BOOLEAN /\ x.madt \in BOOLEAN /\ x.lapic \in BOOLEAN
           /\ x.told \in Nat /\ x.wired \in Gsis /\ x.ioapic \in Nat
BY EntryConstants, Zenon

LEMMA OriginsKept ==
    ASSUME Origins, UNCHANGED m,
           hw'.pirr \union hw'.pisr \subseteq hw.pirr \union hw.pisr
    PROVE  Origins'
BY DEF Origins

LEMMA CauseKept ==
    ASSUME UNCHANGED m, NEW test \in DeviceTests
    PROVE  Cause(test)' <=> Cause(test)
BY DEF Cause, DeviceTests, Covers

\* What a verdict adds to the log.
LEMMA Verdicts ==
    ASSUME Reports, NEW test, NEW ok \in BOOLEAN, Verdict(test, ok)
    PROVE  /\ log' = [f \in {"passed", "failed"} |-> log'[f]]
           /\ log'.passed = IF ok THEN log.passed \union {test} ELSE log.passed
           /\ log'.failed = IF ok THEN log.failed ELSE log.failed \union {test}
BY DEF Reports, Verdict

\* A verdict that is right keeps all of them right.
LEMMA VerdictRight ==
    ASSUME Reports, Rightly, UNCHANGED m, NEW test, NEW ok \in BOOLEAN, Verdict(test, ok),
           test \in DeviceTests => (~ok => Cause(test)),
           ok => /\ test = "null" \/ (test = "smap" /\ m.smap) => m.protects
                 /\ test = "pic" => m.pit
                 /\ test = "apic" => m.pit /\ m.told = m.wired
                 /\ test = "timer" => m.speed[1] > 0 /\ irq'.count > 0,
           "timer" \in log.passed => irq'.count > 0
    PROVE  Rightly'
<1>1. /\ log'.passed = IF ok THEN log.passed \union {test} ELSE log.passed
      /\ log'.failed = IF ok THEN log.failed ELSE log.failed \union {test}
  BY Verdicts
<1>2. BlamesRightly'
  <2>1. ASSUME NEW x \in log'.failed \intersect DeviceTests PROVE Cause(x)'
    <3>1. Cause(x)
      BY <1>1, <2>1 DEF Rightly, BlamesRightly
    <3>2. QED BY <2>1, <3>1, CauseKept
  <2>2. QED BY <2>1 DEF BlamesRightly
<1>3. QED BY <1>1, <1>2 DEF Rightly

LEMMA RightlyKept ==
    ASSUME Rightly, UNCHANGED m, log'.passed = log.passed,
           log'.failed \intersect DeviceTests \subseteq log.failed,
           "timer" \in log.passed => irq'.count > 0
    PROVE  Rightly'
<1>1. BlamesRightly'
  <2>1. ASSUME NEW x \in log'.failed \intersect DeviceTests PROVE Cause(x)'
    BY <2>1, CauseKept DEF Rightly, BlamesRightly
  <2>2. QED BY <2>1 DEF BlamesRightly
<1>2. QED BY <1>1 DEF Rightly

\* A step of kmain to a stage where no test waits.
Waiting ==
    {<<"pic", "wait">>, <<"timer", "start">>, <<"timer", "wait">>} \union ({"apic"} \X {"low", "start", "wait"})
       \union ({"check"} \X {"null", "smap"})
LEMMA JudgesOn ==
    ASSUME Judging, UNCHANGED m, hw'.pirr \union hw'.pisr \subseteq hw.pirr \union hw.pisr,
           irq'.ticks \in Nat, stage' \notin Waiting, Reports', Rightly'
    PROVE  Judging'
<1>1. Origins'
  BY OriginsKept DEF Judging
<1>2. Vouched' /\ Coming' /\ Caught'
  BY DEF Vouched, Coming, Caught, Waiting
<1>3. QED BY <1>1, <1>2 DEF Judging

\* The entry selftest_apic reads back is the one it wrote.
LEMMA ReadsBack ==
    ASSUME m \in Machines
    PROVE  from_bits(BothHalves(TimerEntry).low, BothHalves(TimerEntry).high) = TimerEntry
BY RoundTrip, TimerEntryType DEF BothHalves, Redirection

\* Only the 8254 on the line the MADT told of reaches the test's vector.
LEMMA ForwardedIs ==
    ASSUME Wired, irq.using
    PROVE  /\ Forwarded(m.wired) \subseteq {APIC_TIMER_VECTOR}
           /\ Forwarded(m.wired) # {} => m.told = m.wired
<1> DEFINE e == from_bits(hw.io[m.wired].low, hw.io[m.wired].high)
<1>1. m.wired \in Gsis /\ m \in Machines
  BY MachineTruths DEF Wired
<1>2. m.wired < m.ioapic /\ ~e.masked => e = TimerEntry
  BY <1>1, WiredRoutes DEF RoutedAsAsked
<1>3. ~e.masked => ~Silent(hw.io[m.wired])
  BY DEF from_bits, Silent
<1>4. m.wired < m.ioapic /\ ~e.masked => e.vector = APIC_TIMER_VECTOR /\ m.told = m.wired
  BY <1>1, <1>2, <1>3, TimerEntryType DEF Wired, Routing, Pins
<1>5. Forwarded(m.wired) # {} =>
         m.wired < m.ioapic /\ ~e.masked /\ Forwarded(m.wired) = {e.vector}
  BY DEF Forwarded
<1> HIDE DEF e
<1>6. QED BY <1>4, <1>5

\* And it does, as long as the entry stands.
LEMMA ForwardedSome ==
    ASSUME Wired, hw.on, m.told = m.wired, Covers(m.told), hw.io[m.told] = BothHalves(TimerEntry)
    PROVE  Forwarded(m.wired) # {}
<1>1. from_bits(hw.io[m.wired].low, hw.io[m.wired].high) = TimerEntry
  BY ReadsBack DEF Wired
<1>2. ~TimerEntry.masked /\ TimerEntry.destination = m.id
  BY TimerEntryType DEF Wired, TimerEntry
<1>3. QED BY <1>1, <1>2 DEF Forwarded, Covers

\* The page faults taken on purpose are told from those that were not.
LEMMA TouchCatches ==
    ASSUME Served, m \in Machines, NEW x \in Tested, Touch(x)
    PROVE  stage' = <<"check", x>> /\ (x # "guard" => (armed'.on <=> ~m.protects))
<1>0. armed \in [on: BOOLEAN, at: Tested, resume: BOOLEAN] /\ m.protects \in BOOLEAN
  BY MachineTruths DEF Served, Armed
<1>1. stage = <<"touch", x>> /\ armed.on /\ armed.at = x
  BY DEF Touch, At, Served, Armed
<1> DEFINE a == [armed EXCEPT !.resume = TRUE]
<1>2. a.at = x /\ a.on = armed.on
  BY <1>0, <1>1
<1>3. a.resume = TRUE
  <2>1. \A b \in BOOLEAN : [armed EXCEPT !.resume = b].resume = b
    BY <1>0
  <2>2. QED BY <2>1, Zenon
<1>4. a.on /\ a.resume
  BY <1>1, <1>2, <1>3, Zenon
<1>5. /\ stage' = <<"check", x>>
      /\ x # "guard" =>
            armed' = IF m.protects THEN [a EXCEPT !.on = FALSE, !.resume = FALSE] ELSE a
  BY <1>2, <1>4 DEF Touch, Outcome, Expected, Goto
<1>6. ~[a EXCEPT !.on = FALSE, !.resume = FALSE].on
  <2> HIDE DEF a
  <2>1. DOMAIN a = {"on", "at", "resume"}
    BY <1>0 DEF a
  <2>2. \A b \in BOOLEAN : [a EXCEPT !.on = b, !.resume = b].on = b
    BY <2>1
  <2>3. [a EXCEPT !.on = FALSE, !.resume = FALSE].on = FALSE
    BY <2>2, Zenon
  <2>4. QED BY <2>3, Zenon
<1> HIDE DEF a
<1>7. QED BY <1>0, <1>4, <1>5, <1>6

LEMMA FaultTestsJudge ==
    ASSUME Wired, Control, Served, Judging, UNCHANGED m, NEW x \in Tested,
           arm_page_fault(x) \/ Touch(x) \/ Check(x)
    PROVE  Judging'
<1> USE DEF At, Goto
<1>0. m \in Machines /\ m.protects \in BOOLEAN /\ m.smap \in BOOLEAN
  BY MachineTruths DEF Wired
<1>1. UNCHANGED <<hw, irq, run>> /\ irq'.ticks \in Nat
  BY DEF arm_page_fault, Touch, Check, Judging, Vouched
<1>2. run = 0 /\ x \in {"guard", "null", "smap"}
  <2>1. stage \in {<<"arm", x>>, <<"touch", x>>, <<"check", x>>}
    BY Zenon DEF arm_page_fault, Touch, Check
  <2>2. stage[1] \in Machinery
    BY <2>1 DEF Machinery
  <2>3. QED BY <2>2 DEF Control, Order, Tested
<1>3. "timer" \in log.passed => irq'.count > 0
  BY <1>1 DEF Judging, Rightly
<1>4. CASE arm_page_fault(x)
  <2>1. stage = <<"arm", x>>
    BY <1>4 DEF arm_page_fault
  <2>2. CASE x = "smap" /\ ~m.smap
    <3>1. stage' = <<"pic", "init">> /\ Verdict(x, TRUE)
      BY <1>4, <2>2 DEF arm_page_fault, AfterTest
    <3>2. Rightly'
      BY <1>3, <2>2, <3>1, VerdictRight DEF Judging
    <3>3. /\ log' = [f \in {"passed", "failed"} |-> log'[f]]
          /\ log'.passed = log.passed \union {x} /\ log'.failed = log.failed
      BY <3>1, Verdicts DEF Judging
    <3>4. Reports'
      BY <1>1, <1>2, <2>1, <2>2, <3>1, <3>3 DEF Judging, Reports, Given, FaultTests
    <3>5. QED BY <1>1, <3>1, <3>2, <3>4, JudgesOn DEF Waiting
  <2>3. CASE ~(x = "smap" /\ ~m.smap)
    <3>1. stage' = <<"touch", x>> /\ UNCHANGED log
      BY <1>4, <2>3 DEF arm_page_fault
    <3>2. Rightly'
      BY <1>3, <3>1, RightlyKept DEF Judging
    <3>3. Reports'
      BY <1>1, <1>2, <2>1, <3>1 DEF Judging, Reports, Given, FaultTests
    <3>4. QED BY <1>1, <3>1, <3>2, <3>3, JudgesOn DEF Waiting
  <2>4. QED BY <2>2, <2>3
<1>5. CASE Touch(x)
  <2>1. stage = <<"touch", x>> /\ UNCHANGED log
    BY <1>5 DEF Touch
  <2>2. stage' = <<"check", x>> /\ (x # "guard" => (armed'.on <=> ~m.protects))
    BY <1>0, <1>5, TouchCatches
  <2>3. Rightly'
    BY <1>3, <2>1, RightlyKept DEF Judging
  <2>4. Reports'
    BY <1>1, <1>2, <2>1, <2>2 DEF Judging, Reports, Given, FaultTests
  <2>5. Origins'
    BY <1>1, OriginsKept DEF Judging
  <2>6. Vouched' /\ Coming' /\ Caught'
    BY <1>1, <2>2 DEF Vouched, Coming, Caught
  <2>7. QED BY <2>3, <2>4, <2>5, <2>6 DEF Judging
<1>6. CASE Check(x)
  <2>1. stage = <<"check", x>> /\ stage' = AfterTest(x)
    BY <1>6 DEF Check
  <2>2. CASE x = "guard"
    <3>1. stage' = <<"arm", "null">> /\ UNCHANGED log
      BY <1>6, <2>2 DEF Check, AfterTest
    <3>2. Rightly'
      BY <1>3, <3>1, RightlyKept DEF Judging
    <3>3. Reports'
      BY <1>1, <1>2, <2>1, <3>1 DEF Judging, Reports, Given, FaultTests
    <3>4. QED BY <1>1, <3>1, <3>2, <3>3, JudgesOn DEF Waiting
  <2>3. CASE x # "guard"
    <3> DEFINE ok == ~armed.on
    <3>1. Verdict(x, ok) /\ stage' \in {<<"arm", "smap">>, <<"pic", "init">>}
          /\ (stage' = <<"pic", "init">> => x = "smap")
      BY <1>2, <1>6, <2>3 DEF Check, AfterTest
    <3>2. ok <=> m.protects
      BY <1>0, <1>2, <2>1, <2>3 DEF Judging, Caught
    <3>3. ok \in BOOLEAN
      BY Zenon
    <3> HIDE DEF ok
    <3>4. ~ok => Cause(x)
      BY <1>2, <2>3, <3>2 DEF Cause
    <3>5. Rightly'
      BY <1>2, <1>3, <2>3, <3>1, <3>2, <3>3, <3>4, VerdictRight DEF Judging
    <3>6. /\ log' = [f \in {"passed", "failed"} |-> log'[f]]
          /\ log'.passed \union log'.failed = log.passed \union log.failed \union {x}
      BY <3>1, <3>3, Verdicts DEF Judging
    <3>7. Reports'
      BY <1>1, <1>2, <2>1, <2>3, <3>1, <3>6 DEF Judging, Reports, Given, FaultTests
    <3>8. QED BY <1>1, <3>1, <3>5, <3>7, JudgesOn DEF Waiting
  <2>4. QED BY <2>2, <2>3
<1>7. QED BY <1>4, <1>5, <1>6

\* The waits on the 8254: a test that counted enough had the line it names,
\* and one that ran out of patience on a patient host had none.
LEMMA WaitsJudge ==
    ASSUME Wired, Control, Served, Judging, UNCHANGED m, StopPic \/ StopApic
    PROVE  Judging'
<1> USE DEF At, Goto, BootRest
<1>0. /\ hw \in Chips /\ m \in Machines /\ irq.ticks \in Nat
      /\ SelftestTicks \in Nat /\ 1 < SelftestTicks
      /\ m.pit \in BOOLEAN /\ m.patient \in BOOLEAN
  BY MachineTruths, EntryConstants DEF Wired, Judging, Vouched
<1>1. Cur = Boot /\ pc[Boot] = "body" /\ UNCHANGED <<irq, run>> /\ (Enough \/ OutOfPatience)
  BY DEF StopPic, StopApic
<1>2. hw.pisr = {} /\ hw.isr = {}
  BY <1>1 DEF Served, Service
<1>3. Enough => irq.ticks # 0
  BY <1>0 DEF Enough
<1>4. Enough \in BOOLEAN
  BY <1>0, SMT DEF Enough
<1>5. "timer" \in log.passed => irq'.count > 0
  BY <1>1 DEF Judging, Rightly
<1>6. CASE StopPic
  <2>1. stage = <<"pic", "wait">> /\ stage' = <<"acpi", "init">> /\ Verdict("pic", Enough)
    BY <1>6 DEF StopPic
  <2>2. UNCHANGED <<hw.pirr, hw.pisr, hw.irr, hw.isr>>
    BY <1>0, <1>6 DEF StopPic, Chips
  <2>3. Enough => m.pit
    BY <1>3, <2>1 DEF Judging, Vouched
  <2>4. ~Enough => Cause("pic")
    <3>1. ~hw.on
      BY <2>1 DEF Served, Phases, PicsOnly
    <3>2. m.pit => TickComing
      BY <1>2, <2>1, <3>1 DEF TickComing, Judging, Coming
    <3>3. QED BY <1>0, <1>1, <3>2 DEF OutOfPatience, Cause
  <2>5. Rightly'
    BY <1>4, <1>5, <2>1, <2>3, <2>4, VerdictRight DEF Judging
  <2>6. /\ log' = [f \in {"passed", "failed"} |-> log'[f]]
        /\ log'.passed \union log'.failed = log.passed \union log.failed \union {"pic"}
    BY <1>4, <2>1, Verdicts DEF Judging
  <2>7. run = 0
    BY <2>1 DEF Control, Order, Machinery
  <2>8. Reports'
    BY <1>1, <2>1, <2>6, <2>7 DEF Judging, Reports, Given, FaultTests
  <2>9. QED BY <1>0, <1>1, <2>1, <2>2, <2>5, <2>8, JudgesOn DEF Waiting
<1>7. CASE StopApic
  <2>1. stage = <<"apic", "wait">> /\ stage' = <<"timer", "init">> /\ Verdict("apic", Enough)
    BY <1>7 DEF StopApic
  <2>2. UNCHANGED <<hw.pirr, hw.pisr, hw.irr, hw.isr>>
    BY <1>0, <1>7 DEF StopApic, Chips
  <2>3. Enough => m.pit /\ m.told = m.wired
    <3>1. AtMostOnce => ~Enough
      BY <1>0 DEF AtMostOnce, Enough
    <3>2. QED BY <2>1, <3>1 DEF Judging, Vouched, Sound
  <2>4. ~Enough => Cause("apic")
    <3>1. hw.on
      BY <2>1 DEF Served, Phases, ApicsOn
    <3>2. Covers(m.told) /\ (m.told \in Gsis => hw.io[m.told] = BothHalves(TimerEntry))
          /\ hw.pit = "rate"
      BY <2>1 DEF Judging, Coming
    <3>3. m.told = m.wired => Forwarded(m.wired) # {}
      BY <1>0, <3>1, <3>2, ForwardedSome, MachineTruths
    <3>4. m.pit /\ m.told = m.wired => TickComing
      BY <1>2, <3>1, <3>2, <3>3 DEF TickComing
    <3>5. QED BY <1>0, <1>1, <3>4 DEF OutOfPatience, Cause
  <2>5. Rightly'
    BY <1>4, <1>5, <2>1, <2>3, <2>4, VerdictRight DEF Judging
  <2>6. /\ log' = [f \in {"passed", "failed"} |-> log'[f]]
        /\ log'.passed \union log'.failed = log.passed \union log.failed \union {"apic"}
    BY <1>4, <2>1, Verdicts DEF Judging
  <2>7. run = 0
    BY <2>1 DEF Control, Order, Machinery
  <2>8. Reports'
    BY <1>1, <2>1, <2>6, <2>7 DEF Judging, Reports, Given, FaultTests
  <2>9. QED BY <1>0, <1>1, <2>1, <2>2, <2>5, <2>8, JudgesOn DEF Waiting
<1>8. QED BY <1>6, <1>7

\* A local APIC's timer that stands still is found out by its calibration.
LEMMA CalibrationHears ==
    ASSUME m \in Machines, init_timer
    PROVE  stage' = <<"timer", "start">> => m.speed[1] > 0
<1> SUFFICES ASSUME stage' = <<"timer", "start">>, ~(m.speed[1] > 0) PROVE FALSE
  OBVIOUS
<1> DEFINE h == m.clock
<1>1. /\ m.speed[1] \in Nat /\ m.speed[2] \in Nat \ {0}
      /\ h \in [period_fs : Nat, counter_64bit : BOOLEAN] /\ m.at \in 0 .. WrapOf(h) - 1
  BY EntryConstants, Zenon
<1>2. /\ WrapOf(h) \in Nat \ {0} /\ CountMax \in Nat /\ FsPerNs \in Nat
      /\ CalibrationNs \in Nat /\ MaxPeriod \in Nat
  BY TimerConstants DEF WrapOf
<1>3. Decodes(h)
  BY DEF init_timer, Goto
<1>4. PICK e \in Jitter, d \in Jitter, s \in Jitter :
        LET from == After(h, m.at, e)
            read == After(h, from, ns_to_ticks(h, CalibrationNs) + d)
        IN  Measure(h, m.speed, m.at, from, read, After(h, read, s)) # 0
  BY DEF init_timer, Goto
<1> DEFINE from == After(h, m.at, e)
           read == After(h, from, ns_to_ticks(h, CalibrationNs) + d)
           t == elapsed(h, m.at, read)
<1> HIDE DEF h
<1>5. ns_to_ticks(h, CalibrationNs) \in Int
  <2>1. h.period_fs \in Nat \ {0}
    BY <1>1, <1>2, <1>3 DEF Decodes
  <2>2. CalibrationNs * FsPerNs \in Nat
    BY <1>2
  <2>3. QED BY <2>1, <2>2 DEF ns_to_ticks
<1>6. m.at \in Int /\ e \in Int /\ d \in Int
  BY <1>1, <1>2 DEF Jitter
<1>7. from \in Int
  BY <1>2, <1>6 DEF After
<1> HIDE DEF from
<1>8. read \in Int
  BY <1>2, <1>5, <1>6, <1>7 DEF After
<1> HIDE DEF read
<1>9. t \in Int
  BY <1>2, <1>6, <1>8 DEF elapsed
<1>10. m.speed[1] = 0
  BY <1>1
<1>11. ApicTicks(m.speed, t) = 0
  <2> HIDE DEF t
  <2>1. t * 0 = 0 /\ 0 \div m.speed[2] = 0
    BY <1>1, <1>9
  <2>2. QED BY <1>10, <2>1 DEF ApicTicks
<1>12. Counted(m.speed, t) = 0
  BY <1>2, <1>11 DEF Counted
<1>13. Measure(h, m.speed, m.at, from, read, After(h, read, s)) = 0
  BY <1>12 DEF Measure
<1>14. QED BY <1>4, <1>13 DEF from, read

LEMMA BootJudges ==
    ASSUME Wired, Control, Served, Judging, UNCHANGED m, BootStep PROVE Judging'
<1> USE DEF At, Goto, BootRest, tasks
<1>0. /\ hw \in Chips /\ m \in Machines /\ Statics /\ irq.ticks \in Nat /\ run \in 0 .. 4
      /\ m.lapic \in BOOLEAN /\ m.told \in Nat /\ m.ioapic \in Nat /\ m.madt \in BOOLEAN
      /\ Origins /\ Reports /\ Rightly
      /\ ("timer" \in log.passed => irq.count > 0)
      /\ (stage[1] \in Machinery => run = 0)
  BY MachineTruths DEF Wired, Served, Control, Standing, Order, Judging, Vouched, Rightly
<1>a. ASSUME UNCHANGED <<hw, irq, log, run>>, stage' \notin Waiting, Reports' PROVE Judging'
  <2>1. Rightly'
    BY <1>0, <1>a, RightlyKept
  <2>2. QED BY <1>0, <1>a, <2>1, JudgesOn
<1> USE DEF FaultTests, Given
<1>1. CASE Breakpoint
  <2>1. stage = <<"traps", "init">> /\ stage' = <<"arm", "guard">> /\ UNCHANGED <<hw, irq, log, run>>
    BY <1>1 DEF Breakpoint, Outcome
  <2>2. Reports' /\ stage' \notin Waiting
    BY <1>0, <2>1 DEF Reports, Waiting, Machinery
  <2>3. QED BY <1>a, <2>1, <2>2
<1>2. ASSUME NEW x \in Tested, arm_page_fault(x) \/ Touch(x) \/ Check(x) PROVE Judging'
  BY <1>2, FaultTestsJudge
<1>3. CASE InitPic
  <2>1. stage = <<"pic", "init">> /\ stage' = <<"pic", "start">> /\ UNCHANGED <<irq, log, run>>
    BY <1>3 DEF InitPic
  <2>2. hw'.pirr = {} /\ hw'.pisr = {} /\ UNCHANGED <<hw.irr, hw.isr>>
    BY <1>0, <1>3 DEF InitPic, Chips
  <2>3. Reports' /\ stage' \notin Waiting
    BY <1>0, <2>1 DEF Reports, Waiting, Machinery
  <2>4. Rightly'
    BY <1>0, <2>1, RightlyKept
  <2>5. QED BY <1>0, <2>1, <2>2, <2>3, <2>4, JudgesOn
<1>4. CASE StartPic
  <2>1. /\ stage = <<"pic", "start">> /\ stage' = <<"pic", "wait">> /\ UNCHANGED <<log, run>>
        /\ irq' = Restarted(irq, irq.vec)
    BY <1>4 DEF StartPic
  <2>2. irq'.ticks = 0 /\ irq'.count = irq.count
    BY <1>0, <2>1 DEF Restarted, Statics
  <2>3. /\ UNCHANGED <<hw.pirr, hw.pisr, hw.irr, hw.isr>>
        /\ hw'.pit = "rate" /\ IRQ_TIMER \notin hw'.imr
    BY <1>0, <1>4 DEF StartPic, Chips
  <2>4. Origins' /\ Rightly'
    BY <1>0, <2>1, <2>2, <2>3, OriginsKept, RightlyKept
  <2>5. Vouched' /\ Coming' /\ Caught'
    BY <2>1, <2>2, <2>3 DEF Vouched, Coming, Caught
  <2>6. Reports'
    BY <1>0, <2>1 DEF Reports, Machinery
  <2>7. QED BY <2>4, <2>5, <2>6 DEF Judging
<1>5. CASE StopPic \/ StopApic
  BY <1>5, WaitsJudge
<1>6. CASE Discover
  <2>1. stage = <<"acpi", "init">> /\ UNCHANGED <<hw, irq, run>>
    BY <1>6 DEF Discover
  <2>2. CASE m.madt
    <3>1. stage' = <<"apic", "init">> /\ UNCHANGED log
      BY <1>6, <2>2 DEF Discover
    <3>2. Reports' /\ stage' \notin Waiting
      BY <1>0, <2>1, <3>1 DEF Reports, Waiting, Machinery
    <3>3. QED BY <1>a, <2>1, <3>1, <3>2
  <2>3. CASE ~m.madt
    <3>1. stage' = <<"end", "tests">> /\ Verdict("acpi", FALSE)
      BY <1>6, <2>3 DEF Discover
    <3>2. Rightly'
      <4>1. Cause("acpi")
        BY <2>3 DEF Cause
      <4>2. QED BY <1>0, <2>1, <3>1, <4>1, VerdictRight
    <3>3. /\ log' = [f \in {"passed", "failed"} |-> log'[f]]
          /\ log'.passed = log.passed /\ log'.failed = log.failed \union {"acpi"}
      BY <1>0, <3>1, Verdicts
    <3>4. Reports' /\ stage' \notin Waiting
      BY <1>0, <2>1, <3>1, <3>3 DEF Reports, Waiting, Machinery
    <3>5. QED BY <1>0, <2>1, <3>2, <3>4, JudgesOn
  <2>4. QED BY <2>2, <2>3
<1>7. CASE init_apic
  <2>1. stage = <<"apic", "init">> /\ UNCHANGED <<run, irq>>
    BY <1>7 DEF init_apic
  <2>2. UNCHANGED <<hw.pirr, hw.pisr>>
    BY <1>0, <1>7 DEF init_apic, Chips
  <2>3. irq'.ticks = irq.ticks /\ irq'.count = irq.count
    BY <2>1
  <2>4. CASE m.lapic
    <3>1. stage' = <<"apic", "mask">> /\ UNCHANGED log
      BY <1>7, <2>4 DEF init_apic
    <3>2. Reports' /\ stage' \notin Waiting
      BY <1>0, <2>1, <3>1 DEF Reports, Waiting, Machinery
    <3>3. Rightly'
      BY <1>0, <2>3, <3>1, RightlyKept
    <3>4. QED BY <1>0, <2>2, <2>3, <3>2, <3>3, JudgesOn
  <2>5. CASE ~m.lapic
    <3>1. stage' = <<"end", "tests">> /\ Verdict("apic", FALSE)
      BY <1>7, <2>5 DEF init_apic
    <3>2. Cause("apic")
      BY <2>5 DEF Cause
    <3>3. Rightly'
      BY <1>0, <2>3, <3>1, <3>2, VerdictRight
    <3>4. /\ log' = [f \in {"passed", "failed"} |-> log'[f]]
          /\ log'.passed = log.passed /\ log'.failed = log.failed \union {"apic"}
      BY <1>0, <3>1, Verdicts
    <3>5. Reports' /\ stage' \notin Waiting
      BY <1>0, <2>1, <3>1, <3>4 DEF Reports, Waiting, Machinery
    <3>6. QED BY <1>0, <2>2, <2>3, <3>3, <3>5, JudgesOn
  <2>6. QED BY <2>4, <2>5
<1>7a. CASE mask_all
  <2>1. /\ stage = <<"apic", "mask">> /\ UNCHANGED run
        /\ UNCHANGED irq \/ irq' = [irq EXCEPT !.using = TRUE]
    BY <1>7a DEF mask_all
  <2>2. UNCHANGED <<hw.pirr, hw.pisr>>
    BY <1>0, <1>7a DEF mask_all, Chips
  <2>3. irq'.ticks = irq.ticks /\ irq'.count = irq.count
    BY <1>0, <2>1 DEF Statics
  <2>4. CASE m.ioapic > 0
    <3>1. stage' = <<"apic", "route">> /\ UNCHANGED log
      BY <1>7a, <2>4 DEF mask_all
    <3>2. Reports' /\ stage' \notin Waiting
      BY <1>0, <2>1, <3>1 DEF Reports, Waiting, Machinery
    <3>3. Rightly'
      BY <1>0, <2>3, <3>1, RightlyKept
    <3>4. QED BY <1>0, <2>2, <2>3, <3>2, <3>3, JudgesOn
  <2>5. CASE ~(m.ioapic > 0)
    <3>1. stage' = <<"end", "tests">> /\ Verdict("apic", FALSE)
      BY <1>7a, <2>5 DEF mask_all
    <3>2. Cause("apic")
      <4>1. ~Covers(m.told)
        BY <1>0, <2>5 DEF Covers
      <4>2. QED BY <4>1 DEF Cause
    <3>3. Rightly'
      BY <1>0, <2>3, <3>1, <3>2, VerdictRight
    <3>4. /\ log' = [f \in {"passed", "failed"} |-> log'[f]]
          /\ log'.passed = log.passed /\ log'.failed = log.failed \union {"apic"}
      BY <1>0, <3>1, Verdicts
    <3>5. Reports' /\ stage' \notin Waiting
      BY <1>0, <2>1, <3>1, <3>4 DEF Reports, Waiting, Machinery
    <3>6. QED BY <1>0, <2>2, <2>3, <3>3, <3>5, JudgesOn
  <2>6. QED BY <2>4, <2>5
<1>8. CASE RouteHigh
  <2>1. stage = <<"apic", "route">> /\ UNCHANGED <<irq, run>>
    BY <1>8 DEF RouteHigh
  <2>2. UNCHANGED <<hw.pirr, hw.pisr, hw.irr, hw.isr>>
    BY <1>0, <1>8 DEF RouteHigh, Chips
  <2>3. CASE Covers(m.told)
    <3>1. stage' = <<"apic", "low">> /\ UNCHANGED log
      BY <1>8, <2>3 DEF RouteHigh
    <3>2. Reports'
      BY <1>0, <2>1, <3>1 DEF Reports, Machinery
    <3>3. Origins' /\ Rightly'
      BY <1>0, <2>1, <2>2, <3>1, OriginsKept, RightlyKept
    <3>4. Vouched' /\ Coming' /\ Caught'
      BY <1>0, <2>1, <2>3, <3>1 DEF Vouched, Coming, Caught, Covers
    <3>5. QED BY <3>2, <3>3, <3>4 DEF Judging
  <2>4. CASE ~Covers(m.told)
    <3>1. stage' = <<"timer", "init">> /\ Verdict("apic", FALSE)
      BY <1>8, <2>4 DEF RouteHigh
    <3>2. Cause("apic")
      BY <2>4 DEF Cause
    <3>3. Rightly'
      BY <1>0, <2>1, <3>1, <3>2, VerdictRight
    <3>4. /\ log' = [f \in {"passed", "failed"} |-> log'[f]]
          /\ log'.passed = log.passed /\ log'.failed = log.failed \union {"apic"}
      BY <1>0, <3>1, Verdicts
    <3>5. Reports' /\ stage' \notin Waiting
      BY <1>0, <2>1, <3>1, <3>4 DEF Reports, Waiting, Machinery
    <3>6. QED BY <1>0, <2>1, <2>2, <3>3, <3>5, JudgesOn
  <2>5. QED BY <2>3, <2>4
<1>9. CASE RouteLow
  <2>1. /\ stage = <<"apic", "low">> /\ UNCHANGED <<irq, run, log>> /\ stage' = <<"apic", "start">>
        /\ hw' = [hw EXCEPT !.io[m.told] = BothHalves(TimerEntry)]
    BY <1>0, <1>9, ReadsBack DEF RouteLow
  <2>2. /\ UNCHANGED <<hw.pirr, hw.pisr, hw.irr, hw.isr>>
        /\ m.told \in Gsis => hw'.io[m.told] = BothHalves(TimerEntry)
    BY <1>0, <2>1 DEF Chips
  <2>3. Covers(m.told)
    BY <2>1 DEF Judging, Coming
  <2>4. Reports'
    BY <1>0, <2>1 DEF Reports, Machinery
  <2>5. Origins' /\ Rightly'
    BY <1>0, <2>1, <2>2, OriginsKept, RightlyKept
  <2>6. Vouched' /\ Coming' /\ Caught'
    BY <1>0, <2>1, <2>2, <2>3 DEF Vouched, Coming, Caught, Covers, TimerEntry
  <2>7. QED BY <2>4, <2>5, <2>6 DEF Judging
<1>10. CASE StartApic
  <2>1. /\ stage = <<"apic", "start">> /\ stage' = <<"apic", "wait">> /\ UNCHANGED <<run, log>>
        /\ irq' = Restarted(irq, APIC_TIMER_VECTOR)
    BY <1>10 DEF StartApic
  <2>2. irq'.ticks = 0 /\ irq'.count = irq.count /\ irq'.vec = APIC_TIMER_VECTOR
    BY <1>0, <2>1 DEF Restarted, Statics
  <2>3. UNCHANGED <<hw.pirr, hw.pisr, hw.irr, hw.isr, hw.io>> /\ hw'.pit = "rate"
    BY <1>0, <1>10 DEF StartApic, Chips
  <2>4. Reports'
    BY <1>0, <2>1 DEF Reports, Machinery
  <2>5. Origins' /\ Rightly'
    BY <1>0, <2>1, <2>2, <2>3, OriginsKept, RightlyKept
  <2>6. Covers(m.told) /\ (m.told \in Gsis => hw.io[m.told] = BothHalves(TimerEntry))
    BY <2>1 DEF Judging, Coming
  <2>6a. AtMostOnce'
    <3>1. hw.isr = {}
      BY <1>10, BootKeepsHome DEF BootStep, Served, Service
    <3>2. QED BY <2>2, <2>3, <3>1 DEF AtMostOnce
  <2>7. Vouched' /\ Coming' /\ Caught'
    BY <2>1, <2>2, <2>3, <2>6, <2>6a DEF Vouched, Coming, Caught, Covers, TimerEntry
  <2>8. QED BY <2>4, <2>5, <2>7 DEF Judging
<1>11. CASE init_timer
  <2>1. /\ stage = <<"timer", "init">> /\ UNCHANGED <<run, hw>>
        /\ \/ stage' = <<"timer", "start">> /\ UNCHANGED log
           \/ stage' = <<"end", "tests">> /\ Verdict("clock", FALSE)
    BY <1>11 DEF init_timer
  <2>2. irq' = irq \/ \E r : irq' = [irq EXCEPT !.rate = r]
    BY <1>11 DEF init_timer
  <2>3. irq'.ticks = irq.ticks /\ irq'.count = irq.count
    BY <1>0, <2>2 DEF Statics
  <2>4. stage' = <<"timer", "start">> => m.speed[1] > 0
    BY <1>0, <1>11, CalibrationHears
  <2>5. CASE stage' = <<"timer", "start">> /\ UNCHANGED log
    <3>1. Reports'
      BY <1>0, <2>1, <2>5 DEF Reports, Machinery
    <3>2. Origins' /\ Rightly'
      BY <1>0, <2>1, <2>3, <2>5, OriginsKept, RightlyKept
    <3>3. Vouched' /\ Coming' /\ Caught'
      BY <1>0, <2>3, <2>4, <2>5 DEF Vouched, Coming, Caught
    <3>4. QED BY <3>1, <3>2, <3>3 DEF Judging
  <2>6. CASE stage' = <<"end", "tests">> /\ Verdict("clock", FALSE)
    <3>1. Rightly'
      BY <1>0, <2>3, <2>6, VerdictRight DEF DeviceTests
    <3>2. /\ log' = [f \in {"passed", "failed"} |-> log'[f]]
          /\ log'.passed = log.passed /\ log'.failed = log.failed \union {"clock"}
      BY <1>0, <2>6, Verdicts
    <3>3. Reports'
      BY <1>0, <2>1, <2>6, <3>2 DEF Reports, Machinery
    <3>4. stage' \notin Waiting
      BY <2>6 DEF Waiting
    <3>5. QED BY <1>0, <2>1, <2>3, <3>1, <3>3, <3>4, JudgesOn
  <2>7. QED BY <2>1, <2>5, <2>6
<1>12. CASE StartTimer
  <2>1. stage = <<"timer", "start">>
    BY <1>12 DEF StartTimer
  <2>2. CASE Reload(irq.rate) = 0
    <3>1. stage' = <<"run", "spawn">> /\ run' = 1 /\ UNCHANGED <<hw, irq>> /\ Verdict("timer", FALSE)
      BY <1>12, <2>2 DEF StartTimer
    <3>2. Rightly'
      BY <1>0, <3>1, VerdictRight DEF DeviceTests
    <3>3. /\ log' = [f \in {"passed", "failed"} |-> log'[f]]
          /\ log'.passed = log.passed /\ log'.failed = log.failed \union {"timer"}
      BY <1>0, <3>1, Verdicts
    <3>4. Reports' /\ stage' \notin Waiting
      BY <1>0, <2>1, <3>1, <3>3 DEF Reports, Waiting
    <3>5. QED BY <1>0, <3>1, <3>2, <3>4, JudgesOn
  <2>3. CASE Reload(irq.rate) # 0
    <3>1. /\ stage' = <<"timer", "wait">> /\ UNCHANGED <<run, log>>
          /\ irq' = [Restarted(irq, LAPIC_TIMER_VECTOR) EXCEPT !.count = Reload(irq.rate)]
      BY <1>12, <2>3 DEF StartTimer
    <3>2. Reload(irq.rate) > 0
      BY <2>3, TimerConstants DEF Reload
    <3>3. irq'.ticks = 0 /\ irq'.count = Reload(irq.rate) /\ irq'.vec = LAPIC_TIMER_VECTOR
      BY <1>0, <3>1 DEF Restarted, Statics
    <3>4. UNCHANGED <<hw.pirr, hw.pisr, hw.irr, hw.isr>>
      BY <1>0, <1>12, <2>3 DEF StartTimer, Chips
    <3>5. Origins' /\ Rightly'
      BY <1>0, <3>1, <3>2, <3>3, <3>4, OriginsKept, RightlyKept
    <3>6. Vouched' /\ Coming' /\ Caught'
      BY <2>1, <3>1, <3>3 DEF Judging, Vouched, Coming, Caught
    <3>7. Reports'
      BY <1>0, <2>1, <3>1 DEF Reports, Machinery
    <3>8. QED BY <3>5, <3>6, <3>7 DEF Judging
  <2>4. QED BY <2>2, <2>3
<1>13. CASE StopTimer
  <2> DEFINE ok(ns) == irq.ticks >= Wanted /\ ~TooFast(ns) /\ ~TooSlow(ns)
  <2>1. /\ stage = <<"timer", "wait">> /\ stage' = <<"run", "spawn">> /\ run' = 1
        /\ irq' = [irq EXCEPT !.fired = 0, !.rate = 0, !.count = 1]
        /\ Verdict("timer", ok(TookNs))
    BY <1>13 DEF StopTimer
  <2>2. UNCHANGED <<hw.pirr, hw.pisr, hw.irr, hw.isr>>
    BY <1>0, <1>13 DEF StopTimer, Chips
  <2>3. irq'.ticks = irq.ticks /\ irq'.count = 1
    BY <1>0, <2>1 DEF Statics
  <2>4. ok(TookNs) => m.speed[1] > 0
    BY <2>1 DEF Judging, Coming
  <2>5. ok(TookNs) \in BOOLEAN
    BY Zenon
  <2> HIDE DEF ok
  <2>6. Rightly'
    BY <1>0, <2>1, <2>3, <2>4, <2>5, VerdictRight DEF DeviceTests
  <2>7. /\ log' = [f \in {"passed", "failed"} |-> log'[f]]
        /\ log'.passed \union log'.failed = log.passed \union log.failed \union {"timer"}
    BY <1>0, <2>1, <2>5, Verdicts, ZenonT(30)
  <2>8. Reports' /\ stage' \notin Waiting
    BY <1>0, <2>1, <2>7 DEF Reports, Waiting
  <2>9. QED BY <1>0, <2>2, <2>3, <2>6, <2>8, JudgesOn
<1>14. CASE UserInit
  <2>1. /\ stage = <<"user", "init">> /\ stage' = <<"run", "spawn">> /\ UNCHANGED <<run, hw, log>>
        /\ irq' = Seeded(irq)
    BY <1>14 DEF UserInit
  <2>2. irq'.ticks = irq.ticks /\ irq'.count = irq.count
    BY <1>0, <2>1 DEF Statics, Seeded, publish_ticks
  <2>3. Reports' /\ stage' \notin Waiting
    BY <1>0, <2>1 DEF Reports, Waiting
  <2>4. Rightly'
    BY <1>0, <2>1, <2>2, RightlyKept
  <2>5. QED BY <1>0, <2>1, <2>2, <2>3, <2>4, JudgesOn
<1>15. CASE Spawn
  <2>1. stage = <<"run", "spawn">> /\ stage' = <<"run", "tick">> /\ UNCHANGED <<run, hw, log, irq>>
    BY <1>15 DEF Spawn
  <2>2. Reports' /\ stage' \notin Waiting
    BY <1>0, <2>1 DEF Reports, Waiting
  <2>3. QED BY <1>a, <2>1, <2>2
<1>b. ASSUME stage[1] = "run", NextRun, NEW ok \in BOOLEAN, Verdict(Runs[run], ok),
             UNCHANGED irq, UNCHANGED <<hw.pirr, hw.pisr, hw.irr, hw.isr>>
      PROVE  Judging'
  <2>1. run \in 1 .. 4
    BY <1>b DEF Control, Order
  <2>2. /\ stage' \in {<<"user", "init">>, <<"end", "tests">>, <<"run", "spawn">>}
        /\ run' # 0
    BY <1>b, <2>1 DEF NextRun, Runs
  <2>3. Runs[run] \in {"sched", "user", "nc", "ipc"}
    BY <2>1 DEF Runs
  <2>4. Rightly'
    BY <1>0, <1>b, <2>3, VerdictRight DEF DeviceTests
  <2>5. /\ log' = [f \in {"passed", "failed"} |-> log'[f]]
        /\ log'.passed \union log'.failed = log.passed \union log.failed \union {Runs[run]}
    BY <1>0, <1>b, Verdicts, ZenonT(30)
  <2>6. Reports' /\ stage' \notin Waiting
    BY <1>0, <1>b, <2>1, <2>2, <2>5 DEF Reports, Waiting
  <2>7. QED BY <1>0, <1>b, <2>4, <2>6, JudgesOn
<1>16. CASE StartTicking
  <2>1. stage = <<"run", "tick">>
    BY <1>16 DEF StartTicking
  <2>2. CASE irq.count # 0
    <3>1. /\ stage' = <<"run", "go">> /\ UNCHANGED <<run, log>>
          /\ irq' = [irq EXCEPT !.vec = LAPIC_TIMER_VECTOR]
          /\ hw' = [hw EXCEPT !.lvt = "periodic"]
      BY <1>16, <2>2 DEF StartTicking
    <3>2. irq'.ticks = irq.ticks /\ irq'.count = irq.count
      BY <1>0, <3>1 DEF Statics
    <3>3. UNCHANGED <<hw.pirr, hw.pisr, hw.irr, hw.isr>>
      BY <1>0, <3>1 DEF Chips
    <3>4. Reports' /\ stage' \notin Waiting
      BY <1>0, <2>1, <3>1 DEF Reports, Waiting
    <3>5. Rightly'
      BY <1>0, <3>1, <3>2, RightlyKept
    <3>6. QED BY <1>0, <3>2, <3>3, <3>4, <3>5, JudgesOn
  <2>3. CASE irq.count = 0 /\ Runs[run] = "nc"
    <3>1. stage' = <<"run", "go">> /\ UNCHANGED <<run, log, irq, hw>>
      BY <1>16, <2>3 DEF StartTicking
    <3>2. Reports' /\ stage' \notin Waiting
      BY <1>0, <2>1, <3>1 DEF Reports, Waiting
    <3>3. QED BY <1>a, <3>1, <3>2
  <2>4. CASE irq.count = 0 /\ Runs[run] # "nc"
    <3>1. NextRun /\ Verdict(Runs[run], FALSE) /\ UNCHANGED <<irq, hw>>
      BY <1>16, <2>4 DEF StartTicking
    <3>2. QED BY <1>b, <2>1, <3>1
  <2>5. QED BY <2>2, <2>3, <2>4
<1>17. CASE Start
  <2>1. stage = <<"run", "go">> /\ UNCHANGED <<stage, run, hw, log, irq>>
    BY <1>17 DEF Start, ControlRest
  <2>2. Reports' /\ stage' \notin Waiting
    BY <1>0, <2>1 DEF Reports, Waiting
  <2>3. QED BY <1>a, <2>1, <2>2
<1>18. CASE StopTicking
  <2>1. stage = <<"run", "stop">> /\ NextRun /\ Verdict(Runs[run], Judged(Runs[run])) /\ UNCHANGED irq
    BY <1>18 DEF StopTicking
  <2>2. UNCHANGED <<hw.pirr, hw.pisr, hw.irr, hw.isr>>
    BY <1>0, <1>18 DEF StopTicking, Chips
  <2>3. Verdict(Runs[run], TRUE) \/ Verdict(Runs[run], FALSE)
    BY <2>1 DEF Verdict
  <2>4. QED BY <1>b, <2>1, <2>2, <2>3
<1>19. CASE Finish
  <2>1. /\ stage = <<"end", "tests">> /\ UNCHANGED <<run, hw, log, irq>>
        /\ stage' = <<"over", IF log.failed = {} THEN "complete" ELSE "halted">>
    BY <1>19 DEF Finish
  <2>2. Reports' /\ stage' \notin Waiting
    BY <1>0, <2>1 DEF Reports, Waiting
  <2>3. QED BY <1>a, <2>1, <2>2
<1>20. QED BY <1>1, <1>2, <1>3, <1>4, <1>5, <1>6, <1>7, <1>7a, <1>8, <1>9, <1>10, <1>11, <1>12, <1>13,
              <1>14, <1>15, <1>16, <1>17, <1>18, <1>19 DEF BootStep

\* A handler counts the interrupts of the test that waits, and only those.
LEMMA DispatchJudges ==
    ASSUME Wired, Control, Served, Judging, UNCHANGED m, Dispatch PROVE Judging'
<1>0. hw \in Chips /\ Statics /\ irq.ticks \in Nat /\ TickCap \in Nat \ {0} /\ Origins
  BY EntryConstants DEF Wired, Served, Judging, Vouched
<1>1. pc[Cur] = "irq" /\ stage \in Listening /\ UNCHANGED <<run, log, armed>>
  BY DEF Dispatch, Served, Masking
<1> USE DEF PIC_BASE, IRQ_TIMER, SPURIOUS_MASTER, APIC_SPURIOUS_VECTOR, APIC_TIMER_VECTOR,
            LAPIC_TIMER_VECTOR
<1>2. \/ stage = <<"pic", "wait">> /\ ~hw.on /\ ~irq.using
      \/ stage # <<"pic", "wait">> /\ hw.on /\ irq.using
  <2>1. PicsOnly(<<"pic", "wait">>)
    BY DEF PicsOnly
  <2>2. stage # <<"pic", "wait">> => ApicsOn(stage)
    BY <1>1 DEF Listening, ApicsOn
  <2>3. QED BY <2>1, <2>2 DEF Served, Phases
<1>3. cpu.vector \in 32 .. 255
  <2>1. hw.isr \subseteq 32 .. 254
    BY <1>0 DEF Chips, FirmwareVectors
  <2>2. QED BY <1>1, <2>1 DEF Served, Service
<1>4. /\ UNCHANGED stage
      /\ IF irq.using THEN dispatch_apic(cpu.vector) ELSE dispatch_pic(cpu.vector)
  BY <1>3 DEF Dispatch
<1>5. hw' \in {hw, PicEoi(hw), ApicEoi(hw)}
  BY <1>4 DEF dispatch_apic, dispatch_pic
<1>6. /\ hw'.pirr \union hw'.pisr \subseteq hw.pirr \union hw.pisr
      /\ UNCHANGED <<hw.irr, hw.pit, hw.imr, hw.io>> /\ hw'.isr \subseteq hw.isr
  <2>1. CASE hw' = hw
    BY <2>1
  <2>2. CASE hw' = PicEoi(hw)
    BY <1>0, <2>2 DEF PicEoi, Chips
  <2>3. CASE hw' = ApicEoi(hw)
    BY <1>0, <2>3 DEF ApicEoi, Chips
  <2>4. QED BY <1>5, <2>1, <2>2, <2>3
<1>7. Origins'
  BY <1>0, <1>6, OriginsKept
<1>8. irq' = irq \/ irq' = Counting(irq) \/ irq' = publish_ticks(Counting(irq))
  BY <1>4 DEF dispatch_apic, dispatch_pic
<1>9. /\ irq'.ticks \in Nat /\ UNCHANGED <<irq.vec, irq.count>>
      /\ irq' # irq => irq'.ticks = AtMost(irq.ticks + 1, TickCap)
  <2>1. AtMost(irq.ticks + 1, TickCap) \in Nat
    BY <1>0 DEF AtMost
  <2>2. /\ Counting(irq).ticks = AtMost(irq.ticks + 1, TickCap) /\ Counting(irq).vec = irq.vec /\ Counting(irq).count = irq.count
        /\ Counting(irq) = [f \in {"using", "vec", "ticks", "fired", "rate", "count", "page", "clock"} |->
                              Counting(irq)[f]]
    BY <1>0, <2>1 DEF Counting, Statics
  <2> HIDE DEF Counting
  <2>3. CASE irq' = irq
    BY <1>0, <2>3
  <2>4. CASE irq' = Counting(irq)
    BY <2>1, <2>2, <2>4
  <2>5. CASE irq' = publish_ticks(Counting(irq))
    BY <2>1, <2>2, <2>5 DEF publish_ticks
  <2>6. QED BY <1>8, <2>3, <2>4, <2>5
<1>10. CASE irq' = irq
  <2>0. AtMostOnce => AtMostOnce'
    BY <1>6, <1>10 DEF AtMostOnce
  <2>1. Vouched' /\ Coming' /\ Caught'
    BY <1>1, <1>4, <1>6, <1>10, <2>0 DEF Judging, Vouched, Sound, Coming, Caught, Covers, TimerEntry
  <2>2. Reports' /\ Rightly'
    BY <1>1, <1>4, <1>10, RightlyKept DEF Judging, Reports, Rightly, Given
  <2>3. QED BY <1>7, <2>1, <2>2 DEF Judging
<1>11. CASE irq' # irq
  <2>1. stage = <<"pic", "wait">> => m.pit
    <3>1. ASSUME stage = <<"pic", "wait">> PROVE m.pit
      <4>1. cpu.vector = 32 /\ ~hw.on
        BY <1>2, <1>4, <1>11, <3>1 DEF dispatch_pic
      <4>2. hw.pisr = {0}
        BY <1>1, <4>1 DEF Served, Service
      <4>3. QED BY <1>0, <4>2 DEF Origins
    <3>2. QED BY <3>1
  <2>2. stage # <<"pic", "wait">> => cpu.vector = irq.vec /\ hw.isr = {cpu.vector}
    <3>1. ASSUME stage # <<"pic", "wait">> PROVE cpu.vector = irq.vec /\ hw.isr = {cpu.vector}
      <4>1. dispatch_apic(cpu.vector) /\ hw.on
        BY <1>2, <1>4, <3>1
      <4>2. cpu.vector # 255 /\ cpu.vector = irq.vec
        BY <1>11, <4>1 DEF dispatch_apic
      <4>3. hw.isr = {cpu.vector}
        BY <1>1, <4>1, <4>2 DEF Served, Service
      <4>4. QED BY <4>2, <4>3
    <3>2. QED BY <3>1
  <2>3. stage = <<"apic", "wait">> => irq.vec = 48 /\ (~Sound => AtMostOnce')
    <3>1. ASSUME stage = <<"apic", "wait">>, ~Sound PROVE AtMostOnce'
      <4>1. hw.isr = {48} /\ AtMostOnce
        BY <2>2, <3>1 DEF Judging, Vouched
      <4>2. irq.ticks = 0 /\ 48 \notin hw.irr
        BY <4>1 DEF AtMostOnce
      <4>3. irq'.ticks = 1
        BY <1>0, <1>9, <1>11, <4>2 DEF AtMost
      <4>4. hw' = ApicEoi(hw)
        BY <1>2, <1>4, <1>11, <3>1 DEF dispatch_apic
      <4>5. Highest({48}) = 48
        BY HighestOne DEF FirmwareVectors
      <4>6. hw'.isr = {}
        BY <1>0, <4>1, <4>4, <4>5 DEF ApicEoi, Chips
      <4>7. QED BY <1>6, <4>2, <4>3, <4>6 DEF AtMostOnce
    <3>2. QED BY <3>1 DEF Judging, Vouched
  <2>5. Vouched'
    BY <1>4, <1>9, <2>1, <2>3 DEF Vouched, Sound
  <2>6. Coming' /\ Caught'
    BY <1>1, <1>4, <1>6 DEF Judging, Coming, Caught, Covers, TimerEntry
  <2>7. Reports' /\ Rightly'
    BY <1>1, <1>4, <1>9, RightlyKept DEF Judging, Reports, Rightly, Given
  <2>8. QED BY <1>7, <2>5, <2>6, <2>7 DEF Judging
<1>12. QED BY <1>10, <1>11

\* Steps that are neither kmain's nor a handler's.
LEMMA OthersJudge ==
    ASSUME Judging, UNCHANGED <<m, run, armed>>, Statics,
           stage' = stage \/ (stage = <<"run", "go">> /\ stage' = <<"run", "stop">>),
           UNCHANGED log \/ (stage = <<"run", "go">> /\ Protocol(FALSE)),
           UNCHANGED irq \/ \E n : irq' = [irq EXCEPT !.fired = n],
           UNCHANGED <<hw.imr, hw.io>>, hw.pit = "rate" => hw'.pit = "rate",
           stage = <<"apic", "wait">> /\ ~Sound /\ AtMostOnce => AtMostOnce',
           Origins'
    PROVE  Judging'
<1>1. UNCHANGED <<irq.ticks, irq.vec, irq.count>>
  BY DEF Statics
<1>2. Vouched'
  BY <1>1 DEF Judging, Vouched, Sound
<1>2a. Coming' /\ Caught'
  BY <1>1 DEF Judging, Coming, Caught, Covers, TimerEntry
<1>3. /\ log' = [f \in {"passed", "failed"} |-> log'[f]] /\ log'.passed = log.passed
      /\ log'.failed \in {log.failed, log.failed \union {"protocol"}}
      /\ stage # <<"run", "go">> => log' = log
  BY DEF Judging, Reports, Protocol
<1>4. Rightly'
  BY <1>1, <1>3, RightlyKept DEF Judging, Rightly, DeviceTests
<1>5. Reports'
  <2>1. CASE stage # <<"run", "go">>
    BY <1>3, <2>1 DEF Judging, Reports, Given
  <2>2. CASE stage = <<"run", "go">>
    BY <1>3, <2>2 DEF Judging, Reports, Given, FaultTests
  <2>3. QED BY <2>1, <2>2
<1>6. QED BY <1>2, <1>2a, <1>4, <1>5 DEF Judging

LEMMA InitJudges == Init => Judging
<1> SUFFICES ASSUME Init PROVE Judging
  OBVIOUS
<1>1. /\ stage = <<"traps", "init">> /\ irq.ticks = 0 /\ run = 0
      /\ log = [passed |-> {}, failed |-> {}]
      /\ hw.pirr = {} /\ hw.pisr = {} /\ hw.irr = {} /\ hw.isr = {}
  BY DEF Init
<1>2. Origins /\ Vouched /\ Coming /\ Caught
  BY <1>1 DEF Origins, Vouched, Coming, Caught
<1>3. Reports /\ Rightly
  BY <1>1 DEF Reports, Rightly, BlamesRightly, FaultTests
<1>4. QED BY <1>2, <1>3 DEF Judging

LEMMA JudgingInductive ==
    Wired /\ Control /\ Control' /\ Served /\ Judging /\ [Next]_vars => Judging'
<1> SUFFICES ASSUME Wired, Control, Control', Served, Judging, [Next]_vars PROVE Judging'
  OBVIOUS
<1>0. hw \in Chips /\ Origins /\ Statics /\ UNCHANGED m
  BY MachineKept DEF Wired, Judging, Served
<1>b. ASSUME UNCHANGED <<irq, hw>> PROVE AtMostOnce => AtMostOnce'
  BY <1>b DEF AtMostOnce
<1>a. ASSUME UNCHANGED <<stage, run, armed, log, irq, hw>> PROVE Judging'
  BY <1>0, <1>a, <1>b, OriginsKept, OthersJudge
<1>1. CASE BootStep
  BY <1>0, <1>1, BootJudges
<1>2. CASE SwitchStep
  <2>1. CASE Dispatch
    BY <1>0, <2>1, DispatchJudges
  <2>2. CASE Epilogue \/ Trampoline
    BY <1>a, <2>2 DEF Epilogue, Trampoline, ControlRest
  <2>3. CASE StartLoop
    <3>1. UNCHANGED <<run, armed, log, irq, hw>> /\ stage' \in {stage, <<"run", "stop">>}
      BY <2>3 DEF StartLoop, Goto
    <3>2. stage = <<"run", "go">>
      BY <2>3 DEF StartLoop, Control, Order, Served, KernelNeverFaults, Fault
    <3>3. Origins'
      BY <1>0, <3>1, OriginsKept
    <3>4. QED BY <1>0, <1>b, <3>1, <3>2, <3>3, OthersJudge
  <2>4. QED BY <1>2, <2>1, <2>2, <2>3 DEF SwitchStep
<1>3. CASE TaskStep
  <2>1. UNCHANGED <<run, hw, irq>> /\ stage = <<"run", "go">> /\ UNCHANGED <<stage, armed>>
    BY <1>3, TaskStepKeeps, TaskStays
  <2>2. UNCHANGED log \/ Protocol(FALSE)
    <3>1. CASE EnterRing3
      BY <3>1 DEF EnterRing3, ControlRest
    <3>2. ASSUME NEW t \in Tasks, WaitDone(t) \/ ThreadExit(t) \/ Syscall(t) \/ on_syscall(t) \/ YieldCall(t)
          PROVE  UNCHANGED log
      BY <3>2 DEF WaitDone, ThreadExit, Syscall, on_syscall, YieldCall, ControlRest
    <3>3. ASSUME NEW t \in Tasks, UserFault(t) \/ Return(t) \/ sys_recv(t)
          PROVE  UNCHANGED log
      BY <3>3 DEF UserFault, Return, sys_recv
    <3>4. ASSUME NEW t \in Tasks, Refused(t) \/ sys_send(t) \/ Back(t)
          PROVE  UNCHANGED log \/ Protocol(FALSE)
      BY <3>4 DEF Refused, sys_send, Back, Protocol
    <3>5. QED BY <1>3, <3>1, <3>2, <3>3, <3>4 DEF TaskStep
  <2>3. Origins'
    BY <1>0, <2>1, OriginsKept
  <2>4. QED BY <1>0, <1>b, <2>1, <2>2, <2>3, OthersJudge
<1>4. CASE PitEdge
  <2>1. /\ UNCHANGED <<stage, run, armed, log, irq>> /\ m.pit
        /\ hw' = [hw EXCEPT !.pit = IF @ = "last" THEN "off" ELSE @,
                            !.pirr = @ \union {IRQ_TIMER},
                            !.irr = @ \union Forwarded(m.wired)]
    BY <1>4 DEF PitEdge, Software
  <2>2. UNCHANGED <<hw.imr, hw.io, hw.isr>> /\ (hw.pit = "rate" => hw'.pit = "rate")
        /\ hw'.irr = hw.irr \union Forwarded(m.wired)
    BY <1>0, <2>1 DEF Chips
  <2>3. Origins'
    BY <1>0, <2>1 DEF Origins
  <2>4. stage = <<"apic", "wait">> /\ ~Sound /\ AtMostOnce => AtMostOnce'
    <3>1. stage = <<"apic", "wait">> => irq.using
      BY DEF Served, Phases, ApicsOn
    <3>2. stage = <<"apic", "wait">> /\ ~Sound => Forwarded(m.wired) = {}
      BY <2>1, <3>1, ForwardedIs DEF Sound
    <3>3. QED BY <2>1, <2>2, <3>2 DEF AtMostOnce
  <2>5. QED BY <1>0, <2>1, <2>2, <2>3, <2>4, OthersJudge
<1>5. CASE LapicTick
  <2>1. /\ UNCHANGED <<stage, run, armed, log>> /\ m.speed[1] > 0
        /\ \E n : irq' = [irq EXCEPT !.fired = n]
        /\ hw' = [hw EXCEPT !.irr = @ \union {LAPIC_TIMER_VECTOR}]
    BY <1>5 DEF LapicTick, Software
  <2>2. /\ UNCHANGED <<hw.imr, hw.io, hw.pit, hw.pirr, hw.pisr, hw.isr>>
        /\ hw'.irr = hw.irr \union {LAPIC_TIMER_VECTOR}
    BY <1>0, <2>1 DEF Chips
  <2>3. Origins'
    BY <1>0, <2>2, OriginsKept
  <2>4. AtMostOnce => AtMostOnce'
    <3>1. irq'.ticks = irq.ticks
      BY <1>0, <2>1 DEF Statics
    <3>2. QED BY <2>2, <3>1 DEF AtMostOnce, APIC_TIMER_VECTOR, LAPIC_TIMER_VECTOR
  <2>5. QED BY <1>0, <2>1, <2>2, <2>3, <2>4, OthersJudge
<1>6. CASE PicInterrupt \/ ApicInterrupt \/ Spurious
  <2>1. UNCHANGED <<stage, run, armed, log, irq>>
    BY <1>6 DEF PicInterrupt, ApicInterrupt, Spurious, TrapIn
  <2>2. /\ UNCHANGED <<hw.imr, hw.io, hw.pit>>
        /\ hw'.pirr \union hw'.pisr \subseteq hw.pirr \union hw.pisr
        /\ AtMostOnce => AtMostOnce'
    <3>1. CASE PicInterrupt
      <4>1. hw.pirr \ hw.imr \in SUBSET {IRQ_TIMER} /\ hw.pirr \ hw.imr # {}
        BY <1>0, <3>1 DEF PicInterrupt, Chips
      <4>2. Least(hw.pirr \ hw.imr) = IRQ_TIMER /\ IRQ_TIMER \in hw.pirr
        BY <4>1, LeastOne
      <4>3. hw' = [hw EXCEPT !.pirr = @ \ {IRQ_TIMER}, !.pisr = @ \union {IRQ_TIMER}]
        BY <3>1, <4>2 DEF PicInterrupt, TrapIn
      <4>4. /\ UNCHANGED <<hw.imr, hw.io, hw.pit, hw.irr, hw.isr>>
            /\ hw'.pirr \union hw'.pisr \subseteq hw.pirr \union hw.pisr
        BY <1>0, <4>2, <4>3 DEF Chips
      <4>5. QED BY <2>1, <4>4 DEF AtMostOnce
    <3>2. CASE ApicInterrupt
      <4>1. PICK v \in hw.irr : hw' = [hw EXCEPT !.irr = @ \ {v}, !.isr = @ \union {v}]
        BY <1>0, <3>2, HighestOne, ZenonT(30) DEF ApicInterrupt, TrapIn, Chips
      <4>2. /\ UNCHANGED <<hw.imr, hw.io, hw.pit, hw.pirr, hw.pisr>>
            /\ hw'.irr = hw.irr \ {v} /\ hw'.isr = hw.isr \union {v}
        BY <1>0, <4>1 DEF Chips
      <4>3. QED BY <2>1, <4>1, <4>2 DEF AtMostOnce
    <3>3. CASE Spurious
      BY <1>b, <2>1, <3>3 DEF Spurious, TrapIn
    <3>4. QED BY <1>6, <3>1, <3>2, <3>3
  <2>3. Origins'
    BY <1>0, <2>2, OriginsKept
  <2>4. QED BY <1>0, <2>1, <2>2, <2>3, OthersJudge
<1>7. CASE UNCHANGED vars
  BY <1>a, <1>7 DEF vars
<1>8. QED BY <1>1, <1>2, <1>3, <1>4, <1>5, <1>6, <1>7 DEF Next

-----------------------------------------------------------------------------
(* The theorems. *)

BringUpInv == Wired /\ Control /\ Home /\ Served /\ Judging

LEMMA BringUpInvariance == Spec => []BringUpInv
<1>1. Init => BringUpInv
  BY InitWired, InitControl, InitHome, InitServed, InitJudges DEF BringUpInv
<1>2. BringUpInv /\ [Next]_vars => BringUpInv'
  BY WiredInductive, ControlInductive, HomeInductive, ServedInductive, JudgingInductive
     DEF BringUpInv
<1>3. QED BY <1>1, <1>2, PTL DEF Spec

\* Once the kernel has the I/O APIC, whatever firmware had left live in it, no
\* entry is live with another vector, destination or mode than selftest_apic
\* asked for, not between its two writes either (apic.rs, mask_all and
\* set_redirection; irq.rs).
THEOREM RoutingIsAsAsked == Spec => []RoutedAsAsked
<1>1. BringUpInv => RoutedAsAsked
  BY WiredRoutes DEF BringUpInv
<1>2. QED BY <1>1, BringUpInvariance, PTL

\* However calls, faults, interrupts and switches follow each other, GS holds
\* the kernel's block exactly inside the stub, and every entry from ring 3
\* lands on the kernel stack of the task that was running (syscall.rs, sched.rs).
THEOREM EntryIsAsItself == Spec => []EntersAsItself
<1>1. BringUpInv => EntersAsItself
  BY Names DEF BringUpInv, Home, EntersAsItself, LandsOnOwnStack
<1>2. QED BY <1>1, BringUpInvariance, PTL

\* Every interrupt is acknowledged to the controller that raised it before its
\* handler does anything else (irq.rs dispatch, sched.rs on_irq_epilogue).
THEOREM InterruptsAreAcknowledged == Spec => []InServiceIsHandled
<1>1. BringUpInv => InServiceIsHandled
  BY DEF BringUpInv, Served, Service, InServiceIsHandled
<1>2. QED BY <1>1, BringUpInvariance, PTL

\* The kernel never faults, whatever the devices and the programs do, and a
\* page fault is survived only inside the test that armed it (traps.rs).
THEOREM FaultsAreOnPurpose == Spec => []FaultsOnlyOnPurpose
<1>1. BringUpInv => FaultsOnlyOnPurpose
  BY DEF BringUpInv, Served, Armed, FaultsOnlyOnPurpose
<1>2. QED BY <1>1, BringUpInvariance, PTL

\* From the first page of usermode::init on, the clock ring 3 reads is the
\* count of ticks the kernel keeps (usermode.rs publish_ticks).
THEOREM ClockKeepsStep == Spec => []ClockInStep
<1>1. BringUpInv => ClockInStep
  BY DEF BringUpInv, Served, PageInStep, ClockInStep
<1>2. QED BY <1>1, BringUpInvariance, PTL

\* No self-test passes for the wrong reason: not on ticks of an earlier test,
\* of another line or of another timer, not on a request firmware's routing
\* left pending, and the completion line is printed only on a machine that has
\* what the tests are about (irq.rs, vm.rs, main.rs).
THEOREM PassesAreEarned == Spec => []PassesOnlyIfTrue
<1>1. BringUpInv => PassesOnlyIfTrue
  <2> SUFFICES ASSUME BringUpInv PROVE PassesOnlyIfTrue
    OBVIOUS
  <2>1. Rightly /\ Reports
    BY DEF BringUpInv, Judging
  <2>2. ASSUME stage = <<"over", "complete">> PROVE irq.count > 0 /\ m.pit /\ m.protects
    <3>1. log.failed = {} /\ {"null", "pic", "timer"} \subseteq log.passed
      BY <2>1, <2>2 DEF Reports, Given, FaultTests
    <3>2. QED BY <2>1, <3>1 DEF Rightly
  <2>3. QED BY <2>1, <2>2 DEF Rightly, PassesOnlyIfTrue
<1>2. QED BY <1>1, BringUpInvariance, PTL

\* A test of the fault handler, the 8259s, the tables or the I/O APIC fails
\* only on a machine that gives it cause: an interrupt left pending by an
\* earlier test is no reason, and on a patient host the ticks awaited are
\* always still to come (irq.rs, vm.rs).
THEOREM FailuresHaveCause == Spec => []BlamesRightly
<1>1. BringUpInv => BlamesRightly
  BY DEF BringUpInv, Judging, Rightly
<1>2. QED BY <1>1, BringUpInvariance, PTL
=============================================================================
