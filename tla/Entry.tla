------------------------------- MODULE Entry --------------------------------
(***************************************************************************)
(* Every way into the kernel on the boot core, and back: interrupts from   *)
(* the timer chips through either controller (irq.rs, pic.rs, apic.rs),    *)
(* faults (trap.rs, traps.rs) and system calls (syscall.rs, usermode.rs),  *)
(* taken from the boot context, from kernel threads and from the ring-3    *)
(* programs of services/init, with the switches of sched.rs between them.  *)
(* What the boot context itself does is in BringUp.                        *)
(*                                                                         *)
(* A context is the boot context or a task; one of them is on the CPU, and *)
(* `pc` says where each stands:                                            *)
(*   "none"    not spawned            "fresh"   spawned, never run         *)
(*   "entry"   user_task, in ring 0   "body"    its own code, in ring 3    *)
(*                                              for a ring-3 program       *)
(*   "irq"     in a handler, the interrupt not yet acknowledged            *)
(*   "acked"   in the handler's epilogue                                   *)
(*   "stub"    inside the syscall stub's swapgs                            *)
(*   "call"    serving a call that may switch, GS put back                 *)
(*   "back"    the call is over (or the task waits for the CPU in it)      *)
(*   "blocked" parked on an endpoint                                       *)
(*   "served"  about to return to ring 3   "dead"                          *)
(*   "start"   the boot context, inside sched::start                       *)
(* Which ready task a switch picks is left open here: see Sched.           *)
(***************************************************************************)
EXTENDS Timers, Sequences, FiniteSets

CONSTANTS
    Machines,      \* the machines that boot
    Casts,         \* the programs selftest_ipc runs, one set per variant
    SelftestTicks, \* SELFTEST_TICKS
    TickCap,       \* where the model stops counting ticks
    RingSlots      \* slots of an endpoint's ring

Boot == "boot"
Kernel == {"A", "B"}
User == {"U1", "U2", "N", "SRV", "CLI", "S5", "S6", "SNK"}
Tasks == Kernel \union User
Ctx == Tasks \union {Boot}
Endpoints == {"request", "reply", "delegated", "storm"}
Runs == <<"sched", "user", "nc", "ipc">>

\* irq.rs: the vectors.  The firmware leaves the 8259s on exception vectors.
FIRMWARE_BASE == 8
PIC_BASE == 32
APIC_TIMER_VECTOR == 48
LAPIC_TIMER_VECTOR == 49
APIC_SPURIOUS_VECTOR == 255
IRQ_TIMER == 0
SPURIOUS_MASTER == 7
Lines == {IRQ_TIMER, SPURIOUS_MASTER}
Gsis == 0 .. 2

\* What an entry firmware left live in the I/O APIC can name: a vector of its
\* own IDT, and never one of the CPU's exceptions.
FirmwareVectors == 32 .. 254

ASSUME EntryConstants ==
    /\ {SelftestTicks, TickCap, RingSlots} \subseteq Nat \ {0}
    \* One tick proves nothing: it can be a request firmware's routing left.
    /\ 1 < SelftestTicks /\ SelftestTicks <= TickCap /\ Wanted < TickCap
    /\ \A c \in Casts : c \subseteq User
    /\ \A m \in Machines :
          /\ {m.protects, m.smap, m.patient, m.prompt, m.pit, m.madt, m.lapic, m.hpet,
              m.stuck} \subseteq BOOLEAN
          /\ m.id \in 0 .. 127 /\ m.wired \in Gsis /\ m.told \in Nat
          /\ m.flags \in 0 .. 15 /\ m.ioapic \in Nat
          /\ m.left \in {0} \union FirmwareVectors
          /\ m.clock \in [period_fs : Nat, counter_64bit : BOOLEAN]
          /\ m.at \in 0 .. WrapOf(m.clock) - 1
          /\ m.speed[1] \in Nat /\ m.speed[2] \in Nat \ {0}

\* A machine `protects` if address zero and, under `smap`, user pages fault;
\* its host is `patient` if SELFTEST_PATIENCE spins outlast the ticks awaited
\* and `prompt` if no timer interrupt is late by a period; `pit`, `madt`,
\* `lapic` and `hpet` are there or not, and a `stuck` HPET does not count.  The
\* 8254 is `wired` to one GSI and the MADT has `told` another, with `flags`,
\* on an I/O APIC of `ioapic` entries, which firmware left masked (`left` is 0)
\* or live with its vector `left`.  The HPET is `clock` and reads `at`.
VARIABLES
    m,       \* the machine; it does not change
    stage,   \* where kmain is
    run,     \* which of Runs it is in, 0 before the first
    log,     \* the self-tests that passed and failed; kmain's `ok` is failed = {}
    cpu,     \* the core: interrupt flag, GS, current context, stacks
    hw,      \* the timer chips and interrupt controllers
    irq,     \* irq.rs's statics and the shared clock page
    armed,   \* traps.rs's statics
    pc, ret, \* where each context stands, and where its interrupt returns to
    ip,      \* the next operation of each program
    landed,  \* the kernel stack each entry from ring 3 landed on
    rip,     \* whether the return address of each program is canonical
    seen,    \* whether a program that waits has seen a tick
    eps,     \* the endpoints
    mail,    \* the message delivered to each program
    tally    \* usermode.rs's counters and ARM_NONCANONICAL

tasks == <<pc, ret, ip, landed, rip, seen, eps, mail>>
vars == <<m, stage, run, log, cpu, hw, irq, armed, tasks, tally>>

\* What the programs of services/init/boot/image.rs and the threads of
\* sched.rs do, up to the text they print.  "dead" is a send that must be
\* refused.  The storm's sixteen messages from each of three senders are two
\* from one and one from another: the ring fills and a sender waits.
Op(o) == [op |-> o, ep |-> "none", tag |-> 0]
On(o, e, t) == [op |-> o, ep |-> e, tag |-> t]
ThreadBody == <<Op("wait"), Op("exit")>>
TaskOne == <<Op("write"), Op("wait"), Op("yield"), Op("write"), Op("exit")>>
TaskTwo == <<Op("write"), Op("write"), Op("fault")>>
server ==
    <<Op("wait"), On("recv", "request", 1), On("recv", "request", 2),
      On("recv", "request", 3), On("send", "reply", 101),
      On("recv", "delegated", 10), On("revoke", "delegated", 0),
      On("send", "reply", 103), On("dead", "delegated", 11), Op("exit")>>
client ==
    <<On("send", "request", 1), On("send", "request", 2), On("send", "request", 3),
      On("recv", "reply", 101), On("send", "delegated", 10),
      On("recv", "reply", 103), On("dead", "delegated", 12), Op("exit")>>
storm_sender(n) == [k \in 1 .. n |-> On("send", "storm", 0)] \o <<Op("exit")>>
storm_sink ==
    <<Op("wait")>> \o [k \in 1 .. 3 |-> On("recv", "storm", 0)] \o <<Op("exit")>>

Program ==
    [t \in Tasks |->
       CASE t \in Kernel -> ThreadBody
         [] t \in {"U1", "N"} -> TaskOne
         [] t = "U2" -> TaskTwo
         [] t = "SRV" -> server
         [] t = "CLI" -> client
         [] t = "S5" -> storm_sender(2)
         [] t = "S6" -> storm_sender(1)
         [] OTHER -> storm_sink]

Cur == cpu.cur
Ring3(t) == t \in User /\ pc[t] = "body"
Doing(t) == Program[t][ip[t]]
Ready == {t \in Tasks : pc[t] \in {"fresh", "acked", "back"} /\ t # Cur}
Over == stage[1] = "over"
Least(S) == CHOOSE x \in S : \A y \in S : x <= y
Highest(S) == CHOOSE x \in S : \A y \in S : x >= y
AtMost(n, cap) == IF n > cap THEN cap ELSE n

-----------------------------------------------------------------------------
(* Initially the loader has masked interrupts; the firmware left the 8259s *)
(* open on the exception vectors, the 8254 running or not, the local APIC  *)
(* not enabled, and the I/O APIC's entries masked, with stale              *)
(* destinations, or live: edges to this core on a vector of its own.       *)

EmptyEndpoint == [ring |-> << >>, senders |-> << >>, receivers |-> << >>,
                  live |-> TRUE]
FirmwareEntry ==
    IF m.left = 0 THEN [low |-> low_bits(MaskedEntry), high |-> 2 * 2 ^ 24]
    ELSE [low |-> low_bits([MaskedEntry EXCEPT !.vector = m.left, !.masked = FALSE]),
          high |-> m.id * 2 ^ 24]

Init ==
    /\ m \in Machines
    /\ stage = <<"traps", "init">> /\ run = 0
    /\ log = [passed |-> {}, failed |-> {}]
    /\ cpu = [ifl |-> FALSE, saved |-> FALSE, gs |-> "home", cur |-> Boot,
              kstack |-> Boot, rsp0 |-> Boot, vector |-> 0, need |-> FALSE]
    /\ \E pit \in {"off", "rate"} :
          hw = [pit |-> pit, base |-> FIRMWARE_BASE, imr |-> {}, pirr |-> {}, pisr |-> {},
                on |-> FALSE, irr |-> {}, isr |-> {}, lvt |-> "masked",
                io |-> [g \in Gsis |-> FirmwareEntry]]
    /\ irq = [using |-> FALSE, vec |-> PIC_BASE + IRQ_TIMER, ticks |-> 0,
              fired |-> 0, rate |-> 0, count |-> 0, page |-> FALSE, clock |-> 0]
    /\ armed = [on |-> FALSE, at |-> "null", resume |-> FALSE]
    /\ pc = [c \in Ctx |-> IF c = Boot THEN "body" ELSE "none"]
    /\ ret = [c \in Ctx |-> "body"]
    /\ ip = [t \in Tasks |-> 1]
    /\ landed = [t \in Tasks |-> t]
    /\ rip = [t \in Tasks |-> "canonical"]
    /\ seen = [t \in Tasks |-> FALSE]
    /\ eps = [e \in Endpoints |-> EmptyEndpoint]
    /\ mail = [t \in Tasks |-> 0]
    /\ tally = [faults |-> 0, irets |-> 0, arm |-> FALSE]

-----------------------------------------------------------------------------
(* The devices.  They move by themselves, whoever has the CPU. *)

Software == <<m, stage, run, log, cpu, armed, tasks, tally>>

\* What an edge on pin g of the I/O APIC does to the local APIC.
Forwarded(g) ==
    LET e == from_bits(hw.io[g].low, hw.io[g].high)
    IN  IF hw.on /\ g < m.ioapic /\ ~e.masked /\ e.destination = m.id
        THEN {e.vector} ELSE {}

\* The 8254 raises its line, which is wired to both controllers.  Stopped
\* (mode 0), it still raises it once more when the last count runs out.
PitEdge ==
    /\ m.pit /\ hw.pit # "off" /\ ~Over
    /\ hw' = [hw EXCEPT !.pit = IF @ = "last" THEN "off" ELSE @,
                        !.pirr = @ \union {IRQ_TIMER},
                        !.irr = @ \union Forwarded(m.wired)]
    /\ UNCHANGED <<Software, irq>>

\* The local APIC's timer expires.  A host that keeps up has every tick
\* counted, and acted upon, before the next.
Counts == stage = <<"timer", "wait">>
LapicTick ==
    /\ hw.on /\ hw.lvt = "periodic" /\ m.speed[1] > 0 /\ ~Over
    /\ m.prompt => LAPIC_TIMER_VECTOR \notin hw.irr
    /\ Counts => irq.fired < 3 * Wanted
    /\ Counts /\ m.prompt => irq.fired <= irq.ticks /\ irq.ticks < Wanted
    /\ hw' = [hw EXCEPT !.irr = @ \union {LAPIC_TIMER_VECTOR}]
    /\ irq' = [irq EXCEPT !.fired = IF Counts THEN @ + 1 ELSE 0]
    /\ UNCHANGED Software

-----------------------------------------------------------------------------
(* Into a handler.  The interrupt gate masks interrupts; from ring 3 the   *)
(* CPU takes its stack from TSS.rsp0.  A trap does not touch GS.           *)

TrapIn(v, chips) ==
    /\ cpu.ifl /\ pc[Cur] \in {"entry", "body"} /\ ~Over
    /\ cpu' = [cpu EXCEPT !.ifl = FALSE, !.vector = v]
    /\ pc' = [pc EXCEPT ![Cur] = "irq"]
    /\ ret' = [ret EXCEPT ![Cur] = pc[Cur]]
    /\ landed' = IF Ring3(Cur) THEN [landed EXCEPT ![Cur] = cpu.rsp0] ELSE landed
    /\ hw' = chips
    /\ UNCHANGED <<m, stage, run, log, irq, armed, ip, rip, seen, eps, mail, tally>>

\* The 8259s deliver until the local APIC is enabled, which masks LINT0.
PicInterrupt ==
    /\ ~hw.on /\ hw.pirr \ hw.imr # {} /\ hw.pisr = {}
    /\ \E i \in {Least(hw.pirr \ hw.imr)} :
          TrapIn(hw.base + i, [hw EXCEPT !.pirr = @ \ {i}, !.pisr = @ \union {i}])

ApicInterrupt ==
    /\ hw.on /\ hw.irr # {}
    /\ \E v \in {Highest(hw.irr)} :
          /\ \A s \in hw.isr : v \div 16 > s \div 16
          /\ TrapIn(v, [hw EXCEPT !.irr = @ \ {v}, !.isr = @ \union {v}])

\* A request withdrawn before it was acknowledged: nothing is in service.
Spurious ==
    TrapIn(IF hw.on THEN APIC_SPURIOUS_VECTOR ELSE hw.base + SPURIOUS_MASTER, hw)

\* publish_ticks, and the programs that read the page it writes.
TickSeen ==
    seen' = [t \in Tasks |-> \/ seen[t]
                             \/ pc[t] \notin {"none", "fresh", "dead"}
                                /\ Doing(t).op = "wait"]

Counting(i) == [i EXCEPT !.ticks = AtMost(@ + 1, TickCap)]
publish_ticks(i) == IF i.page THEN [i EXCEPT !.clock = i.ticks] ELSE i

\* end_of_interrupt: neither chip is told which; each retires its own most
\* urgent one.
PicEoi(h) == IF h.pisr = {} THEN h ELSE [h EXCEPT !.pisr = @ \ {Least(@)}]
ApicEoi(h) == IF h.isr = {} THEN h ELSE [h EXCEPT !.isr = @ \ {Highest(@)}]

dispatch_pic(v) ==
    /\ IF v - PIC_BASE = SPURIOUS_MASTER /\ SPURIOUS_MASTER \notin hw.pisr
         THEN UNCHANGED <<hw, irq>>
         ELSE /\ irq' = IF v - PIC_BASE = IRQ_TIMER THEN Counting(irq) ELSE irq
              /\ hw' = PicEoi(hw)
    /\ UNCHANGED <<cpu, seen>>

\* Mutant: what nothing asked for is not acknowledged.
dispatch_apic_MutantUnexpectedHeld(v) ==
    IF v = irq.vec
      THEN /\ irq' = publish_ticks(Counting(irq))
           /\ cpu' = [cpu EXCEPT !.need = TRUE]
           /\ TickSeen
           /\ hw' = ApicEoi(hw)
      ELSE UNCHANGED <<hw, irq, cpu, seen>>

dispatch_apic(v) ==
    IF v = APIC_SPURIOUS_VECTOR
      THEN UNCHANGED <<hw, irq, cpu, seen>>
      ELSE /\ IF v = irq.vec
                THEN /\ irq' = publish_ticks(Counting(irq))
                     /\ cpu' = [cpu EXCEPT !.need = TRUE]
                     /\ TickSeen
                ELSE UNCHANGED <<irq, cpu, seen>>
           /\ hw' = ApicEoi(hw)

\* on_trap for a device vector: count, acknowledge to the controller in
\* charge, and only then the epilogue.  Any other vector is a kernel fault.
Dispatch ==
    /\ pc[Cur] = "irq" /\ ~Over
    /\ IF cpu.vector < PIC_BASE
         THEN /\ stage' = <<"over", "fault">>
              /\ UNCHANGED <<hw, irq, cpu, seen, pc>>
         ELSE /\ IF irq.using THEN dispatch_apic(cpu.vector) ELSE dispatch_pic(cpu.vector)
              /\ pc' = [pc EXCEPT ![Cur] = "acked"]
              /\ UNCHANGED stage
    /\ UNCHANGED <<m, run, log, armed, ret, ip, landed, rip, eps, mail, tally>>

-----------------------------------------------------------------------------
(* Switching, as far as the core is concerned. *)

\* Mutant: the stack for interrupts follows the task, the one for calls not.
enter_MutantPrivilegeOnly(c, u) ==
    IF u = Boot THEN [c EXCEPT !.cur = u]
    ELSE [c EXCEPT !.cur = u, !.rsp0 = u]

\* The bootstrap context is given no kernel stack.
enter(c, u) ==
    IF u = Boot THEN [c EXCEPT !.cur = u]
    ELSE [c EXCEPT !.cur = u, !.rsp0 = u, !.kstack = u]

\* Where a task that cannot go on leaves the CPU: park_and_switch and exit
\* fall back on the bootstrap context, reschedule does not.
Successors == IF Ready = {} THEN {Boot} ELSE Ready

ControlRest == <<m, stage, run, log, hw, irq, armed>>

\* on_irq_epilogue, and the iretq after it.
Epilogue ==
    /\ pc[Cur] = "acked"
    /\ IF cpu.need /\ Cur # Boot /\ Ready # {}
         THEN /\ \E u \in Ready : cpu' = enter([cpu EXCEPT !.need = FALSE, !.vector = 0], u)
              /\ UNCHANGED pc
         ELSE /\ cpu' = [cpu EXCEPT !.need = FALSE, !.vector = 0, !.ifl = TRUE]
              /\ pc' = [pc EXCEPT ![Cur] = ret[Cur]]
    /\ ret' = IF pc'[Cur] = "acked" THEN ret ELSE [ret EXCEPT ![Cur] = "body"]
    /\ UNCHANGED <<ControlRest, ip, landed, rip, seen, eps, mail, tally>>

\* A task's first steps: the trampoline, then user_task and enter_ring3.
Trampoline ==
    /\ pc[Cur] = "fresh"
    /\ pc' = [pc EXCEPT ![Cur] = IF Cur \in User THEN "entry" ELSE "body"]
    /\ cpu' = [cpu EXCEPT !.ifl = TRUE]
    /\ UNCHANGED <<ControlRest, ret, ip, landed, rip, seen, eps, mail, tally>>

EnterRing3 ==
    /\ pc[Cur] = "entry"
    /\ pc' = [pc EXCEPT ![Cur] = "body"]
    /\ UNCHANGED <<ControlRest, cpu, ret, ip, landed, rip, seen, eps, mail, tally>>

-----------------------------------------------------------------------------
(* Traps that are not interrupts. *)

\* resume_if_expected: the fault was armed for, here, and is to be survived.
Expected(a, kind, at) == a.on /\ kind = "pf" /\ a.resume /\ a.at = at

\* on_trap, in its order.
Outcome(a, kind, at, user) ==
    IF Expected(a, kind, at) \/ kind = "bp" THEN "resume"
    ELSE IF user /\ Cur # Boot THEN "kill"
    ELSE "halt"

\* sched::exit.
Exit(t, c) ==
    /\ pc' = [pc EXCEPT ![t] = "dead"]
    /\ \E u \in Successors : cpu' = enter(c, u)

\* A program faults: at the instruction that is meant to, or because it was
\* returned to an address that cannot be executed.
UserFault(t) ==
    /\ Ring3(t) /\ (rip[t] = "bad" \/ Doing(t).op = "fault")
    /\ landed' = [landed EXCEPT ![t] = cpu.rsp0]
    /\ LET outcome == IF rip[t] = "bad" THEN Outcome(armed, "gp", "none", TRUE)
                      ELSE Outcome(armed, "pf", "null", TRUE)
       IN  IF outcome = "kill"
             THEN /\ tally' = [tally EXCEPT !.faults = @ + 1]
                  /\ Exit(t, [cpu EXCEPT !.ifl = FALSE])
                  /\ UNCHANGED <<stage, rip, armed>>
             ELSE /\ armed' = [armed EXCEPT !.on = FALSE, !.resume = FALSE]
                  /\ rip' = [rip EXCEPT ![t] = "bad"]
                  /\ stage' = IF outcome = "halt" THEN <<"over", "fault">> ELSE stage
                  /\ UNCHANGED <<cpu, pc, tally>>
    /\ UNCHANGED <<m, run, log, hw, irq, ret, ip, seen, eps, mail>>

-----------------------------------------------------------------------------
(* System calls.  The stub swaps GS on its way in and out; a call that may *)
(* switch swaps it back for as long as it takes.                           *)

Running(t) == Cur = t /\ pc[t] = "body" /\ rip[t] = "canonical"
Past(t) == ip' = [ip EXCEPT ![t] = @ + 1]

\* The clock page is read until it has moved.
WaitDone(t) ==
    /\ Running(t) /\ Doing(t).op = "wait" /\ seen[t]
    /\ Past(t)
    /\ UNCHANGED <<ControlRest, cpu, pc, ret, landed, rip, seen, eps, mail, tally>>

\* A kernel thread returns from its body.
ThreadExit(t) ==
    /\ Running(t) /\ t \in Kernel /\ Doing(t).op = "exit"
    /\ Exit(t, [cpu EXCEPT !.ifl = FALSE])
    /\ UNCHANGED <<ControlRest, ret, ip, landed, rip, seen, eps, mail, tally>>

\* The instruction masks interrupts (IA32_FMASK) and keeps the user's stack;
\* the stub finds the kernel's through GS.
Syscall(t) ==
    /\ Running(t) /\ t \in User /\ Doing(t).op \notin {"wait", "fault"}
    /\ cpu' = [cpu EXCEPT !.ifl = FALSE, !.gs = "in"]
    /\ landed' = [landed EXCEPT ![t] = cpu.kstack]
    /\ pc' = [pc EXCEPT ![t] = "stub"]
    /\ UNCHANGED <<ControlRest, ret, ip, rip, seen, eps, mail, tally>>

MaySwitch == {"yield", "send", "recv", "dead"}

\* Which arms of on_syscall call swap_gs before they do anything.
SwapsFor(op) == op \in MaySwitch \union {"exit"}

\* on_syscall up to the call itself.  Exit leaves the stub for good.
on_syscall(t) ==
    /\ Cur = t /\ pc[t] = "stub"
    /\ tally' = [tally EXCEPT !.arm = FALSE]
    /\ LET op == Doing(t).op
           c == IF SwapsFor(op) THEN [cpu EXCEPT !.gs = "home"] ELSE cpu
       IN  /\ rip' = IF tally.arm /\ op # "exit" THEN [rip EXCEPT ![t] = "bad"] ELSE rip
           /\ IF op = "exit" THEN Exit(t, c)
              ELSE /\ pc' = [pc EXCEPT ![t] = IF op \in MaySwitch THEN "call" ELSE "served"]
                   /\ cpu' = c
           /\ ip' = IF op \in MaySwitch \union {"exit"} THEN ip ELSE [ip EXCEPT ![t] = @ + 1]
           /\ eps' = IF op = "revoke" THEN [eps EXCEPT ![Doing(t).ep].live = FALSE] ELSE eps
    /\ UNCHANGED <<ControlRest, ret, landed, seen, mail>>

\* Yield: reschedule declines when nobody else is ready.
YieldCall(t) ==
    /\ Cur = t /\ pc[t] = "call" /\ Doing(t).op = "yield"
    /\ pc' = [pc EXCEPT ![t] = "back"]
    /\ \E u \in IF Ready = {} THEN {t} ELSE Ready : cpu' = enter(cpu, u)
    /\ UNCHANGED <<ControlRest, ret, ip, landed, rip, seen, eps, mail, tally>>

\* A call on an endpoint that returns at once, and one that parks.
Answered(t, woken) ==
    /\ pc' = [u \in Ctx |-> IF u \in {t} \union woken THEN "back" ELSE pc[u]]
    /\ UNCHANGED cpu
Parked(t) ==
    /\ pc' = [pc EXCEPT ![t] = "blocked"]
    /\ \E u \in Successors : cpu' = enter(cpu, u)

Calling(t, ops) == Cur = t /\ pc[t] = "call" /\ Doing(t).op \in ops
CallRest == <<m, stage, run, hw, irq, armed, ret, ip, landed, rip, seen, tally>>
Protocol(ok) == log' = IF ok THEN log ELSE [log EXCEPT !.failed = @ \union {"protocol"}]

\* endpoint_for: the object behind the capability is gone, or it is not.
Refused(t) ==
    /\ Calling(t, {"send", "recv", "dead"}) /\ ~eps[Doing(t).ep].live
    /\ Answered(t, {})
    /\ Protocol(Doing(t).op = "dead")
    /\ UNCHANGED <<CallRest, eps, mail>>

Room(e) == Len(e.ring) < RingSlots

sys_send(t) ==
    /\ Calling(t, {"send", "dead"}) /\ eps[Doing(t).ep].live
    /\ LET d == Doing(t)
           e == eps[d.ep]
       IN  IF e.receivers # << >>
             THEN /\ mail' = [mail EXCEPT ![Head(e.receivers)] = d.tag]
                  /\ eps' = [eps EXCEPT ![d.ep].receivers = Tail(@)]
                  /\ Answered(t, {Head(e.receivers)})
           ELSE IF Room(e)
             THEN /\ eps' = [eps EXCEPT ![d.ep].ring = Append(@, d.tag)]
                  /\ Answered(t, {})
                  /\ UNCHANGED mail
           ELSE /\ eps' = [eps EXCEPT ![d.ep].senders = Append(@, <<t, d.tag>>)]
                /\ Parked(t)
                /\ UNCHANGED mail
    /\ Protocol(Doing(t).op = "send")
    /\ UNCHANGED CallRest

\* A message taken from a full ring makes room for the first waiting sender's.
sys_recv(t) ==
    /\ Calling(t, {"recv"}) /\ eps[Doing(t).ep].live
    /\ LET d == Doing(t)
           e == eps[d.ep]
       IN  IF e.ring = << >>
             THEN /\ eps' = [eps EXCEPT ![d.ep].receivers = Append(@, t)]
                  /\ Parked(t)
                  /\ UNCHANGED mail
           ELSE /\ mail' = [mail EXCEPT ![t] = Head(e.ring)]
                /\ IF e.senders = << >>
                     THEN /\ eps' = [eps EXCEPT ![d.ep].ring = Tail(@)]
                          /\ Answered(t, {})
                     ELSE /\ eps' = [eps EXCEPT
                                       ![d.ep].ring = Append(Tail(@), Head(e.senders)[2]),
                                       ![d.ep].senders = Tail(@)]
                          /\ Answered(t, {Head(e.senders)[1]})
    /\ UNCHANGED <<CallRest, log>>

\* The second swap_gs.  What was received is what the program expects.
Back(t) ==
    /\ Cur = t /\ pc[t] = "back"
    /\ cpu' = IF SwapsFor(Doing(t).op)
                THEN [cpu EXCEPT !.gs = IF @ = "home" THEN "in" ELSE "home"] ELSE cpu
    /\ pc' = [pc EXCEPT ![t] = "served"]
    /\ Past(t)
    /\ Protocol(Doing(t).op = "recv" => mail[t] = Doing(t).tag)
    /\ UNCHANGED <<m, stage, run, hw, irq, armed, ret, landed, rip, seen, eps, mail, tally>>

\* Mutant: the check is made on the address as it was at the call.
Returns_MutantCheckedFirst(t) == "sysret"

\* The check is made on the address about to be loaded.
Returns(t) == IF rip[t] = "canonical" THEN "sysret" ELSE "iret"

\* sysretq to an address that is not canonical faults in ring 0.
Return(t) ==
    /\ Cur = t /\ pc[t] = "served"
    /\ cpu' = [cpu EXCEPT !.ifl = TRUE, !.gs = IF @ = "in" THEN "home" ELSE "in"]
    /\ pc' = [pc EXCEPT ![t] = "body"]
    /\ tally' = [tally EXCEPT !.irets = IF Returns(t) = "iret" THEN 1 ELSE @]
    /\ stage' = IF Returns(t) = "sysret" /\ rip[t] = "bad" THEN <<"over", "fault">> ELSE stage
    /\ UNCHANGED <<m, run, log, hw, irq, armed, ret, ip, landed, rip, seen, eps, mail>>
=============================================================================
