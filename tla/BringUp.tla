------------------------------ MODULE BringUp -------------------------------
(***************************************************************************)
(* kmain on the boot core, from `traps::init` to its end: it brings up the *)
(* trap tables, the 8259s, the APICs and the timer one after the other     *)
(* with a self-test for each (main.rs, traps.rs, vm.rs, irq.rs), and then  *)
(* runs kernel threads and ring-3 programs (sched.rs, usermode.rs), while  *)
(* the devices and the programs of Entry do what they like.                *)
(***************************************************************************)
EXTENDS Entry

-----------------------------------------------------------------------------
(* kmain, on the boot context. *)

At(where) == Cur = Boot /\ pc[Boot] = "body" /\ stage = where
Goto(where) == stage' = where
Verdict(test, ok) ==
    log' = IF ok THEN [log EXCEPT !.passed = @ \union {test}]
                 ELSE [log EXCEPT !.failed = @ \union {test}]

\* selftest_recoverable's int3, which comes straight back.
Breakpoint ==
    /\ At(<<"traps", "init">>)
    /\ Goto(IF Outcome(armed, "bp", "none", FALSE) = "resume" THEN <<"arm", "guard">>
            ELSE <<"over", "fault">>)
    /\ UNCHANGED <<m, run, log, cpu, hw, irq, armed, tasks, tally>>

\* The page faults taken on purpose: the stack's guard page, address zero and
\* a user page written under SMAP.  Address zero is what EXPECT_FAULT_AT holds
\* when nothing is armed.
Unarmed == [on |-> FALSE, at |-> "null", resume |-> FALSE]
AfterTest(x) ==
    CASE x = "guard" -> <<"arm", "null">>
      [] x = "null" -> <<"arm", "smap">>
      [] OTHER -> <<"pic", "init">>

arm_page_fault(x) ==
    /\ At(<<"arm", x>>)
    /\ IF x = "smap" /\ ~m.smap
         THEN Goto(AfterTest(x)) /\ Verdict(x, TRUE) /\ UNCHANGED armed
         ELSE /\ armed' = [on |-> TRUE, at |-> x, resume |-> FALSE]
              /\ Goto(<<"touch", x>>)
              /\ UNCHANGED log
    /\ UNCHANGED <<m, run, cpu, hw, irq, tasks, tally>>

\* The access leaves its resume address behind and faults, or does not.
Touch(x) ==
    /\ At(<<"touch", x>>)
    /\ \E a \in {[armed EXCEPT !.resume = TRUE]} :
          IF x = "guard" \/ m.protects
            THEN IF Outcome(a, "pf", x, FALSE) = "resume"
                   THEN armed' = [a EXCEPT !.on = FALSE, !.resume = FALSE] /\ Goto(<<"check", x>>)
                   ELSE armed' = a /\ Goto(<<"over", "fault">>)
            ELSE armed' = a /\ Goto(<<"check", x>>)
    /\ UNCHANGED <<m, run, log, cpu, hw, irq, tasks, tally>>

disarm(a) == Unarmed

\* fault_was_taken, then disarm; a guard page that did not fault goes unsaid.
Check(x) ==
    /\ At(<<"check", x>>)
    /\ IF x = "guard" THEN UNCHANGED log ELSE Verdict(x, ~armed.on)
    /\ armed' = disarm(armed)
    /\ Goto(AfterTest(x))
    /\ UNCHANGED <<m, run, cpu, hw, irq, tasks, tally>>

-----------------------------------------------------------------------------
(* irq.rs: the 8259s. *)

BootRest == <<m, run, armed, tasks, tally>>

\* remap, which resets both chips and leaves every line masked.
InitPic ==
    /\ At(<<"pic", "init">>)
    /\ hw' = [hw EXCEPT !.base = PIC_BASE, !.imr = Lines, !.pirr = {}, !.pisr = {}]
    /\ Goto(<<"pic", "start">>)
    /\ UNCHANGED <<BootRest, log, cpu, irq>>

\* Mutant: the count goes on from the test before.
Restarted_MutantKeepsTicks(i, vector) == [i EXCEPT !.vec = vector, !.fired = 0]

\* The count a test starts from, and the vector it listens on.
Restarted(i, vector) == [i EXCEPT !.vec = vector, !.ticks = 0, !.fired = 0]

StartPic ==
    /\ At(<<"pic", "start">>)
    /\ hw' = [hw EXCEPT !.pit = "rate", !.imr = @ \ {IRQ_TIMER}]
    /\ irq' = Restarted(irq, irq.vec)
    /\ cpu' = [cpu EXCEPT !.ifl = TRUE]
    /\ Goto(<<"pic", "wait">>)
    /\ UNCHANGED <<BootRest, log>>

\* Whether the 8254's next edge, or what it left pending, will interrupt.
TickComing ==
    /\ m.pit /\ hw.pit # "off"
    /\ IF hw.on THEN hw.isr = {} /\ (Forwarded(m.wired) \union hw.irr) # {}
                ELSE hw.pisr = {} /\ IRQ_TIMER \notin hw.imr

Enough == irq.ticks >= SelftestTicks

\* Mutant: the wait is not bounded.
OutOfPatience_MutantNever == FALSE

\* SELFTEST_PATIENCE runs out: nothing is coming, or a busy host is slow.
OutOfPatience == ~m.patient \/ ~TickComing

StopPic ==
    /\ At(<<"pic", "wait">>) /\ (Enough \/ OutOfPatience)
    /\ cpu' = [cpu EXCEPT !.ifl = FALSE]
    /\ hw' = [hw EXCEPT !.pit = "last", !.imr = @ \union {IRQ_TIMER}]
    /\ Verdict("pic", Enough)
    /\ Goto(<<"acpi", "init">>)
    /\ UNCHANGED <<BootRest, irq>>

-----------------------------------------------------------------------------
(* irq.rs: the APICs. *)

Discover ==
    /\ At(<<"acpi", "init">>)
    /\ IF m.madt THEN Goto(<<"apic", "init">>) /\ UNCHANGED log
                 ELSE Goto(<<"end", "tests">>) /\ Verdict("acpi", FALSE)
    /\ UNCHANGED <<BootRest, cpu, hw, irq>>

\* The 8259s are masked for good, then the local APIC listens: from here on an
\* entry firmware left live raises requests, which wait for interrupts to open.
init_apic ==
    /\ At(<<"apic", "init">>)
    /\ hw' = [hw EXCEPT !.imr = Lines, !.on = m.lapic]
    /\ IF m.lapic THEN Goto(<<"apic", "mask">>) /\ UNCHANGED log
                  ELSE Goto(<<"end", "tests">>) /\ Verdict("apic", FALSE)
    /\ UNCHANGED <<BootRest, cpu, irq>>

\* ... and only then mask_all, and the rest of init_apic.  Between its two
\* writes an entry is at most live for APIC 0: nothing new for this core.
mask_all ==
    /\ At(<<"apic", "mask">>)
    /\ IF m.ioapic > 0
         THEN /\ \E e \in {[low |-> low_bits(MaskedEntry), high |-> high_bits(MaskedEntry)]} :
                    hw' = [hw EXCEPT !.io = [g \in Gsis |-> IF g < m.ioapic THEN e ELSE @[g]]]
              /\ irq' = [irq EXCEPT !.using = TRUE]
              /\ Goto(<<"apic", "route">>)
              /\ UNCHANGED log
         ELSE /\ Goto(<<"end", "tests">>) /\ Verdict("apic", FALSE)
              /\ UNCHANGED <<hw, irq>>
    /\ UNCHANGED <<BootRest, cpu>>

\* The entry selftest_apic asks for, and covers.
TimerEntry ==
    [vector |-> APIC_TIMER_VECTOR, destination |-> m.id,
     active_low |-> polarity_and_trigger(m.flags)[1],
     level_triggered |-> polarity_and_trigger(m.flags)[2], masked |-> FALSE]
Covers(gsi) == gsi < m.ioapic

\* Mutant: the half that holds the mask bit is written first.
FirstHalf_MutantLow(e, entry) == [e EXCEPT !.low = low_bits(entry)]

\* set_redirection writes two registers, one after the other.
FirstHalf(e, entry) == [e EXCEPT !.high = high_bits(entry)]
BothHalves(entry) == [low |-> low_bits(entry), high |-> high_bits(entry)]

RouteHigh ==
    /\ At(<<"apic", "route">>)
    /\ IF Covers(m.told)
         THEN /\ hw' = [hw EXCEPT !.io[m.told] = FirstHalf(@, TimerEntry)]
              /\ Goto(<<"apic", "low">>)
              /\ UNCHANGED log
         ELSE /\ Verdict("apic", FALSE)
              /\ Goto(<<"timer", "init">>)
              /\ UNCHANGED hw
    /\ UNCHANGED <<BootRest, cpu, irq>>

\* ... and reads both back.
RouteLow ==
    /\ At(<<"apic", "low">>)
    /\ \E e \in {BothHalves(TimerEntry)} :
          /\ hw' = [hw EXCEPT !.io[m.told] = e]
          /\ IF from_bits(e.low, e.high) = TimerEntry
               THEN Goto(<<"apic", "start">>) /\ UNCHANGED log
               ELSE Goto(<<"timer", "init">>) /\ Verdict("apic", FALSE)
    /\ UNCHANGED <<BootRest, cpu, irq>>

StartApic ==
    /\ At(<<"apic", "start">>)
    /\ irq' = Restarted(irq, APIC_TIMER_VECTOR)
    /\ hw' = [hw EXCEPT !.pit = "rate"]
    /\ cpu' = [cpu EXCEPT !.ifl = TRUE]
    /\ Goto(<<"apic", "wait">>)
    /\ UNCHANGED <<BootRest, log>>

set_masked(e) ==
    [e EXCEPT !.low = low_bits([from_bits(e.low, e.high) EXCEPT !.masked = TRUE])]

StopApic ==
    /\ At(<<"apic", "wait">>) /\ (Enough \/ OutOfPatience)
    /\ cpu' = [cpu EXCEPT !.ifl = FALSE]
    /\ hw' = [hw EXCEPT !.pit = "last", !.io[m.told] = set_masked(@)]
    /\ Verdict("apic", Enough)
    /\ Goto(<<"timer", "init">>)
    /\ UNCHANGED <<BootRest, irq>>

-----------------------------------------------------------------------------
(* irq.rs: the timer. *)

After(h, from, ticks) == (from + ticks) % WrapOf(h)

\* init_timer.  spin_ns never returns on a counter that stands still.  Between
\* two adjacent accesses the HPET moves by Jitter at most.
Jitter == 0 .. 1
init_timer ==
    /\ At(<<"timer", "init">>)
    /\ \/ /\ ~m.hpet \/ ~Decodes(m.clock)
          /\ Goto(<<"end", "tests">>) /\ Verdict("clock", FALSE)
          /\ UNCHANGED irq
       \/ /\ m.hpet /\ Decodes(m.clock) /\ ~m.stuck
          /\ \E e, d, s \in Jitter :
                LET h == m.clock
                    from == After(h, m.at, e)
                    read == After(h, from, ns_to_ticks(h, CalibrationNs) + d)
                IN  \E rate \in {Measure(h, m.speed, m.at, from, read, After(h, read, s))} :
                       /\ irq' = [irq EXCEPT !.rate = rate]
                       /\ IF rate = 0 THEN Goto(<<"end", "tests">>) /\ Verdict("clock", FALSE)
                                      ELSE Goto(<<"timer", "start">>) /\ UNCHANGED log
    /\ UNCHANGED <<BootRest, cpu, hw>>

StartTimer ==
    /\ At(<<"timer", "start">>)
    /\ IF Reload(irq.rate) = 0
         THEN /\ Verdict("timer", FALSE) /\ Goto(<<"run", "spawn">>) /\ run' = 1
              /\ UNCHANGED <<cpu, hw, irq>>
         ELSE /\ irq' = [Restarted(irq, LAPIC_TIMER_VECTOR) EXCEPT !.count = Reload(irq.rate)]
              /\ hw' = [hw EXCEPT !.lvt = "periodic"]
              /\ cpu' = [cpu EXCEPT !.ifl = TRUE]
              /\ Goto(<<"timer", "wait">>)
              /\ UNCHANGED <<log, run>>
    /\ UNCHANGED <<m, armed, tasks, tally>>

\* What the HPET shows since the timer was started, from just before it was.
TookNs ==
    elapsed_ns(m.clock, m.at,
               After(m.clock, m.at, PeriodsLast(m.speed, irq.count, irq.fired)))

\* The rate dies with this function and of TIMER_COUNT only matters, from here
\* on, that it is not zero: 1 stands for it.  The test takes a second, longer
\* than the 8254's last count.
StopTimer ==
    /\ At(<<"timer", "wait">>)
    /\ m.pit => hw.pit # "last"
    /\ \E ns \in {TookNs} :
          /\ irq.ticks >= Wanted \/ Overdue(ns)
          /\ Verdict("timer", irq.ticks >= Wanted /\ ~TooFast(ns) /\ ~TooSlow(ns))
    /\ cpu' = [cpu EXCEPT !.ifl = FALSE]
    /\ hw' = [hw EXCEPT !.lvt = "masked"]
    /\ irq' = [irq EXCEPT !.fired = 0, !.rate = 0, !.count = 1]
    /\ Goto(<<"run", "spawn">>) /\ run' = 1
    /\ UNCHANGED <<m, armed, tasks, tally>>

-----------------------------------------------------------------------------
(* The runs of tasks: sched::selftest and the three of usermode.rs. *)

\* usermode::init gives the programs a clock that already shows the time.
Seeded(i) == publish_ticks([i EXCEPT !.page = TRUE])

UserInit ==
    /\ At(<<"user", "init">>)
    /\ irq' = Seeded(irq)
    /\ Goto(<<"run", "spawn">>)
    /\ UNCHANGED <<BootRest, log, cpu, hw>>

Cast(r) ==
    CASE r = "sched" -> {Kernel}
      [] r = "user" -> {{"U1", "U2"}}
      [] r = "nc" -> {{"N"}}
      [] OTHER -> Casts

Spawn ==
    /\ At(<<"run", "spawn">>)
    /\ \E c \in Cast(Runs[run]) :
          pc' = [t \in Ctx |-> IF t \in c THEN "fresh" ELSE pc[t]]
    /\ tally' = [tally EXCEPT !.faults = 0, !.arm = (Runs[run] = "nc")]
    /\ Goto(<<"run", "tick">>)
    /\ UNCHANGED <<m, run, log, cpu, hw, irq, armed, ret, ip, landed, rip, seen, eps, mail>>

\* Where kmain goes after a run.
NextRun ==
    /\ run' = IF run = Len(Runs) THEN run ELSE run + 1
    /\ Goto(CASE run = 1 -> <<"user", "init">>
              [] run = Len(Runs) -> <<"end", "tests">>
              [] OTHER -> <<"run", "spawn">>)

\* start_ticking; selftest_noncanonical goes on whatever it says.
StartTicking ==
    /\ At(<<"run", "tick">>)
    /\ IF irq.count # 0
         THEN /\ irq' = [irq EXCEPT !.vec = LAPIC_TIMER_VECTOR]
              /\ hw' = [hw EXCEPT !.lvt = "periodic"]
              /\ cpu' = [cpu EXCEPT !.ifl = TRUE]
              /\ Goto(<<"run", "go">>)
              /\ UNCHANGED <<run, log>>
         ELSE /\ IF Runs[run] = "nc" THEN Goto(<<"run", "go">>) /\ UNCHANGED <<run, log>>
                                     ELSE NextRun /\ Verdict(Runs[run], FALSE)
              /\ UNCHANGED <<cpu, hw, irq>>
    /\ UNCHANGED <<m, armed, tasks, tally>>

\* sched::start: into the loop, round it, and out of it.
Start ==
    /\ At(<<"run", "go">>)
    /\ cpu' = [cpu EXCEPT !.saved = cpu.ifl, !.ifl = FALSE]
    /\ pc' = [pc EXCEPT ![Boot] = "start"]
    /\ UNCHANGED <<ControlRest, ret, ip, landed, rip, seen, eps, mail, tally>>

StartLoop ==
    /\ Cur = Boot /\ pc[Boot] = "start"
    /\ \/ /\ Ready # {}
          /\ \E u \in Ready : cpu' = enter(cpu, u)
          /\ UNCHANGED <<pc, stage>>
       \/ /\ Ready = {}
          /\ cpu' = [cpu EXCEPT !.ifl = cpu.saved]
          /\ pc' = [pc EXCEPT ![Boot] = "body"]
          /\ Goto(<<"run", "stop">>)
    /\ UNCHANGED <<m, run, log, hw, irq, armed, ret, ip, landed, rip, seen, eps, mail, tally>>

\* What each run is judged by, as far as this module follows it.
Judged(r) ==
    CASE r = "sched" -> \A t \in Kernel : pc[t] = "dead"
      [] r = "user" -> tally.faults = 1
      [] r = "nc" -> tally.faults > 0 /\ tally.irets > 0
      [] OTHER -> tally.faults = 0 /\ \A t \in User : pc[t] # "blocked"

StopTicking ==
    /\ At(<<"run", "stop">>)
    /\ cpu' = [cpu EXCEPT !.ifl = FALSE]
    /\ hw' = [hw EXCEPT !.lvt = "masked"]
    /\ tally' = [tally EXCEPT !.arm = FALSE]
    /\ Verdict(Runs[run], Judged(Runs[run]))
    /\ NextRun
    /\ UNCHANGED <<m, irq, armed, tasks>>

\* The completion line is only printed when it is true; the stack is then
\* overflowed on purpose, and the machine stops either way.
Finish ==
    /\ At(<<"end", "tests">>)
    /\ Goto(<<"over", IF log.failed = {} THEN "complete" ELSE "halted">>)
    /\ UNCHANGED <<BootRest, log, cpu, hw, irq>>

-----------------------------------------------------------------------------
Tested == {"guard", "null", "smap"}

BootStep ==
    \/ Breakpoint \/ InitPic \/ StartPic \/ StopPic \/ Discover
    \/ \E x \in Tested : arm_page_fault(x) \/ Touch(x) \/ Check(x)
    \/ init_apic \/ mask_all \/ RouteHigh \/ RouteLow \/ StartApic \/ StopApic
    \/ init_timer \/ StartTimer \/ StopTimer
    \/ UserInit \/ Spawn \/ StartTicking \/ Start \/ StopTicking \/ Finish

SwitchStep == ~Over /\ (Dispatch \/ Epilogue \/ Trampoline \/ StartLoop)

TaskStep ==
    /\ ~Over
    /\ \/ EnterRing3
       \/ \E t \in Tasks :
             \/ WaitDone(t) \/ ThreadExit(t) \/ UserFault(t) \/ Syscall(t)
             \/ on_syscall(t) \/ YieldCall(t) \/ Refused(t)
             \/ sys_send(t) \/ sys_recv(t) \/ Back(t) \/ Return(t)

Next ==
    \/ BootStep \/ SwitchStep \/ TaskStep
    \/ PitEdge \/ LapicTick \/ PicInterrupt \/ ApicInterrupt \/ Spurious

\* Interrupts come and go, but the code between two of them gets somewhere
\* (the timer is far slower than the CPU), a request that stands is delivered
\* although others are withdrawn, and a running timer expires again.
Fairness ==
    /\ SF_vars(BootStep) /\ SF_vars(TaskStep) /\ WF_vars(SwitchStep)
    /\ SF_vars(PicInterrupt) /\ SF_vars(ApicInterrupt)
    /\ WF_vars(PitEdge) /\ WF_vars(LapicTick)

Spec == Init /\ [][Next]_vars /\ Fairness

-----------------------------------------------------------------------------
(* Properties. *)

\* An interrupt is acknowledged before anything else runs: a controller never
\* has one in service outside its handler, not across a switch made by the
\* epilogue either, and not for a vector nothing asked for (irq.rs, sched.rs).
InServiceIsHandled == hw.pisr \union hw.isr # {} => pc[Cur] = "irq"

\* What justifies each self-test's failure.
Cause(test) ==
    CASE test \in {"null", "smap"} -> ~m.protects
      [] test = "pic" -> ~m.pit \/ ~m.patient
      [] test = "acpi" -> ~m.madt
      [] test = "apic" -> \/ ~m.lapic \/ ~m.pit \/ ~m.patient
                          \/ ~Covers(m.told) \/ m.told # m.wired
      [] test = "clock" -> ~m.hpet \/ ~Decodes(m.clock) \/ m.speed[1] = 0
      [] test = "timer" -> irq.count = 0 \/ ~m.prompt
      [] OTHER -> irq.count = 0

\* No self-test blames a machine that is in order: whatever interrupts are
\* pending from an earlier test, and however the tasks are interleaved, a
\* failure has a cause in the hardware (irq.rs, vm.rs, usermode.rs).
FailsOnlyForCause == \A test \in log.failed : test # "protocol" /\ Cause(test)

\* And none passes for the wrong reason: ticks counted by an earlier test,
\* arriving on another line, or left pending by firmware's own routing, do not
\* vouch for a route that is wrong.
PassesOnlyIfTrue ==
    /\ "null" \in log.passed \/ ("smap" \in log.passed /\ m.smap) => m.protects
    /\ "pic" \in log.passed => m.pit
    /\ "apic" \in log.passed => m.pit /\ m.told = m.wired
    /\ "timer" \in log.passed => m.speed[1] > 0
    /\ stage = <<"over", "complete">> => irq.count > 0 /\ m.pit /\ m.protects

\* Once the kernel has the I/O APIC, none of its entries is live with a vector
\* or a destination other than the one asked for: not as firmware left it, and
\* not between the two writes that program it (apic.rs, irq.rs).
RoutedAsAsked ==
    irq.using => \A g \in Gsis : g < m.ioapic =>
       \E e \in {from_bits(hw.io[g].low, hw.io[g].high)} :
          e \in Redirection /\ (~e.masked => e = TimerEntry)

\* The true rate of the local APIC's timer, in ticks a second.
TrueRate ==
    (m.speed[1] * NsPerSecond * FsPerNs) \div (m.speed[2] * m.clock.period_fs)

\* The calibration finds the rate to within three per cent and one count,
\* wherever in its range the HPET's counter stands, and gives up only on a
\* machine that has no clock or whose timer does not count (irq.rs).
RateMeasured ==
    /\ irq.rate # 0 =>
          \E off \in {100 * (irq.rate - TrueRate)} :
             \E slack \in {3 * TrueRate + (100 * NsPerSecond) \div CalibrationNs} :
                -slack <= off /\ off <= slack
    /\ "clock" \in log.failed => Cause("clock")

\* A deadline cut from the HPET does not fire early, and fires once its time
\* has passed unless the counter wraps meanwhile (irq.rs, deadline_micros).
Spans == {0, NsPerSecond \div TimerHz, Nominal}
DeadlineSound ==
    stage = <<"timer", "init">> /\ m.hpet /\ Decodes(m.clock) =>
       \A ns \in Spans : \A gone \in {(k * ns_to_ticks(m.clock, ns)) \div 4 : k \in 0 .. 8} :
          LET now == After(m.clock, m.at, gone)
              due == ticks_to_ns(m.clock, gone) > ns
          IN  /\ Fires(m.clock, m.at, now, ns) => ticks_to_ns(m.clock, gone + 1) >= ns
              /\ due /\ now >= m.at => Fires(m.clock, m.at, now, ns)

\* GS holds the kernel's block exactly inside the stub's own instructions: no
\* task is switched to, interrupted or killed with the swap outstanding
\* (syscall.rs, usermode.rs).
GsAtHome == cpu.gs = "in" <=> pc[Cur] \in {"stub", "served"}

\* Every entry from ring 3, by interrupt, fault or syscall, lands on the kernel
\* stack of the task that was running (sched.rs, syscall.rs).
LandsOnOwnStack == \A t \in User : landed[t] = t

\* Nothing the devices or the programs do ends in a fault of the kernel's own:
\* no interrupt on an exception vector, no sysretq to a bad address, no
\* unexpected page fault (traps.rs, syscall.rs, irq.rs).
KernelNeverFaults == stage # <<"over", "fault">>

\* The handler survives a page fault only while the test that armed it runs;
\* when programs run it never does (traps.rs).
ArmedOnlyInItsTest == armed.on => stage \in {"touch", "check"} \X {armed.at}

\* Ring 3 never reads a clock that disagrees with the kernel's (usermode.rs).
ClockInStep == Ring3(Cur) /\ irq.page => irq.clock = irq.ticks

\* Two waits nothing bounds: spin_ns on a counter that stands still, and tasks
\* that wait for a tick although the timer was never started.
WaitsForAClock ==
    \/ At(<<"timer", "init">>) /\ m.hpet /\ m.stuck
    \/ Cur \in Tasks /\ irq.count = 0 /\ Doing(Cur).op = "wait"

\* Bring-up ends: every machine gets to the last line of kmain, or halts with
\* a self-test failed, except on those two waits (main.rs).
BringUpEnds == <>(Over \/ WaitsForAClock)

\* The self-tests' verdicts are true, both ways (irq.rs, vm.rs, usermode.rs).
VerdictsTrue == FailsOnlyForCause /\ PassesOnlyIfTrue

\* Every way into the kernel, and every switch between two, finds the GS base
\* and the stack of the task that is running (syscall.rs, sched.rs).
EntersAsItself == GsAtHome /\ LandsOnOwnStack

\* Faults are survived only on purpose: the kernel has none of its own, and
\* the handler resumes only for the test that armed it (traps.rs).
FaultsOnlyOnPurpose == KernelNeverFaults /\ ArmedOnlyInItsTest

\* Time is told as it is: the timer's rate, the deadlines, and the clock the
\* programs read (irq.rs, usermode.rs).
TimeIsTold == RateMeasured /\ DeadlineSound /\ ClockInStep
=============================================================================
