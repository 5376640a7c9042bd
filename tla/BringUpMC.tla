------------------------------ MODULE BringUpMC -----------------------------
(***************************************************************************)
(* The machines BringUp is checked on: one in order, one with a busy host  *)
(* that also differs in what firmware may choose freely (the counter's     *)
(* period and reading, the GSI and flags of the 8254, SMAP), and machines  *)
(* with something wrong.  Time is scaled down: a nanosecond is ten         *)
(* femtoseconds and a second ten thousand nanoseconds.                     *)
(***************************************************************************)
EXTENDS BringUp

MCNarrowWrap == 2048
MCWideWrap == 2 ^ 20

Clock(fs, wide) == [period_fs |-> fs, counter_64bit |-> wide]

\* In order.  On Narrow the counter wraps while the timer is measured, and
\* again while it is tested.  What firmware left live names a vector of its own
\* here, and elsewhere one of the kernel's two.
Plain ==
    [protects |-> TRUE, smap |-> TRUE, patient |-> TRUE, prompt |-> TRUE,
     pit |-> TRUE, madt |-> TRUE, lapic |-> TRUE, hpet |-> TRUE, stuck |-> FALSE,
     id |-> 3, wired |-> 2, told |-> 2, flags |-> 0, ioapic |-> 3, left |-> 0,
     clock |-> Clock(10, TRUE), at |-> 0, speed |-> <<5, 1>>]
Narrow == [Plain EXCEPT !.clock = Clock(10, FALSE), !.at = MCNarrowWrap - 150,
                        !.left = 104]

\* A host too busy to take every tick of the timer before the next.
Busy ==
    [Plain EXCEPT !.prompt = FALSE, !.clock = Clock(20, FALSE), !.at = MCNarrowWrap - 3,
                  !.smap = FALSE, !.wired = 0, !.told = 0, !.flags = 15,
                  !.left = LAPIC_TIMER_VECTOR]

\* Something wrong.  Where that is found early the machine has no HPET either,
\* which ends its boot before the programs run.
NoHpet == [Plain EXCEPT !.hpet = FALSE]
Broken ==
    {NoHpet, [NoHpet EXCEPT !.protects = FALSE], [NoHpet EXCEPT !.pit = FALSE],
     [NoHpet EXCEPT !.patient = FALSE],
     [NoHpet EXCEPT !.ioapic = 2], [NoHpet EXCEPT !.told = 0, !.left = APIC_TIMER_VECTOR],
     [Plain EXCEPT !.madt = FALSE], [Plain EXCEPT !.lapic = FALSE],
     [Plain EXCEPT !.ioapic = 0], [Plain EXCEPT !.stuck = TRUE],
     [Plain EXCEPT !.clock = Clock(0, TRUE)],
     [Plain EXCEPT !.speed = <<0, 1>>], [Plain EXCEPT !.speed = <<1, 150>>]}

MCMachines == {Narrow, Busy} \union Broken

MCCasts == {{"SRV", "CLI"}, {"S5", "S6", "SNK"}}
=============================================================================
