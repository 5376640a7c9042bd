------------------------------- MODULE Timers -------------------------------
(***************************************************************************)
(* The arithmetic of the kernel's clocks and the register images of its    *)
(* interrupt routing: the HPET's counter and the deadlines cut from it     *)
(* (hpet.rs, irq.rs), the calibration of the local APIC's timer against it *)
(* and the verdict on the calibrated rate (irq.rs), and the 64-bit         *)
(* redirection entries of the I/O APIC (apic.rs).  A clock `h` is a record *)
(* [period_fs, counter_64bit]: what the capability register says.          *)
(***************************************************************************)
EXTENDS Integers

CONSTANTS
    NarrowWrap,      \* values of a 32-bit main counter
    WideWrap,        \* values of a 64-bit one
    MaxPeriod,       \* MAX_PERIOD_FS
    FsPerNs,         \* femtoseconds in a nanosecond
    NsPerSecond,     \* nanoseconds in a second
    CalibrationNs,   \* CALIBRATION_NS
    CountMax,        \* u32::MAX, the local APIC's count register
    TimerHz,         \* TIMER_HZ
    Wanted           \* WANTED, the ticks selftest_timer times

ASSUME TimerConstants ==
    /\ {NarrowWrap, WideWrap, MaxPeriod, FsPerNs, NsPerSecond, CalibrationNs,
        CountMax, TimerHz, Wanted} \subseteq Nat \ {0}
    /\ NarrowWrap < WideWrap
    \* The give-up time of selftest_timer fits in a narrow counter: 2^32
    \* ticks of 10 ns are 43 s and the test gives up after 2 s.
    /\ 3 * Wanted * (NsPerSecond \div TimerHz) < NarrowWrap

-----------------------------------------------------------------------------
(* The HPET. *)

\* Capabilities::from_bits refuses a period no such timer can have.
Decodes(h) == h.period_fs \in 1 .. MaxPeriod

WrapOf(h) == IF h.counter_64bit THEN WideWrap ELSE NarrowWrap

\* Mutant: a saturating subtraction.
elapsed_MutantNoWrap(h, from, to) == IF to >= from THEN to - from ELSE 0

\* Hpet::elapsed subtracts modulo the width of the counter.
elapsed(h, from, to) == (to - from) % WrapOf(h)

ticks_to_ns(h, ticks) == (ticks * h.period_fs) \div FsPerNs
ns_to_ticks(h, ns) == (ns * FsPerNs) \div h.period_fs
elapsed_ns(h, from, to) == ticks_to_ns(h, elapsed(h, from, to))

\* now_ns measures from zero, so it falls back when the counter wraps.
now_ns(h, counter) == elapsed_ns(h, 0, counter)

\* The predicate deadline_micros returns, asked when the counter reads `now`:
\* a saturating difference of two such stamps.
Fires(h, start, now, span) ==
    LET a == now_ns(h, start)
        b == now_ns(h, now)
    IN  (IF b > a THEN b - a ELSE 0) >= span

-----------------------------------------------------------------------------
(* Calibration.  The local APIC's timer counts speed[1] times for every    *)
(* speed[2] ticks of the HPET.                                             *)

ApicTicks(speed, t) == (t * speed[1]) \div speed[2]

\* timer_count and the subtraction from u32::MAX around it: how far a
\* one-shot count-down from the top has got, and it stops at zero.
Counted(speed, t) ==
    IF ApicTicks(speed, t) > CountMax THEN CountMax ELSE ApicTicks(speed, t)

\* The measurement of init_timer: the HPET reads `began` when the count-down
\* starts, `from` at its first reading, `read` when the count is read back and
\* `end` at its second.  0 stands for each of the errors returned.
Measure(h, speed, began, from, read, end) ==
    LET apic == Counted(speed, elapsed(h, began, read))
        ns == elapsed_ns(h, from, end)
    IN  IF apic = 0 \/ ns = 0 THEN 0 ELSE (apic * NsPerSecond) \div ns

\* The reload selftest_timer derives, or 0 when it does not fit.
Reload(rate) ==
    IF rate \div TimerHz \in 1 .. CountMax THEN rate \div TimerHz ELSE 0

Nominal == (Wanted * NsPerSecond) \div TimerHz

\* The asymmetric tolerance: 2 per cent early, 25 per cent late.
ErrorPermille(ns) ==
    ((IF ns < Nominal THEN Nominal - ns ELSE ns - Nominal) * 1000) \div Nominal
TooFast(ns) == ns < Nominal /\ ErrorPermille(ns) > 20
TooSlow(ns) == ns > Nominal /\ ErrorPermille(ns) > 250
Overdue(ns) == ns > 2 * Nominal

\* How long n periods of a reload really last, in ticks of the HPET.
PeriodsLast(speed, reload, n) == (n * reload * speed[2]) \div speed[1]

-----------------------------------------------------------------------------
(* The I/O APIC's redirection entries. *)

Redirection == [vector: 0 .. 255, destination: 0 .. 127,
                active_low: BOOLEAN, level_triggered: BOOLEAN, masked: BOOLEAN]

Bit(b, n) == IF b THEN 2 ^ n ELSE 0
HasBit(word, n) == (word \div 2 ^ n) % 2 = 1

low_bits(e) == e.vector + Bit(e.active_low, 13) + Bit(e.level_triggered, 15)
                        + Bit(e.masked, 16)
high_bits(e) == e.destination * 2 ^ 24
from_bits(low, high) ==
    [vector |-> low % 256, destination |-> (high \div 2 ^ 24) % 256,
     active_low |-> HasBit(low, 13), level_triggered |-> HasBit(low, 15),
     masked |-> HasBit(low, 16)]

MaskedEntry == [vector |-> 0, destination |-> 0, active_low |-> FALSE,
                level_triggered |-> FALSE, masked |-> TRUE]

\* The two two-bit fields of a MADT override; only 3 means low, or level.
polarity_and_trigger(flags) == <<flags % 4 = 3, (flags \div 4) % 4 = 3>>
=============================================================================
