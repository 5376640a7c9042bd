------------------------------ MODULE SpinLock ------------------------------
(***************************************************************************)
(* The ticket lock of crates/kernel/src/sync.rs: SpinLock::lock, the drop  *)
(* of the guard, and the masking of interrupts around them                 *)
(* (cpu::irq_save and irq_restore).  On every core ordinary kernel code    *)
(* may be interrupted by a handler that takes the same lock.  The atomic   *)
(* operations are single steps; Release and Acquire order the data under   *)
(* the lock as the steps are ordered here.                                 *)
(***************************************************************************)
EXTENDS Integers, FiniteSets

CONSTANTS Core,       \* the cores that use the lock
          TicketMod   \* tickets are counted modulo this: 2^32 in the code

ASSUME CoreAssumption == IsFiniteSet(Core)
ASSUME TicketAssumption == TicketMod \in Nat /\ Cardinality(Core) < TicketMod

(* Ordinary code and the interrupt handler of a core. *)
Level == {"main", "irq"}

VARIABLES
  next,     \* the next ticket to hand out
  serving,  \* the ticket being served
  intr,     \* RFLAGS.IF of each core
  handler,  \* whether the core is in its interrupt handler
  pc,       \* how far each level of each core is with the lock
  ticket,   \* its ticket
  irq,      \* SpinGuard.irq: whether interrupts were on when it came
  masked    \* history: whether ordinary code has masked interrupts itself

vars == <<next, serving, intr, handler, pc, ticket, irq, masked>>

Ticket == 0 .. TicketMod - 1

(* out: not using the lock.  saved: interrupts masked.  wait: spinning with *)
(* a ticket.  in: holding the guard.  served: lock released, interrupt      *)
(* state not restored yet.                                                  *)
PC == {"out", "saved", "wait", "in", "served"}

TypeOK ==
  /\ next \in Ticket
  /\ serving \in Ticket
  /\ intr \in [Core -> BOOLEAN]
  /\ handler \in [Core -> BOOLEAN]
  /\ pc \in [Core -> [Level -> PC]]
  /\ ticket \in [Core -> [Level -> Ticket]]
  /\ irq \in [Core -> [Level -> BOOLEAN]]
  /\ masked \in [Core -> BOOLEAN]

Init ==
  /\ next = 0
  /\ serving = 0
  /\ intr = [c \in Core |-> TRUE]
  /\ handler = [c \in Core |-> FALSE]
  /\ pc = [c \in Core |-> [l \in Level |-> "out"]]
  /\ ticket = [c \in Core |-> [l \in Level |-> 0]]
  /\ irq = [c \in Core |-> [l \in Level |-> FALSE]]
  /\ masked = [c \in Core |-> FALSE]

Active(c) == IF handler[c] THEN "irq" ELSE "main"

Goto(c, from, to) ==
  /\ pc[c][Active(c)] = from
  /\ pc' = [pc EXCEPT ![c][Active(c)] = to]

-----------------------------------------------------------------------------
(* lock *)

(* irq_save ... *)
Save(c) ==
  /\ Goto(c, "out", "saved")
  /\ irq' = [irq EXCEPT ![c][Active(c)] = intr[c]]
  /\ intr' = [intr EXCEPT ![c] = FALSE]
  /\ UNCHANGED <<next, serving, handler, ticket, masked>>

(* ... then the ticket ... *)
Take_MutantNotAtomic(c) ==
  /\ Goto(c, "saved", "wait")
  /\ ticket' = [ticket EXCEPT ![c][Active(c)] = next]
  /\ next' = (serving + 1) % TicketMod
  /\ UNCHANGED <<serving, intr, handler, irq, masked>>

Take(c) ==
  /\ Goto(c, "saved", "wait")
  /\ ticket' = [ticket EXCEPT ![c][Active(c)] = next]
  /\ next' = (next + 1) % TicketMod
  /\ UNCHANGED <<serving, intr, handler, irq, masked>>

(* ... and the spin, which ends when the ticket comes up. *)
Enter_MutantTakesAFreeLock(c) ==
  /\ Goto(c, "wait", "in")
  /\ \A d \in Core, l \in Level : pc[d][l] # "in"
  /\ UNCHANGED <<next, serving, intr, handler, ticket, irq, masked>>

Enter(c) ==
  /\ Goto(c, "wait", "in")
  /\ serving = ticket[c][Active(c)]
  /\ UNCHANGED <<next, serving, intr, handler, ticket, irq, masked>>

(* drop: release, then irq_restore, after which the guard is gone. *)
Release(c) ==
  /\ Goto(c, "in", "served")
  /\ serving' = (serving + 1) % TicketMod
  /\ UNCHANGED <<next, intr, handler, ticket, irq, masked>>

Restore_MutantAlwaysEnables(c) ==
  /\ Goto(c, "served", "out")
  /\ intr' = [intr EXCEPT ![c] = TRUE]
  /\ ticket' = [ticket EXCEPT ![c][Active(c)] = 0]
  /\ irq' = [irq EXCEPT ![c][Active(c)] = FALSE]
  /\ UNCHANGED <<next, serving, handler, masked>>

Restore(c) ==
  /\ Goto(c, "served", "out")
  /\ intr' = [intr EXCEPT ![c] = @ \/ irq[c][Active(c)]]
  /\ ticket' = [ticket EXCEPT ![c][Active(c)] = 0]
  /\ irq' = [irq EXCEPT ![c][Active(c)] = FALSE]
  /\ UNCHANGED <<next, serving, handler, masked>>

-----------------------------------------------------------------------------
(* The rest of the core *)

(* Ordinary code that uses no lock masks or unmasks interrupts. *)
Mask(c, on) ==
  /\ ~ handler[c]
  /\ pc[c]["main"] = "out"
  /\ masked' = [masked EXCEPT ![c] = on]
  /\ intr' = [intr EXCEPT ![c] = ~ on]
  /\ UNCHANGED <<next, serving, handler, pc, ticket, irq>>

(* An interrupt is taken wherever it is not masked; its gate masks them. *)
Interrupt(c) ==
  /\ intr[c]
  /\ handler' = [handler EXCEPT ![c] = TRUE]
  /\ intr' = [intr EXCEPT ![c] = FALSE]
  /\ UNCHANGED <<next, serving, pc, ticket, irq, masked>>

Iret(c) ==
  /\ handler[c]
  /\ pc[c]["irq"] = "out"
  /\ handler' = [handler EXCEPT ![c] = FALSE]
  /\ intr' = [intr EXCEPT ![c] = TRUE]
  /\ UNCHANGED <<next, serving, pc, ticket, irq, masked>>

Lock(c) == Take(c) \/ Enter(c) \/ Release(c) \/ Restore(c)

Next ==
  \E c \in Core :
    \/ Save(c) \/ Lock(c)
    \/ Mask(c, TRUE) \/ Mask(c, FALSE)
    \/ Interrupt(c) \/ Iret(c)

Spec == Init /\ [][Next]_vars

(* Every core goes on executing what it has begun. *)
Fairness == \A c \in Core : WF_vars(Lock(c))

FairSpec == Spec /\ Fairness

-----------------------------------------------------------------------------
(* Properties *)

Holders == {x \in Core \X Level : pc[x[1]][x[2]] = "in"}

(* Two guards never exist at once, neither on two cores nor on the two      *)
(* levels of one: the SAFETY argument of Deref and of unsafe impl Sync.     *)
MutualExclusion == \A x, y \in Holders : x = y

(* A handler never runs while the code it interrupted is anywhere between   *)
(* lock and the end of drop, so no core spins on a ticket that only it can  *)
(* pass on.                                                                 *)
NoSelfDeadlock == \A c \in Core : handler[c] => pc[c]["main"] = "out"

(* Releasing the lock leaves interrupts as the caller had them: off in a    *)
(* handler and in code that had masked them, on otherwise.                  *)
InterruptsAsFound ==
  \A c \in Core :
    pc[c][Active(c)] = "out" => (intr[c] <=> ~ handler[c] /\ ~ masked[c])

(* Every core that takes a ticket is served, in turn. *)
Served ==
  \A c \in Core, l \in Level : pc[c][l] = "wait" ~> pc[c][l] = "in"

(* No overtaking: while a core waits, those that hold a later ticket wait   *)
(* too.                                                                     *)
Behind(x) == (ticket[x[1]][x[2]] - serving + TicketMod) % TicketMod
Waiting == {x \in Core \X Level : pc[x[1]][x[2]] = "wait"}

FirstComeFirstServed ==
  [][\A x, y \in Waiting :
       pc'[x[1]][x[2]] = "in" => Behind(x) <= Behind(y)]_vars

(* lock masks interrupts for exactly as long as it must: no handler gets in *)
(* between, and afterwards they are as they were (sync.rs lock and drop).   *)
InterruptDiscipline == NoSelfDeadlock /\ InterruptsAsFound

=============================================================================
