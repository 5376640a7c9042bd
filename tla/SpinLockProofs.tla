--------------------------- MODULE SpinLockProofs ---------------------------
(***************************************************************************)
(* The ticket lock of crates/kernel/src/sync.rs for any number of cores    *)
(* and any ticket width that is larger than it: mutual exclusion, first    *)
(* come first served, and interrupts left as they were found.              *)
(***************************************************************************)
EXTENDS SpinLock, FiniteSetTheorems, TLAPS

-----------------------------------------------------------------------------
(* Tickets modulo their width *)

Succ(t) == (t + 1) % TicketMod

(* How many tickets after s the ticket t comes up. *)
Dist(t, s) == (t - s + TicketMod) % TicketMod

LEMMA CountsAreNaturals == TicketMod \in Nat \ {0} /\ Cardinality(Core) \in Nat
<1>1. Cardinality(Core) \in Nat
  BY CoreAssumption, FS_CardinalityType
<1> QED
  BY <1>1, TicketAssumption

LEMMA SuccIs ==
  ASSUME NEW t \in Ticket
  PROVE  /\ Succ(t) \in Ticket
         /\ Succ(t) = IF t + 1 = TicketMod THEN 0 ELSE t + 1
<1>1. TicketMod \in Nat \ {0}
  BY CountsAreNaturals
<1>2. CASE t + 1 = TicketMod
  BY <1>1, <1>2 DEF Succ, Ticket
<1>3. CASE t + 1 # TicketMod
  BY <1>1, <1>3 DEF Succ, Ticket
<1> QED
  BY <1>2, <1>3

LEMMA DistIs ==
  ASSUME NEW t \in Ticket, NEW s \in Ticket
  PROVE  Dist(t, s) = IF t >= s THEN t - s ELSE t - s + TicketMod
<1>1. TicketMod \in Nat \ {0}
  BY CountsAreNaturals
<1>2. ASSUME NEW m \in Nat \ {0}, NEW k \in 0 .. m - 1
      PROVE  k % m = k /\ (k + m) % m = k
  OBVIOUS
<1>3. CASE t >= s
  <2>1. t - s \in 0 .. TicketMod - 1
    BY <1>1, <1>3 DEF Ticket
  <2>2. ((t - s) + TicketMod) % TicketMod = t - s
    BY <1>1, <1>2, <2>1
  <2> QED
    BY <1>3, <2>2 DEF Dist
<1>4. CASE ~ (t >= s)
  <2>1. t - s + TicketMod \in 0 .. TicketMod - 1
    BY <1>1, <1>4 DEF Ticket
  <2> QED
    BY <1>1, <1>2, <1>4, <2>1 DEF Dist
<1> QED
  BY <1>3, <1>4

(* Distance is what tells tickets apart, and it grows by one with the ticket *)
(* handed out and shrinks by one with the ticket served.                     *)
LEMMA DistFacts ==
  ASSUME NEW t \in Ticket, NEW s \in Ticket
  PROVE  /\ Dist(t, s) \in Nat /\ Dist(t, s) < TicketMod
         /\ Dist(t, s) = 0 <=> t = s
         /\ Dist(t, s) + 1 < TicketMod => Dist(Succ(t), s) = Dist(t, s) + 1
         /\ t # s => Dist(t, Succ(s)) = Dist(t, s) - 1
         /\ \A u \in Ticket : Dist(u, s) = Dist(t, s) => u = t
<1>1. TicketMod \in Nat \ {0}
  BY CountsAreNaturals
<1>2. /\ Succ(t) \in Ticket /\ Succ(t) = IF t + 1 = TicketMod THEN 0 ELSE t + 1
      /\ Succ(s) \in Ticket /\ Succ(s) = IF s + 1 = TicketMod THEN 0 ELSE s + 1
  BY SuccIs
<1>3. \A a, b \in Ticket : Dist(a, b) = IF a >= b THEN a - b ELSE a - b + TicketMod
  BY DistIs
<1>4. Dist(t, s) \in Nat /\ Dist(t, s) < TicketMod /\ (Dist(t, s) = 0 <=> t = s)
  BY <1>1, <1>3 DEF Ticket
<1>5. Dist(t, s) + 1 < TicketMod => Dist(Succ(t), s) = Dist(t, s) + 1
  <2>1. Dist(Succ(t), s) = IF Succ(t) >= s THEN Succ(t) - s ELSE Succ(t) - s + TicketMod
    BY <1>2, <1>3
  <2>2. Dist(t, s) = IF t >= s THEN t - s ELSE t - s + TicketMod
    BY <1>3
  <2> QED
    BY <1>1, <1>2, <2>1, <2>2 DEF Ticket
<1>6. t # s => Dist(t, Succ(s)) = Dist(t, s) - 1
  <2>1. Dist(t, Succ(s)) = IF t >= Succ(s) THEN t - Succ(s) ELSE t - Succ(s) + TicketMod
    BY <1>2, <1>3
  <2>2. Dist(t, s) = IF t >= s THEN t - s ELSE t - s + TicketMod
    BY <1>3
  <2> QED
    BY <1>1, <1>2, <2>1, <2>2 DEF Ticket
<1>7. \A u \in Ticket : Dist(u, s) = Dist(t, s) => u = t
  BY <1>1, <1>3 DEF Ticket
<1> QED
  BY <1>4, <1>5, <1>6, <1>7

-----------------------------------------------------------------------------
(* The inductive invariant *)

pcOf(c) == pc[c][Active(c)]
ticketOf(c) == ticket[c][Active(c)]

(* The level of a core that does not run does not use the lock. *)
OneLevel == \A c \in Core, l \in Level : l # Active(c) => pc[c][l] = "out"

(* Interrupts are off from irq_save to irq_restore, the guard remembers how *)
(* they were, and nothing that has masked them is interrupted.              *)
Masking ==
  \A c \in Core :
    /\ handler[c] => ~ masked[c]
    /\ IF pcOf(c) = "out" THEN intr[c] <=> ~ handler[c] /\ ~ masked[c]
       ELSE ~ intr[c] /\ (irq[c][Active(c)] <=> ~ handler[c] /\ ~ masked[c])

(* The cores with a ticket: as many as there are tickets out, each with one *)
(* of its own, and the holder with the one that is served.                  *)
Queue == {c \in Core : pcOf(c) \in {"wait", "in"}}

Tickets ==
  /\ Dist(next, serving) = Cardinality(Queue)
  /\ \A c \in Queue : Dist(ticketOf(c), serving) < Dist(next, serving)
  /\ \A c, d \in Queue : ticketOf(c) = ticketOf(d) => c = d
  /\ \A c \in Queue : pcOf(c) = "in" => ticketOf(c) = serving

LockInv == TypeOK /\ OneLevel /\ Masking /\ Tickets

LEMMA InitLockInv == Init => LockInv
<1> SUFFICES ASSUME Init PROVE LockInv
  OBVIOUS
<1> USE DEF Init
<1>0. 0 \in Ticket
  BY CountsAreNaturals DEF Ticket
<1>1. TypeOK
  BY <1>0 DEF TypeOK, Level, PC
<1>2. OneLevel
  BY DEF OneLevel, Level, Active
<1>3. \A c \in Core : pcOf(c) = "out"
  BY DEF pcOf, Level, Active
<1>4. Masking
  BY <1>3 DEF Masking
<1>5. Queue = {}
  BY <1>3 DEF Queue
<1>6. Tickets
  BY <1>0, <1>5, DistFacts, FS_EmptySet DEF Tickets
<1> QED
  BY <1>1, <1>2, <1>4, <1>6 DEF LockInv

(* What a core does with the lock at the level that runs: the rest of the   *)
(* program counters stay.                                                   *)
LEMMA GotoFacts ==
  ASSUME TypeOK, NEW c \in Core, NEW from \in PC, NEW to \in PC,
         Goto(c, from, to), UNCHANGED handler
  PROVE  /\ pc' \in [Core -> [Level -> PC]]
         /\ pcOf(c) = from /\ pcOf(c)' = to
         /\ \A d \in Core \ {c} : pcOf(d)' = pcOf(d)
         /\ \A d \in Core : Active(d)' = Active(d) /\ Active(d) \in Level
         /\ OneLevel => OneLevel'
<1>1. \A d \in Core : Active(d)' = Active(d) /\ Active(d) \in Level
  BY DEF Active, Level
<1>2. pc \in [Core -> [Level -> PC]] /\ pc' = [pc EXCEPT ![c][Active(c)] = to]
  BY DEF TypeOK, Goto
<1>3. pc' \in [Core -> [Level -> PC]]
  BY <1>1, <1>2
<1>4. \A d \in Core, l \in Level :
        pc'[d][l] = IF d = c /\ l = Active(c) THEN to ELSE pc[d][l]
  BY <1>1, <1>2
<1>5. /\ pcOf(c) = from /\ pcOf(c)' = to
      /\ \A d \in Core \ {c} : pcOf(d)' = pcOf(d)
  BY <1>1, <1>4 DEF Goto, pcOf
<1>6. OneLevel => OneLevel'
  BY <1>1, <1>4 DEF OneLevel
<1> QED
  BY <1>1, <1>3, <1>5, <1>6

(* Steps that hand out and serve no ticket, and that no core with a ticket  *)
(* takes part in.                                                           *)
LEMMA QueueUntouched ==
  ASSUME Tickets, UNCHANGED <<next, serving>>,
         \A c \in Core : (pcOf(c)' = "wait" <=> pcOf(c) = "wait")
                      /\ (pcOf(c)' = "in" <=> pcOf(c) = "in"),
         \A c \in Queue : ticketOf(c)' = ticketOf(c)
  PROVE  Tickets'
<1>1. Queue' = Queue
  BY DEF Queue
<1>2. /\ Dist(next, serving)' = Dist(next, serving)
      /\ \A c \in Queue : Dist(ticketOf(c), serving)' = Dist(ticketOf(c), serving)
  BY DEF Dist
<1>3. \A c \in Queue : c \in Core
  BY DEF Queue
<1> QED
  BY <1>1, <1>2, <1>3 DEF Tickets


LEMMA TakeKeepsInv ==
  ASSUME LockInv, NEW c \in Core, Take(c)
  PROVE  LockInv'
<1>1. /\ TypeOK /\ OneLevel /\ Masking /\ Tickets
      /\ Goto(c, "saved", "wait") /\ UNCHANGED <<serving, intr, handler, irq, masked>>
      /\ next' = Succ(next) /\ ticket' = [ticket EXCEPT ![c][Active(c)] = next]
  BY DEF LockInv, Take, Succ
<1>2. /\ pc' \in [Core -> [Level -> PC]]
      /\ pcOf(c) = "saved" /\ pcOf(c)' = "wait"
      /\ \A d \in Core \ {c} : pcOf(d)' = pcOf(d)
      /\ \A d \in Core : Active(d)' = Active(d) /\ Active(d) \in Level
      /\ OneLevel'
  BY <1>1, GotoFacts DEF PC
<1>3. next \in Ticket /\ serving \in Ticket /\ ticket \in [Core -> [Level -> Ticket]]
  BY <1>1 DEF TypeOK
<1>4. next' \in Ticket /\ ticket' \in [Core -> [Level -> Ticket]]
  BY <1>1, <1>2, <1>3, SuccIs
<1>5. TypeOK'
  BY <1>1, <1>2, <1>4 DEF TypeOK
<1>6. Masking'
  BY <1>1, <1>2 DEF Masking
<1>7. /\ ticketOf(c)' = next
      /\ \A d \in Core : d # c => ticketOf(d)' = ticketOf(d)
      /\ \A d \in Core : ticketOf(d) \in Ticket
  BY <1>1, <1>2, <1>3 DEF ticketOf
<1>8. c \notin Queue /\ Queue' = Queue \cup {c} /\ Queue \subseteq Core
  BY <1>2 DEF Queue
<1>9. /\ Cardinality(Queue') = Cardinality(Queue) + 1
      /\ Cardinality(Queue) \in Nat /\ Cardinality(Queue) + 1 < TicketMod
  <2>1. IsFiniteSet(Queue) /\ IsFiniteSet(Queue') /\ Cardinality(Queue') <= Cardinality(Core)
    BY <1>8, CoreAssumption, FS_Subset
  <2>2. Cardinality(Queue') = Cardinality(Queue) + 1
    BY <1>8, <2>1, FS_AddElement
  <2>3. Cardinality(Queue) \in Nat
    BY <2>1, FS_CardinalityType
  <2> QED
    BY <2>1, <2>2, <2>3, CountsAreNaturals, TicketAssumption
<1>10. Dist(next', serving) = Dist(next, serving) + 1 /\ Dist(next, serving) \in Nat
  BY <1>1, <1>3, <1>9, DistFacts DEF Tickets
<1>11. \A d \in Core : Dist(ticketOf(d), serving) \in Nat
  BY <1>3, <1>7, DistFacts
<1>12. Tickets'
  <2>1. Dist(next', serving') = Cardinality(Queue')
    BY <1>1, <1>9, <1>10 DEF Tickets
  <2>2. ASSUME NEW d \in Queue'
        PROVE  Dist(ticketOf(d)', serving') < Dist(next', serving')
    BY <1>1, <1>7, <1>8, <1>10, <1>11 DEF Tickets
  <2>3. ASSUME NEW d \in Queue', NEW e \in Queue', ticketOf(d)' = ticketOf(e)'
        PROVE  d = e
    <3>1. \A f \in Queue : f \in Core /\ f # c /\ ticketOf(f)' = ticketOf(f) /\ ticketOf(f) # next
      BY <1>1, <1>7, <1>8, <1>10 DEF Tickets
    <3> QED
      BY <1>1, <1>7, <1>8, <2>3, <3>1 DEF Tickets
  <2>4. ASSUME NEW d \in Queue', pcOf(d)' = "in"
        PROVE  ticketOf(d)' = serving'
    BY <1>1, <1>2, <1>7, <1>8, <2>4 DEF Tickets
  <2>5. \A d, e \in Queue' : ticketOf(d)' = ticketOf(e)' => d = e
    BY <2>3
  <2>6. Dist(next, serving)' = Dist(next', serving')
    BY DEF Dist
  <2>7. \A d \in Queue' : Dist(ticketOf(d), serving)' = Dist(ticketOf(d)', serving')
    BY DEF Dist
  <2> QED
    BY <2>1, <2>2, <2>4, <2>5, <2>6, <2>7 DEF Tickets
<1> QED
  BY <1>2, <1>5, <1>6, <1>12 DEF LockInv

LEMMA ReleaseKeepsInv ==
  ASSUME LockInv, NEW c \in Core, Release(c)
  PROVE  LockInv'
<1>1. /\ TypeOK /\ OneLevel /\ Masking /\ Tickets
      /\ Goto(c, "in", "served") /\ UNCHANGED <<next, intr, handler, ticket, irq, masked>>
      /\ serving' = Succ(serving)
  BY DEF LockInv, Release, Succ
<1>2. /\ pc' \in [Core -> [Level -> PC]]
      /\ pcOf(c) = "in" /\ pcOf(c)' = "served"
      /\ \A d \in Core \ {c} : pcOf(d)' = pcOf(d)
      /\ \A d \in Core : Active(d)' = Active(d) /\ Active(d) \in Level
      /\ OneLevel'
  BY <1>1, GotoFacts DEF PC
<1>3. next \in Ticket /\ serving \in Ticket /\ ticket \in [Core -> [Level -> Ticket]]
  BY <1>1 DEF TypeOK
<1>4. serving' \in Ticket
  BY <1>1, <1>3, SuccIs
<1>5. TypeOK'
  BY <1>1, <1>2, <1>4 DEF TypeOK
<1>6. Masking'
  BY <1>1, <1>2 DEF Masking
<1>7. \A d \in Core : ticketOf(d)' = ticketOf(d) /\ ticketOf(d) \in Ticket
  BY <1>1, <1>2, <1>3 DEF ticketOf
<1>8. c \in Queue /\ Queue' = Queue \ {c} /\ Queue \subseteq Core
  BY <1>2 DEF Queue
<1>9. Cardinality(Queue') = Cardinality(Queue) - 1
  <2>1. IsFiniteSet(Queue)
    BY <1>8, CoreAssumption, FS_Subset
  <2> QED
    BY <1>8, <2>1, FS_RemoveElement
<1>10. ticketOf(c) = serving /\ \A d \in Queue' : ticketOf(d) # serving
  BY <1>1, <1>2, <1>8 DEF Tickets
<1>11. next # serving
  BY <1>1, <1>3, <1>8, <1>10, DistFacts DEF Tickets
<1>12. /\ Dist(next, serving') = Dist(next, serving) - 1
       /\ Dist(next, serving) \in Nat
       /\ \A d \in Queue' : /\ Dist(ticketOf(d), serving') = Dist(ticketOf(d), serving) - 1
                            /\ Dist(ticketOf(d), serving) \in Nat
  BY <1>1, <1>3, <1>7, <1>8, <1>10, <1>11, DistFacts
<1>13. Tickets'
  <2>1. Dist(next, serving)' = Cardinality(Queue')
    BY <1>1, <1>9, <1>12 DEF Tickets, Dist
  <2>2. ASSUME NEW d \in Queue'
        PROVE  Dist(ticketOf(d), serving)' < Dist(next, serving)'
    <3>1. Dist(ticketOf(d), serving) < Dist(next, serving)
      BY <1>1, <1>8 DEF Tickets
    <3>2. Dist(ticketOf(d), serving') < Dist(next, serving')
      BY <1>12, <3>1
    <3>3. Dist(ticketOf(d), serving)' = Dist(ticketOf(d), serving')
      BY <1>7, <1>8 DEF Dist
    <3>4. Dist(next, serving)' = Dist(next, serving')
      BY <1>1 DEF Dist
    <3> QED
      BY <3>2, <3>3, <3>4
  <2>3. \A d, e \in Queue' : ticketOf(d)' = ticketOf(e)' => d = e
    BY <1>1, <1>7, <1>8 DEF Tickets
  <2>4. \A d \in Queue' : pcOf(d)' # "in"
    BY <1>1, <1>2, <1>8, <1>10 DEF Tickets
  <2> QED
    BY <2>1, <2>2, <2>3, <2>4 DEF Tickets
<1> QED
  BY <1>2, <1>5, <1>6, <1>13 DEF LockInv


(* The other steps with the lock hand out no ticket and serve none. *)
LEMMA OtherLockStepsKeepInv ==
  ASSUME LockInv, NEW c \in Core, Save(c) \/ Enter(c) \/ Restore(c)
  PROVE  LockInv'
<1>1. /\ TypeOK /\ OneLevel /\ Masking /\ Tickets
      /\ UNCHANGED <<next, serving, handler, masked>>
  BY DEF LockInv, Save, Enter, Restore
<1>2. /\ intr \in [Core -> BOOLEAN] /\ irq \in [Core -> [Level -> BOOLEAN]]
      /\ ticket \in [Core -> [Level -> Ticket]] /\ 0 \in Ticket
  BY <1>1, CountsAreNaturals DEF TypeOK, Ticket
<1>3. CASE Save(c)
  <2>1. Goto(c, "out", "saved") /\ UNCHANGED ticket
    BY <1>3 DEF Save
  <2>2. /\ pc' \in [Core -> [Level -> PC]]
        /\ pcOf(c) = "out" /\ pcOf(c)' = "saved"
        /\ \A d \in Core \ {c} : pcOf(d)' = pcOf(d)
        /\ \A d \in Core : Active(d)' = Active(d) /\ Active(d) \in Level
        /\ OneLevel'
    BY <1>1, <2>1, GotoFacts DEF PC
  <2>3. /\ intr' \in [Core -> BOOLEAN] /\ irq' \in [Core -> [Level -> BOOLEAN]]
        /\ intr'[c] = FALSE /\ irq'[c][Active(c)] = intr[c]
        /\ \A d \in Core \ {c} : intr'[d] = intr[d] /\ irq'[d] = irq[d]
    BY <1>2, <1>3, <2>2 DEF Save
  <2>4. TypeOK'
    BY <1>1, <2>1, <2>2, <2>3 DEF TypeOK
  <2>5. Masking'
    BY <1>1, <2>2, <2>3 DEF Masking
  <2>6. Tickets'
    BY <1>1, <2>1, <2>2, QueueUntouched DEF Queue, ticketOf
  <2> QED
    BY <2>2, <2>4, <2>5, <2>6 DEF LockInv
<1>4. CASE Enter(c)
  <2>1. /\ Goto(c, "wait", "in") /\ UNCHANGED <<ticket, intr, irq>>
        /\ serving = ticketOf(c)
    BY <1>4 DEF Enter, ticketOf
  <2>2. /\ pc' \in [Core -> [Level -> PC]]
        /\ pcOf(c) = "wait" /\ pcOf(c)' = "in"
        /\ \A d \in Core \ {c} : pcOf(d)' = pcOf(d)
        /\ \A d \in Core : Active(d)' = Active(d) /\ Active(d) \in Level
        /\ OneLevel'
    BY <1>1, <2>1, GotoFacts DEF PC
  <2>3. TypeOK'
    BY <1>1, <2>1, <2>2 DEF TypeOK
  <2>4. Masking'
    BY <1>1, <2>1, <2>2 DEF Masking
  <2>5. Queue' = Queue /\ \A d \in Queue : d \in Core
    BY <2>2 DEF Queue
  <2>6. \A d \in Core : ticketOf(d)' = ticketOf(d)
    BY <2>1, <2>2 DEF ticketOf
  <2>7. /\ Dist(next, serving)' = Dist(next, serving)
        /\ \A d \in Queue : Dist(ticketOf(d), serving)' = Dist(ticketOf(d), serving)
    BY <1>1, <2>5, <2>6 DEF Dist
  <2>8. Tickets'
    BY <1>1, <2>1, <2>2, <2>5, <2>6, <2>7 DEF Tickets
  <2> QED
    BY <2>2, <2>3, <2>4, <2>8 DEF LockInv
<1>5. CASE Restore(c)
  <2>1. Goto(c, "served", "out")
    BY <1>5 DEF Restore
  <2>2. /\ pc' \in [Core -> [Level -> PC]]
        /\ pcOf(c) = "served" /\ pcOf(c)' = "out"
        /\ \A d \in Core \ {c} : pcOf(d)' = pcOf(d)
        /\ \A d \in Core : Active(d)' = Active(d) /\ Active(d) \in Level
        /\ OneLevel'
    BY <1>1, <2>1, GotoFacts DEF PC
  <2>3. /\ intr' \in [Core -> BOOLEAN] /\ irq' \in [Core -> [Level -> BOOLEAN]]
        /\ intr'[c] = (intr[c] \/ irq[c][Active(c)])
        /\ \A d \in Core \ {c} : intr'[d] = intr[d] /\ irq'[d] = irq[d]
    BY <1>2, <1>5, <2>2 DEF Restore
  <2>4. /\ ticket' \in [Core -> [Level -> Ticket]]
        /\ \A d \in Core \ {c} : ticket'[d] = ticket[d]
    BY <1>2, <1>5, <2>2 DEF Restore
  <2>5. TypeOK'
    BY <1>1, <2>2, <2>3, <2>4 DEF TypeOK
  <2>6. Masking'
    BY <1>1, <2>2, <2>3 DEF Masking
  <2>7. \A d \in Queue : ticketOf(d)' = ticketOf(d)
    BY <2>2, <2>4 DEF Queue, ticketOf
  <2>8. Tickets'
    BY <1>1, <2>2, <2>7, QueueUntouched
  <2> QED
    BY <2>2, <2>5, <2>6, <2>8 DEF LockInv
<1> QED
  BY <1>3, <1>4, <1>5

(* A core outside the lock masks interrupts, is interrupted or comes back. *)
LEMMA CoreStepsKeepInv ==
  ASSUME LockInv, NEW c \in Core,
         Mask(c, TRUE) \/ Mask(c, FALSE) \/ Interrupt(c) \/ Iret(c)
  PROVE  LockInv'
<1>1. /\ TypeOK /\ OneLevel /\ Masking /\ Tickets
      /\ UNCHANGED <<next, serving, pc, ticket, irq>>
  BY DEF LockInv, Mask, Interrupt, Iret
<1>2. /\ intr \in [Core -> BOOLEAN] /\ handler \in [Core -> BOOLEAN]
      /\ masked \in [Core -> BOOLEAN]
  BY <1>1 DEF TypeOK
<1>3. /\ intr' \in [Core -> BOOLEAN] /\ handler' \in [Core -> BOOLEAN]
      /\ masked' \in [Core -> BOOLEAN]
      /\ \A d \in Core \ {c} : /\ intr'[d] = intr[d] /\ handler'[d] = handler[d]
                               /\ masked'[d] = masked[d]
  BY <1>2 DEF Mask, Interrupt, Iret
<1>4. TypeOK'
  BY <1>1, <1>3 DEF TypeOK
(* Both levels of the core are out. *)
<1>5. pc[c]["main"] = "out" /\ pc[c]["irq"] = "out"
  <2>1. CASE Interrupt(c)
    <3>1. intr[c] /\ pcOf(c) = "out" /\ ~ handler[c]
      BY <1>1, <2>1 DEF Masking, Interrupt
    <3> QED
      BY <1>1, <3>1 DEF OneLevel, Active, Level, pcOf
  <2>2. CASE Iret(c)
    BY <1>1, <2>2 DEF Iret, OneLevel, Active, Level
  <2>3. CASE Mask(c, TRUE) \/ Mask(c, FALSE)
    BY <1>1, <2>3 DEF Mask, OneLevel, Active, Level
  <2> QED
    BY <2>1, <2>2, <2>3
<1>6. /\ pcOf(c) = "out" /\ pcOf(c)' = "out"
      /\ \A d \in Core \ {c} : /\ Active(d)' = Active(d) /\ pcOf(d)' = pcOf(d)
                               /\ ticketOf(d)' = ticketOf(d)
  BY <1>1, <1>3, <1>5 DEF pcOf, ticketOf, Active
<1>7. OneLevel'
  BY <1>1, <1>5, <1>6 DEF OneLevel, Level
<1>8. /\ handler'[c] => ~ masked'[c]
      /\ intr'[c] <=> ~ handler'[c] /\ ~ masked'[c]
  <2>1. CASE Interrupt(c)
    BY <1>1, <1>2, <1>6, <2>1 DEF Masking, Interrupt
  <2>2. CASE Iret(c)
    BY <1>1, <1>2, <1>6, <2>2 DEF Masking, Iret
  <2>3. CASE Mask(c, TRUE)
    BY <1>1, <1>2, <1>6, <2>3 DEF Mask
  <2>4. CASE Mask(c, FALSE)
    BY <1>1, <1>2, <1>6, <2>4 DEF Mask
  <2> QED
    BY <2>1, <2>2, <2>3, <2>4
<1>9. Masking'
  BY <1>1, <1>3, <1>6, <1>8 DEF Masking
<1>10. Tickets'
  BY <1>1, <1>6, QueueUntouched DEF Queue
<1> QED
  BY <1>4, <1>7, <1>9, <1>10 DEF LockInv

-----------------------------------------------------------------------------
(* Theorems *)

(* The inductive invariant of lock and drop (sync.rs): as many tickets are  *)
(* out as cores want the lock, no two alike, and interrupts are off between *)
(* irq_save and irq_restore.                                                *)
THEOREM LockInvariance == Spec => []LockInv
<1>1. Init => LockInv
  BY InitLockInv
<1>2. LockInv /\ [Next]_vars => LockInv'
  <2> SUFFICES ASSUME LockInv, [Next]_vars PROVE LockInv'
    OBVIOUS
  <2>1. CASE Next
    <3>1. PICK c \in Core : \/ Save(c) \/ Lock(c)
                            \/ Mask(c, TRUE) \/ Mask(c, FALSE)
                            \/ Interrupt(c) \/ Iret(c)
      BY <2>1 DEF Next
    <3> QED
      BY <3>1, TakeKeepsInv, ReleaseKeepsInv, OtherLockStepsKeepInv, CoreStepsKeepInv
      DEF Lock
  <2>2. CASE UNCHANGED vars
    <3>1. /\ TypeOK' /\ OneLevel' /\ Masking' /\ Queue' = Queue
          /\ \A c \in Core : pcOf(c)' = pcOf(c) /\ ticketOf(c)' = ticketOf(c)
      BY <2>2 DEF LockInv, vars, TypeOK, OneLevel, Masking, Queue, pcOf, ticketOf, Active
    <3>2. Tickets'
      BY <2>2, <3>1, QueueUntouched DEF LockInv, vars, Queue
    <3> QED
      BY <3>1, <3>2 DEF LockInv
  <2> QED
    BY <2>1, <2>2
<1> QED
  BY <1>1, <1>2, PTL DEF Spec

(* The types of the lock's words and of the state of the cores around it. *)
THEOREM LockTypes == Spec => []TypeOK
<1>1. LockInv => TypeOK
  BY DEF LockInv
<1> QED
  BY <1>1, LockInvariance, PTL

(* Two guards never exist at once, on however many cores and however the    *)
(* tickets wrap: what Deref and unsafe impl Sync for SpinLock rely on.      *)
THEOREM LockExcludes == Spec => []MutualExclusion
<1>1. LockInv => MutualExclusion
  <2> SUFFICES ASSUME LockInv, NEW x \in Holders, NEW y \in Holders
               PROVE  x = y
    BY DEF MutualExclusion
  <2>1. ASSUME NEW z \in Holders
        PROVE  /\ z = <<z[1], z[2]>> /\ z[1] \in Core
               /\ z[2] = Active(z[1]) /\ z[1] \in Queue /\ ticketOf(z[1]) = serving
    <3>1. z \in Core \X Level /\ pc[z[1]][z[2]] = "in"
      BY DEF Holders
    <3>2. z = <<z[1], z[2]>> /\ z[1] \in Core /\ z[2] \in Level
      BY <3>1
    <3>3. z[2] = Active(z[1])
      BY <3>1, <3>2 DEF LockInv, OneLevel
    <3>4. pcOf(z[1]) = "in"
      BY <3>1, <3>3 DEF pcOf
    <3> QED
      BY <3>2, <3>3, <3>4 DEF Queue, LockInv, Tickets
  <2>2. x[1] = y[1]
    BY <2>1 DEF LockInv, Tickets
  <2> QED
    BY <2>1, <2>2
<1> QED
  BY <1>1, LockInvariance, PTL

(* No handler runs inside lock or drop on its own core, where it could spin *)
(* on a ticket only that core can pass on, and afterwards interrupts are as *)
(* the caller had them (irq_save and irq_restore).                          *)
THEOREM LockMasks == Spec => []InterruptDiscipline
<1>1. LockInv => InterruptDiscipline
  BY DEF LockInv, InterruptDiscipline, NoSelfDeadlock, InterruptsAsFound,
         OneLevel, Masking, Active, Level, pcOf
<1> QED
  BY <1>1, LockInvariance, PTL

(* No core enters the lock past one that took its ticket earlier (the spin  *)
(* on serving in lock), across the wrap of the ticket counters as well.     *)
THEOREM LockIsFair == Spec => FirstComeFirstServed
<1> DEFINE InTurn == \A x, y \in Waiting :
                        pc'[x[1]][x[2]] = "in" => Behind(x) <= Behind(y)
<1>1. LockInv /\ [Next]_vars => [InTurn]_vars
  <2> SUFFICES ASSUME LockInv, Next, NEW x \in Waiting, NEW y \in Waiting,
                      pc'[x[1]][x[2]] = "in"
               PROVE  Behind(x) <= Behind(y)
    OBVIOUS
  <2>1. ASSUME NEW z \in Waiting
        PROVE  z[1] \in Core /\ z[2] \in Level /\ pc[z[1]][z[2]] = "wait"
    BY DEF Waiting
  <2>2. PICK c \in Core : \/ Save(c) \/ Lock(c)
                          \/ Mask(c, TRUE) \/ Mask(c, FALSE)
                          \/ Interrupt(c) \/ Iret(c)
    BY DEF Next
  <2>3. TypeOK /\ Active(c) \in Level
    BY DEF LockInv, Active, Level
  <2>4. serving = ticket[x[1]][x[2]]
    <3>1. CASE Enter(c)
      <4>1. pc' = [pc EXCEPT ![c][Active(c)] = "in"] /\ serving = ticket[c][Active(c)]
        BY <3>1 DEF Enter, Goto
      <4>2. x[1] = c /\ x[2] = Active(c)
        BY <2>1, <2>3, <4>1 DEF TypeOK
      <4> QED
        BY <4>1, <4>2
    <3>2. CASE Mask(c, TRUE) \/ Mask(c, FALSE) \/ Interrupt(c) \/ Iret(c)
      BY <2>1, <3>2 DEF Mask, Interrupt, Iret
    <3>3. ASSUME NEW to \in {"saved", "wait", "served", "out"},
                 pc' = [pc EXCEPT ![c][Active(c)] = to]
          PROVE  FALSE
      BY <2>1, <2>3, <3>3 DEF TypeOK
    <3> QED
      BY <2>2, <3>1, <3>2, <3>3 DEF Save, Lock, Take, Release, Restore, Goto
  <2>5. /\ ticket[x[1]][x[2]] \in Ticket /\ ticket[y[1]][y[2]] \in Ticket
        /\ serving \in Ticket
    BY <2>1, <2>3 DEF TypeOK
  <2>6. /\ Behind(x) = Dist(ticket[x[1]][x[2]], serving)
        /\ Behind(y) = Dist(ticket[y[1]][y[2]], serving)
    BY DEF Behind, Dist
  <2>7. Behind(x) = 0 /\ Behind(y) \in Nat
    BY <2>4, <2>5, <2>6, DistFacts
  <2> QED
    BY <2>7
<1> QED
  BY <1>1, LockInvariance, PTL DEF Spec, FirstComeFirstServed

=============================================================================
