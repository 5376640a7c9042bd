----------------------------- MODULE IpcProofs -----------------------------
(***************************************************************************)
(* The scheduler and the endpoints on top of it, for every number of       *)
(* tasks, endpoints and messages and every capacity: first the scheduler   *)
(* by itself, then the endpoints, then that they are channels.             *)
(***************************************************************************)
EXTENDS Ipc, SequenceTheorems, TLAPS

(***************************************************************************)
(* The scheduler's safety, for every number of tasks and every set of      *)
(* messages.  SchedAll is inductive: the three invariants the run checks   *)
(* need each other.  The two action properties follow from it.             *)
(***************************************************************************)
SchedAll == SchedInv /\ OnItsOwnStackAndTree /\ BuriedBySuccessor

(* What a switch away from the running task does to the invariant, for all *)
(* four places that make one: the task left behind becomes new, suspended  *)
(* in why, and next was ready or there is nobody.                          *)
LEMMA SwitchKeepsInv ==
  ASSUME SchedAll, phase = "run",
         NEW new \in {"Ready", "Blocked", "Dead"},
         NEW why \in Context,
         why = "exit" <=> new = "Dead",
         why = "recv" => new = "Blocked",
         NEW next \in Slot \cup {NONE},
         next \in Slot => tstate[next] = "Ready",
         SwitchAway([tstate EXCEPT ![current] = new], current, why, next),
         UNCHANGED <<ntasks, stack, space, tcr3, mailbox, KERNEL_ROOT>>
  PROVE  SchedAll'
<1> USE MaxTasksAssumption DEF Slot, NONE, KernelTree, NoTree
<1>1. /\ current \in Slot /\ tstate[current] = "Running" /\ next # current
      /\ PREV = NONE /\ KERNEL_ROOT = KernelTree
      /\ tstate \in [Slot -> State] /\ ctx \in [Slot -> Context]
  BY DEF SchedAll, SchedInv, TypeOK, PhaseBookkeeping, RunningIsCurrent
<1>2. /\ \A t \in Slot : tstate'[t] = IF t = next THEN "Running"
                                      ELSE IF t = current THEN new ELSE tstate[t]
      /\ \A t \in Slot : ctx'[t] = IF t = current THEN why ELSE ctx[t]
      /\ current' = next /\ PREV' = current /\ phase' = "settle"
      /\ rsp0' = IF next = NONE THEN rsp0 ELSE next
      /\ cr3' = IF next = NONE THEN KernelTree ELSE tcr3[next]
  BY <1>1 DEF SwitchAway, enter, State
<1>3. TypeOK'
  BY <1>1, <1>2 DEF SchedAll, SchedInv, TypeOK, SwitchAway, State, Phase
<1>4. RunningIsCurrent'
  BY <1>1, <1>2 DEF SchedAll, SchedInv, RunningIsCurrent
<1>5. SlotBookkeeping'
  BY <1>1, <1>2 DEF SchedAll, SchedInv, SlotBookkeeping
<1>6. PhaseBookkeeping'
  BY <1>1, <1>2 DEF PhaseBookkeeping
<1>7. OnItsOwnStackAndTree'
  BY <1>1, <1>2, <1>5, <1>4 DEF OnItsOwnStackAndTree, SlotBookkeeping, RunningIsCurrent
<1>8. BuriedBySuccessor'
  BY <1>1, <1>2 DEF SchedAll, SchedInv, BuriedBySuccessor, SlotBookkeeping
<1>9. InALiveTree'
  BY <1>1, <1>2, <1>7 DEF SchedAll, SchedInv, TypeOK, InALiveTree, SlotBookkeeping, OnItsOwnStackAndTree
<1>10. MailUntilTaken'
  BY <1>1, <1>2 DEF SchedAll, SchedInv, MailUntilTaken
<1>11. NoPanic'
  BY <1>2 DEF NoPanic
<1> QED
  BY <1>3, <1>4, <1>5, <1>6, <1>7, <1>8, <1>9, <1>10, <1>11 DEF SchedAll, SchedInv

(* The same for the switch out of the bootstrap context and for the return *)
(* to it, and for what post_switch does in the context that resumes.       *)
LEMMA StartPickKeepsInv ==
  ASSUME SchedAll, StartPick
  PROVE  SchedAll'
<1> USE MaxTasksAssumption DEF Slot, NONE, KernelTree, NoTree
<1>1. PICK first \in Slot :
        /\ tstate[first] = "Ready"
        /\ current' = first
        /\ tstate' = [tstate EXCEPT ![first] = "Running"]
        /\ rsp0' = first /\ cr3' = tcr3[first]
  BY DEF StartPick, first_ready, Nobody, ReadySet, enter
<1>2. /\ PREV' = NONE /\ PREV = NONE /\ phase' = "settle" /\ current = NONE
      /\ UNCHANGED <<ntasks, ctx, stack, space, tcr3, mailbox, KERNEL_ROOT>>
      /\ KERNEL_ROOT = KernelTree
  BY DEF StartPick, SchedAll, SchedInv, PhaseBookkeeping
<1>3. \A t \in Slot : tstate'[t] = IF t = first THEN "Running" ELSE tstate[t]
  BY <1>1 DEF SchedAll, SchedInv, TypeOK
<1>4. TypeOK'
  BY <1>1, <1>2 DEF SchedAll, SchedInv, TypeOK, State, Phase
<1>5. RunningIsCurrent'
  BY <1>1, <1>2, <1>3 DEF SchedAll, SchedInv, RunningIsCurrent
<1>6. SlotBookkeeping'
  BY <1>1, <1>2, <1>3 DEF SchedAll, SchedInv, SlotBookkeeping
<1>7. PhaseBookkeeping'
  BY <1>1, <1>2 DEF PhaseBookkeeping
<1>8. OnItsOwnStackAndTree'
  BY <1>1, <1>2, <1>3, <1>6 DEF OnItsOwnStackAndTree, SlotBookkeeping
<1>9. BuriedBySuccessor'
  BY <1>1, <1>2, <1>3 DEF SchedAll, SchedInv, BuriedBySuccessor
<1>10. InALiveTree'
  BY <1>1, <1>2, <1>3, <1>8 DEF SchedAll, SchedInv, TypeOK, InALiveTree, SlotBookkeeping, OnItsOwnStackAndTree
<1>11. MailUntilTaken'
  BY <1>1, <1>2, <1>3 DEF SchedAll, SchedInv, MailUntilTaken
<1>12. NoPanic'
  BY <1>2 DEF NoPanic
<1> QED
  BY <1>4, <1>5, <1>6, <1>7, <1>8, <1>9, <1>10, <1>11, <1>12 DEF SchedAll, SchedInv

LEMMA SettleKeepsInv ==
  ASSUME SchedAll, phase = "settle", NEW took,
         post_switch(took),
         UNCHANGED <<ntasks, tstate, ctx, tcr3, current, KERNEL_ROOT, cr3, rsp0>>,
         \/ current = NONE /\ phase' = "loop" /\ took = {}
         \/ current # NONE /\ phase' = "run" /\ took = {} /\ ctx[current] # "recv"
         \/ current # NONE /\ phase' = "run" /\ took = {current}
  PROVE  SchedAll'
<1> USE MaxTasksAssumption, EmptyAssumption DEF Slot, NONE, KernelTree, NoTree
<1>1. /\ PREV' = NONE
      /\ \A t \in Slot :
           /\ stack'[t] = IF t = PREV /\ tstate[t] = "Dead" THEN "freed" ELSE stack[t]
           /\ space'[t] = IF t = PREV /\ tstate[t] = "Dead" /\ space[t] = "live"
                          THEN "gone" ELSE space[t]
           /\ mailbox'[t] = IF (t = PREV /\ tstate[t] = "Dead") \/ t \in took
                            THEN Empty ELSE mailbox[t]
  BY DEF post_switch, Reaped
<1>2. /\ PREV # current /\ KERNEL_ROOT = KernelTree
      /\ current \in Slot \cup {NONE} /\ PREV \in Slot \cup {NONE}
      /\ \A t \in Slot : tstate[t] = "Running" <=> t = current
  BY DEF SchedAll, SchedInv, TypeOK, PhaseBookkeeping, RunningIsCurrent
<1>3. TypeOK'
  BY <1>1, <1>2 DEF SchedAll, SchedInv, TypeOK, post_switch, Phase
<1>4. RunningIsCurrent'
  BY <1>2 DEF RunningIsCurrent
<1>5. SlotBookkeeping'
  BY <1>1, <1>2 DEF SchedAll, SchedInv, SlotBookkeeping, BuriedBySuccessor
<1>6. PhaseBookkeeping'
  BY <1>1, <1>2 DEF PhaseBookkeeping
<1>7. OnItsOwnStackAndTree'
  BY <1>1, <1>2 DEF SchedAll, SchedInv, OnItsOwnStackAndTree
<1>8. BuriedBySuccessor'
  BY <1>1, <1>2 DEF SchedAll, SchedInv, BuriedBySuccessor
<1>9. InALiveTree'
  <2>1. cr3 \in Slot => current \in Slot /\ space[cr3] = "live" /\ cr3 = tcr3[current]
    BY <1>2 DEF SchedAll, SchedInv, InALiveTree, OnItsOwnStackAndTree
  <2>2. cr3 \in Slot => space'[cr3] = "live"
    BY <2>1, <1>1, <1>2 DEF SchedAll, SchedInv, InALiveTree, SlotBookkeeping
  <2> QED
    BY <2>2, <1>1, <1>2 DEF SchedAll, SchedInv, InALiveTree
<1>10. MailUntilTaken'
  BY <1>1, <1>2 DEF SchedAll, SchedInv, MailUntilTaken
<1>11. NoPanic'
  BY DEF NoPanic
<1> QED
  BY <1>3, <1>4, <1>5, <1>6, <1>7, <1>8, <1>9, <1>10, <1>11 DEF SchedAll, SchedInv

LEMMA SpawnKeepsInv ==
  ASSUME SchedAll, NEW sp, NEW root, SpawnTask(sp, root),
         \/ sp = "none" /\ root = cr3
         \/ sp = "live" /\ root = ntasks
  PROVE  SchedAll'
<1> USE MaxTasksAssumption DEF Slot, NONE, KernelTree, NoTree
<1>1. /\ ntasks \in Slot /\ tstate[ntasks] = "Absent" /\ current = NONE /\ PREV = NONE
      /\ phase = "kmain" /\ cr3 = KernelTree
  BY DEF SpawnTask, SchedAll, SchedInv, TypeOK, SlotBookkeeping, PhaseBookkeeping, InALiveTree
<1>2. /\ ntasks' = ntasks + 1
      /\ UNCHANGED <<mailbox, current, PREV, KERNEL_ROOT, cr3, rsp0, phase>>
      /\ \A t \in Slot :
           /\ tstate'[t] = IF t = ntasks THEN "Ready" ELSE tstate[t]
           /\ ctx'[t] = IF t = ntasks THEN "entry" ELSE ctx[t]
           /\ stack'[t] = IF t = ntasks THEN "held" ELSE stack[t]
           /\ space'[t] = IF t = ntasks THEN sp ELSE space[t]
           /\ tcr3'[t] = IF t = ntasks THEN root ELSE tcr3[t]
  BY <1>1 DEF SpawnTask, SchedAll, SchedInv, TypeOK, cpuVars
<1>3. TypeOK'
  BY <1>1, <1>2 DEF SpawnTask, SchedAll, SchedInv, TypeOK, State, Context
<1>4. RunningIsCurrent'
  BY <1>1, <1>2 DEF SchedAll, SchedInv, RunningIsCurrent
<1>5. SlotBookkeeping'
  BY <1>1, <1>2 DEF SchedAll, SchedInv, TypeOK, SlotBookkeeping
<1>6. PhaseBookkeeping'
  BY <1>1, <1>2 DEF SchedAll, SchedInv, PhaseBookkeeping
<1>7. OnItsOwnStackAndTree' /\ NoPanic'
  BY <1>1, <1>2 DEF OnItsOwnStackAndTree, NoPanic
<1>8. BuriedBySuccessor'
  BY <1>1, <1>2 DEF SchedAll, SchedInv, BuriedBySuccessor
<1>9. InALiveTree'
  BY <1>1, <1>2 DEF SchedAll, SchedInv, InALiveTree
<1>10. MailUntilTaken'
  BY <1>1, <1>2 DEF SchedAll, SchedInv, MailUntilTaken
<1> QED
  BY <1>3, <1>4, <1>5, <1>6, <1>7, <1>8, <1>9, <1>10 DEF SchedAll, SchedInv

(* Waking a parked task, with mail exactly if it is parked in recv. *)
LEMMA WakeKeepsInv ==
  ASSUME SchedAll, phase = "run", NEW t \in Slot, tstate[t] = "Blocked",
         tstate' = Awake(t),
         UNCHANGED <<ntasks, ctx, stack, space, tcr3, cpuVars>>,
         \/ ctx[t] = "send" /\ UNCHANGED mailbox
         \/ ctx[t] = "recv" /\ \E m \in Message : mailbox' = [mailbox EXCEPT ![t] = m]
  PROVE  SchedAll'
<1> USE MaxTasksAssumption, EmptyAssumption DEF Slot, NONE, KernelTree, NoTree, cpuVars
<1>1. /\ \A u \in Slot : tstate'[u] = IF u = t THEN "Ready" ELSE tstate[u]
      /\ \A u \in Slot : u # t => mailbox'[u] = mailbox[u]
      /\ mailbox'[t] # Empty <=> ctx[t] = "recv"
      /\ mailbox' \in [Slot -> Message \cup {Empty}]
      /\ tstate' \in [Slot -> State]
  BY ZenonT(30) DEF Awake, SchedAll, SchedInv, TypeOK, MailUntilTaken, State
<1>2. TypeOK'
  BY <1>1 DEF SchedAll, SchedInv, TypeOK
<1>3. RunningIsCurrent'
  BY <1>1 DEF SchedAll, SchedInv, RunningIsCurrent
<1>4. SlotBookkeeping'
  BY <1>1 DEF SchedAll, SchedInv, SlotBookkeeping
<1>5. PhaseBookkeeping' /\ NoPanic' /\ OnItsOwnStackAndTree'
  BY DEF SchedAll, SchedInv, PhaseBookkeeping, NoPanic, OnItsOwnStackAndTree
<1>6. BuriedBySuccessor'
  BY <1>1 DEF SchedAll, SchedInv, BuriedBySuccessor
<1>7. InALiveTree'
  BY <1>1 DEF SchedAll, SchedInv, InALiveTree
<1>8. MailUntilTaken'
  BY <1>1 DEF SchedAll, SchedInv, MailUntilTaken
<1> QED
  BY <1>2, <1>3, <1>4, <1>5, <1>6, <1>7, <1>8 DEF SchedAll, SchedInv

-----------------------------------------------------------------------------

(* The three switches of a running task, as uses of SwitchKeepsInv. *)
LEMMA RescheduleKeepsInv ==
  ASSUME SchedAll, InTask, reschedule,
         UNCHANGED <<ntasks, stack, space, tcr3, mailbox, KERNEL_ROOT>>
  PROVE  SchedAll'
<1>1. PICK next \in pick_next(tstate, current) \ {NONE} :
        SwitchAway([tstate EXCEPT ![current] = "Ready"], current, "resched", next)
  BY DEF reschedule
<1>2. next \in Slot /\ tstate[next] = "Ready"
  BY <1>1 DEF pick_next, ReadySet, Nobody
<1> QED
  BY <1>1, <1>2, SwitchKeepsInv DEF InTask, Context

LEMMA LeaveKeepsInv ==
  ASSUME SchedAll, InTask,
         NEW new \in {"Blocked", "Dead"},
         NEW why \in {"send", "recv", "exit"},
         why = "exit" <=> new = "Dead",
         NEW next \in pick_next([tstate EXCEPT ![current] = new], current),
         SwitchAway([tstate EXCEPT ![current] = new], current, why, next),
         UNCHANGED <<ntasks, stack, space, tcr3, mailbox, KERNEL_ROOT>>
  PROVE  SchedAll'
<1> DEFINE st == [tstate EXCEPT ![current] = new]
<1>1. tstate \in [Slot -> State] /\ new \in {"Blocked", "Dead"}
  BY DEF SchedAll, SchedInv, TypeOK
<1>2. next \in Slot \cup {NONE} /\ (next \in Slot => st[next] = "Ready")
  <2>1. NONE \notin Slot
    BY DEF NONE, Slot
  <2> QED
    BY <2>1 DEF pick_next, ReadySet, Nobody
<1>3. next \in Slot => tstate[next] = "Ready"
  BY <1>1, <1>2
<1> QED
  BY <1>2, <1>3, SwitchKeepsInv DEF InTask, Context

-----------------------------------------------------------------------------

(* No step of the scheduler, whatever the tasks do, breaks the invariant:   *)
(* one case per action of sched.rs.                                         *)
THEOREM SchedInductive == SchedAll /\ [Next]_schedVars => SchedAll'
<1> SUFFICES ASSUME SchedAll, [Next]_schedVars
             PROVE  SchedAll'
  OBVIOUS
<1>1. CASE Spawn
  BY <1>1, SpawnKeepsInv DEF Spawn
<1>2. CASE SpawnUser
  BY <1>2, SpawnKeepsInv DEF SpawnUser
<1>3. CASE Start
  <2>1. /\ cr3 = KernelTree /\ current = NONE /\ PREV = NONE
        /\ KERNEL_ROOT' = KernelTree /\ phase = "kmain" /\ phase' = "loop"
        /\ UNCHANGED <<taskVars, current, PREV, cr3, rsp0>>
    BY <1>3 DEF Start, SchedAll, SchedInv, PhaseBookkeeping, InALiveTree
  <2>2. TypeOK' /\ PhaseBookkeeping'
    BY <2>1 DEF SchedAll, SchedInv, TypeOK, taskVars, PhaseBookkeeping, Phase
  <2>3. RunningIsCurrent' /\ OnItsOwnStackAndTree' /\ InALiveTree' /\ NoPanic'
    BY <2>1 DEF SchedAll, SchedInv, taskVars, RunningIsCurrent, OnItsOwnStackAndTree, InALiveTree, NoPanic
  <2>4. BuriedBySuccessor' /\ SlotBookkeeping' /\ MailUntilTaken'
    BY <2>1, MaxTasksAssumption
    DEF SchedAll, SchedInv, taskVars, BuriedBySuccessor, SlotBookkeeping, MailUntilTaken, NONE, Slot
  <2> QED
    BY <2>2, <2>3, <2>4 DEF SchedAll, SchedInv
<1>4. CASE StartPick
  BY <1>4, StartPickKeepsInv
<1>5. CASE StartDone
  <2>1. /\ cr3 = KernelTree /\ current = NONE /\ PREV = NONE
        /\ phase = "loop" /\ phase' = "kmain"
        /\ UNCHANGED <<taskVars, current, PREV, KERNEL_ROOT, cr3, rsp0>>
    BY <1>5 DEF StartDone, SchedAll, SchedInv, PhaseBookkeeping, InALiveTree
  <2>2. TypeOK' /\ PhaseBookkeeping'
    BY <2>1 DEF SchedAll, SchedInv, TypeOK, taskVars, PhaseBookkeeping, Phase
  <2>3. RunningIsCurrent' /\ OnItsOwnStackAndTree' /\ InALiveTree' /\ NoPanic'
    BY <2>1 DEF SchedAll, SchedInv, taskVars, RunningIsCurrent, OnItsOwnStackAndTree, InALiveTree, NoPanic
  <2>4. BuriedBySuccessor' /\ SlotBookkeeping' /\ MailUntilTaken'
    BY <2>1, MaxTasksAssumption
    DEF SchedAll, SchedInv, taskVars, BuriedBySuccessor, SlotBookkeeping, MailUntilTaken, NONE, Slot
  <2> QED
    BY <2>2, <2>3, <2>4 DEF SchedAll, SchedInv
<1>6. CASE SettleBootstrap
  <2>1. KERNEL_ROOT = KernelTree /\ cr3 = KernelTree
    BY <1>6 DEF SettleBootstrap, SchedAll, SchedInv, PhaseBookkeeping, InALiveTree
  <2>2. UNCHANGED <<cr3, rsp0>>
    BY <1>6, <2>1 DEF SettleBootstrap, enter
  <2> QED
    BY <1>6, <2>2, SettleKeepsInv DEF SettleBootstrap
<1>7. CASE Resume
  <2>1. ctx[current] # "exit"
    BY <1>7, MaxTasksAssumption DEF Resume, SchedAll, SchedInv, TypeOK, SlotBookkeeping
  <2> QED
    BY <1>7, <2>1, SettleKeepsInv DEF Resume
<1>8. CASE ResumeRecv
  <2>1. mailbox[current] # Empty
    BY <1>8 DEF ResumeRecv, SchedAll, SchedInv, TypeOK, MailUntilTaken
  <2> QED
    BY <1>8, <2>1, SettleKeepsInv DEF ResumeRecv
<1>9. CASE Yield
  BY <1>9, RescheduleKeepsInv DEF Yield, InUserTask
<1>10. CASE Preempt
  BY <1>10, RescheduleKeepsInv DEF Preempt
<1>11. ASSUME NEW why \in {"send", "recv"}, Park(why)
       PROVE  SchedAll'
  BY <1>11, LeaveKeepsInv DEF Park, InUserTask
<1>12. CASE Unblock
  BY <1>12, WakeKeepsInv DEF Unblock, unblock, ParkedIn, InUserTask, InTask
<1>13. CASE Deliver
  BY <1>13, WakeKeepsInv DEF Deliver, deliver, ParkedIn, InUserTask, InTask
<1>14. CASE Exit
  BY <1>14, LeaveKeepsInv DEF Exit
<1>15. CASE UNCHANGED schedVars
  BY <1>15
  DEF schedVars, SchedAll, SchedInv, TypeOK, RunningIsCurrent, OnItsOwnStackAndTree, BuriedBySuccessor,
      InALiveTree, MailUntilTaken, NoPanic, SlotBookkeeping, PhaseBookkeeping
<1> QED
  BY <1>1, <1>2, <1>3, <1>4, <1>5, <1>6, <1>7, <1>8, <1>9, <1>10, <1>11, <1>12, <1>13,
     <1>14, <1>15 DEF Next

(* The state a core boots in satisfies the invariant. *)
LEMMA InitSchedAll == Init => SchedAll
<1> SUFFICES ASSUME Init PROVE SchedAll
  OBVIOUS
<1> USE MaxTasksAssumption DEF Init, Slot, NONE, KernelTree, NoTree
<1>1. TypeOK
  BY DEF TypeOK, State, Context, Phase
<1>2. RunningIsCurrent /\ OnItsOwnStackAndTree /\ BuriedBySuccessor /\ InALiveTree
  BY DEF RunningIsCurrent, OnItsOwnStackAndTree, BuriedBySuccessor, InALiveTree
<1>3. MailUntilTaken /\ NoPanic /\ SlotBookkeeping /\ PhaseBookkeeping
  BY DEF MailUntilTaken, NoPanic, SlotBookkeeping, PhaseBookkeeping
<1> QED
  BY <1>1, <1>2, <1>3 DEF SchedAll, SchedInv

(* Every state the scheduler reaches satisfies the invariant. *)
LEMMA SchedAllHolds == SchedSpec => []SchedAll
  BY InitSchedAll, SchedInductive, PTL DEF SchedSpec

(* The table, the core's registers and the half-made switch agree. *)
THEOREM SchedSafe == SchedSpec => []SchedInv
<1>1. SchedAll => SchedInv
  BY DEF SchedAll
<1> QED
  BY <1>1, SchedAllHolds, PTL

(* The variables keep their types. *)
THEOREM SchedTypeOK == SchedSpec => []TypeOK
<1>1. SchedAll => TypeOK
  BY DEF SchedAll, SchedInv
<1> QED
  BY <1>1, SchedAllHolds, PTL

(* A task runs on its own stack and in its own tree, both still allocated. *)
THEOREM RunsOnItsOwnStackAndTree == SchedSpec => []OnItsOwnStackAndTree
<1>1. SchedAll => OnItsOwnStackAndTree
  BY DEF SchedAll, SchedInv
<1> QED
  BY <1>1, SchedAllHolds, PTL

(* Dead tasks are buried exactly once, by their successor. *)
THEOREM DeadAreBuried == SchedSpec => []BuriedBySuccessor
<1>1. SchedAll => BuriedBySuccessor
  BY DEF SchedAll, SchedInv
<1> QED
  BY <1>1, SchedAllHolds, PTL

(* No receiver is ever woken without its message. *)
THEOREM NeverPanics == SchedSpec => []NoPanic
<1>1. SchedAll => NoPanic
  BY DEF SchedAll, SchedInv
<1> QED
  BY <1>1, SchedAllHolds, PTL

-----------------------------------------------------------------------------

(* Who is on the core changes, from one task to another, only in a switch   *)
(* to the task pick_next returned for the one that leaves.                  *)
LEMMA SwitchesFollowPickNext ==
  ASSUME SchedAll, Next, current # NONE, current' \notin {NONE, current}
  PROVE  /\ ntasks' = ntasks
         /\ current \in Slot /\ current' \in Slot
         /\ \A t \in Slot : tstate[t] = "Ready" => Off(current, current') <= Off(current, t)
<1>1. current \in Slot /\ tstate[current] = "Running" /\ tstate \in [Slot -> State]
  BY DEF SchedAll, SchedInv, TypeOK, RunningIsCurrent
<1>2. phase \notin {"kmain", "loop"}
  BY DEF SchedAll, SchedInv, PhaseBookkeeping
<1>3. ASSUME NEW st, NEW new, NEW why,
             NEW next \in pick_next(st, current) \ {NONE},
             SwitchAway([tstate EXCEPT ![current] = new], current, why, next),
             \A t \in Slot : tstate[t] = "Ready" => st[t] = "Ready",
             ntasks' = ntasks
      PROVE  /\ ntasks' = ntasks
             /\ current \in Slot /\ current' \in Slot
             /\ \A t \in Slot : tstate[t] = "Ready" => Off(current, current') <= Off(current, t)
  <2>1. next \in Slot /\ \A u \in Slot : st[u] = "Ready" => Off(current, next) <= Off(current, u)
    BY <1>3 DEF pick_next, ReadySet, Nobody
  <2>2. current' = next
    BY <1>3 DEF SwitchAway
  <2> QED
    BY <1>1, <1>3, <2>1, <2>2
<1>4. CASE Yield \/ Preempt
  <2>1. /\ ntasks' = ntasks
        /\ \E next \in pick_next(tstate, current) \ {NONE} :
             SwitchAway([tstate EXCEPT ![current] = "Ready"], current, "resched", next)
    BY <1>4 DEF Yield, Preempt, reschedule
  <2> QED
    BY <1>3, <2>1
<1>5. ASSUME NEW new \in {"Blocked", "Dead"}, NEW why, ntasks' = ntasks,
             NEW next \in pick_next([tstate EXCEPT ![current] = new], current),
             SwitchAway([tstate EXCEPT ![current] = new], current, why, next)
      PROVE  /\ ntasks' = ntasks
             /\ current \in Slot /\ current' \in Slot
             /\ \A t \in Slot : tstate[t] = "Ready" => Off(current, current') <= Off(current, t)
  <2>1. next # NONE
    BY <1>5 DEF SwitchAway
  <2>2. \A t \in Slot : tstate[t] = "Ready" => [tstate EXCEPT ![current] = new][t] = "Ready"
    BY <1>1
  <2> QED
    BY <1>3, <1>5, <2>1, <2>2
<1>6. CASE Park("send") \/ Park("recv")
  BY <1>5, <1>6 DEF Park
<1>7. CASE Exit
  BY <1>5, <1>7 DEF Exit
<1>8. CASE Spawn \/ SpawnUser \/ Start \/ StartPick \/ StartDone
  BY <1>2, <1>8 DEF Spawn, SpawnUser, SpawnTask, Start, StartPick, StartDone
<1>9. CASE SettleBootstrap \/ Resume \/ ResumeRecv \/ Unblock \/ Deliver
  BY <1>9 DEF SettleBootstrap, Resume, ResumeRecv, Unblock, Deliver, unblock, deliver, cpuVars
<1> QED
  BY <1>4, <1>6, <1>7, <1>8, <1>9 DEF Next

(* The scan visits each slot once a turn: what lies further off than the    *)
(* slot the core moves to is nearer from there.                             *)
LEMMA OffDecreases ==
  ASSUME SchedAll,
         NEW c \in Slot, NEW d \in Slot, NEW t \in Slot,
         c # d, c # t, d # t, Off(c, d) <= Off(c, t), c < ntasks, d < ntasks, t < ntasks
  PROVE  Off(d, t) < Off(c, t)
  BY MaxTasksAssumption DEF Off, Slot, SchedAll, SchedInv, TypeOK

(* Every task passed over by a switch is strictly nearer to its turn. *)
THEOREM SwitchesAreRoundRobin == SchedSpec => RoundRobin
<1> DEFINE Nearer == \A t \in Slot :
                       /\ current # NONE /\ current' \notin {NONE, current, t}
                       /\ tstate[t] = "Ready"
                       => Off(current', t) < Off(current, t)
<1>1. SchedAll /\ [Next]_schedVars => [Nearer]_schedVars
  <2> SUFFICES ASSUME SchedAll, Next,
                      NEW t \in Slot,
                      current # NONE, current' \notin {NONE, current, t},
                      tstate[t] = "Ready"
               PROVE  Off(current', t) < Off(current, t)
    BY DEF schedVars
  <2>1. /\ ntasks' = ntasks
        /\ current \in Slot /\ current' \in Slot
        /\ Off(current, current') <= Off(current, t)
    BY SwitchesFollowPickNext
  <2>2. SchedAll'
    BY SchedInductive
  <2>3. t < ntasks /\ current < ntasks /\ current # t
    BY <2>1, MaxTasksAssumption DEF SchedAll, SchedInv, TypeOK, SlotBookkeeping, RunningIsCurrent, Slot
  <2>4. current' < ntasks
    BY <2>1, <2>2, MaxTasksAssumption DEF SchedAll, SchedInv, TypeOK, SlotBookkeeping, RunningIsCurrent, Slot
  <2> QED
    BY <2>1, <2>3, <2>4, OffDecreases
<1> QED
  BY <1>1, SchedAllHolds, PTL DEF SchedSpec, RoundRobin

(* An address space is torn down only from outside it. *)
THEOREM TreesTornDownFromOutside == SchedSpec => TornDownFromOutside
<1> DEFINE Outside == \A t \in Slot : space[t] = "live" /\ space'[t] = "gone" =>
                        t \notin {current, current', cr3, cr3'}
<1>1. SchedAll /\ [Next]_schedVars => [Outside]_schedVars
  <2> SUFFICES ASSUME SchedAll, Next,
                      NEW t \in Slot, space[t] = "live", space'[t] = "gone"
               PROVE  t \notin {current, current', cr3, cr3'}
    BY DEF schedVars
  <2>1. SchedAll'
    BY SchedInductive
  <2>2. CASE SettleBootstrap \/ Resume \/ ResumeRecv
    <3>1. t = PREV /\ tstate[t] = "Dead" /\ current' = current
      BY <2>2 DEF SettleBootstrap, Resume, ResumeRecv, post_switch, Reaped
    <3>2. current # t /\ current' # t
      BY <3>1, <2>2 DEF SchedAll, SchedInv, RunningIsCurrent, SettleBootstrap, Resume, ResumeRecv
    <3>3. cr3' # t
      BY <2>1 DEF SchedAll, SchedInv, InALiveTree
    <3>4. cr3 # t
      <4>1. CASE SettleBootstrap
        BY <4>1, <3>1 DEF SettleBootstrap, SchedAll, SchedInv, InALiveTree, KernelTree, Slot
      <4>2. CASE Resume \/ ResumeRecv
        BY <4>2, <3>3 DEF Resume, ResumeRecv
      <4> QED
        BY <2>2, <4>1, <4>2
    <3> QED
      BY <3>2, <3>3, <3>4
  <2>3. CASE Spawn \/ SpawnUser
    BY <2>3 DEF Spawn, SpawnUser, SpawnTask, SchedAll, SchedInv, TypeOK
  <2>4. CASE \/ Start \/ StartPick \/ StartDone \/ Yield \/ Preempt
             \/ Park("send") \/ Park("recv") \/ Unblock \/ Deliver \/ Exit
    BY <2>4 DEF Start, StartPick, StartDone, Yield, Preempt, Park, Unblock, Deliver,
                unblock, deliver, Exit, taskVars
  <2> QED
    BY <2>2, <2>3, <2>4 DEF Next
<1> QED
  BY <1>1, SchedAllHolds, PTL DEF SchedSpec, TornDownFromOutside

(***************************************************************************)
(* The endpoints' safety.  The heart of it is QueuedIffParked: it makes    *)
(* every deliver and unblock the endpoints perform one the scheduler       *)
(* allows, so that the endpoints implement SchedSpec and inherit its       *)
(* theorems.                                                               *)
(***************************************************************************)

IpcInv ==
  /\ SchedAll
  /\ IpcTypeOK
  /\ QueuedIffParked
  /\ NoIdleWait

-----------------------------------------------------------------------------
(* A wait queue after a push and after a pop. *)

LEMMA QueueFacts ==
  ASSUME NEW S, NEW q \in Seq(S)
  PROVE  /\ Len(q) \in Nat /\ DOMAIN q = 1 .. Len(q)
         /\ \A i \in 1 .. Len(q) : q[i] \in S
         /\ q = <<>> <=> Len(q) = 0
  OBVIOUS

LEMMA PopFacts ==
  ASSUME NEW S, NEW q \in Seq(S), q # <<>>
  PROVE  /\ Head(q) \in S /\ Head(q) = q[1] /\ 1 \in 1 .. Len(q)
         /\ Tail(q) \in Seq(S) /\ Len(Tail(q)) = Len(q) - 1
         /\ \A i \in 1 .. Len(q) - 1 : Tail(q)[i] = q[i + 1]
  OBVIOUS

LEMMA PushFacts ==
  ASSUME NEW S, NEW q \in Seq(S), NEW x \in S
  PROVE  /\ Append(q, x) \in Seq(S) /\ Len(Append(q, x)) = Len(q) + 1
         /\ \A i \in 1 .. Len(q) + 1 : Append(q, x)[i] = IF i = Len(q) + 1 THEN x ELSE q[i]
  OBVIOUS

-----------------------------------------------------------------------------
(* Which tasks a step of the scheduler leaves parked. *)

(* Steps that park nobody and wake nobody. *)
LEMMA NobodyParksOrWakes ==
  ASSUME SchedAll, NEW t \in Slot,
         \/ SchedStep \/ ResumeRecv \/ Exit
         \/ UNCHANGED schedVars
  PROVE  /\ tstate'[t] = "Blocked" <=> tstate[t] = "Blocked"
         /\ tstate[t] = "Blocked" => ctx'[t] = ctx[t]
<1> USE MaxTasksAssumption DEF Slot, NONE
<1>1. /\ tstate \in [Slot -> State] /\ ctx \in [Slot -> Context]
      /\ InTask => current \in Slot /\ tstate[current] = "Running"
      /\ phase = "kmain" => tstate[ntasks] = "Absent" \/ ntasks \notin Slot
  BY DEF SchedAll, SchedInv, TypeOK, PhaseBookkeeping, RunningIsCurrent, SlotBookkeeping, InTask
<1>2. CASE Spawn \/ SpawnUser
  BY <1>1, <1>2 DEF Spawn, SpawnUser, SpawnTask
<1>3. CASE StartPick
  BY <1>1, <1>3 DEF StartPick, first_ready, Nobody, ReadySet
<1>4. CASE Start \/ StartDone \/ SettleBootstrap \/ Resume \/ ResumeRecv \/ UNCHANGED schedVars
  BY <1>4 DEF Start, StartDone, SettleBootstrap, Resume, ResumeRecv, schedVars, taskVars
<1>5. ASSUME NEW st, NEW new \in {"Ready", "Dead"}, NEW why, InTask,
             NEW next \in pick_next(st, current),
             \A u \in Slot : st[u] = "Ready" => tstate[u] # "Blocked",
             SwitchAway([tstate EXCEPT ![current] = new], current, why, next)
      PROVE  /\ tstate'[t] = "Blocked" <=> tstate[t] = "Blocked"
             /\ tstate[t] = "Blocked" => ctx'[t] = ctx[t]
  <2>1. next = NONE \/ (next \in Slot /\ tstate[next] # "Blocked")
    BY <1>5 DEF pick_next, ReadySet, Nobody
  <2> QED
    BY <1>1, <1>5, <2>1 DEF SwitchAway
<1>6. CASE Yield \/ Preempt
  <2>1. InTask /\ reschedule
    BY <1>6 DEF Yield, Preempt, InUserTask
  <2>2. PICK next \in pick_next(tstate, current) :
          SwitchAway([tstate EXCEPT ![current] = "Ready"], current, "resched", next)
    BY <2>1 DEF reschedule
  <2> QED
    BY <1>5, <2>1, <2>2
<1>7. CASE Exit
  <2>1. PICK next \in pick_next([tstate EXCEPT ![current] = "Dead"], current) :
          SwitchAway([tstate EXCEPT ![current] = "Dead"], current, "exit", next)
    BY <1>7 DEF Exit
  <2>2. \A u \in Slot : [tstate EXCEPT ![current] = "Dead"][u] = "Ready" => tstate[u] # "Blocked"
    BY <1>1
  <2> QED
    BY <1>5, <1>7, <2>1, <2>2 DEF Exit
<1> QED
  BY <1>2, <1>3, <1>4, <1>6, <1>7 DEF SchedStep

(* Park parks the running task and nobody else. *)
LEMMA ParkParksCurrent ==
  ASSUME SchedAll, NEW why \in {"send", "recv"}, Park(why), NEW t \in Slot
  PROVE  /\ current \in Slot /\ tstate[current] = "Running"
         /\ tstate'[t] = "Blocked" <=> (tstate[t] = "Blocked" \/ t = current)
         /\ ctx'[t] = IF t = current THEN why ELSE ctx[t]
<1> USE MaxTasksAssumption DEF Slot, NONE
<1> DEFINE st == [tstate EXCEPT ![current] = "Blocked"]
<1>1. /\ tstate \in [Slot -> State] /\ ctx \in [Slot -> Context]
      /\ current \in Slot /\ tstate[current] = "Running"
  BY DEF SchedAll, SchedInv, TypeOK, PhaseBookkeeping, RunningIsCurrent, Park, InUserTask, InTask
<1>2. PICK next \in pick_next(st, current) : SwitchAway(st, current, why, next)
  BY DEF Park
<1>3. next = NONE \/ (next \in Slot /\ st[next] = "Ready")
  BY <1>2 DEF pick_next, ReadySet, Nobody
<1> QED
  BY <1>1, <1>2, <1>3 DEF SwitchAway

(* deliver and unblock wake the task they are given. *)
LEMMA AwakeWakes ==
  ASSUME SchedAll, NEW w \in Slot, tstate' = Awake(w), NEW t \in Slot
  PROVE  tstate'[t] = "Blocked" <=> (tstate[t] = "Blocked" /\ t # w)
  BY DEF SchedAll, SchedInv, TypeOK, Awake, State

-----------------------------------------------------------------------------
(* A task joins a queue at its end, and the one at its front leaves it. *)

Queues == [Endpoint -> Seq(Slot)]

Joined(Q, e, c) == [Q EXCEPT ![e] = Append(@, c)]
Left(Q, e) == [Q EXCEPT ![e] = Tail(@)]

LEMMA JoinQueue ==
  ASSUME NEW Q \in Queues, NEW e \in Endpoint, NEW c \in Slot,
         ~ StandsIn(c, Q), AtMostOnce(Q)
  PROVE  /\ Joined(Q, e, c) \in Queues
         /\ AtMostOnce(Joined(Q, e, c))
         /\ \A t \in Slot : StandsIn(t, Joined(Q, e, c)) <=> (StandsIn(t, Q) \/ t = c)
<1> DEFINE n == Len(Q[e]) + 1
           R == Joined(Q, e, c)
<1>1. /\ R \in Queues /\ n \in Nat
      /\ DOMAIN R[e] = 1 .. n /\ DOMAIN Q[e] = 1 .. n - 1 /\ n \in 1 .. n
      /\ \A f \in Endpoint \ {e} : R[f] = Q[f]
      /\ \A i \in 1 .. n : R[e][i] = IF i = n THEN c ELSE Q[e][i]
  BY QueueFacts, PushFacts DEF Queues, Joined
<1>2. \A f \in Endpoint : \A i \in DOMAIN R[f] :
        \/ f = e /\ i = n /\ R[f][i] = c
        \/ i \in DOMAIN Q[f] /\ R[f][i] = Q[f][i]
  BY <1>1
<1>3. \A f \in Endpoint : \A i \in DOMAIN Q[f] : i \in DOMAIN R[f] /\ R[f][i] = Q[f][i]
  BY <1>1
<1> HIDE DEF n, R
<1>4. AtMostOnce(R)
  <2> SUFFICES ASSUME NEW f \in Endpoint, NEW g \in Endpoint,
                      NEW i \in DOMAIN R[f], NEW j \in DOMAIN R[g], R[f][i] = R[g][j]
               PROVE  f = g /\ i = j
    BY DEF AtMostOnce
  <2> QED
    BY <1>2 DEF AtMostOnce, StandsIn
<1>5. \A t \in Slot : StandsIn(t, R) <=> (StandsIn(t, Q) \/ t = c)
  <2>1. e \in Endpoint /\ n \in DOMAIN R[e] /\ R[e][n] = c
    BY <1>1
  <2> QED
    BY <2>1, <1>2, <1>3 DEF StandsIn
<1> QED
  BY <1>1, <1>4, <1>5 DEF R

LEMMA LeaveQueue ==
  ASSUME NEW Q \in Queues, NEW e \in Endpoint, Q[e] # <<>>, AtMostOnce(Q)
  PROVE  /\ Left(Q, e) \in Queues
         /\ AtMostOnce(Left(Q, e))
         /\ Head(Q[e]) \in Slot /\ StandsIn(Head(Q[e]), Q)
         /\ \A t \in Slot : StandsIn(t, Left(Q, e)) <=> (StandsIn(t, Q) /\ t # Head(Q[e]))
<1> DEFINE n == Len(Q[e]) - 1
           R == Left(Q, e)
           c == Head(Q[e])
<1>1. /\ R \in Queues /\ n \in Nat /\ c \in Slot
      /\ DOMAIN R[e] = 1 .. n /\ DOMAIN Q[e] = 1 .. n + 1 /\ 1 \in 1 .. n + 1
      /\ \A f \in Endpoint \ {e} : R[f] = Q[f]
      /\ \A i \in 1 .. n : R[e][i] = Q[e][i + 1]
      /\ Q[e][1] = c
  BY QueueFacts, PopFacts DEF Queues, Left
<1>2. \A f \in Endpoint \ {e} : DOMAIN R[f] = DOMAIN Q[f] /\ R[f] = Q[f]
  BY <1>1
<1>3. /\ \A i \in DOMAIN R[e] : i + 1 \in DOMAIN Q[e] /\ R[e][i] = Q[e][i + 1] /\ i \in Nat
      /\ \A i \in DOMAIN Q[e] : i = 1 \/ (i - 1 \in DOMAIN R[e] /\ R[e][i - 1] = Q[e][i])
      /\ 1 \in DOMAIN Q[e]
      /\ \A i \in DOMAIN R[e] : i + 1 # 1
      /\ \A i, j \in DOMAIN R[e] : i + 1 = j + 1 => i = j
  BY <1>1
<1> HIDE DEF n, R, c
<1>4. AtMostOnce(R)
  <2> SUFFICES ASSUME NEW f \in Endpoint, NEW g \in Endpoint,
                      NEW i \in DOMAIN R[f], NEW j \in DOMAIN R[g], R[f][i] = R[g][j]
               PROVE  f = g /\ i = j
    BY DEF AtMostOnce
  <2> QED
    BY <1>2, <1>3 DEF AtMostOnce
<1>5. StandsIn(c, Q)
  BY <1>1, <1>3 DEF StandsIn
<1>6. \A t \in Slot : StandsIn(t, R) <=> (StandsIn(t, Q) /\ t # c)
  <2>1. \A f \in Endpoint : \A i \in DOMAIN Q[f] : Q[f][i] = c => f = e /\ i = 1
    BY <1>1, <1>3 DEF AtMostOnce
  <2>2. ASSUME NEW t \in Slot, StandsIn(t, R)
        PROVE  StandsIn(t, Q) /\ t # c
    <3>1. PICK f \in Endpoint : \E i \in DOMAIN R[f] : R[f][i] = t
      BY <2>2 DEF StandsIn
    <3>2. PICK i \in DOMAIN R[f] : R[f][i] = t
      BY <3>1
    <3>3. PICK k \in DOMAIN Q[f] : Q[f][k] = t /\ (f = e => k # 1)
      BY <3>2, <1>2, <1>3
    <3> QED
      BY <3>3, <2>1 DEF StandsIn
  <2>3. ASSUME NEW t \in Slot, StandsIn(t, Q), t # c
        PROVE  StandsIn(t, R)
    <3>1. PICK f \in Endpoint : \E i \in DOMAIN Q[f] : Q[f][i] = t
      BY <2>3 DEF StandsIn
    <3>2. PICK i \in DOMAIN Q[f] : Q[f][i] = t
      BY <3>1
    <3>3. PICK k \in DOMAIN R[f] : R[f][k] = t
      BY <3>2, <2>3, <1>1, <1>2, <1>3, ZenonT(30)
    <3> QED
      BY <3>3 DEF StandsIn
  <2> QED
    BY <2>2, <2>3
<1> QED
  BY <1>1, <1>4, <1>5, <1>6 DEF R, c

(* The tasks of a queue of senders, and the messages they hold, after a     *)
(* push and after a pop.                                                    *)
LEMMA TasksFacts ==
  ASSUME NEW q \in Seq(SendWaiter)
  PROVE  /\ Tasks(q) \in Seq(Slot) /\ Len(Tasks(q)) = Len(q)
         /\ Tasks(q) = <<>> <=> q = <<>>
         /\ q # <<>> => /\ Head(q) \in SendWaiter
                        /\ Head(Tasks(q)) = Head(q).task
                        /\ Tasks(Tail(q)) = Tail(Tasks(q))
         /\ \A w \in SendWaiter : Tasks(Append(q, w)) = Append(Tasks(q), w.task)
<1>1. /\ DOMAIN q = 1 .. Len(q) /\ Len(q) \in Nat
      /\ \A i \in 1 .. Len(q) : q[i] \in SendWaiter
      /\ q = <<>> <=> Len(q) = 0
  BY QueueFacts
<1>2. \A w \in SendWaiter : w.task \in Slot
  BY DEF SendWaiter
<1>3. ASSUME NEW p \in Seq(SendWaiter)
      PROVE  /\ Tasks(p) \in Seq(Slot) /\ Len(Tasks(p)) = Len(p)
             /\ \A i \in 1 .. Len(p) : Tasks(p)[i] = p[i].task
  <2>1. /\ DOMAIN p = 1 .. Len(p) /\ Len(p) \in Nat
        /\ \A i \in 1 .. Len(p) : p[i] \in SendWaiter
    BY QueueFacts
  <2> QED
    BY <1>2, <2>1 DEF Tasks
<1>4. Tasks(q) = <<>> <=> q = <<>>
  BY <1>1, <1>3, QueueFacts
<1>5. ASSUME q # <<>>
      PROVE  /\ Head(q) \in SendWaiter
             /\ Head(Tasks(q)) = Head(q).task
             /\ Tasks(Tail(q)) = Tail(Tasks(q))
  <2>1. /\ Tail(q) \in Seq(SendWaiter) /\ Len(Tail(q)) = Len(q) - 1
        /\ Head(q) \in SendWaiter /\ Head(q) = q[1] /\ 1 \in 1 .. Len(q)
        /\ \A i \in 1 .. Len(q) - 1 : Tail(q)[i] = q[i + 1]
    BY <1>5, PopFacts
  <2>2. /\ Tail(Tasks(q)) \in Seq(Slot) /\ Len(Tail(Tasks(q))) = Len(q) - 1
        /\ Head(Tasks(q)) = Tasks(q)[1]
        /\ \A i \in 1 .. Len(q) - 1 : Tail(Tasks(q))[i] = Tasks(q)[i + 1]
    BY <1>3, <1>4, <1>5, PopFacts
  <2>3. Tasks(Tail(q)) \in Seq(Slot) /\ Len(Tasks(Tail(q))) = Len(q) - 1
    BY <1>3, <2>1
  <2>4. ASSUME NEW i \in 1 .. Len(q) - 1
        PROVE  Tasks(Tail(q))[i] = Tail(Tasks(q))[i]
    <3>1. i \in 1 .. Len(Tail(q)) /\ i + 1 \in 1 .. Len(q)
      BY <1>1, <2>1
    <3>2. Tasks(Tail(q))[i] = Tail(q)[i].task
      BY <1>3, <2>1, <3>1
    <3>3. Tail(q)[i].task = q[i + 1].task
      BY <2>1
    <3>4. Tasks(q)[i + 1] = q[i + 1].task
      BY <1>3, <3>1
    <3> QED
      BY <2>2, <3>2, <3>3, <3>4
  <2>5. Tasks(Tail(q)) = Tail(Tasks(q))
    BY <2>2, <2>3, <2>4, SeqEqual
  <2>6. Head(Tasks(q)) = Head(q).task
    BY <1>3, <2>1, <2>2
  <2> QED
    BY <2>1, <2>5, <2>6
<1>6. ASSUME NEW w \in SendWaiter
      PROVE  Tasks(Append(q, w)) = Append(Tasks(q), w.task)
  <2>1. /\ Append(q, w) \in Seq(SendWaiter) /\ Len(Append(q, w)) = Len(q) + 1
        /\ \A i \in 1 .. Len(q) + 1 : Append(q, w)[i] = IF i = Len(q) + 1 THEN w ELSE q[i]
    BY PushFacts
  <2>2. /\ Append(Tasks(q), w.task) \in Seq(Slot)
        /\ Len(Append(Tasks(q), w.task)) = Len(q) + 1
        /\ \A i \in 1 .. Len(q) + 1 :
             Append(Tasks(q), w.task)[i] = IF i = Len(q) + 1 THEN w.task ELSE Tasks(q)[i]
    BY <1>2, <1>3, PushFacts
  <2>3. Tasks(Append(q, w)) \in Seq(Slot) /\ Len(Tasks(Append(q, w))) = Len(q) + 1
    BY <1>3, <2>1
  <2>4. ASSUME NEW i \in 1 .. Len(q) + 1
        PROVE  Tasks(Append(q, w))[i] = Append(Tasks(q), w.task)[i]
    <3>1. Tasks(Append(q, w))[i] = Append(q, w)[i].task
      BY <1>3, <2>1
    <3>2. CASE i = Len(q) + 1
      BY <2>1, <2>2, <3>1, <3>2
    <3>3. CASE i # Len(q) + 1
      <4>1. i \in 1 .. Len(q)
        BY <1>1, <3>3
      <4>2. Append(q, w)[i] = q[i]
        BY <2>1, <3>3
      <4>3. Tasks(q)[i] = q[i].task
        BY <1>3, <4>1
      <4>4. Append(Tasks(q), w.task)[i] = Tasks(q)[i]
        BY <2>2, <3>3
      <4> QED
        BY <3>1, <4>2, <4>3, <4>4
    <3> QED
      BY <3>2, <3>3
  <2> QED
    BY <2>2, <2>3, <2>4, SeqEqual
<1> QED
  BY <1>3, <1>4, <1>5, <1>6

(* The queues of the endpoint table, as the two lemmas above take them. *)
LEMMA QueueViews ==
  ASSUME IpcTypeOK
  PROVE  /\ RecvQueue \in Queues /\ SendQueue \in Queues
         /\ \A e \in Endpoint :
              /\ RecvQueue[e] = ep[e].recv_waiters
              /\ SendQueue[e] = <<>> <=> ep[e].send_waiters = <<>>
              /\ ep[e].send_waiters # <<>> =>
                   /\ Head(ep[e].send_waiters) \in SendWaiter
                   /\ Head(SendQueue[e]) = Head(ep[e].send_waiters).task
<1>1. ASSUME NEW e \in Endpoint
      PROVE  /\ ep[e].recv_waiters \in Seq(Slot)
             /\ ep[e].send_waiters \in Seq(SendWaiter)
  BY DEF IpcTypeOK, EndpointRecord
<1> QED
  BY <1>1, TasksFacts DEF RecvQueue, SendQueue, Queues

-----------------------------------------------------------------------------

(* The endpoints call into the scheduler only in ways it allows: a send     *)
(* delivers to a parked receiver and a recv unblocks a parked sender.       *)
LEMMA IpcStepIsSchedStep ==
  ASSUME IpcInv, [IpcNext]_vars
  PROVE  [Next]_schedVars
<1>1. CASE SchedStep
  BY <1>1 DEF SchedStep, Next
<1>2. CASE RecvResumed
  BY <1>2 DEF RecvResumed, Next
<1>3. CASE TaskExit
  BY <1>3 DEF TaskExit, Next
<1>4. ASSUME NEW e \in Endpoint, NEW km \in Message, Send(e, km)
      PROVE  [Next]_schedVars
  <2>1. CASE SendDeliver(e, km)
    <3> DEFINE w == Head(ep[e].recv_waiters)
    <3>1. RecvQueue \in Queues /\ RecvQueue[e] = ep[e].recv_waiters /\ RecvQueue[e] # <<>>
      BY <2>1, QueueViews DEF SendDeliver, IpcInv
    <3>2. w \in Slot /\ StandsIn(w, RecvQueue)
      BY <3>1, LeaveQueue DEF IpcInv, QueuedIffParked
    <3>3. ParkedIn(w, "recv")
      BY <3>2 DEF IpcInv, QueuedIffParked
    <3> QED
      BY <2>1, <3>2, <3>3 DEF SendDeliver, Deliver, Next
  <2>2. CASE SendBuffered(e, km) \/ SendFull(e, km)
    BY <2>2 DEF SendBuffered, SendFull, vars
  <2>3. CASE SendBlock(e, km)
    BY <2>3 DEF SendBlock, Next
  <2> QED
    BY <1>4, <2>1, <2>2, <2>3 DEF Send
<1>5. ASSUME NEW e \in Endpoint, Recv(e)
      PROVE  [Next]_schedVars
  <2>1. CASE RecvWakeSender(e)
    <3> DEFINE w == Head(ep[e].send_waiters)
    <3>1. SendQueue \in Queues /\ SendQueue[e] # <<>> /\ Head(SendQueue[e]) = w.task
      BY <2>1, QueueViews DEF RecvWakeSender, IpcInv
    <3>2. w.task \in Slot /\ StandsIn(w.task, SendQueue)
      <4>1. Head(SendQueue[e]) \in Slot /\ StandsIn(Head(SendQueue[e]), SendQueue)
        BY <3>1, LeaveQueue DEF IpcInv, QueuedIffParked
      <4> QED
        BY <4>1, <3>1
    <3>3. ParkedIn(w.task, "send")
      BY <3>2 DEF IpcInv, QueuedIffParked
    <3>4. unblock(w.task)
      BY <2>1 DEF RecvWakeSender
    <3> QED
      BY <3>2, <3>3, <3>4 DEF Unblock, Next, SendWaiter
  <2>2. CASE RecvGot(e) \/ RecvFull(e)
    BY <2>2 DEF RecvGot, RecvFull, vars
  <2>3. CASE RecvBlock(e)
    BY <2>3 DEF RecvBlock, Next
  <2> QED
    BY <1>5, <2>1, <2>2, <2>3 DEF Recv
<1>6. CASE UNCHANGED vars
  BY <1>6 DEF vars
<1> QED
  BY <1>1, <1>2, <1>3, <1>4, <1>5, <1>6 DEF IpcNext

-----------------------------------------------------------------------------
(* What the operations on an endpoint record return. *)

LEMMA PushMsg ==
  ASSUME NEW r \in EndpointRecord, NEW km \in Message, r.len < RING_CAP
  PROVE  /\ push_msg(r, km) \in EndpointRecord
         /\ push_msg(r, km).len = r.len + 1
         /\ push_msg(r, km).recv_waiters = r.recv_waiters
         /\ push_msg(r, km).send_waiters = r.send_waiters
<1> USE RingCapAssumption DEF EndpointRecord
<1>1. Wrap(r.head + r.len) \in 0 .. RING_CAP - 1
  BY DEF Wrap
<1>2. [r.ring EXCEPT ![Wrap(r.head + r.len)] = km] \in [0 .. RING_CAP - 1 -> Message \cup {Empty}]
  OBVIOUS
<1>3. r.len + 1 \in 0 .. RING_CAP
  OBVIOUS
<1> QED
  BY <1>2, <1>3 DEF push_msg

LEMMA PopMsg ==
  ASSUME NEW r \in EndpointRecord, r.len > 0
  PROVE  /\ pop_msg(r) \in EndpointRecord
         /\ pop_msg(r).len = r.len - 1
         /\ pop_msg(r).recv_waiters = r.recv_waiters
         /\ pop_msg(r).send_waiters = r.send_waiters
         /\ oldest(r) \in Message \cup {Empty}
<1> USE RingCapAssumption DEF EndpointRecord
<1>1. Wrap(r.head + 1) \in 0 .. RING_CAP - 1
  BY DEF Wrap
<1>2. r.len - 1 \in 0 .. RING_CAP
  OBVIOUS
<1>3. oldest(r) \in Message \cup {Empty}
  BY DEF oldest
<1> QED
  BY <1>1, <1>2, <1>3 DEF pop_msg

LEMMA PushWaiter ==
  ASSUME NEW r \in EndpointRecord, NEW km \in Message, NEW t \in Slot
  PROVE  /\ push_recv_waiter(r, t) \in EndpointRecord
         /\ push_recv_waiter(r, t).len = r.len
         /\ push_recv_waiter(r, t).recv_waiters = Append(r.recv_waiters, t)
         /\ push_recv_waiter(r, t).send_waiters = r.send_waiters
         /\ push_send_waiter(r, t, km) \in EndpointRecord
         /\ push_send_waiter(r, t, km).len = r.len
         /\ push_send_waiter(r, t, km).recv_waiters = r.recv_waiters
         /\ push_send_waiter(r, t, km).send_waiters
              = Append(r.send_waiters, [task |-> t, km |-> km])
<1>1. r.recv_waiters \in Seq(Slot) /\ r.send_waiters \in Seq(SendWaiter)
  BY DEF EndpointRecord
<1>2. [task |-> t, km |-> km] \in SendWaiter
  BY DEF SendWaiter
<1>3. /\ Append(r.recv_waiters, t) \in Seq(Slot)
      /\ Append(r.send_waiters, [task |-> t, km |-> km]) \in Seq(SendWaiter)
  BY <1>1, <1>2, PushFacts
<1> QED
  BY <1>3 DEF EndpointRecord, push_recv_waiter, push_send_waiter

LEMMA PopReceiver ==
  ASSUME NEW r \in EndpointRecord, r.recv_waiters # <<>>
  PROVE  /\ pop_recv_waiter(r) \in EndpointRecord
         /\ pop_recv_waiter(r).len = r.len
         /\ pop_recv_waiter(r).recv_waiters = Tail(r.recv_waiters)
         /\ pop_recv_waiter(r).send_waiters = r.send_waiters
<1>1. Tail(r.recv_waiters) \in Seq(Slot)
  BY PopFacts DEF EndpointRecord
<1> QED
  BY <1>1 DEF EndpointRecord, pop_recv_waiter

LEMMA PopSender ==
  ASSUME NEW r \in EndpointRecord, r.send_waiters # <<>>
  PROVE  /\ pop_send_waiter(r) \in EndpointRecord
         /\ pop_send_waiter(r).len = r.len
         /\ pop_send_waiter(r).recv_waiters = r.recv_waiters
         /\ pop_send_waiter(r).send_waiters = Tail(r.send_waiters)
<1>1. Tail(r.send_waiters) \in Seq(SendWaiter)
  BY PopFacts DEF EndpointRecord
<1> QED
  BY <1>1 DEF EndpointRecord, pop_send_waiter

(* A task that is not blocked stands in no queue: forget_task finds nothing *)
(* to forget.                                                               *)
LEMMA ForgetsNobody ==
  ASSUME IpcInv, NEW t \in Slot, tstate[t] # "Blocked", NEW e \in Endpoint
  PROVE  remove_waiter(ep[e], t) = ep[e]
<1>1. ~ StandsIn(t, RecvQueue) /\ ~ StandsIn(t, SendQueue)
  BY DEF IpcInv, QueuedIffParked, ParkedIn
<1>2. \A i \in DOMAIN ep[e].recv_waiters : ep[e].recv_waiters[i] # t
  BY <1>1 DEF StandsIn, RecvQueue
<1>3. \A i \in DOMAIN ep[e].send_waiters : ep[e].send_waiters[i].task # t
  BY <1>1 DEF StandsIn, SendQueue, Tasks
<1>4. ep[e] \in EndpointRecord
  BY DEF IpcInv, IpcTypeOK
<1> QED
  BY <1>2, <1>3, <1>4 DEF remove_waiter, EndpointRecord

-----------------------------------------------------------------------------
(* The invariant, action by action. *)

(* The step replaced the record of one endpoint by r. *)
LEMMA OneRecordChanges ==
  ASSUME IpcInv, NEW e \in Endpoint, NEW r \in EndpointRecord,
         ep' = [ep EXCEPT ![e] = r],
         Len(r.recv_waiters) <= MAX_WAITERS, Len(r.send_waiters) <= MAX_WAITERS,
         r.recv_waiters # <<>> => r.len = 0,
         r.send_waiters # <<>> => r.len = RING_CAP,
         buf' \in [Slot -> Message \cup {Empty}]
  PROVE  /\ IpcTypeOK' /\ NoIdleWait'
         /\ RecvQueue' = [RecvQueue EXCEPT ![e] = r.recv_waiters]
         /\ SendQueue' = [SendQueue EXCEPT ![e] = Tasks(r.send_waiters)]
<1>1. /\ ep \in [Endpoint -> EndpointRecord] /\ ep' \in [Endpoint -> EndpointRecord]
      /\ ep'[e] = r /\ \A f \in Endpoint : f # e => ep'[f] = ep[f]
  BY DEF IpcInv, IpcTypeOK
<1>2. IpcTypeOK'
  BY <1>1 DEF IpcInv, IpcTypeOK
<1>3. NoIdleWait'
  BY <1>1 DEF IpcInv, NoIdleWait
<1>4. RecvQueue' = [RecvQueue EXCEPT ![e] = r.recv_waiters]
  BY <1>1 DEF RecvQueue
<1>5. SendQueue' = [SendQueue EXCEPT ![e] = Tasks(r.send_waiters)]
  BY <1>1 DEF SendQueue
<1> QED
  BY <1>2, <1>3, <1>4, <1>5

(* The queues are now Q and R, and the blocked tasks those that stand in    *)
(* them.                                                                    *)
LEMMA QueuedNext ==
  ASSUME NEW Q, NEW R, RecvQueue' = Q, SendQueue' = R, AtMostOnce(Q), AtMostOnce(R),
         \A t \in Slot : /\ (tstate'[t] = "Blocked" /\ ctx'[t] = "recv") <=> StandsIn(t, Q)
                         /\ (tstate'[t] = "Blocked" /\ ctx'[t] = "send") <=> StandsIn(t, R)
                         /\ tstate'[t] = "Blocked" => ctx'[t] \in {"send", "recv"}
  PROVE  QueuedIffParked'
  BY DEF QueuedIffParked, AtMostOnce, StandsIn, ParkedIn

(* The step neither parked nor woke anybody, nor changed a queue. *)
LEMMA QueuesUntouched ==
  ASSUME IpcInv, RecvQueue' = RecvQueue, SendQueue' = SendQueue,
         \A t \in Slot : /\ tstate'[t] = "Blocked" <=> tstate[t] = "Blocked"
                         /\ tstate[t] = "Blocked" => ctx'[t] = ctx[t]
  PROVE  QueuedIffParked'
<1>1. AtMostOnce(RecvQueue) /\ AtMostOnce(SendQueue)
  BY DEF IpcInv, QueuedIffParked
<1>2. \A t \in Slot :
        /\ (tstate'[t] = "Blocked" /\ ctx'[t] = "recv") <=> StandsIn(t, RecvQueue)
        /\ (tstate'[t] = "Blocked" /\ ctx'[t] = "send") <=> StandsIn(t, SendQueue)
        /\ tstate'[t] = "Blocked" => ctx'[t] \in {"send", "recv"}
  BY DEF IpcInv, QueuedIffParked, ParkedIn
<1> QED
  BY <1>1, <1>2, QueuedNext

LEMMA TypedRecord ==
  ASSUME IpcInv, NEW e \in Endpoint
  PROVE  /\ ep[e] \in EndpointRecord
         /\ ep[e].len \in 0 .. RING_CAP
         /\ ep[e].recv_waiters \in Seq(Slot) /\ ep[e].send_waiters \in Seq(SendWaiter)
         /\ Len(ep[e].recv_waiters) \in 0 .. MAX_WAITERS
         /\ Len(ep[e].send_waiters) \in 0 .. MAX_WAITERS
         /\ RecvQueue[e] = ep[e].recv_waiters
         /\ SendQueue[e] = Tasks(ep[e].send_waiters)
         /\ RecvQueue \in Queues /\ SendQueue \in Queues
         /\ buf \in [Slot -> Message \cup {Empty}]
<1>1. ep[e] \in EndpointRecord /\ buf \in [Slot -> Message \cup {Empty}]
  BY DEF IpcInv, IpcTypeOK
<1>2. /\ ep[e].len \in 0 .. RING_CAP
      /\ ep[e].recv_waiters \in Seq(Slot) /\ ep[e].send_waiters \in Seq(SendWaiter)
  BY <1>1 DEF EndpointRecord
<1>3. /\ Len(ep[e].recv_waiters) \in 0 .. MAX_WAITERS
      /\ Len(ep[e].send_waiters) \in 0 .. MAX_WAITERS
  BY <1>2, QueueFacts, MaxWaitersAssumption DEF IpcInv, IpcTypeOK
<1>4. /\ RecvQueue[e] = ep[e].recv_waiters
      /\ SendQueue[e] = Tasks(ep[e].send_waiters)
      /\ RecvQueue \in Queues /\ SendQueue \in Queues
  BY QueueViews DEF IpcInv, RecvQueue, SendQueue
<1> QED
  BY <1>1, <1>2, <1>3, <1>4

LEMMA SendDeliverKeeps ==
  ASSUME IpcInv, NEW e \in Endpoint, NEW km \in Message, SendDeliver(e, km)
  PROVE  IpcTypeOK' /\ QueuedIffParked' /\ NoIdleWait'
<1> DEFINE r == pop_recv_waiter(ep[e])
           w == Head(ep[e].recv_waiters)
           Q == Left(RecvQueue, e)
<1>1. /\ ep[e].recv_waiters # <<>> /\ deliver(w, km)
      /\ ep' = [ep EXCEPT ![e] = r] /\ buf' = buf
  BY DEF SendDeliver
<1>2. /\ r \in EndpointRecord /\ r.len = ep[e].len
      /\ r.recv_waiters = Tail(ep[e].recv_waiters)
      /\ r.send_waiters = ep[e].send_waiters
  BY <1>1, TypedRecord, PopReceiver
<1>3. Len(r.recv_waiters) <= MAX_WAITERS /\ Len(r.send_waiters) <= MAX_WAITERS
  BY <1>1, <1>2, TypedRecord, PopFacts, MaxWaitersAssumption
<1>4. (r.recv_waiters # <<>> => r.len = 0) /\ (r.send_waiters # <<>> => r.len = RING_CAP)
  BY <1>1, <1>2 DEF IpcInv, NoIdleWait
<1>5. IpcTypeOK' /\ NoIdleWait' /\ RecvQueue' = Q /\ SendQueue' = SendQueue
  <2>1. /\ IpcTypeOK' /\ NoIdleWait'
        /\ RecvQueue' = [RecvQueue EXCEPT ![e] = r.recv_waiters]
        /\ SendQueue' = [SendQueue EXCEPT ![e] = Tasks(r.send_waiters)]
    BY <1>1, <1>2, <1>3, <1>4, TypedRecord, OneRecordChanges
  <2>2. RecvQueue' = Q /\ SendQueue' = SendQueue
    BY <2>1, <1>2, TypedRecord DEF Queues, Left
  <2> QED
    BY <2>1, <2>2
<1>6. /\ AtMostOnce(Q) /\ w \in Slot
      /\ StandsIn(w, RecvQueue)
      /\ \A t \in Slot : StandsIn(t, Q) <=> (StandsIn(t, RecvQueue) /\ t # w)
  <2>1. /\ RecvQueue \in Queues /\ RecvQueue[e] # <<>> /\ Head(RecvQueue[e]) = w
        /\ AtMostOnce(RecvQueue)
    BY <1>1, TypedRecord DEF IpcInv, QueuedIffParked
  <2> HIDE DEF w
  <2> QED
    BY <2>1, LeaveQueue
<1>7. \A t \in Slot : /\ tstate'[t] = "Blocked" <=> (tstate[t] = "Blocked" /\ t # w)
                      /\ ctx'[t] = ctx[t]
  BY <1>1, <1>6, AwakeWakes DEF deliver, IpcInv
<1>8. ParkedIn(w, "recv")
  BY <1>6 DEF IpcInv, QueuedIffParked
<1>9. \A t \in Slot :
        /\ (tstate'[t] = "Blocked" /\ ctx'[t] = "recv") <=> StandsIn(t, Q)
        /\ (tstate'[t] = "Blocked" /\ ctx'[t] = "send") <=> StandsIn(t, SendQueue)
        /\ tstate'[t] = "Blocked" => ctx'[t] \in {"send", "recv"}
  BY <1>6, <1>7, <1>8 DEF IpcInv, QueuedIffParked, ParkedIn
<1>10. AtMostOnce(SendQueue)
  BY DEF IpcInv, QueuedIffParked
<1>11. QueuedIffParked'
  BY <1>5, <1>6, <1>9, <1>10, QueuedNext
<1> QED
  BY <1>5, <1>11

LEMMA SendBufferedKeeps ==
  ASSUME IpcInv, NEW e \in Endpoint, NEW km \in Message, SendBuffered(e, km)
  PROVE  IpcTypeOK' /\ QueuedIffParked' /\ NoIdleWait'
<1> DEFINE r == push_msg(ep[e], km)
<1>1. /\ ep[e].recv_waiters = <<>> /\ ep[e].len < RING_CAP
      /\ ep' = [ep EXCEPT ![e] = r] /\ buf' = buf
      /\ tstate' = tstate /\ ctx' = ctx
  BY DEF SendBuffered, schedVars
<1>2. /\ r \in EndpointRecord /\ r.len = ep[e].len + 1
      /\ r.recv_waiters = ep[e].recv_waiters /\ r.send_waiters = ep[e].send_waiters
  BY <1>1, TypedRecord, PushMsg
<1>3. Len(r.recv_waiters) <= MAX_WAITERS /\ Len(r.send_waiters) <= MAX_WAITERS
  BY <1>2, TypedRecord, MaxWaitersAssumption
<1>4. r.recv_waiters = <<>> /\ r.send_waiters = <<>>
  BY <1>1, <1>2, TypedRecord, RingCapAssumption DEF IpcInv, NoIdleWait
<1>5. /\ IpcTypeOK' /\ NoIdleWait'
      /\ RecvQueue' = [RecvQueue EXCEPT ![e] = r.recv_waiters]
      /\ SendQueue' = [SendQueue EXCEPT ![e] = Tasks(r.send_waiters)]
  BY <1>1, <1>2, <1>3, <1>4, TypedRecord, OneRecordChanges
<1>6. RecvQueue' = RecvQueue /\ SendQueue' = SendQueue
  BY <1>2, <1>5, TypedRecord DEF Queues
<1> QED
  BY <1>1, <1>5, <1>6, QueuesUntouched

LEMMA SendBlockKeeps ==
  ASSUME IpcInv, NEW e \in Endpoint, NEW km \in Message, SendBlock(e, km)
  PROVE  IpcTypeOK' /\ QueuedIffParked' /\ NoIdleWait'
<1> DEFINE r == push_send_waiter(ep[e], current, km)
           w == [task |-> current, km |-> km]
           Q == Joined(SendQueue, e, current)
<1>1. /\ ep[e].recv_waiters = <<>> /\ ep[e].len = RING_CAP
      /\ Len(ep[e].send_waiters) < MAX_WAITERS
      /\ ep' = [ep EXCEPT ![e] = r] /\ buf' = buf
      /\ Park("send")
  BY DEF SendBlock
<1>2. /\ current \in Slot /\ tstate[current] = "Running"
      /\ \A t \in Slot : /\ tstate'[t] = "Blocked" <=> (tstate[t] = "Blocked" \/ t = current)
                         /\ ctx'[t] = IF t = current THEN "send" ELSE ctx[t]
  <2>1. current \in Slot
    BY <1>1 DEF IpcInv, SchedAll, SchedInv, TypeOK, PhaseBookkeeping, Park, InUserTask, InTask
  <2> QED
    BY <1>1, <2>1, ParkParksCurrent DEF IpcInv
<1>3. /\ r \in EndpointRecord /\ r.len = ep[e].len
      /\ r.recv_waiters = ep[e].recv_waiters
      /\ r.send_waiters = Append(ep[e].send_waiters, w)
  BY <1>2, TypedRecord, PushWaiter
<1>4. w \in SendWaiter /\ w.task = current
  BY <1>2 DEF SendWaiter
<1>5. Len(r.recv_waiters) <= MAX_WAITERS /\ Len(r.send_waiters) <= MAX_WAITERS
  BY <1>1, <1>3, <1>4, TypedRecord, PushFacts, MaxWaitersAssumption
<1>6. Tasks(r.send_waiters) = Append(SendQueue[e], current)
  BY <1>3, <1>4, TypedRecord, TasksFacts
<1>7. IpcTypeOK' /\ NoIdleWait' /\ RecvQueue' = RecvQueue /\ SendQueue' = Q
  <2>1. /\ IpcTypeOK' /\ NoIdleWait'
        /\ RecvQueue' = [RecvQueue EXCEPT ![e] = r.recv_waiters]
        /\ SendQueue' = [SendQueue EXCEPT ![e] = Tasks(r.send_waiters)]
    <3>1. /\ r.recv_waiters # <<>> => r.len = 0
          /\ r.send_waiters # <<>> => r.len = RING_CAP
          /\ buf' \in [Slot -> Message \cup {Empty}]
      BY <1>1, <1>3, TypedRecord
    <3> HIDE DEF r
    <3> QED
      BY <1>1, <1>3, <1>5, <3>1, OneRecordChanges
  <2> QED
    BY <2>1, <1>3, <1>6, TypedRecord DEF Queues, Joined
<1>8. ~ StandsIn(current, SendQueue) /\ ~ StandsIn(current, RecvQueue)
  BY <1>2 DEF IpcInv, QueuedIffParked, ParkedIn
<1>9. /\ AtMostOnce(Q)
      /\ \A t \in Slot : StandsIn(t, Q) <=> (StandsIn(t, SendQueue) \/ t = current)
  <2>1. SendQueue \in Queues /\ AtMostOnce(SendQueue)
    BY TypedRecord DEF IpcInv, QueuedIffParked
  <2> QED
    BY <1>2, <1>8, <2>1, JoinQueue
<1> HIDE DEF Q, r, w
<1>10. \A t \in Slot :
         /\ (tstate'[t] = "Blocked" /\ ctx'[t] = "recv") <=> StandsIn(t, RecvQueue)
         /\ (tstate'[t] = "Blocked" /\ ctx'[t] = "send") <=> StandsIn(t, Q)
         /\ tstate'[t] = "Blocked" => ctx'[t] \in {"send", "recv"}
  <2> TAKE t \in Slot
  <2>1. CASE t = current
    BY <1>2, <1>8, <1>9, <2>1
  <2>2. CASE t # current
    BY <1>2, <1>9, <2>2 DEF IpcInv, QueuedIffParked, ParkedIn
  <2> QED
    BY <2>1, <2>2
<1>11. AtMostOnce(RecvQueue)
  BY DEF IpcInv, QueuedIffParked
<1> QED
  BY <1>7, <1>9, <1>10, <1>11, QueuedNext

LEMMA RecvGotKeeps ==
  ASSUME IpcInv, NEW e \in Endpoint, RecvGot(e)
  PROVE  IpcTypeOK' /\ QueuedIffParked' /\ NoIdleWait'
<1> DEFINE r == pop_msg(ep[e])
<1>1. /\ ep[e].len > 0 /\ ep[e].send_waiters = <<>>
      /\ ep' = [ep EXCEPT ![e] = r] /\ buf' = [buf EXCEPT ![current] = oldest(ep[e])]
      /\ tstate' = tstate /\ ctx' = ctx
  BY DEF RecvGot, schedVars
<1>2. /\ r \in EndpointRecord /\ r.len = ep[e].len - 1
      /\ r.recv_waiters = ep[e].recv_waiters /\ r.send_waiters = ep[e].send_waiters
  BY <1>1, TypedRecord, PopMsg
<1>3. Len(r.recv_waiters) <= MAX_WAITERS /\ Len(r.send_waiters) <= MAX_WAITERS
  BY <1>2, TypedRecord, MaxWaitersAssumption
<1>4. r.recv_waiters = <<>> /\ r.send_waiters = <<>>
  BY <1>1, <1>2 DEF IpcInv, NoIdleWait
<1>5. buf' \in [Slot -> Message \cup {Empty}]
  <2>1. oldest(ep[e]) \in Message \cup {Empty}
    BY <1>1, TypedRecord, PopMsg
  <2> QED
    BY <1>1, <2>1, TypedRecord
<1>6. /\ IpcTypeOK' /\ NoIdleWait'
      /\ RecvQueue' = [RecvQueue EXCEPT ![e] = r.recv_waiters]
      /\ SendQueue' = [SendQueue EXCEPT ![e] = Tasks(r.send_waiters)]
  BY <1>1, <1>2, <1>3, <1>4, <1>5, OneRecordChanges
<1>7. RecvQueue' = RecvQueue /\ SendQueue' = SendQueue
  BY <1>2, <1>6, TypedRecord DEF Queues
<1> QED
  BY <1>1, <1>6, <1>7, QueuesUntouched

LEMMA RecvWakeSenderKeeps ==
  ASSUME IpcInv, NEW e \in Endpoint, RecvWakeSender(e)
  PROVE  IpcTypeOK' /\ QueuedIffParked' /\ NoIdleWait'
<1> DEFINE w == Head(ep[e].send_waiters)
           p == pop_msg(ep[e])
           q == pop_send_waiter(p)
           r == push_msg(q, w.km)
           Q == Left(SendQueue, e)
<1>1. /\ ep[e].len > 0 /\ ep[e].send_waiters # <<>>
      /\ ep' = [ep EXCEPT ![e] = r] /\ buf' = [buf EXCEPT ![current] = oldest(ep[e])]
      /\ unblock(w.task)
  BY DEF RecvWakeSender
<1>2. w \in SendWaiter /\ w.km \in Message /\ w.task = Head(SendQueue[e])
  BY <1>1, TypedRecord, TasksFacts DEF SendWaiter
<1>3. ep[e].len = RING_CAP /\ ep[e].recv_waiters = <<>>
  BY <1>1, RingCapAssumption DEF IpcInv, NoIdleWait
<1>4. /\ p \in EndpointRecord /\ p.len = ep[e].len - 1
      /\ p.recv_waiters = ep[e].recv_waiters /\ p.send_waiters = ep[e].send_waiters
  BY <1>1, <1>2, TypedRecord, PopMsg
<1>5. /\ q \in EndpointRecord /\ q.len = ep[e].len - 1
      /\ q.recv_waiters = ep[e].recv_waiters /\ q.send_waiters = Tail(ep[e].send_waiters)
  BY <1>1, <1>4, PopSender
<1>6. /\ r \in EndpointRecord /\ r.len = RING_CAP
      /\ r.recv_waiters = <<>> /\ r.send_waiters = Tail(ep[e].send_waiters)
  BY <1>2, <1>3, <1>5, PushMsg, RingCapAssumption
<1>7. Len(r.recv_waiters) <= MAX_WAITERS /\ Len(r.send_waiters) <= MAX_WAITERS
  <2>1. Len(Tail(ep[e].send_waiters)) <= MAX_WAITERS
    BY <1>1, TypedRecord, PopFacts, MaxWaitersAssumption
  <2> HIDE DEF r
  <2>2. Len(r.recv_waiters) = 0
    BY <1>6
  <2> QED
    BY <1>6, <2>1, <2>2, MaxWaitersAssumption
<1>8. Tasks(r.send_waiters) = Tail(SendQueue[e])
  BY <1>1, <1>6, TypedRecord, TasksFacts
<1>9. buf' \in [Slot -> Message \cup {Empty}]
  <2>1. oldest(ep[e]) \in Message \cup {Empty}
    BY <1>1, TypedRecord, PopMsg
  <2> QED
    BY <1>1, <2>1, TypedRecord
<1>10. IpcTypeOK' /\ NoIdleWait' /\ RecvQueue' = RecvQueue /\ SendQueue' = Q
  <2>1. /\ IpcTypeOK' /\ NoIdleWait'
        /\ RecvQueue' = [RecvQueue EXCEPT ![e] = r.recv_waiters]
        /\ SendQueue' = [SendQueue EXCEPT ![e] = Tasks(r.send_waiters)]
    BY <1>1, <1>6, <1>7, <1>9, OneRecordChanges
  <2> QED
    BY <2>1, <1>3, <1>6, <1>8, TypedRecord DEF Queues, Left
<1>11. /\ AtMostOnce(Q) /\ w.task \in Slot
       /\ StandsIn(w.task, SendQueue)
       /\ \A t \in Slot : StandsIn(t, Q) <=> (StandsIn(t, SendQueue) /\ t # w.task)
  <2>1. SendQueue \in Queues /\ SendQueue[e] # <<>> /\ AtMostOnce(SendQueue)
    BY <1>1, TypedRecord, TasksFacts DEF IpcInv, QueuedIffParked
  <2>2. w.task = Head(SendQueue[e])
    BY <1>2
  <2> HIDE DEF w
  <2> QED
    BY <2>1, <2>2, LeaveQueue
<1>12. \A t \in Slot : /\ tstate'[t] = "Blocked" <=> (tstate[t] = "Blocked" /\ t # w.task)
                       /\ ctx'[t] = ctx[t]
  BY <1>1, <1>11, AwakeWakes DEF unblock, IpcInv
<1>13. ParkedIn(w.task, "send")
  BY <1>11 DEF IpcInv, QueuedIffParked
<1>14. \A t \in Slot :
         /\ (tstate'[t] = "Blocked" /\ ctx'[t] = "recv") <=> StandsIn(t, RecvQueue)
         /\ (tstate'[t] = "Blocked" /\ ctx'[t] = "send") <=> StandsIn(t, Q)
         /\ tstate'[t] = "Blocked" => ctx'[t] \in {"send", "recv"}
  BY <1>11, <1>12, <1>13 DEF IpcInv, QueuedIffParked, ParkedIn
<1>15. AtMostOnce(RecvQueue)
  BY DEF IpcInv, QueuedIffParked
<1> QED
  BY <1>10, <1>11, <1>14, <1>15, QueuedNext

LEMMA RecvBlockKeeps ==
  ASSUME IpcInv, NEW e \in Endpoint, RecvBlock(e)
  PROVE  IpcTypeOK' /\ QueuedIffParked' /\ NoIdleWait'
<1> DEFINE r == push_recv_waiter(ep[e], current)
           Q == Joined(RecvQueue, e, current)
<1>1. /\ ep[e].len = 0 /\ Len(ep[e].recv_waiters) < MAX_WAITERS
      /\ ep' = [ep EXCEPT ![e] = r] /\ buf' = buf
      /\ Park("recv")
  BY DEF RecvBlock
<1>2. /\ current \in Slot /\ tstate[current] = "Running"
      /\ \A t \in Slot : /\ tstate'[t] = "Blocked" <=> (tstate[t] = "Blocked" \/ t = current)
                         /\ ctx'[t] = IF t = current THEN "recv" ELSE ctx[t]
  <2>1. current \in Slot
    BY <1>1 DEF IpcInv, SchedAll, SchedInv, TypeOK, PhaseBookkeeping, Park, InUserTask, InTask
  <2> QED
    BY <1>1, <2>1, ParkParksCurrent DEF IpcInv
<1>3. /\ r \in EndpointRecord /\ r.len = 0
      /\ r.recv_waiters = Append(ep[e].recv_waiters, current)
      /\ r.send_waiters = ep[e].send_waiters
  <2>1. push_recv_waiter(ep[e], current) \in EndpointRecord
    <3>1. Append(ep[e].recv_waiters, current) \in Seq(Slot)
      BY <1>2, TypedRecord, PushFacts
    <3> QED
      BY <3>1, TypedRecord DEF push_recv_waiter, EndpointRecord
  <2> QED
    BY <1>1, <2>1, TypedRecord DEF push_recv_waiter, EndpointRecord
<1>4. r.send_waiters = <<>>
  BY <1>1, <1>3, RingCapAssumption DEF IpcInv, NoIdleWait
<1>5. Len(r.recv_waiters) <= MAX_WAITERS /\ Len(r.send_waiters) <= MAX_WAITERS
  BY <1>1, <1>2, <1>3, TypedRecord, PushFacts, MaxWaitersAssumption
<1>6. IpcTypeOK' /\ NoIdleWait' /\ RecvQueue' = Q /\ SendQueue' = SendQueue
  <2>1. /\ IpcTypeOK' /\ NoIdleWait'
        /\ RecvQueue' = [RecvQueue EXCEPT ![e] = r.recv_waiters]
        /\ SendQueue' = [SendQueue EXCEPT ![e] = Tasks(r.send_waiters)]
    BY <1>1, <1>3, <1>4, <1>5, TypedRecord, OneRecordChanges
  <2> QED
    BY <2>1, <1>3, TypedRecord DEF Queues, Joined
<1>7. ~ StandsIn(current, SendQueue) /\ ~ StandsIn(current, RecvQueue)
  BY <1>2 DEF IpcInv, QueuedIffParked, ParkedIn
<1>8. /\ AtMostOnce(Q)
      /\ \A t \in Slot : StandsIn(t, Q) <=> (StandsIn(t, RecvQueue) \/ t = current)
  <2>1. RecvQueue \in Queues /\ AtMostOnce(RecvQueue)
    BY TypedRecord DEF IpcInv, QueuedIffParked
  <2> QED
    BY <1>2, <1>7, <2>1, JoinQueue
<1> HIDE DEF Q, r
<1>9. \A t \in Slot :
        /\ (tstate'[t] = "Blocked" /\ ctx'[t] = "recv") <=> StandsIn(t, Q)
        /\ (tstate'[t] = "Blocked" /\ ctx'[t] = "send") <=> StandsIn(t, SendQueue)
        /\ tstate'[t] = "Blocked" => ctx'[t] \in {"send", "recv"}
  <2> TAKE t \in Slot
  <2>1. CASE t = current
    BY <1>2, <1>7, <1>8, <2>1
  <2>2. CASE t # current
    BY <1>2, <1>8, <2>2 DEF IpcInv, QueuedIffParked, ParkedIn
  <2> QED
    BY <2>1, <2>2
<1>10. AtMostOnce(SendQueue)
  BY DEF IpcInv, QueuedIffParked
<1> QED
  BY <1>6, <1>8, <1>9, <1>10, QueuedNext

-----------------------------------------------------------------------------
(* A step in which no endpoint changes. *)
LEMMA EndpointsUntouched ==
  ASSUME IpcInv, ep' = ep, buf' \in [Slot -> Message \cup {Empty}],
         \/ SchedStep \/ ResumeRecv \/ Exit
         \/ UNCHANGED schedVars
  PROVE  IpcTypeOK' /\ QueuedIffParked' /\ NoIdleWait'
<1>1. IpcTypeOK' /\ NoIdleWait'
  BY DEF IpcInv, IpcTypeOK, NoIdleWait
<1>2. RecvQueue' = RecvQueue /\ SendQueue' = SendQueue
  BY DEF RecvQueue, SendQueue
<1>3. \A t \in Slot : /\ tstate'[t] = "Blocked" <=> tstate[t] = "Blocked"
                      /\ tstate[t] = "Blocked" => ctx'[t] = ctx[t]
  BY NobodyParksOrWakes DEF IpcInv
<1> QED
  BY <1>1, <1>2, <1>3, QueuesUntouched

(* The wait queues and the scheduler's states agree, and nobody waits for   *)
(* what is there, in every initial state and after every step of send,      *)
(* recv, exit and the scheduler.                                            *)
THEOREM IpcInductive ==
  /\ IpcInit => IpcInv
  /\ IpcInv /\ [IpcNext]_vars => IpcInv'
<1>1. ASSUME IpcInit PROVE IpcInv
  <2>1. SchedAll
    BY <1>1, InitSchedAll DEF IpcInit
  <2>2. NewEndpoint \in EndpointRecord
    BY RingCapAssumption DEF NewEndpoint, EndpointRecord
  <2>3. IpcTypeOK
    <3>1. ep = [e \in Endpoint |-> NewEndpoint]
      BY <1>1 DEF IpcInit
    <3>2. NewEndpoint.recv_waiters = <<>> /\ NewEndpoint.send_waiters = <<>>
      BY DEF NewEndpoint
    <3>3. ep \in [Endpoint -> EndpointRecord]
      BY <2>2, <3>1
    <3>4. \A e \in Endpoint : /\ Len(ep[e].recv_waiters) <= MAX_WAITERS
                              /\ Len(ep[e].send_waiters) <= MAX_WAITERS
      BY <3>1, <3>2, MaxWaitersAssumption
    <3> QED
      BY <1>1, <3>3, <3>4 DEF IpcTypeOK, IpcInit
  <2>4. \A e \in Endpoint : ep[e].recv_waiters = <<>> /\ ep[e].send_waiters = <<>>
    BY <1>1 DEF IpcInit, NewEndpoint
  <2>5. NoIdleWait
    BY <2>4 DEF NoIdleWait
  <2>6. \A e \in Endpoint : DOMAIN RecvQueue[e] = {} /\ DOMAIN SendQueue[e] = {}
    BY <2>4 DEF RecvQueue, SendQueue, Tasks
  <2>7. \A t \in Slot : tstate[t] # "Blocked"
    BY <1>1 DEF IpcInit, Init
  <2>8. QueuedIffParked
    BY <2>6, <2>7 DEF QueuedIffParked, StandsIn, AtMostOnce, ParkedIn
  <2> QED
    BY <2>1, <2>3, <2>5, <2>8 DEF IpcInv
<1>2. ASSUME IpcInv, [IpcNext]_vars PROVE IpcInv'
  <2>1. SchedAll'
    BY <1>2, IpcStepIsSchedStep, SchedInductive DEF IpcInv
  <2>2. ASSUME NEW e \in Endpoint, NEW km \in Message, Send(e, km)
        PROVE  IpcTypeOK' /\ QueuedIffParked' /\ NoIdleWait'
    <3>1. CASE SendFull(e, km)
      BY <1>2, <3>1, TypedRecord, EndpointsUntouched DEF SendFull, vars
    <3> QED
      BY <1>2, <2>2, <3>1, SendDeliverKeeps, SendBufferedKeeps, SendBlockKeeps DEF Send
  <2>3. ASSUME NEW e \in Endpoint, Recv(e)
        PROVE  IpcTypeOK' /\ QueuedIffParked' /\ NoIdleWait'
    <3>1. CASE RecvFull(e)
      BY <1>2, <3>1, TypedRecord, EndpointsUntouched DEF RecvFull, vars
    <3> QED
      BY <1>2, <2>3, <3>1, RecvGotKeeps, RecvWakeSenderKeeps, RecvBlockKeeps DEF Recv
  <2>4. buf \in [Slot -> Message \cup {Empty}] /\ mailbox \in [Slot -> Message \cup {Empty}]
    BY <1>2 DEF IpcInv, IpcTypeOK, SchedAll, SchedInv, TypeOK
  <2>5. CASE SchedStep \/ UNCHANGED vars
    BY <1>2, <2>1, <2>4, <2>5, EndpointsUntouched DEF SchedStep, ipcVars, vars, IpcInv
  <2>6. CASE RecvResumed
    <3>1. current \in Slot
      BY <1>2, <2>6 DEF IpcInv, SchedAll, SchedInv, TypeOK, RecvResumed, ResumeRecv
    <3>2. buf' \in [Slot -> Message \cup {Empty}]
      BY <2>4, <2>6, <3>1 DEF RecvResumed
    <3> QED
      BY <1>2, <2>1, <2>6, <3>2, EndpointsUntouched DEF RecvResumed, IpcInv
  <2>7. CASE TaskExit
    <3>1. current \in Slot /\ tstate[current] # "Blocked"
      BY <1>2, <2>7 DEF IpcInv, SchedAll, SchedInv, TypeOK, TaskExit, Exit, InTask,
                        PhaseBookkeeping, RunningIsCurrent
    <3>2. \A e \in Endpoint : remove_waiter(ep[e], current) = ep[e]
      BY <1>2, <3>1, ForgetsNobody
    <3>3. ep' = ep
      BY <1>2, <2>7, <3>2 DEF TaskExit, IpcInv, IpcTypeOK
    <3> QED
      BY <1>2, <2>1, <2>4, <2>7, <3>3, EndpointsUntouched DEF TaskExit, IpcInv
  <2> QED
    BY <1>2, <2>1, <2>2, <2>3, <2>5, <2>6, <2>7 DEF IpcNext, IpcInv
<1> QED
  BY <1>1, <1>2

(* IpcInv holds in every reachable state of the endpoints over the scheduler. *)
THEOREM IpcSafe == IpcSpec => []IpcInv
  BY IpcInductive, PTL DEF IpcSpec

(* Every task parked in send or recv stands in exactly one wait queue, of   *)
(* that kind, and the queues hold nobody else: no wake-up of deliver or     *)
(* unblock is lost on a task that is not parked, and no task is parked      *)
(* where no send or recv can find it.                                       *)
THEOREM WaitersAreParked == IpcSpec => []QueuedIffParked
  BY IpcSafe, PTL DEF IpcInv

(* Receivers wait only on an empty endpoint and senders only on a full one, *)
(* for every ring and queue capacity.                                       *)
THEOREM NobodyWaitsIdly == IpcSpec => []NoIdleWait
  BY IpcSafe, PTL DEF IpcInv

(* The endpoints implement the scheduler's specification: each delivery     *)
(* goes to a task parked in recv and each unblock to one parked in send.    *)
THEOREM IpcImplementsSched == IpcSpec => ImplementsSched
<1>1. IpcInit => Init
  BY DEF IpcInit
<1>2. IpcInv /\ [IpcNext]_vars => [Next]_schedVars
  BY IpcStepIsSchedStep
<1> QED
  BY <1>1, <1>2, IpcSafe, PTL DEF IpcSpec, ImplementsSched, SchedSpec

(* So, with the endpoints in the system, a receiver that resumes always     *)
(* finds its message and the kernel never panics in block_for_message.      *)
THEOREM IpcNeverPanics == IpcSpec => []NoPanic
  BY IpcImplementsSched, NeverPanics, PTL DEF ImplementsSched

(***************************************************************************)
(* The endpoints of crates/kernel/src/ipc.rs, with their rings, blocked    *)
(* senders, mailboxes and the scheduler underneath, implement the          *)
(* first-in first-out channels of module Channel, for every number of      *)
(* tasks and endpoints and every capacity.                                 *)
(***************************************************************************)
-----------------------------------------------------------------------------
(* What is in transit on one endpoint record *)

(* A function on 1 .. n is a sequence of length n. *)
LEMMA FunctionIsSeq ==
  ASSUME NEW S, NEW n \in Nat, NEW f \in [1 .. n -> S]
  PROVE  f \in Seq(S) /\ Len(f) = n
  OBVIOUS

Cell == Message \cup {Empty}

Transit(r) == Contents(r) \o Held(r.send_waiters)

(* The i-th message: in the ring first, then with the blocked senders. *)
LEMMA TransitIs ==
  ASSUME NEW r \in EndpointRecord
  PROVE  /\ r.len \in 0 .. RING_CAP /\ r.head \in 0 .. RING_CAP - 1
         /\ r.ring \in [0 .. RING_CAP - 1 -> Cell]
         /\ r.send_waiters \in Seq(SendWaiter) /\ Len(r.send_waiters) \in Nat
         /\ Transit(r) \in Seq(Cell)
         /\ Len(Transit(r)) = r.len + Len(r.send_waiters)
         /\ \A i \in 1 .. r.len + Len(r.send_waiters) :
              Transit(r)[i] = IF i <= r.len THEN r.ring[Wrap(r.head + i - 1)]
                              ELSE r.send_waiters[i - r.len].km
<1>1. /\ r.len \in 0 .. RING_CAP /\ r.head \in 0 .. RING_CAP - 1
      /\ r.ring \in [0 .. RING_CAP - 1 -> Cell]
      /\ r.send_waiters \in Seq(SendWaiter)
  BY DEF EndpointRecord, Cell
<1> DEFINE q == r.send_waiters
           a == Contents(r)
           b == Held(q)
<1>2. Len(q) \in Nat /\ DOMAIN q = 1 .. Len(q) /\ \A i \in 1 .. Len(q) : q[i] \in SendWaiter
  BY <1>1, QueueFacts
<1>3. \A i \in 1 .. r.len : Wrap(r.head + i - 1) \in 0 .. RING_CAP - 1
  BY <1>1, RingCapAssumption DEF Wrap
<1>4. a \in Seq(Cell) /\ Len(a) = r.len /\ \A i \in 1 .. r.len : a[i] = r.ring[Wrap(r.head + i - 1)]
  <2>1. \A i \in 1 .. r.len : r.ring[Wrap(r.head + i - 1)] \in Cell
    BY <1>1, <1>3
  <2>2. a \in [1 .. r.len -> Cell] /\ \A i \in 1 .. r.len : a[i] = r.ring[Wrap(r.head + i - 1)]
    BY <2>1 DEF Contents
  <2> HIDE DEF a
  <2> QED
    BY <1>1, <2>2, FunctionIsSeq
<1>5. b \in Seq(Cell) /\ Len(b) = Len(q) /\ \A i \in 1 .. Len(q) : b[i] = q[i].km
  <2>1. \A i \in 1 .. Len(q) : q[i].km \in Cell
    BY <1>2 DEF SendWaiter, Cell
  <2> HIDE DEF q
  <2> QED
    BY <1>2, <2>1 DEF Held
<1> HIDE DEF q, a, b
<1>6. /\ a \o b \in Seq(Cell) /\ Len(a \o b) = Len(a) + Len(b)
      /\ \A i \in 1 .. Len(a) + Len(b) : (a \o b)[i] = IF i <= Len(a) THEN a[i] ELSE b[i - Len(a)]
  <2>1. a \in Seq(Cell) /\ b \in Seq(Cell)
    BY <1>4, <1>5
  <2> QED
    BY <2>1, ConcatProperties
<1>7. \A i \in 1 .. r.len + Len(q) :
        (a \o b)[i] = IF i <= r.len THEN r.ring[Wrap(r.head + i - 1)] ELSE q[i - r.len].km
  <2> TAKE i \in 1 .. r.len + Len(q)
  <2>1. CASE i <= r.len
    BY <1>1, <1>2, <1>4, <1>5, <1>6, <2>1
  <2>2. CASE ~ (i <= r.len)
    <3>1. i - r.len \in 1 .. Len(q)
      BY <1>1, <1>2, <2>2
    <3> QED
      BY <1>1, <1>2, <1>4, <1>5, <1>6, <2>2, <3>1
  <2> QED
    BY <2>1, <2>2
<1> QED
  BY <1>1, <1>2, <1>4, <1>5, <1>6, <1>7 DEF q, a, b, Transit

(* push_msg into a ring with room and nobody waiting to send. *)
LEMMA PushIsAppend ==
  ASSUME NEW r \in EndpointRecord, NEW km \in Message, r.len < RING_CAP, r.send_waiters = <<>>
  PROVE  Transit(push_msg(r, km)) = Append(Transit(r), km)
<1> USE RingCapAssumption
<1> DEFINE p == push_msg(r, km)
           n == r.len
<1>1. /\ p \in EndpointRecord /\ p.len = n + 1
      /\ p.send_waiters = <<>> /\ n \in 0 .. RING_CAP /\ r.head \in 0 .. RING_CAP - 1
      /\ r.ring \in [0 .. RING_CAP - 1 -> Cell]
  BY PushMsg, TransitIs
<1>2. p.head = r.head /\ p.ring = [r.ring EXCEPT ![Wrap(r.head + n)] = km]
  BY DEF push_msg, EndpointRecord
<1>3. /\ Transit(r) \in Seq(Cell) /\ Len(Transit(r)) = n
      /\ \A i \in 1 .. n : Transit(r)[i] = r.ring[Wrap(r.head + i - 1)]
  <2>1. Len(r.send_waiters) = 0
    OBVIOUS
  <2> QED
    BY <1>1, <2>1, TransitIs
<1> HIDE DEF p
<1>4. /\ Transit(p) \in Seq(Cell) /\ Len(Transit(p)) = n + 1
      /\ \A i \in 1 .. n + 1 : Transit(p)[i] = p.ring[Wrap(p.head + i - 1)]
  <2>1. Len(p.send_waiters) = 0
    BY <1>1
  <2> QED
    BY <1>1, <2>1, TransitIs
<1>5. ASSUME NEW i \in 1 .. n + 1
      PROVE  /\ Wrap(r.head + i - 1) \in 0 .. RING_CAP - 1
             /\ i # n + 1 => Wrap(r.head + i - 1) # Wrap(r.head + n)
             /\ i = n + 1 => Wrap(r.head + i - 1) = Wrap(r.head + n)
  <2>1. \A c, m, h \in Nat : \A j \in 1 .. m + 1 :
          c # 0 /\ m < c /\ h < c =>
            LET x == h + j - 1
                y == h + m
                u == IF x >= c THEN x - c ELSE x
                v == IF y >= c THEN y - c ELSE y
            IN  u \in 0 .. c - 1 /\ (u = v <=> j = m + 1)
    OBVIOUS
  <2>2. n \in Nat /\ n < RING_CAP /\ r.head \in Nat /\ r.head < RING_CAP /\ RING_CAP \in Nat
    BY <1>1
  <2> HIDE DEF n
  <2> QED
    BY <2>1, <2>2 DEF Wrap
<1>6. /\ Append(Transit(r), km) \in Seq(Cell) /\ Len(Append(Transit(r), km)) = n + 1
      /\ \A i \in 1 .. n + 1 : Append(Transit(r), km)[i] = IF i = n + 1 THEN km ELSE Transit(r)[i]
  BY <1>1, <1>3, PushFacts DEF Cell
<1>7. ASSUME NEW i \in 1 .. n + 1
      PROVE  Transit(p)[i] = Append(Transit(r), km)[i]
  <2>1. Transit(p)[i] = IF i = n + 1 THEN km ELSE r.ring[Wrap(r.head + i - 1)]
    BY <1>1, <1>2, <1>4, <1>5
  <2> QED
    BY <1>1, <1>3, <1>6, <2>1
<1> QED
  BY <1>4, <1>6, <1>7, SeqEqual DEF p

(* A sender blocks: its message is behind all others. *)
LEMMA BlockIsAppend ==
  ASSUME NEW r \in EndpointRecord, NEW km \in Message, NEW t \in Slot
  PROVE  Transit(push_send_waiter(r, t, km)) = Append(Transit(r), km)
<1> USE RingCapAssumption
<1> DEFINE p == push_send_waiter(r, t, km)
           w == [task |-> t, km |-> km]
           q == r.send_waiters
           n == r.len + Len(q)
<1>1. /\ p \in EndpointRecord /\ p.len = r.len /\ p.send_waiters = Append(q, w)
      /\ w \in SendWaiter /\ w.km = km
  BY PushWaiter DEF SendWaiter
<1>2. p.head = r.head /\ p.ring = r.ring
  BY DEF push_send_waiter, EndpointRecord
<1>3. /\ q \in Seq(SendWaiter) /\ Len(q) \in Nat /\ r.len \in Nat /\ n \in Nat
      /\ Transit(r) \in Seq(Cell) /\ Len(Transit(r)) = n
      /\ \A i \in 1 .. n :
           Transit(r)[i] = IF i <= r.len THEN r.ring[Wrap(r.head + i - 1)] ELSE q[i - r.len].km
  BY TransitIs
<1> HIDE DEF p, w
<1>n. n = r.len + Len(q)
  OBVIOUS
<1> HIDE DEF n, q
<1>4. /\ Len(Append(q, w)) = Len(q) + 1
      /\ \A i \in 1 .. Len(q) + 1 : Append(q, w)[i] = IF i = Len(q) + 1 THEN w ELSE q[i]
  BY <1>1, <1>3, PushFacts
<1>5. /\ Transit(p) \in Seq(Cell) /\ Len(Transit(p)) = n + 1
      /\ \A i \in 1 .. n + 1 :
           Transit(p)[i] = IF i <= r.len THEN r.ring[Wrap(r.head + i - 1)]
                           ELSE Append(q, w)[i - r.len].km
  <2>1. p.len + Len(p.send_waiters) = n + 1
    BY <1>1, <1>3, <1>4, <1>n
  <2> QED
    BY <1>1, <1>2, <2>1, TransitIs
<1>6. /\ Append(Transit(r), km) \in Seq(Cell) /\ Len(Append(Transit(r), km)) = n + 1
      /\ \A i \in 1 .. n + 1 : Append(Transit(r), km)[i] = IF i = n + 1 THEN km ELSE Transit(r)[i]
  BY <1>3, PushFacts DEF Cell
<1>7. ASSUME NEW i \in 1 .. n + 1
      PROVE  Transit(p)[i] = Append(Transit(r), km)[i]
  <2>1. CASE i <= r.len
    BY <1>3, <1>5, <1>6, <1>n, <2>1
  <2>2. CASE ~ (i <= r.len)
    <3>1. i - r.len \in 1 .. Len(q) + 1 /\ (i = n + 1 <=> i - r.len = Len(q) + 1)
      BY <1>3, <1>n, <2>2
    <3>2. Transit(p)[i] = IF i = n + 1 THEN km ELSE q[i - r.len].km
      BY <1>1, <1>4, <1>5, <2>2, <3>1
    <3> QED
      BY <1>3, <1>6, <1>n, <2>2, <3>2
  <2> QED
    BY <2>1, <2>2
<1> QED
  BY <1>5, <1>6, <1>7, SeqEqual DEF p

(* The positions of a ring that has advanced by one. *)
LEMMA WrapAdvances ==
  ASSUME NEW h \in 0 .. RING_CAP - 1, NEW i \in 1 .. RING_CAP
  PROVE  /\ Wrap(h + 1) \in 0 .. RING_CAP - 1
         /\ Wrap(h + i - 1) \in 0 .. RING_CAP - 1
         /\ Wrap(Wrap(h + 1) + i - 1) \in 0 .. RING_CAP - 1
         /\ i < RING_CAP => /\ Wrap(Wrap(h + 1) + i - 1) = Wrap(h + (i + 1) - 1)
                            /\ Wrap(Wrap(h + 1) + i - 1) # h
         /\ i = RING_CAP => Wrap(Wrap(h + 1) + i - 1) = h
         /\ Wrap(h + 1 - 1) = h
  BY RingCapAssumption DEF Wrap

(* The oldest message in transit is the oldest of the ring. *)
LEMMA OldestIsHead ==
  ASSUME NEW r \in EndpointRecord, r.len > 0
  PROVE  Transit(r) # <<>> /\ Head(Transit(r)) = oldest(r)
<1>1. /\ r.len \in 1 .. RING_CAP /\ r.head \in 0 .. RING_CAP - 1 /\ Len(r.send_waiters) \in Nat
      /\ Transit(r) \in Seq(Cell) /\ Len(Transit(r)) = r.len + Len(r.send_waiters)
      /\ 1 \in 1 .. r.len + Len(r.send_waiters)
  BY RingCapAssumption, TransitIs
<1>2. Transit(r)[1] = r.ring[Wrap(r.head + 1 - 1)]
  BY <1>1, TransitIs
<1>3. Wrap(r.head + 1 - 1) = r.head
  BY <1>1, WrapAdvances
<1>4. Transit(r) # <<>>
  BY <1>1
<1> QED
  BY <1>1, <1>2, <1>3, <1>4, PopFacts DEF oldest

(* pop_msg from a ring on which nobody waits to send. *)
LEMMA PopIsTail ==
  ASSUME NEW r \in EndpointRecord, r.len > 0, r.send_waiters = <<>>
  PROVE  Transit(pop_msg(r)) = Tail(Transit(r))
<1> DEFINE p == pop_msg(r)
           n == r.len
<1>1. /\ n \in 1 .. RING_CAP /\ r.head \in 0 .. RING_CAP - 1 /\ Len(r.send_waiters) = 0
      /\ p \in EndpointRecord /\ p.len = n - 1 /\ p.send_waiters = <<>>
  BY RingCapAssumption, TransitIs, PopMsg
<1>2. p.head = Wrap(r.head + 1) /\ p.ring = r.ring
  BY DEF pop_msg, EndpointRecord
<1> HIDE DEF p
<1>3. /\ Transit(r) \in Seq(Cell) /\ Len(Transit(r)) = n
      /\ \A i \in 1 .. n : Transit(r)[i] = r.ring[Wrap(r.head + i - 1)]
  BY <1>1, TransitIs
<1>4. /\ Transit(p) \in Seq(Cell) /\ Len(Transit(p)) = n - 1
      /\ \A i \in 1 .. n - 1 : Transit(p)[i] = r.ring[Wrap(Wrap(r.head + 1) + i - 1)]
  <2>1. Len(p.send_waiters) = 0
    BY <1>1
  <2>2. p.len + Len(p.send_waiters) = n - 1 /\ \A i \in 1 .. n - 1 : i <= p.len
    BY <1>1, <2>1
  <2>3. \A i \in 1 .. n - 1 : Transit(p)[i] = p.ring[Wrap(p.head + i - 1)]
    BY <1>1, <2>2, TransitIs
  <2> QED
    BY <1>1, <1>2, <2>2, <2>3, TransitIs
<1>5. /\ Tail(Transit(r)) \in Seq(Cell) /\ Len(Tail(Transit(r))) = n - 1
      /\ \A i \in 1 .. n - 1 : Tail(Transit(r))[i] = Transit(r)[i + 1]
  BY <1>1, <1>3, PopFacts, OldestIsHead
<1>6. ASSUME NEW i \in 1 .. n - 1
      PROVE  Transit(p)[i] = Tail(Transit(r))[i]
  <2>0. i \in 1 .. RING_CAP /\ i < RING_CAP
    BY <1>1, RingCapAssumption
  <2>1. Wrap(Wrap(r.head + 1) + i - 1) = Wrap(r.head + (i + 1) - 1)
    BY <1>1, <2>0, WrapAdvances
  <2>2. i + 1 \in 1 .. n
    BY <1>1
  <2> QED
    BY <1>3, <1>4, <1>5, <2>1, <2>2
<1> QED
  BY <1>4, <1>5, <1>6, SeqEqual DEF p

(* The oldest message leaves a full ring and the first blocked sender's     *)
(* takes the slot: its place behind the ring's other messages is the same.  *)
LEMMA RefillIsTail ==
  ASSUME NEW r \in EndpointRecord, r.len = RING_CAP, r.send_waiters # <<>>
  PROVE  Transit(push_msg(pop_send_waiter(pop_msg(r)), Head(r.send_waiters).km))
           = Tail(Transit(r))
<1> USE RingCapAssumption
<1> DEFINE q == r.send_waiters
           h == r.head
           m == pop_send_waiter(pop_msg(r))
           p == push_msg(m, Head(q).km)
           n == RING_CAP + Len(q) - 1
<1>1. /\ h \in 0 .. RING_CAP - 1 /\ q \in Seq(SendWaiter) /\ Len(q) \in Nat
      /\ r.ring \in [0 .. RING_CAP - 1 -> Cell]
  BY TransitIs
<1>2. /\ Head(q) = q[1] /\ Head(q) \in SendWaiter /\ Head(q).km \in Message
      /\ Tail(q) \in Seq(SendWaiter) /\ Len(Tail(q)) = Len(q) - 1 /\ Len(q) >= 1
      /\ \A i \in 1 .. Len(q) - 1 : Tail(q)[i] = q[i + 1]
  <2>1. q # <<>> /\ Len(q) >= 1
    BY <1>1
  <2>2. /\ Head(q) = q[1] /\ Head(q) \in SendWaiter
        /\ Tail(q) \in Seq(SendWaiter) /\ Len(Tail(q)) = Len(q) - 1
        /\ \A i \in 1 .. Len(q) - 1 : Tail(q)[i] = q[i + 1]
    BY <1>1, <2>1, PopFacts
  <2> QED
    BY <2>1, <2>2 DEF SendWaiter
<1>3. /\ pop_msg(r) \in EndpointRecord /\ pop_msg(r).len = RING_CAP - 1
      /\ pop_msg(r).send_waiters = q
  BY PopMsg
<1>4. /\ m \in EndpointRecord /\ m.len = RING_CAP - 1 /\ m.send_waiters = Tail(q)
  BY <1>3, PopSender
<1>5. m.head = Wrap(h + 1) /\ m.ring = r.ring
  BY <1>3 DEF pop_msg, pop_send_waiter, EndpointRecord
<1> HIDE DEF m
<1>6. /\ p \in EndpointRecord /\ p.len = RING_CAP /\ p.send_waiters = Tail(q)
  BY <1>2, <1>4, PushMsg
<1>7. p.head = Wrap(h + 1) /\ p.ring = [r.ring EXCEPT ![h] = Head(q).km]
  <2>1. RING_CAP \in 1 .. RING_CAP
    OBVIOUS
  <2>2. Wrap(Wrap(h + 1) + RING_CAP - 1) = h
    BY <1>1, <2>1, WrapAdvances
  <2>3. Wrap(h + 1) \in Int /\ Wrap(h + 1) + (RING_CAP - 1) = Wrap(h + 1) + RING_CAP - 1
    BY <1>1 DEF Wrap
  <2> QED
    BY <1>4, <1>5, <2>2, <2>3 DEF push_msg, EndpointRecord
<1>8. n \in Nat /\ n = RING_CAP + Len(Tail(q)) /\ n + 1 = RING_CAP + Len(q)
  BY <1>1, <1>2
<1> HIDE DEF p, n
<1>9. /\ Transit(r) \in Seq(Cell) /\ Len(Transit(r)) = n + 1
      /\ \A i \in 1 .. n + 1 :
           Transit(r)[i] = IF i <= RING_CAP THEN r.ring[Wrap(h + i - 1)] ELSE q[i - RING_CAP].km
  BY <1>8, TransitIs
<1>10. /\ Transit(p) \in Seq(Cell) /\ Len(Transit(p)) = n
       /\ \A i \in 1 .. n :
            Transit(p)[i] = IF i <= RING_CAP THEN p.ring[Wrap(Wrap(h + 1) + i - 1)]
                            ELSE Tail(q)[i - RING_CAP].km
  <2>1. /\ Transit(p) \in Seq(Cell) /\ Len(Transit(p)) = p.len + Len(p.send_waiters)
        /\ \A i \in 1 .. p.len + Len(p.send_waiters) :
             Transit(p)[i] = IF i <= p.len THEN p.ring[Wrap(p.head + i - 1)]
                             ELSE p.send_waiters[i - p.len].km
    BY <1>6, TransitIs
  <2>2. p.len + Len(p.send_waiters) = n
    BY <1>6, <1>8
  <2>3. p.head = Wrap(h + 1)
    BY <1>7
  <2> QED
    BY <1>6, <2>1, <2>2, <2>3
<1>11. /\ Tail(Transit(r)) \in Seq(Cell) /\ Len(Tail(Transit(r))) = n
       /\ \A i \in 1 .. n : Tail(Transit(r))[i] = Transit(r)[i + 1]
  <2>1. Transit(r) # <<>>
    BY OldestIsHead
  <2> QED
    BY <1>8, <1>9, <2>1, PopFacts
<1>12. ASSUME NEW i \in 1 .. n
       PROVE  Transit(p)[i] = Tail(Transit(r))[i]
  <2>0. i + 1 \in 1 .. n + 1 /\ i \in Nat
    BY <1>8
  <2>1. CASE i < RING_CAP
    <3>1. i \in 1 .. RING_CAP /\ i <= RING_CAP /\ i + 1 <= RING_CAP
      BY <2>0, <2>1
    <3>2. /\ Wrap(Wrap(h + 1) + i - 1) \in 0 .. RING_CAP - 1
          /\ Wrap(Wrap(h + 1) + i - 1) = Wrap(h + (i + 1) - 1)
          /\ Wrap(Wrap(h + 1) + i - 1) # h
      BY <1>1, <2>1, <3>1, WrapAdvances, ZenonT(30)
    <3>3. Transit(p)[i] = r.ring[Wrap(h + (i + 1) - 1)]
      BY <1>1, <1>7, <1>10, <3>1, <3>2
    <3> QED
      BY <1>9, <1>11, <2>0, <3>1, <3>3
  <2>2. CASE i = RING_CAP
    <3>1. Wrap(Wrap(h + 1) + i - 1) = h
      <4>1. i \in 1 .. RING_CAP
        BY <2>2
      <4> QED
        BY <1>1, <2>2, <4>1, WrapAdvances
    <3>2. Transit(p)[i] = Head(q).km
      BY <1>1, <1>7, <1>10, <2>2, <3>1
    <3>3. Transit(r)[i + 1] = q[1].km
      BY <1>9, <2>0, <2>2
    <3> QED
      BY <1>2, <1>11, <3>2, <3>3
  <2>3. CASE i > RING_CAP
    <3>1. i - RING_CAP \in 1 .. Len(q) - 1 /\ (i + 1) - RING_CAP = (i - RING_CAP) + 1
      BY <1>1, <1>8, <2>0, <2>3
    <3>2. Transit(p)[i] = q[(i - RING_CAP) + 1].km
      BY <1>2, <1>10, <2>3, <3>1
    <3>3. Transit(r)[i + 1] = q[(i + 1) - RING_CAP].km
      BY <1>9, <2>0, <2>3
    <3> QED
      BY <1>11, <3>1, <3>2, <3>3
  <2>4. i < RING_CAP \/ i = RING_CAP \/ i > RING_CAP
    BY <2>0
  <2> QED
    BY <2>1, <2>2, <2>3, <2>4
<1>13. Transit(p) = Tail(Transit(r))
  BY <1>10, <1>11, <1>12, SeqEqual
<1> QED
  BY <1>13 DEF p, m

-----------------------------------------------------------------------------
(* The endpoints seen as channels, before and after a step *)

LEMMA ViewIs ==
  ASSUME IpcInv, NEW e \in Endpoint
  PROVE  /\ ep[e] \in EndpointRecord
         /\ InTransit[e] = Transit(ep[e]) /\ RecvQueue[e] = ep[e].recv_waiters
  BY DEF IpcInv, IpcTypeOK, InTransit, Transit, RecvQueue

LEMMA ViewChanges ==
  ASSUME IpcInv, NEW e \in Endpoint, NEW r, ep' = [ep EXCEPT ![e] = r]
  PROVE  /\ InTransit' = [InTransit EXCEPT ![e] = Transit(r)]
         /\ RecvQueue' = [RecvQueue EXCEPT ![e] = r.recv_waiters]
         /\ Transit(r) = Transit(ep[e]) => InTransit' = InTransit
         /\ r.recv_waiters = ep[e].recv_waiters => RecvQueue' = RecvQueue
<1>1. ep'[e] = r /\ \A f \in Endpoint : f # e => ep'[f] = ep[f]
  BY DEF IpcInv, IpcTypeOK
<1>2. InTransit' = [f \in Endpoint |-> Transit(ep'[f])] /\ InTransit = [f \in Endpoint |-> Transit(ep[f])]
  BY DEF InTransit, Transit
<1>3. /\ RecvQueue' = [f \in Endpoint |-> ep'[f].recv_waiters]
      /\ RecvQueue = [f \in Endpoint |-> ep[f].recv_waiters]
  BY DEF RecvQueue
<1>4. InTransit' = [InTransit EXCEPT ![e] = Transit(r)]
  BY <1>1, <1>2
<1>5. RecvQueue' = [RecvQueue EXCEPT ![e] = r.recv_waiters]
  BY <1>1, <1>3
<1>6. Transit(r) = Transit(ep[e]) => InTransit' = InTransit
  BY <1>1, <1>2
<1>7. r.recv_waiters = ep[e].recv_waiters => RecvQueue' = RecvQueue
  BY <1>1, <1>3
<1> QED
  BY <1>4, <1>5, <1>6, <1>7

(* Nobody that runs or is dead has mail it has not taken. *)
LEMMA NoMail ==
  ASSUME IpcInv, NEW t \in Slot, mailbox[t] # Empty
  PROVE  /\ ctx[t] = "recv" /\ tstate[t] # "Dead"
         /\ tstate[t] = "Ready" \/ phase = "settle"
<1>1. /\ ctx[t] = "recv"
      /\ tstate[t] = "Ready" \/ (t = current /\ phase = "settle")
  BY DEF IpcInv, SchedAll, SchedInv, MailUntilTaken
<1>2. t = current => tstate[t] = "Running"
  BY DEF IpcInv, SchedAll, SchedInv, RunningIsCurrent
<1> QED
  BY <1>1, <1>2

(* A task making a system call. *)
LEMMA CallerFacts ==
  ASSUME IpcInv, InUserTask
  PROVE  current \in Slot /\ mailbox[current] = Empty
<1>1. current \in Slot /\ tstate[current] = "Running" /\ phase = "run"
  BY DEF IpcInv, SchedAll, SchedInv, TypeOK, PhaseBookkeeping, RunningIsCurrent, InUserTask, InTask
<1> QED
  BY <1>1, NoMail

LEMMA MailTypes ==
  ASSUME IpcInv
  PROVE  mailbox \in [Slot -> Cell] /\ buf \in [Slot -> Cell]
  BY DEF IpcInv, IpcTypeOK, SchedAll, SchedInv, TypeOK, Cell

-----------------------------------------------------------------------------
(* Steps of the channels *)

LEMMA DeliverHands ==
  ASSUME IpcInv, NEW e \in Endpoint, NEW km \in Message, SendDeliver(e, km)
  PROVE  C!Hand(e, km)
<1> DEFINE r == pop_recv_waiter(ep[e])
           w == Head(ep[e].recv_waiters)
<1>1. /\ ep[e].recv_waiters # <<>> /\ ep' = [ep EXCEPT ![e] = r] /\ UNCHANGED buf
      /\ mailbox' = [mailbox EXCEPT ![w] = km]
  BY DEF SendDeliver, deliver
<1>2. /\ r.recv_waiters = Tail(ep[e].recv_waiters) /\ Transit(r) = Transit(ep[e])
  BY ViewIs DEF pop_recv_waiter, Transit, Contents, EndpointRecord
<1>3. w \in Slot
  BY <1>1, TypedRecord, PopFacts
<1>4. Received' = [Received EXCEPT ![w] = km]
  <2> HIDE DEF w
  <2> QED
    BY <1>1, <1>3, MailTypes, EmptyAssumption DEF Received
<1>5. InTransit' = InTransit /\ RecvQueue' = [RecvQueue EXCEPT ![e] = Tail(RecvQueue[e])]
  <2> HIDE DEF r
  <2>1. InTransit' = InTransit /\ RecvQueue' = [RecvQueue EXCEPT ![e] = r.recv_waiters]
    BY <1>1, <1>2, ViewChanges
  <2> QED
    BY <1>2, <2>1, ViewIs
<1> QED
  BY <1>1, <1>4, <1>5, ViewIs DEF C!Hand

LEMMA SendQueues ==
  ASSUME IpcInv, NEW e \in Endpoint, NEW km \in Message,
         SendBuffered(e, km) \/ SendBlock(e, km)
  PROVE  C!Queue(e, km)
<1>0. ep[e] \in EndpointRecord
  BY ViewIs
<1>1. ASSUME NEW r, ep' = [ep EXCEPT ![e] = r], UNCHANGED <<mailbox, buf>>,
             ep[e].recv_waiters = <<>>, r.recv_waiters = ep[e].recv_waiters,
             Transit(r) = Append(Transit(ep[e]), km)
      PROVE  C!Queue(e, km)
  <2>1. /\ InTransit' = [InTransit EXCEPT ![e] = Append(InTransit[e], km)]
        /\ RecvQueue' = RecvQueue
    <3>1. InTransit' = [InTransit EXCEPT ![e] = Transit(r)] /\ RecvQueue' = RecvQueue
      BY <1>1, ViewChanges
    <3> QED
      BY <1>1, <3>1, ViewIs
  <2>2. Received' = Received
    BY <1>1 DEF Received
  <2> QED
    BY <1>1, <2>1, <2>2, ViewIs DEF C!Queue
<1>2. CASE SendBuffered(e, km)
  <2>1. /\ ep[e].recv_waiters = <<>> /\ ep[e].len < RING_CAP
        /\ ep' = [ep EXCEPT ![e] = push_msg(ep[e], km)] /\ UNCHANGED <<mailbox, buf>>
    BY <1>2 DEF SendBuffered, schedVars
  <2>2. ep[e].send_waiters = <<>>
    BY <2>1, TypedRecord, RingCapAssumption DEF IpcInv, NoIdleWait
  <2>3. /\ push_msg(ep[e], km).recv_waiters = ep[e].recv_waiters
        /\ Transit(push_msg(ep[e], km)) = Append(Transit(ep[e]), km)
    BY <1>0, <2>1, <2>2, PushMsg, PushIsAppend
  <2> QED
    BY <1>1, <2>1, <2>3
<1>3. CASE SendBlock(e, km)
  <2>1. /\ ep[e].recv_waiters = <<>> /\ Park("send")
        /\ ep' = [ep EXCEPT ![e] = push_send_waiter(ep[e], current, km)] /\ UNCHANGED <<mailbox, buf>>
    BY <1>3 DEF SendBlock, Park
  <2>2. current \in Slot
    BY <2>1, CallerFacts DEF Park
  <2>3. /\ push_send_waiter(ep[e], current, km).recv_waiters = ep[e].recv_waiters
        /\ Transit(push_send_waiter(ep[e], current, km)) = Append(Transit(ep[e]), km)
    BY <1>0, <2>2, PushWaiter, BlockIsAppend
  <2> QED
    BY <1>1, <2>1, <2>3
<1> QED
  BY <1>2, <1>3

LEMMA RecvTakes ==
  ASSUME IpcInv, NEW e \in Endpoint, RecvGot(e) \/ RecvWakeSender(e)
  PROVE  \E c \in Slot : C!Take(e, c)
<1>0. ep[e] \in EndpointRecord /\ ep[e].len > 0 /\ InUserTask
  BY ViewIs DEF RecvGot, RecvWakeSender, unblock
<1>1. ASSUME NEW r, ep' = [ep EXCEPT ![e] = r], UNCHANGED mailbox,
             buf' = [buf EXCEPT ![current] = oldest(ep[e])],
             r.recv_waiters = ep[e].recv_waiters, Transit(r) = Tail(Transit(ep[e]))
      PROVE  C!Take(e, current)
  <2>1. /\ InTransit' = [InTransit EXCEPT ![e] = Tail(InTransit[e])]
        /\ RecvQueue' = RecvQueue
    <3>1. InTransit' = [InTransit EXCEPT ![e] = Transit(r)] /\ RecvQueue' = RecvQueue
      BY <1>1, ViewChanges
    <3> QED
      BY <1>1, <3>1, ViewIs
  <2>2. InTransit[e] # <<>> /\ Head(InTransit[e]) = oldest(ep[e])
    BY <1>0, ViewIs, OldestIsHead
  <2>3. Received' = [Received EXCEPT ![current] = oldest(ep[e])]
    BY <1>0, <1>1, CallerFacts, MailTypes DEF Received
  <2> QED
    BY <2>1, <2>2, <2>3 DEF C!Take
<1>2. CASE RecvGot(e)
  <2>1. /\ ep[e].send_waiters = <<>> /\ ep' = [ep EXCEPT ![e] = pop_msg(ep[e])]
        /\ buf' = [buf EXCEPT ![current] = oldest(ep[e])] /\ UNCHANGED mailbox
    BY <1>2 DEF RecvGot, schedVars
  <2>2. /\ pop_msg(ep[e]).recv_waiters = ep[e].recv_waiters
        /\ Transit(pop_msg(ep[e])) = Tail(Transit(ep[e]))
    BY <1>0, <2>1, PopMsg, PopIsTail
  <2> QED
    BY <1>0, <1>1, <2>1, <2>2, CallerFacts
<1>3. CASE RecvWakeSender(e)
  <2> DEFINE r == push_msg(pop_send_waiter(pop_msg(ep[e])), Head(ep[e].send_waiters).km)
  <2>1. /\ ep[e].send_waiters # <<>> /\ ep' = [ep EXCEPT ![e] = r]
        /\ buf' = [buf EXCEPT ![current] = oldest(ep[e])] /\ UNCHANGED mailbox
    BY <1>3 DEF RecvWakeSender, unblock
  <2>2. ep[e].len = RING_CAP
    BY <2>1 DEF IpcInv, NoIdleWait
  <2>3. Transit(r) = Tail(Transit(ep[e]))
    BY <1>0, <2>1, <2>2, RefillIsTail
  <2>4. r.recv_waiters = ep[e].recv_waiters
    BY <1>0 DEF push_msg, pop_send_waiter, pop_msg, EndpointRecord
  <2> HIDE DEF r
  <2> QED
    BY <1>0, <1>1, <2>1, <2>3, <2>4, CallerFacts
<1> QED
  BY <1>2, <1>3

LEMMA RecvWaits ==
  ASSUME IpcInv, NEW e \in Endpoint, RecvBlock(e)
  PROVE  current \in Slot /\ C!Wait(e, current)
<1> DEFINE r == push_recv_waiter(ep[e], current)
<1>1. /\ ep[e].len = 0 /\ ep' = [ep EXCEPT ![e] = r] /\ UNCHANGED <<mailbox, buf>> /\ Park("recv")
  BY DEF RecvBlock, Park
<1>2. current \in Slot /\ ep[e] \in EndpointRecord
  BY <1>1, CallerFacts, ViewIs DEF Park
<1>3. ep[e].send_waiters = <<>>
  BY <1>1, RingCapAssumption DEF IpcInv, NoIdleWait
<1>4. Transit(ep[e]) = <<>>
  <2>1. Len(ep[e].send_waiters) = 0
    BY <1>3
  <2>2. Transit(ep[e]) \in Seq(Cell) /\ Len(Transit(ep[e])) = 0
    BY <1>1, <1>2, <2>1, TransitIs
  <2> QED
    BY <2>2
<1>5. /\ r.recv_waiters = Append(ep[e].recv_waiters, current) /\ Transit(r) = Transit(ep[e])
  BY <1>2 DEF push_recv_waiter, Transit, Contents, EndpointRecord
<1> HIDE DEF r
<1>6. InTransit' = InTransit /\ RecvQueue' = [RecvQueue EXCEPT ![e] = Append(RecvQueue[e], current)]
  <2>1. InTransit' = InTransit /\ RecvQueue' = [RecvQueue EXCEPT ![e] = r.recv_waiters]
    BY <1>1, <1>5, ViewChanges
  <2> QED
    BY <1>5, <2>1, ViewIs
<1>7. Received' = Received
  BY <1>1 DEF Received
<1> QED
  BY <1>2, <1>4, <1>6, <1>7, ViewIs DEF C!Wait

-----------------------------------------------------------------------------
(* Steps the channels do not see *)

(* The reaper empties no mailbox that holds anything. *)
LEMMA SettlingKeepsMail ==
  ASSUME IpcInv, NEW took, post_switch(took)
  PROVE  mailbox' = [t \in Slot |-> IF t \in took THEN Empty ELSE mailbox[t]]
<1>1. \A t \in Slot : t \in Reaped => mailbox[t] = Empty
  BY NoMail DEF Reaped
<1> QED
  BY <1>1 DEF post_switch

LEMMA SchedulingIsUnseen ==
  ASSUME IpcInv, SchedStep
  PROVE  UNCHANGED C!vars
<1>1. UNCHANGED <<ep, buf>>
  BY DEF SchedStep, ipcVars
<1>2. mailbox' = mailbox
  <2>1. CASE SettleBootstrap \/ Resume
    <3>1. post_switch({})
      BY <2>1 DEF SettleBootstrap, Resume
    <3>2. mailbox' = [t \in Slot |-> mailbox[t]]
      BY <3>1, SettlingKeepsMail
    <3> QED
      BY <3>2, MailTypes
  <2>2. CASE Spawn \/ SpawnUser \/ Start \/ StartPick \/ StartDone \/ Yield \/ Preempt
    BY <2>2 DEF Spawn, SpawnUser, SpawnTask, Start, StartPick, StartDone, Yield, Preempt, taskVars
  <2> QED
    BY <2>1, <2>2 DEF SchedStep
<1> QED
  BY <1>1, <1>2 DEF C!vars, InTransit, RecvQueue, Received

(* The mailbox goes over into the receiver's buffer. *)
LEMMA ResumingIsUnseen ==
  ASSUME IpcInv, RecvResumed
  PROVE  UNCHANGED C!vars
<1>1. /\ UNCHANGED ep /\ buf' = [buf EXCEPT ![current] = mailbox[current]]
      /\ post_switch({current}) /\ ctx[current] = "recv" /\ phase = "settle" /\ current # NONE
  BY DEF RecvResumed, ResumeRecv
<1>2. current \in Slot /\ mailbox[current] # Empty
  BY <1>1 DEF IpcInv, SchedAll, SchedInv, TypeOK, MailUntilTaken
<1>3. mailbox' = [t \in Slot |-> IF t = current THEN Empty ELSE mailbox[t]]
  BY <1>1, SettlingKeepsMail
<1>4. Received' = Received
  BY <1>1, <1>2, <1>3, MailTypes DEF Received
<1> QED
  BY <1>1, <1>4 DEF C!vars, InTransit, RecvQueue

LEMMA ExitIsUnseen ==
  ASSUME IpcInv, TaskExit
  PROVE  UNCHANGED C!vars
<1>1. current \in Slot /\ tstate[current] # "Blocked"
  BY DEF IpcInv, SchedAll, SchedInv, TypeOK, TaskExit, Exit, InTask, PhaseBookkeeping, RunningIsCurrent
<1>2. \A e \in Endpoint : remove_waiter(ep[e], current) = ep[e]
  BY <1>1, ForgetsNobody
<1>3. ep' = ep
  BY <1>2 DEF TaskExit, IpcInv, IpcTypeOK
<1>4. UNCHANGED <<mailbox, buf>>
  BY DEF TaskExit, Exit
<1> QED
  BY <1>3, <1>4 DEF C!vars, InTransit, RecvQueue, Received

-----------------------------------------------------------------------------
(* The endpoints of ipc.rs implement first-in first-out channels: whatever  *)
(* the interleaving of send, recv, exit and the scheduler, and whether a    *)
(* message went through the ring, a blocked sender or a mailbox, none is    *)
(* lost, duplicated or reordered, and receivers are served in the order     *)
(* they asked.                                                              *)
THEOREM IpcImplementsChannel == IpcSpec => ImplementsChannel
<1>1. IpcInit => C!Init
  <2> SUFFICES ASSUME IpcInit PROVE C!Init
    OBVIOUS
  <2>1. \A e \in Endpoint : ep[e] = NewEndpoint
    BY DEF IpcInit
  <2>2. Contents(NewEndpoint) = <<>> /\ Held(NewEndpoint.send_waiters) = <<>>
    BY DEF NewEndpoint, Contents, Held
  <2>3. InTransit = [e \in Endpoint |-> <<>>]
    BY <2>1, <2>2 DEF InTransit, NewEndpoint
  <2>4. RecvQueue = [e \in Endpoint |-> <<>>]
    BY <2>1 DEF RecvQueue, NewEndpoint
  <2>5. Received = [t \in Slot |-> Empty]
    BY DEF Received, IpcInit, Init
  <2> QED
    BY <2>3, <2>4, <2>5 DEF C!Init
<1>2. IpcInv /\ [IpcNext]_vars => [C!Next]_(C!vars)
  <2> SUFFICES ASSUME IpcInv, [IpcNext]_vars PROVE [C!Next]_(C!vars)
    OBVIOUS
  <2>1. CASE SchedStep \/ RecvResumed \/ TaskExit
    BY <2>1, SchedulingIsUnseen, ResumingIsUnseen, ExitIsUnseen
  <2>2. CASE UNCHANGED vars
    BY <2>2 DEF vars, schedVars, C!vars, InTransit, RecvQueue, Received
  <2>3. ASSUME NEW e \in Endpoint, NEW km \in Message, Send(e, km)
        PROVE  [C!Next]_(C!vars)
    <3>1. CASE SendFull(e, km)
      BY <3>1 DEF SendFull, vars, schedVars, C!vars, InTransit, RecvQueue, Received
    <3>2. CASE SendDeliver(e, km)
      BY <3>2, DeliverHands DEF C!Next
    <3>3. CASE SendBuffered(e, km) \/ SendBlock(e, km)
      BY <3>3, SendQueues DEF C!Next
    <3> QED
      BY <2>3, <3>1, <3>2, <3>3 DEF Send
  <2>4. ASSUME NEW e \in Endpoint, Recv(e)
        PROVE  [C!Next]_(C!vars)
    <3>1. CASE RecvFull(e)
      BY <3>1 DEF RecvFull, vars, schedVars, C!vars, InTransit, RecvQueue, Received
    <3>2. CASE RecvGot(e) \/ RecvWakeSender(e)
      BY <3>2, RecvTakes DEF C!Next
    <3>3. CASE RecvBlock(e)
      BY <3>3, RecvWaits DEF C!Next
    <3> QED
      BY <2>4, <3>1, <3>2, <3>3 DEF Recv
  <2> QED
    BY <2>1, <2>2, <2>3, <2>4 DEF IpcNext
<1> QED
  BY <1>1, <1>2, IpcSafe, PTL DEF IpcSpec, ImplementsChannel, C!Spec

=============================================================================
