------------------------------- MODULE Sched -------------------------------
(***************************************************************************)
(* The kernel's round-robin scheduler, crates/kernel/src/sched.rs, on the  *)
(* one core that runs it: the application processors park in smp::ap_entry *)
(* and never enter the scheduler, so the per-CPU arrays of the code        *)
(* (current, PREV, bootstrap) have one element here.                       *)
(*                                                                         *)
(* A step is a stretch of kernel code that runs with interrupts masked:    *)
(* from the entry of a system call, a tick or a switch to the next         *)
(* context switch or return to the task.  The window between               *)
(* context_switch and the post_switch of the context it resumes is a phase *)
(* of its own ("settle"), because it is there that one context still       *)
(* depends on what another has left behind.                                *)
(*                                                                         *)
(* The callers of Deliver, Unblock and Park are the IPC endpoints          *)
(* (module Ipc).  Next states what the scheduler relies on them for: a     *)
(* delivery goes to a task parked in recv, an unblock to one parked in     *)
(* send.  Ipc is checked to keep to that.                                  *)
(***************************************************************************)
EXTENDS Integers

CONSTANTS MaxTasks,   \* bound on how many tasks are ever spawned
          Message,    \* what a KMessage may carry
          Empty       \* Option::None, where a KMessage may stand

ASSUME MaxTasksAssumption == MaxTasks \in Nat \ {0}
ASSUME EmptyAssumption == Empty \notin Message

VARIABLES
  ntasks,      \* Scheduler.tasks.len(): slots are never reused
  tstate,      \* Task.state of each slot
  ctx,         \* Task.ctx: where in the kernel the task is suspended
  stack,       \* Task.stack: the heap box, until the reaper empties it
  space,       \* Task.space: the ring-3 address space, if any
  tcr3,        \* Task.cr3: the tree the task runs in
  mailbox,     \* Task.mailbox
  current,     \* Scheduler.current of this core
  PREV,        \* the slot this core last switched away from
  KERNEL_ROOT, \* the tree start() found itself in
  cr3,         \* the CR3 register
  rsp0,        \* whose stack TSS.rsp0 and the syscall stub point at
  phase        \* what the core is doing

taskVars == <<ntasks, tstate, ctx, stack, space, tcr3, mailbox>>
cpuVars == <<current, PREV, KERNEL_ROOT, cr3, rsp0, phase>>
schedVars == <<ntasks, tstate, ctx, stack, space, tcr3, mailbox,
               current, PREV, KERNEL_ROOT, cr3, rsp0, phase>>

Slot == 0 .. MaxTasks - 1

NONE == -1

(* Trees are named by the slot whose address space they are; the kernel's  *)
(* own tree, which vm::init built, is -1 and a root never recorded is -2.  *)
KernelTree == -1
NoTree == -2

State == {"Absent", "Ready", "Running", "Blocked", "Dead"}

(* Where context_switch left a task: at its trampoline, in reschedule, in  *)
(* block_current, in block_for_message, or in exit, never to be resumed.   *)
Context == {"entry", "resched", "send", "recv", "exit"}

(* kmain: outside the scheduler.  loop: at the top of start's loop.        *)
(* settle: just resumed, post_switch still to run.  run: in a task, with   *)
(* interrupts enabled.  panic: the kernel has stopped.                     *)
Phase == {"kmain", "loop", "settle", "run", "panic"}

TypeOK ==
  /\ ntasks \in 0 .. MaxTasks
  /\ tstate \in [Slot -> State]
  /\ ctx \in [Slot -> Context]
  /\ stack \in [Slot -> {"none", "held", "freed"}]
  /\ space \in [Slot -> {"none", "live", "gone"}]
  /\ tcr3 \in [Slot -> Slot \cup {KernelTree, NoTree}]
  /\ mailbox \in [Slot -> Message \cup {Empty}]
  /\ current \in Slot \cup {NONE}
  /\ PREV \in Slot \cup {NONE}
  /\ KERNEL_ROOT \in Slot \cup {KernelTree, NoTree}
  /\ cr3 \in Slot \cup {KernelTree, NoTree}
  /\ rsp0 \in Slot \cup {NONE}
  /\ phase \in Phase

Init ==
  /\ ntasks = 0
  /\ tstate = [t \in Slot |-> "Absent"]
  /\ ctx = [t \in Slot |-> "entry"]
  /\ stack = [t \in Slot |-> "none"]
  /\ space = [t \in Slot |-> "none"]
  /\ tcr3 = [t \in Slot |-> NoTree]
  /\ mailbox = [t \in Slot |-> Empty]
  /\ current = NONE
  /\ PREV = NONE
  /\ KERNEL_ROOT = NoTree
  /\ cr3 = KernelTree
  /\ rsp0 = NONE
  /\ phase = "kmain"

-----------------------------------------------------------------------------
(* Choosing whom to run *)

ReadySet(st) == {t \in Slot : st[t] = "Ready"}

(* How many slots after from the scan of pick_next reaches t. *)
Off(from, t) == IF t > from THEN t - from ELSE t - from + ntasks

Nobody(st) == IF ReadySet(st) = {} THEN {NONE} ELSE {}

(* What a pick may return, as a set of at most one slot: the first ready   *)
(* slot of the table, and the first one after from.                        *)
first_ready(st) ==
  {t \in ReadySet(st) : \A u \in ReadySet(st) : t <= u} \cup Nobody(st)

pick_next_MutantFromTheFront(st, from) == first_ready(st)

pick_next(st, from) ==
  {t \in ReadySet(st) : \A u \in ReadySet(st) : Off(from, t) <= Off(from, u)}
    \cup Nobody(st)

-----------------------------------------------------------------------------
(* The halves of a switch *)

(* enter: install a task's kernel stack, or leave the last one in place    *)
(* when there is no task, and load the tree.                               *)
enter_MutantKeepsTree(top, root) ==
  /\ rsp0' = IF top = NONE THEN rsp0 ELSE top
  /\ cr3' = IF top = NONE THEN cr3 ELSE root

enter_MutantNoStack(top, root) ==
  /\ rsp0' = IF rsp0 # NONE THEN rsp0 ELSE top
  /\ cr3' = root

enter(top, root) ==
  /\ rsp0' = IF top = NONE THEN rsp0 ELSE top
  /\ cr3' = root

(* The core leaves prev, whose new state st already records, for next or,  *)
(* when nobody is ready, for the bootstrap context.                        *)
SwitchAway_MutantForgetsPrev(st, prev, why, next) ==
  /\ tstate' = IF next = NONE THEN st ELSE [st EXCEPT ![next] = "Running"]
  /\ ctx' = [ctx EXCEPT ![prev] = why]
  /\ current' = next
  /\ PREV' = PREV
  /\ enter(next, IF next = NONE THEN KERNEL_ROOT ELSE tcr3[next])
  /\ phase' = "settle"

SwitchAway(st, prev, why, next) ==
  /\ tstate' = IF next = NONE THEN st ELSE [st EXCEPT ![next] = "Running"]
  /\ ctx' = [ctx EXCEPT ![prev] = why]
  /\ current' = next
  /\ PREV' = prev
  /\ enter(next, IF next = NONE THEN KERNEL_ROOT ELSE tcr3[next])
  /\ phase' = "settle"

(* The slot post_switch finds to bury: the one switched away from, if it   *)
(* exited.                                                                 *)
Reaped == {t \in {PREV} \cap Slot : tstate[t] = "Dead"}

post_switch(took) ==
  /\ stack' = [t \in Slot |-> IF t \in Reaped THEN "freed" ELSE stack[t]]
  /\ space' = [t \in Slot |-> IF t \in Reaped /\ space[t] = "live"
                              THEN "gone" ELSE space[t]]
  /\ mailbox' = [t \in Slot |-> IF t \in Reaped \cup took THEN Empty ELSE mailbox[t]]
  /\ PREV' = NONE

-----------------------------------------------------------------------------
(* kmain: spawning tasks and running the scheduler *)

(* spawn and spawn_user.  A spawn the heap cannot serve changes nothing.   *)
SpawnTask(sp, root) ==
  /\ phase = "kmain"
  /\ ntasks < MaxTasks
  /\ ntasks' = ntasks + 1
  /\ tstate' = [tstate EXCEPT ![ntasks] = "Ready"]
  /\ ctx' = [ctx EXCEPT ![ntasks] = "entry"]
  /\ stack' = [stack EXCEPT ![ntasks] = "held"]
  /\ space' = [space EXCEPT ![ntasks] = sp]
  /\ tcr3' = [tcr3 EXCEPT ![ntasks] = root]
  /\ UNCHANGED <<mailbox, cpuVars>>

Spawn == SpawnTask("none", cr3)

SpawnUser == SpawnTask("live", ntasks)

(* start: record the kernel's tree and enter the loop. *)
Start ==
  /\ phase = "kmain"
  /\ KERNEL_ROOT' = cr3
  /\ phase' = "loop"
  /\ UNCHANGED <<taskVars, current, PREV, cr3, rsp0>>

(* One turn of start's loop: switch to the first ready task, ... *)
StartPick ==
  /\ phase = "loop"
  /\ \E first \in first_ready(tstate) \ {NONE} :
       /\ current' = first
       /\ tstate' = [tstate EXCEPT ![first] = "Running"]
       /\ enter(first, tcr3[first])
  /\ PREV' = NONE
  /\ phase' = "settle"
  /\ UNCHANGED <<ntasks, ctx, stack, space, tcr3, mailbox, KERNEL_ROOT>>

(* ... or return to kmain when there is none. *)
StartDone ==
  /\ phase = "loop"
  /\ ReadySet(tstate) = {}
  /\ phase' = "kmain"
  /\ UNCHANGED <<taskVars, current, PREV, KERNEL_ROOT, cr3, rsp0>>

(* The bootstrap context resumes: back to the kernel's tree, then settle. *)
SettleBootstrap ==
  /\ phase = "settle"
  /\ current = NONE
  /\ enter(NONE, KERNEL_ROOT)
  /\ post_switch({})
  /\ phase' = "loop"
  /\ UNCHANGED <<ntasks, tstate, ctx, tcr3, current, KERNEL_ROOT>>

(* A task resumes, from its trampoline, reschedule or block_current.  (A   *)
(* task suspended in exit would reach its unreachable!().)                 *)
Resume ==
  /\ phase = "settle"
  /\ current # NONE
  /\ ctx[current] # "recv"
  /\ post_switch({})
  /\ phase' = IF ctx[current] = "exit" THEN "panic" ELSE "run"
  /\ UNCHANGED <<ntasks, tstate, ctx, tcr3, current, KERNEL_ROOT, cr3, rsp0>>

(* A task resumes in block_for_message and takes its mail; finding none is *)
(* the panic of the expect().                                              *)
ResumeRecv ==
  /\ phase = "settle"
  /\ current # NONE
  /\ ctx[current] = "recv"
  /\ post_switch({current})
  /\ phase' = IF mailbox[current] = Empty THEN "panic" ELSE "run"
  /\ UNCHANGED <<ntasks, tstate, ctx, tcr3, current, KERNEL_ROOT, cr3, rsp0>>

-----------------------------------------------------------------------------
(* What a running task does *)

InTask == phase = "run"

(* Only ring-3 tasks make system calls. *)
InUserTask == InTask /\ space[current] = "live"

(* reschedule, when there is another ready task: the yield system call,    *)
(* and the timer tick (request_resched, then on_irq_epilogue).  With no    *)
(* other task ready both are steps that change nothing.                    *)
reschedule ==
  \E next \in pick_next(tstate, current) \ {NONE} :
    SwitchAway([tstate EXCEPT ![current] = "Ready"], current, "resched", next)

Yield ==
  /\ InUserTask
  /\ reschedule
  /\ UNCHANGED <<ntasks, stack, space, tcr3, mailbox, KERNEL_ROOT>>

Preempt ==
  /\ InTask
  /\ reschedule
  /\ UNCHANGED <<ntasks, stack, space, tcr3, mailbox, KERNEL_ROOT>>

(* park_and_switch, from block_current (why = "send") and from             *)
(* block_for_message (why = "recv").                                       *)
Park(why) ==
  /\ InUserTask
  /\ LET st == [tstate EXCEPT ![current] = "Blocked"]
     IN  \E next \in pick_next(st, current) : SwitchAway(st, current, why, next)
  /\ UNCHANGED <<ntasks, stack, space, tcr3, mailbox, KERNEL_ROOT>>

(* exit: by system call, by a fault in ring 3, or by returning from the    *)
(* entry function of a kernel thread.                                      *)
Exit ==
  /\ InTask
  /\ LET st == [tstate EXCEPT ![current] = "Dead"]
     IN  \E next \in pick_next(st, current) : SwitchAway(st, current, "exit", next)
  /\ UNCHANGED <<ntasks, stack, space, tcr3, mailbox, KERNEL_ROOT>>

(* Waking a task that is not blocked is a no-op. *)
Awake(t) == [tstate EXCEPT ![t] = IF @ = "Blocked" THEN "Ready" ELSE @]

(* unblock and deliver, called by a running task for another. *)
unblock(t) ==
  /\ InUserTask
  /\ tstate' = Awake(t)
  /\ UNCHANGED <<ntasks, ctx, stack, space, tcr3, mailbox, cpuVars>>

deliver_MutantNoMail(t, m) ==
  /\ InUserTask
  /\ tstate' = Awake(t)
  /\ UNCHANGED <<ntasks, ctx, stack, space, tcr3, mailbox, cpuVars>>

deliver(t, m) ==
  /\ InUserTask
  /\ mailbox' = [mailbox EXCEPT ![t] = m]
  /\ tstate' = Awake(t)
  /\ UNCHANGED <<ntasks, ctx, stack, space, tcr3, cpuVars>>

(* What the scheduler relies on its callers for. *)
ParkedIn(t, why) == tstate[t] = "Blocked" /\ ctx[t] = why

Unblock == \E t \in Slot : ParkedIn(t, "send") /\ unblock(t)

Deliver == \E t \in Slot, m \in Message : ParkedIn(t, "recv") /\ deliver(t, m)

-----------------------------------------------------------------------------

Next ==
  \/ Spawn \/ SpawnUser
  \/ Start \/ StartPick \/ StartDone \/ SettleBootstrap
  \/ Resume \/ ResumeRecv
  \/ Yield \/ Preempt
  \/ Park("send") \/ Park("recv")
  \/ Unblock \/ Deliver
  \/ Exit

SchedSpec == Init /\ [][Next]_schedVars

(* kmain calls start after spawning, kernel code between two switches runs *)
(* to its end, and the timer keeps ticking while a task runs.              *)
SchedFairness ==
  /\ WF_schedVars(Start)
  /\ WF_schedVars(StartPick)
  /\ WF_schedVars(SettleBootstrap)
  /\ WF_schedVars(Resume)
  /\ WF_schedVars(ResumeRecv)
  /\ WF_schedVars(Preempt)

FairSchedSpec == SchedSpec /\ SchedFairness

-----------------------------------------------------------------------------
(* Properties *)

(* Exactly the slot the scheduler calls current is Running: no switch, from *)
(* whichever of the four places it is made, leaves two tasks on the core    *)
(* or takes one off it without saying so.                                   *)
RunningIsCurrent ==
  \A t \in Slot : tstate[t] = "Running" <=> t = current

(* Whenever a task is on the core, the stack a ring transition would be     *)
(* taken on (TSS.rsp0 and the syscall stub) and the tree being walked are   *)
(* that task's own, and neither has been given back.                        *)
OnItsOwnStackAndTree ==
  current # NONE =>
    /\ rsp0 = current
    /\ stack[current] = "held"
    /\ cr3 = tcr3[current]
    /\ space[current] # "gone"

(* A dead task is buried by its successor and only by it: until then it     *)
(* still owns everything it is standing on, and afterwards it owns nothing. *)
BuriedBySuccessor ==
  \A t \in Slot : tstate[t] = "Dead" =>
    IF t = PREV
    THEN phase = "settle" /\ current # t /\ stack[t] = "held" /\ space[t] # "gone"
    ELSE stack[t] = "freed" /\ space[t] # "live" /\ mailbox[t] = Empty

(* The core never stands in a tree that has been torn down, and the         *)
(* bootstrap context stands in the kernel's own: so start never records a   *)
(* task's tree as KERNEL_ROOT, and a kernel thread never inherits one.      *)
InALiveTree ==
  /\ cr3 \in Slot => space[cr3] = "live"
  /\ current = NONE => cr3 = KernelTree
  /\ \A t \in Slot : tstate[t] # "Absent" /\ space[t] = "none" => tcr3[t] = KernelTree

(* A receiver is made ready with its message already in the mailbox, keeps  *)
(* it until it runs, and nobody else holds one: what the expect() in        *)
(* block_for_message depends on.                                            *)
MailUntilTaken ==
  \A t \in Slot :
    mailbox[t] # Empty <=>
      /\ ctx[t] = "recv"
      /\ tstate[t] = "Ready" \/ (t = current /\ phase = "settle")

(* The kernel never reaches the panic of block_for_message or the           *)
(* unreachable!() of exit.                                                  *)
NoPanic == phase # "panic"

(* The rest of the inductive invariant: what a slot of each state owns, ... *)
SlotBookkeeping ==
  \A t \in Slot :
    /\ tstate[t] = "Absent" <=> t >= ntasks
    /\ tstate[t] = "Absent" => stack[t] = "none" /\ space[t] = "none"
    /\ tstate[t] \in {"Ready", "Running", "Blocked"} =>
         stack[t] = "held" /\ space[t] # "gone"
    /\ space[t] # "none" => tcr3[t] = t
    /\ tstate[t] \in {"Ready", "Blocked"} => ctx[t] # "exit"
    /\ t = current /\ phase = "settle" => ctx[t] # "exit"

(* ... and what each phase has left to settle. *)
PhaseBookkeeping ==
  /\ phase \in {"kmain", "loop"} => current = NONE
  /\ phase # "settle" => PREV = NONE
  /\ phase = "run" => current # NONE
  /\ phase = "settle" => PREV # current
  /\ phase # "kmain" => KERNEL_ROOT = KernelTree

(* At every point between two switches the table, the core's registers and  *)
(* the half-made switch agree (sched.rs): what each slot owns fits its      *)
(* state, the core stands in a live tree, a receiver is ready only with     *)
(* mail, and no panic is reached.                                           *)
SchedInv ==
  /\ TypeOK
  /\ RunningIsCurrent
  /\ InALiveTree
  /\ MailUntilTaken
  /\ NoPanic
  /\ SlotBookkeeping
  /\ PhaseBookkeeping

(* A tree is torn down only by a core that is neither in that task nor in   *)
(* that tree, before the step and after it: the SAFETY argument of          *)
(* post_switch.                                                             *)
TornDownFromOutside ==
  [][\A t \in Slot : space[t] = "live" /\ space'[t] = "gone" =>
        t \notin {current, current', cr3, cr3'}]_schedVars

(* Round robin: a switch from one task to another brings every task that    *)
(* was ready and was passed over strictly nearer to its turn, so none is    *)
(* overtaken more often than there are tasks.                               *)
RoundRobin ==
  [][\A t \in Slot :
       /\ current # NONE /\ current' \notin {NONE, current, t}
       /\ tstate[t] = "Ready"
       => Off(current', t) < Off(current, t)]_schedVars

(* A ready task runs: nobody starves, whatever the others do with their     *)
(* system calls, as long as the timer ticks.                                *)
ReadyRuns == \A t \in Slot : tstate[t] = "Ready" ~> tstate[t] = "Running"

(* What the comment in exit (sched.rs:963-967) says the empty case avoids:  *)
(* that the privilege stack left installed for the bootstrap context is one *)
(* that has been freed.                                                     *)
PrivilegeStackNotFreed == rsp0 \in Slot => stack[rsp0] # "freed"

=============================================================================
