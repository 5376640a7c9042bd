-------------------------------- MODULE Ipc --------------------------------
(***************************************************************************)
(* The IPC endpoints, crates/kernel/src/ipc.rs, on top of the scheduler:   *)
(* bounded rings, queues of blocked receivers and blocked senders, and     *)
(* what send and recv do with them.  A system call runs with interrupts    *)
(* masked on the one core there is, so it is one step up to the switch it  *)
(* may end in; a receiver that blocked goes on in ResumeRecv when it is    *)
(* next scheduled.                                                         *)
(***************************************************************************)
EXTENDS Sched, Sequences

CONSTANTS Endpoint,    \* 0 .. NUM_ENDPOINTS - 1 in the code
          RING_CAP,    \* capacity of a ring
          MAX_WAITERS  \* capacity of each wait queue

ASSUME RingCapAssumption == RING_CAP \in Nat \ {0}
ASSUME MaxWaitersAssumption == MAX_WAITERS \in Nat \ {0}

VARIABLES ep,   \* the endpoint table
          buf   \* what each task's last receive returned

ipcVars == <<ep, buf>>
vars == <<schedVars, ep, buf>>

(* A blocked sender and the message it could not deposit. *)
SendWaiter == [task : Slot, km : Message]

EndpointRecord ==
  [ring : [0 .. RING_CAP - 1 -> Message \cup {Empty}],
   head : 0 .. RING_CAP - 1,
   len : 0 .. RING_CAP,
   recv_waiters : Seq(Slot),
   send_waiters : Seq(SendWaiter)]

IpcTypeOK ==
  /\ ep \in [Endpoint -> EndpointRecord]
  /\ \A e \in Endpoint : /\ Len(ep[e].recv_waiters) <= MAX_WAITERS
                         /\ Len(ep[e].send_waiters) <= MAX_WAITERS
  /\ buf \in [Slot -> Message \cup {Empty}]

NewEndpoint ==
  [ring |-> [i \in 0 .. RING_CAP - 1 |-> Empty],
   head |-> 0,
   len |-> 0,
   recv_waiters |-> <<>>,
   send_waiters |-> <<>>]

IpcInit ==
  /\ Init
  /\ ep = [e \in Endpoint |-> NewEndpoint]
  /\ buf = [t \in Slot |-> Empty]

-----------------------------------------------------------------------------
(* The ring and the queues of one endpoint record r.  The code's Option    *)
(* and bool results are the guards of the callers below.                   *)

Wrap(i) == IF i >= RING_CAP THEN i - RING_CAP ELSE i

push_msg(r, km) ==
  [r EXCEPT !.ring = [@ EXCEPT ![Wrap(r.head + r.len)] = km],
            !.len = @ + 1]

oldest(r) == r.ring[r.head]

pop_msg(r) ==
  [r EXCEPT !.head = Wrap(@ + 1),
            !.len = @ - 1]

push_recv_waiter(r, t) == [r EXCEPT !.recv_waiters = Append(@, t)]

pop_recv_waiter_MutantKeepsIt(r) == r

pop_recv_waiter(r) == [r EXCEPT !.recv_waiters = Tail(@)]

push_send_waiter(r, t, km) ==
  [r EXCEPT !.send_waiters = Append(@, [task |-> t, km |-> km])]

pop_send_waiter(r) == [r EXCEPT !.send_waiters = Tail(@)]

(* Every occurrence of t leaves both queues. *)
remove_waiter(r, t) ==
  [r EXCEPT
    !.recv_waiters = IF \E i \in DOMAIN @ : @[i] = t
                     THEN SelectSeq(@, LAMBDA w : w # t) ELSE @,
    !.send_waiters = IF \E i \in DOMAIN @ : @[i].task = t
                     THEN SelectSeq(@, LAMBDA w : w.task # t) ELSE @]

-----------------------------------------------------------------------------
(* send *)

SendDeliver(e, km) ==
  /\ ep[e].recv_waiters # <<>>
  /\ deliver(Head(ep[e].recv_waiters), km)
  /\ ep' = [ep EXCEPT ![e] = pop_recv_waiter(@)]
  /\ UNCHANGED buf

SendBuffered_MutantIgnoresReceivers(e, km) ==
  /\ InUserTask
  /\ ep[e].len < RING_CAP
  /\ ep' = [ep EXCEPT ![e] = push_msg(@, km)]
  /\ UNCHANGED <<schedVars, buf>>

SendBuffered(e, km) ==
  /\ InUserTask
  /\ ep[e].recv_waiters = <<>>
  /\ ep[e].len < RING_CAP
  /\ ep' = [ep EXCEPT ![e] = push_msg(@, km)]
  /\ UNCHANGED <<schedVars, buf>>

SendBlock(e, km) ==
  /\ ep[e].recv_waiters = <<>>
  /\ ep[e].len = RING_CAP
  /\ Len(ep[e].send_waiters) < MAX_WAITERS
  /\ ep' = [ep EXCEPT ![e] = push_send_waiter(@, current, km)]
  /\ Park("send")
  /\ UNCHANGED buf

(* Ring and queue both full: OutOfResources, and nothing is queued. *)
SendFull(e, km) ==
  /\ InUserTask
  /\ ep[e].recv_waiters = <<>>
  /\ ep[e].len = RING_CAP
  /\ Len(ep[e].send_waiters) = MAX_WAITERS
  /\ UNCHANGED vars

Send(e, km) ==
  \/ SendDeliver(e, km)
  \/ SendBuffered(e, km)
  \/ SendBlock(e, km)
  \/ SendFull(e, km)

-----------------------------------------------------------------------------
(* recv *)

RecvGot(e) ==
  /\ InUserTask
  /\ ep[e].len > 0
  /\ ep[e].send_waiters = <<>>
  /\ ep' = [ep EXCEPT ![e] = pop_msg(@)]
  /\ buf' = [buf EXCEPT ![current] = oldest(ep[e])]
  /\ UNCHANGED schedVars

(* The slot just freed goes to the sender that has waited longest. *)
RecvWakeSender_MutantLeavesSlotFree(e) ==
  /\ ep[e].len > 0
  /\ ep[e].send_waiters # <<>>
  /\ LET w == Head(ep[e].send_waiters)
     IN  /\ ep' = [ep EXCEPT ![e] = pop_send_waiter(pop_msg(@))]
         /\ unblock(w.task)
  /\ buf' = [buf EXCEPT ![current] = oldest(ep[e])]

RecvWakeSender(e) ==
  /\ ep[e].len > 0
  /\ ep[e].send_waiters # <<>>
  /\ LET w == Head(ep[e].send_waiters)
     IN  /\ ep' = [ep EXCEPT ![e] = push_msg(pop_send_waiter(pop_msg(@)), w.km)]
         /\ unblock(w.task)
  /\ buf' = [buf EXCEPT ![current] = oldest(ep[e])]

RecvBlock(e) ==
  /\ ep[e].len = 0
  /\ Len(ep[e].recv_waiters) < MAX_WAITERS
  /\ ep' = [ep EXCEPT ![e] = push_recv_waiter(@, current)]
  /\ Park("recv")
  /\ UNCHANGED buf

RecvFull(e) ==
  /\ InUserTask
  /\ ep[e].len = 0
  /\ Len(ep[e].recv_waiters) = MAX_WAITERS
  /\ UNCHANGED vars

Recv(e) == RecvGot(e) \/ RecvWakeSender(e) \/ RecvBlock(e) \/ RecvFull(e)

(* recv after block_for_message has returned. *)
RecvResumed ==
  /\ ResumeRecv
  /\ buf' = [buf EXCEPT ![current] = mailbox[current]]
  /\ UNCHANGED ep

-----------------------------------------------------------------------------
(* The exit of a task takes it out of every queue before the slot dies:    *)
(* forget_task.                                                            *)

TaskExit ==
  /\ Exit
  /\ ep' = [e \in Endpoint |-> remove_waiter(ep[e], current)]
  /\ UNCHANGED buf

(* The steps of the scheduler that have nothing to do with endpoints. *)
SchedStep ==
  /\ \/ Spawn \/ SpawnUser
     \/ Start \/ StartPick \/ StartDone \/ SettleBootstrap
     \/ Resume \/ Yield \/ Preempt
  /\ UNCHANGED ipcVars

IpcNext ==
  \/ SchedStep
  \/ RecvResumed
  \/ TaskExit
  \/ \E e \in Endpoint : \/ \E km \in Message : Send(e, km)
                         \/ Recv(e)

IpcSpec == IpcInit /\ [][IpcNext]_vars

-----------------------------------------------------------------------------
(* Properties *)

(* Who stands in the queues of each endpoint, in order. *)
RecvQueue == [e \in Endpoint |-> ep[e].recv_waiters]
Tasks(q) == [i \in DOMAIN q |-> q[i].task]
SendQueue == [e \in Endpoint |-> Tasks(ep[e].send_waiters)]

StandsIn(t, Q) == \E e \in Endpoint : \E i \in DOMAIN Q[e] : Q[e][i] = t

AtMostOnce(Q) ==
  \A e, f \in Endpoint : \A i \in DOMAIN Q[e], j \in DOMAIN Q[f] :
    Q[e][i] = Q[f][j] => e = f /\ i = j

(* A blocked task stands in exactly one place of exactly one wait queue, of *)
(* the kind it is parked for, and nobody else stands in a queue.  So        *)
(* deliver and unblock only ever reach a task that is parked for them, no   *)
(* task is parked where nobody can wake it, and none dies while queued: on  *)
(* one core the task that exits or faults is the one running.  forget_task  *)
(* finds nothing and DIED_BLOCKED stays zero, where the comments            *)
(* (sched.rs:357-362, 844-846, 933-939, ipc.rs:199-204, 475-478) provide    *)
(* for a task that dies parked.                                             *)
QueuedIffParked ==
  /\ \A t \in Slot : /\ ParkedIn(t, "recv") <=> StandsIn(t, RecvQueue)
                     /\ ParkedIn(t, "send") <=> StandsIn(t, SendQueue)
                     /\ tstate[t] = "Blocked" => ctx[t] \in {"send", "recv"}
  /\ AtMostOnce(RecvQueue)
  /\ AtMostOnce(SendQueue)

(* Nobody waits for what is already there: receivers wait only on an        *)
(* endpoint with neither a buffered message nor a waiting sender, and       *)
(* senders only while the ring is full.                                     *)
NoIdleWait ==
  \A e \in Endpoint :
    /\ ep[e].recv_waiters # <<>> => ep[e].len = 0
    /\ ep[e].send_waiters # <<>> => ep[e].len = RING_CAP

(* The buffered messages of an endpoint record, oldest first, and those its *)
(* blocked senders hold.                                                    *)
Contents(r) == [i \in 1 .. r.len |-> r.ring[Wrap(r.head + i - 1)]]
Held(q) == [i \in DOMAIN q |-> q[i].km]

(* The endpoints seen as channels: a message is in the channel from the     *)
(* call of send on, blocked or not, and received once it is in the mailbox  *)
(* of the receiver that waited for it.                                      *)
InTransit == [e \in Endpoint |-> Contents(ep[e]) \o Held(ep[e].send_waiters)]
Received == [t \in Slot |-> IF mailbox[t] # Empty THEN mailbox[t] ELSE buf[t]]

C == INSTANCE Channel WITH Client <- Slot, chan <- InTransit,
                           waiting <- RecvQueue, got <- Received

(* The endpoints, rings, queues, mailboxes and scheduling included, behave  *)
(* as first-in first-out channels: see module Channel.                      *)
ImplementsChannel == C!Spec

(* The endpoints use the scheduler only as it relies on them to: see the    *)
(* comment at the head of module Sched.                                     *)
ImplementsSched == SchedSpec

(* The endpoints under the scheduler's fairness. *)
IpcFairness ==
  /\ WF_vars(SchedStep)
  /\ WF_vars(RecvResumed)

FairIpcSpec == IpcSpec /\ IpcFairness

(* A message handed to a waiting receiver reaches that receiver's buffer,   *)
(* however busy the other tasks keep the core: no mailbox stays full, and   *)
(* mail leaves one for its owner's buffer only.                             *)
MailIsRead ==
  /\ \A t \in Slot : []<>(mailbox[t] = Empty)
  /\ [][\A t \in Slot : mailbox[t] # Empty /\ mailbox'[t] # mailbox[t] =>
          mailbox'[t] = Empty /\ buf'[t] = mailbox[t]]_vars

=============================================================================
