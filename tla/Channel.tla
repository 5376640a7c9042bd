------------------------------ MODULE Channel ------------------------------
(***************************************************************************)
(* What the IPC endpoints promise the programs that use them, with the     *)
(* ring, the wait queues' bounds, the mailboxes and the scheduler left     *)
(* out: each endpoint is an unbounded first-in first-out channel, whose    *)
(* receivers are served in the order they asked.  No message is lost,      *)
(* duplicated or reordered, and none overtakes another because its sender  *)
(* did not have to wait.                                                   *)
(***************************************************************************)
EXTENDS Sequences

CONSTANTS Client,    \* who sends and receives
          Endpoint,  \* the channels
          Message,   \* what they carry
          Empty      \* what a client has received before it receives anything

VARIABLES chan,      \* chan[e]: sent to e and not yet received, oldest first
          waiting,   \* waiting[e]: who waits to receive from e, first come first
          got        \* got[c]: the last message client c was handed

vars == <<chan, waiting, got>>

Init ==
  /\ chan = [e \in Endpoint |-> <<>>]
  /\ waiting = [e \in Endpoint |-> <<>>]
  /\ got = [c \in Client |-> Empty]

(* A message is handed to whoever has waited longest, ... *)
Hand(e, m) ==
  /\ waiting[e] # <<>>
  /\ got' = [got EXCEPT ![Head(waiting[e])] = m]
  /\ waiting' = [waiting EXCEPT ![e] = Tail(@)]
  /\ UNCHANGED chan

(* ... or, if nobody waits, queued behind those sent before it. *)
Queue(e, m) ==
  /\ waiting[e] = <<>>
  /\ chan' = [chan EXCEPT ![e] = Append(@, m)]
  /\ UNCHANGED <<waiting, got>>

(* A client takes the oldest message, ... *)
Take(e, c) ==
  /\ chan[e] # <<>>
  /\ got' = [got EXCEPT ![c] = Head(chan[e])]
  /\ chan' = [chan EXCEPT ![e] = Tail(@)]
  /\ UNCHANGED waiting

(* ... or, if there is none, waits behind those who asked before it. *)
Wait(e, c) ==
  /\ chan[e] = <<>>
  /\ waiting' = [waiting EXCEPT ![e] = Append(@, c)]
  /\ UNCHANGED <<chan, got>>

Next ==
  \E e \in Endpoint :
    \/ \E m \in Message : Hand(e, m) \/ Queue(e, m)
    \/ \E c \in Client : Take(e, c) \/ Wait(e, c)

Spec == Init /\ [][Next]_vars

=============================================================================
