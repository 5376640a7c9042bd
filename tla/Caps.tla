-------------------------------- MODULE Caps --------------------------------
(***************************************************************************)
(* Capabilities: the object table with generational revocation             *)
(* (crates/kernel/src/obj.rs), the tasks' capability tables (cap.rs), and  *)
(* the system calls that use them (sys_send, sys_recv and sys_revoke of    *)
(* usermode.rs).  The endpoints underneath are the first-in first-out      *)
(* channels of module Channel, and a message is the capability it carries. *)
(*                                                                         *)
(* Every failing call returns an error code and changes nothing, so only   *)
(* the calls that get through are actions.  A receiver may have to wait    *)
(* between the check of its handle and the arrival of its message          *)
(* (RecvCall, RecvTake), and anything may be revoked in between.           *)
(***************************************************************************)
EXTENDS Integers, Sequences

CONSTANTS Task,        \* the ring-3 tasks
          EndpointId,  \* the ids for which ipc::endpoint_exists holds
          Nothing,     \* Option::None, for a capability or an object
          GenMod,      \* generations are counted modulo this: 2^32 in the code
          MaxSlots,    \* bound: slots the heap has room for
          MaxObjects,  \* bound: objects ever created
          MaxHandles,  \* bound: handles in one table
          MaxTransit   \* bound: messages in transit on one endpoint

ASSUME BoundsAssumption ==
  /\ MaxSlots \in Nat /\ MaxObjects \in Nat /\ MaxHandles \in Nat /\ MaxTransit \in Nat
  /\ GenMod \in Nat

(* No generation comes round again while references to it are held: a slot *)
(* would have to be reused 2^32 times.                                     *)
ASSUME GenerationAssumption == MaxObjects < GenMod

ASSUME NothingAssumption == Nothing \notin EndpointId

VARIABLES
  slots,    \* OBJECTS: generation and object of each slot
  nslots,   \* how many slots OBJECTS has
  caps,     \* the capability table of each task, indexed by handle
  life,     \* whether a task is yet to be spawned, alive or dead
  waiting,  \* the endpoint a task waits on in recv
  transit,  \* capabilities of the messages sent and not yet received
  made,     \* history: every object ever created, in order
  granted   \* history: every capability the kernel put in a table at spawn

vars == <<slots, nslots, caps, life, waiting, transit, made, granted>>

Index == 0 .. MaxSlots - 1
Generation == 0 .. GenMod - 1

ObjectRef == [index : Index, generation : Generation]

Cap == [obj : ObjectRef, send : BOOLEAN, recv : BOOLEAN]

Option(S) == S \cup {Nothing}

Made == [ref : ObjectRef, id : EndpointId, alive : BOOLEAN]

TypeOK ==
  /\ slots \in [Index -> [generation : Generation, object : Option(EndpointId)]]
  /\ nslots \in 0 .. MaxSlots
  /\ caps \in [Task -> Seq(Option(Cap))]
  /\ life \in [Task -> {"new", "alive", "dead"}]
  /\ waiting \in [Task -> Option(EndpointId)]
  /\ transit \in [EndpointId -> Seq(Option(Cap))]
  /\ made \in Seq(Made)
  /\ granted \subseteq Cap

Init ==
  /\ slots = [i \in Index |-> [generation |-> 0, object |-> Nothing]]
  /\ nslots = 0
  /\ caps = [t \in Task |-> <<>>]
  /\ life = [t \in Task |-> "new"]
  /\ waiting = [t \in Task |-> Nothing]
  /\ transit = [e \in EndpointId |-> <<>>]
  /\ made = <<>>
  /\ granted = {}

-----------------------------------------------------------------------------
(* The object table *)

get(r) ==
  IF r.index < nslots /\ slots[r.index].generation = r.generation
  THEN slots[r.index].object
  ELSE Nothing

Used == 0 .. nslots - 1
FreeSlots == {i \in Used : slots[i].object = Nothing}

(* create in slot i, whose generation it keeps. *)
Occupy(i, id) ==
  /\ Len(made) < MaxObjects
  /\ slots' = [slots EXCEPT ![i].object = id]
  /\ made' = Append(made, [ref |-> [index |-> i, generation |-> slots[i].generation],
                           id |-> id, alive |-> TRUE])
  /\ UNCHANGED <<caps, life, waiting, transit, granted>>

CreateReuse(id) ==
  /\ \E i \in FreeSlots : /\ \A j \in FreeSlots : i <= j
                          /\ Occupy(i, id)
  /\ UNCHANGED nslots

CreateGrow(id) ==
  /\ FreeSlots = {}
  /\ nslots < MaxSlots
  /\ Occupy(nslots, id)
  /\ nslots' = nslots + 1

(* revoke, of a reference that is live. *)
revoke_MutantKeepsGeneration(r) ==
  /\ get(r) # Nothing
  /\ slots' = [slots EXCEPT ![r.index] = [generation |-> @.generation, object |-> Nothing]]

revoke(r) ==
  /\ get(r) # Nothing
  /\ slots' = [slots EXCEPT ![r.index] = [generation |-> (@.generation + 1) % GenMod,
                                          object |-> Nothing]]

-----------------------------------------------------------------------------
(* The capability tables *)

(* Handle 0 names nothing, and neither does one past the end. *)
resolve(t, h) == IF h \in DOMAIN caps[t] THEN caps[t][h] ELSE Nothing

Gaps(t) == {h \in DOMAIN caps[t] : caps[t][h] = Nothing}

(* install, as a set: empty when the table must grow and the heap is out of *)
(* room.                                                                    *)
install_MutantTakesLast(t, c) ==
  {[caps[t] EXCEPT ![h] = c] : h \in {h \in DOMAIN caps[t] : h = Len(caps[t])}}
    \cup IF caps[t] = <<>> THEN {<<c>>} ELSE {}

install(t, c) ==
  {[caps[t] EXCEPT ![h] = c] : h \in {h \in Gaps(t) : \A g \in Gaps(t) : h <= g}}
    \cup IF Gaps(t) = {} /\ Len(caps[t]) < MaxHandles
         THEN {Append(caps[t], c)} ELSE {}

(* kmain grants a capability to a task it is about to spawn. *)
Grant(t, r, right) ==
  LET c == [obj |-> r, send |-> right = "send", recv |-> right = "recv"]
  IN  /\ life[t] = "new"
      /\ \E table \in install(t, c) : caps' = [caps EXCEPT ![t] = table]
      /\ granted' = granted \cup {c}
      /\ UNCHANGED <<slots, nslots, life, waiting, transit, made>>

Spawn(t) ==
  /\ life[t] = "new"
  /\ life' = [life EXCEPT ![t] = "alive"]
  /\ UNCHANGED <<slots, nslots, caps, waiting, transit, made, granted>>

-----------------------------------------------------------------------------
(* System calls *)

InUser(t) == life[t] = "alive" /\ waiting[t] = Nothing

(* endpoint_for: the endpoint a handle gives this right to, if it does. *)
endpoint_for_MutantTrustsTheHandle(t, h, right) ==
  LET c == resolve(t, h)
  IN  IF c # Nothing /\ c[right] THEN slots[c.obj.index].object ELSE Nothing

endpoint_for(t, h, right) ==
  LET c == resolve(t, h)
  IN  IF c # Nothing /\ c[right] THEN get(c.obj) ELSE Nothing

(* sys_send, with the handle of a capability to transfer, or 0. *)
sys_send_MutantPassesAllRights(t, h, ch) ==
  LET e == endpoint_for(t, h, "send")
      c == resolve(t, ch)
  IN  /\ InUser(t)
      /\ e # Nothing
      /\ ch # 0 => c # Nothing
      /\ Len(transit[e]) < MaxTransit
      /\ transit' = [transit EXCEPT ![e] =
                       Append(@, IF c = Nothing THEN c ELSE [c EXCEPT !.recv = TRUE])]
      /\ UNCHANGED <<slots, nslots, caps, life, waiting, made, granted>>

sys_send(t, h, ch) ==
  LET e == endpoint_for(t, h, "send")
      c == resolve(t, ch)
  IN  /\ InUser(t)
      /\ e # Nothing
      /\ ch # 0 => c # Nothing
      /\ Len(transit[e]) < MaxTransit
      /\ transit' = [transit EXCEPT ![e] = Append(@, c)]
      /\ UNCHANGED <<slots, nslots, caps, life, waiting, made, granted>>

(* sys_recv as far as ipc::recv, ... *)
RecvCall(t, h) ==
  LET e == endpoint_for(t, h, "recv")
  IN  /\ InUser(t)
      /\ e # Nothing
      /\ waiting' = [waiting EXCEPT ![t] = e]
      /\ UNCHANGED <<slots, nslots, caps, life, transit, made, granted>>

(* ... and from there on: the capability goes into the receiver's own table *)
(* or, when that cannot grow, is lost with its message.                     *)
RecvTake(t) ==
  LET e == waiting[t]
      c == Head(transit[e])
  IN  /\ e # Nothing
      /\ transit[e] # <<>>
      /\ transit' = [transit EXCEPT ![e] = Tail(@)]
      /\ waiting' = [waiting EXCEPT ![t] = Nothing]
      /\ \/ /\ c = Nothing \/ Gaps(t) = {}
            /\ UNCHANGED caps
         \/ /\ c # Nothing
            /\ \E table \in install(t, c) : caps' = [caps EXCEPT ![t] = table]
      /\ UNCHANGED <<slots, nslots, life, made, granted>>

(* exit: post_switch drops the table of the dead task.  What it sent stays *)
(* in transit.                                                             *)
Exit(t) ==
  /\ InUser(t)
  /\ life' = [life EXCEPT ![t] = "dead"]
  /\ caps' = [caps EXCEPT ![t] = <<>>]
  /\ UNCHANGED <<slots, nslots, waiting, transit, made, granted>>

(* sys_revoke needs a handle and no particular right. *)
sys_revoke(t, h) ==
  LET c == resolve(t, h)
  IN  /\ InUser(t)
      /\ c # Nothing
      /\ revoke(c.obj)
      /\ made' = [n \in DOMAIN made |->
                    IF made[n].ref = c.obj THEN [made[n] EXCEPT !.alive = FALSE]
                    ELSE made[n]]
      /\ UNCHANGED <<nslots, caps, life, waiting, transit, granted>>

Next ==
  \/ \E id \in EndpointId : CreateReuse(id) \/ CreateGrow(id)
  \/ \E t \in Task :
       \/ \E n \in DOMAIN made, right \in {"send", "recv"} : Grant(t, made[n].ref, right)
       \/ Spawn(t) \/ Exit(t)
       \/ RecvTake(t)
       \/ \E h \in 1 .. MaxHandles :
            \/ \E ch \in 0 .. MaxHandles : sys_send(t, h, ch)
            \/ RecvCall(t, h)
            \/ sys_revoke(t, h)

Spec == Init /\ [][Next]_vars

-----------------------------------------------------------------------------
(* Properties *)

(* Every reference ever minted, wherever copies of it have gone since,      *)
(* resolves to the object it was minted for while that object lives, and to *)
(* nothing from its revocation on, whatever has moved into its slot.        *)
ResolvesIffAlive ==
  \A n \in DOMAIN made :
    get(made[n].ref) = IF made[n].alive THEN made[n].id ELSE Nothing

(* The capabilities a task holds or a message carries. *)
InTables == UNION {{caps[t][h] : h \in DOMAIN caps[t]} : t \in Task}
InMessages == UNION {{transit[e][i] : i \in DOMAIN transit[e]} : e \in EndpointId}

(* Delegation only copies: every capability in a table or a message is one  *)
(* the kernel granted at some spawn, with the same rights and the same      *)
(* reference.                                                               *)
NoAmplification == (InTables \cup InMessages) \ {Nothing} \subseteq granted

(* A handle a task has learnt goes on naming the same capability for as     *)
(* long as the task lives: no later delegation replaces what is in its      *)
(* table.                                                                   *)
HandlesNeverMove ==
  [][\A t \in Task : \A h \in DOMAIN caps[t] :
       caps[t][h] # Nothing /\ life'[t] # "dead"
       => h \in DOMAIN caps'[t] /\ caps'[t][h] = caps[t][h]]_vars

(* The task's own capabilities give it this right to a living object that   *)
(* names the endpoint.                                                      *)
Holds(t, e, right) ==
  \E h \in DOMAIN caps[t], n \in DOMAIN made :
    /\ caps[t][h] # Nothing
    /\ caps[t][h][right]
    /\ made[n].ref = caps[t][h].obj
    /\ made[n].id = e
    /\ made[n].alive

(* A step that is the task's own send, and leaves a message on e.           *)
Sends(t, e) ==
  /\ \E h \in 1 .. MaxHandles, ch \in 0 .. MaxHandles : sys_send(t, h, ch)
  /\ Len(transit'[e]) > Len(transit[e])

(* Revocation is global: a task sends on an endpoint, or starts to wait on  *)
(* it, only on the strength of a capability of its own for an object that   *)
(* is alive at that moment, and no message comes but from a send.  What a   *)
(* task holds does not help another.                                        *)
NoTrafficWithoutAuthority ==
  [][\A e \in EndpointId :
       /\ Len(transit'[e]) > Len(transit[e]) => \E t \in Task : Sends(t, e)
       /\ \A t \in Task :
            /\ Sends(t, e) => life[t] = "alive" /\ Holds(t, e, "send")
            /\ waiting[t] # e /\ waiting'[t] = e => Holds(t, e, "recv")]_vars

=============================================================================
