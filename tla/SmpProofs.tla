----------------------------- MODULE SmpProofs ------------------------------
(***************************************************************************)
(* Waking the application processors (crates/kernel/src/smp.rs), for any   *)
(* number of them: the count of the woken never runs ahead of the cores,   *)
(* and cores that answer in time get stacks of their own.                  *)
(***************************************************************************)
EXTENDS Smp, FiniteSetTheorems, TLAPS

-----------------------------------------------------------------------------
(* The inductive invariant *)

(* The attempt at one core, from its INIT to the end of its wait. *)
Attempt == {"init", "sipi1", "sipi2", "ack"}

(* An answer the boot processor would count if it looked. *)
Pending == IF block.ACK # 0 /\ bsp \in Attempt THEN 1 ELSE 0

Parked == {c \in AP : pc[c] = "parked"}

Types ==
  /\ prompt \in BOOLEAN
  /\ bsp \in {"stage", "stack", "id", "clear", "init", "sipi1", "sipi2", "ack", "unmap", "done",
             "reset"}
  /\ target \in 1 .. N + 1
  /\ mapped \in BOOLEAN
  /\ block \in [STACK_TOP : 0 .. N, CPU_ID : 0 .. N, ACK : 0 .. 1]
  /\ woken \in Nat
  /\ answered \subseteq AP
  /\ pc \in [AP -> {"off", "init", "real", "long", "stacked", "acked", "named",
                    "entered", "called", "parked", "reset"}]
  /\ rsp \in [AP -> 0 .. N]
  /\ rdi \in [AP -> 0 .. N]
  /\ ONLINE \in Nat
  /\ ROLL_CALL \in Nat

(* There is a core to wake until the loop is over. *)
InTheLoop == bsp \notin {"unmap", "done", "reset"} => target \in AP

(* Every answer counted, or waiting to be, is a core's own. *)
Counted == woken + Pending <= Cardinality(Acked)

(* The boot processor and the parked cores are the ones online. *)
OnlineCounted == ONLINE = 1 + Cardinality(Parked)

(* When every core answers in time: the cores behind the one being woken    *)
(* have answered, the ones ahead of it are off, and the block holds its     *)
(* stack for as long as it may read it.                                     *)
OneAtATime ==
  prompt =>
    /\ \A c \in AP : c > target => pc[c] = "off"
    /\ \A c \in AP : c < target => c \in Acked
    /\ bsp \in {"stage", "stack", "id", "clear", "init"} => pc[target] = "off"
    /\ bsp = "sipi1" => pc[target] = "init"
    /\ bsp \in {"sipi2", "ack"} => pc[target] \notin {"off", "init"}
    /\ bsp \in {"unmap", "done"} /\ target \in AP => pc[target] = "off"
    /\ bsp \in Attempt /\ block.ACK # 0 => target \in Acked
    /\ bsp \in Attempt \cup {"id", "clear"} => block.STACK_TOP \in {target, 0}
    /\ \A c \in AP : rsp[c] \in {c, 0}

SmpInv == Types /\ InTheLoop /\ Counted /\ OnlineCounted /\ OneAtATime

-----------------------------------------------------------------------------
(* Counting cores *)

LEMMA CountTypes ==
  ASSUME Types
  PROVE  /\ IsFiniteSet(AP) /\ IsFiniteSet(Acked) /\ IsFiniteSet(Parked)
         /\ Cardinality(Acked) \in Nat /\ Cardinality(Acked) <= N
         /\ Cardinality(Parked) \in Nat /\ Cardinality(Parked) <= N
         /\ woken \in Nat /\ Pending \in 0 .. 1
<1>1. IsFiniteSet(AP) /\ Cardinality(AP) = N
  BY NAssumption, FS_Interval DEF AP
<1>2. Acked \in SUBSET AP /\ Parked \in SUBSET AP
  BY DEF Acked, Parked
<1>3. /\ IsFiniteSet(Acked) /\ Cardinality(Acked) <= N
      /\ IsFiniteSet(Parked) /\ Cardinality(Parked) <= N
  BY <1>1, <1>2, FS_Subset
<1>4. Cardinality(Acked) \in Nat /\ Cardinality(Parked) \in Nat
  BY <1>3, FS_CardinalityType
<1> QED
  BY <1>1, <1>3, <1>4 DEF Types, Pending

(* A core moves on: who it joins by doing so. *)
LEMMA CoreMoves ==
  ASSUME Types, NEW c \in AP, NEW to, pc' = [pc EXCEPT ![c] = to]
  PROVE  /\ pc'[c] = to /\ \A d \in AP \ {c} : pc'[d] = pc[d]
         /\ to \notin {"off", "init", "real", "long", "stacked"} => Acked' = Acked \cup {c}
         /\ to \in {"off", "init", "real", "long", "stacked"} => Acked' = Acked \ {c}
         /\ to = "parked" => Parked' = Parked \cup {c}
         /\ to # "parked" => Parked' = Parked \ {c}
<1>1. pc'[c] = to /\ \A d \in AP \ {c} : pc'[d] = pc[d]
  BY DEF Types
<1> QED
  BY <1>1 DEF Acked, Parked

(* Steps after which as many cores have answered and are parked as before. *)
LEMMA NobodyAnswers ==
  ASSUME Types, Types', Counted, OnlineCounted, Acked' = Acked, Parked' = Parked,
         woken' + Pending' <= woken + Pending, UNCHANGED ONLINE
  PROVE  Counted' /\ OnlineCounted'
<1>1. /\ Cardinality(Acked') = Cardinality(Acked) /\ Cardinality(Parked') = Cardinality(Parked)
      /\ Cardinality(Acked) \in Nat
  BY CountTypes
<1>2. woken + Pending \in Nat /\ woken' + Pending' \in Nat
  <2>1. Pending \in {0, 1} /\ Pending' \in {0, 1}
    BY DEF Pending
  <2>2. woken \in Nat /\ woken' \in Nat
    BY DEF Types
  <2>3. \A a \in Nat, b \in {0, 1} : a + b \in Nat
    OBVIOUS
  <2> QED
    BY <2>1, <2>2, <2>3, Zenon
<1>3. woken' + Pending' <= Cardinality(Acked')
  BY <1>1, <1>2 DEF Counted
<1>4. Counted'
  BY <1>3 DEF Counted
<1>5. OnlineCounted'
  BY <1>1 DEF OnlineCounted
<1> QED
  BY <1>4, <1>5

-----------------------------------------------------------------------------
LEMMA InitSmpInv == Init => SmpInv
<1> SUFFICES ASSUME Init PROVE SmpInv
  OBVIOUS
<1> USE NAssumption DEF Init
<1>1. Types /\ InTheLoop
  <2>1. /\ block \in [STACK_TOP : 0 .. N, CPU_ID : 0 .. N, ACK : 0 .. 1]
        /\ rsp \in [AP -> 0 .. N] /\ rdi \in [AP -> 0 .. N]
    OBVIOUS
  <2>2. target \in 1 .. N + 1 /\ target \in AP
    BY DEF AP
  <2>3. pc \in [AP -> {"off", "init", "real", "long", "stacked", "acked", "named",
                      "entered", "called", "parked", "reset"}]
    OBVIOUS
  <2>4. Types
    BY <2>1, <2>2, <2>3 DEF Types
  <2> QED
    BY <2>2, <2>4 DEF InTheLoop
<1>2. Acked = {} /\ Parked = {} /\ Pending = 0
  BY DEF Acked, Parked, Pending
<1>3. Counted /\ OnlineCounted
  BY <1>2, FS_EmptySet DEF Counted, OnlineCounted
<1>4. OneAtATime
  BY DEF OneAtATime, Attempt, AP
<1> QED
  BY <1>1, <1>3, <1>4 DEF SmpInv

(* Steps of the boot processor that leave the cores alone. *)
LEMMA PreparingKeepsInv ==
  ASSUME SmpInv, stage_trampoline \/ prepare_slot \/ unmap_identity
  PROVE  SmpInv'
<1> USE NAssumption
<1>1. /\ Types /\ InTheLoop /\ Counted /\ OnlineCounted /\ OneAtATime
      /\ UNCHANGED <<prompt, target, woken, answered, apVars>>
  BY DEF SmpInv, stage_trampoline, prepare_slot, prepare_stack, prepare_id, prepare_ack, unmap_identity
<1>2. Types'
  <2>1. CASE stage_trampoline
    <3>1. /\ block' \in [STACK_TOP : 0 .. N, CPU_ID : 0 .. N, ACK : 0 .. 1]
          /\ bsp' \in {"stack", "done"}
      BY <1>1, <2>1 DEF Types, stage_trampoline
    <3>2. mapped' \in BOOLEAN
      BY <2>1, Zenon DEF stage_trampoline
    <3> QED
      BY <1>1, <3>1, <3>2 DEF Types, apVars
  <2>2. CASE prepare_slot
    <3>1. target \in 0 .. N
      BY <1>1, <2>2 DEF InTheLoop, AP, prepare_slot, prepare_stack, prepare_id, prepare_ack
    <3>2. /\ block' \in [STACK_TOP : 0 .. N, CPU_ID : 0 .. N, ACK : 0 .. 1]
          /\ bsp' \in {"id", "clear", "init"} /\ mapped' = mapped
      BY <1>1, <2>2, <3>1 DEF Types, prepare_slot, prepare_stack, prepare_id, prepare_ack
    <3> QED
      BY <1>1, <3>2 DEF Types, apVars
  <2>3. CASE unmap_identity
    BY <1>1, <2>3 DEF Types, unmap_identity, apVars
  <2> QED
    BY <2>1, <2>2, <2>3
<1>3. InTheLoop'
  BY <1>1 DEF InTheLoop, stage_trampoline, prepare_slot, prepare_stack, prepare_id, prepare_ack, unmap_identity
<1>4. Acked' = Acked /\ Parked' = Parked
  BY <1>1 DEF Acked, Parked, apVars
<1>5. Pending' = 0
  BY <1>1 DEF Types, Pending, Attempt, stage_trampoline, prepare_slot, prepare_stack, prepare_id,
              prepare_ack, unmap_identity
<1>6. Counted' /\ OnlineCounted'
  BY <1>1, <1>2, <1>4, <1>5, CountTypes, NobodyAnswers DEF apVars
<1>7. OneAtATime'
  <2> SUFFICES ASSUME prompt PROVE OneAtATime'
    BY <1>1 DEF OneAtATime
  <2>1. CASE stage_trampoline
    BY <1>1, <1>4, <2>1 DEF Types, OneAtATime, Attempt, stage_trampoline, apVars
  <2>2. CASE prepare_stack
    BY <1>1, <1>4, <2>2 DEF Types, OneAtATime, Attempt, prepare_stack, apVars
  <2>3. CASE prepare_id
    BY <1>1, <1>4, <2>3 DEF Types, OneAtATime, Attempt, prepare_id, apVars
  <2>4. CASE prepare_ack
    BY <1>1, <1>4, <2>4 DEF Types, OneAtATime, Attempt, prepare_ack, apVars
  <2>5. CASE unmap_identity
    BY <1>1, <1>4, <2>5 DEF Types, OneAtATime, Attempt, unmap_identity, apVars
  <2> QED
    BY <2>1, <2>2, <2>3, <2>4, <2>5 DEF prepare_slot
<1> QED
  BY <1>2, <1>3, <1>6, <1>7 DEF SmpInv

(* A message, whether the core takes it or not. *)
LEMMA SendKeepsInv ==
  ASSUME SmpInv,
         \/ Send("init", "sipi1", "off", "init")
         \/ Send("sipi1", "sipi2", "init", "real")
         \/ Send("sipi2", "ack", "init", "real")
  PROVE  SmpInv'
<1> USE NAssumption
<1>1. /\ Types /\ InTheLoop /\ Counted /\ OnlineCounted /\ OneAtATime
      /\ UNCHANGED <<prompt, mapped, block, woken, answered, rsp, rdi, ONLINE, ROLL_CALL>>
      /\ bsp \in Attempt
  BY DEF SmpInv, Send, Attempt
<1>2. target \in AP
  BY <1>1 DEF InTheLoop, Attempt
<1>3. /\ target' \in 1 .. N + 1
      /\ bsp' \in {"stack", "unmap", "sipi1", "sipi2", "ack"}
      /\ bsp' \notin {"unmap", "done"} => target' \in AP
  BY <1>1, <1>2 DEF Send, NextTarget, AP
<1>4. PICK to \in {"init", "real"} :
        \/ pc[target] \in {"off", "init"} /\ pc' = [pc EXCEPT ![target] = to]
        \/ UNCHANGED pc
  BY DEF Send
<1>5. Types' /\ InTheLoop'
  BY <1>1, <1>2, <1>3, <1>4 DEF Types, InTheLoop
<1>6. Acked' = Acked /\ Parked' = Parked
  BY <1>1, <1>2, <1>4, CoreMoves DEF Acked, Parked
<1>7. Pending' <= Pending /\ Pending \in 0 .. 1 /\ Pending' \in 0 .. 1
  BY <1>1 DEF Pending
<1>8. Counted' /\ OnlineCounted'
  BY <1>1, <1>5, <1>6, <1>7, CountTypes, NobodyAnswers
<1>9. OneAtATime'
  <2> SUFFICES ASSUME prompt PROVE OneAtATime'
    BY <1>1 DEF OneAtATime
  <2>1. target' = target
    BY DEF Send
  <2>2. \A c \in AP \ {target} : pc'[c] = pc[c]
    BY <1>1, <1>2, <1>4, CoreMoves
  <2>3. CASE Send("init", "sipi1", "off", "init")
    <3>1. bsp = "init" /\ bsp' = "sipi1" /\ pc'[target] = "init"
      BY <1>1, <1>2, <2>3 DEF Send, OneAtATime, Types
    <3>2. \A c \in AP : c > target => pc'[c] = "off"
      BY <1>1, <1>2, <2>2 DEF OneAtATime, AP
    <3> QED
      BY <1>1, <1>2, <1>6, <2>1, <3>1, <3>2 DEF OneAtATime, Attempt
  <2>4. CASE Send("sipi1", "sipi2", "init", "real")
    <3>1. bsp = "sipi1" /\ bsp' = "sipi2" /\ pc'[target] = "real"
      BY <1>1, <1>2, <2>4 DEF Send, OneAtATime, Types
    <3> QED
      BY <1>1, <1>2, <1>6, <2>1, <2>2, <3>1 DEF OneAtATime, Attempt
  <2>5. CASE Send("sipi2", "ack", "init", "real")
    <3>1. bsp = "sipi2" /\ bsp' = "ack" /\ pc' = pc
      BY <1>1, <1>2, <2>5 DEF Send, OneAtATime, Types
    <3> QED
      BY <1>1, <1>2, <1>6, <2>1, <2>2, <3>1 DEF OneAtATime, Attempt
  <2> QED
    BY <2>3, <2>4, <2>5
<1> QED
  BY <1>5, <1>8, <1>9 DEF SmpInv


(* The end of a wait: what was pending is counted. *)
LEMMA WaitKeepsInv ==
  ASSUME SmpInv, wait_for_ack
  PROVE  SmpInv'
<1> USE NAssumption
<1>1. /\ Types /\ InTheLoop /\ Counted /\ OnlineCounted /\ OneAtATime
      /\ UNCHANGED <<prompt, mapped, block, apVars>> /\ bsp = "ack" /\ NextTarget
  BY DEF SmpInv, wait_for_ack
<1>2. target \in AP
  BY <1>1 DEF InTheLoop
<1>3. /\ target' \in 1 .. N + 1 /\ target' = target + 1
      /\ bsp' \in {"stack", "unmap"}
      /\ bsp' = "stack" => target' \in AP
      /\ bsp' = "unmap" => target' \notin AP
  BY <1>1, <1>2 DEF NextTarget, AP
<1>4. Pending' = 0
  BY <1>3 DEF Pending, Attempt
<1>5. /\ woken' \in Nat /\ woken' <= woken + Pending
      /\ answered' \subseteq AP
  <2>1. CASE block.ACK # 0 /\ woken' = woken + 1 /\ answered' = answered \cup {target}
    <3>1. Pending = 1
      BY <1>1, <2>1 DEF Pending, Attempt
    <3> QED
      BY <1>1, <1>2, <2>1, <3>1 DEF Types
  <2>2. CASE UNCHANGED <<woken, answered>>
    BY <1>1, <2>2, CountTypes DEF Types
  <2> QED
    BY <2>1, <2>2 DEF wait_for_ack
<1>6. Types' /\ InTheLoop'
  BY <1>1, <1>3, <1>5 DEF Types, InTheLoop, apVars
<1>7. Acked' = Acked /\ Parked' = Parked
  BY <1>1 DEF Acked, Parked, apVars
<1>8. woken' + Pending' <= woken + Pending
  BY <1>4, <1>5
<1>9. Counted' /\ OnlineCounted'
  BY <1>1, <1>6, <1>7, <1>8, NobodyAnswers DEF apVars
<1>10. OneAtATime'
  <2> SUFFICES ASSUME prompt PROVE OneAtATime'
    BY <1>1 DEF OneAtATime
  <2>1. block.ACK # 0
    BY DEF wait_for_ack
  <2>2. target \in Acked /\ target \in 1 .. N
    BY <1>1, <1>2, <2>1 DEF OneAtATime, Attempt, AP
  <2>3. \A c \in AP : c < target' => c \in Acked'
    BY <1>1, <1>3, <1>7, <2>2 DEF OneAtATime, AP
  <2>4. /\ \A c \in AP : c > target' => pc'[c] = "off"
        /\ target' \in AP => pc'[target'] = "off"
    BY <1>1, <1>3, <2>2 DEF OneAtATime, AP, apVars
  <2> QED
    BY <1>1, <1>3, <2>3, <2>4 DEF OneAtATime, Attempt, apVars
<1> QED
  BY <1>6, <1>9, <1>10 DEF SmpInv

(* A step of a core: it moves on, and never back behind its answer.  What   *)
(* it reads from the block while it is woken in time is its own.            *)
LEMMA CoreKeepsInv ==
  ASSUME SmpInv, NEW c \in AP, ApplicationProcessor(c)
  PROVE  SmpInv'
<1> USE NAssumption
<1>1. /\ Types /\ InTheLoop /\ Counted /\ OnlineCounted /\ OneAtATime
      /\ UNCHANGED <<prompt, target, mapped, woken, answered>>
      /\ bsp' \in {bsp, "reset"}
  BY DEF SmpInv, ApplicationProcessor, EnterLongMode, LoadStack, Acknowledge, LoadId, CallEntry,
         CallRoll, GoOnline, TripleFault, Reset, bspVars
<1>2. PICK to \in {"long", "stacked", "acked", "named", "entered", "called", "parked", "reset"} :
        /\ pc' = [pc EXCEPT ![c] = to]
        /\ to = "long" => pc[c] = "real"
        /\ to = "stacked" => pc[c] = "long"
        /\ pc[c] \notin {"off", "init", "parked"}
        /\ to \in {"long", "stacked"} => c \notin Acked
        /\ to \notin {"long", "stacked"} => c \in Acked'
  <2>1. \A to : pc' = [pc EXCEPT ![c] = to] => pc'[c] = to
    BY <1>1 DEF Types
  <2> QED
    BY <2>1 DEF ApplicationProcessor, EnterLongMode, LoadStack, Acknowledge, LoadId, CallEntry,
           CallRoll, GoOnline, TripleFault, Reset, At, OnThePage, Acked
<1>3. /\ pc'[c] = to /\ \A d \in AP \ {c} : pc'[d] = pc[d]
      /\ Acked' = IF to \in {"long", "stacked"} THEN Acked ELSE Acked \cup {c}
      /\ Parked' = IF to = "parked" THEN Parked \cup {c} ELSE Parked
      /\ c \notin Parked
  BY <1>1, <1>2, CoreMoves, ZenonT(30) DEF Acked, Parked
<1>4. /\ rsp' \in [AP -> 0 .. N] /\ rdi' \in [AP -> 0 .. N]
      /\ block' \in [STACK_TOP : 0 .. N, CPU_ID : 0 .. N, ACK : 0 .. 1]
      /\ block'.STACK_TOP = block.STACK_TOP
  BY <1>1 DEF Types, ApplicationProcessor, EnterLongMode, LoadStack, Acknowledge, LoadId,
              CallEntry, CallRoll, GoOnline, TripleFault, Reset
<1>5. ONLINE' \in Nat /\ ROLL_CALL' \in Nat
  BY <1>1 DEF Types, ApplicationProcessor, EnterLongMode, LoadStack, Acknowledge, LoadId,
              CallEntry, CallRoll, GoOnline, TripleFault, Reset
<1>6. pc' \in [AP -> {"off", "init", "real", "long", "stacked", "acked", "named",
                      "entered", "called", "parked", "reset"}]
  BY <1>1, <1>2 DEF Types
<1>7. Types' /\ InTheLoop'
  BY <1>1, <1>4, <1>5, <1>6 DEF Types, InTheLoop
(* The core whose answer it is has just joined those that answered. *)
<1>8. Counted'
  <2>1. CASE Acknowledge(c)
    <3>1. c \notin Acked /\ Acked' = Acked \cup {c}
      BY <1>1, <2>1, CoreMoves DEF Acknowledge, At, Acked
    <3>2. Cardinality(Acked') = Cardinality(Acked) + 1
      BY <1>1, <3>1, CountTypes, FS_AddElement
    <3>3. Pending' \in {0, 1} /\ woken' = woken
      BY <1>1 DEF Pending
    <3>4. \A p, q \in {0, 1}, n, w \in Nat : w + q <= n => w + p <= n + 1
      OBVIOUS
    <3>5. woken' + Pending' <= Cardinality(Acked')
      BY <1>1, <3>2, <3>3, <3>4, CountTypes DEF Counted
    <3> QED
      BY <3>5 DEF Counted
  <2>2. CASE ~ Acknowledge(c)
    <3>1. UNCHANGED block
      BY <2>2 DEF ApplicationProcessor, EnterLongMode, LoadStack, LoadId, CallEntry, CallRoll,
                  GoOnline, TripleFault, Reset
    <3>2. Pending' <= Pending /\ Pending' \in {0, 1} /\ Pending \in {0, 1} /\ woken' = woken
      BY <1>1, <3>1 DEF Pending, Attempt
    <3>3. Acked' = Acked \/ Acked' = Acked \cup {c}
      BY <1>3
    <3>4. Cardinality(Acked') \in Nat /\ Cardinality(Acked) <= Cardinality(Acked')
      <4>1. IsFiniteSet(Acked) /\ Cardinality(Acked) \in Nat
        BY <1>1, CountTypes
      <4>2. Cardinality(Acked \cup {c}) \in {Cardinality(Acked), Cardinality(Acked) + 1}
        BY <4>1, FS_AddElement
      <4> QED
        BY <3>3, <4>1, <4>2
    <3>5. woken' + Pending' <= Cardinality(Acked')
      BY <1>1, <3>2, <3>4, CountTypes DEF Counted
    <3> QED
      BY <3>5 DEF Counted
  <2> QED
    BY <2>1, <2>2
<1>9. OnlineCounted'
  <2>1. CASE GoOnline(c)
    <3>1. Parked' = Parked \cup {c}
      BY <1>1, <2>1, CoreMoves DEF GoOnline, At
    <3>2. Cardinality(Parked') = Cardinality(Parked) + 1
      BY <1>1, <1>3, <3>1, CountTypes, FS_AddElement
    <3> QED
      BY <1>1, <2>1, <3>2, CountTypes DEF OnlineCounted, GoOnline
  <2>2. CASE ~ GoOnline(c)
    <3>1. UNCHANGED ONLINE /\ to # "parked"
      BY <1>1, <1>3, <2>2 DEF ApplicationProcessor, EnterLongMode, LoadStack, Acknowledge, LoadId,
         CallEntry, CallRoll, TripleFault, Reset, At, Types
    <3> QED
      BY <1>1, <1>3, <3>1 DEF OnlineCounted
  <2> QED
    BY <2>1, <2>2
<1>10. OneAtATime'
  <2> SUFFICES ASSUME prompt PROVE OneAtATime'
    BY <1>1 DEF OneAtATime
  <2>1. UNCHANGED target /\ prompt' /\ bsp' \in {bsp, "reset"}
    BY <1>1
  <2>2. target \in Int /\ c \in Int /\ c <= target
    BY <1>1, <1>2 DEF Types, OneAtATime, AP
  <2>3. \A d \in AP : d > target => pc'[d] = "off"
    BY <1>1, <1>3, <2>2 DEF OneAtATime
  <2>4. \A d \in AP : d < target => d \in Acked'
    BY <1>1, <1>3 DEF OneAtATime
  <2>5. /\ bsp \in {"stage", "stack", "id", "clear", "init"} => pc'[target] = "off"
        /\ bsp = "sipi1" => pc'[target] = "init"
        /\ bsp \in {"sipi2", "ack"} => pc'[target] \notin {"off", "init"}
        /\ bsp \in {"unmap", "done"} /\ target \in AP => pc'[target] = "off"
    <3>1. CASE c = target
      BY <1>1, <1>2, <1>3, <3>1 DEF OneAtATime
    <3>2. CASE c # target
      BY <1>1, <1>3, <3>2 DEF OneAtATime, InTheLoop
    <3> QED
      BY <3>1, <3>2
  <2>6. bsp \in Attempt /\ block'.ACK # 0 => target \in Acked'
    <3>1. CASE Acknowledge(c)
      <4>1. c \notin Acked
        BY <3>1 DEF Acknowledge, At, Acked
      <4>2. c = target
        BY <1>1, <2>2, <4>1 DEF OneAtATime
      <4> QED
        BY <1>1, <3>1, <4>2, CoreMoves DEF Acknowledge, At
    <3>2. CASE ~ Acknowledge(c)
      <4>1. UNCHANGED block
        BY <3>2 DEF ApplicationProcessor, EnterLongMode, LoadStack, LoadId, CallEntry, CallRoll,
                    GoOnline, TripleFault, Reset
      <4> QED
        BY <1>1, <1>3, <4>1 DEF OneAtATime
    <3> QED
      BY <3>1, <3>2
  <2>7. \A d \in AP : rsp'[d] \in {d, 0}
    <3>1. CASE LoadStack(c)
      <4>1. pc[c] = "long" /\ bsp # "reset" /\ rsp' = [rsp EXCEPT ![c] = block.STACK_TOP]
        BY <3>1 DEF LoadStack, At
      <4>2. c = target
        BY <1>1, <2>2, <4>1 DEF OneAtATime, Acked
      <4>3. block.STACK_TOP \in {target, 0}
        BY <1>1, <4>1, <4>2 DEF OneAtATime, Types, Attempt
      <4> QED
        BY <1>1, <4>1, <4>2, <4>3 DEF OneAtATime, Types
    <3>2. CASE ~ LoadStack(c)
      BY <1>1, <3>2 DEF OneAtATime, ApplicationProcessor, EnterLongMode, Acknowledge, LoadId,
                        CallEntry, CallRoll, GoOnline, TripleFault, Reset
    <3> QED
      BY <3>1, <3>2
  <2> QED
    BY <1>1, <1>4, <2>1, <2>3, <2>4, <2>5, <2>6, <2>7 DEF OneAtATime, Attempt
<1> QED
  BY <1>7, <1>8, <1>9, <1>10 DEF SmpInv

-----------------------------------------------------------------------------
(* Theorems *)

(* The inductive invariant of start_cores (smp.rs), prepare_slot and the    *)
(* trampoline: every answer counted is a core's own, and cores that answer  *)
(* in time use the parameter block one after the other up to their answer.  *)
THEOREM SmpInvariance == Spec => []SmpInv
<1>1. Init => SmpInv
  BY InitSmpInv
<1>2. SmpInv /\ [Next]_vars => SmpInv'
  <2> SUFFICES ASSUME SmpInv, [Next]_vars PROVE SmpInv'
    OBVIOUS
  <2>1. CASE BootProcessor
    BY <2>1, PreparingKeepsInv, SendKeepsInv, WaitKeepsInv
    DEF BootProcessor, send_init, send_startup
  <2>2. CASE \E c \in AP : ApplicationProcessor(c)
    BY <2>2, CoreKeepsInv
  <2>3. CASE UNCHANGED vars
    BY <2>3 DEF SmpInv, vars, Types, InTheLoop, Counted, OnlineCounted, OneAtATime, Acked, Parked,
                Pending
  <2> QED
    BY <2>1, <2>2, <2>3 DEF Next
<1> QED
  BY <1>1, <1>2, PTL DEF Spec

(* The types of the parameter block and the counters of smp.rs: no more     *)
(* cores are counted woken or ONLINE than there are.                        *)
THEOREM SmpTypes == Spec => []TypeOK
<1>1. SmpInv => TypeOK
  <2> SUFFICES ASSUME SmpInv PROVE TypeOK
    OBVIOUS
  <2>1. woken \in 0 .. N
    BY NAssumption, CountTypes DEF SmpInv, Counted
  <2>2. ONLINE \in 1 .. N + 1
    BY NAssumption, CountTypes DEF SmpInv, OnlineCounted
  <2> QED
    BY <2>1, <2>2 DEF SmpInv, Types, TypeOK
<1> QED
  BY <1>1, SmpInvariance, PTL

(* The boot processor never reports more cores woken than reached 64-bit    *)
(* code, however many it wakes, however late they answer and whichever wait *)
(* of wait_for_ack an answer ends.                                          *)
THEOREM SmpCountsAnswers == Spec => []WokenAnswered
<1>1. SmpInv => WokenAnswered
  BY CountTypes DEF SmpInv, Counted, WokenAnswered
<1> QED
  BY <1>1, SmpInvariance, PTL

(* Cores that all answer in time run on the stacks alloc_ap_stack gave      *)
(* them, though every one reads the same word of the same block.            *)
THEOREM SmpOwnStacks == Spec => []OwnStack
<1>1. SmpInv => OwnStack
  BY DEF SmpInv, OneAtATime, OwnStack, Acked
<1> QED
  BY <1>1, SmpInvariance, PTL

=============================================================================
