---------------------------- MODULE CapsProofs ----------------------------
(***************************************************************************)
(* Revocation and delegation, for every number of tasks, endpoints, slots  *)
(* and handles, and for every interleaving of system calls.                *)
(***************************************************************************)
EXTENDS Caps, SequenceTheorems, TLAPS

USE BoundsAssumption, GenerationAssumption, NothingAssumption

(* Every capability that circulates was granted. *)
Authority ==
  /\ caps \in [Task -> Seq(Option(granted))]
  /\ transit \in [EndpointId -> Seq(Option(granted))]
  /\ granted \subseteq Cap

Live(i) == slots[i].object # Nothing

(* How the object table and its history correspond.  A generation counts    *)
(* the objects that have left the slot, so it stays below the number of     *)
(* objects created and never wraps; a dead object's reference lies behind   *)
(* its slot's generation, a live one's is level with it.                    *)
ObjInv ==
  /\ slots \in [Index -> [generation : Generation, object : Option(EndpointId)]]
  /\ nslots \in 0 .. MaxSlots
  /\ made \in Seq(Made)
  /\ Len(made) <= MaxObjects
  /\ \A i \in Index : /\ slots[i].generation <= Len(made)
                      /\ Live(i) => slots[i].generation < Len(made)
                      /\ i >= nslots => ~ Live(i)
  /\ \A n \in DOMAIN made :
       /\ made[n].ref.index < nslots
       /\ made[n].alive => /\ slots[made[n].ref.index].generation = made[n].ref.generation
                           /\ slots[made[n].ref.index].object = made[n].id
       /\ ~ made[n].alive =>
            made[n].ref.generation < slots[made[n].ref.index].generation

CapsInv ==
  /\ Authority
  /\ ObjInv
  /\ life \in [Task -> {"new", "alive", "dead"}]
  /\ waiting \in [Task -> Option(EndpointId)]

-----------------------------------------------------------------------------

(* Below the modulus, a generation is bumped without wrapping. *)
LEMMA NoWrap ==
  ASSUME NEW g \in Nat, NEW m \in Nat, g < m
  PROVE  g % m = g
  BY SMTT(20)

LEMMA MadeFacts ==
  ASSUME NEW m \in Made
  PROVE  /\ m.ref \in ObjectRef /\ m.id \in EndpointId /\ m.alive \in BOOLEAN
         /\ m.ref.index \in Index /\ m.ref.generation \in Generation
  BY DEF Made, ObjectRef

LEMMA SlotFacts ==
  ASSUME ObjInv, NEW i \in Index
  PROVE  slots[i].generation \in Generation /\ slots[i].object \in Option(EndpointId)
  BY DEF ObjInv

(* The object table after create. *)
LEMMA OccupyKeeps ==
  ASSUME ObjInv, NEW i \in Index, NEW id \in EndpointId, ~ Live(i), Occupy(i, id),
         nslots' \in 0 .. MaxSlots, nslots' >= nslots, i < nslots'
  PROVE  ObjInv'
<1> DEFINE m == [ref |-> [index |-> i, generation |-> slots[i].generation],
                 id |-> id, alive |-> TRUE]
           k == Len(made) + 1
<1>1. /\ m \in Made /\ m.ref.index = i /\ m.ref.generation = slots[i].generation
      /\ m.id = id /\ m.alive
  BY SlotFacts DEF Made, ObjectRef
<1>2. made' = Append(made, m) /\ Len(made) < MaxObjects
  BY DEF Occupy
<1>3. /\ slots' \in [Index -> [generation : Generation, object : Option(EndpointId)]]
      /\ slots'[i].generation = slots[i].generation /\ slots'[i].object = id
      /\ \A j \in Index : j # i => slots'[j] = slots[j]
      /\ \A j \in Index : slots'[j].generation = slots[j].generation
  BY SlotFacts DEF Occupy, ObjInv, Option
<1> HIDE DEF m
<1>4. /\ made \in Seq(Made) /\ Len(made) \in Nat /\ DOMAIN made = 1 .. Len(made)
      /\ \A n \in 1 .. Len(made) : made[n] \in Made
  BY DEF ObjInv
<1>5. /\ made' \in Seq(Made) /\ Len(made') = k /\ DOMAIN made' = 1 .. k
      /\ made'[k] = m /\ \A n \in 1 .. Len(made) : made'[n] = made[n]
  BY <1>1, <1>2, <1>4
<1>6. \A j \in Index : /\ slots'[j].generation <= Len(made')
                       /\ Live(j)' => slots'[j].generation < Len(made')
                       /\ j >= nslots' => ~ Live(j)'
  BY <1>3, <1>4, <1>5, SlotFacts DEF ObjInv, Live, Index, Generation
<1>7. ASSUME NEW n \in DOMAIN made'
      PROVE  /\ made'[n].ref.index < nslots'
             /\ made'[n].alive =>
                  /\ slots'[made'[n].ref.index].generation = made'[n].ref.generation
                  /\ slots'[made'[n].ref.index].object = made'[n].id
             /\ ~ made'[n].alive =>
                  made'[n].ref.generation < slots'[made'[n].ref.index].generation
  <2>1. CASE n = k
    BY <2>1, <1>1, <1>3, <1>5
  <2>2. CASE n # k
    <3>1. n \in 1 .. Len(made) /\ n \in DOMAIN made /\ made'[n] = made[n] /\ made[n] \in Made
      BY <2>2, <1>4, <1>5, <1>7
    <3>2. made[n].ref.index \in Index /\ made[n].id \in EndpointId
      BY <3>1, MadeFacts
    <3>3. made[n].alive => made[n].ref.index # i
      BY <3>1, <3>2 DEF ObjInv, Live
    <3> QED
      BY <3>1, <3>2, <3>3, <1>3 DEF ObjInv, Index
  <2> QED
    BY <2>1, <2>2
<1> QED
  BY <1>2, <1>3, <1>4, <1>5, <1>6, <1>7 DEF ObjInv

(* The object table after revoke. *)
LEMMA RevokeKeeps ==
  ASSUME ObjInv, NEW r \in ObjectRef, revoke(r), nslots' = nslots,
         made' = [n \in DOMAIN made |->
                    IF made[n].ref = r THEN [made[n] EXCEPT !.alive = FALSE] ELSE made[n]]
  PROVE  ObjInv'
<1> DEFINE i == r.index
           g == slots[i].generation
<1>1. /\ i \in Index /\ r.generation \in Generation /\ i < nslots
      /\ g = r.generation /\ Live(i)
  BY DEF revoke, get, ObjectRef, Live
<1>2. /\ made \in Seq(Made) /\ Len(made) \in Nat /\ DOMAIN made = 1 .. Len(made)
      /\ \A n \in 1 .. Len(made) : made[n] \in Made
      /\ Len(made) <= MaxObjects /\ g < Len(made) /\ g \in Nat
  BY <1>1, SlotFacts DEF ObjInv, Generation
<1>3. (g + 1) % GenMod = g + 1 /\ g + 1 \in Generation
  <2> HIDE DEF g
  <2>1. g + 1 \in Nat /\ GenMod \in Nat /\ g + 1 < GenMod
    BY <1>2
  <2>2. (g + 1) % GenMod = g + 1
    BY ONLY <2>1, NoWrap
  <2> QED
    BY <2>1, <2>2 DEF Generation
<1>4. slots' = [slots EXCEPT ![i] = [generation |-> g + 1, object |-> Nothing]]
  BY <1>1, <1>3 DEF revoke, ObjInv
<1>5. /\ slots' \in [Index -> [generation : Generation, object : Option(EndpointId)]]
      /\ slots'[i].generation = g + 1 /\ slots'[i].object = Nothing
      /\ \A j \in Index : j # i => slots'[j] = slots[j]
  BY <1>1, <1>3, <1>4 DEF ObjInv, Option
<1> HIDE DEF g
<1>6. ASSUME NEW n \in 1 .. Len(made)
      PROVE  /\ made'[n] \in Made
             /\ made'[n].ref = made[n].ref /\ made'[n].id = made[n].id
             /\ made'[n].alive <=> (made[n].alive /\ made[n].ref # r)
  BY <1>2, MadeFacts DEF Made
<1>7. /\ made' \in Seq(Made) /\ Len(made') = Len(made) /\ DOMAIN made' = 1 .. Len(made)
  BY <1>2, <1>6
<1>8. \A j \in Index : /\ slots'[j].generation <= Len(made')
                       /\ Live(j)' => slots'[j].generation < Len(made')
                       /\ j >= nslots' => ~ Live(j)'
  BY <1>1, <1>2, <1>5, <1>7 DEF ObjInv, Live
<1>9. ASSUME NEW n \in DOMAIN made'
      PROVE  /\ made'[n].ref.index < nslots'
             /\ made'[n].alive =>
                  /\ slots'[made'[n].ref.index].generation = made'[n].ref.generation
                  /\ slots'[made'[n].ref.index].object = made'[n].id
             /\ ~ made'[n].alive =>
                  made'[n].ref.generation < slots'[made'[n].ref.index].generation
  <2>1. n \in 1 .. Len(made) /\ n \in DOMAIN made /\ made[n] \in Made
    BY <1>2, <1>7, <1>9
  <2>2. made[n].ref \in ObjectRef /\ made[n].ref.index \in Index
        /\ made[n].ref.generation \in Generation
    BY <2>1, MadeFacts
  <2>3. /\ made[n].ref.index < nslots
        /\ made[n].alive =>
             /\ slots[made[n].ref.index].generation = made[n].ref.generation
             /\ slots[made[n].ref.index].object = made[n].id
        /\ ~ made[n].alive => made[n].ref.generation < slots[made[n].ref.index].generation
    BY <2>1 DEF ObjInv
  <2>4. CASE made[n].ref.index # i
    <3>1. made[n].ref # r
      BY <2>4
    <3> QED
      BY <1>5, <1>6, <2>1, <2>2, <2>3, <2>4, <3>1
  <2>5. CASE made[n].ref.index = i
    <3>1. made[n].alive => made[n].ref = r
      BY <1>1, <2>2, <2>3, <2>5 DEF ObjectRef, g
    <3>2. ~ made'[n].alive
      BY <1>6, <2>1, <3>1
    <3>3. made[n].ref.generation < g + 1
      BY <1>2, <2>2, <2>3, <2>5 DEF g, Generation
    <3> QED
      BY <1>5, <1>6, <2>1, <2>3, <2>5, <3>2, <3>3
  <2> QED
    BY <2>4, <2>5
<1> QED
  BY <1>2, <1>5, <1>7, <1>8, <1>9 DEF ObjInv

-----------------------------------------------------------------------------
(* Copies of capabilities that were granted are capabilities that were. *)

LEMMA SeqMonotone ==
  ASSUME NEW S, NEW T, S \subseteq T, NEW q \in Seq(Option(S))
  PROVE  q \in Seq(Option(T))
<1>1. /\ Len(q) \in Nat /\ DOMAIN q = 1 .. Len(q)
      /\ \A i \in 1 .. Len(q) : q[i] \in Option(T)
  BY DEF Option
<1>2. q = [i \in 1 .. Len(q) |-> q[i]]
  OBVIOUS
<1> QED
  BY <1>1, <1>2

LEMMA ResolveFacts ==
  ASSUME Authority, NEW t \in Task, NEW h
  PROVE  /\ resolve(t, h) \in Option(granted)
         /\ resolve(t, h) # Nothing => resolve(t, h) \in Cap
  BY DEF Authority, resolve, Option

LEMMA InstallKeeps ==
  ASSUME Authority, NEW t \in Task, NEW G, granted \subseteq G, NEW c \in G,
         NEW table \in install(t, c)
  PROVE  [caps EXCEPT ![t] = table] \in [Task -> Seq(Option(G))]
<1>1. \A u \in Task : caps[u] \in Seq(Option(G))
  BY SeqMonotone DEF Authority
<1>2. table \in Seq(Option(G))
  BY <1>1, SMTT(30) DEF install, Gaps, Option
<1> QED
  BY <1>1, <1>2 DEF Authority

LEMMA EndpointFor ==
  ASSUME CapsInv, NEW t \in Task, NEW h, NEW right \in {"send", "recv"},
         endpoint_for(t, h, right) # Nothing
  PROVE  endpoint_for(t, h, right) \in EndpointId
<1> DEFINE c == resolve(t, h)
<1>1. c \in Cap /\ endpoint_for(t, h, right) = get(c.obj)
  BY ResolveFacts DEF endpoint_for, CapsInv
<1>2. c.obj \in ObjectRef
  BY <1>1 DEF Cap
<1> HIDE DEF c
<1>3. c.obj.index \in Index
  BY <1>2 DEF ObjectRef
<1> QED
  BY <1>1, <1>3, SlotFacts DEF get, CapsInv, Option

LEMMA ObjectsUntouched ==
  ASSUME ObjInv, UNCHANGED <<slots, nslots, made>>
  PROVE  ObjInv'
  BY DEF ObjInv, Live

(* What the capabilities and the object table satisfy is preserved by every *)
(* operation.                                                               *)
THEOREM CapsInductive ==
  /\ Init => CapsInv
  /\ CapsInv /\ [Next]_vars => CapsInv'
<1>1. ASSUME Init PROVE CapsInv
  <2>1. ObjInv
    BY <1>1 DEF Init, ObjInv, Live, Option, Index, Generation
  <2> QED
    BY <1>1, <2>1 DEF Init, CapsInv, Authority, Option
<1>2. ASSUME CapsInv, [Next]_vars PROVE CapsInv'
  <2>1. /\ Authority /\ ObjInv /\ life \in [Task -> {"new", "alive", "dead"}]
        /\ waiting \in [Task -> Option(EndpointId)]
    BY <1>2 DEF CapsInv
  <2>2. ASSUME NEW id \in EndpointId, CreateReuse(id) PROVE CapsInv'
    <3>1. PICK i \in FreeSlots : Occupy(i, id)
      BY <2>2 DEF CreateReuse
    <3>2. i \in Index /\ ~ Live(i) /\ i < nslots /\ nslots' = nslots /\ nslots \in 0 .. MaxSlots
      BY <2>1, <2>2 DEF CreateReuse, FreeSlots, Used, Live, Index, ObjInv
    <3>3. ObjInv'
      BY <2>1, <3>1, <3>2, OccupyKeeps
    <3> QED
      BY <2>1, <3>1, <3>3 DEF CapsInv, Authority, Occupy
  <2>3. ASSUME NEW id \in EndpointId, CreateGrow(id) PROVE CapsInv'
    <3>1. /\ nslots \in Index /\ nslots' = nslots + 1 /\ nslots' \in 0 .. MaxSlots
          /\ nslots \in Nat
      BY <2>1, <2>3 DEF CreateGrow, Index, ObjInv
    <3>2. ~ Live(nslots)
      BY <2>1, <3>1 DEF ObjInv
    <3>3. Occupy(nslots, id)
      BY <2>3 DEF CreateGrow
    <3>4. ObjInv'
      BY <2>1, <3>1, <3>2, <3>3, OccupyKeeps
    <3> QED
      BY <2>1, <3>3, <3>4 DEF CapsInv, Authority, Occupy
  <2>4. ASSUME NEW t \in Task, NEW n \in DOMAIN made, NEW right \in {"send", "recv"},
               Grant(t, made[n].ref, right)
        PROVE  CapsInv'
    <3> DEFINE c == [obj |-> made[n].ref, send |-> right = "send", recv |-> right = "recv"]
    <3>1. /\ \E table \in install(t, c) : caps' = [caps EXCEPT ![t] = table]
          /\ granted' = granted \cup {c}
          /\ UNCHANGED <<slots, nslots, life, waiting, transit, made>>
      BY <2>4 DEF Grant
    <3>2. made[n] \in Made
      BY <2>1 DEF ObjInv
    <3>3. c \in Cap
      BY <3>2, MadeFacts DEF Cap
    <3> HIDE DEF c
    <3>4. granted \subseteq granted' /\ c \in granted' /\ granted' \subseteq Cap
      BY <2>1, <3>1, <3>3 DEF Authority
    <3>5. caps' \in [Task -> Seq(Option(granted'))]
      <4>1. PICK table \in install(t, c) : caps' = [caps EXCEPT ![t] = table]
        BY <3>1
      <4> QED
        BY <2>1, <3>4, <4>1, InstallKeeps
    <3>6. transit' \in [EndpointId -> Seq(Option(granted'))]
      BY <2>1, <3>1, <3>4, SeqMonotone DEF Authority
    <3>7. Authority'
      BY <3>4, <3>5, <3>6 DEF Authority, Option
    <3> QED
      BY <2>1, <3>1, <3>7, ObjectsUntouched DEF CapsInv
  <2>5. ASSUME NEW t \in Task, Spawn(t) PROVE CapsInv'
    BY <2>1, <2>5, ObjectsUntouched DEF Spawn, CapsInv, Authority
  <2>11. ASSUME NEW t \in Task, Exit(t) PROVE CapsInv'
    <3>1. Authority'
      BY <2>1, <2>11 DEF Exit, Authority
    <3> QED
      BY <2>1, <2>11, <3>1, ObjectsUntouched DEF Exit, CapsInv
  <2>6. ASSUME NEW t \in Task, RecvTake(t) PROVE CapsInv'
    <3> DEFINE e == waiting[t]
               c == Head(transit[e])
    <3>1. /\ e \in EndpointId /\ transit[e] # <<>>
          /\ transit' = [transit EXCEPT ![e] = Tail(@)]
          /\ waiting' = [waiting EXCEPT ![t] = Nothing]
          /\ \/ caps' = caps
             \/ c # Nothing /\ \E table \in install(t, c) : caps' = [caps EXCEPT ![t] = table]
          /\ UNCHANGED <<slots, nslots, life, made, granted>>
      BY <2>1, <2>6 DEF RecvTake, Option
    <3>2. transit[e] \in Seq(Option(granted))
      BY <2>1, <3>1 DEF Authority
    <3>3. c \in Option(granted) /\ Tail(transit[e]) \in Seq(Option(granted))
      BY <3>1, <3>2
    <3> HIDE DEF c, e
    <3>4. transit' \in [EndpointId -> Seq(Option(granted))]
      BY <2>1, <3>1, <3>3 DEF Authority
    <3>5. caps' \in [Task -> Seq(Option(granted))]
      <4>1. CASE caps' = caps
        BY <2>1, <4>1 DEF Authority
      <4>2. CASE c # Nothing /\ \E table \in install(t, c) : caps' = [caps EXCEPT ![t] = table]
        <5>1. c \in granted
          BY <3>3, <4>2 DEF Option
        <5>2. PICK table \in install(t, c) : caps' = [caps EXCEPT ![t] = table]
          BY <4>2
        <5> QED
          BY <2>1, <5>1, <5>2, InstallKeeps
      <4> QED
        BY <3>1, <4>1, <4>2
    <3>6. Authority'
      BY <2>1, <3>1, <3>4, <3>5 DEF Authority
    <3>7. waiting' \in [Task -> Option(EndpointId)]
      BY <2>1, <3>1 DEF Option
    <3> QED
      BY <2>1, <3>1, <3>6, <3>7, ObjectsUntouched DEF CapsInv
  <2>7. ASSUME NEW t \in Task, NEW h \in 1 .. MaxHandles, NEW ch \in 0 .. MaxHandles,
               sys_send(t, h, ch)
        PROVE  CapsInv'
    <3> DEFINE e == endpoint_for(t, h, "send")
               c == resolve(t, ch)
    <3>1. e \in EndpointId /\ c \in Option(granted)
      BY <1>2, <2>1, <2>7, EndpointFor, ResolveFacts DEF sys_send
    <3>2. /\ transit' = [transit EXCEPT ![e] = Append(@, c)]
          /\ UNCHANGED <<slots, nslots, caps, life, waiting, made, granted>>
      BY <2>7 DEF sys_send
    <3> HIDE DEF e, c
    <3>3. Authority'
      BY <2>1, <3>1, <3>2 DEF Authority
    <3> QED
      BY <2>1, <3>2, <3>3, ObjectsUntouched DEF CapsInv
  <2>8. ASSUME NEW t \in Task, NEW h \in 1 .. MaxHandles, RecvCall(t, h) PROVE CapsInv'
    <3>1. endpoint_for(t, h, "recv") \in EndpointId
      BY <1>2, <2>8, EndpointFor DEF RecvCall
    <3>2. waiting' \in [Task -> Option(EndpointId)]
      BY <2>1, <2>8, <3>1 DEF RecvCall, Option
    <3> QED
      BY <2>1, <2>8, <3>2, ObjectsUntouched DEF RecvCall, CapsInv, Authority
  <2>9. ASSUME NEW t \in Task, NEW h \in 1 .. MaxHandles, sys_revoke(t, h) PROVE CapsInv'
    <3> DEFINE c == resolve(t, h)
    <3>1. c \in Cap
      BY <2>1, <2>9, ResolveFacts DEF sys_revoke
    <3>2. c.obj \in ObjectRef
      BY <3>1 DEF Cap
    <3>3. /\ revoke(c.obj)
          /\ made' = [n \in DOMAIN made |->
                        IF made[n].ref = c.obj THEN [made[n] EXCEPT !.alive = FALSE]
                        ELSE made[n]]
          /\ UNCHANGED <<nslots, caps, life, waiting, transit, granted>>
      BY <2>9 DEF sys_revoke
    <3> HIDE DEF c
    <3>4. ObjInv'
      BY <2>1, <3>2, <3>3, RevokeKeeps
    <3> QED
      BY <2>1, <3>3, <3>4 DEF CapsInv, Authority
  <2>10. CASE UNCHANGED vars
    BY <2>1, <2>10, ObjectsUntouched DEF vars, CapsInv, Authority
  <2> QED
    BY <1>2, <2>2, <2>3, <2>4, <2>5, <2>6, <2>7, <2>8, <2>9, <2>10, <2>11 DEF Next
<1> QED
  BY <1>1, <1>2

(* CapsInv holds in every reachable state. *)
THEOREM CapsSafe == Spec => []CapsInv
  BY CapsInductive, PTL DEF Spec

(* Revocation reaches every copy of a reference at once and for good: a     *)
(* reference resolves to the object it was minted for while that object is  *)
(* alive and to nothing afterwards, whatever create puts in its slot.       *)
THEOREM RevocationIsFinal == Spec => []ResolvesIffAlive
<1>1. CapsInv => ResolvesIffAlive
  <2> SUFFICES ASSUME CapsInv, NEW n \in DOMAIN made
               PROVE  get(made[n].ref) = IF made[n].alive THEN made[n].id ELSE Nothing
    BY DEF ResolvesIffAlive
  <2>1. made[n] \in Made
    BY DEF CapsInv, ObjInv
  <2>2. /\ made[n].ref.index \in Index /\ made[n].ref.generation \in Generation
        /\ made[n].alive \in BOOLEAN
    BY <2>1, MadeFacts
  <2> QED
    BY <2>2, SlotFacts DEF CapsInv, ObjInv, get, Generation
<1> QED
  BY <1>1, CapsSafe, PTL

(* Delegation over IPC only copies what kmain granted: no system call makes *)
(* a capability with other rights or for another object.                    *)
THEOREM DelegationOnlyCopies == Spec => []NoAmplification
<1>1. CapsInv => NoAmplification
  <2> SUFFICES ASSUME CapsInv PROVE NoAmplification
    OBVIOUS
  <2>1. InTables \subseteq Option(granted)
    BY DEF CapsInv, Authority, InTables
  <2>2. InMessages \subseteq Option(granted)
    BY DEF CapsInv, Authority, InMessages
  <2> QED
    BY <2>1, <2>2 DEF NoAmplification, Option
<1> QED
  BY <1>1, CapsSafe, PTL

(* The types of the object table, the capability tables and the messages. *)
THEOREM CapsTypeOK == Spec => []TypeOK
<1>1. CapsInv => TypeOK
  <2> SUFFICES ASSUME CapsInv PROVE TypeOK
    OBVIOUS
  <2>1. /\ \A t \in Task : caps[t] \in Seq(Option(Cap))
        /\ \A e \in EndpointId : transit[e] \in Seq(Option(Cap))
    BY SeqMonotone DEF CapsInv, Authority
  <2>2. caps \in [Task -> Seq(Option(Cap))] /\ transit \in [EndpointId -> Seq(Option(Cap))]
    BY <2>1 DEF CapsInv, Authority
  <2> QED
    BY <2>2 DEF CapsInv, Authority, ObjInv, TypeOK
<1> QED
  BY <1>1, CapsSafe, PTL

-----------------------------------------------------------------------------
(* What a step may never do *)

(* install fills a gap or appends: what is in the table stays where it is. *)
LEMMA InstallOnlyAdds ==
  ASSUME Authority, NEW t \in Task, NEW c, NEW table \in install(t, c),
         NEW h \in DOMAIN caps[t], caps[t][h] # Nothing
  PROVE  h \in DOMAIN table /\ table[h] = caps[t][h]
<1>1. caps[t] \in Seq(Option(granted))
  BY DEF Authority
<1>2. CASE \E g \in Gaps(t) : table = [caps[t] EXCEPT ![g] = c]
  BY <1>1, <1>2 DEF Gaps
<1>3. CASE table = Append(caps[t], c)
  BY <1>1, <1>3
<1> QED
  BY <1>2, <1>3 DEF install

(* A step changes the table of one task at most: it installs a capability   *)
(* there, or the task dies.                                                 *)
LEMMA TablesChange ==
  ASSUME CapsInv, [Next]_vars
  PROVE  \/ UNCHANGED caps
         \/ \E t \in Task : \E c : \E table \in install(t, c) : caps' = [caps EXCEPT ![t] = table]
         \/ \E t \in Task : caps' = [caps EXCEPT ![t] = <<>>] /\ life'[t] = "dead"
<1>1. ASSUME NEW id \in EndpointId, CreateReuse(id) \/ CreateGrow(id) PROVE UNCHANGED caps
  BY <1>1 DEF CreateReuse, CreateGrow, Occupy
<1>2. ASSUME NEW t \in Task, NEW n \in DOMAIN made, NEW right \in {"send", "recv"},
             Grant(t, made[n].ref, right)
      PROVE  \E c : \E table \in install(t, c) : caps' = [caps EXCEPT ![t] = table]
  BY <1>2 DEF Grant
<1>3. ASSUME NEW t \in Task, RecvTake(t)
      PROVE  \/ UNCHANGED caps
             \/ \E c : \E table \in install(t, c) : caps' = [caps EXCEPT ![t] = table]
  BY <1>3 DEF RecvTake
<1>4. ASSUME NEW t \in Task, Exit(t)
      PROVE  caps' = [caps EXCEPT ![t] = <<>>] /\ life'[t] = "dead"
  BY <1>4 DEF Exit, CapsInv
<1>5. ASSUME NEW t \in Task, Spawn(t) PROVE UNCHANGED caps
  BY <1>5 DEF Spawn
<1>6. ASSUME NEW t \in Task, NEW h \in 1 .. MaxHandles,
             \/ \E ch \in 0 .. MaxHandles : sys_send(t, h, ch)
             \/ RecvCall(t, h) \/ sys_revoke(t, h)
      PROVE  UNCHANGED caps
  BY <1>6 DEF sys_send, RecvCall, sys_revoke
<1>7. CASE UNCHANGED vars
  BY <1>7 DEF vars
<1> QED
  BY <1>1, <1>2, <1>3, <1>4, <1>5, <1>6, <1>7 DEF Next

(* A handle names the same capability from the moment it is handed out to   *)
(* the death of its task: install (cap.rs) never overwrites an entry.       *)
THEOREM HandlesAreStable == Spec => HandlesNeverMove
<1> DEFINE Kept == \A t \in Task : \A h \in DOMAIN caps[t] :
                     caps[t][h] # Nothing /\ life'[t] # "dead"
                     => h \in DOMAIN caps'[t] /\ caps'[t][h] = caps[t][h]
<1>1. CapsInv /\ [Next]_vars => [Kept]_vars
  <2> SUFFICES ASSUME CapsInv, [Next]_vars, NEW t \in Task, NEW h \in DOMAIN caps[t],
                      caps[t][h] # Nothing, life'[t] # "dead"
               PROVE  h \in DOMAIN caps'[t] /\ caps'[t][h] = caps[t][h]
    OBVIOUS
  <2>1. Authority /\ DOMAIN caps = Task
    BY DEF CapsInv, Authority
  <2>2. CASE UNCHANGED caps
    BY <2>2
  <2>3. ASSUME NEW u \in Task, NEW c, NEW table \in install(u, c), caps' = [caps EXCEPT ![u] = table]
        PROVE  h \in DOMAIN caps'[t] /\ caps'[t][h] = caps[t][h]
    <3>1. CASE u = t
      BY <2>1, <2>3, <3>1, InstallOnlyAdds
    <3>2. CASE u # t
      BY <2>1, <2>3, <3>2
    <3> QED
      BY <3>1, <3>2
  <2>4. ASSUME NEW u \in Task, caps' = [caps EXCEPT ![u] = <<>>], life'[u] = "dead"
        PROVE  h \in DOMAIN caps'[t] /\ caps'[t][h] = caps[t][h]
    BY <2>1, <2>4
  <2> QED
    BY <2>2, <2>3, <2>4, TablesChange
<1> QED
  BY <1>1, CapsSafe, PTL DEF Spec, HandlesNeverMove

(* Every capability granted is for an object that was created. *)
Minted == \A g \in granted : \E n \in DOMAIN made : made[n].ref = g.obj

LEMMA MintedInductive ==
  /\ Init => Minted
  /\ CapsInv /\ Minted /\ [Next]_vars => Minted'
<1>1. Init => Minted
  BY DEF Init, Minted
<1>2. ASSUME CapsInv, Minted, [Next]_vars PROVE Minted'
  <2>1. made \in Seq(Made)
    BY <1>2 DEF CapsInv, ObjInv
  <2>2. ASSUME UNCHANGED granted, DOMAIN made \subseteq DOMAIN made',
               \A n \in DOMAIN made : made'[n].ref = made[n].ref
        PROVE  Minted'
    BY <1>2, <2>2 DEF Minted
  <2>3. ASSUME NEW id \in EndpointId, NEW i, Occupy(i, id) PROVE Minted'
    <3>1. /\ UNCHANGED granted /\ DOMAIN made \subseteq DOMAIN made'
          /\ \A n \in DOMAIN made : made'[n] = made[n]
      BY <2>1, <2>3 DEF Occupy
    <3> QED
      BY <2>2, <3>1
  <2>4. ASSUME NEW t \in Task, NEW n \in DOMAIN made, NEW right \in {"send", "recv"},
               Grant(t, made[n].ref, right)
        PROVE  Minted'
    <3> DEFINE c == [obj |-> made[n].ref, send |-> right = "send", recv |-> right = "recv"]
    <3>1. granted' = granted \cup {c} /\ UNCHANGED made /\ c.obj = made[n].ref
      BY <2>4 DEF Grant
    <3> HIDE DEF c
    <3> QED
      BY <1>2, <3>1 DEF Minted
  <2>5. ASSUME NEW t \in Task, NEW h \in 1 .. MaxHandles, sys_revoke(t, h) PROVE Minted'
    <3> DEFINE c == resolve(t, h)
    <3>1. /\ UNCHANGED granted
          /\ made' = [n \in DOMAIN made |->
                        IF made[n].ref = c.obj THEN [made[n] EXCEPT !.alive = FALSE] ELSE made[n]]
      BY <2>5 DEF sys_revoke
    <3> HIDE DEF c
    <3>2. \A n \in DOMAIN made : made[n] \in Made
      BY <2>1
    <3>3. DOMAIN made' = DOMAIN made /\ \A n \in DOMAIN made : made'[n].ref = made[n].ref
      BY <3>1, <3>2 DEF Made
    <3> QED
      BY <2>2, <3>1, <3>3
  <2>6. ASSUME UNCHANGED <<granted, made>> PROVE Minted'
    BY <2>2, <2>6
  <2>7. ASSUME NEW t \in Task, NEW h \in 1 .. MaxHandles, NEW ch \in 0 .. MaxHandles,
               Spawn(t) \/ Exit(t) \/ RecvTake(t) \/ sys_send(t, h, ch) \/ RecvCall(t, h)
        PROVE  UNCHANGED <<granted, made>>
    BY <2>7 DEF Spawn, Exit, RecvTake, sys_send, RecvCall
  <2>8. ASSUME NEW t \in Task, Spawn(t) \/ Exit(t) \/ RecvTake(t)
        PROVE  UNCHANGED <<granted, made>>
    BY <2>8 DEF Spawn, Exit, RecvTake
  <2>9. CASE UNCHANGED vars
    BY <2>6, <2>9 DEF vars
  <2>10. 0 \in 0 .. MaxHandles
    OBVIOUS
  <2> QED
    BY <1>2, <2>3, <2>4, <2>5, <2>6, <2>7, <2>8, <2>9, <2>10 DEF Next, CreateReuse, CreateGrow
<1> QED
  BY <1>1, <1>2

(* endpoint_for gives a right only to who holds it for a living object. *)
LEMMA EndpointForHolds ==
  ASSUME CapsInv, Minted, NEW t \in Task, NEW h, NEW right \in {"send", "recv"},
         endpoint_for(t, h, right) # Nothing
  PROVE  Holds(t, endpoint_for(t, h, right), right)
<1> DEFINE c == resolve(t, h)
           e == endpoint_for(t, h, right)
<1>1. c # Nothing /\ c \in granted /\ c[right] /\ e = get(c.obj)
  BY ResolveFacts DEF endpoint_for, CapsInv, Option
<1>2. h \in DOMAIN caps[t] /\ caps[t][h] = c
  BY <1>1 DEF resolve
<1> HIDE DEF c, e
<1>3. PICK n \in DOMAIN made : made[n].ref = c.obj
  BY <1>1 DEF Minted
<1>4. made[n] \in Made
  BY DEF CapsInv, ObjInv
<1>5. /\ made[n].ref.index \in Index /\ made[n].ref.generation \in Generation
      /\ made[n].alive \in BOOLEAN
  BY <1>4, MadeFacts
<1>6. get(made[n].ref) = IF made[n].alive THEN made[n].id ELSE Nothing
  BY <1>5, SlotFacts DEF CapsInv, ObjInv, get, Generation
<1>7. made[n].alive /\ made[n].id = e
  BY <1>1, <1>3, <1>6 DEF e
<1>8. Holds(t, e, right)
  BY <1>1, <1>2, <1>3, <1>7 DEF Holds
<1> QED
  BY <1>8 DEF e

(* A send by a task leaves its message on the endpoint of one of the task's *)
(* own capabilities.                                                        *)
LEMMA SendersHold ==
  ASSUME CapsInv, Minted, NEW t \in Task, NEW e \in EndpointId, Sends(t, e)
  PROVE  life[t] = "alive" /\ Holds(t, e, "send")
<1>1. PICK h \in 1 .. MaxHandles, ch \in 0 .. MaxHandles : sys_send(t, h, ch)
  BY DEF Sends
<1>2. PICK f, c : f = endpoint_for(t, h, "send") /\ c = resolve(t, ch)
  OBVIOUS
<1>3. f # Nothing /\ life[t] = "alive" /\ f \in EndpointId
  BY <1>1, <1>2, EndpointFor DEF sys_send, InUser
<1>4. Holds(t, f, "send")
  BY <1>2, <1>3, EndpointForHolds
<1>5. transit' = [transit EXCEPT ![f] = Append(@, c)]
  BY <1>1, <1>2 DEF sys_send
<1>6. transit \in [EndpointId -> Seq(Option(granted))] /\ Len(transit[e]) \in Nat
  BY DEF CapsInv, Authority
<1>7. e # f => transit'[e] = transit[e]
  BY <1>5, <1>6
<1>8. e = f
  BY <1>6, <1>7 DEF Sends
<1> QED BY <1>3, <1>4, <1>8

(* Nobody sends on an endpoint or begins to wait on it except with a        *)
(* capability of its own for an object that is alive at that moment:        *)
(* sys_send and sys_recv check through endpoint_for, and a revocation       *)
(* reaches every copy at once.                                              *)
THEOREM TrafficNeedsAuthority == Spec => NoTrafficWithoutAuthority
<1> DEFINE Authorised ==
      \A e \in EndpointId :
        /\ Len(transit'[e]) > Len(transit[e]) => \E t \in Task : Sends(t, e)
        /\ \A t \in Task :
             /\ Sends(t, e) => life[t] = "alive" /\ Holds(t, e, "send")
             /\ waiting[t] # e /\ waiting'[t] = e => Holds(t, e, "recv")
<1>1. CapsInv /\ Minted /\ [Next]_vars => [Authorised]_vars
  <2> SUFFICES ASSUME CapsInv, Minted, Next PROVE Authorised
    OBVIOUS
  <2>1. /\ transit \in [EndpointId -> Seq(Option(granted))]
        /\ waiting \in [Task -> Option(EndpointId)]
        /\ \A e \in EndpointId : Len(transit[e]) \in Nat
    BY DEF CapsInv, Authority
  <2>2. ASSUME NEW t \in Task, RecvTake(t) PROVE Authorised
    <3> DEFINE f == waiting[t]
    <3>1. /\ f \in EndpointId /\ transit[f] # <<>>
          /\ transit' = [transit EXCEPT ![f] = Tail(@)]
          /\ waiting' = [waiting EXCEPT ![t] = Nothing]
      BY <2>1, <2>2 DEF RecvTake, Option
    <3> HIDE DEF f
    <3>2. \A e \in EndpointId : Len(transit'[e]) <= Len(transit[e])
      BY <2>1, <3>1
    <3>3. \A e \in EndpointId, u \in Task : waiting[u] # e => waiting'[u] # e
      BY <2>1, <3>1
    <3>4. \A e \in EndpointId : Len(transit'[e]) \in Nat
      BY <2>1, <3>1
    <3>5. \A e \in EndpointId : ~ (Len(transit'[e]) > Len(transit[e]))
      BY <2>1, <3>2, <3>4
    <3> QED
      BY <3>3, <3>5, SendersHold
  <2>3. ASSUME NEW t \in Task, NEW h \in 1 .. MaxHandles, NEW ch \in 0 .. MaxHandles,
               sys_send(t, h, ch)
        PROVE  Authorised
    <3>1. \A e \in EndpointId : Len(transit'[e]) > Len(transit[e]) => Sends(t, e)
      BY <2>3, Zenon DEF Sends
    <3>2. UNCHANGED waiting
      BY <2>3 DEF sys_send
    <3> QED
      BY <3>1, <3>2, SendersHold
  <2>4. ASSUME NEW t \in Task, NEW h \in 1 .. MaxHandles, RecvCall(t, h) PROVE Authorised
    <3> DEFINE f == endpoint_for(t, h, "recv")
    <3>1. f # Nothing /\ waiting' = [waiting EXCEPT ![t] = f] /\ UNCHANGED transit
      BY <2>4 DEF RecvCall
    <3>2. Holds(t, f, "recv")
      BY <3>1, EndpointForHolds
    <3> HIDE DEF f
    <3>3. \A e \in EndpointId, u \in Task : waiting[u] # e /\ waiting'[u] = e => u = t /\ e = f
      BY <2>1, <3>1
    <3>4. \A e \in EndpointId : ~ (Len(transit'[e]) > Len(transit[e]))
      BY <2>1, <3>1
    <3> QED
      BY <3>2, <3>3, <3>4, SendersHold
  <2>5. ASSUME UNCHANGED <<transit, waiting>> PROVE Authorised
    <3>1. \A e \in EndpointId : ~ (Len(transit'[e]) > Len(transit[e]))
      BY <2>1, <2>5
    <3> QED
      BY <2>5, <3>1, SendersHold
  <2>6. ASSUME NEW id \in EndpointId, CreateReuse(id) \/ CreateGrow(id) PROVE Authorised
    BY <2>5, <2>6 DEF CreateReuse, CreateGrow, Occupy
  <2>7. ASSUME NEW t \in Task, NEW n \in DOMAIN made, NEW right \in {"send", "recv"},
               Grant(t, made[n].ref, right)
        PROVE  Authorised
    BY <2>5, <2>7 DEF Grant
  <2>8. ASSUME NEW t \in Task, Spawn(t) \/ Exit(t) PROVE Authorised
    BY <2>5, <2>8 DEF Spawn, Exit
  <2>9. ASSUME NEW t \in Task, NEW h \in 1 .. MaxHandles, sys_revoke(t, h) PROVE Authorised
    BY <2>5, <2>9 DEF sys_revoke
  <2> HIDE DEF Authorised
  <2> QED
    BY <2>2, <2>3, <2>4, <2>6, <2>7, <2>8, <2>9 DEF Next
<1>2. Spec => [](CapsInv /\ Minted)
  BY CapsInductive, MintedInductive, PTL DEF Spec
<1> QED
  BY <1>1, <1>2, PTL DEF Spec, NoTrafficWithoutAuthority

=============================================================================
