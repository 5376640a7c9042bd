-------------------------- MODULE AddressSpaceProofs --------------------------
(***************************************************************************)
(* What the page-table model promises, for every machine, every size of    *)
(* table and every number of spaces: ResolvesAsAsked, NothingLeftBehind,   *)
(* OnlyItsOwn and Accounted are theorems of Spec.                          *)
(*                                                                         *)
(* The inductive invariant, IInv, says that the memory is well shaped for  *)
(* some owner of its frames (see TreeProofs), that every frame of the pool *)
(* is accounted for (Account), and of each space which rights it was       *)
(* given, whose bytes its pages hold, and which pages it has yet to be     *)
(* given (Fine).                                                           *)
(***************************************************************************)
EXTENDS TreeProofs

-----------------------------------------------------------------------------
(* The books: who has the frames of the pool.                               *)

(* U are the frames given to nobody's tree: stacks, the clock, lost ones.   *)
(* ap says whether every page a program has is its own.                     *)
Account(m, o, k, Pooled, U, ap) ==
  /\ \A f \in U : f \in Frame /\ f \notin m.pool /\ o.R[f] = Nobody
  /\ m.pool \subseteq Pooled /\ \A f \in Frame : o.R[f] # Nobody => f \in Pooled
  /\ \A f \in Frame : o.R[f] = k => o.L[f] >= 0
  /\ ap => /\ Ledger(m) = Cardinality(Pooled)
           /\ \A f \in Pooled : f \in m.pool \/ o.R[f] # Nobody \/ f \in U

(* The kernel's tree grows. *)
LEMMA AccountMoves ==
  ASSUME NEW m, NEW o, NEW x, NEW q, NEW k \in Frame, NEW P, NEW U, NEW ap \in BOOLEAN,
         P \subseteq Frame,
         Account(m, o, k, P, U, ap), Moves(m, o, x, q, k)
  PROVE  Account(x, q, k, P, U, ap)
<1>1. k # Nobody
  BY DEF Frame, Nobody
<1>2. \A f \in U : f \in Frame /\ f \notin x.pool /\ q.R[f] = Nobody
  BY DEF Account, Moves
<1>3. x.pool \subseteq P /\ \A f \in Frame : q.R[f] # Nobody => f \in P
  BY DEF Account, Moves, Keeps
<1>4. \A f \in Frame : q.R[f] = k => q.L[f] >= 0
  <2> SUFFICES ASSUME NEW f \in Frame, q.R[f] = k PROVE q.L[f] >= 0
    OBVIOUS
  <2>1. CASE o.R[f] = Nobody
    BY <1>1, <2>1 DEF Moves
  <2>2. CASE o.R[f] # Nobody
    BY <2>2 DEF Moves, Keeps, Account
  <2> QED BY <2>1, <2>2
<1>5. ap => /\ Ledger(x) = Cardinality(P)
            /\ \A f \in P : f \in x.pool \/ q.R[f] # Nobody \/ f \in U
  BY <1>1 DEF Account, Moves, Keeps
<1> QED BY <1>2, <1>3, <1>4, <1>5 DEF Account

(* A program's tree is worked on. *)
LEMMA AccountWorks ==
  ASSUME NEW m, NEW o, NEW x, NEW q, NEW Rs, NEW k \in Frame, NEW c, NEW r \in Frame, r # k, NEW s,
         NEW V, NEW P, NEW U, NEW ap, ap = TRUE \/ ap = FALSE, P \subseteq Frame,
         Account(m, o, k, P, U, ap), Works(m, o, x, q, Rs, k, c, r, s, V)
  PROVE  Account(x, q, k, P, U, ap)
<1>1. k # Nobody /\ r # Nobody
  BY DEF Frame, Nobody
<1>2. \A f \in U : f \in Frame /\ f \notin x.pool /\ q.R[f] = Nobody
  BY DEF Account, Works
<1>3. x.pool \subseteq P /\ \A f \in Frame : q.R[f] # Nobody => f \in P
  BY DEF Account, Works, Keeps
<1>4. \A f \in Frame : q.R[f] = k => q.L[f] >= 0
  <2> SUFFICES ASSUME NEW f \in Frame, q.R[f] = k PROVE q.L[f] >= 0
    OBVIOUS
  <2>1. CASE o.R[f] = Nobody
    BY <1>1, <2>1 DEF Works
  <2>2. CASE o.R[f] # Nobody
    BY <2>2 DEF Works, Keeps, Account
  <2> QED BY <2>1, <2>2
<1>5. ap => /\ Ledger(x) = Cardinality(P)
            /\ \A f \in P : f \in x.pool \/ q.R[f] # Nobody \/ f \in U
  BY <1>1 DEF Account, Works, Keeps
<1> QED BY <1>2, <1>3, <1>4, <1>5 DEF Account

(* Frames are taken for nobody's tree. *)
LEMMA AccountTaken ==
  ASSUME NEW m, NEW o, NEW x, NEW k \in Frame, NEW P, NEW U, NEW ap \in BOOLEAN, P \subseteq Frame,
         PoolFree(m, o), m.pool \subseteq Frame, Account(m, o, k, P, U, ap), x.pool \subseteq m.pool,
         Ledger(x) = Ledger(m), NEW W, W = m.pool \ x.pool
  PROVE  Account(x, o, k, P, U \cup W, ap)
BY DEF Account, PoolFree

(* A frame that is nobody's goes back to the pool. *)
LEMMA AccountGiven ==
  ASSUME NEW m, NEW o, NEW x, NEW k \in Frame, NEW P, NEW U, NEW ap \in BOOLEAN, P \subseteq Frame,
         NEW f \in P, f \notin U, Account(m, o, k, P, U \cup {f}, ap), x.pool = m.pool \cup {f},
         Ledger(x) = Ledger(m)
  PROVE  Account(x, o, k, P, U, ap)
BY DEF Account

(* A tree is torn down, and all it owned is free again. *)
LEMMA AccountReturned ==
  ASSUME NEW m, NEW o, NEW x, NEW Rs, NEW k \in Frame, NEW c, NEW r \in Frame, r # k, NEW P, NEW U,
         NEW ap \in BOOLEAN, P \subseteq Frame, Account(m, o, k, P, U, ap),
         Returned(m, o, x, Rs, k, c, r), ap => Placed(m, o, r), o.R[c] # r
  PROVE  Account(x, Released(o, r), k, P, U, ap)
<1> DEFINE q == Released(o, r)
<1>1. k # Nobody /\ r # Nobody
  BY DEF Frame, Nobody
<1>2. \A f \in Frame : q.R[f] = (IF o.R[f] = r THEN Nobody ELSE o.R[f]) /\ q.L[f] = o.L[f]
  BY DEF Released
<1> HIDE DEF q
<1>3. /\ m.pool \subseteq x.pool /\ x.pool \subseteq m.pool \cup Owned(o, r)
      /\ ap => x.pool = m.pool \cup Owned(o, r) /\ Ledger(x) = Ledger(m)
  BY DEF Returned
<1>4. \A f \in Owned(o, r) : f \in Frame /\ o.R[f] = r
  BY DEF Owned
<1>5. \A f \in U : f \in Frame /\ f \notin x.pool /\ q.R[f] = Nobody
  BY <1>1, <1>2, <1>3, <1>4 DEF Account
<1>6. x.pool \subseteq P /\ \A f \in Frame : q.R[f] # Nobody => f \in P
  BY <1>1, <1>2, <1>3, <1>4 DEF Account
<1>7. \A f \in Frame : q.R[f] = k => q.L[f] >= 0
  BY <1>1, <1>2 DEF Account
<1>8. ap => /\ Ledger(x) = Cardinality(P)
            /\ \A f \in P : f \in x.pool \/ q.R[f] # Nobody \/ f \in U
  <2> SUFFICES ASSUME ap PROVE /\ Ledger(x) = Cardinality(P)
                               /\ \A f \in P : f \in x.pool \/ q.R[f] # Nobody \/ f \in U
    OBVIOUS
  <2>1. Ledger(x) = Cardinality(P)
    BY <1>3 DEF Account
  <2>2. ASSUME NEW f \in P PROVE f \in x.pool \/ q.R[f] # Nobody \/ f \in U
    <3>1. f \in m.pool \/ o.R[f] # Nobody \/ f \in U
      BY DEF Account
    <3>2. o.R[f] = r => f \in Owned(o, r)
      BY DEF Owned
    <3> QED BY <1>2, <1>3, <3>1, <3>2
  <2> QED BY <2>1, <2>2
<1>9. Account(x, q, k, P, U, ap)
  BY <1>5, <1>6, <1>7, <1>8 DEF Account
<1> QED BY <1>9 DEF q

(* The books once tree r is dropped, and the frames L are nobody's. *)
Bereft(m, o, x, k, P, U, ap, L, r) == Account(x, Released(o, r), k, P, U \cup L, ap)

(* A tree is dropped, and what it owned is lost, L. *)
LEMMA AccountDropped ==
  ASSUME NEW m, NEW o, NEW x, NEW k \in Frame, NEW r \in Frame, r # k, NEW P, NEW U,
         NEW ap \in BOOLEAN, P \subseteq Frame, PoolFree(m, o), Account(m, o, k, P, U, ap),
         x.pool = m.pool, x.inUse = m.inUse, NEW L, L \subseteq Owned(o, r),
         ap => Owned(o, r) \subseteq L
  PROVE  Bereft(m, o, x, k, P, U, ap, L, r)
<1> DEFINE q == Released(o, r)
<1>1. k # Nobody /\ r # Nobody
  BY DEF Frame, Nobody
<1>2. \A f \in Frame : q.R[f] = (IF o.R[f] = r THEN Nobody ELSE o.R[f]) /\ q.L[f] = o.L[f]
  BY DEF Released
<1> HIDE DEF q
<1>3. \A f \in Owned(o, r) : f \in Frame /\ o.R[f] = r /\ f \notin m.pool
  BY <1>1 DEF Owned, PoolFree
<1>4. \A f \in U \cup L : f \in Frame /\ f \notin x.pool /\ q.R[f] = Nobody
  BY <1>1, <1>2, <1>3 DEF Account
<1>5. x.pool \subseteq P /\ \A f \in Frame : q.R[f] # Nobody => f \in P
  BY <1>1, <1>2 DEF Account
<1>6. \A f \in Frame : q.R[f] = k => q.L[f] >= 0
  BY <1>1, <1>2 DEF Account
<1>7. ap => /\ Ledger(x) = Cardinality(P)
            /\ \A f \in P : f \in x.pool \/ q.R[f] # Nobody \/ f \in U \cup L
  <2> SUFFICES ASSUME ap PROVE /\ Ledger(x) = Cardinality(P)
                               /\ \A f \in P : f \in x.pool \/ q.R[f] # Nobody \/ f \in U \cup L
    OBVIOUS
  <2>1. Ledger(x) = Cardinality(P)
    BY DEF Account, Ledger
  <2>2. ASSUME NEW f \in P PROVE f \in x.pool \/ q.R[f] # Nobody \/ f \in U \cup L
    <3>1. f \in m.pool \/ o.R[f] # Nobody \/ f \in U
      BY DEF Account
    <3>2. o.R[f] = r => f \in L
      BY DEF Owned
    <3> QED BY <1>2, <3>1, <3>2
  <2> QED BY <2>1, <2>2
<1>8. Account(x, q, k, P, U \cup L, ap)
  BY <1>4, <1>5, <1>6, <1>7 DEF Account
<1> QED BY <1>8 DEF q, Bereft
-----------------------------------------------------------------------------
(* The spaces, at their stages. *)

Stages == {"none", "new", "loaded", "stacked", "seeded", "built", "live"}
SpaceT == [stage : Stages, root : Frame, borrowed : SUBSET Frame]

HeldIn(sp) == {s \in Space : sp[s].stage # "none"}
RootsIn(k, sp) == {k} \cup {sp[s].root : s \in HeldIn(sp)}

(* Every space has a root of its own. *)
Rooting(sp, k) ==
  /\ sp \in [Space -> SpaceT]
  /\ \A s \in HeldIn(sp) : sp[s].root # k
  /\ \A s \in HeldIn(sp) : \A u \in HeldIn(sp) : sp[s].root = sp[u].root => s = u

(* The pages a space of this stage has yet to be given, W the program's. *)
Remaining(W, stage) ==
  (IF stage = "new" THEN W ELSE {})
    \cup (IF stage \in {"new", "loaded"} THEN {USER_STACK} ELSE {})
    \cup (IF stage \in {"new", "loaded", "stacked"} THEN {USER_DATA_VA} ELSE {})
    \cup (IF stage \in {"new", "loaded", "stacked", "seeded"} THEN {USER_CLOCK_VA} ELSE {})

(* The tree r of space s is as it should be, with the pages V to come. *)
Fine(m, o, r, s, ap, V) == TreeOK(m, o, r, s) /\ (ap => Placed(m, o, r) /\ Vacant(m, r, V))

Sane(m, o, k, c, P, U, ap, W, sp) ==
  /\ Kept(m, o, RootsIn(k, sp), k, c) /\ ~Failed(m)
  /\ Account(m, o, k, P, U, ap)
  /\ Blank(m, RootsIn(k, sp))
  /\ \A s \in HeldIn(sp) : Fine(m, o, sp[s].root, s, ap, Remaining(W, sp[s].stage))
  /\ c # 0 => c \in U /\ m.bytes[c] = {}

(* Settling changes nothing of a tree. *)
LEMMA FineCopied ==
  ASSUME NEW m, NEW o, NEW r, NEW s, NEW ap, NEW V, Fine(m, o, r, s, ap, V), NEW x,
         x.bytes = m.bytes, x.asked = m.asked
  PROVE  Fine(x, o, r, s, ap, V)
BY DEF Fine, TreeOK, Placed, Vacant

(* Work on one tree leaves the others as they are. *)
LEMMA FineOther ==
  ASSUME NEW m, NEW o, NEW x, NEW q, NEW Rs, NEW k, NEW c, NEW r, NEW s, NEW V, PoolFree(m, o),
         Works(m, o, x, q, Rs, k, c, r, s, V), NEW t \in Frame, t # r, NEW u, NEW ap, NEW W,
         Fine(m, o, t, u, ap, W)
  PROVE  Fine(x, q, t, u, ap, W)
<1>1. t # Nobody
  BY DEF Frame, Nobody
<1>2. \A y \in Page : Asked(x.asked[t], y) = Asked(m.asked[t], y)
  BY DEF Works
<1>3. ASSUME NEW f \in Frame, q.R[f] = t
      PROVE  o.R[f] = t /\ q.L[f] = o.L[f] /\ q.B[f] = o.B[f] /\ x.bytes[f] = m.bytes[f]
  <2>1. o.R[f] # Nobody
    BY <1>1, <1>3 DEF Works
  <2>2. o.R[f] = t /\ q.L[f] = o.L[f] /\ q.B[f] = o.B[f]
    BY <1>3, <2>1 DEF Works, Keeps
  <2>3. f \notin m.pool
    BY <2>1 DEF PoolFree
  <2> QED BY <2>2, <2>3 DEF Works
<1>4. TreeOK(x, q, t, u)
  BY <1>2, <1>3 DEF Fine, TreeOK
<1>5. Placed(m, o, t) => Placed(x, q, t)
  <2> SUFFICES ASSUME Placed(m, o, t), NEW f \in Frame, q.R[f] = t, q.L[f] = -1
               PROVE  /\ q.B[f] \in Page /\ q.B[f] < USER_LIMIT
                      /\ Asked(x.asked[t], q.B[f]).mapped /\ Asked(x.asked[t], q.B[f]).phys = f
    BY DEF Placed
  <2>1. o.R[f] = t /\ q.L[f] = o.L[f] /\ q.B[f] = o.B[f]
    BY <1>3
  <2>2. /\ o.B[f] \in Page /\ o.B[f] < USER_LIMIT
        /\ Asked(m.asked[t], o.B[f]).mapped /\ Asked(m.asked[t], o.B[f]).phys = f
    BY <2>1 DEF Placed
  <2>3. Asked(x.asked[t], o.B[f]) = Asked(m.asked[t], o.B[f])
    BY <1>2, <2>2
  <2> QED BY <2>1, <2>2, <2>3
<1>6. Vacant(m, t, W) => Vacant(x, t, W)
  BY <1>2 DEF Vacant
<1> QED BY <1>4, <1>5, <1>6 DEF Fine

(* The tree worked on has what it was given, and fewer pages to come. *)
LEMMA FineWorked ==
  ASSUME NEW m, NEW o, NEW x, NEW q, NEW Rs, NEW k, NEW c, NEW r \in Frame, NEW s, NEW V,
         Works(m, o, x, q, Rs, k, c, r, s, V), NEW ap, NEW W, Fine(m, o, r, s, ap, W),
         NEW Z, ap => V \subseteq W /\ Z \subseteq W \ V, ~Failed(x),
         ap => Builds(m, o, x, q, Rs, k, c, r, s, V)
  PROVE  Fine(x, q, r, s, ap, Z)
<1>1. TreeOK(x, q, r, s)
  BY DEF Works
<1>2. ap => Placed(x, q, r)
  BY DEF Builds, Fine, Vacant
<1>3. ap => Vacant(x, r, Z)
  BY DEF Vacant, Fine, Works
<1> QED BY <1>1, <1>2, <1>3 DEF Fine

Staged(sp, k, s, to, b, z) ==
  /\ HeldIn(z) = HeldIn(sp) /\ RootsIn(k, z) = RootsIn(k, sp) /\ Rooting(z, k)
  /\ z[s].stage = to /\ z[s].root = sp[s].root /\ z[s].borrowed = b
  /\ \A u \in Space : u # s => z[u] = sp[u]

(* The roots are the same while a space goes from one stage to the next. *)
LEMMA StageRoots ==
  ASSUME NEW sp, NEW k, Rooting(sp, k), NEW s \in HeldIn(sp), NEW to \in Stages, to # "none",
         NEW b, b \subseteq Frame
  PROVE  Staged(sp, k, s, to, b,
                [sp EXCEPT ![s] = [stage |-> to, root |-> sp[s].root, borrowed |-> b]])
<1> DEFINE n == [stage |-> to, root |-> sp[s].root, borrowed |-> b]
           z == [sp EXCEPT ![s] = n]
<1>1. s \in Space /\ sp \in [Space -> SpaceT] /\ sp[s].stage # "none"
  BY DEF HeldIn, Rooting
<1>2. n \in SpaceT /\ n.stage = to /\ n.root = sp[s].root /\ n.borrowed = b
  BY <1>1 DEF SpaceT
<1> HIDE DEF n
<1>3. z \in [Space -> SpaceT] /\ z[s] = n /\ \A u \in Space : u # s => z[u] = sp[u]
  BY <1>1, <1>2
<1> HIDE DEF z
<1>4. \A u \in Space : z[u].root = sp[u].root /\ (z[u].stage # "none" <=> sp[u].stage # "none")
  BY <1>1, <1>2, <1>3
<1>5. HeldIn(z) = HeldIn(sp)
  BY <1>4 DEF HeldIn
<1>6. \A u \in HeldIn(sp) : z[u].root = sp[u].root
  BY <1>4 DEF HeldIn
<1>7. RootsIn(k, z) = RootsIn(k, sp)
  BY <1>5, <1>6 DEF RootsIn
<1>8. Rooting(z, k)
  BY <1>3, <1>5, <1>6 DEF Rooting
<1> QED BY <1>2, <1>3, <1>5, <1>7, <1>8 DEF z, n, Staged

(* All is well but for the tree of space s, and the memory may have failed. *)
Almost(m, o, k, c, P, U, ap, W, sp, s) ==
  /\ Kept(m, o, RootsIn(k, sp), k, c)
  /\ Account(m, o, k, P, U, ap)
  /\ Blank(m, RootsIn(k, sp))
  /\ \A u \in HeldIn(sp) : u # s => Fine(m, o, sp[u].root, u, ap, Remaining(W, sp[u].stage))
  /\ c # 0 => c \in U /\ m.bytes[c] = {}

(* A root is one of the trees, and not the kernel's. *)
LEMMA RootIs ==
  ASSUME NEW sp, NEW k \in Frame, Rooting(sp, k), NEW s \in HeldIn(sp)
  PROVE  /\ sp[s].root \in RootsIn(k, sp) /\ sp[s].root # k /\ sp[s].root \in Frame
         /\ s \in Space /\ sp[s] \in SpaceT
         /\ \A u \in HeldIn(sp) : u # s => sp[u].root # sp[s].root
BY DEF Rooting, RootsIn, HeldIn, SpaceT

(* Work on the tree of a space leaves all else well. *)
LEMMA WorkedOn ==
  ASSUME NEW m, NEW o, NEW k \in Frame, NEW c \in Frame, NEW P, P \subseteq Frame, NEW U,
         NEW ap, ap = TRUE \/ ap = FALSE, NEW W, NEW sp, Sane(m, o, k, c, P, U, ap, W, sp), Rooting(sp, k),
         NEW s \in HeldIn(sp), NEW x, NEW q, NEW V,
         Works(m, o, x, q, RootsIn(k, sp), k, c, sp[s].root, s, V)
  PROVE  Almost(x, q, k, c, P, U, ap, W, sp, s)
<1> DEFINE Rs == RootsIn(k, sp)
           r == sp[s].root
<1>1. r \in Rs /\ r \in Frame /\ r # k /\ \A u \in HeldIn(sp) : u # s => sp[u].root # r
  BY RootIs
<1>2. Works(m, o, x, q, Rs, k, c, r, s, V)
  OBVIOUS
<1> HIDE DEF r, Rs
<1>3. Kept(x, q, Rs, k, c)
  BY <1>2 DEF Works
<1>4. Account(m, o, k, P, U, ap) /\ PoolFree(m, o) /\ (c # 0 => c \in U /\ m.bytes[c] = {})
  BY DEF Sane, Kept, Shape
<1>5. Account(x, q, k, P, U, ap)
  BY <1>1, <1>2, <1>4, AccountWorks
<1>6. Blank(x, Rs)
  <2>1. Blank(m, Rs)
    BY DEF Sane, Rs
  <2>2. \A f \in Frame \ Rs : \A y \in Page : Asked(x.asked[f], y) = Asked(m.asked[f], y)
    BY <1>1, <1>2 DEF Works
  <2> QED BY <2>1, <2>2 DEF Blank
<1>7. ASSUME NEW u \in HeldIn(sp), u # s
      PROVE  Fine(x, q, sp[u].root, u, ap, Remaining(W, sp[u].stage))
  <2>1. Fine(m, o, sp[u].root, u, ap, Remaining(W, sp[u].stage))
    BY DEF Sane
  <2>2. sp[u].root \in Frame /\ sp[u].root # r
    <3>1. sp[u].root \in Frame
      BY RootIs
    <3> QED BY <1>1, <1>7, <3>1
  <2> QED BY <1>2, <1>4, <2>1, <2>2, FineOther
<1>8. c # 0 => c \in U /\ x.bytes[c] = {}
  <2> SUFFICES ASSUME c # 0 PROVE c \in U /\ x.bytes[c] = {}
    OBVIOUS
  <2>1. c \in Frame \ m.pool
    BY <1>4 DEF Account
  <2> QED BY <1>2, <1>4, <2>1 DEF Works
<1> QED BY <1>3, <1>5, <1>6, <1>7, <1>8 DEF Almost, Rs

(* What an operation on a space makes of the memory, the program's pages    *)
(* apart or not.                                                            *)
Worked(m, o, x, q, k, c, ap, sp, s, V) ==
  /\ Works(m, o, x, q, RootsIn(k, sp), k, c, sp[s].root, s, V)
  /\ ap => Builds(m, o, x, q, RootsIn(k, sp), k, c, sp[s].root, s, V)

(* The pages V of the space are still to be mapped.                         *)
Pending(ap, W, V, sp, s) == ap => V \subseteq Remaining(W, sp[s].stage)

(* A stage that maps the pages V: they were still to be mapped.             *)
Advances(ap, W, V, from, to) ==
  ap => V \subseteq Remaining(W, from) /\ Remaining(W, to) \subseteq Remaining(W, from) \ V

(* One space changes.                                                       *)
Becomes(sp, z, s, w) == z = [sp EXCEPT ![s] = w]

(* The spaces are well kept by some owner.                                  *)
After(y, k, c, P, U, ap, W, z) ==
  (\E q : Sane(y, q, k, c, P, U, ap, W, z)) /\ Rooting(z, k)

(* A space goes on to its next stage. *)
LEMMA SaneStep ==
  ASSUME NEW m, NEW o, NEW k \in Frame, NEW c \in Frame, NEW P, P \subseteq Frame, NEW U,
         NEW ap, ap = TRUE \/ ap = FALSE, NEW W, NEW sp, Sane(m, o, k, c, P, U, ap, W, sp), Rooting(sp, k),
         NEW s \in HeldIn(sp), NEW x, NEW q, NEW V,
         Worked(m, o, x, q, k, c, ap, sp, s, V), ~Failed(x),
         NEW to \in Stages, to # "none", NEW b, b \subseteq Frame,
         Advances(ap, W, V, sp[s].stage, to), NEW y, y = Settled(x), NEW w,
         w = [stage |-> to, root |-> sp[s].root, borrowed |-> b], NEW z, Becomes(sp, z, s, w)
  PROVE  After(y, k, c, P, U, ap, W, z)
<1>0. /\ Works(m, o, x, q, RootsIn(k, sp), k, c, sp[s].root, s, V)
      /\ ap => Builds(m, o, x, q, RootsIn(k, sp), k, c, sp[s].root, s, V)
      /\ ap => /\ V \subseteq Remaining(W, sp[s].stage)
               /\ Remaining(W, to) \subseteq Remaining(W, sp[s].stage) \ V
  BY DEF Worked, Advances
<1>12. z = [sp EXCEPT ![s] = [stage |-> to, root |-> sp[s].root, borrowed |-> b]]
  BY DEF Becomes
<1> DEFINE Rs == RootsIn(k, sp)
           r == sp[s].root
<1>1. r \in Rs /\ r \in Frame /\ r # k
  BY RootIs
<1>2. /\ HeldIn(z) = HeldIn(sp) /\ RootsIn(k, z) = Rs /\ Rooting(z, k)
      /\ z[s].stage = to /\ z[s].root = r
      /\ \A u \in Space : u # s => z[u] = sp[u]
  <2>1. Staged(sp, k, s, to, b, z)
    BY <1>12, StageRoots
  <2> QED BY <2>1 DEF Staged
<1>3. Almost(x, q, k, c, P, U, ap, W, sp, s)
  BY <1>0, WorkedOn
<1>4. Fine(m, o, r, s, ap, Remaining(W, sp[s].stage))
  BY DEF Sane
<1>5. Fine(x, q, r, s, ap, Remaining(W, to))
  BY <1>0, <1>1, <1>4, FineWorked
<1> HIDE DEF r, Rs
<1>6. Kept(x, q, Rs, k, c) /\ IsMem(x)
  BY <1>3 DEF Almost, Kept, Shape, Rs
<1>7. /\ IsMem(y) /\ y.table = x.table /\ y.bytes = x.bytes /\ y.pool = x.pool
      /\ y.inUse = x.inUse /\ y.asked = x.asked /\ ~Failed(y)
  BY <1>6, SettledIs
<1>8. Kept(y, q, Rs, k, c)
  BY <1>6, <1>7, KeptCopied
<1>9. Account(y, q, k, P, U, ap) /\ Blank(y, Rs) /\ (c # 0 => c \in U /\ y.bytes[c] = {})
  BY <1>3, <1>7 DEF Almost, Account, Ledger, Blank, Rs
<1>10. ASSUME NEW u \in HeldIn(z) PROVE Fine(y, q, z[u].root, u, ap, Remaining(W, z[u].stage))
  <2>1. Fine(x, q, z[u].root, u, ap, Remaining(W, z[u].stage))
    <3>1. CASE u = s
      BY <1>2, <1>5, <3>1
    <3>2. CASE u # s
      <4>1. u \in HeldIn(sp) /\ u \in Space
        BY <1>2 DEF HeldIn
      <4>2. z[u] = sp[u]
        BY <1>2, <3>2, <4>1
      <4>3. Fine(x, q, sp[u].root, u, ap, Remaining(W, sp[u].stage))
        BY <1>3, <3>2, <4>1 DEF Almost
      <4> QED BY <4>2, <4>3
    <3> QED BY <3>1, <3>2
  <2> QED BY <1>7, <2>1, FineCopied
<1>11. Sane(y, q, k, c, P, U, ap, W, z)
  BY <1>2, <1>7, <1>8, <1>9, <1>10 DEF Sane
<1> QED BY <1>2, <1>11 DEF After

Gone(sp, k, s, z) ==
  /\ HeldIn(z) = HeldIn(sp) \ {s} /\ RootsIn(k, z) = RootsIn(k, sp) \ {sp[s].root}
  /\ Rooting(z, k) /\ \A u \in HeldIn(z) : z[u] = sp[u]

(* A space goes, and its root with it. *)
LEMMA GoneRoots ==
  ASSUME NEW sp, NEW k \in Frame, Rooting(sp, k), NEW s \in HeldIn(sp)
  PROVE  Gone(sp, k, s, [sp EXCEPT ![s] = NoSpace])
<1> DEFINE z == [sp EXCEPT ![s] = NoSpace]
<1>1. s \in Space /\ sp \in [Space -> SpaceT] /\ sp[s].stage # "none"
  BY DEF HeldIn, Rooting
<1>2. NoSpace \in SpaceT /\ NoSpace.stage = "none"
  <2>1. 0 \in Frame
    BY Numbers DEF Frame
  <2> QED BY <2>1 DEF NoSpace, SpaceT, Stages
<1>3. z \in [Space -> SpaceT] /\ z[s] = NoSpace /\ \A u \in Space : u # s => z[u] = sp[u]
  BY <1>1, <1>2
<1> HIDE DEF z
<1>4. HeldIn(z) = HeldIn(sp) \ {s}
  BY <1>1, <1>2, <1>3 DEF HeldIn
<1>5. \A u \in HeldIn(z) : z[u] = sp[u]
  BY <1>3, <1>4 DEF HeldIn
<1>6. RootsIn(k, z) = RootsIn(k, sp) \ {sp[s].root}
  BY <1>4, <1>5 DEF RootsIn, Rooting
<1>7. Rooting(z, k)
  BY <1>3, <1>4, <1>5 DEF Rooting
<1> QED BY <1>4, <1>5, <1>6, <1>7 DEF z, Gone

(* A tree that is no more leaves the others as they are. *)
LEMMA FineReleased ==
  ASSUME NEW m, NEW o, NEW r, NEW x, x.bytes = m.bytes, NEW t \in Frame, t # r,
         x.asked[t] = m.asked[t], NEW u, NEW ap, NEW W, Fine(m, o, t, u, ap, W)
  PROVE  Fine(x, Released(o, r), t, u, ap, W)
<1> DEFINE q == Released(o, r)
<1>1. \A f \in Frame : q.R[f] = (IF o.R[f] = r THEN Nobody ELSE o.R[f]) /\ q.L[f] = o.L[f]
                       /\ q.B[f] = o.B[f]
  BY DEF Released
<1> HIDE DEF q
<1>2. t # Nobody
  BY DEF Frame, Nobody
<1>3. \A f \in Frame : q.R[f] = t => o.R[f] = t
  BY <1>1, <1>2
<1>4. Fine(x, q, t, u, ap, W)
  BY <1>1, <1>3 DEF Fine, TreeOK, Placed, Vacant
<1> QED BY <1>4 DEF q

(* Of what the root r owns, L is lost; all of it, if the program is apart.  *)
Loses(o, r, L, ap) == L \subseteq Owned(o, r) /\ (ap => Owned(o, r) \subseteq L)

(* The memory m, without what the root r was asked for.                     *)
Forgets(m, y, r) ==
  /\ IsMem(y) /\ y.table = m.table /\ y.bytes = m.bytes /\ y.pool = m.pool
  /\ y.inUse = m.inUse /\ ~Failed(y)
  /\ \A t \in Frame : y.asked[t] = IF t = r THEN <<>> ELSE m.asked[t]

(* A space is given up, and the frames of its tree are lost. *)
LEMMA SaneDrop ==
  ASSUME NEW m, NEW o, NEW k \in Frame, NEW c \in Frame, NEW P, P \subseteq Frame, NEW U,
         NEW ap, ap = TRUE \/ ap = FALSE, NEW W, NEW sp, Rooting(sp, k), NEW s \in HeldIn(sp),
         Almost(m, o, k, c, P, U, ap, W, sp, s), NEW L, Loses(o, sp[s].root, L, ap),
         NEW y, Forgets(m, y, sp[s].root), NEW z, Becomes(sp, z, s, NoSpace)
  PROVE  After(y, k, c, P, U \cup L, ap, W, z)
<1>0. /\ L \subseteq Owned(o, sp[s].root) /\ (ap => Owned(o, sp[s].root) \subseteq L)
      /\ IsMem(y) /\ y.table = m.table /\ y.bytes = m.bytes /\ y.pool = m.pool
      /\ y.inUse = m.inUse /\ ~Failed(y)
      /\ \A t \in Frame : y.asked[t] = IF t = sp[s].root THEN <<>> ELSE m.asked[t]
  BY DEF Loses, Forgets
<1> DEFINE Rs == RootsIn(k, sp)
           r == sp[s].root
           q == Released(o, r)
<1>1. r \in Rs /\ r \in Frame /\ r # k /\ \A u \in HeldIn(sp) : u # s => sp[u].root # r
  BY RootIs
<1>2. /\ HeldIn(z) = HeldIn(sp) \ {s} /\ RootsIn(k, z) = Rs \ {r}
      /\ Rooting(z, k) /\ \A u \in HeldIn(z) : z[u] = sp[u]
  <2>1. z = [sp EXCEPT ![s] = NoSpace]
    BY DEF Becomes
  <2>2. Gone(sp, k, s, z)
    BY <2>1, GoneRoots
  <2> QED BY <2>2 DEF Gone
<1>3. Kept(m, o, Rs, k, c)
  BY DEF Almost
<1>4. L \subseteq Owned(o, r) /\ (ap => Owned(o, r) \subseteq L)
      /\ \A t \in Frame : y.asked[t] = IF t = r THEN <<>> ELSE m.asked[t]
  BY <1>0
<1> HIDE DEF r, Rs
<1>5. /\ Shape(m, o, AskedFn(m), Rs, k, c) /\ PoolFree(m, o) /\ Rs \subseteq Frame /\ k \in Rs
  BY <1>3 DEF Kept, Shape, RootsIn, Rs
<1>6. Kept(y, q, Rs \ {r}, k, c)
  <2>1. SameElsewhere(AskedFn(m), AskedFn(y), Rs, r)
    BY <1>1, <1>4, <1>5, ForgetAsked
  <2>2. \A f \in y.pool : f \in m.pool \/ o.R[f] = r
    BY <1>0
  <2>3. Shape(y, Released(o, r), AskedFn(y), Rs \ {r}, k, c)
    BY <1>0, <1>1, <1>5, <2>1, <2>2, DropTree
  <2> QED BY <2>3 DEF Kept
<1>7. Account(y, q, k, P, U \cup L, ap)
  <2>1. Account(m, o, k, P, U, ap)
    BY DEF Almost
  <2>2. /\ r \in Frame /\ r # k /\ PoolFree(m, o) /\ y.pool = m.pool /\ y.inUse = m.inUse
        /\ L \subseteq Owned(o, r) /\ (ap => Owned(o, r) \subseteq L)
    BY <1>0, <1>1, <1>4, <1>5
  <2>3. Bereft(m, o, y, k, P, U, ap, L, r)
    BY <2>1, <2>2, AccountDropped
  <2> QED BY <2>3 DEF Bereft
<1>8. Blank(y, Rs \ {r})
  <2>1. \A v : Asked(<<>>, v) = Unmapped
    BY DEF Asked
  <2>2. Blank(m, Rs)
    BY DEF Almost, Rs
  <2> QED BY <1>4, <2>1, <2>2 DEF Blank
<1>9. ASSUME NEW u \in HeldIn(z) PROVE Fine(y, q, z[u].root, u, ap, Remaining(W, z[u].stage))
  <2>1. u \in HeldIn(sp) /\ u # s /\ z[u] = sp[u]
    BY <1>2
  <2>2. Fine(m, o, z[u].root, u, ap, Remaining(W, z[u].stage))
    BY <2>1 DEF Almost
  <2>3. z[u].root \in Frame /\ z[u].root # r
    <3>1. sp[u].root \in Frame
      BY <2>1, RootIs
    <3> QED BY <1>1, <2>1, <3>1
  <2>4. y.asked[z[u].root] = m.asked[z[u].root]
    BY <1>4, <2>3
  <2> QED BY <1>0, <2>2, <2>3, <2>4, FineReleased
<1>10. c # 0 => c \in U \cup L /\ y.bytes[c] = {}
  BY <1>0 DEF Almost
<1>11. Sane(y, q, k, c, P, U \cup L, ap, W, z)
  BY <1>0, <1>2, <1>6, <1>7, <1>8, <1>9, <1>10 DEF Sane
<1> QED BY <1>2, <1>11 DEF After

(* A space is torn down. *)
LEMMA SaneDestroy ==
  ASSUME NEW m, NEW o, NEW k \in Frame, NEW c \in Frame, c # 0, NEW P, P \subseteq Frame, NEW U,
         NEW ap, ap = TRUE \/ ap = FALSE, NEW W, NEW sp, Sane(m, o, k, c, P, U, ap, W, sp), Rooting(sp, k),
         NEW s \in HeldIn(sp), NEW b, b = {c}, NEW y, y = destroy(m, sp[s].root, b),
         NEW z, Becomes(sp, z, s, NoSpace)
  PROVE  After(y, k, c, P, U, ap, W, z)
<1> DEFINE Rs == RootsIn(k, sp)
           r == sp[s].root
           q == Released(o, r)
<1>1. r \in Rs /\ r \in Frame /\ r # k /\ \A u \in HeldIn(sp) : u # s => sp[u].root # r
  BY RootIs
<1>2. /\ HeldIn(z) = HeldIn(sp) \ {s} /\ RootsIn(k, z) = Rs \ {r}
      /\ Rooting(z, k) /\ \A u \in HeldIn(z) : z[u] = sp[u]
  <2>1. z = [sp EXCEPT ![s] = NoSpace]
    BY DEF Becomes
  <2>2. Gone(sp, k, s, z)
    BY <2>1, GoneRoots
  <2> QED BY <2>2 DEF Gone
<1>3. Kept(m, o, Rs, k, c) /\ Account(m, o, k, P, U, ap) /\ ~Failed(m) /\ c \in U
      /\ Blank(m, Rs) /\ m.bytes[c] = {}
  BY DEF Sane
<1>4. Fine(m, o, r, s, ap, Remaining(W, sp[s].stage))
  BY DEF Sane
<1>5. y = destroy(m, r, {c})
  OBVIOUS
<1> HIDE DEF r, Rs
<1>6. k \in Rs
  BY DEF RootsIn, Rs
<1>7. Returned(m, o, y, Rs, k, c, r)
  BY <1>1, <1>3, <1>5, <1>6, DestroyIs
<1>8. Kept(y, q, Rs \ {r}, k, c) /\ y.bytes = m.bytes /\ ~Failed(y)
      /\ \A t \in Frame : y.asked[t] = IF t = r THEN <<>> ELSE m.asked[t]
  BY <1>3, <1>7 DEF Returned, Failed
<1>9. Account(y, q, k, P, U, ap)
  <2>1. o.R[c] # r
    BY <1>1, <1>3 DEF Account, Frame, Nobody
  <2>2. ap => Placed(m, o, r)
    BY <1>4 DEF Fine
  <2> QED BY <1>1, <1>3, <1>7, <2>1, <2>2, AccountReturned
<1>10. Blank(y, Rs \ {r})
  <2>1. \A v : Asked(<<>>, v) = Unmapped
    BY DEF Asked
  <2> QED BY <1>3, <1>8, <2>1 DEF Blank
<1>11. ASSUME NEW u \in HeldIn(z) PROVE Fine(y, q, z[u].root, u, ap, Remaining(W, z[u].stage))
  <2>1. u \in HeldIn(sp) /\ u # s /\ z[u] = sp[u]
    BY <1>2
  <2>2. Fine(m, o, z[u].root, u, ap, Remaining(W, z[u].stage))
    BY <2>1 DEF Sane
  <2>3. z[u].root \in Frame /\ z[u].root # r
    <3>1. sp[u].root \in Frame
      BY <2>1, RootIs
    <3> QED BY <1>1, <2>1, <3>1
  <2>4. y.asked[z[u].root] = m.asked[z[u].root]
    BY <1>8, <2>3
  <2> QED BY <1>8, <2>2, <2>3, <2>4, FineReleased
<1>12. Sane(y, q, k, c, P, U, ap, W, z)
  BY <1>2, <1>3, <1>8, <1>9, <1>10, <1>11 DEF Sane
<1> QED BY <1>2, <1>12 DEF After

(* What a failed build leaves is what the tree owned. *)
LEMMA LostIs ==
  ASSUME NEW m, NEW o, NEW k \in Frame, clock \in Frame, clock # 0, NEW P, P \subseteq Frame, NEW U,
         NEW ap, ap = TRUE \/ ap = FALSE, NEW W, NEW sp,
         Sane(m, o, k, clock, P, U, ap, W, sp), Rooting(sp, k),
         NEW s \in HeldIn(sp), NEW x, NEW q, NEW V,
         Worked(m, o, x, q, k, clock, ap, sp, s, V), Pending(ap, W, V, sp, s)
  PROVE  Loses(q, sp[s].root, (m.pool \ x.pool) \cup OwnedBy(x, sp[s].root), ap)
<1>0. /\ Works(m, o, x, q, RootsIn(k, sp), k, clock, sp[s].root, s, V)
      /\ ap => Builds(m, o, x, q, RootsIn(k, sp), k, clock, sp[s].root, s, V)
      /\ ap => V \subseteq Remaining(W, sp[s].stage)
  BY DEF Worked, Pending
<1> DEFINE Rs == RootsIn(k, sp)
           r == sp[s].root
           L == (m.pool \ x.pool) \cup OwnedBy(x, r)
<1>1. r \in Rs /\ r \in Frame /\ r # k /\ r # Nobody /\ k \in Rs
  BY RootIs DEF RootsIn, Frame, Nobody
<1>2. Fine(m, o, r, s, ap, Remaining(W, sp[s].stage))
  BY DEF Sane
<1>3. /\ Works(m, o, x, q, Rs, k, clock, r, s, V) /\ (ap => V \subseteq Remaining(W, sp[s].stage))
      /\ Shape(m, o, AskedFn(m), Rs, k, clock) /\ clock \in U
  BY <1>0 DEF Sane, Kept
<1>4. Almost(x, q, k, clock, P, U, ap, W, sp, s)
  BY <1>0, WorkedOn
<1> HIDE DEF r, Rs
<1>5. Shape(x, q, AskedFn(x), Rs, k, clock) /\ Account(x, q, k, P, U, ap)
  BY <1>4 DEF Almost, Kept, Rs
<1>6. OwnedBy(x, r) \subseteq Owned(q, r)
  BY <1>1, <1>5, OwnedWithin
<1>7. m.pool \ x.pool \subseteq Owned(q, r)
  BY <1>3 DEF Works, Owned, Shape, IsMem
<1>8. ASSUME ap, NEW f \in Owned(q, r) PROVE f \in L
  <2>1. f \in Frame /\ q.R[f] = r /\ Owners(q, Rs) /\ q.R[clock] # r
    BY <1>1, <1>3, <1>5 DEF Owned, Shape, Account
  <2>2. q.L[f] \in -1 .. 3
    BY <1>1, <2>1 DEF Owners
  <2> DEFINE w == AskedFn(x)
  <2>3. Shape(x, q, w, Rs, k, clock)
    BY <1>5
  <2> HIDE DEF w
  <2>4. /\ OwnTables(q, r) \subseteq OwnedBy(x, r)
        /\ \A g \in Owned(q, r) : \A v \in Page :
             v < USER_LIMIT /\ w[r][v].mapped /\ w[r][v].phys = g => g \in OwnedBy(x, r)
    BY <1>1, <2>1, <2>3, OwnedReached
  <2>5. CASE q.L[f] >= 0
    BY <2>1, <2>4, <2>5 DEF OwnTables
  <2>6. CASE q.L[f] = -1 /\ o.R[f] = Nobody
    BY <1>1, <1>3, <2>1, <2>6 DEF Works
  <2>7. CASE q.L[f] = -1 /\ o.R[f] # Nobody
    <3>1. o.R[f] = r /\ o.L[f] = -1 /\ o.B[f] = q.B[f]
      BY <1>3, <2>1, <2>7 DEF Works, Keeps
    <3>2. PICK v : v = o.B[f]
      OBVIOUS
    <3>3. /\ v \in Page /\ v < USER_LIMIT
          /\ Asked(m.asked[r], v).mapped /\ Asked(m.asked[r], v).phys = f
      BY <1>2, <1>8, <2>1, <3>1, <3>2 DEF Fine, Placed
    <3>4. v \notin V
      BY <1>2, <1>3, <1>8, <3>3 DEF Fine, Vacant
    <3>5. Asked(x.asked[r], v) = Asked(m.asked[r], v)
      BY <1>1, <1>3, <3>3, <3>4 DEF Works
    <3>6. w[r][v] = Asked(x.asked[r], v)
      BY <1>1, <3>3 DEF AskedFn, w
    <3> QED BY <2>4, <3>3, <3>5, <3>6
  <2> QED BY <2>2, <2>5, <2>6, <2>7
<1>9. L \subseteq Owned(q, r) /\ (ap => Owned(q, r) \subseteq L)
  <2> HIDE DEF L
  <2>1. L \subseteq Owned(q, r)
    BY <1>6, <1>7 DEF L
  <2> QED BY <1>8, <2>1
<1>10. Loses(q, r, L, ap)
  BY <1>9 DEF Loses
<1> QED BY <1>10 DEF L, r

-----------------------------------------------------------------------------
(* A space is begun.                                                        *)

(* All stays well with a memory that differs in no frame.                   *)
LEMMA SaneAlike ==
  ASSUME NEW m, NEW o, NEW k, NEW c, NEW P, NEW U, NEW ap \in BOOLEAN, NEW W, NEW sp,
         Sane(m, o, k, c, P, U, ap, W, sp), NEW y, IsMem(y), y.table = m.table,
         y.bytes = m.bytes, y.pool = m.pool, y.inUse = m.inUse, y.asked = m.asked, ~Failed(y),
         NEW z, HeldIn(z) = HeldIn(sp), RootsIn(k, z) = RootsIn(k, sp),
         \A u \in HeldIn(sp) : /\ z[u].root = sp[u].root
                               /\ Remaining(W, z[u].stage) \subseteq Remaining(W, sp[u].stage)
  PROVE  Sane(y, o, k, c, P, U, ap, W, z)
<1> DEFINE Rs == RootsIn(k, sp)
<1>1. Kept(m, o, Rs, k, c) /\ Account(m, o, k, P, U, ap) /\ Blank(m, Rs)
  BY DEF Sane
<1>2. RootsIn(k, z) = Rs
  OBVIOUS
<1> HIDE DEF Rs
<1>3. Kept(y, o, Rs, k, c)
  BY <1>1, KeptCopied
<1>4. Account(y, o, k, P, U, ap) /\ Blank(y, Rs)
  BY <1>1 DEF Account, Ledger, Blank
<1>5. ASSUME NEW u \in HeldIn(z) PROVE Fine(y, o, z[u].root, u, ap, Remaining(W, z[u].stage))
  <2>1. Fine(m, o, sp[u].root, u, ap, Remaining(W, sp[u].stage))
    BY DEF Sane
  <2>2. z[u].root = sp[u].root /\ Remaining(W, z[u].stage) \subseteq Remaining(W, sp[u].stage)
    OBVIOUS
  <2>3. PICK r, A, B : r = sp[u].root /\ A = Remaining(W, sp[u].stage) /\ B = Remaining(W, z[u].stage)
    OBVIOUS
  <2>4. Fine(m, o, r, u, ap, A) /\ B \subseteq A
    BY <2>1, <2>2, <2>3
  <2>5. Fine(m, o, r, u, ap, B)
    BY <2>4 DEF Fine, Vacant
  <2>6. Fine(y, o, r, u, ap, B)
    BY <2>5, FineCopied
  <2> QED BY <2>2, <2>3, <2>6
<1>6. c # 0 => c \in U /\ y.bytes[c] = {}
  BY DEF Sane
<1> QED BY <1>2, <1>3, <1>4, <1>5, <1>6 DEF Sane

Untouched(m, x) ==
  x.table = m.table /\ x.bytes = m.bytes /\ x.pool = m.pool /\ x.inUse = m.inUse

(* From m to x the lowest free frame became a root with the kernel's half. *)
Roots(m, x, k) ==
  /\ IsMem(x) /\ x.asked = m.asked
  /\ Failed(x) => Untouched(m, x)
  /\ ~Failed(x) =>
       /\ x.got \in m.pool /\ x.pool = m.pool \ {x.got} /\ x.inUse = m.inUse + 1
       /\ \A g \in Frame : g # x.got => x.table[g] = m.table[g] /\ x.bytes[g] = m.bytes[g]
       /\ \A i \in Slot : x.table[x.got][i] = IF i >= KernelFirst THEN m.table[k][i] ELSE Empty

(* A root's upper half is copied. *)
LEMMA HalfIs ==
  ASSUME NEW m, IsMem(m), ~Failed(m), m.got \in Frame, kroot \in Frame, m.got # kroot
  PROVE  LET x == WithKernelHalf(m)
         IN  /\ IsMem(x) /\ ~Failed(x) /\ x.asked = m.asked /\ x.got = m.got /\ x.pool = m.pool
             /\ x.inUse = m.inUse /\ x.bytes = m.bytes
             /\ \A g \in Frame : g # m.got => x.table[g] = m.table[g]
             /\ \A i \in Slot : x.table[m.got][i] =
                  IF i >= KernelFirst THEN m.table[kroot][i] ELSE m.table[m.got][i]
<1> DEFINE h == [i \in Slot |-> IF i >= KernelFirst THEN m.table[kroot][i] ELSE m.table[m.got][i]]
           A == [m.table EXCEPT ![m.got] = h]
           y == [table |-> A, bytes |-> m.bytes, pool |-> m.pool, inUse |-> m.inUse,
                 got |-> m.got, err |-> m.err, asked |-> m.asked]
           x == WithKernelHalf(m)
<1>1. x = y
  <2>1. x = [m EXCEPT !.table[m.got] = h]
    BY Zenon DEF WithKernelHalf
  <2>2. x = [m EXCEPT !.table = A]
    BY <2>1, Zenon
  <2>3. m = [table |-> m.table, bytes |-> m.bytes, pool |-> m.pool, inUse |-> m.inUse,
             got |-> m.got, err |-> m.err, asked |-> m.asked]
    BY DEF IsMem
  <2> HIDE DEF A, x, h
  <2> QED BY <2>2, <2>3
<1>2. /\ h \in [Slot -> EntryT]
      /\ \A i \in Slot : h[i] = IF i >= KernelFirst THEN m.table[kroot][i] ELSE m.table[m.got][i]
  BY DEF IsMem
<1> HIDE DEF h
<1>3. /\ A \in [Frame -> [Slot -> EntryT]] /\ A[m.got] = h
      /\ \A g \in Frame : g # m.got => A[g] = m.table[g]
  BY <1>2 DEF IsMem
<1> HIDE DEF A
<1>4. IsMem(y)
  BY <1>3 DEF IsMem
<1> HIDE DEF x
<1>5. /\ IsMem(x) /\ x.table = A /\ x.err = m.err /\ x.asked = m.asked /\ x.got = m.got
      /\ x.pool = m.pool /\ x.inUse = m.inUse /\ x.bytes = m.bytes
  BY <1>1, <1>4
<1>6. /\ IsMem(x) /\ ~Failed(x) /\ x.asked = m.asked /\ x.got = m.got /\ x.pool = m.pool
      /\ x.inUse = m.inUse /\ x.bytes = m.bytes
      /\ \A g \in Frame : g # m.got => x.table[g] = m.table[g]
      /\ \A i \in Slot : x.table[m.got][i] =
           IF i >= KernelFirst THEN m.table[kroot][i] ELSE m.table[m.got][i]
  BY <1>2, <1>3, <1>5 DEF Failed
<1> QED BY <1>6 DEF x

(* A new root is empty but for the kernel's half. *)
LEMMA NewIs ==
  ASSUME NEW m, IsMem(m), ~Failed(m), kroot \in Frame \ m.pool
  PROVE  Roots(m, new(m), kroot)
<1> DEFINE m1 == alloc_frame(m)
           m2 == Zeroed(m1, {Kernel})
           x == new(m)
<1>1. x = WithKernelHalf(m2)
  BY Zenon DEF new
<1>2. /\ IsMem(m1) /\ m1.table = m.table /\ m1.bytes = m.bytes /\ m1.asked = m.asked
      /\ \/ Failed(m1) /\ m1.pool = m.pool /\ m1.inUse = m.inUse
         \/ /\ ~Failed(m1) /\ m1.got \in m.pool /\ m1.pool = m.pool \ {m1.got}
            /\ m1.inUse = m.inUse + 1
  BY AllocOne
<1> HIDE DEF m1
<1>3. CASE Failed(m1)
  <2>1. m2 = m1
    BY <1>3 DEF Zeroed
  <2> HIDE DEF m2, x
  <2>2. x = m1
    BY <1>1, <1>3, <2>1 DEF WithKernelHalf
  <2>3. Roots(m, x, kroot)
    BY <1>2, <1>3, <2>2 DEF Roots, Untouched
  <2> QED BY <2>3 DEF x
<1>4. CASE ~Failed(m1)
  <2>1. /\ IsMem(m2) /\ ~Failed(m2) /\ m2.pool = m1.pool /\ m2.inUse = m1.inUse /\ m2.got = m1.got
        /\ m2.asked = m1.asked
        /\ m2.table = [m1.table EXCEPT ![m1.got] = EmptyTable]
        /\ m2.bytes = [m1.bytes EXCEPT ![m1.got] = {Kernel}]
    BY <1>2, <1>4, ZeroedIs
  <2> HIDE DEF m2, x
  <2>2. m1.got \in Frame /\ m1.got # kroot
    BY <1>2, <1>4 DEF IsMem
  <2>3. /\ IsMem(x) /\ ~Failed(x) /\ x.asked = m2.asked /\ x.got = m2.got /\ x.pool = m2.pool
        /\ x.inUse = m2.inUse /\ x.bytes = m2.bytes
        /\ \A g \in Frame : g # m2.got => x.table[g] = m2.table[g]
        /\ \A i \in Slot : x.table[m2.got][i] =
             IF i >= KernelFirst THEN m2.table[kroot][i] ELSE m2.table[m2.got][i]
    BY <1>1, <2>1, <2>2, HalfIs
  <2>4. /\ \A g \in Frame : g # m1.got => m2.table[g] = m.table[g] /\ m2.bytes[g] = m.bytes[g]
        /\ \A i \in Slot : m2.table[m1.got][i] = Empty
    <3>1. m.bytes = [f \in Frame |-> m.bytes[f]] /\ m.table \in [Frame -> [Slot -> EntryT]]
      BY DEF IsMem
    <3>2. \A i \in Slot : EmptyTable[i] = Empty
      BY DEF EmptyTable
    <3> QED BY <1>2, <2>1, <2>2, <3>1, <3>2
  <2>5. Roots(m, x, kroot)
    BY <1>2, <1>4, <2>1, <2>2, <2>3, <2>4 DEF Roots
  <2> QED BY <2>5 DEF x
<1> QED BY <1>3, <1>4

(* A frame of the pool becomes the root of a tree. *)
LEMMA AccountRoot ==
  ASSUME NEW m, NEW o, NEW x, NEW k \in Frame, NEW P, NEW U,
         NEW ap, ap = TRUE \/ ap = FALSE, P \subseteq Frame,
         PoolFree(m, o), IsMem(m), IsOwn(o), k \notin m.pool, Account(m, o, k, P, U, ap),
         NEW f \in m.pool, x.pool = m.pool \ {f}, Ledger(x) = Ledger(m)
  PROVE  Account(x, Owning(o, f, f, 3, 0), k, P, U, ap)
<1> DEFINE q == Owning(o, f, f, 3, 0)
<1>1. f \in Frame /\ f # Nobody /\ f # k /\ f \notin U
  BY DEF Account, IsMem, Frame, Nobody
<1>2. \A g \in Frame : g # f => q.R[g] = o.R[g] /\ q.L[g] = o.L[g]
  BY DEF IsOwn, Owning
<1>3. q.R[f] = f
  BY <1>1 DEF IsOwn, Owning
<1> HIDE DEF q
<1>4. \A g \in U : g \in Frame /\ g \notin x.pool /\ q.R[g] = Nobody
  BY <1>1, <1>2 DEF Account
<1>5. x.pool \subseteq P /\ \A g \in Frame : q.R[g] # Nobody => g \in P
  BY <1>2 DEF Account
<1>6. \A g \in Frame : q.R[g] = k => q.L[g] >= 0
  BY <1>1, <1>2, <1>3 DEF Account
<1>7. ap => /\ Ledger(x) = Cardinality(P)
            /\ \A g \in P : g \in x.pool \/ q.R[g] # Nobody \/ g \in U
  BY <1>1, <1>2, <1>3 DEF Account
<1>8. Account(x, q, k, P, U, ap)
  BY <1>4, <1>5, <1>6, <1>7 DEF Account
<1> QED BY <1>8 DEF q

Joined(sp, k, s, f, z) ==
  /\ HeldIn(z) = HeldIn(sp) \cup {s} /\ RootsIn(k, z) = RootsIn(k, sp) \cup {f}
  /\ Rooting(z, k) /\ z[s].root = f /\ z[s].stage = "new" /\ \A u \in HeldIn(sp) : z[u] = sp[u]

(* A space comes, and its root with it. *)
LEMMA JoinedRoots ==
  ASSUME NEW sp, NEW k \in Frame, Rooting(sp, k), NEW s \in Space, sp[s].stage = "none",
         NEW f \in Frame, f \notin RootsIn(k, sp)
  PROVE  Joined(sp, k, s, f, [sp EXCEPT ![s] = [stage |-> "new", root |-> f, borrowed |-> {}]])
<1> DEFINE n == [stage |-> "new", root |-> f, borrowed |-> {}]
           z == [sp EXCEPT ![s] = n]
<1>1. sp \in [Space -> SpaceT]
  BY DEF Rooting
<1>2. n \in SpaceT /\ n.stage = "new" /\ n.root = f
  BY DEF SpaceT, Stages
<1> HIDE DEF n
<1>3. z \in [Space -> SpaceT] /\ z[s] = n /\ \A u \in Space : u # s => z[u] = sp[u]
  BY <1>1, <1>2
<1> HIDE DEF z
<1>4. HeldIn(z) = HeldIn(sp) \cup {s} /\ s \notin HeldIn(sp)
  BY <1>2, <1>3 DEF HeldIn
<1>5. \A u \in HeldIn(sp) : z[u] = sp[u]
  BY <1>3, <1>4 DEF HeldIn
<1>6. RootsIn(k, z) = RootsIn(k, sp) \cup {f}
  BY <1>2, <1>3, <1>4, <1>5 DEF RootsIn
<1>7. f # k /\ \A u \in HeldIn(sp) : sp[u].root # f
  BY DEF RootsIn
<1>8. Rooting(z, k)
  BY <1>2, <1>3, <1>4, <1>5, <1>7 DEF Rooting
<1> QED BY <1>2, <1>3, <1>4, <1>5, <1>6, <1>8 DEF z, n, Joined

(* A tree hangs beside the new root as it did. *)
LEMMA FineBeside ==
  ASSUME NEW m, NEW o, IsOwn(o), NEW f \in Frame, o.R[f] = Nobody, NEW x,
         \A g \in Frame : g # f => x.bytes[g] = m.bytes[g], x.asked = m.asked,
         NEW t \in Frame, t # f, NEW u, NEW ap, NEW W, Fine(m, o, t, u, ap, W)
  PROVE  Fine(x, Owning(o, f, f, 3, 0), t, u, ap, W)
<1> DEFINE q == Owning(o, f, f, 3, 0)
<1>1. \A g \in Frame : g # f => q.R[g] = o.R[g] /\ q.L[g] = o.L[g] /\ q.B[g] = o.B[g]
  BY DEF IsOwn, Owning
<1>2. q.R[f] = f
  BY DEF IsOwn, Owning
<1> HIDE DEF q
<1>3. \A g \in Frame : q.R[g] = t => g # f
  BY <1>2
<1>4. Fine(x, q, t, u, ap, W)
  BY <1>1, <1>3 DEF Fine, TreeOK, Placed, Vacant
<1> QED BY <1>4 DEF q

(* A space begins. *)
LEMMA SaneBegin ==
  ASSUME NEW m, NEW o, NEW k \in Frame, NEW c \in Frame, NEW P, P \subseteq Frame, NEW U,
         NEW ap, ap = TRUE \/ ap = FALSE, NEW W, NEW sp, Sane(m, o, k, c, P, U, ap, W, sp), Rooting(sp, k),
         NEW s \in Space, sp[s].stage = "none", NEW x, Roots(m, x, k), ~Failed(x),
         NEW y, y = Settled(x), NEW w, w = [stage |-> "new", root |-> x.got, borrowed |-> {}],
         NEW z, Becomes(sp, z, s, w)
  PROVE  After(y, k, c, P, U, ap, W, z)
<1> DEFINE Rs == RootsIn(k, sp)
           q == Owning(o, x.got, x.got, 3, 0)
<1>1. /\ Kept(m, o, Rs, k, c) /\ Account(m, o, k, P, U, ap) /\ Blank(m, Rs) /\ ~Failed(m)
      /\ c # 0 => c \in U /\ m.bytes[c] = {}
  BY DEF Sane
<1>2. k \in Rs
  BY DEF RootsIn
<1> HIDE DEF Rs
<1>3. /\ Shape(m, o, AskedFn(m), Rs, k, c) /\ IsMem(m) /\ IsOwn(o) /\ PoolFree(m, o)
      /\ RootsOwn(o, Rs) /\ Rs \subseteq Frame
  BY <1>1 DEF Kept, Shape
<1>4. PICK f : f = x.got
  OBVIOUS
<1>5. /\ IsMem(x) /\ x.asked = m.asked /\ f \in m.pool /\ x.pool = m.pool \ {f}
      /\ x.inUse = m.inUse + 1
      /\ \A g \in Frame : g # f => x.table[g] = m.table[g] /\ x.bytes[g] = m.bytes[g]
      /\ \A i \in Slot : x.table[f][i] = IF i >= KernelFirst THEN m.table[k][i] ELSE Empty
  BY <1>4 DEF Roots
<1>6. f \in Frame /\ o.R[f] = Nobody /\ f \notin Rs /\ f # k /\ f # Nobody /\ k \notin m.pool
  <2>1. f \in Frame /\ o.R[f] = Nobody
    BY <1>3, <1>5 DEF PoolFree, IsMem
  <2>2. f # Nobody
    BY <2>1 DEF Frame, Nobody
  <2>3. f \notin Rs
    BY <1>3, <2>1, <2>2 DEF RootsOwn
  <2>4. k \notin m.pool
    BY <1>2, <1>3 DEF RootsOwn, PoolFree, Frame, Nobody
  <2> QED BY <1>2, <2>1, <2>2, <2>3, <2>4
<1>7. q = Owning(o, f, f, 3, 0)
  BY <1>4
<1> HIDE DEF q
<1>8. /\ HeldIn(z) = HeldIn(sp) \cup {s} /\ RootsIn(k, z) = Rs \cup {f}
      /\ Rooting(z, k) /\ z[s].root = f /\ z[s].stage = "new" /\ \A u \in HeldIn(sp) : z[u] = sp[u]
  <2>1. z = [sp EXCEPT ![s] = [stage |-> "new", root |-> f, borrowed |-> {}]]
    BY <1>4 DEF Becomes
  <2>2. Joined(sp, k, s, f, [sp EXCEPT ![s] = [stage |-> "new", root |-> f, borrowed |-> {}]])
    BY <1>6, JoinedRoots DEF Rs
  <2> QED BY <2>1, <2>2 DEF Joined, Rs
<1>9. /\ IsMem(y) /\ y.table = x.table /\ y.bytes = x.bytes /\ y.pool = x.pool
      /\ y.inUse = x.inUse /\ y.asked = x.asked /\ ~Failed(y)
  BY <1>5, SettledIs
<1>10. Ledger(y) = Ledger(m)
  <2>1. y.pool = m.pool \ {f} /\ y.inUse = m.inUse + 1
    BY <1>5, <1>9
  <2> QED BY <1>3, <1>5, <1>9, <2>1, LedgerTake
<1>11. \A v \in Page : Asked(m.asked[f], v) = Unmapped
  BY <1>1, <1>6 DEF Blank
<1>12. Kept(y, q, Rs \cup {f}, k, c)
  <2> DEFINE a == AskedFn(m)
  <2>1. \A v \in Page : a[f][v] = Unmapped
    BY <1>6, <1>11 DEF AskedFn
  <2>2. Shape(m, o, a, Rs, k, c)
    BY <1>3
  <2>3. AskedFn(y) = a
    <3>1. y.asked = m.asked
      BY <1>5, <1>9
    <3> QED BY <3>1, Zenon DEF AskedFn
  <2> HIDE DEF a
  <2>4. /\ y.pool = m.pool \ {f} /\ \A g \in Frame : g # f => y.table[g] = m.table[g]
        /\ \A i \in Slot : y.table[f][i] = IF i >= KernelFirst THEN m.table[k][i] ELSE Empty
    BY <1>5, <1>9
  <2>5. Shape(y, Owning(o, f, f, 3, 0), a, Rs \cup {f}, k, c)
    BY <1>2, <1>5, <1>9, <2>1, <2>2, <2>4, NewTree
  <2> QED BY <1>7, <2>3, <2>5 DEF Kept
<1>13. Account(y, q, k, P, U, ap)
  <2>1. y.pool = m.pool \ {f}
    BY <1>5, <1>9
  <2> QED BY <1>1, <1>3, <1>5, <1>6, <1>7, <1>10, <2>1, AccountRoot
<1>14. Blank(y, Rs \cup {f})
  BY <1>1, <1>5, <1>9 DEF Blank
<1>15. ASSUME NEW u \in HeldIn(z) PROVE Fine(y, q, z[u].root, u, ap, Remaining(W, z[u].stage))
  <2>1. CASE u = s
    <3> DEFINE V == Remaining(W, z[u].stage)
    <3>1. \A g \in Frame : q.R[g] = f => q.L[g] # -1
      <4>1. \A g \in Frame : g # f => q.R[g] = o.R[g]
        BY <1>3, <1>7 DEF IsOwn, Owning
      <4>2. q.L[f] = 3
        BY <1>3, <1>6, <1>7 DEF IsOwn, Owning
      <4>3. \A g \in Frame : o.R[g] # f
        BY <1>3, <1>6 DEF Shape, Owners
      <4> QED BY <4>1, <4>2, <4>3
    <3>2. \A v \in Page : Asked(y.asked[f], v) = Unmapped
      BY <1>5, <1>9, <1>11
    <3>3. ~Unmapped.mapped /\ ~is_wx(Unmapped.rights)
      BY DEF Unmapped, is_wx, RO
    <3> HIDE DEF V
    <3>4. TreeOK(y, q, f, u)
      BY <3>1, <3>2, <3>3 DEF TreeOK
    <3>5. Placed(y, q, f)
      BY <3>1 DEF Placed
    <3>6. Vacant(y, f, V)
      BY <3>2, <3>3 DEF Vacant
    <3>7. Fine(y, q, f, u, ap, V)
      BY <3>4, <3>5, <3>6 DEF Fine
    <3> QED BY <1>8, <2>1, <3>7 DEF V
  <2>2. CASE u # s
    <3>1. u \in HeldIn(sp) /\ z[u] = sp[u]
      BY <1>8, <2>2
    <3>2. PICK t, V : t = sp[u].root /\ V = Remaining(W, sp[u].stage)
      OBVIOUS
    <3>3. Fine(m, o, t, u, ap, V)
      BY <3>1, <3>2 DEF Sane
    <3>4. t \in Frame /\ t # f
      <4>1. sp[u].root \in RootsIn(k, sp) /\ sp[u].root \in Frame
        BY <3>1, RootIs
      <4> QED BY <1>6, <3>2, <4>1 DEF Rs
    <3>5. y.asked = m.asked /\ \A g \in Frame : g # f => y.bytes[g] = m.bytes[g]
      BY <1>5, <1>9
    <3>6. Fine(y, Owning(o, f, f, 3, 0), t, u, ap, V)
      BY <1>3, <1>6, <3>3, <3>4, <3>5, FineBeside
    <3> QED BY <1>7, <3>1, <3>2, <3>6
  <2> QED BY <2>1, <2>2
<1>16. c # 0 => c \in U /\ y.bytes[c] = {}
  <2> SUFFICES ASSUME c # 0 PROVE c \in U /\ y.bytes[c] = {}
    OBVIOUS
  <2>1. c \in U /\ m.bytes[c] = {} /\ c \notin m.pool
    BY <1>1 DEF Account
  <2> QED BY <1>5, <1>9, <2>1
<1>17. Sane(y, q, k, c, P, U, ap, W, z)
  BY <1>8, <1>9, <1>12, <1>13, <1>14, <1>15, <1>16 DEF Sane
<1> QED BY <1>8, <1>17 DEF After

(* From m to y nothing changes but that nothing is asked of tree r. *)
Lets(m, y, r) ==
  /\ IsMem(y) /\ y.table = m.table /\ Untouched(m, y) /\ y.err = m.err
  /\ \A t \in Frame : y.asked[t] = IF t = r THEN <<>> ELSE m.asked[t]

(* A tree is forgotten. *)
LEMMA LetsGo ==
  ASSUME NEW m, IsMem(m), NEW r \in Frame
  PROVE  Lets(m, [m EXCEPT !.asked[r] = <<>>], r)
<1> DEFINE A == [m.asked EXCEPT ![r] = <<>>]
           y == [table |-> m.table, bytes |-> m.bytes, pool |-> m.pool, inUse |-> m.inUse,
                 got |-> m.got, err |-> m.err, asked |-> A]
           x == [m EXCEPT !.asked[r] = <<>>]
<1>1. m.asked = [f \in Frame |-> m.asked[f]]
  BY DEF IsMem
<1>2. A = [f \in Frame |-> A[f]] /\ \A t \in Frame : A[t] = IF t = r THEN <<>> ELSE m.asked[t]
  BY <1>1
<1>3. x = [m EXCEPT !.asked = A]
  BY Zenon DEF A
<1> HIDE DEF A, x
<1>4. m = [table |-> m.table, bytes |-> m.bytes, pool |-> m.pool, inUse |-> m.inUse,
           got |-> m.got, err |-> m.err, asked |-> m.asked]
  BY DEF IsMem
<1>5. x = y
  BY <1>3, <1>4
<1>6. IsMem(y)
  BY <1>2 DEF IsMem
<1>7. /\ IsMem(x) /\ x.table = m.table /\ x.bytes = m.bytes /\ x.pool = m.pool
      /\ x.inUse = m.inUse /\ x.err = m.err /\ x.asked = A
  BY <1>5, <1>6
<1>8. Lets(m, x, r)
  BY <1>2, <1>7 DEF Lets, Untouched
<1> QED BY <1>8 DEF x

-----------------------------------------------------------------------------
(* Where things are. *)

(* A table covers Fan pages and more with each level. *)
LEMMA Larger ==
  /\ level_size(1) = Fan /\ level_size(2) >= 4 * level_size(1) /\ level_size(3) >= 4 * level_size(2)
  /\ level_size(4) = Fan * level_size(3)
<1> DEFINE a == level_size(1)
           b == level_size(2)
<1>1. /\ level_size(0) = 1 /\ level_size(0 + 1) = level_size(0) * Fan
      /\ level_size(1 + 1) = a * Fan /\ level_size(2 + 1) = b * Fan
      /\ level_size(3 + 1) = level_size(3) * Fan
      /\ a \in Nat \ {0} /\ b \in Nat \ {0} /\ level_size(3) \in Nat \ {0}
  BY Sizes
<1>2. Fan \in Nat /\ Fan >= 4
  BY Numbers
<1>3. a = Fan /\ b = a * Fan /\ level_size(3) = b * Fan
  BY <1>1, <1>2
<1> HIDE DEF a, b
<1>4. \A n \in Nat : n * Fan >= 4 * n
  BY <1>2
<1>5. b >= 4 * a /\ level_size(3) >= 4 * b
  BY <1>1, <1>3, <1>4
<1>6. level_size(4) = Fan * level_size(3)
  BY <1>1, <1>2
<1> QED BY <1>3, <1>5, <1>6 DEF a, b

(* A page below the first table's end is one of a program. *)
LEMMA LowPage ==
  ASSUME NEW v \in Nat, v < level_size(3)
  PROVE  v \in Page /\ v < USER_LIMIT
<1> DEFINE S == level_size(3)
<1>1. S \in Nat \ {0} /\ level_size(4) = Fan * S /\ KernelFirst \in Nat /\ 1 <= KernelFirst
      /\ Fan \in Nat /\ Fan >= 4 /\ level_size(4) \in Nat
  BY Sizes, Larger, Numbers
<1> HIDE DEF S
<1>2. 1 * S <= KernelFirst * S /\ 1 * S <= Fan * S
  BY <1>1, Multiples
<1>3. KernelFirst * S \in Nat /\ Fan * S \in Nat
  BY <1>1
<1>4. v < KernelFirst * S /\ v < Fan * S
  BY <1>1, <1>2, <1>3 DEF S
<1> QED BY <1>1, <1>4 DEF Page, USER_LIMIT, Top, S

(* The pages given to every program, and those the boot borrows below the limit. *)
LEMMA UserPages ==
  /\ USER_STACK \in Page /\ USER_STACK < USER_LIMIT
  /\ USER_DATA_VA \in Page /\ USER_DATA_VA < USER_LIMIT
  /\ USER_CLOCK_VA \in Page /\ USER_CLOCK_VA < USER_LIMIT
  /\ USER_STACK # USER_DATA_VA /\ USER_STACK # USER_CLOCK_VA /\ USER_DATA_VA # USER_CLOCK_VA
  /\ SMAP_TEST_ADDR \in Page /\ SMAP_TEST_ADDR < USER_LIMIT
  /\ TRAMPOLINE_PHYS \in Page /\ TRAMPOLINE_PHYS < USER_LIMIT
<1> DEFINE b == level_size(2)
           a == level_size(1)
           d == level_size(3)
<1>1. a \in Nat /\ b \in Nat /\ a >= 4 /\ b >= 4 * a /\ d >= 4 * b /\ d \in Nat
  BY Larger, Numbers, SizeNat
<1>2. USER_STACK = 2 * b - 1 /\ USER_DATA_VA = 2 * b /\ USER_CLOCK_VA = 2 * b + 1
      /\ SMAP_TEST_ADDR = 3 * a /\ TRAMPOLINE_PHYS \in Nat /\ TRAMPOLINE_PHYS < d
  <2>1. TRAMPOLINE_PHYS \in Nat /\ TRAMPOLINE_PHYS < d
    BY TrampolineAssumption, Numbers DEF ImagePages, Top
  <2> QED BY <2>1 DEF USER_STACK, USER_DATA_VA, USER_CLOCK_VA, SMAP_TEST_ADDR
<1> HIDE DEF a, b, d
<1>3. /\ USER_STACK \in Nat /\ USER_STACK < d /\ USER_DATA_VA \in Nat /\ USER_DATA_VA < d
      /\ USER_CLOCK_VA \in Nat /\ USER_CLOCK_VA < d /\ SMAP_TEST_ADDR \in Nat /\ SMAP_TEST_ADDR < d
      /\ TRAMPOLINE_PHYS \in Nat /\ TRAMPOLINE_PHYS < d
      /\ USER_STACK # USER_DATA_VA /\ USER_STACK # USER_CLOCK_VA /\ USER_DATA_VA # USER_CLOCK_VA
  BY <1>1, <1>2
<1> QED BY <1>3, LowPage DEF d

(* The device window is above the linear map and covered by one table. *)
LEMMA DevicePage ==
  ASSUME NEW j \in 0 .. Fan - 1
  PROVE  /\ DEVICE_BASE + j \in Page /\ DEVICE_BASE + j >= USER_LIMIT
         /\ Block(DEVICE_BASE + j, 3) # KernelFirst
         /\ Block(DEVICE_BASE + j, 1) = Block(DEVICE_BASE, 1)
<1> DEFINE S == level_size(3)
           n == KernelFirst + 1
           v == DEVICE_BASE + j
<1>1. /\ S \in Nat \ {0} /\ level_size(4) = Fan * S /\ n \in Nat /\ n + 1 <= Fan /\ S >= Fan
      /\ Fan \in Nat \ {0} /\ DEVICE_BASE = n * S /\ USER_LIMIT = KernelFirst * S
      /\ KernelFirst \in Nat /\ level_size(4) \in Nat
  BY Sizes, Larger, Numbers DEF DEVICE_BASE, USER_LIMIT, Top
<1>2. PICK e \in Nat : S = e * Fan
  <2>1. level_size(2 + 1) = level_size(2) * Fan /\ level_size(2) \in Nat
    BY Sizes
  <2> QED BY <2>1
<1> HIDE DEF S, n
<1>3. n * S \in Nat /\ j \in 0 .. S - 1 /\ v = n * S + j /\ v \in Nat
  BY <1>1
<1> HIDE DEF v
<1>4. v \div S = n
  BY <1>1, <1>3, QuotientOf
<1>5. v < Fan * S /\ v >= KernelFirst * S
  <2>1. (n + 1) * S <= Fan * S /\ (n + 1) * S = n * S + S
    BY <1>1, Multiples
  <2>2. KernelFirst * S <= n * S /\ KernelFirst * S \in Nat /\ Fan * S \in Nat
    BY <1>1, Multiples DEF n
  <2> QED BY <1>1, <1>3, <2>1, <2>2
<1>6. v \in Page /\ v >= USER_LIMIT
  BY <1>1, <1>3, <1>5 DEF Page, Top
<1>7. Block(v, 3) # KernelFirst
  BY <1>1, <1>4 DEF Block, S, n
<1>8. v \div Fan = n * e /\ (n * S) \div Fan = n * e
  <2>1. n * e \in Nat /\ n * S = (n * e) * Fan
    BY <1>1, <1>2
  <2>2. PICK h \in Nat : h = n * e
    BY <2>1
  <2>3. v = h * Fan + j /\ n * S = h * Fan + 0 /\ 0 \in 0 .. Fan - 1
    BY <1>1, <1>3, <2>1, <2>2
  <2>4. (h * Fan + j) \div Fan = h /\ (h * Fan + 0) \div Fan = h
    BY <1>1, <2>2, <2>3, QuotientOf
  <2> QED BY <2>2, <2>3, <2>4
<1>9. Block(v, 1) = Block(DEVICE_BASE, 1)
  BY <1>1, <1>8, Larger DEF Block
<1> QED BY <1>6, <1>7, <1>9 DEF v

-----------------------------------------------------------------------------
(* The boot core works on the kernel's tree, while there is no other.       *)

(* The memory m is well for some owners, and the kernel's tree has nothing  *)
(* below the user limit but the pages of X.                                 *)
Steady(m, k, c, P, U, ap, W, sp, X) ==
  (\E o : Sane(m, o, k, c, P, U, ap, W, sp)) /\ Upper(m, k, X)

(* y is x, whether that failed or not. *)
Alike(x, y) == IsMem(y) /\ Untouched(x, y) /\ y.asked = x.asked /\ ~Failed(y)

Elsewhere(m, x, k) ==
  \A t \in Frame : t # k => \A v \in Page : Asked(x.asked[t], v) = Asked(m.asked[t], v)

(* Settling. *)
LEMMA SettledAlike ==
  ASSUME NEW x, IsMem(x)
  PROVE  Alike(x, Settled(x))
BY SettledIs DEF Alike, Untouched

(* Without spaces the kernel's is the only root. *)
LEMMA AloneRoots ==
  ASSUME NEW k, NEW sp, HeldIn(sp) = {}
  PROVE  RootsIn(k, sp) = {k}
BY DEF RootsIn

(* All stays steady in a memory alike. *)
LEMMA SteadyAlike ==
  ASSUME NEW m, NEW k, NEW c, NEW P, NEW U, NEW ap \in BOOLEAN, NEW W, NEW sp, NEW X,
         Steady(m, k, c, P, U, ap, W, sp, X), NEW y, Alike(m, y)
  PROVE  Steady(y, k, c, P, U, ap, W, sp, X)
<1>1. PICK o : Sane(m, o, k, c, P, U, ap, W, sp)
  BY DEF Steady
<1>2. /\ IsMem(y) /\ y.table = m.table /\ y.bytes = m.bytes /\ y.pool = m.pool
      /\ y.inUse = m.inUse /\ y.asked = m.asked /\ ~Failed(y)
  BY DEF Alike, Untouched
<1>3. Sane(y, o, k, c, P, U, ap, W, sp)
  BY <1>1, <1>2, SaneAlike
<1>4. Upper(y, k, X)
  BY <1>2 DEF Steady, Upper
<1> QED BY <1>3, <1>4 DEF Steady

(* The kernel's tree grew, and all is well. *)
LEMMA KernelWorked ==
  ASSUME NEW m, NEW o, NEW k \in Frame, NEW c \in Frame, NEW P, P \subseteq Frame, NEW U,
         NEW ap \in BOOLEAN, NEW W, NEW sp, HeldIn(sp) = {}, Sane(m, o, k, c, P, U, ap, W, sp),
         NEW x, NEW q, Moves(m, o, x, q, k), Kept(x, q, {k}, k, c), Elsewhere(m, x, k),
         NEW y, Alike(x, y)
  PROVE  Sane(y, q, k, c, P, U, ap, W, sp)
<1>1. RootsIn(k, sp) = {k}
  BY AloneRoots
<1>2. /\ Account(m, o, k, P, U, ap) /\ Blank(m, {k}) /\ (c # 0 => c \in U /\ m.bytes[c] = {})
  BY <1>1 DEF Sane
<1>3. /\ IsMem(y) /\ y.table = x.table /\ y.bytes = x.bytes /\ y.pool = x.pool
      /\ y.inUse = x.inUse /\ y.asked = x.asked /\ ~Failed(y)
  BY DEF Alike, Untouched
<1>4. Kept(y, q, {k}, k, c)
  BY <1>3, KeptCopied
<1>5. Account(x, q, k, P, U, ap)
  BY <1>2, AccountMoves
<1>6. Account(y, q, k, P, U, ap)
  BY <1>3, <1>5 DEF Account, Ledger
<1>7. Blank(y, {k})
  BY <1>2, <1>3 DEF Blank, Elsewhere
<1>8. c # 0 => c \in U /\ y.bytes[c] = {}
  <2> SUFFICES ASSUME c # 0 PROVE c \in U /\ y.bytes[c] = {}
    OBVIOUS
  <2>1. c \in Frame \ m.pool
    BY <1>2 DEF Account
  <2> QED BY <1>2, <1>3, <2>1 DEF Moves
<1> QED BY <1>1, <1>3, <1>4, <1>6, <1>7, <1>8 DEF Sane

(* A page of the kernel's tree: mapped, or not. *)
MapsOne(m, x, y, k, v, w) ==
  /\ Failed(x) => y.asked = m.asked
  /\ ~Failed(x) => Asks(m, y, k, v, w)

(* Page v may be mapped with rights rt, as one of Y if it is below the limit. *)
Permits(X, Y, v, rt) ==
  /\ X \subseteq Y /\ (v >= USER_LIMIT \/ v \in Y)
  /\ (v >= USER_LIMIT => ~rt.user) /\ (is_wx(rt) => v \in Y)

Charted(m, x, y, k, c, P, U, ap, W, sp, Y, v, p, rt, device) ==
  /\ IsMem(x) /\ Steady(y, k, c, P, U, ap, W, sp, Y)
  /\ MapsOne(m, x, y, k, v, Mapping(p, rt, device))

(* A page is mapped in the kernel's tree, if there are frames for it. *)
LEMMA KernelMap ==
  ASSUME NEW m, NEW k \in Frame, NEW c \in Frame, NEW P, P \subseteq Frame, NEW U,
         NEW ap \in BOOLEAN, NEW W, NEW sp, HeldIn(sp) = {}, NEW X,
         Steady(m, k, c, P, U, ap, W, sp, X), gib \in BOOLEAN, NEW v \in Page, NEW rt \in RightsT,
         NEW p \in Nat, NEW device \in BOOLEAN, NEW Y, Permits(X, Y, v, rt),
         NEW x, x = Map(m, k, v, p, 1, rt, device), NEW y, Alike(x, y)
  PROVE  Charted(m, x, y, k, c, P, U, ap, W, sp, Y, v, p, rt, device)
<1> DEFINE w == Mapping(p, rt, device)
           Rs == {k}
<1>1. PICK o : Sane(m, o, k, c, P, U, ap, W, sp)
  BY DEF Steady
<1>2. RootsIn(k, sp) = Rs
  BY AloneRoots
<1>3. Kept(m, o, Rs, k, c) /\ ~Failed(m) /\ k \in Rs
  BY <1>1, <1>2 DEF Sane
<1>4. MayMap(Rs, k, k, v) /\ Giving(o, k, k, c, v, p, rt)
  BY DEF MayMap, Giving
<1> HIDE DEF Rs
<1>5. PICK q : Put(m, o, x, q, Rs, k, c, k, v, w)
  <2>1. \E q : Put(m, o, Map(m, k, v, p, 1, rt, device), q, Rs, k, c, k, v, Mapping(p, rt, device))
    BY <1>3, <1>4, MapPage
  <2> QED BY <2>1
<1>6. w.rights = rt /\ w.mapped
  BY DEF Mapping
<1> HIDE DEF w
<1>7. /\ Moves(m, o, x, q, k) /\ Kept(x, q, Rs, k, c) /\ IsMem(x)
      /\ Failed(x) => x.asked = m.asked
      /\ ~Failed(x) => Asks(m, x, k, v, w)
  BY <1>5 DEF Put, Kept, Shape
<1>8. y.asked = x.asked
  BY DEF Alike
<1>9. Elsewhere(m, x, k)
  BY <1>7 DEF Elsewhere, Asks
<1>10. Sane(y, q, k, c, P, U, ap, W, sp)
  BY <1>1, <1>7, <1>9, KernelWorked DEF Rs
<1>11. MapsOne(m, x, y, k, v, w)
  BY <1>7, <1>8 DEF MapsOne, Asks
<1>12. Upper(y, k, Y)
  <2>0. /\ X \subseteq Y /\ (v >= USER_LIMIT \/ v \in Y)
        /\ (v >= USER_LIMIT => ~rt.user) /\ (is_wx(rt) => v \in Y)
    BY DEF Permits
  <2>1. Upper(m, k, X)
    BY DEF Steady
  <2>2. CASE Failed(x)
    <3>1. y.asked = m.asked
      BY <1>11, <2>2 DEF MapsOne
    <3> QED BY <2>0, <2>1, <3>1 DEF Upper
  <2>3. CASE ~Failed(x)
    <3>1. Asks(m, y, k, v, w)
      BY <1>11, <2>3 DEF MapsOne
    <3>2. \A u \in X : u # v => u \in Y
      BY <2>0
    <3>3. /\ w.mapped => v >= USER_LIMIT \/ v \in Y
          /\ v >= USER_LIMIT => ~w.rights.user
          /\ is_wx(w.rights) => v \in Y
      BY <1>6, <2>0
    <3> QED BY <2>1, <3>1, <3>2, <3>3, UpperPage
  <2> QED BY <2>2, <2>3
<1> QED BY <1>7, <1>10, <1>11, <1>12 DEF Steady, w, Charted

(* A page the boot borrowed goes. *)
LEMMA KernelUnmap ==
  ASSUME NEW m, NEW k \in Frame, NEW c \in Frame, NEW P, P \subseteq Frame, NEW U,
         NEW ap \in BOOLEAN, NEW W, NEW sp, HeldIn(sp) = {}, NEW v \in Page, v < USER_LIMIT,
         Steady(m, k, c, P, U, ap, W, sp, {v}), NEW x, x = Unmap(m, k, v)
  PROVE  Steady(x, k, c, P, U, ap, W, sp, {}) /\ IsMem(x) /\ x.pool = m.pool /\ x.inUse = m.inUse
<1> DEFINE Rs == {k}
<1>1. PICK o : Sane(m, o, k, c, P, U, ap, W, sp)
  BY DEF Steady
<1>2. RootsIn(k, sp) = Rs
  BY AloneRoots
<1>3. Kept(m, o, Rs, k, c) /\ ~Failed(m) /\ Account(m, o, k, P, U, ap) /\ Blank(m, Rs)
  BY <1>1, <1>2 DEF Sane
<1>4. /\ Kept(x, o, Rs, k, c) /\ Asks(m, x, k, v, Unmapped)
      /\ x.pool = m.pool /\ x.inUse = m.inUse /\ x.bytes = m.bytes /\ x.err = m.err
  BY <1>3, UnmapPage
<1> HIDE DEF Rs
<1>5. IsMem(x) /\ ~Failed(x)
  BY <1>3, <1>4 DEF Kept, Shape, Failed
<1>6. Account(x, o, k, P, U, ap)
  BY <1>3, <1>4 DEF Account, Ledger
<1>7. Blank(x, Rs)
  BY <1>3, <1>4 DEF Blank, Asks, Rs
<1>8. c # 0 => c \in U /\ x.bytes[c] = {}
  BY <1>1, <1>4 DEF Sane
<1>9. Sane(x, o, k, c, P, U, ap, W, sp)
  BY <1>2, <1>4, <1>5, <1>6, <1>7, <1>8 DEF Sane
<1>10. Upper(x, k, {})
  <2>1. ~Unmapped.mapped /\ ~Unmapped.rights.user /\ ~is_wx(Unmapped.rights)
    BY DEF Unmapped, RO, is_wx
  <2>2. Upper(m, k, {v}) /\ \A u \in {v} : u # v => u \in {}
    BY DEF Steady
  <2> QED BY <1>4, <2>1, <2>2, UpperPage
<1> QED BY <1>4, <1>5, <1>9, <1>10 DEF Steady

(* Frames are taken for nobody's tree. *)
LEMMA SteadyTaken ==
  ASSUME NEW m, NEW k \in Frame, NEW c \in Frame, NEW P, P \subseteq Frame, NEW U,
         NEW ap \in BOOLEAN, NEW W, NEW sp, HeldIn(sp) = {}, NEW X,
         Steady(m, k, c, P, U, ap, W, sp, X), NEW x, Takes(m, x), NEW V,
         V = U \cup (m.pool \ x.pool)
  PROVE  Steady(x, k, c, P, V, ap, W, sp, X)
<1>0. /\ IsMem(x) /\ ~Failed(x) /\ x.table = m.table /\ x.bytes = m.bytes /\ x.asked = m.asked
      /\ x.pool \subseteq m.pool /\ Ledger(x) = Ledger(m)
  BY DEF Takes
<1> DEFINE Rs == RootsIn(k, sp)
<1>1. PICK o : Sane(m, o, k, c, P, U, ap, W, sp)
  BY DEF Steady
<1>2. Kept(m, o, Rs, k, c) /\ Account(m, o, k, P, U, ap) /\ Blank(m, Rs)
      /\ PoolFree(m, o) /\ m.pool \subseteq Frame
  BY <1>1 DEF Sane, Kept, Shape, IsMem
<1> HIDE DEF Rs
<1>3. \A f \in x.pool : o.R[f] = Nobody
  BY <1>0, <1>2 DEF PoolFree
<1>4. Kept(x, o, Rs, k, c)
  BY <1>0, <1>2, <1>3, KeptTaken
<1>5. Account(x, o, k, P, V, ap)
  <2>1. PICK D : D = m.pool \ x.pool
    OBVIOUS
  <2>2. Account(x, o, k, P, U \cup D, ap)
    BY <1>0, <1>2, <2>1, AccountTaken
  <2>3. V = U \cup D
    BY <2>1
  <2> QED BY <2>2, <2>3
<1>6. Blank(x, Rs) /\ (c # 0 => c \in V /\ x.bytes[c] = {})
  BY <1>0, <1>1, <1>2 DEF Sane, Blank
<1>7. Sane(x, o, k, c, P, V, ap, W, sp)
  BY <1>0, <1>4, <1>5, <1>6 DEF Sane, Rs
<1>8. Upper(x, k, X)
  BY <1>0 DEF Steady, Upper
<1> QED BY <1>7, <1>8 DEF Steady

(* x is m with the frame f given back. *)
GivenBack(m, x, f) ==
  /\ IsMem(x) /\ x.table = m.table /\ x.bytes = m.bytes /\ x.pool = m.pool \cup {f}
  /\ x.inUse = m.inUse - 1 /\ x.asked = m.asked /\ x.err = m.err

(* A frame goes back to the pool. *)
LEMMA FreeIs ==
  ASSUME NEW m, IsMem(m), NEW f \in Frame
  PROVE  GivenBack(m, free_frame(m, f), f)
<1>1. PICK P, n : P = m.pool \cup {f} /\ n = m.inUse - 1
  OBVIOUS
<1> DEFINE x == free_frame(m, f)
           y == [table |-> m.table, bytes |-> m.bytes, pool |-> P, inUse |-> n,
                 got |-> m.got, err |-> m.err, asked |-> m.asked]
<1>2. m = [table |-> m.table, bytes |-> m.bytes, pool |-> m.pool, inUse |-> m.inUse,
           got |-> m.got, err |-> m.err, asked |-> m.asked]
  BY DEF IsMem
<1>3. x = [m EXCEPT !.pool = P, !.inUse = n]
  BY <1>1, SMT DEF free_frame
<1> HIDE DEF x
<1>4. x = y
  BY <1>2, <1>3
<1>5. P \subseteq Frame /\ n \in Int
  BY <1>1 DEF IsMem
<1>6. IsMem(y)
  BY <1>5 DEF IsMem
<1>7. GivenBack(m, x, f)
  BY <1>1, <1>4, <1>6 DEF GivenBack
<1> QED BY <1>7 DEF x

(* A frame taken for nobody's tree goes back. *)
LEMMA SteadyGiven ==
  ASSUME NEW m, NEW k \in Frame, NEW c \in Frame, NEW P, P \subseteq Frame, NEW U,
         NEW ap \in BOOLEAN, NEW W, NEW sp, HeldIn(sp) = {}, NEW X, NEW f \in P, f \notin U, f # c,
         Steady(m, k, c, P, U \cup {f}, ap, W, sp, X), NEW x, x = free_frame(m, f)
  PROVE  Steady(x, k, c, P, U, ap, W, sp, X) /\ IsMem(x) /\ ~Failed(x)
<1> DEFINE Rs == RootsIn(k, sp)
<1>1. PICK o : Sane(m, o, k, c, P, U \cup {f}, ap, W, sp)
  BY DEF Steady
<1>2. Kept(m, o, Rs, k, c) /\ Account(m, o, k, P, U \cup {f}, ap) /\ Blank(m, Rs)
      /\ PoolFree(m, o) /\ IsMem(m) /\ ~Failed(m)
  BY <1>1 DEF Sane, Kept, Shape
<1> HIDE DEF Rs
<1>3. o.R[f] = Nobody /\ f \notin m.pool /\ f \in Frame
  BY <1>2 DEF Account
<1>7. /\ IsMem(x) /\ x.table = m.table /\ x.bytes = m.bytes /\ x.pool = m.pool \cup {f}
      /\ x.inUse = m.inUse - 1 /\ x.asked = m.asked /\ ~Failed(x)
  <2>1. GivenBack(m, x, f)
    BY <1>2, <1>3, FreeIs
  <2> QED BY <1>2, <2>1 DEF GivenBack, Failed
<1>8. Ledger(x) = Ledger(m)
  <2>1. {f} \subseteq Frame /\ m.pool \cap {f} = {} /\ Cardinality({f}) = 1
    BY <1>3, FS_Singleton
  <2>2. x.inUse = m.inUse - Cardinality({f})
    BY <1>7, <2>1
  <2> QED BY <1>2, <1>7, <2>1, <2>2, LedgerBack
<1>9. \A g \in x.pool : o.R[g] = Nobody
  BY <1>2, <1>3, <1>7 DEF PoolFree
<1>10. Kept(x, o, Rs, k, c)
  BY <1>2, <1>7, <1>9, KeptTaken
<1>11. Account(x, o, k, P, U, ap)
  BY <1>2, <1>7, <1>8, AccountGiven
<1>12. Blank(x, Rs) /\ (c # 0 => c \in U /\ x.bytes[c] = {})
  BY <1>1, <1>2, <1>7 DEF Sane, Blank
<1>13. Sane(x, o, k, c, P, U, ap, W, sp)
  BY <1>7, <1>10, <1>11, <1>12 DEF Sane, Rs
<1>14. Upper(x, k, X)
  BY <1>7 DEF Steady, Upper
<1> QED BY <1>7, <1>13, <1>14 DEF Steady

FirstRoot(m, k, c, y, ap, W, sp) ==
  k \in m.pool /\ Steady(y, k, c, m.pool, {}, ap, W, sp, {})

(* The kernel's tree is built, on the first frame of the pool. *)
LEMMA BootKernel ==
  ASSUME NEW m, IsMem(m), ~Failed(m), m.inUse = 0, \A f \in Frame : m.asked[f] = <<>>,
         gib \in BOOLEAN, fb.phys \in Nat, fb.len \in Nat, fb.phys + fb.len <= level_size(3),
         NEW x, x = build_kernel(alloc_table(m), alloc_table(m).got), ~Failed(x),
         NEW y, y = Settled(x), NEW ap \in BOOLEAN, NEW W, NEW sp, HeldIn(sp) = {}, NEW c, c = 0
  PROVE  FirstRoot(m, alloc_table(m).got, c, y, ap, W, sp)
<1> DEFINE n == alloc_frame(m)
           z == Zeroed(n, {Kernel})
<1>1. alloc_table(m) = z
  BY DEF alloc_table
<1>2. /\ IsMem(n) /\ n.table = m.table /\ n.bytes = m.bytes /\ n.asked = m.asked
      /\ \/ Failed(n) /\ n.pool = m.pool /\ n.inUse = m.inUse
         \/ /\ ~Failed(n) /\ n.got \in m.pool /\ n.pool = m.pool \ {n.got}
            /\ n.inUse = m.inUse + 1
  BY AllocOne
<1> HIDE DEF n
<1>3. ~Failed(n)
  <2> SUFFICES ASSUME Failed(n) PROVE FALSE
    OBVIOUS
  <2>1. z = n
    BY DEF Zeroed
  <2>2. Failed(build_kernel(z, z.got))
    BY <2>1, BuildFailed
  <2> QED BY <1>1, <2>2
<1>4. PICK k : k = n.got
  OBVIOUS
<1>5. k \in m.pool /\ k \in Frame /\ k # Nobody /\ m.pool \subseteq Frame
  BY <1>2, <1>3, <1>4 DEF IsMem, Frame, Nobody
<1>6. /\ IsMem(z) /\ ~Failed(z) /\ z.pool = m.pool \ {k} /\ z.inUse = m.inUse + 1 /\ z.got = k
      /\ z.asked = m.asked /\ z.table = [n.table EXCEPT ![k] = EmptyTable]
  <2>1. /\ IsMem(z) /\ ~Failed(z) /\ z.pool = n.pool /\ z.inUse = n.inUse /\ z.got = n.got
        /\ z.asked = n.asked
        /\ z.table = [n.table EXCEPT ![n.got] = EmptyTable]
        /\ z.bytes = [n.bytes EXCEPT ![n.got] = {Kernel}]
    BY ZenonT(30), <1>2, <1>3, ZeroedIs
  <2> QED BY <1>2, <1>3, <1>4, <2>1
<1>7. x = build_kernel(z, k)
  BY <1>1, <1>6
<1> HIDE DEF z
<1> DEFINE o == OnlyRoot(k)
           a == AskedFn(z)
           h == IF gib THEN 2 ELSE 1
<1>8. \A f \in Frame : \A v \in Page : Asked(z.asked[f], v) = Unmapped
  BY <1>6 DEF Asked
<1>9. Kept(z, o, {k}, k, c) /\ Frontier(o, k, PHYS_MAP_BASE, h)
  <2>1. \A v \in Page : a[k][v] = Unmapped
    BY <1>5, <1>8 DEF AskedFn
  <2> HIDE DEF a
  <2>2. z.table[k] = EmptyTable /\ k \notin z.pool
    BY <1>2, <1>5, <1>6 DEF IsMem
  <2>3. /\ Shape(z, OnlyRoot(k), a, {k}, k, c)
        /\ \A v \in Nat : \A j \in 0 .. 2 : Frontier(OnlyRoot(k), k, v, j)
    <3>1. IsMem(z) /\ k \in Frame
      BY <1>5, <1>6
    <3> QED BY <2>1, <2>2, <3>1, FirstTree
  <2>4. h \in 0 .. 2 /\ PHYS_MAP_BASE \in Nat
    BY LinearEven
  <2> QED BY <2>3, <2>4 DEF Kept, a
<1>10. Bare(z, k)
  <2>1. ~Unmapped.mapped /\ ~Unmapped.rights.user /\ ~is_wx(Unmapped.rights)
    BY DEF Unmapped, RO, is_wx
  <2> QED BY <1>5, <1>8, <2>1 DEF Bare, Upper, Blank
<1>11. PICK q : KernelGrows(z, o, x, q, {k}, k, c) /\ Bare(x, k)
  <2>1. Failed(build_kernel(z, k))
          \/ \E q : KernelGrows(z, o, build_kernel(z, k), q, {k}, k, c) /\ Bare(build_kernel(z, k), k)
    <3> HIDE DEF o, h
    <3>1. PICK g, Rs : g = h /\ Rs = {k}
      OBVIOUS
    <3>2. k \in Rs /\ Kept(z, o, Rs, k, c) /\ Frontier(o, k, PHYS_MAP_BASE, g)
          /\ g = IF gib THEN 2 ELSE 1
      BY <1>9, <3>1 DEF h
    <3>3. Failed(build_kernel(z, k))
            \/ \E q : KernelGrows(z, o, build_kernel(z, k), q, Rs, k, c) /\ Bare(build_kernel(z, k), k)
      BY <1>6, <1>10, <3>1, <3>2, BuildKernel
    <3> QED BY <3>1, <3>3
  <2> QED BY <1>7, <2>1
<1>12. Account(z, o, k, m.pool, {}, ap)
  <2>1. \A f \in Frame : o.R[f] = (IF f = k THEN k ELSE Nobody) /\ o.L[f] = 3
    BY DEF OnlyRoot
  <2>2. Ledger(z) = Cardinality(m.pool)
    <3>1. Ledger(z) = Ledger(m)
      BY <1>5, <1>6, LedgerTake
    <3>2. Ledger(m) = Cardinality(m.pool)
      BY PoolFinite, FS_CardinalityType DEF Ledger
    <3> QED BY <3>1, <3>2
  <2> HIDE DEF o
  <2>3. \A f \in m.pool : f \in z.pool \/ o.R[f] # Nobody
    BY <1>5, <1>6, <2>1
  <2>4. \A f \in Frame : o.R[f] # Nobody => f \in m.pool
    BY <1>5, <2>1
  <2>5. \A f \in Frame : o.R[f] = k => o.L[f] >= 0
    BY <2>1
  <2> QED BY <1>6, <2>2, <2>3, <2>4, <2>5 DEF Account
<1>13. Moves(z, o, x, q, k) /\ Kept(x, q, {k}, k, c) /\ IsMem(x)
  BY <1>11 DEF KernelGrows, Kept, Shape
<1> HIDE DEF o
<1>14. Account(x, q, k, m.pool, {}, ap)
  BY <1>5, <1>12, <1>13, AccountMoves
<1>15. /\ IsMem(y) /\ y.table = x.table /\ y.bytes = x.bytes /\ y.pool = x.pool
       /\ y.inUse = x.inUse /\ y.asked = x.asked /\ ~Failed(y)
  BY <1>13, SettledIs
<1>16. RootsIn(k, sp) = {k}
  BY AloneRoots
<1>17. Kept(y, q, {k}, k, c)
  BY <1>13, <1>15, KeptCopied
<1>18. Account(y, q, k, m.pool, {}, ap) /\ Blank(y, {k}) /\ Upper(y, k, {})
  BY <1>11, <1>14, <1>15 DEF Account, Ledger, Bare, Blank, Upper
<1>19. Sane(y, q, k, c, m.pool, {}, ap, W, sp)
  BY <1>15, <1>16, <1>17, <1>18 DEF Sane
<1> QED BY <1>1, <1>4, <1>5, <1>6, <1>18, <1>19 DEF Steady, FirstRoot

(* The registers of the devices have addresses. *)
LEMMA DevicesNat == LAPIC \in Nat /\ IOAPIC \in Nat /\ HPET \in Nat
<1> DEFINE g == level_size(2)
           n == (Frames + g - 1) \div g
<1>1. g \in Nat /\ g >= 4 /\ Frames \in Nat \ {0}
  BY Larger, Numbers, SizeNat
<1>2. LinearPages = n * g
  BY DEF LinearPages
<1> HIDE DEF g
<1>3. n \in Nat /\ n >= 1
  <2> DEFINE b == Frames + g - 1
  <2>1. b \in Nat /\ b >= g
    BY <1>1
  <2> HIDE DEF b
  <2>2. b \div g \in Nat /\ b % g \in 0 .. g - 1 /\ b = (b \div g) * g + (b % g)
    <3>1. g \in Nat \ {0}
      BY <1>1
    <3> QED BY <2>1, <3>1, Quotient
  <2>3. PICK q \in Nat, e \in 0 .. g - 1 : q = b \div g /\ b = q * g + e
    BY <2>2
  <2>4. q # 0
    BY <1>1, <2>1, <2>3
  <2> QED BY <2>3, <2>4 DEF b
<1> HIDE DEF n
<1>4. n * g >= 1 * g /\ n * g \in Nat
  BY <1>1, <1>3, Multiples
<1> QED BY <1>1, <1>2, <1>4 DEF LAPIC, IOAPIC, HPET

(* The memory and the counter before a window is opened, and after: the     *)
(* next page of the device window is mapped, and no other page changes.     *)
Before(d) == d = [m |-> d.m, next |-> d.next] /\ IsMem(d.m) /\ d.next \in Nat

Opened(d, e, k) ==
  /\ e = [m |-> e.m, next |-> e.next] /\ IsMem(e.m) /\ e.next \in Nat
  /\ ~Failed(e.m) =>
       /\ ~Failed(d.m) /\ e.next = d.next + 1
       /\ Asked(e.m.asked[k], DEVICE_BASE + d.next).mapped
       /\ \A v \in Page : v # DEVICE_BASE + d.next => Asked(e.m.asked[k], v) = Asked(d.m.asked[k], v)

Windowed(d, e, c, P, U, ap, W, sp, X) ==
  Opened(d, e, kroot) /\ Steady(Settled(e.m), kroot, c, P, U, ap, W, sp, X)

(* A window onto a device: it is opened, or the error stays. *)
LEMMA OpenWindow ==
  ASSUME NEW d, Before(d), NEW c \in Frame,
         NEW P, P \subseteq Frame, NEW U, NEW ap \in BOOLEAN, NEW W, NEW sp, HeldIn(sp) = {}, NEW X,
         kroot \in Frame, gib \in BOOLEAN, NEW phys \in Nat,
         Steady(Settled(d.m), kroot, c, P, U, ap, W, sp, X), NEW e, e = map_window(d, phys)
  PROVE  Windowed(d, e, c, P, U, ap, W, sp, X)
<1> SUFFICES Opened(d, e, kroot) /\ Steady(Settled(e.m), kroot, c, P, U, ap, W, sp, X)
  BY DEF Windowed
<1>0. d = [m |-> d.m, next |-> d.next] /\ IsMem(d.m) /\ d.next \in Nat
  BY DEF Before
<1>1. PICK m, j : m = d.m /\ j = d.next
  OBVIOUS
<1>2. CASE Failed(m)
  <2>1. e = d
    BY <1>1, <1>2 DEF map_window
  <2>2. Opened(d, e, kroot)
    BY <1>0, <1>1, <1>2, <2>1 DEF Opened
  <2> QED BY <2>1, <2>2
<1>3. CASE ~Failed(m)
  <2>1. IsMem(m) /\ j \in Nat /\ Steady(Settled(m), kroot, c, P, U, ap, W, sp, X)
    BY <1>0, <1>1
  <2>2. Steady(m, kroot, c, P, U, ap, W, sp, X)
    <3>1. Alike(Settled(m), m)
      BY <1>3, <2>1, SettledIs DEF Alike, Untouched
    <3> QED BY <2>1, <3>1, SteadyAlike
  <2>3. CASE j + 1 > DEVICE_WINDOW
    <3> DEFINE x == Fail(m, "WindowFull")
    <3>1. e = [m |-> x, next |-> j + 1]
      BY <1>1, <1>3, <2>3 DEF map_window
    <3>2. /\ IsMem(x) /\ x.err = "WindowFull" /\ x.table = m.table /\ x.bytes = m.bytes
          /\ x.pool = m.pool /\ x.inUse = m.inUse /\ x.asked = m.asked
      BY <2>1, FailIs
    <3> HIDE DEF x
    <3>3. Failed(x) /\ Alike(m, Settled(x))
      BY <3>2, SettledIs DEF Alike, Untouched, Failed
    <3>4. Steady(Settled(x), kroot, c, P, U, ap, W, sp, X)
      BY <2>2, <3>3, SteadyAlike
    <3>5. Opened(d, e, kroot)
      BY <2>1, <3>1, <3>2, <3>3 DEF Opened
    <3>6. e.m = x
      BY <3>1
    <3> QED BY <3>4, <3>5, <3>6
  <2>4. CASE ~(j + 1 > DEVICE_WINDOW)
    <3> DEFINE v == DEVICE_BASE + j
               b == TRUE
               x == Map(m, kroot, v, phys, 1, RW, b)
               y == Settled(x)
               w == Mapping(phys, RW, b)
    <3>1. e = [m |-> x, next |-> j + 1]
      BY <1>1, <1>3, <2>4 DEF map_window
    <3>2. v \in Page /\ v >= USER_LIMIT
      <4>1. j \in 0 .. Fan - 1
        BY <2>1, <2>4, Numbers DEF DEVICE_WINDOW
      <4> QED BY <4>1, DevicePage
    <3>3. w.mapped
      BY DEF Mapping
    <3>4. b \in BOOLEAN
      OBVIOUS
    <3> HIDE DEF b, w, v
    <3>5. IsMem(x)
      <4>1. PICK o : Sane(m, o, kroot, c, P, U, ap, W, sp)
        BY <2>2 DEF Steady
      <4>2. PICK Rs : Rs = {kroot}
        OBVIOUS
      <4>3. kroot \in Rs /\ Kept(m, o, Rs, kroot, c) /\ ~Failed(m)
        BY <4>1, <4>2, AloneRoots DEF Sane
      <4>4. MayMap(Rs, kroot, kroot, v) /\ Giving(o, kroot, kroot, c, v, phys, RW)
        BY <3>2, <4>2 DEF MayMap, Giving
      <4>5. PICK q : Put(m, o, x, q, Rs, kroot, c, kroot, v, Mapping(phys, RW, b))
        BY <3>4, <4>3, <4>4, MapPage, KernelRights
      <4> QED BY <4>5 DEF Put, Kept, Shape
    <3> HIDE DEF x, y
    <3>6. Alike(x, y) /\ Alike(y, y) /\ y.asked = x.asked
      BY <3>5, SettledIs DEF Alike, Untouched, y
    <3>7. Steady(y, kroot, c, P, U, ap, W, sp, X) /\ MapsOne(m, x, y, kroot, v, w)
      <4>1. x = Map(m, kroot, v, phys, 1, RW, b)
        BY DEF x
      <4>2. v >= USER_LIMIT => ~RW.user
        BY KernelRights
      <4>3. is_wx(RW) => v \in X
        BY KernelRights
      <4>4. RW \in RightsT /\ X \subseteq X /\ (v >= USER_LIMIT \/ v \in X)
        BY <3>2, KernelRights
      <4>5. /\ IsMem(x) /\ Steady(y, kroot, c, P, U, ap, W, sp, X)
            /\ MapsOne(m, x, y, kroot, v, Mapping(phys, RW, b))
        <5>1. PICK Y : Y = X
          OBVIOUS
        <5>2. /\ Permits(X, Y, v, RW)
              /\ v \in Page /\ RW \in RightsT /\ b \in BOOLEAN /\ Alike(x, y)
          BY <3>2, <3>4, <3>6, <4>2, <4>3, <4>4, <5>1 DEF Permits
        <5>3. Charted(m, x, y, kroot, c, P, U, ap, W, sp, Y, v, phys, RW, b)
          BY <2>2, <4>1, <5>2, KernelMap
        <5> QED BY <5>1, <5>3 DEF Charted
      <4> QED BY <4>5 DEF w
    <3>8. e.m = x /\ e.next = j + 1 /\ e = [m |-> e.m, next |-> e.next]
      BY <3>1
    <3>9. ASSUME ~Failed(x)
          PROVE  /\ Asked(x.asked[kroot], v).mapped
                 /\ \A u \in Page : u # v => Asked(x.asked[kroot], u) = Asked(m.asked[kroot], u)
      <4>1. Asks(m, y, kroot, v, w)
        BY <3>7, <3>9 DEF MapsOne
      <4>2. Asked(y.asked[kroot], v) = w
        BY <3>2, <4>1 DEF Asks
      <4>3. \A u \in Page : u # v => Asked(y.asked[kroot], u) = Asked(m.asked[kroot], u)
        BY <4>1 DEF Asks
      <4> QED BY <3>3, <3>6, <4>2, <4>3
    <3>10. Opened(d, e, kroot)
      BY <1>0, <1>1, <1>3, <2>1, <3>5, <3>8, <3>9 DEF Opened, v
    <3>11. Settled(e.m) = y
      BY <3>8 DEF y
    <3> QED BY <3>7, <3>10, <3>11
  <2> QED BY <2>3, <2>4
<1> QED BY <1>2, <1>3

(* What the self-test maps, ring 3 may write and not execute. *)
LEMMA UserRights ==
  /\ to_user(RW) \in RightsT /\ ~is_wx(to_user(RW)) /\ to_user(RW).user
BY KernelRights DEF to_user, RightsT, is_wx

Took(m, n, k, c, P, U, ap, W, sp, X) ==
  /\ IsMem(n) /\ n.asked = m.asked
  /\ Failed(n) => Alike(m, Settled(n))
  /\ ~Failed(n) => /\ n.got \in P /\ n.got \in Frame /\ n.got # c /\ n.got \notin U
                   /\ Steady(n, k, c, P, U \cup {n.got}, ap, W, sp, X)

(* A frame is taken, for nobody's tree yet. *)
LEMMA TakeFrame ==
  ASSUME NEW m, NEW k \in Frame, NEW c \in Frame, NEW P, P \subseteq Frame, c \notin P, NEW U,
         NEW ap \in BOOLEAN, NEW W, NEW sp, HeldIn(sp) = {}, NEW X,
         Steady(m, k, c, P, U, ap, W, sp, X), NEW n, n = alloc_frame(m)
  PROVE  Took(m, n, k, c, P, U, ap, W, sp, X)
<1>0. PICK o : Sane(m, o, k, c, P, U, ap, W, sp)
  BY DEF Steady
<1>1. /\ IsMem(m) /\ ~Failed(m) /\ m.pool \subseteq P
      /\ \A h \in U : h \notin m.pool
  BY <1>0 DEF Sane, Kept, Shape, Account
<1>2. /\ IsMem(n) /\ n.table = m.table /\ n.bytes = m.bytes /\ n.asked = m.asked
      /\ \/ Failed(n) /\ n.pool = m.pool /\ n.inUse = m.inUse
         \/ /\ ~Failed(n) /\ n.got \in m.pool /\ n.pool = m.pool \ {n.got}
            /\ n.inUse = m.inUse + 1
  BY <1>1, AllocOne
<1>3. ASSUME Failed(n) PROVE Alike(m, Settled(n))
  BY <1>2, <1>3, SettledIs DEF Alike, Untouched
<1>4. ASSUME ~Failed(n)
      PROVE  /\ n.got \in P /\ n.got \in Frame /\ n.got # c /\ n.got \notin U
             /\ Steady(n, k, c, P, U \cup {n.got}, ap, W, sp, X)
  <2>1. PICK h : h = n.got
    OBVIOUS
  <2>2. /\ h \in m.pool /\ n.pool = m.pool \ {h} /\ n.inUse = m.inUse + 1
    BY <1>2, <1>4, <2>1
  <2>3. h \in P /\ h \in Frame /\ h # c /\ h \notin U /\ P \subseteq Frame
    BY <1>1, <2>2
  <2>4. Ledger(n) = Ledger(m)
    BY <1>1, <1>2, <2>2, LedgerTake
  <2>5. PICK V : V = U \cup {h}
    OBVIOUS
  <2>6. V = U \cup (m.pool \ n.pool) /\ n.pool \subseteq m.pool
    BY <2>2, <2>5
  <2>7. Takes(m, n)
    BY <1>2, <1>4, <2>4, <2>6 DEF Takes
  <2>8. Steady(n, k, c, P, V, ap, W, sp, X)
    BY <2>3, <2>6, <2>7, SteadyTaken
  <2> QED BY <2>1, <2>3, <2>5, <2>8
<1> QED BY <1>2, <1>3, <1>4 DEF Took

(* A frame of P, taken but not for the clock or the frames of U. *)
Loose(f, P, U, c) == f \in P /\ f \notin U /\ f # c

(* A frame goes back, whether the work it was for failed or not. *)
LEMMA GiveFrame ==
  ASSUME NEW m, NEW k \in Frame, NEW c \in Frame, NEW P, P \subseteq Frame, NEW U,
         NEW ap \in BOOLEAN, NEW W, NEW sp, HeldIn(sp) = {}, NEW X, NEW f, Loose(f, P, U, c),
         IsMem(m), Steady(Settled(m), k, c, P, U \cup {f}, ap, W, sp, X),
         NEW z, z = free_frame(m, f)
  PROVE  Steady(Settled(z), k, c, P, U, ap, W, sp, X)
<1>1. PICK y, u : y = Settled(m) /\ u = free_frame(y, f)
  OBVIOUS
<1>2. Alike(m, y) /\ f \in Frame /\ f \in P /\ f \notin U /\ f # c
  BY <1>1, SettledAlike DEF Loose
<1>3. Steady(u, k, c, P, U, ap, W, sp, X) /\ IsMem(u) /\ ~Failed(u)
  <2>1. Steady(y, k, c, P, U \cup {f}, ap, W, sp, X)
    BY <1>1
  <2> QED BY <1>1, <1>2, <2>1, SteadyGiven
<1>4. GivenBack(y, u, f)
  BY <1>1, <1>2, FreeIs DEF Alike
<1>5. GivenBack(m, z, f)
  BY <1>2, FreeIs
<1>6. IsMem(z)
  BY <1>5 DEF GivenBack
<1>7. Alike(z, Settled(z))
  BY <1>6, SettledAlike
<1>8. Alike(u, Settled(z))
  BY <1>2, <1>4, <1>5, <1>7 DEF Alike, Untouched, GivenBack
<1> QED BY <1>3, <1>8, SteadyAlike

(* The page of the self-test is mapped and goes. *)
LEMMA SmapPage ==
  ASSUME NEW n, ~Failed(n), NEW c \in Frame, NEW P, P \subseteq Frame, NEW U, NEW ap \in BOOLEAN,
         NEW W, NEW sp, HeldIn(sp) = {}, kroot \in Frame, gib \in BOOLEAN, NEW X, \A y : y \notin X,
         NEW f, Loose(f, P, U, c), Steady(n, kroot, c, P, U \cup {f}, ap, W, sp, X),
         NEW z, z = smap_unmap(Map(n, kroot, SMAP_TEST_ADDR, f, 1, to_user(RW), FALSE), f)
  PROVE  Steady(Settled(z), kroot, c, P, U, ap, W, sp, X)
<1>1. PICK v \in Page : v = SMAP_TEST_ADDR /\ v < USER_LIMIT
  BY UserPages
<1>2. PICK rt \in RightsT : rt = to_user(RW) /\ ~is_wx(rt)
  BY UserRights
<1>3. PICK b \in BOOLEAN : b = FALSE
  OBVIOUS
<1>4. PICK x, y, V, Y : x = Map(n, kroot, v, f, 1, rt, b) /\ y = Settled(x) /\ V = U \cup {f} /\ Y = {v}
  OBVIOUS
<1>5. z = smap_unmap(x, f)
  BY <1>1, <1>2, <1>3, <1>4
<1>6. f \in Nat /\ f \in Frame /\ ~(v >= USER_LIMIT)
  <2>1. v \in Int /\ USER_LIMIT \in Int
    BY LinearEven DEF Page
  <2>2. f \in Frame
    BY DEF Loose
  <2> QED BY <1>1, <2>1, <2>2 DEF Frame
<1>7. Steady(n, kroot, c, P, V, ap, W, sp, X)
  BY <1>4
<1>8. IsMem(x)
  <2>1. PICK p : Sane(n, p, kroot, c, P, V, ap, W, sp)
    BY <1>7 DEF Steady
  <2>2. PICK Rs : Rs = {kroot}
    OBVIOUS
  <2>3. kroot \in Rs /\ Kept(n, p, Rs, kroot, c)
    BY <2>1, <2>2, AloneRoots DEF Sane
  <2>4. MayMap(Rs, kroot, kroot, v) /\ Giving(p, kroot, kroot, c, v, f, rt)
    BY <1>6, <2>2 DEF MayMap, Giving
  <2>5. \E q : Put(n, p, Map(n, kroot, v, f, 1, rt, b), q, Rs, kroot, c, kroot, v, Mapping(f, rt, b))
    BY <1>6, <2>3, <2>4, MapPage
  <2> QED BY <1>4, <2>5 DEF Put, Kept, Shape
<1>9. Alike(x, y) /\ X \subseteq Y /\ v \in Y
  BY <1>4, <1>8, SettledAlike
<1>10. Charted(n, x, y, kroot, c, P, V, ap, W, sp, Y, v, f, rt, b)
  <2>1. x = Map(n, kroot, v, f, 1, rt, b)
    BY <1>4
  <2>2. Permits(X, Y, v, rt)
    BY <1>6, <1>9 DEF Permits
  <2>3. Alike(x, y) /\ f \in Nat /\ P \subseteq Frame
    BY <1>6, <1>9
  <2> QED BY <1>7, <2>1, <2>2, <2>3, KernelMap
<1>11. Steady(y, kroot, c, P, V, ap, W, sp, Y) /\ (Failed(x) => y.asked = n.asked)
  BY <1>10 DEF Charted, MapsOne
<1>12. CASE Failed(x)
  <2>1. z = free_frame(x, f)
    BY <1>5, <1>12 DEF smap_unmap
  <2>2. Steady(Settled(x), kroot, c, P, U \cup {f}, ap, W, sp, X)
    <3>1. Steady(y, kroot, c, P, V, ap, W, sp, X)
      BY <1>7, <1>11, <1>12 DEF Steady, Upper
    <3> QED BY <1>4, <3>1
  <2> QED BY <1>8, <2>1, <2>2, GiveFrame
<1>13. CASE ~Failed(x)
  <2>1. PICK g : g = Unmap(x, kroot, v)
    OBVIOUS
  <2>2. z = free_frame(g, f)
    BY <1>1, <1>5, <1>13, <2>1 DEF smap_unmap
  <2>3. Steady(x, kroot, c, P, V, ap, W, sp, {v})
    <3>1. Alike(y, x)
      BY <1>8, <1>9, <1>13 DEF Alike, Untouched
    <3>2. Steady(x, kroot, c, P, V, ap, W, sp, Y)
      BY <1>11, <3>1, SteadyAlike
    <3> QED BY <1>4, <3>2
  <2>4. Steady(g, kroot, c, P, V, ap, W, sp, {}) /\ IsMem(g)
    BY <1>1, <2>1, <2>3, KernelUnmap
  <2>5. Alike(g, Settled(g))
    BY <2>4, SettledAlike
  <2>6. Steady(Settled(g), kroot, c, P, V, ap, W, sp, {})
    BY <2>4, <2>5, SteadyAlike
  <2>7. Steady(Settled(g), kroot, c, P, U \cup {f}, ap, W, sp, X)
    <3>1. Steady(Settled(g), kroot, c, P, V, ap, W, sp, X)
      BY <2>6 DEF Steady, Upper
    <3> QED BY <1>4, <3>1
  <2> QED BY <2>2, <2>4, <2>7, GiveFrame
<1> QED BY <1>12, <1>13

(* The self-test leaves the kernel's tree and the books as they were. *)
LEMMA SmapWell ==
  ASSUME NEW m, NEW c \in Frame, NEW P, P \subseteq Frame, c \notin P, NEW U,
         NEW ap \in BOOLEAN, NEW W, NEW sp, HeldIn(sp) = {}, kroot \in Frame, gib \in BOOLEAN,
         NEW X, \A y : y \notin X,
         Steady(m, kroot, c, P, U, ap, W, sp, X)
  PROVE  Steady(Settled(selftest_smap(m)), kroot, c, P, U, ap, W, sp, X)
<1>1. PICK n, z : n = alloc_frame(m) /\ z = selftest_smap(m)
  OBVIOUS
<1>2. z = smap_map(n)
  BY <1>1 DEF selftest_smap
<1>3. /\ IsMem(n) /\ n.asked = m.asked
      /\ Failed(n) => Alike(m, Settled(n))
      /\ ~Failed(n) => /\ n.got \in P /\ n.got \in Frame /\ n.got # c /\ n.got \notin U
                       /\ Steady(n, kroot, c, P, U \cup {n.got}, ap, W, sp, X)
  <2>1. n = alloc_frame(m)
    BY <1>1
  <2>2. Took(m, n, kroot, c, P, U, ap, W, sp, X)
    BY <2>1, TakeFrame
  <2> QED BY <2>2 DEF Took
<1>4. CASE Failed(n)
  <2>1. z = n
    BY <1>2, <1>4 DEF smap_map
  <2>2. Steady(Settled(n), kroot, c, P, U, ap, W, sp, X)
    BY <1>3, <1>4, SteadyAlike
  <2> QED BY <1>1, <2>1, <2>2
<1>5. CASE ~Failed(n)
  <2>1. PICK f : f = n.got
    OBVIOUS
  <2>2. z = smap_unmap(Map(n, kroot, SMAP_TEST_ADDR, f, 1, to_user(RW), FALSE), f)
    BY <1>2, <1>5, <2>1 DEF smap_map
  <2>3. Loose(f, P, U, c) /\ Steady(n, kroot, c, P, U \cup {f}, ap, W, sp, X)
    BY <1>3, <1>5, <2>1 DEF Loose
  <2>4. Steady(Settled(z), kroot, c, P, U, ap, W, sp, X)
    BY <1>5, <2>2, <2>3, SmapPage
  <2> QED BY <1>1, <2>4
<1> QED BY <1>4, <1>5

(* The second window onto the local APIC needs no frame. *)
LEMMA WindowStays ==
  ASSUME NEW m, NEW c \in Frame, NEW P, NEW U, NEW ap, NEW W, NEW sp, HeldIn(sp) = {}, NEW X,
         Steady(m, kroot, c, P, U, ap, W, sp, X), kroot \in Frame, gib \in BOOLEAN,
         Asked(m.asked[kroot], DEVICE_BASE).mapped, NEW phys \in Nat, NEW j \in 0 .. Fan - 1
  PROVE  ~Failed(Map(m, kroot, DEVICE_BASE + j, phys, 1, RW, TRUE))
<1> DEFINE a == AskedFn(m)
           v == DEVICE_BASE + 0
<1>1. PICK o : Sane(m, o, kroot, c, P, U, ap, W, sp)
  BY DEF Steady
<1>2. PICK Rs : Rs = {kroot}
  OBVIOUS
<1>3. Kept(m, o, Rs, kroot, c) /\ ~Failed(m) /\ kroot \in Rs
  BY <1>1, <1>2, AloneRoots DEF Sane
<1>4. v \in Page /\ v >= USER_LIMIT /\ Block(v, 3) # KernelFirst /\ v = DEVICE_BASE
      /\ Block(v, 1) = Block(DEVICE_BASE, 1)
  <2>1. 0 \in 0 .. Fan - 1
    BY Numbers
  <2>2. DEVICE_BASE \in Nat
    <3>1. level_size(3) \in Nat
      BY SizeNat
    <3> QED BY <3>1, Numbers DEF DEVICE_BASE, Top
  <2> QED BY <2>1, <2>2, DevicePage
<1>5. a[kroot][v].mapped
  BY <1>4 DEF AskedFn
<1>6. TreeOf(kroot, kroot, v) = kroot
  BY DEF TreeOf
<1>7. Shape(m, o, a, Rs, kroot, c)
  BY <1>3 DEF Kept
<1> HIDE DEF a
<1>8. PICK g : TableFor(o, kroot, v, 0, g)
  BY <1>3, <1>4, <1>5, <1>6, <1>7, LeafTable
<1> DEFINE w == DEVICE_BASE + j
           b == TRUE
<1>9. w \in Page /\ Block(w, 1) = Block(v, 1)
  BY <1>4, DevicePage
<1> HIDE DEF w
<1>10. TableFor(o, kroot, w, 0, g)
  <2>1. 0 + 1 = 1
    OBVIOUS
  <2> QED BY <1>8, <1>9, <2>1 DEF TableFor
<1>11. MayMap(Rs, kroot, kroot, w) /\ b \in BOOLEAN
  BY <1>2, <1>9 DEF MayMap
<1> HIDE DEF b
<1>12. ~Failed(Map(m, kroot, w, phys, 1, RW, b))
  BY <1>3, <1>10, <1>11, KernelRights, MapStays
<1> QED BY <1>12 DEF w, b

(* What an unowned frame holds when read as a table is nobody's business. *)
LEMMA KeptElsewhere ==
  ASSUME NEW m, NEW o, NEW Rs, NEW k \in Rs, NEW c, Kept(m, o, Rs, k, c), NEW x, IsMem(x),
         x.asked = m.asked, \A f \in x.pool : o.R[f] = Nobody, NEW g, o.R[g] = Nobody,
         \A f \in Frame : f # g => x.table[f] = m.table[f]
  PROVE  Kept(x, o, Rs, k, c)
<1> DEFINE a == AskedFn(m)
<1>1. Shape(m, o, a, Rs, k, c)
  BY DEF Kept
<1>2. AskedFn(x) = a
  BY Zenon DEF AskedFn
<1> HIDE DEF a
<1>3. /\ IsMem(m) /\ IsOwn(o) /\ Rs \subseteq Frame
      /\ RootsOwn(o, Rs) /\ Owners(o, Rs) /\ Once(o) /\ Hung(m, o)
      /\ Entries(m, o, a, Rs, k, c) /\ Shared(m, Rs, k)
  BY <1>1 DEF Shape
<1>4. \A f \in Frame : o.R[f] # Nobody => x.table[f] = m.table[f]
  OBVIOUS
<1>5. Hung(x, o)
  BY <1>3, <1>4 DEF Hung
<1>6. Entries(x, o, a, Rs, k, c)
  BY <1>3, <1>4 DEF Entries
<1>7. Shared(x, Rs, k)
  <2>1. \A r \in Rs : r \in Frame /\ o.R[r] # Nobody
    BY <1>3 DEF RootsOwn, Frame, Nobody
  <2>2. \A r \in Rs : x.table[r] = m.table[r]
    BY <1>4, <2>1
  <2>3. k \in Rs
    OBVIOUS
  <2> QED BY <1>3, <2>2, <2>3 DEF Shared
<1>8. PoolFree(x, o)
  BY DEF PoolFree
<1>9. Shape(x, o, a, Rs, k, c)
  BY <1>3, <1>5, <1>6, <1>7, <1>8 DEF Shape
<1> QED BY <1>2, <1>9 DEF Kept

(* The clock's frame is x.got, or the taking failed and nothing changed. *)
Ticks(m, x, k, P, U, ap, W, sp, X) ==
  /\ Failed(x) => Alike(m, Settled(x))
  /\ ~Failed(x) => /\ x.got \in P /\ x.got \in Frame
                  /\ Steady(Settled(x), k, x.got, P, U \cup {x.got}, ap, W, sp, X)

(* The clock's frame is taken. *)
LEMMA ClockTaken ==
  ASSUME NEW m, NEW k \in Frame, NEW c \in Frame, NEW P, P \subseteq Frame, NEW U,
         NEW ap \in BOOLEAN, NEW W, NEW sp, HeldIn(sp) = {}, NEW X,
         Steady(m, k, c, P, U, ap, W, sp, X), NEW x, x = Zeroed(alloc_frame(m), {})
  PROVE  Ticks(m, x, k, P, U, ap, W, sp, X)
<1>1. PICK n : n = alloc_frame(m)
  OBVIOUS
<1>2. x = Zeroed(n, {})
  BY <1>1
<1>3. PICK o : Sane(m, o, k, c, P, U, ap, W, sp)
  BY DEF Steady
<1>4. PICK Rs : Rs = {k}
  OBVIOUS
<1>5. RootsIn(k, sp) = Rs
  BY <1>4, AloneRoots
<1>6. /\ Kept(m, o, Rs, k, c) /\ Account(m, o, k, P, U, ap) /\ Blank(m, Rs)
      /\ IsMem(m) /\ ~Failed(m) /\ PoolFree(m, o) /\ m.pool \subseteq P /\ m.pool \subseteq Frame
  BY <1>3, <1>5 DEF Sane, Kept, Shape, Account, IsMem
<1>7. /\ IsMem(n) /\ n.table = m.table /\ n.bytes = m.bytes /\ n.asked = m.asked
      /\ \/ Failed(n) /\ n.pool = m.pool /\ n.inUse = m.inUse
         \/ /\ ~Failed(n) /\ n.got \in m.pool /\ n.pool = m.pool \ {n.got}
            /\ n.inUse = m.inUse + 1
  BY <1>1, <1>6, AllocOne
<1>8. CASE Failed(n)
  <2>1. x = n
    BY <1>2, <1>8 DEF Zeroed
  <2>2. Alike(n, Settled(n))
    BY <1>7, SettledAlike
  <2>3. Alike(m, Settled(x))
    BY <1>7, <1>8, <2>1, <2>2 DEF Alike, Untouched
  <2> QED BY <1>8, <2>1, <2>3 DEF Ticks
<1>9. CASE ~Failed(n)
  <2>1. PICK f : f = n.got
    OBVIOUS
  <2>2. f \in m.pool /\ f \in P /\ f \in Frame /\ o.R[f] = Nobody
        /\ n.pool = m.pool \ {f} /\ n.inUse = m.inUse + 1
    BY <1>6, <1>7, <1>9, <2>1 DEF PoolFree
  <2>3. /\ IsMem(x) /\ ~Failed(x) /\ x.pool = n.pool /\ x.inUse = n.inUse /\ x.got = f
        /\ x.asked = n.asked
        /\ x.table = [n.table EXCEPT ![f] = EmptyTable] /\ x.bytes = [n.bytes EXCEPT ![f] = {}]
    <3>1. /\ IsMem(x) /\ ~Failed(x) /\ x.pool = n.pool /\ x.inUse = n.inUse /\ x.got = n.got
          /\ x.asked = n.asked
          /\ x.table = [n.table EXCEPT ![n.got] = EmptyTable]
          /\ x.bytes = [n.bytes EXCEPT ![n.got] = {}]
      BY SMTT(30), <1>2, <1>7, <1>9, ZeroedIs
    <3> QED BY <2>1, <3>1
  <2>4. PICK y : y = Settled(x)
    OBVIOUS
  <2>5. Alike(x, y)
    BY <2>3, <2>4, SettledAlike
  <2>6. /\ IsMem(y) /\ y.pool = m.pool \ {f} /\ y.inUse = m.inUse + 1 /\ y.asked = m.asked
        /\ ~Failed(y) /\ y.bytes[f] = {}
        /\ \A g \in Frame : g # f => y.table[g] = m.table[g]
    <3>1. m.bytes = [g \in Frame |-> m.bytes[g]] /\ m.table \in [Frame -> [Slot -> EntryT]]
      BY <1>6 DEF IsMem
    <3>2. x.bytes[f] = {} /\ \A g \in Frame : g # f => x.table[g] = m.table[g]
      BY <1>7, <2>2, <2>3, <3>1
    <3> QED BY ZenonT(30), <1>7, <2>2, <2>3, <2>5, <3>2 DEF Alike, Untouched
  <2>7. Kept(y, o, Rs, k, f)
    <3>1. k \in Rs /\ \A g \in y.pool : o.R[g] = Nobody
      BY <1>4, <1>6, <2>6 DEF PoolFree
    <3>2. Kept(y, o, Rs, k, c)
      BY <1>6, <2>2, <2>6, <3>1, KeptElsewhere
    <3> QED BY <1>4, <3>2, KeptClock
  <2>8. PICK V : V = U \cup {f}
    OBVIOUS
  <2>9. Account(y, o, k, P, V, ap)
    <3>1. Ledger(y) = Ledger(m)
      BY <1>6, <2>2, <2>6, LedgerTake
    <3>2. /\ \A g \in U : g \in Frame /\ g \notin m.pool /\ o.R[g] = Nobody
          /\ m.pool \subseteq P /\ \A g \in Frame : o.R[g] # Nobody => g \in P
          /\ \A g \in Frame : o.R[g] = k => o.L[g] >= 0
          /\ ap => /\ Ledger(m) = Cardinality(P)
                   /\ \A g \in P : g \in m.pool \/ o.R[g] # Nobody \/ g \in U
      BY <1>6 DEF Account
    <3>3. \A g : (g \in V <=> g \in U \/ g = f) /\ (g \in y.pool <=> g \in m.pool /\ g # f)
      BY <2>6, <2>8
    <3> QED BY <2>2, <3>1, <3>2, <3>3 DEF Account
  <2>10. Blank(y, Rs)
    BY <1>6, <2>6 DEF Blank
  <2>11. f # 0 => f \in V /\ y.bytes[f] = {}
    BY <2>6, <2>8
  <2>12. Sane(y, o, k, f, P, V, ap, W, sp)
    BY <1>5, <2>6, <2>7, <2>9, <2>10, <2>11 DEF Sane
  <2>13. Upper(y, k, X)
    BY <2>6 DEF Steady, Upper
  <2>14. Steady(y, k, f, P, V, ap, W, sp, X)
    BY <2>12, <2>13 DEF Steady
  <2> QED BY <2>2, <2>3, <2>4, <2>8, <2>14 DEF Ticks
<1> QED BY <1>8, <1>9

-----------------------------------------------------------------------------
(* The inductive invariant.                                                 *)

(* What is known of the machine, the screen and the embedded program.       *)
MachineOK ==
  /\ gib \in BOOLEAN /\ smap \in BOOLEAN
  /\ fb.phys \in Nat /\ fb.len \in Nat /\ fb.phys + fb.len <= level_size(3)
  /\ image.segments \in Seq(Segment)
  /\ pooled \subseteq Frame /\ 0 \notin pooled

(* The program's pages, and whether none is given twice.                    *)
ProgramPages == PagesUpTo(Len(image.segments))
ProgramApart ==
  SegmentsApart /\ ProgramPages \cap {USER_STACK, USER_DATA_VA, USER_CLOCK_VA} = {}

(* The frames that left the pool for no tree, and the page the boot borrows *)
(* below the user limit.                                                    *)
Nowhere == stacks \cup leaked \cup ({clock} \ {0})
Open == IF phase = "cores" THEN {TRAMPOLINE_PHYS} ELSE {}

WellKept ==
  Steady(mem, kroot, clock, pooled, Nowhere, ProgramApart, ProgramPages, space, Open)

Early == {"smap", "apic", "timer", "stage", "cores"}
Phase == Early \cup {"vm", "halt", "stop", "user", "run", "overwritten"}

AtStart ==
  /\ IsMem(mem) /\ ~Failed(mem) /\ mem.pool = pooled /\ mem.inUse = 0
  /\ \A f \in Frame : mem.asked[f] = <<>>
  /\ kroot = 0 /\ deviceNext = 0 /\ clock = 0 /\ stacks = {} /\ leaked = {}
  /\ space = [s \in Space |-> NoSpace]

Booted ==
  /\ kroot \in pooled /\ clock \in Frame /\ deviceNext \in Nat /\ Rooting(space, kroot)
  /\ WellKept
  /\ phase # "run" => HeldIn(space) = {}
  /\ phase \in Early \cup {"user"} => clock = 0
  /\ phase = "run" => clock # 0
  /\ phase \in Early => stacks = {}
  /\ phase \in {"smap", "apic"} => deviceNext = 0
  /\ phase = "timer" => deviceNext = 2
  /\ phase = "stage" => deviceNext = 3
  /\ phase \in {"timer", "stage"} => Asked(mem.asked[kroot], DEVICE_BASE).mapped
  /\ \A s \in Space : space[s].stage \in {"built", "live"} => space[s].borrowed = {clock}

IInv ==
  /\ phase \in Phase /\ MachineOK
  /\ phase = "vm" => AtStart
  /\ phase = "halt" => kroot = 0 /\ HeldIn(space) = {}
  /\ phase = "overwritten" => Overwritten /\ HeldIn(space) = {}
  /\ phase \notin {"vm", "halt", "overwritten"} => Booted

(* The machine and its program stay what they were. *)
LEMMA SameMachine ==
  ASSUME UNCHANGED machine
  PROVE  /\ gib' = gib /\ smap' = smap /\ fb' = fb /\ image' = image /\ pooled' = pooled
         /\ MachineOK' = MachineOK /\ ProgramPages' = ProgramPages /\ ProgramApart' = ProgramApart
<1>1. gib' = gib /\ smap' = smap /\ fb' = fb /\ image' = image /\ pooled' = pooled
  BY DEF machine
<1>2. MachineOK' = MachineOK
  BY <1>1 DEF MachineOK
<1>3. ProgramPages' = ProgramPages
  BY <1>1 DEF ProgramPages, PagesUpTo
<1>4. SegmentsApart' = SegmentsApart
  BY <1>1 DEF SegmentsApart
<1>5. ProgramApart' = ProgramApart
  BY <1>3, <1>4 DEF ProgramApart
<1> QED BY <1>1, <1>2, <1>3, <1>5

(* Whether the program's pages are apart is true or false. *)
LEMMA ApartBoolean == ProgramApart \in BOOLEAN
BY DEF ProgramApart

(* No space, no root. *)
LEMMA NoSpaces ==
  ASSUME NEW k, NEW sp, sp = [s \in Space |-> NoSpace]
  PROVE  Rooting(sp, k) /\ HeldIn(sp) = {}
<1>1. NoSpace \in SpaceT /\ NoSpace.stage = "none"
  <2>1. 0 \in Frame
    BY Numbers DEF Frame
  <2> QED BY <2>1 DEF NoSpace, SpaceT, Stages
<1>2. HeldIn(sp) = {}
  BY <1>1 DEF HeldIn
<1>3. sp \in [Space -> SpaceT]
  BY <1>1
<1> QED BY <1>2, <1>3 DEF Rooting

(* A machine starts with its memory untouched. *)
LEMMA InitHolds == Init => IInv
<1> SUFFICES ASSUME Init PROVE IInv
  OBVIOUS
<1>1. PICK x \in Machines : /\ pooled = x.pool
                            /\ gib = x.gib /\ smap = x.smap /\ fb = x.fb /\ image = x.image
  BY DEF Init
<1>2. /\ x.pool \subseteq ImagePages .. Frames - 1
      /\ x.gib \in BOOLEAN /\ x.smap \in BOOLEAN
      /\ x.fb.phys \in Nat /\ x.fb.len \in Nat /\ x.fb.phys + x.fb.len <= level_size(3)
      /\ x.image.segments \in Seq(Segment)
  BY MachinesAssumption DEF Top
<1>3. pooled \subseteq Frame /\ 0 \notin pooled
  BY <1>1, <1>2, Numbers DEF Frame, ImagePages
<1>4. MachineOK
  BY <1>1, <1>2, <1>3 DEF MachineOK
<1>5. phase = "vm"
  BY DEF Init
<1>6. mem = [table |-> [f \in Frame |-> EmptyTable], bytes |-> [f \in Frame |-> {Kernel}],
             pool |-> pooled, inUse |-> 0, got |-> 0, err |-> "none",
             asked |-> [f \in Frame |-> <<>>]]
  BY DEF Init
<1>7. EmptyTable \in [Slot -> EntryT]
  BY DEF EmptyTable, Empty, EntryT
<1>8. /\ mem.table = [f \in Frame |-> EmptyTable] /\ mem.bytes = [f \in Frame |-> {Kernel}]
      /\ mem.pool = pooled /\ mem.inUse = 0 /\ mem.got = 0 /\ mem.err = "none"
      /\ mem.asked = [f \in Frame |-> <<>>]
  BY <1>6
<1>9. IsMem(mem)
  <2>1. mem = [table |-> mem.table, bytes |-> mem.bytes, pool |-> mem.pool, inUse |-> mem.inUse,
               got |-> mem.got, err |-> mem.err, asked |-> mem.asked]
    BY <1>6, <1>8
  <2>2. mem.table \in [Frame -> [Slot -> EntryT]]
    BY <1>7, <1>8
  <2>3. mem.bytes = [f \in Frame |-> mem.bytes[f]] /\ mem.asked = [f \in Frame |-> mem.asked[f]]
    BY <1>8
  <2>4. mem.pool \subseteq Frame /\ mem.inUse \in Int /\ mem.got \in Frame
    BY <1>3, <1>8, Numbers DEF Frame
  <2> QED BY <2>1, <2>2, <2>3, <2>4 DEF IsMem
<1>10. AtStart
  <2>1. ~Failed(mem) /\ \A f \in Frame : mem.asked[f] = <<>>
    BY <1>8 DEF Failed
  <2> QED BY <1>8, <1>9, <2>1 DEF AtStart, Init
<1> QED BY <1>4, <1>5, <1>10 DEF IInv, Phase

(* The kernel's tree is switched to, or the boot ends. *)
LEMMA VmStep == IInv /\ VmInit => IInv'
<1> SUFFICES ASSUME IInv, VmInit PROVE IInv'
  OBVIOUS
<1>1. /\ phase = "vm" /\ MachineOK /\ AtStart
  BY DEF IInv, VmInit
<1>2. PICK m : m = mem
  OBVIOUS
<1>3. PICK k, x : k = alloc_table(m).got /\ x = build_kernel(alloc_table(m), k)
  OBVIOUS
<1>4. SwitchTo(k, x)
  BY <1>2, <1>3 DEF VmInit, Rooted
<1>5. /\ mem' = Settled(x)
      /\ \/ ~Failed(x) /\ phase' = "smap" /\ kroot' = k
         \/ phase' = "halt" /\ kroot' = kroot
      /\ UNCHANGED machine /\ deviceNext' = deviceNext /\ stacks' = stacks /\ clock' = clock
      /\ space' = space /\ leaked' = leaked
  BY <1>4, Zenon DEF SwitchTo
<1>6. MachineOK' /\ pooled' = pooled
  BY <1>1, <1>5, SameMachine
<1>7. /\ IsMem(m) /\ ~Failed(m) /\ m.pool = pooled /\ m.inUse = 0 /\ \A f \in Frame : m.asked[f] = <<>>
      /\ kroot = 0 /\ deviceNext = 0 /\ clock = 0 /\ stacks = {} /\ leaked = {}
      /\ space = [s \in Space |-> NoSpace]
  BY <1>1, <1>2 DEF AtStart
<1>8. \A j : Rooting(space', j) /\ HeldIn(space') = {}
  <2>1. space' = [s \in Space |-> NoSpace]
    BY <1>5, <1>7
  <2> QED BY <2>1, NoSpaces
<1>9. CASE phase' = "halt" /\ kroot' = kroot
  <2>1. kroot' = 0
    BY <1>7, <1>9
  <2>2. phase' \in Phase
    BY <1>9 DEF Phase
  <2> QED BY <1>6, <1>8, <1>9, <2>1, <2>2 DEF IInv
<1>10. CASE ~Failed(x) /\ phase' = "smap" /\ kroot' = k
  <2>1. PICK c : c = 0
    OBVIOUS
  <2>2. PICK sp, y, ap, W : sp = space' /\ y = Settled(x) /\ ap = ProgramApart' /\ W = ProgramPages'
    OBVIOUS
  <2>3. HeldIn(sp) = {} /\ ap \in BOOLEAN
    <3>1. ap = ProgramApart
      BY <1>5, <2>2, SameMachine
    <3> QED BY <1>8, <2>2, <3>1, ApartBoolean
  <2>4. gib \in BOOLEAN /\ fb.phys \in Nat /\ fb.len \in Nat /\ fb.phys + fb.len <= level_size(3)
    BY <1>1 DEF MachineOK
  <2>5. /\ IsMem(m) /\ ~Failed(m) /\ m.inUse = 0 /\ \A f \in Frame : m.asked[f] = <<>>
    BY <1>7
  <2>6. x = build_kernel(alloc_table(m), alloc_table(m).got)
    BY <1>3
  <2>7. FirstRoot(m, alloc_table(m).got, c, y, ap, W, sp)
    BY <1>10, <2>1, <2>2, <2>3, <2>4, <2>5, <2>6, BootKernel
  <2>8. k \in m.pool /\ Steady(y, k, c, m.pool, {}, ap, W, sp, {})
    BY <1>3, <2>7 DEF FirstRoot
  <2>9. WellKept'
    <3>1. Nowhere' = {} /\ Open' = {}
      BY <1>5, <1>7, <1>10 DEF Nowhere, Open
    <3>2. mem' = y /\ kroot' = k /\ clock' = c /\ pooled' = m.pool
      BY <1>5, <1>6, <1>7, <1>10, <2>1, <2>2
    <3> QED BY <2>2, <2>8, <3>1, <3>2 DEF WellKept
  <2>10. /\ kroot' \in pooled' /\ clock' \in Frame /\ deviceNext' = 0 /\ Rooting(space', kroot')
         /\ clock' = 0 /\ stacks' = {} /\ HeldIn(space') = {}
    BY <1>5, <1>6, <1>7, <1>8, <1>10, <2>8, Numbers DEF Frame
  <2>11. \A s \in Space : space'[s].stage = "none"
    BY <2>10 DEF HeldIn
  <2>12. Booted'
    <3>1. phase' = "smap"
      BY <1>10
    <3> QED BY <2>9, <2>10, <2>11, <3>1 DEF Booted, Early
  <2>13. phase' = "smap" /\ phase' \in Phase
    BY <1>10 DEF Phase, Early
  <2> QED BY <1>6, <2>12, <2>13 DEF IInv
<1> QED BY <1>5, <1>9, <1>10

-----------------------------------------------------------------------------
(* The boot, step by step.                                                  *)

(* What every step of the boot finds.                                       *)
LEMMA BootFinds ==
  ASSUME IInv, phase \in Early \cup {"user"}
  PROVE  /\ MachineOK /\ Booted /\ gib \in BOOLEAN
         /\ kroot \in Frame /\ kroot \in pooled /\ clock \in Frame /\ clock \notin pooled /\ clock = 0
         /\ pooled \subseteq Frame /\ ProgramApart \in BOOLEAN /\ HeldIn(space) = {}
         /\ Steady(mem, kroot, clock, pooled, Nowhere, ProgramApart, ProgramPages, space, Open)
         /\ IsMem(mem) /\ ~Failed(mem) /\ deviceNext \in Nat
<1>1. phase \notin {"vm", "halt", "run", "overwritten"}
  BY DEF Early
<1>2. MachineOK /\ Booted
  BY <1>1 DEF IInv
<1>3. /\ kroot \in pooled /\ clock \in Frame /\ clock = 0 /\ deviceNext \in Nat
      /\ HeldIn(space) = {} /\ WellKept
  BY <1>1, <1>2 DEF Booted
<1>4. gib \in BOOLEAN /\ pooled \subseteq Frame /\ 0 \notin pooled
  BY <1>2 DEF MachineOK
<1>5. Steady(mem, kroot, clock, pooled, Nowhere, ProgramApart, ProgramPages, space, Open)
  BY <1>3 DEF WellKept
<1>6. IsMem(mem) /\ ~Failed(mem)
  BY <1>5 DEF Steady, Sane, Kept, Shape
<1> QED BY <1>2, <1>3, <1>4, <1>5, <1>6, ApartBoolean

(* A step of the boot that keeps the trees well and leaves the root, the    *)
(* clock and the spaces alone keeps the invariant.                          *)
LEMMA BootGoesOn ==
  ASSUME IInv, phase \in Early, UNCHANGED machine, kroot' = kroot, clock' = clock, space' = space,
         phase' \in {"apic", "timer", "stage", "cores", "user", "stop"},
         Steady(mem', kroot, clock, pooled, Nowhere', ProgramApart, ProgramPages, space, Open'),
         deviceNext' \in Nat, phase' \in Early => stacks' = {},
         phase' = "apic" => deviceNext' = 0,
         phase' = "timer" => deviceNext' = 2,
         phase' = "stage" => deviceNext' = 3,
         phase' \in {"timer", "stage"} => Asked(mem'.asked[kroot], DEVICE_BASE).mapped
  PROVE  IInv'
<1>1. MachineOK /\ Booted /\ kroot \in pooled /\ clock \in Frame /\ clock = 0 /\ HeldIn(space) = {}
  BY BootFinds
<1>2. MachineOK' /\ pooled' = pooled /\ ProgramPages' = ProgramPages /\ ProgramApart' = ProgramApart
  BY <1>1, SameMachine
<1>3. WellKept'
  BY <1>2 DEF WellKept
<1>4. phase' # "run" /\ phase' \notin {"vm", "halt", "smap", "overwritten"} /\ phase' \in Phase
  BY DEF Phase, Early
<1>5. HeldIn(space') = {} /\ Rooting(space', kroot')
  BY <1>1 DEF Booted
<1>6. \A s \in Space : space'[s].stage = "none"
  BY <1>5 DEF HeldIn
<1>7. Booted'
  BY <1>1, <1>2, <1>3, <1>4, <1>5, <1>6 DEF Booted
<1> QED BY <1>2, <1>4, <1>7 DEF IInv

(* The self-test leaves the kernel's tree as it found it.                   *)
LEMMA SmapStep == IInv /\ SelftestSmap => IInv'
<1> SUFFICES ASSUME IInv, SelftestSmap PROVE IInv'
  OBVIOUS
<1>1. /\ phase = "smap" /\ phase' = "apic"
      /\ mem' = (IF smap THEN Settled(selftest_smap(mem)) ELSE mem)
      /\ UNCHANGED machine /\ kroot' = kroot /\ deviceNext' = deviceNext /\ stacks' = stacks
      /\ clock' = clock /\ space' = space /\ leaked' = leaked
  BY Zenon DEF SelftestSmap
<1>2. phase \in Early \cup {"user"} /\ phase \in Early
  BY <1>1 DEF Early
<1>3. /\ Booted /\ gib \in BOOLEAN /\ kroot \in Frame /\ clock \in Frame /\ clock \notin pooled
      /\ pooled \subseteq Frame /\ ProgramApart \in BOOLEAN /\ HeldIn(space) = {}
      /\ Steady(mem, kroot, clock, pooled, Nowhere, ProgramApart, ProgramPages, space, Open)
  BY <1>2, BootFinds
<1>4. deviceNext = 0 /\ stacks = {}
  BY <1>1, <1>2, <1>3 DEF Booted
<1>5. Nowhere' = Nowhere /\ Open' = Open /\ Open = {}
  BY <1>1 DEF Nowhere, Open
<1>6. Steady(mem', kroot, clock, pooled, Nowhere, ProgramApart, ProgramPages, space, Open)
  <2>1. CASE smap
    <3>1. PICK X : X = Open
      OBVIOUS
    <3>2. \A y : y \notin X
      BY <1>5, <3>1
    <3>3. Steady(mem, kroot, clock, pooled, Nowhere, ProgramApart, ProgramPages, space, X)
      BY <1>3, <3>1
    <3>4. /\ gib \in BOOLEAN /\ kroot \in Frame /\ clock \in Frame /\ clock \notin pooled
          /\ pooled \subseteq Frame /\ ProgramApart \in BOOLEAN /\ HeldIn(space) = {}
      BY <1>3
    <3>5. Steady(Settled(selftest_smap(mem)), kroot, clock, pooled, Nowhere, ProgramApart,
                 ProgramPages, space, X)
      BY <3>2, <3>3, <3>4, SmapWell
    <3> QED BY <1>1, <2>1, <3>1, <3>5
  <2>2. CASE ~smap
    BY <1>1, <1>3, <2>2
  <2> QED BY <2>1, <2>2
<1>7. /\ phase' \in {"apic", "timer", "stage", "cores", "user", "stop"}
      /\ deviceNext' \in Nat /\ deviceNext' = 0 /\ stacks' = {}
      /\ phase' # "timer" /\ phase' # "stage"
  BY <1>1, <1>4
<1>8. Steady(mem', kroot, clock, pooled, Nowhere', ProgramApart, ProgramPages, space, Open')
  BY <1>5, <1>6
<1> QED BY <1>1, <1>2, <1>7, <1>8, BootGoesOn

(* A memory and a window counter between which the trees are well.          *)
Readied(d) ==
  /\ d = [m |-> d.m, next |-> d.next] /\ IsMem(d.m) /\ d.next \in Nat
  /\ Steady(Settled(d.m), kroot, clock, pooled, Nowhere, ProgramApart, ProgramPages, space, Open)

(* The boot's memory is ready for a window.                                 *)
LEMMA ReadyNow ==
  ASSUME IInv, phase \in Early
  PROVE  Readied(NoWindow(mem)) /\ NoWindow(mem).m = mem /\ NoWindow(mem).next = deviceNext
<1>1. NoWindow(mem).m = mem /\ NoWindow(mem).next = deviceNext
  BY DEF NoWindow
<1>2. NoWindow(mem) = [m |-> NoWindow(mem).m, next |-> NoWindow(mem).next]
  BY DEF NoWindow
<1>3. /\ IsMem(mem) /\ deviceNext \in Nat /\ ProgramApart \in BOOLEAN
      /\ Steady(mem, kroot, clock, pooled, Nowhere, ProgramApart, ProgramPages, space, Open)
  BY BootFinds
<1>4. Alike(mem, Settled(mem))
  BY <1>3, SettledAlike
<1>5. Steady(Settled(mem), kroot, clock, pooled, Nowhere, ProgramApart, ProgramPages, space, Open)
  BY <1>3, <1>4, SteadyAlike
<1> QED BY <1>1, <1>2, <1>3, <1>5 DEF Readied

(* Opening a window leaves it ready for the next.                           *)
LEMMA ReadyWindow ==
  ASSUME IInv, phase \in Early, NEW d, Readied(d), NEW phys \in Nat
  PROVE  Readied(map_window(d, phys)) /\ Opened(d, map_window(d, phys), kroot)
<1>1. /\ clock \in Frame /\ pooled \subseteq Frame /\ ProgramApart \in BOOLEAN /\ HeldIn(space) = {}
      /\ kroot \in Frame /\ gib \in BOOLEAN
  BY BootFinds
<1>2. /\ Before(d)
      /\ Steady(Settled(d.m), kroot, clock, pooled, Nowhere, ProgramApart, ProgramPages, space, Open)
  BY DEF Readied, Before
<1>3. PICK e : e = map_window(d, phys)
  OBVIOUS
<1>4. Windowed(d, e, clock, pooled, Nowhere, ProgramApart, ProgramPages, space, Open)
  BY <1>1, <1>2, <1>3, OpenWindow
<1>5. Readied(e)
  BY <1>4 DEF Readied, Opened, Windowed
<1> QED BY <1>3, <1>4, <1>5 DEF Windowed

(* A step that ends with the windows opened, or stops the boot.             *)
LEMMA ProceedStep ==
  ASSUME IInv, phase \in {"apic", "timer"}, NEW d, Readied(d), NEW ok \in BOOLEAN,
         NEW then \in {"timer", "stage"}, Proceed(d, ok, then, "stop"),
         ok /\ ~Failed(d.m) =>
           /\ d.next = IF then = "timer" THEN 2 ELSE 3
           /\ Asked(d.m.asked[kroot], DEVICE_BASE).mapped
  PROVE  IInv'
<1>1. /\ phase' = (IF ok /\ ~Failed(d.m) THEN then ELSE "stop")
      /\ mem' = Settled(d.m) /\ deviceNext' = d.next /\ UNCHANGED machine /\ kroot' = kroot
      /\ stacks' = stacks /\ clock' = clock /\ space' = space /\ leaked' = leaked
  BY Zenon DEF Proceed
<1>2. phase \in Early
  BY DEF Early
<1>3. Booted /\ stacks = {}
  <2>1. Booted
    BY <1>2, BootFinds
  <2> QED BY <1>2, <2>1 DEF Booted
<1>4. phase' = then \/ phase' = "stop"
  BY <1>1
<1>5. Nowhere' = Nowhere /\ Open' = Open
  BY <1>1, <1>4 DEF Nowhere, Open
<1>6. /\ IsMem(d.m) /\ d.next \in Nat
      /\ Steady(Settled(d.m), kroot, clock, pooled, Nowhere, ProgramApart, ProgramPages, space, Open)
  BY DEF Readied
<1>7. mem'.asked = d.m.asked
  <2>1. Alike(d.m, Settled(d.m))
    BY <1>6, SettledAlike
  <2> QED BY <1>1, <2>1 DEF Alike
<1>8. Steady(mem', kroot, clock, pooled, Nowhere', ProgramApart, ProgramPages, space, Open')
  BY <1>1, <1>5, <1>6
<1>9. phase' # "stop" => ok /\ ~Failed(d.m) /\ phase' = then
  BY <1>1
<1>10. /\ phase' \in {"apic", "timer", "stage", "cores", "user", "stop"} /\ phase' # "apic"
       /\ phase' = "timer" => deviceNext' = 2
       /\ phase' = "stage" => deviceNext' = 3
       /\ phase' \in {"timer", "stage"} => Asked(mem'.asked[kroot], DEVICE_BASE).mapped
       /\ deviceNext' \in Nat /\ stacks' = {}
  BY <1>1, <1>3, <1>4, <1>6, <1>7, <1>9
<1> QED BY <1>1, <1>2, <1>8, <1>10, BootGoesOn

(* The interrupt controllers get a window each.                             *)
LEMMA ApicStep == IInv /\ InitApic => IInv'
<1> SUFFICES ASSUME IInv, InitApic PROVE IInv'
  OBVIOUS
<1>1. phase = "apic" /\ phase \in Early
  BY DEF InitApic, Early
<1>2. PICK d0 : d0 = NoWindow(mem)
  OBVIOUS
<1>3. PICK d1, d2 : d1 = map_window(d0, LAPIC) /\ d2 = map_window(d1, IOAPIC)
  OBVIOUS
<1>4. Window(mem, LAPIC) = d1
  BY <1>2, <1>3 DEF Window, NoWindow
<1>5. Readied(d0) /\ d0.next = 0
  <2>1. Readied(d0) /\ d0.next = deviceNext
    BY <1>1, <1>2, ReadyNow
  <2>2. deviceNext = 0
    <3>1. Booted
      BY <1>1, BootFinds
    <3> QED BY <1>1, <3>1 DEF Booted
  <2> QED BY <2>1, <2>2
<1>6. Readied(d1) /\ Opened(d0, d1, kroot)
  BY <1>1, <1>3, <1>5, DevicesNat, ReadyWindow
<1>7. Readied(d2) /\ Opened(d1, d2, kroot)
  BY <1>1, <1>3, <1>6, DevicesNat, ReadyWindow
<1>8. ~Failed(d2.m) => d2.next = 2 /\ Asked(d2.m.asked[kroot], DEVICE_BASE).mapped
  <2> SUFFICES ASSUME ~Failed(d2.m) PROVE d2.next = 2 /\ Asked(d2.m.asked[kroot], DEVICE_BASE).mapped
    OBVIOUS
  <2>1. /\ ~Failed(d1.m) /\ d2.next = d1.next + 1
        /\ \A v \in Page : v # DEVICE_BASE + d1.next =>
             Asked(d2.m.asked[kroot], v) = Asked(d1.m.asked[kroot], v)
    BY <1>7 DEF Opened
  <2>2. d1.next = 0 + 1 /\ Asked(d1.m.asked[kroot], DEVICE_BASE + 0).mapped
    BY <1>5, <1>6, <2>1 DEF Opened
  <2>3. DEVICE_BASE \in Page /\ DEVICE_BASE + 0 = DEVICE_BASE /\ DEVICE_BASE # DEVICE_BASE + 1
    <3>1. 0 \in 0 .. Fan - 1
      BY Numbers
    <3>2. DEVICE_BASE + 0 \in Page
      BY <3>1, DevicePage
    <3>3. DEVICE_BASE \in Int
      BY LinearEven, Numbers DEF DEVICE_BASE, level_size, Top
    <3> QED BY <3>2, <3>3
  <2>4. d1.next = 1 /\ Asked(d1.m.asked[kroot], DEVICE_BASE).mapped
    BY <2>2, <2>3
  <2>5. Asked(d2.m.asked[kroot], DEVICE_BASE) = Asked(d1.m.asked[kroot], DEVICE_BASE)
    BY <2>1, <2>3, <2>4
  <2> QED BY <2>1, <2>4, <2>5
<1>9. \/ Proceed(d0, FALSE, "timer", "stop") \/ Proceed(d1, FALSE, "timer", "stop")
      \/ Proceed(d2, TRUE, "timer", "stop")
  <2>1. map_window(Window(mem, LAPIC), IOAPIC) = d2
    BY <1>3, <1>4
  <2> QED BY <1>2, <1>4, <2>1, Zenon DEF InitApic
<1>10. CASE Proceed(d0, FALSE, "timer", "stop")
  BY <1>1, <1>5, <1>10, ProceedStep
<1>11. CASE Proceed(d1, FALSE, "timer", "stop")
  BY <1>1, <1>6, <1>11, ProceedStep
<1>12. CASE Proceed(d2, TRUE, "timer", "stop")
  BY <1>1, <1>7, <1>8, <1>12, ProceedStep
<1> QED BY <1>9, <1>10, <1>11, <1>12

(* The HPET gets the third window.                                          *)
LEMMA TimerStep == IInv /\ InitTimer => IInv'
<1> SUFFICES ASSUME IInv, InitTimer PROVE IInv'
  OBVIOUS
<1>1. phase = "timer" /\ phase \in Early
  BY DEF InitTimer, Early
<1>2. PICK d0 : d0 = NoWindow(mem)
  OBVIOUS
<1>3. PICK d1 : d1 = map_window(d0, HPET)
  OBVIOUS
<1>4. Window(mem, HPET) = d1
  BY <1>2, <1>3 DEF Window, NoWindow
<1>5. Readied(d0) /\ d0.next = 2 /\ d0.m = mem
  <2>1. Readied(d0) /\ d0.next = deviceNext /\ d0.m = mem
    BY <1>1, <1>2, ReadyNow
  <2>2. deviceNext = 2
    <3>1. Booted
      BY <1>1, BootFinds
    <3> QED BY <1>1, <3>1 DEF Booted
  <2> QED BY <2>1, <2>2
<1>6. Readied(d1) /\ Opened(d0, d1, kroot)
  BY <1>1, <1>3, <1>5, DevicesNat, ReadyWindow
<1>7. ~Failed(d1.m) => d1.next = 3 /\ Asked(d1.m.asked[kroot], DEVICE_BASE).mapped
  <2> SUFFICES ASSUME ~Failed(d1.m) PROVE d1.next = 3 /\ Asked(d1.m.asked[kroot], DEVICE_BASE).mapped
    OBVIOUS
  <2>1. /\ d1.next = 2 + 1
        /\ \A v \in Page : v # DEVICE_BASE + 2 =>
             Asked(d1.m.asked[kroot], v) = Asked(mem.asked[kroot], v)
    BY <1>5, <1>6 DEF Opened
  <2>2. DEVICE_BASE \in Page /\ DEVICE_BASE # DEVICE_BASE + 2
    <3>1. 0 \in 0 .. Fan - 1
      BY Numbers
    <3>2. DEVICE_BASE + 0 \in Page
      BY <3>1, DevicePage
    <3>3. DEVICE_BASE \in Int
      BY LinearEven, Numbers DEF DEVICE_BASE, level_size, Top
    <3> QED BY <3>2, <3>3
  <2>3. Asked(mem.asked[kroot], DEVICE_BASE).mapped
    <3>1. Booted
      BY <1>1, BootFinds
    <3> QED BY <1>1, <3>1 DEF Booted
  <2> QED BY <2>1, <2>2, <2>3
<1>8. Proceed(d0, FALSE, "stage", "stop") \/ \E counts \in BOOLEAN : Proceed(d1, counts, "stage", "stop")
  BY <1>2, <1>4, Zenon DEF InitTimer
<1>9. CASE Proceed(d0, FALSE, "stage", "stop")
  BY <1>1, <1>5, <1>9, ProceedStep
<1>10. ASSUME NEW counts \in BOOLEAN, Proceed(d1, counts, "stage", "stop") PROVE IInv'
  BY <1>1, <1>6, <1>7, <1>10, ProceedStep
<1> QED BY <1>8, <1>9, <1>10

(* A page mapped in the kernel's tree alone leaves a memory.                *)
LEMMA KernelMapMem ==
  ASSUME NEW m, NEW k \in Frame, NEW c, NEW P, NEW U, NEW ap, NEW W, NEW sp, HeldIn(sp) = {}, NEW X,
         Steady(m, k, c, P, U, ap, W, sp, X), gib \in BOOLEAN, NEW v \in Page, NEW rt \in RightsT,
         NEW p \in Nat, NEW device \in BOOLEAN
  PROVE  IsMem(Map(m, k, v, p, 1, rt, device))
<1>1. PICK o : Sane(m, o, k, c, P, U, ap, W, sp)
  BY DEF Steady
<1>2. PICK Rs : Rs = {k}
  OBVIOUS
<1>3. k \in Rs /\ Kept(m, o, Rs, k, c) /\ ~Failed(m)
  BY <1>1, <1>2, AloneRoots DEF Sane
<1>4. MayMap(Rs, k, k, v) /\ Giving(o, k, k, c, v, p, rt)
  BY <1>2 DEF MayMap, Giving
<1>5. PICK x : x = Map(m, k, v, p, 1, rt, device)
  OBVIOUS
<1>6. PICK q : Put(m, o, x, q, Rs, k, c, k, v, Mapping(p, rt, device))
  BY <1>3, <1>4, <1>5, MapPage
<1> QED BY <1>5, <1>6 DEF Put, Kept, Shape

(* The trampoline's rights are the only ones that write and execute.        *)
LEMMA TrampolineRights ==
  ASSUME NEW rt, rt = [RW EXCEPT !.exec = TRUE]
  PROVE  rt \in RightsT /\ ~rt.user
<1>1. RW \in RightsT /\ ~RW.user
  BY KernelRights
<1> QED BY <1>1 DEF RightsT

(* The code is made of entries. *)
LEMMA CodeTyped == Code \in [Slot -> EntryT]
BY Numbers DEF Code, Leaf, RW, RO, EntryT

(* The stores into the trampoline's page change nothing that matters, when  *)
(* nobody has that frame.                                                   *)
Apart(m, c, P) == TRAMPOLINE_PHYS # c /\ TRAMPOLINE_PHYS \notin P \ m.pool

LEMMA SteadyStored ==
  ASSUME NEW m, NEW k \in Frame, NEW c \in Frame, NEW P, P \subseteq Frame, NEW U,
         NEW ap \in BOOLEAN, NEW W, NEW sp, HeldIn(sp) = {}, NEW X,
         Steady(m, k, c, P, U, ap, W, sp, X), Apart(m, c, P),
         NEW x, x = Stored(m)
  PROVE  /\ Steady(x, k, c, P, U, ap, W, sp, X)
         /\ IsMem(x) /\ ~Failed(x) /\ x.pool = m.pool /\ x.asked = m.asked
<1>1. PICK o : Sane(m, o, k, c, P, U, ap, W, sp)
  BY DEF Steady
<1>2. PICK Rs : Rs = {k}
  OBVIOUS
<1>3. RootsIn(k, sp) = Rs
  BY <1>2, AloneRoots
<1>4. /\ Kept(m, o, Rs, k, c) /\ Account(m, o, k, P, U, ap) /\ Blank(m, Rs)
      /\ IsMem(m) /\ ~Failed(m) /\ PoolFree(m, o)
  BY <1>1, <1>3 DEF Sane, Kept, Shape
<1>5. PICK g : g = TRAMPOLINE_PHYS
  OBVIOUS
<1>6. g \in Frame
  BY <1>5, TrampolineAssumption, Numbers DEF Frame, ImagePages
<1>7. o.R[g] = Nobody
  BY <1>4, <1>5, <1>6 DEF PoolFree, Account, Apart
<1>8. PICK b : b = {Kernel}
  OBVIOUS
<1>9. x = [m EXCEPT !.table[g] = Code, !.bytes[g] = b]
  BY <1>5, <1>8 DEF Stored
<1>10. /\ x.pool = m.pool /\ x.inUse = m.inUse /\ x.got = m.got /\ x.err = m.err
       /\ x.asked = m.asked /\ x.table = [m.table EXCEPT ![g] = Code]
       /\ x.bytes = [m.bytes EXCEPT ![g] = b]
       /\ x = [table |-> x.table, bytes |-> x.bytes, pool |-> x.pool, inUse |-> x.inUse,
               got |-> x.got, err |-> x.err, asked |-> x.asked]
  BY <1>4, <1>9 DEF IsMem
<1>11. IsMem(x)
  <2>1. x.table \in [Frame -> [Slot -> EntryT]]
    BY <1>4, <1>6, <1>10, CodeTyped DEF IsMem
  <2>2. x.bytes = [f \in Frame |-> x.bytes[f]]
    BY <1>4, <1>10 DEF IsMem
  <2> QED BY <1>4, <1>10, <2>1, <2>2 DEF IsMem
<1>12. ~Failed(x) /\ \A f \in Frame : g # f => x.table[f] = m.table[f]
  BY <1>4, <1>10 DEF Failed, IsMem
<1>13. Kept(x, o, Rs, k, c)
  <2>1. k \in Rs /\ \A f \in x.pool : o.R[f] = Nobody
    BY <1>2, <1>4, <1>10 DEF PoolFree
  <2>2. Kept(m, o, Rs, k, c)
    BY <1>4
  <2>3. x.asked = m.asked
    BY <1>10
  <2>4. \A f \in Frame : f # g => x.table[f] = m.table[f]
    BY <1>12
  <2> QED BY <1>7, <1>11, <2>1, <2>2, <2>3, <2>4, KeptElsewhere
<1>14. Account(x, o, k, P, U, ap) /\ Blank(x, Rs)
  BY <1>4, <1>10 DEF Account, Ledger, Blank
<1>15. Sane(x, o, k, c, P, U, ap, W, sp)
  <2>1. c # g /\ x.bytes[c] = m.bytes[c]
    BY <1>4, <1>5, <1>10 DEF Apart, IsMem
  <2>2. c # 0 => c \in U /\ x.bytes[c] = {}
    BY <1>1, <2>1 DEF Sane
  <2> QED BY <1>3, <1>12, <1>13, <1>14, <2>2 DEF Sane
<1>16. Upper(x, k, X)
  BY <1>10 DEF Steady, Upper
<1> QED BY <1>10, <1>11, <1>12, <1>15, <1>16 DEF Steady

(* The boot ends where the stores hit a frame that is lent.                 *)
LEMMA OverwriteStep ==
  ASSUME IInv, phase \in Early, NEW m, IsMem(m), LentOut(m), Overwrite(m)
  PROVE  IInv'
<1>1. /\ phase' = "overwritten" /\ mem' = Stored(m) /\ UNCHANGED machine /\ space' = space
  BY Zenon DEF Overwrite
<1>2. MachineOK /\ HeldIn(space) = {}
  BY BootFinds
<1>3. MachineOK' /\ pooled' = pooled
  BY <1>1, <1>2, SameMachine
<1>4. Stored(m).pool = m.pool
  BY DEF Stored, IsMem
<1>5. Overwritten'
  BY <1>1, <1>3, <1>4 DEF Overwritten, LentOut
<1>6. phase' \in Phase /\ phase' \notin {"vm", "halt"} /\ HeldIn(space') = {}
  BY <1>1, <1>2 DEF Phase
<1> QED BY <1>1, <1>3, <1>5, <1>6 DEF IInv

(* The trampoline's page is lent below the user limit with the second       *)
(* window open, or not lent at all.                                         *)
LEMMA StagedApart == ASSUME IInv, StageTrampoline, ~LentOut(mem) PROVE IInv'
<1>1. phase = "stage" /\ phase \in Early
  BY DEF StageTrampoline, Early
<1>25. PICK m : m = Stored(mem)
  OBVIOUS
<1>2. PICK rt : rt = [RW EXCEPT !.exec = TRUE]
  OBVIOUS
<1>3. PICK t : t = TRAMPOLINE_PHYS
  OBVIOUS
<1>4. PICK b \in BOOLEAN : b = FALSE
  OBVIOUS
<1>5. PICK x : x = Map(m, kroot, t, t, 1, rt, b)
  OBVIOUS
<1>6. PICK d : d = [m |-> x, next |-> deviceNext]
  OBVIOUS
<1>7. PICK e : e = map_window(d, LAPIC)
  OBVIOUS
<1>8. Proceed(e, TRUE, "cores", "user")
  <2>1. map_identity(m, t, rt) = x
    BY <1>4, <1>5 DEF map_identity
  <2>2. Window(x, LAPIC) = e
    BY <1>6, <1>7 DEF Window
  <2> QED BY <1>2, <1>3, <1>25, <2>1, <2>2 DEF StageTrampoline
<1>9. /\ phase' = (IF ~Failed(e.m) THEN "cores" ELSE "user")
      /\ mem' = Settled(e.m) /\ deviceNext' = e.next /\ UNCHANGED machine /\ kroot' = kroot
      /\ stacks' = stacks /\ clock' = clock /\ space' = space /\ leaked' = leaked
  BY <1>8, Zenon DEF Proceed
<1>10. /\ gib \in BOOLEAN /\ kroot \in Frame /\ clock \in Frame
       /\ pooled \subseteq Frame /\ ProgramApart \in BOOLEAN /\ HeldIn(space) = {}
       /\ Steady(m, kroot, clock, pooled, Nowhere, ProgramApart, ProgramPages, space, Open)
       /\ m.asked = mem.asked
  <2>1. /\ gib \in BOOLEAN /\ kroot \in Frame /\ clock \in Frame /\ clock = 0
        /\ pooled \subseteq Frame /\ ProgramApart \in BOOLEAN /\ HeldIn(space) = {}
        /\ Steady(mem, kroot, clock, pooled, Nowhere, ProgramApart, ProgramPages, space, Open)
    BY <1>1, BootFinds
  <2>2. TRAMPOLINE_PHYS \notin pooled \ mem.pool
    BY DEF LentOut
  <2>3. PICK X : X = Open
    OBVIOUS
  <2>4. Steady(mem, kroot, clock, pooled, Nowhere, ProgramApart, ProgramPages, space, X)
    BY <2>1, <2>3
  <2>5. /\ Steady(m, kroot, clock, pooled, Nowhere, ProgramApart, ProgramPages, space, X)
        /\ m.asked = mem.asked
    <3>1. Apart(mem, clock, pooled)
      <4>1. TRAMPOLINE_PHYS # 0
        BY TrampolineAssumption, Numbers DEF Frame, ImagePages
      <4> QED BY <2>1, <2>2, <4>1 DEF Apart
    <3>2. /\ kroot \in Frame /\ clock \in Frame /\ pooled \subseteq Frame
          /\ ProgramApart \in BOOLEAN /\ HeldIn(space) = {}
      BY <2>1
    <3> QED BY <1>25, <2>4, <3>1, <3>2, SteadyStored
  <2> QED BY <2>1, <2>3, <2>5
<1>11. deviceNext = 3 /\ stacks = {} /\ Asked(m.asked[kroot], DEVICE_BASE).mapped
  <2>1. Booted
    BY <1>1, BootFinds
  <2> QED BY <1>1, <1>10, <2>1 DEF Booted
<1>12. /\ Nowhere' = Nowhere /\ Open = {}
       /\ Open' = IF Failed(e.m) THEN {} ELSE {t}
  BY <1>1, <1>3, <1>9 DEF Nowhere, Open
<1>13. t \in Page /\ t \in Nat /\ t < USER_LIMIT /\ rt \in RightsT /\ ~rt.user
  <2>1. TRAMPOLINE_PHYS \in Nat
    BY TrampolineAssumption, Numbers DEF Frame, ImagePages
  <2> QED BY <1>2, <1>3, <2>1, UserPages, TrampolineRights
<1>14. IsMem(x)
  BY <1>4, <1>5, <1>10, <1>13, KernelMapMem
<1>15. PICK y : y = Settled(x)
  OBVIOUS
<1>16. Alike(x, y) /\ IsMem(y) /\ y.asked = x.asked
  <2>1. Alike(x, y)
    BY <1>14, <1>15, SettledAlike
  <2> QED BY <2>1 DEF Alike
<1>17. PICK X, Y : X = Open /\ Y = {t}
  OBVIOUS
<1>18. Charted(m, x, y, kroot, clock, pooled, Nowhere, ProgramApart, ProgramPages, space, Y, t, t, rt, b)
  <2>1. Permits(X, Y, t, rt)
    BY <1>12, <1>13, <1>17 DEF Permits
  <2>2. Steady(m, kroot, clock, pooled, Nowhere, ProgramApart, ProgramPages, space, X)
    BY <1>10, <1>17
  <2> QED BY <1>5, <1>10, <1>13, <1>16, <2>1, <2>2, KernelMap
<1>19. /\ Steady(y, kroot, clock, pooled, Nowhere, ProgramApart, ProgramPages, space, Y)
       /\ MapsOne(m, x, y, kroot, t, Mapping(t, rt, b))
  BY <1>18 DEF Charted
<1>20. ~Failed(x) => ~Failed(e.m)
  <2> SUFFICES ASSUME ~Failed(x) PROVE ~Failed(e.m)
    OBVIOUS
  <2>1. Alike(y, x)
    BY <1>14, <1>16 DEF Alike, Untouched
  <2>2. Steady(x, kroot, clock, pooled, Nowhere, ProgramApart, ProgramPages, space, Y)
    BY <1>10, <1>19, <2>1, SteadyAlike
  <2>3. DEVICE_BASE \in Page /\ DEVICE_BASE # t
    <3>1. 0 \in 0 .. Fan - 1
      BY Numbers
    <3>2. DEVICE_BASE + 0 \in Page /\ DEVICE_BASE + 0 >= USER_LIMIT
      BY <3>1, DevicePage
    <3>3. DEVICE_BASE \in Int /\ USER_LIMIT \in Int
      BY LinearEven, Numbers DEF DEVICE_BASE, level_size, Top
    <3> QED BY <1>13, <3>2, <3>3
  <2>4. Asked(x.asked[kroot], DEVICE_BASE).mapped
    <3>1. Asks(m, y, kroot, t, Mapping(t, rt, b))
      BY <1>19 DEF MapsOne
    <3>2. Asked(y.asked[kroot], DEVICE_BASE) = Asked(m.asked[kroot], DEVICE_BASE)
      BY <1>10, <2>3, <3>1 DEF Asks
    <3> QED BY <1>11, <1>16, <3>2
  <2>5. 3 \in 0 .. Fan - 1 /\ LAPIC \in Nat
    BY Numbers, DevicesNat
  <2>6. ~Failed(Map(x, kroot, DEVICE_BASE + 3, LAPIC, 1, RW, TRUE))
    BY <1>10, <2>2, <2>4, <2>5, WindowStays
  <2>7. ~(3 + 1 > DEVICE_WINDOW)
    BY Numbers DEF DEVICE_WINDOW
  <2>8. e.m = Map(x, kroot, DEVICE_BASE + 3, LAPIC, 1, RW, TRUE)
    <3>1. d.m = x /\ d.next = 3
      BY <1>6, <1>11
    <3> QED BY <1>7, <2>7, <3>1 DEF map_window
  <2> QED BY <2>6, <2>8
<1>21. Before(d) /\ d.m = x
  BY <1>6, <1>11, <1>14 DEF Before
<1>22. /\ e.next \in Nat
       /\ Steady(Settled(e.m), kroot, clock, pooled, Nowhere, ProgramApart, ProgramPages,
                 space, Y)
  <2>1. Steady(Settled(d.m), kroot, clock, pooled, Nowhere, ProgramApart, ProgramPages, space, Y)
    BY <1>15, <1>19, <1>21
  <2>2. Windowed(d, e, clock, pooled, Nowhere, ProgramApart, ProgramPages, space, Y)
    BY <1>7, <1>10, <1>21, <2>1, DevicesNat, OpenWindow
  <2> QED BY <2>2 DEF Windowed, Opened
<1>23. Steady(mem', kroot, clock, pooled, Nowhere', ProgramApart, ProgramPages, space, Open')
  <2>1. CASE ~Failed(e.m)
    BY <1>9, <1>12, <1>17, <1>22, <2>1
  <2>2. CASE Failed(e.m)
    <3>1. Failed(x)
      BY <1>20, <2>2
    <3>2. e.m = x
      BY <1>7, <1>21, <3>1 DEF map_window
    <3>3. y.asked = m.asked
      BY <1>19, <3>1 DEF MapsOne
    <3>4. Upper(y, kroot, X)
      <4>1. Upper(m, kroot, X)
        BY <1>10, <1>17 DEF Steady
      <4> QED BY <3>3, <4>1 DEF Upper
    <3>5. Steady(y, kroot, clock, pooled, Nowhere, ProgramApart, ProgramPages, space, X)
      BY <1>19, <3>4 DEF Steady
    <3> QED BY <1>9, <1>12, <1>15, <1>17, <2>2, <3>2, <3>5
  <2> QED BY <2>1, <2>2
<1>24. /\ phase' \in {"apic", "timer", "stage", "cores", "user", "stop"}
       /\ deviceNext' \in Nat /\ stacks' = {}
       /\ phase' \notin {"apic", "timer", "stage"}
  BY <1>9, <1>11, <1>22
<1> QED BY <1>1, <1>9, <1>23, <1>24, BootGoesOn

(* Staging the trampoline, over its own frame or over one that is lent.     *)
LEMMA StageStep == IInv /\ StageTrampoline => IInv'
<1> SUFFICES ASSUME IInv, StageTrampoline PROVE IInv'
  OBVIOUS
<1>1. phase \in Early /\ (LentOut(mem) => Overwrite(mem))
  BY Zenon DEF StageTrampoline, Early
<1>2. IsMem(mem)
  BY <1>1, BootFinds
<1> QED BY <1>1, <1>2, OverwriteStep, StagedApart

(* One core needs no trampoline.                                            *)
LEMMA OneCoreStep == IInv /\ OneCore => IInv'
<1> SUFFICES ASSUME IInv, OneCore PROVE IInv'
  OBVIOUS
<1>1. /\ phase = "stage" /\ phase' = "user" /\ UNCHANGED machine /\ mem' = mem /\ kroot' = kroot
      /\ deviceNext' = deviceNext /\ stacks' = stacks /\ clock' = clock /\ space' = space
      /\ leaked' = leaked
  BY Zenon DEF OneCore
<1>2. phase \in Early
  BY <1>1 DEF Early
<1>3. /\ Steady(mem, kroot, clock, pooled, Nowhere, ProgramApart, ProgramPages, space, Open)
      /\ deviceNext \in Nat
  BY <1>2, BootFinds
<1>4. Nowhere' = Nowhere /\ Open' = Open
  BY <1>1 DEF Nowhere, Open
<1>5. phase' \notin Early /\ phase' \notin {"apic", "timer", "stage"}
  BY <1>1 DEF Early
<1> QED BY <1>1, <1>2, <1>3, <1>4, <1>5, BootGoesOn

(* The woken cores get their stacks, and the trampoline's page goes.        *)
LEMMA CoresStep == ASSUME NEW n \in 0 .. 2 PROVE IInv /\ WakeCores(n) => IInv'
<1> SUFFICES ASSUME IInv, WakeCores(n) PROVE IInv'
  OBVIOUS
<1>1. PICK x, t : x = core_stacks(mem, n) /\ t = TRAMPOLINE_PHYS
  OBVIOUS
<1>2. /\ phase = "cores"
      /\ \/ AllAwake(x)
         \/ ~LentOut(x) /\ AllAwake(Stored(x))
         \/ LentOut(x) /\ Overwrite(x)
  BY <1>1, Zenon DEF WakeCores
<1>3. phase \in Early
  BY <1>2 DEF Early
<1>14. clock = 0
  BY <1>3, BootFinds
<1>4. /\ kroot \in Frame /\ clock \in Frame /\ IsMem(mem) /\ ~Failed(mem)
      /\ deviceNext \in Nat
      /\ pooled \subseteq Frame /\ ProgramApart \in BOOLEAN /\ HeldIn(space) = {} /\ Booted
      /\ Steady(mem, kroot, clock, pooled, Nowhere, ProgramApart, ProgramPages, space, Open)
  BY <1>3, BootFinds
<1>5. stacks = {}
  BY <1>3, <1>4 DEF Booted
<1>6. Takes(mem, x)
  BY <1>1, <1>4, CoreStacks
<1>7. PICK U, X : U = Nowhere \cup (mem.pool \ x.pool) /\ X = Open
  OBVIOUS
<1>8. Steady(x, kroot, clock, pooled, U, ProgramApart, ProgramPages, space, X)
  <2>1. U = Nowhere \cup (mem.pool \ x.pool)
    BY <1>7
  <2>2. Steady(x, kroot, clock, pooled, U, ProgramApart, ProgramPages, space, Open)
    BY <1>4, <1>6, <2>1, SteadyTaken
  <2> QED BY <1>7, <2>2
<1>9. t \in Page /\ t < USER_LIMIT /\ X = {t}
  <2>1. Open = {t}
    BY <1>1, <1>2 DEF Open
  <2> QED BY <1>1, <1>7, <2>1, UserPages
<1>10. ASSUME NEW z, AllAwake(z), z.pool = x.pool,
              Steady(z, kroot, clock, pooled, U, ProgramApart, ProgramPages, space, X)
       PROVE  IInv'
  <2>1. /\ phase' = "user" /\ UNCHANGED machine
        /\ mem' = Unmap(z, kroot, t) /\ stacks' = mem.pool \ z.pool
        /\ kroot' = kroot /\ deviceNext' = deviceNext /\ clock' = clock /\ space' = space
        /\ leaked' = leaked
    BY <1>1, <1>10, Zenon DEF AllAwake
  <2>2. Nowhere' = U /\ Open' = {}
    BY <1>5, <1>7, <1>10, <2>1 DEF Nowhere, Open
  <2>3. PICK y : y = Unmap(z, kroot, t)
    OBVIOUS
  <2>4. Steady(z, kroot, clock, pooled, U, ProgramApart, ProgramPages, space, {t})
    BY <1>9, <1>10
  <2>5. Steady(y, kroot, clock, pooled, U, ProgramApart, ProgramPages, space, {})
    BY <1>4, <1>9, <2>3, <2>4, KernelUnmap
  <2>6. Steady(mem', kroot, clock, pooled, Nowhere', ProgramApart, ProgramPages, space, Open')
    BY <2>1, <2>2, <2>3, <2>5
  <2>7. /\ phase' \in {"apic", "timer", "stage", "cores", "user", "stop"}
        /\ deviceNext' \in Nat /\ phase' \notin {"apic", "timer", "stage"} /\ phase' \notin Early
    BY <1>4, <2>1 DEF Early
  <2> QED BY <1>3, <2>1, <2>6, <2>7, BootGoesOn
<1>11. CASE AllAwake(x)
  BY <1>8, <1>10, <1>11
<1>12. CASE ~LentOut(x) /\ AllAwake(Stored(x))
  <2>1. PICK z : z = Stored(x)
    OBVIOUS
  <2>2. t \notin pooled \ x.pool
    BY <1>1, <1>12 DEF LentOut
  <2>3. /\ Steady(z, kroot, clock, pooled, U, ProgramApart, ProgramPages, space, X)
        /\ z.pool = x.pool
    <3>1. Apart(x, clock, pooled)
      <4>1. TRAMPOLINE_PHYS # 0
        BY TrampolineAssumption, Numbers DEF Frame, ImagePages
      <4> QED BY <1>1, <1>14, <2>2, <4>1 DEF Apart
    <3> QED BY <1>4, <1>8, <2>1, <3>1, SteadyStored
  <2> QED BY <1>10, <1>12, <2>1, <2>3
<1>13. CASE LentOut(x) /\ Overwrite(x)
  BY <1>3, <1>6, <1>13, OverwriteStep DEF Takes
<1> QED BY <1>2, <1>11, <1>12, <1>13

(* The shared clock gets its frame, and ring 3 may run.                     *)
LEMMA UserStep == IInv /\ UserInit => IInv'
<1> SUFFICES ASSUME IInv, UserInit PROVE IInv'
  OBVIOUS
<1>1. PICK x : x = Zeroed(alloc_frame(mem), {})
  OBVIOUS
<1>2. /\ phase = "user"
      /\ \E enabled \in BOOLEAN : phase' = IF Failed(x) \/ ~enabled THEN "stop" ELSE "run"
      /\ clock' = (IF Failed(x) THEN 0 ELSE x.got)
      /\ mem' = Settled(x)
      /\ UNCHANGED machine /\ kroot' = kroot /\ deviceNext' = deviceNext /\ stacks' = stacks
      /\ space' = space /\ leaked' = leaked
  BY <1>1, Zenon DEF UserInit, SharedClock
<1>3. /\ kroot \in Frame /\ kroot \in pooled /\ clock \in Frame /\ clock = 0
      /\ IsMem(mem) /\ deviceNext \in Nat /\ MachineOK
      /\ pooled \subseteq Frame /\ ProgramApart \in BOOLEAN /\ HeldIn(space) = {} /\ Booted
      /\ Steady(mem, kroot, clock, pooled, Nowhere, ProgramApart, ProgramPages, space, Open)
  BY <1>2, BootFinds
<1>4. Ticks(mem, x, kroot, pooled, Nowhere, ProgramApart, ProgramPages, space, Open)
  <2>1. PICK c : c = clock
    OBVIOUS
  <2>2. /\ kroot \in Frame /\ c \in Frame
        /\ pooled \subseteq Frame /\ ProgramApart \in BOOLEAN /\ HeldIn(space) = {}
        /\ Steady(mem, kroot, c, pooled, Nowhere, ProgramApart, ProgramPages, space, Open)
    BY <1>3, <2>1
  <2> QED BY <1>1, <2>2, ClockTaken
<1>5. Open' = Open
  BY <1>2 DEF Open
<1>6. 0 \notin pooled
  BY <1>3 DEF MachineOK
<1>7. phase' = "stop" \/ (phase' = "run" /\ ~Failed(x))
  BY <1>2
<1>8. /\ Steady(mem', kroot', clock', pooled, Nowhere', ProgramApart, ProgramPages, space', Open')
      /\ clock' \in Frame /\ (phase' = "run" => clock' # 0)
  <2>1. CASE Failed(x)
    <3>1. Alike(mem, mem') /\ clock' = clock
      BY <1>2, <1>3, <1>4, <2>1 DEF Ticks
    <3>2. Nowhere' = Nowhere
      BY <1>2, <3>1 DEF Nowhere
    <3>3. Steady(mem', kroot, clock, pooled, Nowhere, ProgramApart, ProgramPages, space, Open)
      BY <1>3, <3>1, SteadyAlike
    <3> QED BY <1>2, <1>3, <1>5, <1>7, <2>1, <3>1, <3>2, <3>3
  <2>2. CASE ~Failed(x)
    <3>1. /\ x.got \in pooled /\ x.got \in Frame
          /\ Steady(mem', kroot, x.got, pooled, Nowhere \cup {x.got}, ProgramApart, ProgramPages, space, Open)
      BY <1>2, <1>4, <2>2 DEF Ticks
    <3>2. clock' = x.got /\ clock' # 0
      BY <1>2, <1>6, <2>2, <3>1
    <3>3. Nowhere' = Nowhere \cup {x.got}
      BY <1>2, <1>3, <3>2 DEF Nowhere
    <3> QED BY <1>2, <1>5, <3>1, <3>2, <3>3
  <2> QED BY <2>1, <2>2
<1>9. MachineOK' /\ pooled' = pooled /\ ProgramPages' = ProgramPages /\ ProgramApart' = ProgramApart
  BY <1>2, <1>3, SameMachine
<1>10. WellKept'
  BY <1>8, <1>9 DEF WellKept
<1>11. HeldIn(space') = {} /\ Rooting(space', kroot') /\ kroot' \in pooled' /\ deviceNext' \in Nat
  BY <1>2, <1>3, <1>9 DEF Booted
<1>12. \A s \in Space : space'[s].stage = "none"
  BY <1>11 DEF HeldIn
<1>13. phase' \notin Early \cup {"user", "vm", "halt", "overwritten"} /\ phase' \in Phase
  BY <1>7 DEF Early, Phase
<1>14. phase' \notin {"smap", "apic", "timer", "stage"}
  BY <1>7
<1>15. Booted'
  BY <1>8, <1>10, <1>11, <1>12, <1>13, <1>14 DEF Booted
<1> QED BY <1>9, <1>13, <1>15 DEF IInv

-----------------------------------------------------------------------------
(* The life of the spaces, step by step.                                    *)

(* The present state is well kept by o.                                     *)
Now(o) == Sane(mem, o, kroot, clock, pooled, Nowhere, ProgramApart, ProgramPages, space)

(* x is what an operation on the space s, at the pages V, makes of the      *)
(* present memory.                                                          *)
Progress(x, s, V) ==
  \E o, q : Now(o) /\ Worked(mem, o, x, q, kroot, clock, ProgramApart, space, s, V)

(* What a step leaves alone once ring 3 runs.                               *)
Ring3Still ==
  /\ UNCHANGED machine /\ phase' = phase /\ kroot' = kroot /\ deviceNext' = deviceNext
  /\ stacks' = stacks /\ clock' = clock

(* Spaces are held only once ring 3 may run.                                *)
LEMMA HeldRuns ==
  ASSUME IInv, NEW s \in HeldIn(space)
  PROVE  phase = "run"
<1>1. HeldIn(space) # {}
  OBVIOUS
<1>2. phase # "vm"
  BY <1>1, NoSpaces DEF IInv, AtStart
<1> QED BY <1>1, <1>2 DEF IInv, Booted

(* What every step of a space's life finds.                                 *)
LEMMA RunFinds ==
  ASSUME IInv, phase = "run"
  PROVE  /\ MachineOK /\ Booted /\ gib \in BOOLEAN /\ image.segments \in Seq(Segment)
         /\ kroot \in Frame /\ kroot \in pooled /\ clock \in Frame /\ clock # 0
         /\ pooled \subseteq Frame /\ 0 \notin pooled /\ ProgramApart \in BOOLEAN
         /\ Rooting(space, kroot) /\ (\E o : Now(o)) /\ Upper(mem, kroot, Open) /\ Open = {}
         /\ IsMem(mem) /\ ~Failed(mem)
<1>1. MachineOK /\ Booted
  BY DEF IInv
<1>2. /\ kroot \in pooled /\ clock \in Frame /\ clock # 0 /\ Rooting(space, kroot) /\ WellKept
  BY <1>1 DEF Booted
<1>3. /\ gib \in BOOLEAN /\ pooled \subseteq Frame /\ 0 \notin pooled
      /\ image.segments \in Seq(Segment)
  BY <1>1 DEF MachineOK
<1>4. (\E o : Now(o)) /\ Upper(mem, kroot, Open)
  BY <1>2 DEF WellKept, Steady, Now
<1>5. IsMem(mem) /\ ~Failed(mem)
  BY <1>4 DEF Now, Sane, Kept, Shape
<1>6. Open = {}
  BY DEF Open
<1> QED BY <1>1, <1>2, <1>3, <1>4, <1>5, <1>6, ApartBoolean

(* A space's root is a frame of the pool, so not the first frame.           *)
LEMMA RootHeld ==
  ASSUME IInv, phase = "run", NEW s \in HeldIn(space)
  PROVE  /\ s \in Space /\ space[s] \in SpaceT /\ space[s].root \in Frame
         /\ space[s].root # 0 /\ space[s].root # kroot
         /\ space[s].root \in RootsIn(kroot, space) /\ kroot \in RootsIn(kroot, space)
<1>1. /\ kroot \in Frame /\ 0 \notin pooled /\ Rooting(space, kroot) /\ \E o : Now(o)
  BY RunFinds
<1>2. /\ s \in Space /\ space[s] \in SpaceT /\ space[s].root \in Frame
      /\ space[s].root # kroot /\ space[s].root \in RootsIn(kroot, space)
  BY <1>1, RootIs
<1>3. PICK o : Now(o)
  BY <1>1
<1>4. o.R[space[s].root] = space[s].root
  BY <1>2, <1>3 DEF Now, Sane, Kept, Shape, RootsOwn
<1>5. space[s].root # Nobody
  BY <1>2, Numbers DEF Frame, Nobody
<1>6. space[s].root \in pooled
  BY <1>2, <1>3, <1>4, <1>5 DEF Now, Sane, Account
<1> QED BY <1>1, <1>2, <1>6 DEF RootsIn

(* A step of a space's life that keeps the trees well, and what the kernel  *)
(* asked for, keeps the invariant.                                          *)
LEMMA RunGoesOn ==
  ASSUME IInv, phase = "run", Ring3Still,
         \E o : Sane(mem', o, kroot, clock, pooled, Nowhere', ProgramApart, ProgramPages, space'),
         Rooting(space', kroot),
         \A y \in Page : Asked(mem'.asked[kroot], y) = Asked(mem.asked[kroot], y),
         \A s \in Space : space'[s].stage \in {"built", "live"} => space'[s].borrowed = {clock}
  PROVE  IInv'
<1>1. /\ MachineOK /\ Booted /\ kroot \in pooled /\ clock \in Frame /\ clock # 0
      /\ Upper(mem, kroot, Open) /\ Open = {}
  BY RunFinds
<1>2. /\ UNCHANGED machine /\ phase' = "run" /\ kroot' = kroot /\ deviceNext' = deviceNext
      /\ clock' = clock
  BY DEF Ring3Still
<1>3. MachineOK' /\ pooled' = pooled /\ ProgramPages' = ProgramPages /\ ProgramApart' = ProgramApart
  BY <1>1, <1>2, SameMachine
<1>4. Open' = Open
  BY <1>2 DEF Open
<1>5. Upper(mem', kroot, Open)
  BY <1>1 DEF Upper
<1>6. WellKept'
  BY <1>2, <1>3, <1>4, <1>5 DEF WellKept, Steady
<1>7. deviceNext \in Nat
  BY <1>1 DEF Booted
<1>8. phase' \notin Early \cup {"user", "vm", "halt", "overwritten"} /\ phase' \in Phase
  BY <1>2 DEF Early, Phase
<1>9. phase' \notin {"smap", "apic", "timer", "stage"}
  BY <1>2
<1>10. Booted'
  BY <1>1, <1>2, <1>3, <1>6, <1>7, <1>8, <1>9 DEF Booted
<1> QED BY <1>3, <1>8, <1>10 DEF IInv

(* The spaces but one stay what they were.                                  *)
LEMMA BorrowedStays ==
  ASSUME IInv, phase = "run", NEW s \in Space, NEW w, space' = [space EXCEPT ![s] = w],
         w.stage \in {"built", "live"} => w.borrowed = {clock}
  PROVE  \A u \in Space : space'[u].stage \in {"built", "live"} => space'[u].borrowed = {clock}
<1>1. /\ Rooting(space, kroot)
      /\ \A u \in Space : space[u].stage \in {"built", "live"} => space[u].borrowed = {clock}
  <2>1. Booted
    BY RunFinds
  <2> QED BY <2>1 DEF Booted
<1>2. space \in [Space -> SpaceT]
  BY <1>1 DEF Rooting
<1> QED BY <1>1, <1>2

(* The handle to the space s is dropped, in a memory x the build may have   *)
(* failed in.                                                               *)
Dropped(x, s) ==
  /\ \E n : /\ IsMem(n) /\ Untouched(x, n) /\ ~Failed(n) /\ n.asked = x.asked
            /\ mem' = [n EXCEPT !.asked[space[s].root] = <<>>]
  /\ space' = [space EXCEPT ![s] = NoSpace]
  /\ leaked' = leaked \cup (mem.pool \ x.pool) \cup OwnedBy(x, space[s].root)

(* A build that fails, and the handle to it dropped: what it took is lost   *)
(* to everyone, and its root is no tree any more.                           *)
LEMMA DropGoes ==
  ASSUME IInv, phase = "run", Ring3Still, NEW s \in HeldIn(space), NEW x, NEW V, Progress(x, s, V),
         Pending(ProgramApart, ProgramPages, V, space, s), Dropped(x, s)
  PROVE  IInv'
<1>0. PICK n : /\ IsMem(n) /\ Untouched(x, n) /\ ~Failed(n) /\ n.asked = x.asked
               /\ mem' = [n EXCEPT !.asked[space[s].root] = <<>>]
               /\ space' = [space EXCEPT ![s] = NoSpace]
               /\ leaked' = leaked \cup (mem.pool \ x.pool) \cup OwnedBy(x, space[s].root)
  BY DEF Dropped
<1>1. /\ kroot \in Frame /\ clock \in Frame /\ clock # 0 /\ pooled \subseteq Frame
      /\ ProgramApart \in BOOLEAN /\ Rooting(space, kroot)
  BY RunFinds
<1>2. PICK r : r = space[s].root
  OBVIOUS
<1>3. s \in Space /\ r \in Frame /\ r # kroot
  BY <1>2, RootHeld
<1>4. PICK o, q : Now(o) /\ Worked(mem, o, x, q, kroot, clock, ProgramApart, space, s, V)
  BY DEF Progress
<1>5. Sane(mem, o, kroot, clock, pooled, Nowhere, ProgramApart, ProgramPages, space)
  BY <1>4 DEF Now
<1>6. PICK L : L = (mem.pool \ x.pool) \cup OwnedBy(x, space[s].root)
  OBVIOUS
<1>7. Loses(q, space[s].root, L, ProgramApart)
  <2>1. /\ Pending(ProgramApart, ProgramPages, V, space, s)
        /\ Worked(mem, o, x, q, kroot, clock, ProgramApart, space, s, V)
        /\ ProgramApart = TRUE \/ ProgramApart = FALSE
    BY <1>1, <1>4
  <2>2. /\ kroot \in Frame /\ clock \in Frame /\ clock # 0 /\ pooled \subseteq Frame
        /\ Rooting(space, kroot)
    BY <1>1
  <2>3. Loses(q, space[s].root, (mem.pool \ x.pool) \cup OwnedBy(x, space[s].root), ProgramApart)
    BY <1>5, <2>1, <2>2, LostIs
  <2> QED BY <1>6, <2>3
<1>8. Almost(x, q, kroot, clock, pooled, Nowhere, ProgramApart, ProgramPages, space, s)
  BY <1>1, <1>4, <1>5, WorkedOn DEF Worked
<1>9. PICK y : y = mem'
  OBVIOUS
<1>10. Lets(n, y, r)
  BY <1>0, <1>2, <1>3, <1>9, LetsGo
<1>11. Forgets(x, y, space[s].root)
  BY <1>0, <1>2, <1>10 DEF Lets, Untouched, Failed, Forgets
<1>12. PICK z : z = space'
  OBVIOUS
<1>13. After(y, kroot, clock, pooled, Nowhere \cup L, ProgramApart, ProgramPages, z)
  <2>1. Becomes(space, z, s, NoSpace)
    BY <1>0, <1>12 DEF Becomes
  <2> QED BY <1>1, <1>7, <1>8, <1>11, <2>1, SaneDrop
<1>14. Nowhere' = Nowhere \cup L
  BY <1>0, <1>6 DEF Ring3Still, Nowhere
<1>15. \A v \in Page : Asked(mem'.asked[kroot], v) = Asked(mem.asked[kroot], v)
  <2>1. y.asked[kroot] = x.asked[kroot]
    BY <1>1, <1>2, <1>3, <1>11 DEF Forgets
  <2>2. \A v \in Page : Asked(x.asked[kroot], v) = Asked(mem.asked[kroot], v)
    BY <1>1, <1>2, <1>3, <1>4 DEF Works, Worked
  <2> QED BY <1>9, <2>1, <2>2
<1>16. \A u \in Space : space'[u].stage \in {"built", "live"} => space'[u].borrowed = {clock}
  <2>1. NoSpace.stage \notin {"built", "live"}
    BY DEF NoSpace
  <2> QED BY <1>0, <1>3, <2>1, BorrowedStays
<1>17. \E w : Sane(mem', w, kroot, clock, pooled, Nowhere', ProgramApart, ProgramPages, space')
  BY <1>9, <1>12, <1>13, <1>14 DEF After
<1>18. Rooting(space', kroot)
  BY <1>12, <1>13 DEF After
<1> QED BY <1>15, <1>16, <1>17, <1>18, RunGoesOn

(* What a space borrows in a stage.                                         *)
Lent(b, to) == b \subseteq Frame /\ (to \in {"built", "live"} => b = {clock})

(* A step of the build, whatever it comes to.                               *)
LEMMA BuildGoes ==
  ASSUME IInv, NEW s \in Space, NEW from, from # "none", NEW to \in Stages, to # "none",
         NEW b, Lent(b, to), NEW x, NEW V, Progress(x, s, V),
         Advances(ProgramApart, ProgramPages, V, from, to),
         BuildStep(s, from, to, space[s].root, b, x)
  PROVE  IInv'
<1>1. /\ phase = "run" /\ space[s].stage = from
      /\ IF Failed(x)
         THEN /\ space' = [space EXCEPT ![s] = NoSpace]
              /\ mem' = [Settled(x) EXCEPT !.asked[space[s].root] =
                           IF space[s].root = 0 THEN @ ELSE <<>>]
              /\ leaked' = (leaked \cup (mem.pool \ x.pool))
                   \cup (IF space[s].root = 0 THEN {} ELSE OwnedBy(x, space[s].root))
         ELSE /\ space' = [space EXCEPT ![s] =
                             [stage |-> to, root |-> space[s].root, borrowed |-> b]]
              /\ mem' = Settled(x)
              /\ leaked' = leaked
      /\ UNCHANGED machine /\ phase' = phase /\ kroot' = kroot /\ deviceNext' = deviceNext
      /\ stacks' = stacks /\ clock' = clock
  BY Zenon DEF BuildStep
<1>2. Ring3Still
  BY <1>1 DEF Ring3Still
<1>3. s \in HeldIn(space)
  BY <1>1 DEF HeldIn
<1>4. space[s].root # 0 /\ space[s].root # kroot /\ space[s].root \in Frame
  BY <1>1, <1>3, RootHeld
<1>5. PICK o, q : Now(o) /\ Worked(mem, o, x, q, kroot, clock, ProgramApart, space, s, V)
  BY DEF Progress
<1>6. IsMem(x)
  BY <1>5 DEF Worked, Works, Kept, Shape
<1>7. PICK n : n = Settled(x)
  OBVIOUS
<1>8. Alike(x, n)
  BY <1>6, <1>7, SettledAlike
<1>9. CASE Failed(x)
  <2>1. Dropped(x, s)
    <3>1. mem' = [n EXCEPT !.asked[space[s].root] = <<>>]
      BY <1>1, <1>4, <1>7, <1>9
    <3>2. /\ space' = [space EXCEPT ![s] = NoSpace]
          /\ leaked' = leaked \cup (mem.pool \ x.pool) \cup OwnedBy(x, space[s].root)
      BY <1>1, <1>4, <1>9
    <3> QED BY <1>8, <3>1, <3>2 DEF Dropped, Alike
  <2>2. Pending(ProgramApart, ProgramPages, V, space, s)
    BY <1>1 DEF Pending, Advances
  <2> QED BY <1>1, <1>2, <1>3, <2>1, <2>2, DropGoes
<1>10. CASE ~Failed(x)
  <2>1. /\ kroot \in Frame /\ clock \in Frame /\ pooled \subseteq Frame
        /\ ProgramApart = TRUE \/ ProgramApart = FALSE
        /\ Rooting(space, kroot)
    BY <1>1, RunFinds
  <2>2. PICK w : w = [stage |-> to, root |-> space[s].root, borrowed |-> b]
    OBVIOUS
  <2>3. PICK z : z = space'
    OBVIOUS
  <2>4. space' = [space EXCEPT ![s] = w] /\ Becomes(space, z, s, w)
    BY <1>1, <1>10, <2>2, <2>3 DEF Becomes
  <2>5. Sane(mem, o, kroot, clock, pooled, Nowhere, ProgramApart, ProgramPages, space)
    BY <1>5 DEF Now
  <2>6. Advances(ProgramApart, ProgramPages, V, space[s].stage, to)
    BY <1>1
  <2>7. b \subseteq Frame
    BY DEF Lent
  <2>8. After(n, kroot, clock, pooled, Nowhere, ProgramApart, ProgramPages, z)
    BY <1>3, <1>5, <1>7, <1>10, <2>1, <2>2, <2>4, <2>5, <2>6, <2>7, SaneStep
  <2>9. mem' = n /\ Nowhere' = Nowhere
    BY <1>1, <1>7, <1>10 DEF Nowhere
  <2>10. /\ \E o2 : Sane(mem', o2, kroot, clock, pooled, Nowhere', ProgramApart, ProgramPages, space')
         /\ Rooting(space', kroot)
    BY <2>3, <2>8, <2>9 DEF After
  <2>11. \A y \in Page : Asked(mem'.asked[kroot], y) = Asked(mem.asked[kroot], y)
    <3>1. n.asked = x.asked
      BY <1>8 DEF Alike
    <3>2. \A y \in Page : Asked(x.asked[kroot], y) = Asked(mem.asked[kroot], y)
      BY <1>4, <1>5, <2>1 DEF Works, Worked
    <3> QED BY <2>9, <3>1, <3>2
  <2>12. w.stage \in {"built", "live"} => w.borrowed = {clock}
    BY <2>2 DEF Lent
  <2>13. \A u \in Space : space'[u].stage \in {"built", "live"} => space'[u].borrowed = {clock}
    BY <1>1, <2>4, <2>12, BorrowedStays
  <2> QED BY <1>1, <1>2, <2>10, <2>11, <2>13, RunGoesOn
<1> QED BY <1>9, <1>10

(* What a step of the build finds of the space it builds.                   *)
LEMMA BuildFinds ==
  ASSUME IInv, phase = "run", NEW s \in HeldIn(space)
  PROVE  \E o : /\ Now(o) /\ Kept(mem, o, RootsIn(kroot, space), kroot, clock)
                /\ TreeOK(mem, o, space[s].root, s)
<1>1. PICK o : Now(o)
  BY RunFinds
<1>2. Kept(mem, o, RootsIn(kroot, space), kroot, clock) /\ TreeOK(mem, o, space[s].root, s)
  BY <1>1 DEF Now, Sane, Fine
<1> QED BY <1>1, <1>2

(* A fresh page is progress.                                                *)
LEMMA FreshProgress ==
  ASSUME IInv, phase = "run", NEW s \in HeldIn(space), NEW v \in Page, v < USER_LIMIT,
         NEW x, x = map_fresh(mem, s, space[s].root, v, RW)
  PROVE  Progress(x, s, {v})
<1>1. PICK o : /\ Now(o) /\ Kept(mem, o, RootsIn(kroot, space), kroot, clock)
               /\ TreeOK(mem, o, space[s].root, s)
  BY BuildFinds
<1>2. PICK Rs, r : Rs = RootsIn(kroot, space) /\ r = space[s].root
  OBVIOUS
<1>3. kroot \in Rs /\ r # kroot /\ MayMap(Rs, kroot, r, v)
  BY <1>2, RootHeld DEF MayMap
<1>4. gib \in BOOLEAN
  BY RunFinds
<1>5. PICK q : Builds(mem, o, x, q, Rs, kroot, clock, r, s, {v})
  <2>1. PICK w : w = RW
    OBVIOUS
  <2>2. w \in RightsT /\ ~is_wx(w)
    BY <2>1, KernelRights
  <2>3. Kept(mem, o, Rs, kroot, clock) /\ TreeOK(mem, o, r, s)
    BY <1>1, <1>2
  <2>4. \E q : Builds(mem, o, map_fresh(mem, s, r, v, w), q, Rs, kroot, clock, r, s, {v})
    BY <1>3, <1>4, <2>2, <2>3, MapFresh
  <2> QED BY <1>2, <2>1, <2>4
<1>6. Worked(mem, o, x, q, kroot, clock, ProgramApart, space, s, {v})
  BY <1>2, <1>5 DEF Builds, Worked
<1> QED BY <1>1, <1>6 DEF Progress

(* The program is loaded.                                                   *)
LEMMA LoadStep == ASSUME NEW s \in Space PROVE IInv /\ Load(s) => IInv'
<1> SUFFICES ASSUME IInv, Load(s) PROVE IInv'
  OBVIOUS
<1>1. PICK r, x, b : r = space[s].root /\ x = load(mem, s, r) /\ b = {}
  OBVIOUS
<1>2. BuildStep(s, "new", "loaded", space[s].root, b, x)
  BY <1>1 DEF Load
<1>3. phase = "run" /\ space[s].stage = "new"
  BY <1>2, Zenon DEF BuildStep
<1>4. s \in HeldIn(space)
  BY <1>3 DEF HeldIn
<1>5. PICK o : /\ Now(o) /\ Kept(mem, o, RootsIn(kroot, space), kroot, clock)
               /\ TreeOK(mem, o, space[s].root, s)
  BY <1>3, <1>4, BuildFinds
<1>6. PICK Rs : Rs = RootsIn(kroot, space)
  OBVIOUS
<1>7. r \in Rs /\ kroot \in Rs /\ r # kroot
  BY <1>1, <1>3, <1>4, <1>6, RootHeld
<1>8. gib \in BOOLEAN /\ image.segments \in Seq(Segment)
  BY <1>3, RunFinds
<1>9. PICK q : /\ Works(mem, o, x, q, Rs, kroot, clock, r, s, ProgramPages)
               /\ SegmentsApart => Builds(mem, o, x, q, Rs, kroot, clock, r, s, ProgramPages)
  <2>1. Kept(mem, o, Rs, kroot, clock) /\ TreeOK(mem, o, r, s)
    BY <1>1, <1>5, <1>6
  <2>2. LET V == PagesUpTo(Len(image.segments))
            y == load(mem, s, r)
        IN  \E q : /\ Works(mem, o, y, q, Rs, kroot, clock, r, s, V)
                   /\ SegmentsApart => Builds(mem, o, y, q, Rs, kroot, clock, r, s, V)
    BY <1>7, <1>8, <2>1, LoadWorks
  <2> QED BY <1>1, <2>2 DEF ProgramPages
<1>10. Progress(x, s, ProgramPages)
  <2>1. Worked(mem, o, x, q, kroot, clock, ProgramApart, space, s, ProgramPages)
    BY <1>1, <1>6, <1>9 DEF Worked, ProgramApart
  <2> QED BY <1>5, <2>1 DEF Progress
<1>11. Advances(ProgramApart, ProgramPages, ProgramPages, "new", "loaded")
  BY DEF Advances, Remaining, ProgramApart
<1>12. Lent(b, "loaded") /\ "loaded" \in Stages
  BY <1>1 DEF Lent, Stages
<1> QED BY <1>2, <1>10, <1>11, <1>12, BuildGoes

(* The stack is mapped.                                                     *)
LEMMA StackStep == ASSUME NEW s \in Space PROVE IInv /\ MapStack(s) => IInv'
<1> SUFFICES ASSUME IInv, MapStack(s) PROVE IInv'
  OBVIOUS
<1>1. PICK x, b, V : x = map_fresh(mem, s, space[s].root, USER_STACK, RW) /\ b = {} /\ V = {USER_STACK}
  OBVIOUS
<1>2. BuildStep(s, "loaded", "stacked", space[s].root, b, x)
  BY <1>1 DEF MapStack, map_stack
<1>3. phase = "run" /\ space[s].stage = "loaded"
  BY <1>2, Zenon DEF BuildStep
<1>4. s \in HeldIn(space)
  BY <1>3 DEF HeldIn
<1>5. Progress(x, s, V)
  BY <1>1, <1>3, <1>4, UserPages, FreshProgress
<1>6. Advances(ProgramApart, ProgramPages, V, "loaded", "stacked")
  BY <1>1, UserPages DEF Advances, Remaining
<1>7. Lent(b, "stacked") /\ "stacked" \in Stages
  BY <1>1 DEF Lent, Stages
<1> QED BY <1>2, <1>5, <1>6, <1>7, BuildGoes

(* The identity page is mapped.                                             *)
LEMMA SeedStep == ASSUME NEW s \in Space PROVE IInv /\ SeedId(s) => IInv'
<1> SUFFICES ASSUME IInv, SeedId(s) PROVE IInv'
  OBVIOUS
<1>1. PICK x, b, V : x = map_fresh(mem, s, space[s].root, USER_DATA_VA, RW) /\ b = {} /\ V = {USER_DATA_VA}
  OBVIOUS
<1>2. BuildStep(s, "stacked", "seeded", space[s].root, b, x)
  BY <1>1 DEF SeedId, seed_id
<1>3. phase = "run" /\ space[s].stage = "stacked"
  BY <1>2, Zenon DEF BuildStep
<1>4. s \in HeldIn(space)
  BY <1>3 DEF HeldIn
<1>5. Progress(x, s, V)
  BY <1>1, <1>3, <1>4, UserPages, FreshProgress
<1>6. Advances(ProgramApart, ProgramPages, V, "stacked", "seeded")
  BY <1>1, UserPages DEF Advances, Remaining
<1>7. Lent(b, "seeded") /\ "seeded" \in Stages
  BY <1>1 DEF Lent, Stages
<1> QED BY <1>2, <1>5, <1>6, <1>7, BuildGoes

(* The clock is borrowed.                                                   *)
LEMMA ClockStep == ASSUME NEW s \in Space PROVE IInv /\ MapClock(s) => IInv'
<1> SUFFICES ASSUME IInv, MapClock(s) PROVE IInv'
  OBVIOUS
<1>1. PICK r, x, b, V : /\ r = space[s].root /\ x = map_clock(mem, r)
                        /\ b = {clock} /\ V = {USER_CLOCK_VA}
  OBVIOUS
<1>2. BuildStep(s, "seeded", "built", space[s].root, b, x)
  BY <1>1 DEF MapClock
<1>3. phase = "run" /\ space[s].stage = "seeded"
  BY <1>2, Zenon DEF BuildStep
<1>4. s \in HeldIn(space)
  BY <1>3 DEF HeldIn
<1>5. PICK o : /\ Now(o) /\ Kept(mem, o, RootsIn(kroot, space), kroot, clock)
               /\ TreeOK(mem, o, space[s].root, s)
  BY <1>3, <1>4, BuildFinds
<1>6. PICK Rs : Rs = RootsIn(kroot, space)
  OBVIOUS
<1>7. kroot \in Rs /\ r # kroot /\ MayMap(Rs, kroot, r, USER_CLOCK_VA)
  BY <1>1, <1>3, <1>4, <1>6, RootHeld, UserPages DEF MayMap
<1>8. gib \in BOOLEAN /\ clock \in Frame /\ ~Failed(mem)
  BY <1>3, RunFinds
<1>9. PICK q : Builds(mem, o, x, q, Rs, kroot, clock, r, s, V)
  <2>1. Kept(mem, o, Rs, kroot, clock) /\ TreeOK(mem, o, r, s)
    BY <1>1, <1>5, <1>6
  <2>2. \E q : Builds(mem, o, map_clock(mem, r), q, Rs, kroot, clock, r, s, {USER_CLOCK_VA})
    BY <1>7, <1>8, <2>1, MapShared
  <2> QED BY <1>1, <2>2
<1>10. Progress(x, s, V)
  <2>1. Worked(mem, o, x, q, kroot, clock, ProgramApart, space, s, V)
    BY <1>1, <1>6, <1>9 DEF Worked, Builds
  <2> QED BY <1>5, <2>1 DEF Progress
<1>11. Advances(ProgramApart, ProgramPages, V, "seeded", "built")
  BY <1>1 DEF Advances, Remaining
<1>12. Lent(b, "built") /\ "built" \in Stages
  BY <1>1, <1>8 DEF Lent, Stages
<1> QED BY <1>2, <1>10, <1>11, <1>12, BuildGoes

(* A space is begun, or is not.                                             *)
LEMMA NewStep == ASSUME NEW s \in Space PROVE IInv /\ New(s) => IInv'
<1> SUFFICES ASSUME IInv, New(s) PROVE IInv'
  OBVIOUS
<1>1. PICK x : x = new(mem)
  OBVIOUS
<1>2. PICK g : g = IF Failed(x) THEN 0 ELSE x.got
  OBVIOUS
<1>3. BuildStep(s, "none", "new", g, {}, x)
  BY <1>1, <1>2 DEF New, Begun
<1>4. /\ phase = "run" /\ space[s].stage = "none"
      /\ IF Failed(x)
         THEN /\ space' = [space EXCEPT ![s] = NoSpace]
              /\ mem' = [Settled(x) EXCEPT !.asked[g] = IF g = 0 THEN @ ELSE <<>>]
              /\ leaked' = (leaked \cup (mem.pool \ x.pool))
                   \cup (IF g = 0 THEN {} ELSE OwnedBy(x, g))
         ELSE /\ space' = [space EXCEPT ![s] = [stage |-> "new", root |-> g, borrowed |-> {}]]
              /\ mem' = Settled(x)
              /\ leaked' = leaked
      /\ UNCHANGED machine /\ phase' = phase /\ kroot' = kroot /\ deviceNext' = deviceNext
      /\ stacks' = stacks /\ clock' = clock
  BY <1>3, Zenon DEF BuildStep
<1>5. Ring3Still
  BY <1>4 DEF Ring3Still
<1>6. /\ kroot \in Frame /\ clock \in Frame /\ pooled \subseteq Frame
      /\ ProgramApart = TRUE \/ ProgramApart = FALSE
      /\ Rooting(space, kroot) /\ IsMem(mem) /\ ~Failed(mem)
  BY <1>4, RunFinds
<1>7. PICK o : Now(o)
  BY <1>4, RunFinds
<1>8. kroot \in Frame \ mem.pool
  <2>1. o.R[kroot] = kroot /\ PoolFree(mem, o)
    BY <1>7 DEF Now, Sane, Kept, Shape, RootsOwn, RootsIn
  <2>2. kroot # Nobody
    BY <1>6, Numbers DEF Frame, Nobody
  <2> QED BY <1>6, <2>1, <2>2 DEF PoolFree
<1>9. Roots(mem, x, kroot)
  BY <1>1, <1>6, <1>8, NewIs
<1>10. PICK n : n = Settled(x)
  OBVIOUS
<1>11. IsMem(x) /\ x.asked = mem.asked /\ Alike(x, n)
  BY <1>9, <1>10, SettledAlike DEF Roots
<1>12. space \in [Space -> SpaceT]
  BY <1>6 DEF Rooting
<1>13. Sane(mem, o, kroot, clock, pooled, Nowhere, ProgramApart, ProgramPages, space)
  BY <1>7 DEF Now
<1>14. CASE Failed(x)
  <2>1. Untouched(mem, x) /\ g = 0
    BY <1>2, <1>9, <1>14 DEF Roots
  <2>2. mem' = n
    <3>1. mem' = [n EXCEPT !.asked[g] = @]
      BY <1>4, <1>10, <1>14, <2>1
    <3>2. 0 \in Frame
      BY Numbers DEF Frame
    <3>3. n = [table |-> n.table, bytes |-> n.bytes, pool |-> n.pool, inUse |-> n.inUse,
               got |-> n.got, err |-> n.err, asked |-> n.asked] /\ n.asked = [f \in Frame |-> n.asked[f]]
      BY <1>11 DEF Alike, IsMem
    <3>4. PICK a : a = n.asked
      OBVIOUS
    <3>5. [a EXCEPT ![g] = a[g]] = a
      BY <2>1, <3>2, <3>3, <3>4
    <3>6. [n EXCEPT !.asked = [n.asked EXCEPT ![g] = n.asked[g]]] = [n EXCEPT !.asked = a]
      BY <3>4, <3>5
    <3>7. [n EXCEPT !.asked = a] = n
      BY <3>3, <3>4
    <3> QED BY <3>1, <3>6, <3>7
  <2>3. Nowhere' = Nowhere
    BY <1>4, <1>14, <2>1 DEF Nowhere, Untouched
  <2>4. PICK z : z = space'
    OBVIOUS
  <2>5. NoSpace \in SpaceT /\ NoSpace.stage = "none"
    <3>1. 0 \in Frame
      BY Numbers DEF Frame
    <3> QED BY <3>1 DEF NoSpace, SpaceT, Stages
  <2>6. z \in [Space -> SpaceT] /\ z[s] = NoSpace /\ \A u \in Space : u # s => z[u] = space[u]
    BY <1>4, <1>12, <1>14, <2>4, <2>5
  <2>7. HeldIn(z) = HeldIn(space) /\ \A u \in HeldIn(space) : z[u] = space[u]
    BY <1>4, <2>5, <2>6 DEF HeldIn
  <2>8. RootsIn(kroot, z) = RootsIn(kroot, space)
    BY <2>7 DEF RootsIn
  <2>9. Rooting(z, kroot)
    BY <1>6, <2>6, <2>7 DEF Rooting
  <2>10. Sane(n, o, kroot, clock, pooled, Nowhere, ProgramApart, ProgramPages, z)
    <3>1. /\ IsMem(n) /\ n.table = mem.table /\ n.bytes = mem.bytes /\ n.pool = mem.pool
          /\ n.inUse = mem.inUse /\ n.asked = mem.asked /\ ~Failed(n)
      BY <1>11, <2>1 DEF Alike, Untouched
    <3>2. \A u \in HeldIn(space) :
             /\ z[u].root = space[u].root
             /\ Remaining(ProgramPages, z[u].stage) \subseteq Remaining(ProgramPages, space[u].stage)
      BY <2>7
    <3> QED BY <1>6, <1>13, <2>7, <2>8, <3>1, <3>2, SaneAlike
  <2>11. \A y \in Page : Asked(mem'.asked[kroot], y) = Asked(mem.asked[kroot], y)
    BY <1>11, <2>2 DEF Alike
  <2>12. \A u \in Space : space'[u].stage \in {"built", "live"} => space'[u].borrowed = {clock}
    BY <1>4, <1>14, <2>5, BorrowedStays
  <2>13. \E w : Sane(mem', w, kroot, clock, pooled, Nowhere', ProgramApart, ProgramPages, space')
    BY <2>2, <2>3, <2>4, <2>10
  <2> QED BY <1>4, <1>5, <2>4, <2>9, <2>11, <2>12, <2>13, RunGoesOn
<1>15. CASE ~Failed(x)
  <2>1. PICK w, z : w = [stage |-> "new", root |-> x.got, borrowed |-> {}] /\ z = space'
    OBVIOUS
  <2>2. space' = [space EXCEPT ![s] = w] /\ Becomes(space, z, s, w)
    BY <1>2, <1>4, <1>15, <2>1 DEF Becomes
  <2>3. mem' = n /\ Nowhere' = Nowhere
    BY <1>4, <1>10, <1>15 DEF Nowhere
  <2>4. After(n, kroot, clock, pooled, Nowhere, ProgramApart, ProgramPages, z)
    BY <1>4, <1>6, <1>9, <1>10, <1>13, <1>15, <2>1, <2>2, SaneBegin
  <2>5. /\ \E q : Sane(mem', q, kroot, clock, pooled, Nowhere', ProgramApart, ProgramPages, space')
        /\ Rooting(space', kroot)
    BY <2>1, <2>3, <2>4 DEF After
  <2>6. \A y \in Page : Asked(mem'.asked[kroot], y) = Asked(mem.asked[kroot], y)
    BY <1>11, <2>3 DEF Alike
  <2>7. w.stage \notin {"built", "live"}
    BY <2>1
  <2>8. \A u \in Space : space'[u].stage \in {"built", "live"} => space'[u].borrowed = {clock}
    BY <1>4, <2>2, <2>7, BorrowedStays
  <2> QED BY <1>4, <1>5, <2>5, <2>6, <2>8, RunGoesOn
<1> QED BY <1>14, <1>15

(* The scheduler takes the space, or it is dropped.                         *)
LEMMA SpawnStep == ASSUME NEW s \in Space PROVE IInv /\ Spawn(s) => IInv'
<1> SUFFICES ASSUME IInv, Spawn(s) PROVE IInv'
  OBVIOUS
<1>1. /\ space[s].stage = "built"
      /\ \/ /\ space' = [space EXCEPT ![s].stage = "live"]
            /\ mem' = mem /\ leaked' = leaked
         \/ /\ space' = [space EXCEPT ![s] = NoSpace]
            /\ leaked' = leaked \cup OwnedBy(mem, space[s].root)
            /\ mem' = [mem EXCEPT !.asked[space[s].root] = <<>>]
      /\ UNCHANGED machine /\ phase' = phase /\ kroot' = kroot /\ deviceNext' = deviceNext
      /\ stacks' = stacks /\ clock' = clock
  BY Zenon DEF Spawn
<1>2. s \in HeldIn(space)
  BY <1>1 DEF HeldIn
<1>3. phase = "run"
  BY <1>2, HeldRuns
<1>4. Ring3Still
  BY <1>1 DEF Ring3Still
<1>5. /\ kroot \in Frame /\ clock \in Frame /\ pooled \subseteq Frame
      /\ ProgramApart \in BOOLEAN /\ Rooting(space, kroot) /\ IsMem(mem) /\ ~Failed(mem)
  BY <1>3, RunFinds
<1>6. space \in [Space -> SpaceT] /\ space[s].borrowed = {clock}
  <2>1. Booted
    BY <1>3, RunFinds
  <2> QED BY <1>1, <1>5, <2>1 DEF Rooting, Booted
<1>7. CASE space' = [space EXCEPT ![s].stage = "live"] /\ mem' = mem /\ leaked' = leaked
  <2>1. PICK o : Now(o)
    BY <1>3, RunFinds
  <2>2. PICK z, w : z = space' /\ w = [space[s] EXCEPT !.stage = "live"]
    OBVIOUS
  <2>3. w \in SpaceT /\ w.stage = "live" /\ w.root = space[s].root /\ w.borrowed = {clock}
    <3>1. space[s] \in SpaceT
      BY <1>6
    <3> QED BY <1>6, <2>2, <3>1 DEF SpaceT, Stages
  <2>4. space' = [space EXCEPT ![s] = w]
    BY <1>7, <2>2
  <2>5. z \in [Space -> SpaceT] /\ z[s] = w /\ \A u \in Space : u # s => z[u] = space[u]
    BY <1>6, <2>2, <2>3, <2>4
  <2>6. HeldIn(z) = HeldIn(space)
    BY <1>1, <2>3, <2>5 DEF HeldIn
  <2>7. \A u \in HeldIn(space) :
           /\ z[u].root = space[u].root
           /\ Remaining(ProgramPages, z[u].stage) \subseteq Remaining(ProgramPages, space[u].stage)
    <3> SUFFICES ASSUME NEW u \in HeldIn(space)
                 PROVE  /\ z[u].root = space[u].root
                        /\ Remaining(ProgramPages, z[u].stage)
                             \subseteq Remaining(ProgramPages, space[u].stage)
      OBVIOUS
    <3>1. u \in Space
      BY DEF HeldIn
    <3>2. CASE u = s
      BY <2>3, <2>5, <3>2 DEF Remaining
    <3>3. CASE u # s
      BY <2>5, <3>1, <3>3
    <3> QED BY <3>2, <3>3
  <2>8. RootsIn(kroot, z) = RootsIn(kroot, space)
    BY <2>6, <2>7 DEF RootsIn
  <2>9. Rooting(z, kroot)
    BY <1>5, <2>5, <2>6, <2>7 DEF Rooting
  <2>10. Sane(mem, o, kroot, clock, pooled, Nowhere, ProgramApart, ProgramPages, z)
    <3>1. Sane(mem, o, kroot, clock, pooled, Nowhere, ProgramApart, ProgramPages, space)
      BY <2>1 DEF Now
    <3> QED BY <1>5, <2>6, <2>7, <2>8, <3>1, SaneAlike
  <2>11. Nowhere' = Nowhere
    BY <1>1, <1>7 DEF Nowhere
  <2>12. \A u \in Space : space'[u].stage \in {"built", "live"} => space'[u].borrowed = {clock}
    <3>1. s \in Space
      OBVIOUS
    <3> QED BY <1>3, <2>3, <2>4, BorrowedStays
  <2>13. \E q : Sane(mem', q, kroot, clock, pooled, Nowhere', ProgramApart, ProgramPages, space')
    BY <1>7, <2>2, <2>10, <2>11
  <2>14. \A y \in Page : Asked(mem'.asked[kroot], y) = Asked(mem.asked[kroot], y)
    BY <1>7
  <2> QED BY <1>3, <1>4, <2>2, <2>9, <2>12, <2>13, <2>14, RunGoesOn
<1>8. CASE /\ space' = [space EXCEPT ![s] = NoSpace]
           /\ leaked' = leaked \cup OwnedBy(mem, space[s].root)
           /\ mem' = [mem EXCEPT !.asked[space[s].root] = <<>>]
  <2>1. PICK x, V : x = mem /\ V = {}
    OBVIOUS
  <2>2. PICK o : /\ Now(o) /\ Kept(mem, o, RootsIn(kroot, space), kroot, clock)
                 /\ TreeOK(mem, o, space[s].root, s)
    BY <1>2, <1>3, BuildFinds
  <2>3. Builds(mem, o, x, o, RootsIn(kroot, space), kroot, clock, space[s].root, s, V)
    <3>1. /\ IsMem(x) /\ x.table = mem.table /\ x.bytes = mem.bytes /\ x.pool = mem.pool
          /\ x.inUse = mem.inUse /\ x.asked = mem.asked /\ (Failed(mem) => Failed(x))
      BY <1>5, <2>1
    <3> QED BY <2>2, <3>1, WorksNot
  <2>4. Progress(x, s, V)
    <3>1. Worked(mem, o, x, o, kroot, clock, ProgramApart, space, s, V)
      BY <2>3 DEF Builds, Worked
    <3> QED BY <2>2, <3>1 DEF Progress
  <2>5. Pending(ProgramApart, ProgramPages, V, space, s)
    BY <2>1 DEF Pending
  <2>6. Dropped(x, s)
    <3>1. IsMem(mem) /\ Untouched(x, mem) /\ ~Failed(mem) /\ mem.asked = x.asked
      BY <1>5, <2>1 DEF Untouched
    <3>2. leaked' = leaked \cup (mem.pool \ x.pool) \cup OwnedBy(x, space[s].root)
      BY <1>8, <2>1
    <3> QED BY <1>8, <3>1, <3>2 DEF Dropped
  <2> QED BY <1>2, <1>3, <1>4, <2>4, <2>5, <2>6, DropGoes
<1> QED BY <1>1, <1>7, <1>8

(* A space is torn down.                                                    *)
LEMMA DestroyStep == ASSUME NEW s \in Space PROVE IInv /\ Destroy(s) => IInv'
<1> SUFFICES ASSUME IInv, Destroy(s) PROVE IInv'
  OBVIOUS
<1>1. /\ space[s].stage = "live"
      /\ mem' = destroy(mem, space[s].root, space[s].borrowed)
      /\ space' = [space EXCEPT ![s] = NoSpace]
      /\ UNCHANGED machine /\ phase' = phase /\ kroot' = kroot /\ deviceNext' = deviceNext
      /\ stacks' = stacks /\ clock' = clock /\ leaked' = leaked
  BY Zenon DEF Destroy
<1>2. s \in HeldIn(space)
  BY <1>1 DEF HeldIn
<1>3. phase = "run"
  BY <1>2, HeldRuns
<1>4. Ring3Still
  BY <1>1 DEF Ring3Still
<1>5. /\ kroot \in Frame /\ clock \in Frame /\ clock # 0 /\ pooled \subseteq Frame
      /\ ProgramApart = TRUE \/ ProgramApart = FALSE
      /\ Rooting(space, kroot) /\ IsMem(mem)
  BY <1>3, RunFinds
<1>6. PICK o : Now(o)
  BY <1>3, RunFinds
<1>7. Sane(mem, o, kroot, clock, pooled, Nowhere, ProgramApart, ProgramPages, space)
  BY <1>6 DEF Now
<1>8. PICK b : b = {clock}
  OBVIOUS
<1>9. space[s].borrowed = b
  <2>1. Booted
    BY <1>3, RunFinds
  <2> QED BY <1>1, <1>8, <2>1 DEF Booted
<1>10. PICK y, z : y = destroy(mem, space[s].root, b) /\ z = space'
  OBVIOUS
<1>11. Becomes(space, z, s, NoSpace)
  BY <1>1, <1>10 DEF Becomes
<1>12. After(y, kroot, clock, pooled, Nowhere, ProgramApart, ProgramPages, z)
  BY <1>2, <1>5, <1>7, <1>8, <1>10, <1>11, SaneDestroy
<1>13. mem' = y /\ Nowhere' = Nowhere
  BY <1>1, <1>9, <1>10 DEF Nowhere
<1>14. /\ \E q : Sane(mem', q, kroot, clock, pooled, Nowhere', ProgramApart, ProgramPages, space')
       /\ Rooting(space', kroot)
  BY <1>10, <1>12, <1>13 DEF After
<1>15. \A v \in Page : Asked(mem'.asked[kroot], v) = Asked(mem.asked[kroot], v)
  <2>1. space[s].root # kroot
    BY <1>2, <1>3, RootHeld
  <2>2. y.asked = [mem.asked EXCEPT ![space[s].root] = <<>>]
    BY <1>5, <1>10 DEF destroy, IsMem
  <2>3. mem.asked = [f \in Frame |-> mem.asked[f]]
    BY <1>5 DEF IsMem
  <2>4. y.asked[kroot] = mem.asked[kroot]
    BY <1>5, <2>1, <2>2, <2>3
  <2> QED BY <1>13, <2>4
<1>16. \A u \in Space : space'[u].stage \in {"built", "live"} => space'[u].borrowed = {clock}
  <2>1. NoSpace.stage \notin {"built", "live"}
    BY DEF NoSpace
  <2> QED BY <1>1, <1>3, <2>1, BorrowedStays
<1> QED BY <1>3, <1>4, <1>14, <1>15, <1>16, RunGoesOn

(* A step that changes nothing.                                             *)
LEMMA StutterStep == IInv /\ UNCHANGED vars => IInv'
<1> SUFFICES ASSUME IInv, UNCHANGED vars PROVE IInv'
  OBVIOUS
<1>1. /\ phase' = phase /\ mem' = mem /\ pooled' = pooled /\ gib' = gib /\ smap' = smap /\ fb' = fb
      /\ image' = image /\ kroot' = kroot /\ deviceNext' = deviceNext /\ stacks' = stacks
      /\ clock' = clock /\ space' = space /\ leaked' = leaked
  BY DEF vars
<1>2. UNCHANGED machine
  BY <1>1 DEF machine
<1>3. /\ MachineOK' = MachineOK /\ ProgramPages' = ProgramPages /\ ProgramApart' = ProgramApart
  BY <1>2, SameMachine
<1>4. Nowhere' = Nowhere /\ Open' = Open
  BY <1>1 DEF Nowhere, Open
<1>5. WellKept' = WellKept
  BY <1>1, <1>3, <1>4 DEF WellKept
<1>6. Booted' = Booted /\ AtStart' = AtStart /\ Overwritten' = Overwritten
  BY <1>1, <1>5 DEF Booted, AtStart, Overwritten, LentOut
<1> QED BY <1>1, <1>3, <1>6 DEF IInv

(* Every step keeps the invariant.                                          *)
LEMMA StepHolds == IInv /\ [Next]_vars => IInv'
<1> SUFFICES ASSUME IInv, [Next]_vars PROVE IInv'
  OBVIOUS
<1>1. CASE VmInit
  BY <1>1, VmStep
<1>2. CASE SelftestSmap
  BY <1>2, SmapStep
<1>3. CASE InitApic
  BY <1>3, ApicStep
<1>4. CASE InitTimer
  BY <1>4, TimerStep
<1>5. CASE StageTrampoline
  BY <1>5, StageStep
<1>6. CASE OneCore
  BY <1>6, OneCoreStep
<1>7. ASSUME NEW n \in 0 .. 2, WakeCores(n) PROVE IInv'
  BY <1>7, CoresStep
<1>8. CASE UserInit
  BY <1>8, UserStep
<1>9. ASSUME NEW s \in Space, New(s) PROVE IInv'
  BY <1>9, NewStep
<1>10. ASSUME NEW s \in Space, Load(s) PROVE IInv'
  BY <1>10, LoadStep
<1>11. ASSUME NEW s \in Space, MapStack(s) PROVE IInv'
  BY <1>11, StackStep
<1>12. ASSUME NEW s \in Space, SeedId(s) PROVE IInv'
  BY <1>12, SeedStep
<1>13. ASSUME NEW s \in Space, MapClock(s) PROVE IInv'
  BY <1>13, ClockStep
<1>14. ASSUME NEW s \in Space, Spawn(s) PROVE IInv'
  BY <1>14, SpawnStep
<1>15. ASSUME NEW s \in Space, Destroy(s) PROVE IInv'
  BY <1>15, DestroyStep
<1>16. CASE UNCHANGED vars
  BY <1>16, StutterStep
<1>17. Boot => IInv'
  BY <1>1, <1>2, <1>3, <1>4, <1>5, <1>6, <1>7, <1>8 DEF Boot
<1> QED BY <1>9, <1>10, <1>11, <1>12, <1>13, <1>14, <1>15, <1>16, <1>17 DEF Next

(* The invariant holds of every state.                                      *)
THEOREM Invariance == Spec => []IInv
<1>1. Init => IInv
  BY InitHolds
<1>2. IInv /\ [Next]_vars => IInv'
  BY StepHolds
<1> QED BY <1>1, <1>2, PTL DEF Spec

-----------------------------------------------------------------------------
(* What the invariant says of the states, property by property.            *)

(* Before the kernel's tree, and after the boot has halted, nothing is      *)
(* held.                                                                    *)
LEMMA NothingHeld ==
  ASSUME IInv, phase \in {"vm", "halt"}
  PROVE  Held = {} /\ Trees = {} /\ kroot = 0
<1>1. kroot = 0 /\ HeldIn(space) = {}
  BY NoSpaces DEF IInv, AtStart
<1>2. Held = {}
  BY <1>1 DEF Held, HeldIn
<1> QED BY <1>1, <1>2 DEF Trees

(* From then on all is well kept by some owner.                             *)
LEMMA AllKept ==
  ASSUME IInv, phase \notin {"vm", "halt", "overwritten"}
  PROVE  /\ Held = HeldIn(space) /\ Trees = RootsIn(kroot, space)
         /\ kroot \in Frame /\ kroot \in RootsIn(kroot, space) /\ Rooting(space, kroot)
         /\ (\E o : Now(o)) /\ Upper(mem, kroot, Open) /\ MachineOK /\ kroot # 0
<1>1. Booted /\ MachineOK
  BY DEF IInv
<1>2. /\ kroot \in pooled /\ pooled \subseteq Frame /\ 0 \notin pooled /\ Rooting(space, kroot) /\ WellKept
  BY <1>1 DEF Booted, MachineOK
<1>3. Held = HeldIn(space)
  BY DEF Held, HeldIn
<1>4. Trees = RootsIn(kroot, space)
  BY <1>2, <1>3 DEF Trees, RootsIn
<1>5. (\E o : Now(o)) /\ Upper(mem, kroot, Open)
  BY <1>2 DEF WellKept, Steady, Now
<1> QED BY <1>1, <1>2, <1>3, <1>4, <1>5 DEF RootsIn

(* A well-kept tree resolves a page to what was asked for it.               *)
LEMMA RootResolves ==
  ASSUME IInv, phase \notin {"vm", "halt", "overwritten"}, NEW r \in RootsIn(kroot, space), NEW v \in Page
  PROVE  translate(mem, r, v) = AskedOf(r, v)
<1>1. PICK o : Now(o)
  BY AllKept
<1>2. PICK Rs, a : Rs = RootsIn(kroot, space) /\ a = AskedFn(mem)
  OBVIOUS
<1>3. Shape(mem, o, a, Rs, kroot, clock)
  BY <1>1, <1>2 DEF Now, Sane, Kept
<1>4. kroot \in Rs /\ r \in Rs
  BY <1>2, AllKept
<1>5. Right(mem, a, kroot, r, v)
  BY <1>3, <1>4, ResolvesRight
<1>6. Rs \subseteq Frame
  BY <1>3 DEF Shape
<1>7. PICK t : t = TreeOf(r, kroot, v)
  OBVIOUS
<1>8. t \in Frame /\ t = IF v >= USER_LIMIT THEN kroot ELSE r
  BY <1>4, <1>6, <1>7 DEF TreeOf
<1>9. translate(mem, r, v) = a[t][v]
  BY <1>5, <1>7 DEF Right
<1>10. a[t][v] = Asked(mem.asked[t], v)
  BY <1>2, <1>8 DEF AskedFn
<1> QED BY <1>8, <1>9, <1>10 DEF AskedOf

(* Every tree resolves every page to exactly what was asked for it: large   *)
(* pages, widened tables, recycled frames and the copied upper half make no *)
(* difference (paging translate and map_as, addrspace new and destroy).     *)
THEOREM TreesResolveAsAsked == Spec => []ResolvesAsAsked
<1>1. ASSUME IInv PROVE ResolvesAsAsked
  <2>1. CASE phase \in {"vm", "halt"}
    BY <1>1, <2>1, NothingHeld DEF ResolvesAsAsked
  <2>2. CASE phase \notin {"vm", "halt", "overwritten"}
    BY <1>1, <2>2, AllKept, RootResolves DEF ResolvesAsAsked
  <2>3. CASE phase = "overwritten"
    BY <1>1, <2>3 DEF IInv, ResolvesAsAsked
  <2> QED BY <2>1, <2>2, <2>3
<1>2. IInv => ResolvesAsAsked
  BY <1>1
<1> QED BY <1>2, Invariance, PTL

(* No page of any tree is writable and executable but the trampoline's      *)
(* while cores are woken; and once ring 3 can run the kernel's tree maps    *)
(* nothing below the user limit (selftest_smap, unmap_identity).            *)
THEOREM NothingIsLeftBehind == Spec => []NothingLeftBehind
<1>1. ASSUME IInv PROVE NothingLeftBehind
  <2>1. CASE phase \in {"vm", "halt"}
    BY <1>1, <2>1, NothingHeld DEF NothingLeftBehind
  <2>2. CASE phase \notin {"vm", "halt", "overwritten"}
    <3>1. /\ Trees = RootsIn(kroot, space) /\ Held = HeldIn(space)
          /\ kroot \in Frame /\ kroot \in RootsIn(kroot, space)
          /\ Upper(mem, kroot, Open) /\ Rooting(space, kroot)
      BY <1>1, <2>2, AllKept
    <3>2. PICK o : Now(o)
      BY <1>1, <2>2, AllKept
    <3>3. ASSUME NEW r \in Trees, NEW v \in Page, is_wx(translate(mem, r, v).rights)
          PROVE  phase = "cores" /\ v = TRAMPOLINE_PHYS
      <4>1. translate(mem, r, v) = AskedOf(r, v)
        BY <1>1, <2>2, <3>1, <3>3, RootResolves
      <4>2. PICK t : t = IF v >= USER_LIMIT THEN kroot ELSE r
        OBVIOUS
      <4>3. is_wx(Asked(mem.asked[t], v).rights)
        BY <3>3, <4>1, <4>2 DEF AskedOf
      <4>4. t = kroot
        <5>1. ASSUME NEW s \in HeldIn(space), r = space[s].root, t = r PROVE FALSE
          <6>1. TreeOK(mem, o, space[s].root, s)
            BY <3>2 DEF Now, Sane, Fine
          <6> QED BY <4>3, <5>1, <6>1 DEF TreeOK
        <5>2. r = kroot \/ \E s \in HeldIn(space) : r = space[s].root
          BY <3>1 DEF RootsIn
        <5> QED BY <4>2, <5>1, <5>2
      <4>5. v \in Open
        BY <3>1, <4>3, <4>4 DEF Upper
      <4> QED BY <4>5 DEF Open
    <3>4. ASSUME phase = "run", NEW v \in UserPage PROVE ~translate(mem, kroot, v).mapped
      <4>1. v \in Page /\ v < USER_LIMIT /\ Open = {}
        BY <3>4 DEF UserPage, Open
      <4>2. v \in Int /\ USER_LIMIT \in Int
        BY <4>1, LinearEven DEF Page
      <4>3. translate(mem, kroot, v) = Asked(mem.asked[kroot], v)
        <5>1. translate(mem, kroot, v) = AskedOf(kroot, v)
          BY <1>1, <2>2, <3>1, <4>1, RootResolves
        <5> QED BY <5>1 DEF AskedOf
      <4> QED BY <3>1, <4>1, <4>2, <4>3 DEF Upper
    <3> QED BY <3>3, <3>4 DEF NothingLeftBehind
  <2>3. CASE phase = "overwritten"
    BY <1>1, <2>3 DEF IInv, NothingLeftBehind
  <2> QED BY <2>1, <2>2, <2>3
<1>2. IInv => NothingLeftBehind
  BY <1>1
<1> QED BY <1>2, Invariance, PTL

-----------------------------------------------------------------------------
(* What ring 3 reaches.                                                     *)

(* A held space, its root and its owner, when ring 3 runs.                  *)
LEMMA HeldTree ==
  ASSUME IInv, NEW s \in Held
  PROVE  /\ phase = "run" /\ Held = HeldIn(space) /\ Trees = RootsIn(kroot, space)
         /\ s \in Space /\ space[s].root \in RootsIn(kroot, space) /\ space[s].root # kroot
         /\ space[s].root \in Frame /\ kroot \in Frame /\ kroot \in RootsIn(kroot, space)
         /\ clock # 0 /\ clock \in Frame /\ Upper(mem, kroot, {})
         /\ \A u \in Held : u # s => space[u].root # space[s].root
<1>1. s \in HeldIn(space)
  BY DEF Held, HeldIn
<1>2. phase = "run"
  BY <1>1, HeldRuns
<1>3. Held = HeldIn(space) /\ Trees = RootsIn(kroot, space)
  BY <1>2, AllKept
<1>4. /\ Rooting(space, kroot) /\ kroot \in Frame /\ clock # 0 /\ clock \in Frame
      /\ Upper(mem, kroot, Open) /\ Open = {}
  BY <1>2, RunFinds
<1>5. \A u \in HeldIn(space) : u # s => space[u].root # space[s].root
  BY <1>1, <1>4, RootIs
<1> QED BY <1>1, <1>2, <1>3, <1>4, <1>5, RootHeld

(* The user limit is a page's address.                                      *)
LEMMA LimitPage == USER_LIMIT \in Page
<1> DEFINE S == level_size(3)
<1>1. /\ S \in Nat \ {0} /\ level_size(4) = Fan * S /\ Fan \in Nat /\ KernelFirst \in Nat
      /\ KernelFirst < Fan /\ USER_LIMIT = KernelFirst * S /\ level_size(4) \in Nat
      /\ S * Fan = Fan * S
  BY Sizes, Numbers DEF USER_LIMIT, Top
<1>2. Page = 0 .. level_size(4) - 1
  BY DEF Page, Top
<1> HIDE DEF S
<1>3. KernelFirst * S < Fan * S
  BY <1>1, Multiples
<1>4. KernelFirst * S \in Nat /\ Fan * S \in Nat
  BY <1>1
<1> QED BY <1>1, <1>2, <1>3, <1>4

(* The user's pages are those below the user limit.                         *)
LEMMA BelowLimit ==
  ASSUME NEW v \in Page
  PROVE  /\ v \in Nat /\ USER_LIMIT \in Nat /\ USER_LIMIT \in Page
         /\ v < USER_LIMIT <=> v \in UserPage
<1>1. v \in Nat /\ PHYS_MAP_BASE \in Nat /\ PHYS_MAP_BASE = USER_LIMIT
  BY LinearEven, SizeNat DEF Page, Top
<1>2. USER_LIMIT \in Page
  BY LimitPage
<1> QED BY <1>1, <1>2 DEF UserPage

(* What ring 3 may use in the upper half is nothing.                        *)
LEMMA RingBelow ==
  ASSUME IInv, NEW s \in Held, NEW v \in Page, AskedOf(space[s].root, v).rights.user
  PROVE  v < USER_LIMIT
<1>1. Upper(mem, kroot, {})
  BY HeldTree
<1>2. v \in Nat /\ USER_LIMIT \in Nat
  BY BelowLimit
<1>3. CASE v >= USER_LIMIT
  <2>1. AskedOf(space[s].root, v) = Asked(mem.asked[kroot], v)
    BY <1>3 DEF AskedOf
  <2> QED BY <1>1, <1>3, <2>1 DEF Upper
<1> QED BY <1>2, <1>3

(* What ring 3 reaches in a space is a frame of the space's own, or the     *)
(* clock, read-only.                                                        *)
LEMMA ReachedIsOwn ==
  ASSUME IInv, NEW s \in Held, NEW v \in UserPage, translate(mem, space[s].root, v).mapped
  PROVE  \E o : Now(o) /\ Its(o, space[s].root, clock, v, translate(mem, space[s].root, v))
<1>1. /\ phase = "run" /\ space[s].root \in RootsIn(kroot, space) /\ space[s].root # kroot
      /\ kroot \in RootsIn(kroot, space)
  BY HeldTree
<1>2. PICK o : Now(o)
  BY <1>1, RunFinds
<1>3. PICK Rs, a, r : Rs = RootsIn(kroot, space) /\ a = AskedFn(mem) /\ r = space[s].root
  OBVIOUS
<1>4. Shape(mem, o, a, Rs, kroot, clock)
  BY <1>2, <1>3 DEF Now, Sane, Kept
<1>5. kroot \in Rs /\ r \in Rs /\ r # kroot
  BY <1>1, <1>3
<1>6. v \in Page /\ v < USER_LIMIT
  BY DEF UserPage
<1>7. translate(mem, r, v).mapped
  BY <1>3
<1>8. Its(o, r, clock, v, translate(mem, r, v))
  BY <1>4, <1>5, <1>6, <1>7, UserLeaf
<1> QED BY <1>2, <1>3, <1>8

(* A table of a tree has a level.                                           *)
LEMMA TablesLevelled ==
  ASSUME IInv, phase = "run", NEW o, Now(o), NEW r \in RootsIn(kroot, space),
         NEW f \in TablesOf(mem, r, Page)
  PROVE  o.L[f] >= 0
<1>1. PICK Rs, a : Rs = RootsIn(kroot, space) /\ a = AskedFn(mem)
  OBVIOUS
<1>2. Shape(mem, o, a, Rs, kroot, clock) /\ kroot \in Rs /\ r \in Rs
  BY <1>1 DEF Now, Sane, Kept, RootsIn
<1>3. PICK v \in Page : f \in {Descent(mem, r, v)[l].to :
                                 l \in {k \in 1 .. Top + 1 : Descent(mem, r, v)[k].end = "table"}}
  BY DEF TablesOf
<1>4. PICK l \in 1 .. 4 : Descent(mem, r, v)[l].end = "table" /\ f = Descent(mem, r, v)[l].to
  BY <1>3 DEF Top
<1>5. Descent(mem, r, v)[l].to \in OwnTables(o, r) \cup OwnTables(o, kroot)
  BY <1>2, <1>4, TablesWithin
<1> QED BY <1>4, <1>5 DEF OwnTables

(* What ring 3 reaches in a space is the space's own, or the clock.         *)
LEMMA ReachesOwn == IInv => ReachesItsOwn
<1> SUFFICES ASSUME IInv PROVE ReachesItsOwn
  OBVIOUS
<1> DEFINE tables == UNION {TablesOf(mem, root, Page) : root \in Trees}
           data == [s \in Held |-> DataOf(mem, space[s].root, UserPage)]
           others == [s \in Held |-> UNION {data[u] : u \in Held \ {s}}]
<1>1. ASSUME NEW s \in Held, NEW v \in Page, translate(mem, space[s].root, v).mapped,
             translate(mem, space[s].root, v).rights.user,
             ~(translate(mem, space[s].root, v).phys = clock
                 /\ ~translate(mem, space[s].root, v).rights.write)
      PROVE  translate(mem, space[s].root, v).phys
               \in data[s] \ (mem.pool \cup stacks \cup {clock} \cup tables \cup others[s])
  <2>1. /\ phase = "run" /\ Held = HeldIn(space) /\ Trees = RootsIn(kroot, space)
        /\ space[s].root \in RootsIn(kroot, space) /\ space[s].root # kroot
        /\ space[s].root \in Frame /\ kroot \in Frame /\ kroot \in RootsIn(kroot, space)
        /\ clock # 0 /\ clock \in Frame
        /\ \A u \in Held : u # s => space[u].root # space[s].root
    BY <1>1, HeldTree
  <2>2. PICK r, t, f : r = space[s].root /\ t = translate(mem, r, v) /\ f = t.phys
    OBVIOUS
  <2>3. t = AskedOf(r, v)
    BY <1>1, <2>1, <2>2, RootResolves
  <2>4. v < USER_LIMIT
    BY <1>1, <2>2, <2>3, RingBelow
  <2>5. v \in UserPage
    BY <1>1, <2>4, BelowLimit
  <2>6. PICK o : Now(o) /\ Its(o, r, clock, v, t)
    BY <1>1, <2>2, <2>5, ReachedIsOwn
  <2>7. f \in Frame /\ o.R[f] = r /\ o.L[f] = -1
    BY <1>1, <2>2, <2>6 DEF Its
  <2>8. /\ Account(mem, o, kroot, pooled, Nowhere, ProgramApart) /\ PoolFree(mem, o)
    BY <2>6 DEF Now, Sane, Kept, Shape
  <2>9. r # Nobody
    BY <2>1, <2>2, Numbers DEF Frame, Nobody
  <2>10. f \notin mem.pool /\ f \notin Nowhere
    BY <2>7, <2>8, <2>9 DEF PoolFree, Account
  <2>11. f \notin stacks /\ f # clock
    BY <2>1, <2>10 DEF Nowhere
  <2>12. f \notin tables
    <3>1. ASSUME NEW q \in Trees, f \in TablesOf(mem, q, Page) PROVE FALSE
      <4>1. o.L[f] >= 0
        BY <2>1, <2>6, <3>1, TablesLevelled
      <4> QED BY <2>7, <4>1
    <3> QED BY <3>1
  <2>13. data[s] = DataOf(mem, r, UserPage)
    BY <2>2
  <2>14. f \in DataOf(mem, r, UserPage)
    BY <1>1, <2>2, <2>5 DEF DataOf
  <2>15. f \notin others[s]
    <3>1. ASSUME NEW u \in Held \ {s}, f \in DataOf(mem, space[u].root, UserPage) PROVE FALSE
      <4>1. PICK Rs, a, q : Rs = RootsIn(kroot, space) /\ a = AskedFn(mem) /\ q = space[u].root
        OBVIOUS
      <4>2. Shape(mem, o, a, Rs, kroot, clock) /\ kroot \in Rs
        BY <2>1, <2>6, <4>1 DEF Now, Sane, Kept
      <4>3. q \in Rs /\ q # kroot /\ q # r
        <5>1. u \in Held
          OBVIOUS
        <5>2. space[u].root \in RootsIn(kroot, space) /\ space[u].root # kroot
          BY <5>1, HeldTree
        <5> QED BY <2>1, <2>2, <4>1, <5>1, <5>2
      <4>4. f \in DataOf(mem, q, UserPage)
        BY <3>1, <4>1
      <4>5. f = clock \/ (f \in Owned(o, q) /\ o.L[f] = -1)
        BY <4>2, <4>3, <4>4, DataWithin
      <4> QED BY <2>7, <2>11, <4>3, <4>5 DEF Owned
    <3>2. others[s] = UNION {data[u] : u \in Held \ {s}}
      OBVIOUS
    <3>3. \A u \in Held : data[u] = DataOf(mem, space[u].root, UserPage)
      OBVIOUS
    <3> HIDE DEF data, others
    <3> QED BY <3>1, <3>2, <3>3
  <2> HIDE DEF data, others, tables
  <2> QED BY <2>2, <2>10, <2>11, <2>12, <2>13, <2>14, <2>15
<1> HIDE DEF data, others, tables
<1>2. \A s \in Held : \A v \in Page :
        LET t == translate(mem, space[s].root, v)
        IN  t.mapped /\ t.rights.user =>
              \/ t.phys = clock /\ ~t.rights.write
              \/ t.phys \in data[s] \ (mem.pool \cup stacks \cup {clock} \cup tables \cup others[s])
  BY <1>1
<1> QED BY <1>2 DEF ReachesItsOwn, data, others, tables

(* A page ring 3 reaches holds no byte of anybody else.                     *)
LEMMA BytesOwn == IInv => NoForeignBytes
<1> SUFFICES ASSUME IInv, NEW s \in Held, NEW v \in UserPage,
                    translate(mem, space[s].root, v).mapped
             PROVE  mem.bytes[translate(mem, space[s].root, v).phys] \subseteq {s}
  BY DEF NoForeignBytes
<1>1. PICK r, t : r = space[s].root /\ t = translate(mem, r, v)
  OBVIOUS
<1>2. PICK o : Now(o) /\ Its(o, r, clock, v, t)
  BY <1>1, ReachedIsOwn
<1>3. clock # 0 /\ Held = HeldIn(space)
  BY HeldTree
<1>4. CASE t.phys = clock
  <2>1. mem.bytes[clock] = {}
    BY <1>2, <1>3 DEF Now, Sane
  <2> QED BY <1>1, <1>4, <2>1
<1>5. CASE t.phys # clock
  <2>1. t.phys \in Frame /\ o.R[t.phys] = r /\ o.L[t.phys] = -1
    BY <1>2, <1>5 DEF Its
  <2>2. TreeOK(mem, o, r, s)
    BY <1>1, <1>2, <1>3 DEF Now, Sane, Fine
  <2> QED BY <1>1, <2>1, <2>2 DEF TreeOK
<1> QED BY <1>4, <1>5

(* Which pages a range of bytes touches.                                    *)
LEMMA RangePages ==
  ASSUME NEW b \in Nat \ {0}, NEW ptr \in Nat, NEW last \in Nat, ptr <= last
  PROVE  \A x \in ptr .. last : x \div b \in ptr \div b .. last \div b
<1>1. ASSUME NEW x \in Nat, NEW y \in Nat, x <= y PROVE x \div b <= y \div b
  <2>1. PICK q, r : q = x \div b /\ r = y \div b
    OBVIOUS
  <2>2. q \in Nat /\ r \in Nat /\ q * b <= x /\ y < r * b + b
    <3>1. /\ q \in Nat /\ x % b \in 0 .. b - 1 /\ x = q * b + (x % b)
          /\ r \in Nat /\ y % b \in 0 .. b - 1 /\ y = r * b + (y % b)
      BY <2>1, Quotient
    <3>2. q * b \in Nat /\ r * b \in Nat
      BY <3>1
    <3> QED BY <3>1, <3>2
  <2>3. (r + 1) * b = r * b + b /\ q * b \in Nat /\ r * b \in Nat
    BY <2>2
  <2>4. q * b < (r + 1) * b
    BY <1>1, <2>2, <2>3
  <2>5. q < r + 1
    BY <2>2, <2>4, Multiples
  <2> QED BY <2>1, <2>2, <2>5
<1>2. ptr \div b \in Nat /\ last \div b \in Nat
  BY Quotient
<1>3. ASSUME NEW x \in ptr .. last PROVE x \div b \in ptr \div b .. last \div b
  <2>1. x \in Nat /\ ptr <= x /\ x <= last
    OBVIOUS
  <2>2. x \div b \in Nat
    BY <2>1, Quotient
  <2>3. ptr \div b <= x \div b /\ x \div b <= last \div b
    BY <1>1, <2>1
  <2> QED BY <1>2, <2>2, <2>3
<1> QED BY <1>3

(* The pages a range touches, and the bytes of a page in a range.           *)
Touched(b, ptr, last) == ptr \div b .. last \div b
Byte(b, ptr, last, v) == \E x \in ptr .. last : x \div b = v

(* Every page a range touches has a byte in the range.                      *)
LEMMA PageTouched ==
  ASSUME NEW b \in Nat \ {0}, NEW ptr \in Nat, NEW last \in Nat, ptr <= last,
         NEW v \in Touched(b, ptr, last)
  PROVE  Byte(b, ptr, last, v)
<1>0. v \in ptr \div b .. last \div b
  BY DEF Touched
<1>1. CASE v = ptr \div b
  BY <1>1 DEF Byte
<1>2. CASE v # ptr \div b
  <2>1. PICK q, r : q = ptr \div b /\ r = last \div b
    OBVIOUS
  <2>2. q \in Nat /\ r \in Nat /\ v \in Nat /\ q < v /\ v <= r
    BY Quotient, <1>0, <1>2, <2>1
  <2>3. /\ ptr % b \in 0 .. b - 1 /\ ptr = q * b + (ptr % b)
        /\ last % b \in 0 .. b - 1 /\ last = r * b + (last % b)
    BY <2>1, Quotient
  <2>4. q * b \in Nat /\ r * b \in Nat /\ v * b \in Nat /\ (q + 1) * b = q * b + b
    BY <2>2
  <2>5. (q + 1) * b <= v * b /\ v * b <= r * b
    BY <2>2, Multiples
  <2>6. v * b \in ptr .. last
    BY <2>3, <2>4, <2>5
  <2>7. (v * b + 0) \div b = v
    BY <2>2, QuotientOf
  <2>8. v * b + 0 = v * b
    BY <2>4
  <2> QED BY <2>6, <2>7, <2>8 DEF Byte
<1> QED BY <1>1, <1>2

(* A page may be used by ring 3, for writing if that is wanted.             *)
Granted(t, write) == t.mapped /\ t.rights.user /\ (write => t.rights.write)

(* The pages below a limit are those whose bytes are.                       *)
LEMMA BytesBelow ==
  ASSUME NEW b \in Nat \ {0}, NEW x \in Nat, NEW n \in Nat
  PROVE  x \div b \in Nat /\ (x < n * b <=> x \div b < n)
<1>1. PICK q : q = x \div b
  OBVIOUS
<1>2. q \in Nat /\ x % b \in 0 .. b - 1 /\ x = q * b + (x % b)
  BY <1>1, Quotient
<1>3. q * b \in Nat /\ n * b \in Nat /\ (q + 1) * b = q * b + b
  BY <1>2
<1>4. q < n <=> q * b < n * b
  BY <1>2, Multiples
<1>5. q + 1 <= n <=> (q + 1) * b <= n * b
  BY <1>2, Multiples
<1> QED BY <1>1, <1>2, <1>3, <1>4, <1>5

(* The check a system call makes of a range accepts what was asked for.     *)
LEMMA RangeAccepts ==
  ASSUME IInv, NEW s \in Held, NEW ptr \in Nat, NEW len \in Nat, NEW write \in BOOLEAN,
         range_ok(mem, space[s].root, ptr, len, write), NEW x \in ptr .. ptr + len - 1
  PROVE  Granted(AskedOf(space[s].root, x \div PageBytes), write)
<1>1. PageBytes \in Nat \ {0} /\ USER_LIMIT \in Nat
  BY AddressSpaceAssumption, BelowLimit, LimitPage
<1>2. PICK r, U : r = space[s].root /\ U = USER_LIMIT * PageBytes
  OBVIOUS
<1>3. U \in Nat
  BY <1>1, <1>2
<1>4. len # 0 /\ ptr + len - 1 \in Nat /\ ptr <= ptr + len - 1 /\ x \in Nat /\ x <= ptr + len - 1
  OBVIOUS
<1>5. /\ ptr < U /\ len <= U - ptr
      /\ \A v \in ptr \div PageBytes .. (ptr + len - 1) \div PageBytes :
           Granted(translate(mem, r, v), write)
  BY <1>2, <1>4 DEF range_ok, Granted
<1>6. x < U
  BY <1>3, <1>4, <1>5
<1>7. PICK v : v = x \div PageBytes
  OBVIOUS
<1>8. v \in Nat /\ v < USER_LIMIT
  BY <1>1, <1>2, <1>4, <1>6, <1>7, BytesBelow
<1>9. v \in Page
  BY <1>1, <1>8, LimitPage, SizeNat DEF Page, Top
<1>10. v \in ptr \div PageBytes .. (ptr + len - 1) \div PageBytes
  BY <1>1, <1>4, <1>7, RangePages
<1>11. phase \notin {"vm", "halt", "overwritten"} /\ r \in RootsIn(kroot, space)
  BY <1>2, HeldTree
<1>12. translate(mem, r, v) = AskedOf(r, v)
  BY <1>9, <1>11, RootResolves
<1> QED BY <1>2, <1>5, <1>7, <1>10, <1>12

(* And whatever was asked for it accepts.                                   *)
LEMMA RangeGranted ==
  ASSUME IInv, NEW s \in Held, NEW ptr \in Nat, NEW len \in Nat, NEW write \in BOOLEAN,
         ptr \div PageBytes \in Page,
         \A x \in ptr .. ptr + len - 1 : Granted(AskedOf(space[s].root, x \div PageBytes), write)
  PROVE  range_ok(mem, space[s].root, ptr, len, write)
<1>1. PageBytes \in Nat \ {0} /\ USER_LIMIT \in Nat
  BY AddressSpaceAssumption, BelowLimit, LimitPage
<1>2. PICK r, U : r = space[s].root /\ U = USER_LIMIT * PageBytes
  OBVIOUS
<1>3. U \in Nat
  BY <1>1, <1>2
<1>4. CASE len = 0
  BY <1>4 DEF range_ok
<1>5. CASE len # 0
  <2>1. ptr + len - 1 \in Nat /\ ptr <= ptr + len - 1 /\ ptr \in ptr .. ptr + len - 1
    BY <1>5
  <2>2. ASSUME NEW x \in ptr .. ptr + len - 1, x \div PageBytes \in Page
        PROVE  x < U
    <3>1. AskedOf(r, x \div PageBytes).rights.user
      BY <1>2, <2>2 DEF Granted
    <3>2. x \div PageBytes < USER_LIMIT
      BY <1>2, <2>2, <3>1, RingBelow
    <3>3. x \in Nat
      BY <2>1
    <3> QED BY <1>1, <1>2, <3>2, <3>3, BytesBelow
  <2>3. ptr < U
    BY <2>1, <2>2
  <2>4. len <= U - ptr
    <3>1. ASSUME U \in ptr .. ptr + len - 1 PROVE FALSE
      <4>1. (USER_LIMIT * PageBytes + 0) \div PageBytes = USER_LIMIT
        BY <1>1, QuotientOf
      <4>2. U \div PageBytes = USER_LIMIT
        BY <1>2, <1>3, <4>1
      <4>3. U < U
        BY <2>2, <3>1, <4>2, LimitPage
      <4> QED BY <1>3, <4>3
    <3> QED BY <1>3, <2>1, <2>3, <3>1
  <2>5. ASSUME NEW v \in ptr \div PageBytes .. (ptr + len - 1) \div PageBytes
        PROVE  Granted(translate(mem, r, v), write)
    <3>1. PICK x \in ptr .. ptr + len - 1 : x \div PageBytes = v
      <4>1. PICK last : last = ptr + len - 1
        OBVIOUS
      <4>2. last \in Nat /\ ptr <= last /\ v \in ptr \div PageBytes .. last \div PageBytes
        BY <2>1, <2>5, <4>1
      <4>3. v \in Touched(PageBytes, ptr, last)
        BY <4>2 DEF Touched
      <4>4. Byte(PageBytes, ptr, last, v)
        BY <1>1, <4>2, <4>3, PageTouched
      <4> QED BY <4>1, <4>4 DEF Byte
    <3>2. x \in Nat /\ x < U
      BY <1>3, <2>1, <2>3, <2>4
    <3>3. v \in Nat /\ v < USER_LIMIT
      BY <1>1, <1>2, <3>1, <3>2, BytesBelow
    <3>4. v \in Page
      BY <1>1, <3>3, LimitPage, SizeNat DEF Page, Top
    <3>5. phase \notin {"vm", "halt", "overwritten"} /\ r \in RootsIn(kroot, space)
      BY <1>2, HeldTree
    <3>6. translate(mem, r, v) = AskedOf(r, v)
      BY <3>4, <3>5, RootResolves
    <3> QED BY <1>2, <3>1, <3>6
  <2> QED BY <1>2, <2>3, <2>4, <2>5 DEF range_ok, Granted
<1> QED BY <1>4, <1>5

(* The check of a range is exact.                                           *)
LEMMA RangesAreExact == IInv => RangesExact
<1> SUFFICES ASSUME IInv, NEW s \in Held,
                    NEW v \in Page, NEW ptr \in v * PageBytes .. v * PageBytes + PageBytes - 1,
                    NEW len \in 0 .. 2 * PageBytes + 1, NEW write \in BOOLEAN
             PROVE  range_ok(mem, space[s].root, ptr, len, write)
                      <=> \A x \in ptr .. ptr + len - 1 :
                            Granted(AskedOf(space[s].root, x \div PageBytes), write)
  BY DEF RangesExact, Granted
<1>1. PageBytes \in Nat \ {0} /\ v \in Nat /\ len \in Nat
  BY AddressSpaceAssumption DEF Page
<1>2. v * PageBytes \in Nat
  BY <1>1
<1>3. ptr \in Nat /\ ptr - v * PageBytes \in 0 .. PageBytes - 1
      /\ v * PageBytes + (ptr - v * PageBytes) = ptr
  BY <1>1, <1>2
<1>4. ptr \div PageBytes = v
  BY <1>1, <1>3, QuotientOf
<1> QED BY <1>1, <1>3, <1>4, RangeAccepts, RangeGranted

(* What a program can reach, by itself or through a system call it gives a  *)
(* pointer to, is its own: the frames, the bytes in them, and the ranges    *)
(* the kernel accepts (addrspace new, map, load, destroy, range_ok).        *)
THEOREM ReachesOnlyItsOwn == Spec => []OnlyItsOwn
<1>1. IInv => OnlyItsOwn
  BY ReachesOwn, BytesOwn, RangesAreExact DEF OnlyItsOwn
<1> QED BY <1>1, Invariance, PTL

-----------------------------------------------------------------------------
(* What became of every frame.                                              *)

(* The program is one of the machines' own.                                 *)
ImageKnown == \E x \in Machines : image = x.image

(* No step changes the machine.                                             *)
LEMMA MachineKept == [Next]_vars => UNCHANGED machine
<1> SUFFICES ASSUME [Next]_vars PROVE UNCHANGED machine
  OBVIOUS
<1>1. ASSUME NEW root, NEW m, SwitchTo(root, m) PROVE UNCHANGED machine
  BY <1>1 DEF SwitchTo
<1>2. ASSUME NEW d, NEW ok, NEW then, NEW other, Proceed(d, ok, then, other)
      PROVE  UNCHANGED machine
  BY <1>2, Zenon DEF Proceed
<1>3. ASSUME NEW s, NEW from, NEW to, NEW root, NEW b, NEW m, BuildStep(s, from, to, root, b, m)
      PROVE  UNCHANGED machine
  BY <1>3, Zenon DEF BuildStep
<1>8. ASSUME NEW m, Overwrite(m) \/ AllAwake(m) PROVE UNCHANGED machine
  BY <1>8, Zenon DEF Overwrite, AllAwake
<1>4. CASE Boot
  <2>1. CASE VmInit
    BY <1>1, <2>1, Zenon DEF VmInit, Rooted
  <2>2. CASE SelftestSmap
    BY <2>2, Zenon DEF SelftestSmap
  <2>3. CASE InitApic
    BY <1>2, <2>3, Zenon DEF InitApic
  <2>4. CASE InitTimer
    BY <1>2, <2>4, Zenon DEF InitTimer
  <2>5. CASE StageTrampoline
    BY <1>2, <1>8, <2>5, Zenon DEF StageTrampoline
  <2>6. CASE OneCore
    BY <2>6, Zenon DEF OneCore
  <2>7. ASSUME NEW n \in 0 .. 2, WakeCores(n) PROVE UNCHANGED machine
    BY <1>8, <2>7, Zenon DEF WakeCores
  <2>8. CASE UserInit
    BY <2>8, Zenon DEF UserInit
  <2> QED BY <1>4, <2>1, <2>2, <2>3, <2>4, <2>5, <2>6, <2>7, <2>8 DEF Boot
<1>5. ASSUME NEW s \in Space,
             New(s) \/ Load(s) \/ MapStack(s) \/ SeedId(s) \/ MapClock(s)
      PROVE  UNCHANGED machine
  BY <1>3, <1>5, Zenon DEF New, Begun, Load, MapStack, SeedId, MapClock
<1>6. ASSUME NEW s \in Space, Spawn(s) \/ Destroy(s) PROVE UNCHANGED machine
  BY <1>6, Zenon DEF Spawn, Destroy
<1>7. CASE UNCHANGED vars
  BY <1>7 DEF vars, machine
<1> QED BY <1>4, <1>5, <1>6, <1>7 DEF Next

(* The program's segments are apart, and away from what the kernel adds.    *)
LEMMA ImageApart == ImageKnown => ProgramApart
<1> SUFFICES ASSUME ImageKnown PROVE ProgramApart
  OBVIOUS
<1>1. PICK x \in Machines : image = x.image
  BY DEF ImageKnown
<1>2. PICK seg : seg = x.image.segments /\ seg \in Seq(Segment)
  BY MachinesAssumption
<1>3. DOMAIN seg = 1 .. Len(seg) /\ seg = image.segments
  BY <1>1, <1>2
<1>4. \A i, j \in DOMAIN seg : i # j => PagesOf(seg[i]) \cap PagesOf(seg[j]) = {}
  BY <1>2, ImagesAssumption
<1>5. \A i \in DOMAIN seg : PagesOf(seg[i]) \cap {USER_STACK, USER_DATA_VA, USER_CLOCK_VA} = {}
  BY <1>2, ImagesAssumption
<1>6. SegmentsApart
  BY <1>3, <1>4 DEF SegmentsApart
<1>7. ProgramPages \cap {USER_STACK, USER_DATA_VA, USER_CLOCK_VA} = {}
  <2> SUFFICES ASSUME NEW y \in ProgramPages, y \in {USER_STACK, USER_DATA_VA, USER_CLOCK_VA}
               PROVE  FALSE
    OBVIOUS
  <2>1. PICK i \in 1 .. Len(image.segments) : y \in PagesOf(image.segments[i])
    BY Zenon DEF ProgramPages, PagesUpTo
  <2>2. PagesOf(seg[i]) \cap {USER_STACK, USER_DATA_VA, USER_CLOCK_VA} = {}
    BY <1>3, <1>5
  <2> QED BY <1>3, <2>1, <2>2
<1> QED BY <1>6, <1>7 DEF ProgramApart

(* The frames of the spaces' trees.                                         *)
OwnedBySpaces == UNION {OwnedBy(mem, space[s].root) : s \in Held}

(* A frame a space reaches is its own.                                      *)
LEMMA ReachedIsOwned ==
  ASSUME IInv, NEW o, Now(o), NEW s \in Held
  PROVE  OwnedBy(mem, space[s].root) \subseteq Owned(o, space[s].root)
<1>1. PICK Rs, a, r : Rs = RootsIn(kroot, space) /\ a = AskedFn(mem) /\ r = space[s].root
  OBVIOUS
<1>2. Shape(mem, o, a, Rs, kroot, clock)
  BY <1>1 DEF Now, Sane, Kept
<1>3. kroot \in Rs /\ r \in Rs /\ r # kroot
  BY <1>1, HeldTree
<1>4. OwnedBy(mem, r) \subseteq Owned(o, r)
  BY <1>2, <1>3, OwnedWithin
<1> QED BY <1>1, <1>4

(* And the other way round, of a program whose segments are apart.          *)
LEMMA OwnedIsReached ==
  ASSUME IInv, ProgramApart, NEW o, Now(o), NEW s \in Held
  PROVE  Owned(o, space[s].root) \subseteq OwnedBy(mem, space[s].root)
<1>1. PICK Rs, a, r : Rs = RootsIn(kroot, space) /\ a = AskedFn(mem) /\ r = space[s].root
  OBVIOUS
<1>2. Shape(mem, o, a, Rs, kroot, clock)
  BY <1>1 DEF Now, Sane, Kept
<1>3. /\ kroot \in Rs /\ r \in Rs /\ r # kroot /\ clock # 0 /\ clock \in Frame /\ r \in Frame
      /\ s \in HeldIn(space)
  BY <1>1, HeldTree
<1>4. o.R[clock] # r
  <2>1. clock \in Nowhere
    BY <1>3 DEF Nowhere
  <2>2. o.R[clock] = Nobody
    BY <2>1 DEF Now, Sane, Account
  <2> QED BY <1>3, <2>2, Numbers DEF Frame, Nobody
<1>5. /\ OwnTables(o, r) \subseteq OwnedBy(mem, r)
      /\ \A f \in Owned(o, r) : \A v \in Page :
           v < USER_LIMIT /\ a[r][v].mapped /\ a[r][v].phys = f => f \in OwnedBy(mem, r)
  BY <1>2, <1>3, <1>4, OwnedReached
<1>6. ASSUME NEW f \in Owned(o, r), o.L[f] = -1 PROVE f \in OwnedBy(mem, r)
  <2>1. Fine(mem, o, r, s, ProgramApart, Remaining(ProgramPages, space[s].stage))
    BY <1>1, <1>3 DEF Now, Sane
  <2>2. Placed(mem, o, r)
    BY <2>1 DEF Fine
  <2>3. f \in Frame /\ o.R[f] = r
    BY DEF Owned
  <2>4. PICK v : v = o.B[f]
    OBVIOUS
  <2>5. v \in Page /\ v < USER_LIMIT /\ Asked(mem.asked[r], v).mapped
        /\ Asked(mem.asked[r], v).phys = f
    BY <1>6, <2>2, <2>3, <2>4 DEF Placed
  <2>6. a[r][v] = Asked(mem.asked[r], v)
    BY <1>1, <1>3, <2>5 DEF AskedFn
  <2> QED BY <1>5, <2>5, <2>6
<1>7. ASSUME NEW f \in Owned(o, r), o.L[f] # -1 PROVE f \in OwnedBy(mem, r)
  <2>1. f \in Frame /\ o.R[f] = r /\ r # Nobody
    BY <1>3, Numbers DEF Owned, Frame, Nobody
  <2>2. o.L[f] \in -1 .. 3
    BY <1>2, <2>1 DEF Shape, Owners
  <2>3. f \in OwnTables(o, r)
    BY <1>7, <2>1, <2>2 DEF OwnTables
  <2> QED BY <1>5, <2>3
<1> QED BY <1>1, <1>6, <1>7

(* Every frame the pool has given out is accounted for.                     *)
LEMMA FramesAccounted ==
  ASSUME IInv, ImageKnown, phase \notin {"vm", "halt", "overwritten"}
  PROVE  /\ mem.pool = pooled \ (TablesOf(mem, kroot, Page) \cup Nowhere \cup OwnedBySpaces)
         /\ mem.inUse = Cardinality(pooled) - Cardinality(mem.pool)
<1>1. /\ Held = HeldIn(space) /\ kroot \in Frame /\ Rooting(space, kroot) /\ MachineOK
      /\ kroot \in RootsIn(kroot, space)
  BY AllKept
<1>2. PICK o : Now(o)
  BY AllKept
<1>3. ProgramApart
  BY ImageApart
<1>4. /\ Account(mem, o, kroot, pooled, Nowhere, ProgramApart)
      /\ Kept(mem, o, RootsIn(kroot, space), kroot, clock)
  BY <1>2 DEF Now, Sane
<1>5. IsMem(mem) /\ PoolFree(mem, o) /\ Owners(o, RootsIn(kroot, space))
  BY <1>4 DEF Kept, Shape
<1>6. TablesOf(mem, kroot, Page) = OwnTables(o, kroot)
  <2>1. PICK Rs, a : Rs = RootsIn(kroot, space) /\ a = AskedFn(mem)
    OBVIOUS
  <2>2. Shape(mem, o, a, Rs, kroot, clock) /\ kroot \in Rs
    BY <1>1, <1>4, <2>1 DEF Kept
  <2> QED BY <2>2, KernelTables
<1>7. \A s \in Held : OwnedBy(mem, space[s].root) = Owned(o, space[s].root)
  BY <1>2, <1>3, ReachedIsOwned, OwnedIsReached
<1>8. \A r \in RootsIn(kroot, space) : r # Nobody
  <2>1. RootsIn(kroot, space) \subseteq Frame
    BY <1>4 DEF Kept, Shape
  <2> QED BY <2>1, Numbers DEF Frame, Nobody
<1>9. ASSUME NEW f \in mem.pool
      PROVE  f \in pooled \ (TablesOf(mem, kroot, Page) \cup Nowhere \cup OwnedBySpaces)
  <2>1. f \in pooled /\ f \notin Nowhere /\ o.R[f] = Nobody
    BY <1>4, <1>5 DEF Account, PoolFree
  <2>2. f \notin OwnTables(o, kroot)
    BY <1>1, <1>8, <2>1 DEF OwnTables
  <2>3. ASSUME NEW s \in Held PROVE f \notin Owned(o, space[s].root)
    BY <1>1, <1>8, <2>1 DEF Owned, RootsIn
  <2>4. f \notin OwnedBySpaces
    BY <1>7, <2>3 DEF OwnedBySpaces
  <2> QED BY <1>6, <2>1, <2>2, <2>4
<1>10. ASSUME NEW f \in pooled, f \notin TablesOf(mem, kroot, Page), f \notin Nowhere,
              f \notin OwnedBySpaces
       PROVE  f \in mem.pool
  <2>1. f \in Frame
    BY <1>1 DEF MachineOK
  <2>2. f \in mem.pool \/ o.R[f] # Nobody
    BY <1>3, <1>4, <1>10 DEF Account
  <2>3. ASSUME o.R[f] # Nobody PROVE FALSE
    <3>1. o.R[f] \in RootsIn(kroot, space)
      BY <1>5, <2>1, <2>3 DEF Owners
    <3>2. CASE o.R[f] = kroot
      <4>1. o.L[f] >= 0
        BY <1>4, <2>1, <3>2 DEF Account
      <4> QED BY <1>6, <1>10, <2>1, <3>2, <4>1 DEF OwnTables
    <3>3. ASSUME NEW s \in HeldIn(space), o.R[f] = space[s].root PROVE FALSE
      <4>1. f \in Owned(o, space[s].root)
        BY <2>1, <3>3 DEF Owned
      <4> QED BY <1>1, <1>7, <1>10, <4>1 DEF OwnedBySpaces
    <3> QED BY <3>1, <3>2, <3>3 DEF RootsIn
  <2> QED BY <2>2, <2>3
<1>11. mem.inUse = Cardinality(pooled) - Cardinality(mem.pool)
  <2>1. mem.inUse + Cardinality(mem.pool) = Cardinality(pooled)
    BY <1>3, <1>4 DEF Account, Ledger
  <2>2. mem.inUse \in Int
    BY <1>5 DEF IsMem
  <2>3. Cardinality(mem.pool) \in Nat
    BY <1>5, PoolFinite, FS_CardinalityType
  <2> QED BY <2>1, <2>2, <2>3
<1> QED BY <1>9, <1>10, <1>11

(* Every frame the pool has given out is a table of the kernel's tree, a    *)
(* core's stack, the clock, a frame some space reaches, or was lost by a    *)
(* build that failed, and IN_USE counts exactly those: tearing a space down *)
(* returns all it took and nothing else (destroy, free_level,               *)
(* mem::frames_in_use).                                                     *)
THEOREM FramesAreAccounted == Spec => []Accounted
<1>1. Init => ImageKnown
  BY DEF Init, ImageKnown
<1>2. ImageKnown /\ [Next]_vars => ImageKnown'
  <2> SUFFICES ASSUME ImageKnown, [Next]_vars PROVE ImageKnown'
    OBVIOUS
  <2>1. UNCHANGED machine
    BY MachineKept
  <2>2. image' = image
    BY <2>1, SameMachine
  <2> QED BY <2>2 DEF ImageKnown
<1>3. ASSUME IInv, ImageKnown PROVE Accounted
  <2>1. CASE phase = "vm"
    <3>1. /\ IsMem(mem) /\ mem.pool = pooled /\ mem.inUse = 0 /\ clock = 0 /\ stacks = {}
          /\ leaked = {}
      BY <1>3, <2>1 DEF IInv, AtStart
    <3>2. Held = {} /\ kroot = 0
      BY <1>3, <2>1, NothingHeld
    <3>3. Cardinality(pooled) \in Nat
      BY <3>1, PoolFinite, FS_CardinalityType
    <3> QED BY <3>1, <3>2, <3>3 DEF Accounted
  <2>2. CASE phase \notin {"vm", "halt", "overwritten"}
    <3>1. kroot # 0
      BY <1>3, <2>2, AllKept
    <3> QED BY <1>3, <2>2, <3>1, FramesAccounted DEF Accounted, Nowhere, OwnedBySpaces
  <2>3. CASE phase \in {"halt", "overwritten"}
    BY <1>3, <2>3 DEF IInv, Accounted
  <2> QED BY <2>1, <2>2, <2>3
<1>4. IInv /\ ImageKnown => Accounted
  BY <1>3
<1> QED BY <1>1, <1>2, <1>4, Invariance, PTL DEF Spec

===============================================================================
