----------------------------- MODULE TreeProofs -----------------------------
(***************************************************************************)
(* Page tables as trees: what it is for a memory to be well shaped, and    *)
(* what the Mapper's operations, and those of addrspace.rs, do to it, for  *)
(* every size of table.                                                    *)
(*                                                                         *)
(* An owner o gives a frame f the root o.R[f] of the tree it belongs to    *)
(* (or Nobody), its level o.L[f] there (3 for a root, 0 for a last-level   *)
(* table, -1 for a page of a program), and the block o.B[f] of addresses   *)
(* it serves.  In a well-shaped memory (Shape) each table hangs in one     *)
(* place of one tree, each entry of it leads to the next level of the same *)
(* tree, or is a leaf that maps what was asked for, and no more than the   *)
(* kernel's upper half and the clock are shared.  From the shape a walk    *)
(* resolves a page to what was asked for (Resolves), reaches the tree's    *)
(* own frames (OwnedWithin, OwnedReached), and tearing a tree down frees   *)
(* exactly those (FreedEntry, FreedAll).                                   *)
(*                                                                         *)
(* An owner is not a variable.  Each lemma about an operation takes an     *)
(* owner of the memory before and gives one of the memory after it.        *)
(***************************************************************************)
EXTENDS AddressSpace, TLAPS, WellFoundedInduction, FiniteSetTheorems

-----------------------------------------------------------------------------
(* Natural numbers: least elements, induction, quotients. *)

(* A set of natural numbers has a least element. *)
LEMMA LeastExists ==
  ASSUME NEW S, S \subseteq Nat, S # {}
  PROVE  \E x \in S : \A y \in S : x <= y
<1>1. PICK x \in S : \A y \in S : ~(<<y, x>> \in OpToRel(<, Nat))
  BY NatLessThanWellFounded, WFMin
<1>2. \A y \in S : ~(y < x)
  BY <1>1 DEF OpToRel
<1> QED BY <1>2

(* The least element is what Min gives. *)
LEMMA MinIsLeast ==
  ASSUME NEW S, S \subseteq Nat, S # {}
  PROVE  Min(S) \in S /\ \A y \in S : Min(S) <= y
BY LeastExists DEF Min

(* Induction up to a bound, for the members of a set. *)
LEMMA UpToBound ==
  ASSUME NEW n \in Nat, NEW S, 0 \in S, \A k \in 0 .. n : k # n /\ k \in S => k + 1 \in S
  PROVE  \A k \in 0 .. n : k \in S
<1> SUFFICES ASSUME NEW j \in 0 .. n, j \notin S PROVE FALSE
  OBVIOUS
<1> DEFINE T == {k \in 0 .. n : k \notin S}
<1>1. T \subseteq Nat /\ T # {}
  OBVIOUS
<1>2. PICK k \in T : \A y \in T : k <= y
  BY <1>1, LeastExists
<1>3. k # 0 /\ k - 1 \in 0 .. n /\ k - 1 # n
  BY <1>2
<1>4. k - 1 \in S
  BY <1>2, <1>3
<1>5. (k - 1) + 1 \in S
  BY <1>3, <1>4
<1> QED BY <1>2, <1>5

(* A product of natural numbers grows with each factor. *)
LEMMA Multiples ==
  ASSUME NEW a \in Int, NEW c \in Int, NEW b \in Nat \ {0}
  PROVE  /\ a < c <=> a * b < c * b
         /\ a <= c <=> a * b <= c * b
         /\ a = c <=> a * b = c * b
OBVIOUS

(* What a quotient is, from the outside and from the inside. *)
LEMMA QuotientOf ==
  ASSUME NEW q \in Nat, NEW b \in Nat \ {0}, NEW r \in 0 .. b - 1
  PROVE  (q * b + r) \div b = q /\ (q * b + r) % b = r
OBVIOUS

(* Quotient and remainder make up the number again. *)
LEMMA Quotient ==
  ASSUME NEW a \in Nat, NEW b \in Nat \ {0}
  PROVE  /\ a \div b \in Nat /\ a % b \in 0 .. b - 1
         /\ a = (a \div b) * b + (a % b)
OBVIOUS

(* A number splits into a quotient and a remainder in one way. *)
LEMMA SplitsOnce ==
  ASSUME NEW b \in Nat \ {0}, NEW q \in Nat, NEW p \in Nat, NEW r \in 0 .. b - 1,
         NEW s \in 0 .. b - 1, q * b + r = p * b + s
  PROVE  q = p /\ r = s
<1>1. (q * b + r) \div b = q /\ (q * b + r) % b = r
  BY QuotientOf
<1>2. (p * b + s) \div b = p /\ (p * b + s) % b = s
  BY QuotientOf
<1> QED BY <1>1, <1>2

-----------------------------------------------------------------------------
(* Blocks.  An entry of level l covers a block of level_size(l) pages; the  *)
(* block of page v there is numbered v \div level_size(l).                  *)

Block(v, l) == v \div level_size(l)
Below(b, i) == b * Fan + i

(* The numbers of the model. *)
LEMMA Numbers ==
  /\ Fan \in Nat /\ Fan >= 4 /\ Frames \in Nat \ {0} /\ KernelFirst \in Nat
  /\ 1 <= KernelFirst /\ KernelFirst <= Fan - 3
BY PagingAssumption, AddressSpaceAssumption

(* Each level covers Fan times what the one below covers. *)
LEMMA Sizes ==
  /\ level_size(0) = 1
  /\ \A l \in 0 .. 3 : level_size(l) \in Nat \ {0} /\ level_size(l + 1) = level_size(l) * Fan
  /\ level_size(4) \in Nat \ {0}
<1>0. Fan \in Nat \ {0}
  BY Numbers
<1> DEFINE s1 == Fan
           s2 == s1 * Fan
           s3 == s2 * Fan
           s4 == s3 * Fan
<1>1. /\ level_size(0) = 1 /\ level_size(1) = s1 /\ level_size(2) = s2
      /\ level_size(3) = s3 /\ level_size(4) = s4
  BY <1>0 DEF level_size
<1>2. s1 \in Nat \ {0}
  BY <1>0
<1>3. s2 \in Nat \ {0}
  BY <1>0, <1>2
<1>4. s3 \in Nat \ {0}
  <2> HIDE DEF s2
  <2> QED BY <1>0, <1>3
<1>5. s4 \in Nat \ {0}
  <2> HIDE DEF s3
  <2> QED BY <1>0, <1>4
<1>6. s1 = 1 * Fan /\ s2 = s1 * Fan /\ s3 = s2 * Fan /\ s4 = s3 * Fan
  BY <1>0
<1> HIDE DEF s1, s2, s3, s4
<1>7. \A l \in 0 .. 3 : l \in {0, 1, 2, 3}
  OBVIOUS
<1>8. 0 + 1 = 1 /\ 1 + 1 = 2 /\ 2 + 1 = 3 /\ 3 + 1 = 4
  OBVIOUS
<1>9. 1 \in Nat \ {0}
  OBVIOUS
<1> HIDE DEF level_size
<1> QED BY <1>1, <1>2, <1>3, <1>4, <1>5, <1>6, <1>7, <1>8, <1>9

(* The sizes are positive. *)
LEMMA SizeNat == \A l \in 0 .. 4 : level_size(l) \in Nat \ {0}
BY Sizes

(* The larger block of a page is its block, by Fan; the slot is the rest. *)
LEMMA BlockUp ==
  ASSUME NEW v \in Nat, NEW l \in 0 .. 3
  PROVE  /\ Block(v, l) \in Nat /\ Block(v, l + 1) \in Nat /\ index(v, l) \in Slot
         /\ Block(v, l) = Below(Block(v, l + 1), index(v, l))
         /\ Block(v, l + 1) = Block(v, l) \div Fan
<1> DEFINE S == level_size(l)
           q == v \div S
           r == v % S
           h == q \div Fan
           i == q % Fan
<1>1. S \in Nat \ {0} /\ level_size(l + 1) = S * Fan /\ Fan \in Nat \ {0}
  BY Sizes, Numbers
<1> HIDE DEF S
<1>2. q \in Nat /\ r \in 0 .. S - 1 /\ v = q * S + r
  BY <1>1, Quotient
<1> HIDE DEF q, r
<1>3. h \in Nat /\ i \in 0 .. Fan - 1 /\ q = h * Fan + i
  BY <1>1, <1>2, Quotient
<1> HIDE DEF h, i
<1>4. i * S + r \in Nat /\ i * S + r <= S * Fan - 1
  <2>1. i * S \in Nat /\ (Fan - 1) * S = S * Fan - S
    BY <1>1, <1>3
  <2>2. i * S <= (Fan - 1) * S
    BY <1>1, <1>3, Multiples
  <2> QED BY <1>1, <1>2, <2>1, <2>2
<1>5. v = h * (S * Fan) + (i * S + r)
  BY <1>1, <1>2, <1>3
<1>6. S * Fan \in Nat \ {0}
  BY <1>1
<1>7. i * S + r \in 0 .. (S * Fan) - 1
  BY <1>4, <1>6
<1>8. v \div (S * Fan) = h
  BY <1>3, <1>5, <1>6, <1>7, QuotientOf
<1>9. Block(v, l + 1) = h /\ Block(v, l) = q /\ index(v, l) = q % Fan
  BY <1>1, <1>8 DEF Block, index, S, q
<1> QED BY <1>2, <1>3, <1>9 DEF Slot, h, i, Below

(* A page of the tree has block 0 above the root. *)
LEMMA TopBlock ==
  ASSUME NEW v \in Page
  PROVE  v \in Nat /\ Block(v, 4) = 0 /\ index(v, 3) = Block(v, 3)
<1>1. v \in Nat /\ level_size(4) \in Nat \ {0} /\ v < level_size(4)
  BY SizeNat DEF Page, Top
<1> DEFINE S == level_size(4)
<1> HIDE DEF S
<1>2. v \div S = 0
  <2>1. S \in Nat \ {0} /\ v \in 0 .. S - 1
    BY <1>1 DEF S
  <2> QED BY <2>1
<1>3. Block(v, 4) = 0
  BY <1>2 DEF Block, S
<1>4. Block(v, 3) = Block(v, 3 + 1) * Fan + index(v, 3) /\ index(v, 3) \in Slot
  BY <1>1, BlockUp DEF Below
<1> QED BY <1>1, <1>3, <1>4, Numbers DEF Slot

(* Pages in one block are in one block of every higher level. *)
LEMMA Coarser ==
  ASSUME NEW v \in Nat, NEW y \in Nat, NEW l \in 0 .. 4, NEW k \in 0 .. 4, l <= k,
         Block(v, l) = Block(y, l)
  PROVE  Block(v, k) = Block(y, k)
<1>1. \A j \in 0 .. 3 : Block(v, j) = Block(y, j) => Block(v, j + 1) = Block(y, j + 1)
  BY SMTT(30), BlockUp
<1>2. Block(v, 0) = Block(y, 0) => Block(v, 1) = Block(y, 1)
  BY <1>1
<1>3. Block(v, 1) = Block(y, 1) => Block(v, 2) = Block(y, 2)
  BY <1>1
<1>4. Block(v, 2) = Block(y, 2) => Block(v, 3) = Block(y, 3)
  BY <1>1
<1>5. Block(v, 3) = Block(y, 3) => Block(v, 4) = Block(y, 4)
  BY <1>1
<1>6. CASE k = 4
  BY <1>2, <1>3, <1>4, <1>5, <1>6
<1>7. CASE k = 3
  BY <1>2, <1>3, <1>4, <1>7
<1>8. CASE k = 2
  BY <1>2, <1>3, <1>8
<1>9. CASE k = 1
  BY <1>2, <1>9
<1> QED BY <1>6, <1>7, <1>8, <1>9

(* A block of level l is the pages from an aligned one on. *)
LEMMA InBlock ==
  ASSUME NEW v \in Nat, NEW y \in Nat, NEW l \in 0 .. 4, v % level_size(l) = 0
  PROVE  /\ Block(y, l) = Block(v, l) <=> y \in v .. v + level_size(l) - 1
         /\ Block(y, l) = Block(v, l) => y % level_size(l) = y - v
<1> DEFINE S == level_size(l)
<1>1. S \in Nat \ {0}
  BY SizeNat
<1> HIDE DEF S
<1> DEFINE a == v \div S
           b == y \div S
           r == y % S
<1>2. a \in Nat /\ v = a * S
  <2>1. v % S = 0
    BY DEF S
  <2>2. a \in Nat /\ v = a * S + (v % S)
    BY <1>1, Quotient
  <2>3. a * S \in Nat
    BY <1>1, <2>2
  <2> HIDE DEF a
  <2> QED BY <2>1, <2>2, <2>3
<1>3. b \in Nat /\ r \in 0 .. S - 1 /\ y = b * S + r
  BY <1>1, Quotient
<1> HIDE DEF a, b, r
<1>4. ASSUME b = a PROVE y \in v .. v + S - 1 /\ r = y - v
  BY <1>1, <1>2, <1>3, <1>4
<1>5. ASSUME y \in v .. v + S - 1 PROVE b = a
  <2>1. y - v \in 0 .. S - 1 /\ b * S + r = a * S + (y - v)
    BY <1>1, <1>2, <1>3, <1>5
  <2> QED BY <1>1, <1>2, <1>3, <2>1, SplitsOnce
<1> QED BY <1>4, <1>5 DEF Block, S, a, b, r
-----------------------------------------------------------------------------
(* The invariant of a memory m that holds the trees of the roots Rs, k the  *)
(* kernel's among them, c the frame of the clock.                           *)
(*                                                                          *)
(* o says who owns each frame: the tree (its root, -1 for nobody), the      *)
(* level of the table it is there (-1 for a page of a program) and the      *)
(* block it stands for, a table of level l for one of level l + 1.          *)
(* a says of each tree and page what the tree was asked for.                *)

RightsT == [write : BOOLEAN, exec : BOOLEAN, user : BOOLEAN]
EntryT == [present : BOOLEAN, write : BOOLEAN, exec : BOOLEAN, user : BOOLEAN,
           huge : BOOLEAN, device : BOOLEAN, to : Nat]
Nobody == -1

IsMem(m) ==
  /\ m = [table |-> m.table, bytes |-> m.bytes, pool |-> m.pool, inUse |-> m.inUse,
          got |-> m.got, err |-> m.err, asked |-> m.asked]
  /\ m.table \in [Frame -> [Slot -> EntryT]]
  /\ m.bytes = [f \in Frame |-> m.bytes[f]]
  /\ m.pool \subseteq Frame
  /\ m.inUse \in Int
  /\ m.got \in Frame
  /\ m.asked = [f \in Frame |-> m.asked[f]]

IsOwn(o) == o \in [R : [Frame -> Int], L : [Frame -> Int], B : [Frame -> Int]]

RightsOf(e) == [write |-> e.write, exec |-> e.exec, user |-> e.user]

(* The entry e for block b, of level l, of the tree r that was asked for w. *)
AbsentOK(l, b, w) == \A y \in Page : Block(y, l) = b => w[y] = Unmapped

LeafOK(e, l, b, w) ==
  /\ e.to % level_size(l) = 0
  /\ \A y \in Page : Block(y, l) = b =>
       w[y] = Mapping(e.to + (y % level_size(l)), RightsOf(e), e.device)
  /\ l > 0 => \A y \in Page : Block(y, l) = b => Block(y, 3) = KernelFirst

TableOK(e, r, l, b, o, w) ==
  /\ e.to \in Frame /\ o.R[e.to] = r /\ o.L[e.to] = l - 1 /\ o.B[e.to] = b
  /\ e.write /\ e.exec
  /\ \A y \in Page : Block(y, l) = b /\ w[y].rights.user => e.user

Private(e, r, b, o, c) ==
  \/ e.to \in Frame /\ o.R[e.to] = r /\ o.L[e.to] = -1 /\ o.B[e.to] = b
  \/ e.to = c /\ ~e.write

EntryOK(e, r, l, b, o, w, k, c) ==
  /\ ~e.present => AbsentOK(l, b, w)
  /\ e.present /\ (l = 0 \/ e.huge) => LeafOK(e, l, b, w)
  /\ e.present /\ ~(l = 0 \/ e.huge) => TableOK(e, r, l, b, o, w)
  /\ e.present /\ l = 0 /\ r # k => Private(e, r, b, o, c)

PoolFree(m, o) == \A f \in m.pool : o.R[f] = Nobody
RootsOwn(o, Rs) == \A r \in Rs : o.R[r] = r /\ o.L[r] = 3 /\ o.B[r] = 0
Owners(o, Rs) ==
  \A f \in Frame : o.R[f] # Nobody =>
    /\ o.R[f] \in Rs /\ o.L[f] \in -1 .. 3 /\ o.B[f] \in Nat
    /\ o.L[f] = 3 => f = o.R[f]
Once(o) ==
  \A f \in Frame : \A g \in Frame :
    o.R[f] # Nobody /\ o.L[f] >= 0 /\ o.R[g] = o.R[f] /\ o.L[g] = o.L[f] /\ o.B[g] = o.B[f]
      => f = g
Hung(m, o) ==
  \A f \in Frame : o.R[f] # Nobody /\ o.L[f] \in 0 .. 2 =>
    \E t \in Frame : \E i \in Slot :
      /\ o.R[t] = o.R[f] /\ o.L[t] = o.L[f] + 1 /\ o.B[f] = Below(o.B[t], i)
      /\ m.table[t][i].present /\ ~m.table[t][i].huge /\ m.table[t][i].to = f
Entries(m, o, a, Rs, k, c) ==
  \A t \in Frame : \A i \in Slot :
    o.R[t] # Nobody /\ o.L[t] >= 0 /\ (t \in Rs \ {k} => i < KernelFirst)
      => EntryOK(m.table[t][i], o.R[t], o.L[t], Below(o.B[t], i), o, a[o.R[t]], k, c)
Shared(m, Rs, k) ==
  \A r \in Rs : \A i \in Slot : i >= KernelFirst => m.table[r][i] = m.table[k][i]

Shape(m, o, a, Rs, k, c) ==
  /\ IsMem(m) /\ IsOwn(o) /\ Rs \subseteq Frame
  /\ PoolFree(m, o) /\ RootsOwn(o, Rs) /\ Owners(o, Rs) /\ Once(o) /\ Hung(m, o)
  /\ Entries(m, o, a, Rs, k, c) /\ Shared(m, Rs, k)

-----------------------------------------------------------------------------
(* The walk. *)

IsDescent(d, m, root, v) ==
  d = [l \in 0 .. Top + 1 |-> IF l = Top + 1 THEN From(root) ELSE WalkStep(m, d[l + 1], v, l)]

(* The walk's recursion is well defined, so it is what its equation says. *)
LEMMA DescentExists ==
  ASSUME NEW m, NEW root, NEW v
  PROVE  IsDescent(Descent(m, root, v), m, root, v)
<1> DEFINE d4 == From(root)
           d3 == WalkStep(m, d4, v, 3)
           d2 == WalkStep(m, d3, v, 2)
           d1 == WalkStep(m, d2, v, 1)
           d0 == WalkStep(m, d1, v, 0)
           d == [l \in 0 .. 4 |-> IF l = 4 THEN d4 ELSE IF l = 3 THEN d3 ELSE IF l = 2 THEN d2 ELSE
                                   IF l = 1 THEN d1 ELSE d0]
<1>1. \A l \in 0 .. 4 : d[l] = IF l = 4 THEN From(root) ELSE WalkStep(m, d[l + 1], v, l)
  <2> SUFFICES ASSUME NEW l \in 0 .. 4
               PROVE  d[l] = IF l = 4 THEN From(root) ELSE WalkStep(m, d[l + 1], v, l)
    OBVIOUS
  <2>1. l \in {0, 1, 2, 3, 4}
    OBVIOUS
  <2>2. d[4] = d4 /\ d[3] = d3 /\ d[2] = d2 /\ d[1] = d1 /\ d[0] = d0
    OBVIOUS
  <2> HIDE DEF d
  <2>3. 3 + 1 = 4 /\ 2 + 1 = 3 /\ 1 + 1 = 2 /\ 0 + 1 = 1
    OBVIOUS
  <2> QED BY <2>1, <2>2, <2>3
<1>2. IsDescent(d, m, root, v)
  <2> DEFINE e == [l \in 0 .. 4 |-> IF l = 4 THEN From(root) ELSE WalkStep(m, d[l + 1], v, l)]
  <2>1. d = e
    <3>1. \A l \in 0 .. 4 : d[l] = e[l]
      BY <1>1
    <3>2. d = [l \in 0 .. 4 |-> d[l]]
      OBVIOUS
    <3>3. e = [l \in 0 .. 4 |-> e[l]]
      OBVIOUS
    <3> HIDE DEF d, e
    <3> QED BY <3>1, <3>2, <3>3
  <2>2. Top + 1 = 4
    BY DEF Top
  <2> HIDE DEF d
  <2> QED BY <2>1, <2>2 DEF IsDescent
<1> HIDE DEF d
<1>3. Descent(m, root, v) = CHOOSE x : IsDescent(x, m, root, v)
  BY Zenon DEF Descent, IsDescent
<1> QED BY <1>2, <1>3

(* The five stages of a walk, one from the other. *)
LEMMA DescentSteps ==
  ASSUME NEW m, NEW root, NEW v
  PROVE  /\ Descent(m, root, v)[4] = From(root)
         /\ Descent(m, root, v)[3] = WalkStep(m, Descent(m, root, v)[4], v, 3)
         /\ Descent(m, root, v)[2] = WalkStep(m, Descent(m, root, v)[3], v, 2)
         /\ Descent(m, root, v)[1] = WalkStep(m, Descent(m, root, v)[2], v, 1)
         /\ Descent(m, root, v)[0] = WalkStep(m, Descent(m, root, v)[1], v, 0)
<1> DEFINE d == Descent(m, root, v)
<1>1. d = [l \in 0 .. 4 |-> IF l = 4 THEN From(root) ELSE WalkStep(m, d[l + 1], v, l)]
  <2>1. Top + 1 = 4
    BY DEF Top
  <2>2. IsDescent(d, m, root, v)
    BY DescentExists
  <2> HIDE DEF d
  <2> QED BY <2>1, <2>2 DEF IsDescent
<1> HIDE DEF d
<1>2. \A l \in 0 .. 4 : d[l] = IF l = 4 THEN From(root) ELSE WalkStep(m, d[l + 1], v, l)
  BY <1>1, Zenon
<1>3. 3 + 1 = 4 /\ 2 + 1 = 3 /\ 1 + 1 = 2 /\ 0 + 1 = 1 /\ 0 # 4 /\ 1 # 4 /\ 2 # 4 /\ 3 # 4
      /\ 0 \in 0 .. 4 /\ 1 \in 0 .. 4 /\ 2 \in 0 .. 4 /\ 3 \in 0 .. 4 /\ 4 \in 0 .. 4
  OBVIOUS
<1>4. d[4] = From(root)
  BY <1>2, <1>3
<1>5. d[3] = WalkStep(m, d[4], v, 3)
  BY <1>2, <1>3
<1>6. d[2] = WalkStep(m, d[3], v, 2)
  BY <1>2, <1>3
<1>7. d[1] = WalkStep(m, d[2], v, 1)
  BY <1>2, <1>3
<1>8. d[0] = WalkStep(m, d[1], v, 0)
  BY <1>2, <1>3
<1> QED BY <1>4, <1>5, <1>6, <1>7, <1>8 DEF d

(* The walk w for page v of tree r, about to read a table of level l. *)
Good(w, m, o, a, r, v, l) ==
  /\ w.end \in {"table", "leaf", "absent"}
  /\ w.end = "table" =>
       /\ l >= 0 /\ w.to \in Frame /\ o.R[w.to] = r /\ o.L[w.to] = l /\ o.B[w.to] = Block(v, l + 1)
       /\ w.rights \in RightsT /\ w.rights.write /\ w.rights.exec
       /\ a[r][v].rights.user => w.rights.user
  /\ w.end = "absent" => a[r][v] = Unmapped
  /\ w.end = "leaf" =>
       /\ w.level \in 0 .. 3
       /\ Translation(w, v, level_size(w.level)) = a[r][v]
       /\ w.level > 0 => Block(v, 3) = KernelFirst
       /\ w.level < 3 => /\ w.in \in Frame /\ o.R[w.in] = r /\ o.L[w.in] = w.level
                         /\ o.B[w.in] = Block(v, w.level + 1)
                         /\ m.table[w.in][index(v, w.level)].to = w.to

(* The walk before it reads an entry that is as it should be. *)
Ready(w, m, o, a, r, v, l, k, c) ==
  /\ w.end \in {"table", "leaf", "absent"}
  /\ w.end # "table" => Good(w, m, o, a, r, v, l)
  /\ w.end = "table" =>
       /\ w.to \in Frame
       /\ EntryOK(m.table[w.to][index(v, l)], r, l, Block(v, l), o, a[r], k, c)
       /\ l < 3 => o.R[w.to] = r /\ o.L[w.to] = l /\ o.B[w.to] = Block(v, l + 1)
       /\ w.rights \in RightsT /\ w.rights.write /\ w.rights.exec
       /\ a[r][v].rights.user => w.rights.user

(* One step of a walk. *)
LEMMA GoodStep ==
  ASSUME NEW m, NEW o, NEW a, NEW k, NEW c, NEW r \in Frame, NEW v \in Page, NEW l \in 0 .. 3,
         NEW w, IsMem(m), IsOwn(o), Ready(w, m, o, a, r, v, l, k, c)
  PROVE  Good(WalkStep(m, w, v, l), m, o, a, r, v, l - 1)
<1> DEFINE i == index(v, l)
           e == m.table[w.to][i]
           x == WalkStep(m, w, v, l)
<1> USE DEF Ready
<1>0. v \in Nat /\ i \in Slot /\ Block(v, l) \in Nat
  <2>1. v \in Nat
    BY DEF Page
  <2> QED BY <2>1, BlockUp
<1>1. CASE w.end # "table"
  <2>1. WalkStep(m, w, v, l) = w
    BY <1>1 DEF WalkStep
  <2> QED BY <1>1, <2>1 DEF Good
<1>2. CASE w.end = "table"
  <2>1. e \in EntryT
    BY <1>0, <1>2 DEF IsMem
  <2> HIDE DEF i
  <2>2. CASE ~e.present
    <3>1. a[r][v] = Unmapped
      BY <1>2, <2>2 DEF EntryOK, AbsentOK, i
    <3>2. x = [w EXCEPT !.end = "absent"]
      BY <1>2, <2>2 DEF WalkStep, i
    <3>3. x.end = "absent"
      BY <3>2, <1>2
    <3> QED BY <3>1, <3>3 DEF Good
  <2>3. CASE e.present /\ (l = 0 \/ e.huge)
    <3>1. x = [end |-> "leaf", to |-> e.to, level |-> l,
               in |-> w.to, rights |-> intersect(w.rights, e), device |-> e.device]
      BY <1>2, <2>3 DEF WalkStep, i
    <3>2. LeafOK(e, l, Block(v, l), a[r])
      BY <1>2, <2>3 DEF EntryOK, i
    <3>3. a[r][v] = Mapping(e.to + (v % level_size(l)), RightsOf(e), e.device)
      BY <3>2 DEF LeafOK
    <3>4. e.user => w.rights.user
      <4>1. a[r][v].rights = RightsOf(e)
        BY <3>3 DEF Mapping
      <4>2. a[r][v].rights.user = e.user
        BY <4>1 DEF RightsOf
      <4> QED BY <1>2, <4>2
    <3>5. intersect(w.rights, e) = RightsOf(e)
      <4>1. w.rights.write = TRUE /\ w.rights.exec = TRUE /\ w.rights.user \in BOOLEAN
        BY <1>2 DEF RightsT
      <4>2. e.write \in BOOLEAN /\ e.exec \in BOOLEAN /\ e.user \in BOOLEAN
        BY <2>1 DEF EntryT
      <4>3. /\ (w.rights.write /\ e.write) = e.write /\ (w.rights.exec /\ e.exec) = e.exec
            /\ (w.rights.user /\ e.user) = e.user
        BY <3>4, <4>1, <4>2
      <4> QED BY <4>3, Zenon DEF intersect, RightsOf
    <3>6. e.to \in Nat /\ e.to % level_size(l) = 0
      BY <2>1, <3>2 DEF LeafOK, EntryT
    <3>7. Translation(x, v, level_size(x.level)) = a[r][v]
      <4>1. x.end # "absent" /\ x.to = e.to /\ x.level = l /\ x.rights = RightsOf(e)
            /\ x.device = e.device
        BY <3>1, <3>5
      <4>2. (e.to - (e.to % level_size(l))) + (v % level_size(l)) = e.to + (v % level_size(l))
        BY <3>6
      <4> HIDE DEF x, e
      <4> QED BY <3>3, <4>1, <4>2 DEF Translation
    <3>8. l > 0 => Block(v, 3) = KernelFirst
      BY <3>2 DEF LeafOK
    <3>9. x.end = "leaf" /\ x.level = l /\ x.in = w.to /\ x.to = e.to
      BY <3>1
    <3>10. l < 3 => o.R[x.in] = r /\ o.L[x.in] = l /\ o.B[x.in] = Block(v, l + 1)
      BY <1>2, <3>9
    <3>11. x.in \in Frame /\ m.table[x.in][index(v, x.level)].to = x.to
      BY <1>2, <3>9 DEF i
    <3> HIDE DEF x
    <3>12. Good(x, m, o, a, r, v, l - 1)
      BY <3>7, <3>8, <3>9, <3>10, <3>11 DEF Good
    <3> QED BY <3>12 DEF x
  <2>4. CASE e.present /\ ~(l = 0 \/ e.huge)
    <3>1. x = [end |-> "table", to |-> e.to, level |-> l,
               in |-> w.to, rights |-> intersect(w.rights, e), device |-> e.device]
      BY <1>2, <2>4 DEF WalkStep, i
    <3>2. TableOK(e, r, l, Block(v, l), o, a[r])
      BY <1>2, <2>4 DEF EntryOK, i
    <3>3. x.rights = intersect(w.rights, e) /\ x.end = "table" /\ x.to = e.to
      BY <3>1
    <3> HIDE DEF x
    <3>4. /\ x.rights = [write |-> TRUE, exec |-> TRUE, user |-> w.rights.user /\ e.user]
          /\ w.rights.user \in BOOLEAN /\ e.user \in BOOLEAN
      <4>1. w.rights.write = TRUE /\ w.rights.exec = TRUE /\ w.rights.user \in BOOLEAN
        BY <1>2 DEF RightsT
      <4>2. e.write = TRUE /\ e.exec = TRUE /\ e.user \in BOOLEAN
        BY <2>1, <3>2 DEF TableOK, EntryT
      <4>3. (w.rights.write /\ e.write) = TRUE /\ (w.rights.exec /\ e.exec) = TRUE
        BY <4>1, <4>2
      <4> QED BY <3>3, <4>1, <4>2, <4>3, Zenon DEF intersect
    <3>5. a[r][v].rights.user => w.rights.user /\ e.user
      <4>1. a[r][v].rights.user => w.rights.user
        BY <1>2
      <4>2. a[r][v].rights.user => e.user
        BY <3>2 DEF TableOK
      <4> QED BY <4>1, <4>2
    <3>8. x.rights \in RightsT /\ x.rights.write /\ x.rights.exec
      BY <3>4 DEF RightsT
    <3>9. a[r][v].rights.user => x.rights.user
      BY <3>4, <3>5
    <3>6. l - 1 >= 0 /\ (l - 1) + 1 = l
      BY <2>4
    <3>7. x.to \in Frame /\ o.R[x.to] = r /\ o.L[x.to] = l - 1 /\ o.B[x.to] = Block(v, l)
      BY <3>2, <3>3 DEF TableOK
    <3> HIDE DEF e
    <3>10. o.B[x.to] = Block(v, (l - 1) + 1)
      BY <3>6, <3>7
    <3>11. Good(x, m, o, a, r, v, l - 1)
      BY <3>3, <3>8, <3>9, <3>6, <3>7, <3>10 DEF Good
    <3> QED BY <3>11 DEF x
  <2> QED BY <2>1, <2>2, <2>3, <2>4
<1> QED BY <1>1, <1>2

(* The kernel half is the upper half of the root's slots. *)
LEMMA UserBlock ==
  /\ USER_LIMIT \in Nat /\ USER_LIMIT < level_size(4)
  /\ \A v \in Nat : v < USER_LIMIT <=> Block(v, 3) < KernelFirst
<1> DEFINE S == level_size(3)
<1>1. S \in Nat \ {0} /\ level_size(4) = S * Fan /\ KernelFirst \in Nat /\ Fan \in Nat
      /\ KernelFirst < Fan /\ USER_LIMIT = KernelFirst * S
  BY Sizes, Numbers DEF USER_LIMIT, Top
<1> HIDE DEF S
<1>2. USER_LIMIT \in Nat /\ USER_LIMIT < level_size(4)
  BY <1>1, Multiples
<1>3. ASSUME NEW v \in Nat PROVE v < USER_LIMIT <=> Block(v, 3) < KernelFirst
  <2> DEFINE q == v \div S
             r == v % S
  <2>1. q \in Nat /\ r \in 0 .. S - 1 /\ v = q * S + r
    BY <1>1, Quotient
  <2> HIDE DEF q, r
  <2>2. CASE q < KernelFirst
    <3>1. (q + 1) * S <= KernelFirst * S
      BY <1>1, <2>1, <2>2, Multiples
    <3>2. (q + 1) * S = q * S + S /\ q * S \in Nat /\ KernelFirst * S \in Nat
      BY <1>1, <2>1
    <3>3. v < USER_LIMIT
      BY <1>1, <2>1, <3>1, <3>2
    <3> QED BY <2>2, <3>3 DEF Block, q, S
  <2>3. CASE ~(q < KernelFirst)
    <3>1. KernelFirst * S <= q * S
      BY <1>1, <2>1, <2>3, Multiples
    <3>2. q * S \in Nat /\ KernelFirst * S \in Nat
      BY <1>1, <2>1
    <3>3. ~(v < USER_LIMIT)
      BY <1>1, <2>1, <3>1, <3>2
    <3> QED BY <2>3, <3>3 DEF Block, q, S
  <2> QED BY <2>2, <2>3
<1> QED BY <1>2, <1>3

TreeOf(root, k, v) == IF v >= USER_LIMIT THEN k ELSE root

(* The stages of the walk of a tree are as they should be. *)
LEMMA WalkStages ==
  ASSUME NEW m, NEW o, NEW a, NEW Rs, NEW k \in Rs, NEW c, Shape(m, o, a, Rs, k, c),
         NEW root \in Rs, NEW v \in Page
  PROVE  LET d == Descent(m, root, v)
             r == TreeOf(root, k, v)
         IN  \A l \in 0 .. 3 : Good(d[l], m, o, a, r, v, l - 1)
<1> DEFINE d == Descent(m, root, v)
           r == TreeOf(root, k, v)
           i == index(v, 3)
<1>1. /\ d[4] = From(root) /\ d[3] = WalkStep(m, d[4], v, 3)  /\ d[2] = WalkStep(m, d[3], v, 2)
      /\ d[1] = WalkStep(m, d[2], v, 1) /\ d[0] = WalkStep(m, d[1], v, 0)
  BY DescentSteps
<1> HIDE DEF d
<1>2. /\ IsMem(m) /\ IsOwn(o) /\ root \in Frame /\ k \in Frame /\ RootsOwn(o, Rs)
      /\ Entries(m, o, a, Rs, k, c) /\ Shared(m, Rs, k) /\ Owners(o, Rs)
  BY DEF Shape
<1>3. r \in Rs /\ r \in Frame
  BY <1>2 DEF TreeOf
<1>4. v \in Nat /\ Block(v, 4) = 0 /\ i = Block(v, 3) /\ i \in Slot /\ i \in Nat
  <2>1. v \in Nat /\ Block(v, 4) = 0 /\ i = Block(v, 3)
    BY TopBlock
  <2>2. i \in Slot
    BY <2>1, BlockUp
  <2> QED BY <2>1, <2>2, Numbers DEF Slot
<1>5. v >= USER_LIMIT <=> i >= KernelFirst
  <2>1. USER_LIMIT \in Nat /\ (v < USER_LIMIT <=> Block(v, 3) < KernelFirst)
    BY <1>4, UserBlock
  <2> HIDE DEF i
  <2> QED BY <1>4, <2>1, Numbers
<1> HIDE DEF i
<1>6. m.table[root][i] = m.table[r][i]
  BY <1>2, <1>4, <1>5 DEF Shared, TreeOf
<1>7. EntryOK(m.table[r][i], r, 3, Block(v, 3), o, a[r], k, c)
  <2>1. o.R[r] = r /\ o.L[r] = 3 /\ o.B[r] = 0 /\ r # Nobody
    BY <1>2, <1>3 DEF RootsOwn, Frame, Nobody
  <2>2. r \in Rs \ {k} => i < KernelFirst
    BY <1>4, <1>5, Numbers DEF TreeOf
  <2>3. EntryOK(m.table[r][i], o.R[r], o.L[r], Below(o.B[r], i), o, a[o.R[r]], k, c)
    BY <1>2, <1>3, <1>4, <2>1, <2>2 DEF Entries
  <2>4. Below(0, i) = Block(v, 3)
    BY <1>4, Numbers DEF Below
  <2> HIDE DEF r
  <2> QED BY <2>1, <2>3, <2>4
<1> HIDE DEF r
<1>8. Good(d[3], m, o, a, r, v, 2)
  <2>1. /\ d[4].end = "table" /\ d[4].to = root
        /\ d[4].rights = [write |-> TRUE, exec |-> TRUE, user |-> TRUE]
    BY <1>1 DEF From
  <2>2. d[4].rights \in RightsT /\ d[4].rights.write /\ d[4].rights.exec /\ d[4].rights.user
    BY <2>1 DEF RightsT
  <2>3. Ready(d[4], m, o, a, r, v, 3, k, c)
    <3>1. EntryOK(m.table[d[4].to][index(v, 3)], r, 3, Block(v, 3), o, a[r], k, c)
      BY <1>6, <1>7, <2>1 DEF i
    <3>2. d[4].to \in Frame
      BY <1>2, <2>1
    <3> QED BY <2>1, <2>2, <3>1, <3>2 DEF Ready
  <2>4. Good(WalkStep(m, d[4], v, 3), m, o, a, r, v, 3 - 1)
    BY <1>2, <1>3, <2>3, GoodStep
  <2> QED BY <1>1, <2>4
<1>9. ASSUME NEW l \in 0 .. 2, NEW w, Good(w, m, o, a, r, v, l)
      PROVE  Good(WalkStep(m, w, v, l), m, o, a, r, v, l - 1)
  <2>1. w.end \in {"table", "leaf", "absent"}
    BY <1>9 DEF Good
  <2>2. ASSUME w.end = "table"
        PROVE  /\ w.to \in Frame /\ o.R[w.to] = r /\ o.L[w.to] = l /\ o.B[w.to] = Block(v, l + 1)
               /\ w.rights \in RightsT /\ w.rights.write /\ w.rights.exec
               /\ a[r][v].rights.user => w.rights.user
    BY <1>9, <2>2 DEF Good
  <2>3. ASSUME w.end = "table"
        PROVE  EntryOK(m.table[w.to][index(v, l)], r, l, Block(v, l), o, a[r], k, c)
    <3>1. index(v, l) \in Slot /\ Block(v, l) = Below(Block(v, l + 1), index(v, l))
      BY SMTT(30), <1>4, BlockUp
    <3>2. w.to \in Frame /\ o.R[w.to] = r /\ o.L[w.to] = l /\ o.B[w.to] = Block(v, l + 1)
      BY <2>2, <2>3
    <3>3. r # Nobody /\ w.to \notin Rs
      BY <1>2, <1>3, <3>2 DEF RootsOwn, Frame, Nobody
    <3>4. EntryOK(m.table[w.to][index(v, l)], o.R[w.to], o.L[w.to],
                  Below(o.B[w.to], index(v, l)), o, a[o.R[w.to]], k, c)
      BY <1>2, <3>1, <3>2, <3>3 DEF Entries
    <3> QED BY <3>1, <3>2, <3>4
  <2>4. Ready(w, m, o, a, r, v, l, k, c)
    BY <1>9, <2>1, <2>2, <2>3 DEF Ready
  <2> QED BY <1>2, <1>3, <2>4, GoodStep
<1>10. Good(d[2], m, o, a, r, v, 1)
  BY <1>1, <1>8, <1>9
<1>11. Good(d[1], m, o, a, r, v, 0)
  BY <1>1, <1>10, <1>9
<1>12. Good(d[0], m, o, a, r, v, -1)
  BY <1>1, <1>11, <1>9
<1>13. \A l \in 0 .. 3 : l \in {0, 1, 2, 3}
  OBVIOUS
<1>14. 3 - 1 = 2 /\ 2 - 1 = 1 /\ 1 - 1 = 0 /\ 0 - 1 = -1
  OBVIOUS
<1>15. \A l \in 0 .. 3 : Good(d[l], m, o, a, r, v, l - 1)
  BY <1>8, <1>10, <1>11, <1>12, <1>13, <1>14
<1> QED BY <1>15 DEF d, r

(* A tree of the shape resolves every page to what was asked for. *)
LEMMA Resolves ==
  ASSUME NEW m, NEW o, NEW a, NEW Rs, NEW k \in Rs, NEW c, Shape(m, o, a, Rs, k, c),
         NEW root \in Rs, NEW v \in Page
  PROVE  translate(m, root, v) = a[TreeOf(root, k, v)][v]
<1> DEFINE w == Walk(m, root, v)
           r == TreeOf(root, k, v)
<1>1. Good(w, m, o, a, r, v, 0 - 1)
  <2>1. 0 \in 0 .. 3
    OBVIOUS
  <2> QED BY <2>1, WalkStages DEF Walk
<1>2. translate(m, root, v) = Translation(w, v, level_size(w.level))
  BY DEF translate
<1> HIDE DEF w, r
<1>3. w.end # "table"
  BY <1>1 DEF Good
<1>4. CASE w.end = "absent"
  BY <1>1, <1>2, <1>4 DEF Good, Translation, r
<1>5. CASE w.end = "leaf"
  BY <1>1, <1>2, <1>5 DEF Good, r
<1> QED BY <1>1, <1>3, <1>4, <1>5 DEF Good
-----------------------------------------------------------------------------
(* What the operations on a memory do, field by field. *)

(* Failing changes the error and nothing else. *)
LEMMA FailIs ==
  ASSUME NEW m, IsMem(m), NEW why
  PROVE  /\ IsMem(Fail(m, why)) /\ Fail(m, why).err = why
         /\ Fail(m, why).table = m.table /\ Fail(m, why).bytes = m.bytes
         /\ Fail(m, why).pool = m.pool /\ Fail(m, why).inUse = m.inUse
         /\ Fail(m, why).asked = m.asked /\ Fail(m, why).got = m.got
<1> DEFINE x == [table |-> m.table, bytes |-> m.bytes, pool |-> m.pool, inUse |-> m.inUse,
                 got |-> m.got, err |-> why, asked |-> m.asked]
<1>1. Fail(m, why) = x
  BY DEF Fail, IsMem
<1>2. IsMem(x)
  BY DEF IsMem
<1> QED BY <1>1, <1>2

(* A run of n frames is taken from the pool, or nothing happens but an error. *)
LEMMA AllocIs ==
  ASSUME NEW m, IsMem(m), NEW n \in Nat \ {0}, ~Failed(m)
  PROVE  LET x == alloc_frames(m, n)
         IN  /\ IsMem(x) /\ x.table = m.table /\ x.bytes = m.bytes /\ x.asked = m.asked
             /\ \/ Failed(x) /\ x.pool = m.pool /\ x.inUse = m.inUse
                \/ /\ ~Failed(x) /\ x.got \in m.pool
                   /\ x.got .. x.got + n - 1 \subseteq m.pool
                   /\ x.pool = m.pool \ (x.got .. x.got + n - 1)
                   /\ x.inUse = m.inUse + n
<1> DEFINE S == RunStarts(m.pool, n)
           x == alloc_frames(m, n)
<1>1. S \subseteq m.pool /\ S \subseteq Nat /\ m.pool \subseteq Frame
  BY DEF RunStarts, IsMem, Frame
<1>2. CASE S = {}
  <2>1. x = Fail(m, "OutOfFrames")
    BY <1>2 DEF alloc_frames
  <2>2. "OutOfFrames" # "none"
    OBVIOUS
  <2> HIDE DEF x
  <2>3. IsMem(x) /\ x.table = m.table /\ x.bytes = m.bytes /\ x.asked = m.asked
        /\ x.err = "OutOfFrames" /\ x.pool = m.pool /\ x.inUse = m.inUse
    BY <2>1, FailIs
  <2> QED BY <2>2, <2>3 DEF Failed, x
<1>3. CASE S # {}
  <2> DEFINE f == Min(S)
             y == [table |-> m.table, bytes |-> m.bytes, pool |-> m.pool \ (f .. f + n - 1),
                   inUse |-> m.inUse + n, got |-> f, err |-> m.err, asked |-> m.asked]
  <2>1. f \in S
    BY <1>1, <1>3, MinIsLeast
  <2>2. f .. f + n - 1 \subseteq m.pool /\ f \in m.pool /\ f \in Frame
    BY <1>1, <2>1 DEF RunStarts
  <2>3. x = TakeRun(m, f, n)
    BY <1>3 DEF alloc_frames
  <2> HIDE DEF f, x
  <2>4. TakeRun(m, f, n) = y
    <3>1. m = [table |-> m.table, bytes |-> m.bytes, pool |-> m.pool, inUse |-> m.inUse,
               got |-> m.got, err |-> m.err, asked |-> m.asked]
      BY DEF IsMem
    <3> DEFINE P == m.pool \ (f .. f + n - 1)
               N == m.inUse + n
    <3>2. TakeRun(m, f, n) = [m EXCEPT !.pool = P, !.inUse = N, !.got = f]
      BY DEF TakeRun
    <3> HIDE DEF P, N
    <3>3. [m EXCEPT !.pool = P, !.inUse = N, !.got = f]
             = [table |-> m.table, bytes |-> m.bytes, pool |-> P,
                inUse |-> N, got |-> f, err |-> m.err, asked |-> m.asked]
      <4> DEFINE m1 == [m EXCEPT !.pool = P]
                 m2 == [m1 EXCEPT !.inUse = N]
                 m3 == [m2 EXCEPT !.got = f]
      <4>1. m1 = [table |-> m.table, bytes |-> m.bytes, pool |-> P, inUse |-> m.inUse,
                  got |-> m.got, err |-> m.err, asked |-> m.asked]
        BY <3>1
      <4>2. [m EXCEPT !.pool = P, !.inUse = N, !.got = f] = m3
        BY Zenon
      <4> HIDE DEF m1
      <4>3. m2 = [table |-> m.table, bytes |-> m.bytes, pool |-> P, inUse |-> N,
                  got |-> m.got, err |-> m.err, asked |-> m.asked]
        BY <4>1
      <4> HIDE DEF m2
      <4>4. m3 = [table |-> m.table, bytes |-> m.bytes, pool |-> P, inUse |-> N,
                  got |-> f, err |-> m.err, asked |-> m.asked]
        BY <4>3
      <4> QED BY <4>2, <4>4
    <3> QED BY <3>2, <3>3 DEF P, N
  <2>5. IsMem(y)
    BY <2>2 DEF IsMem
  <2>6. x.got = f /\ x.err = m.err /\ x.pool = m.pool \ (f .. f + n - 1) /\ x.inUse = m.inUse + n
        /\ x.table = m.table /\ x.bytes = m.bytes /\ x.asked = m.asked
    BY <2>3, <2>4
  <2>7. IsMem(x)
    BY <2>3, <2>4, <2>5
  <2> HIDE DEF y, S
  <2> QED BY <2>2, <2>6, <2>7 DEF Failed, x
<1> QED BY <1>2, <1>3

(* The same for one frame. *)
LEMMA AllocOne ==
  ASSUME NEW m, IsMem(m), ~Failed(m)
  PROVE  LET x == alloc_frame(m)
         IN  /\ IsMem(x) /\ x.table = m.table /\ x.bytes = m.bytes /\ x.asked = m.asked
             /\ \/ Failed(x) /\ x.pool = m.pool /\ x.inUse = m.inUse
                \/ /\ ~Failed(x) /\ x.got \in m.pool /\ x.pool = m.pool \ {x.got}
                   /\ x.inUse = m.inUse + 1
<1> DEFINE x == alloc_frame(m)
<1>1. x = alloc_frames(m, 1)
  BY DEF alloc_frame
<1>2. 1 \in Nat \ {0}
  OBVIOUS
<1>3. /\ IsMem(x) /\ x.table = m.table /\ x.bytes = m.bytes /\ x.asked = m.asked
      /\ \/ Failed(x) /\ x.pool = m.pool /\ x.inUse = m.inUse
         \/ /\ ~Failed(x) /\ x.got \in m.pool
            /\ x.pool = m.pool \ (x.got .. x.got + 1 - 1)
            /\ x.inUse = m.inUse + 1
  BY <1>1, <1>2, AllocIs
<1> HIDE DEF x
<1>4. x.got \in m.pool => x.got .. x.got + 1 - 1 = {x.got}
  BY DEF IsMem, Frame
<1> QED BY <1>3, <1>4 DEF x

(* Clearing the frame in hand changes that frame's table and bytes. *)
LEMMA ZeroedIs ==
  ASSUME NEW m, IsMem(m), ~Failed(m), NEW whose
  PROVE  LET x == Zeroed(m, whose)
         IN  /\ IsMem(x) /\ ~Failed(x) /\ x.pool = m.pool /\ x.inUse = m.inUse /\ x.got = m.got
             /\ x.asked = m.asked
             /\ x.table = [m.table EXCEPT ![m.got] = EmptyTable]
             /\ x.bytes = [m.bytes EXCEPT ![m.got] = whose]
<1> DEFINE T == [m.table EXCEPT ![m.got] = EmptyTable]
           y == [table |-> T, bytes |-> [m.bytes EXCEPT ![m.got] = whose], pool |-> m.pool,
                 inUse |-> m.inUse, got |-> m.got, err |-> m.err, asked |-> m.asked]
           x == Zeroed(m, whose)
<1>1. x = y
  BY DEF Zeroed, IsMem
<1>2. EmptyTable \in [Slot -> EntryT]
  <2>1. Empty \in EntryT
    BY DEF Empty, EntryT
  <2> QED BY <2>1 DEF EmptyTable
<1>3. T \in [Frame -> [Slot -> EntryT]]
  BY <1>2 DEF IsMem
<1> HIDE DEF T
<1>4. IsMem(y)
  BY <1>3 DEF IsMem
<1> HIDE DEF x
<1>5. ~Failed(y)
  BY DEF Failed
<1> QED BY <1>1, <1>4, <1>5 DEF x, T

(* An entry is written, and nothing else. *)
LEMMA WriteIs ==
  ASSUME NEW m, IsMem(m), NEW t \in Frame, NEW s \in Slot, NEW e \in EntryT
  PROVE  LET x == Write(m, t, s, e)
         IN  /\ IsMem(x) /\ x.err = m.err /\ x.pool = m.pool /\ x.inUse = m.inUse
             /\ x.got = m.got /\ x.asked = m.asked /\ x.bytes = m.bytes
             /\ x.table = [m.table EXCEPT ![t][s] = e]
<1> DEFINE T == [m.table EXCEPT ![t][s] = e]
           y == [table |-> T, bytes |-> m.bytes, pool |-> m.pool,
                 inUse |-> m.inUse, got |-> m.got, err |-> m.err, asked |-> m.asked]
           x == Write(m, t, s, e)
<1>1. x = y
  <2>1. m = [table |-> m.table, bytes |-> m.bytes, pool |-> m.pool, inUse |-> m.inUse,
             got |-> m.got, err |-> m.err, asked |-> m.asked]
    BY DEF IsMem
  <2>2. x = [m EXCEPT !.table = T]
    BY <2>1 DEF Write
  <2> HIDE DEF T
  <2>3. [m EXCEPT !.table = T] = y
    BY <2>1
  <2> QED BY <2>2, <2>3
<1>2. T \in [Frame -> [Slot -> EntryT]]
  BY DEF IsMem
<1> HIDE DEF T
<1>3. IsMem(y)
  BY <1>2 DEF IsMem
<1> HIDE DEF x
<1> QED BY <1>1, <1>3 DEF x, T

(* The entries that are written are entries. *)
LEMMA EntriesTyped ==
  /\ Empty \in EntryT /\ ~Empty.present
  /\ \A p \in Nat : \A r \in RightsT : \A d \in BOOLEAN : \A l \in 0 .. 3 :
       Leaf(p, r, d, l) \in EntryT
  /\ \A f \in Frame : \A r \in RightsT : Intermediate(f, r) \in EntryT
  /\ \A e \in EntryT : \A r \in RightsT : Widened(e, r) \in EntryT
<1>1. Empty \in EntryT /\ ~Empty.present
  BY DEF Empty, EntryT
<1>2. ASSUME NEW p \in Nat, NEW r \in RightsT, NEW d \in BOOLEAN, NEW l \in 0 .. 3
      PROVE  Leaf(p, r, d, l) \in EntryT
  BY DEF Leaf, EntryT, RightsT
<1>3. ASSUME NEW f \in Frame, NEW r \in RightsT PROVE Intermediate(f, r) \in EntryT
  BY DEF Intermediate, EntryT, RightsT, Frame
<1>4. ASSUME NEW e \in EntryT, NEW r \in RightsT PROVE Widened(e, r) \in EntryT
  BY DEF Widened, EntryT, RightsT
<1> QED BY <1>1, <1>2, <1>3, <1>4
-----------------------------------------------------------------------------
(* A tree grows: a table is linked in, an entry is rewritten. *)

(* The slot i of table t may be written without the other trees noticing. *)
MayWrite(t, i, Rs, k) ==
  /\ t \in Rs => (t = k /\ Rs = {k}) \/ (t # k /\ i < KernelFirst)

(* What belonged to a tree still does. *)
Keeps(o, q) ==
  \A f \in Frame : o.R[f] # Nobody => q.R[f] = o.R[f] /\ q.L[f] = o.L[f] /\ q.B[f] = o.B[f]

(* An entry stays as it should be while what is owned stays owned. *)
LEMMA EntryKept ==
  ASSUME NEW e \in EntryT, NEW r \in Frame, NEW l \in 0 .. 3, NEW b, NEW o, NEW q, NEW w, NEW k, NEW c,
         Keeps(o, q), EntryOK(e, r, l, b, o, w, k, c)
  PROVE  EntryOK(e, r, l, b, q, w, k, c)
<1>1. ASSUME TableOK(e, r, l, b, o, w) PROVE TableOK(e, r, l, b, q, w)
  <2>1. e.to \in Frame /\ o.R[e.to] = r /\ o.L[e.to] = l - 1 /\ o.B[e.to] = b
    BY <1>1 DEF TableOK
  <2>2. r # Nobody
    BY DEF Frame, Nobody
  <2>3. q.R[e.to] = r /\ q.L[e.to] = l - 1 /\ q.B[e.to] = b
    BY <2>1, <2>2 DEF Keeps
  <2> QED BY <1>1, <2>1, <2>3 DEF TableOK
<1>2. ASSUME Private(e, r, b, o, c) PROVE Private(e, r, b, q, c)
  <2>1. r # Nobody
    BY DEF Frame, Nobody
  <2> QED BY <1>2, <2>1 DEF Private, Keeps
<1> QED BY <1>1, <1>2, Zenon DEF EntryOK

(* A block below is named by the table's block and the slot in one way. *)
LEMMA SlotsOnce ==
  ASSUME NEW p \in Nat, NEW q \in Nat, NEW i \in Slot, NEW j \in Slot, Below(p, i) = Below(q, j)
  PROVE  p = q /\ i = j
<1>1. i \in 0 .. Fan - 1 /\ j \in 0 .. Fan - 1 /\ Fan \in Nat \ {0}
  BY Numbers DEF Slot
<1>2. Below(p, i) \div Fan = p /\ Below(p, i) % Fan = i
  BY <1>1, QuotientOf DEF Below
<1>3. Below(q, j) \div Fan = q /\ Below(q, j) % Fan = j
  BY <1>1, QuotientOf DEF Below
<1> QED BY <1>2, <1>3

(* The block of level l - 1 in slot j of a table for block b lies in b. *)
LEMMA SubBlock ==
  ASSUME NEW l \in 1 .. 4, NEW b \in Nat, NEW j \in Slot, NEW y \in Nat,
         Block(y, l - 1) = Below(b, j)
  PROVE  Block(y, l) = b /\ index(y, l - 1) = j
<1>1. l - 1 \in 0 .. 3 /\ (l - 1) + 1 = l
  OBVIOUS
<1>2. /\ Block(y, l) \in Nat /\ index(y, l - 1) \in Slot
      /\ Block(y, l - 1) = Below(Block(y, l), index(y, l - 1))
  BY <1>1, BlockUp
<1>3. Below(Block(y, l), index(y, l - 1)) = Below(b, j)
  BY <1>2
<1> QED BY <1>2, <1>3, SlotsOnce

Owning(o, f, r, l, b) ==
  [R |-> [o.R EXCEPT ![f] = r], L |-> [o.L EXCEPT ![f] = l], B |-> [o.B EXCEPT ![f] = b]]

(* A fresh table is hung under an absent entry. *)
LEMMA LinkTable ==
  ASSUME NEW m, NEW o, NEW a, NEW Rs, NEW k \in Rs, NEW c, Shape(m, o, a, Rs, k, c),
         NEW r \in Rs, NEW t \in Frame, NEW i \in Slot, NEW l \in 1 .. 3, NEW f \in m.pool,
         NEW rt \in RightsT, NEW x, IsMem(x),
         o.R[t] = r, o.L[t] = l, ~m.table[t][i].present, MayWrite(t, i, Rs, k),
         x.table = [[m.table EXCEPT ![f] = EmptyTable] EXCEPT ![t][i] = Intermediate(f, rt)],
         x.pool = m.pool \ {f}
  PROVE  Shape(x, Owning(o, f, r, l - 1, Below(o.B[t], i)), a, Rs, k, c)
<1> DEFINE b == Below(o.B[t], i)
           q == Owning(o, f, r, l - 1, b)
<1>1. /\ IsMem(m) /\ IsOwn(o) /\ Rs \subseteq Frame
      /\ PoolFree(m, o) /\ RootsOwn(o, Rs) /\ Owners(o, Rs) /\ Once(o) /\ Hung(m, o)
      /\ Entries(m, o, a, Rs, k, c) /\ Shared(m, Rs, k)
  BY DEF Shape
<1>2. f \in Frame /\ o.R[f] = Nobody /\ r \in Frame /\ r # Nobody /\ f # t /\ f \notin Rs
  <2>1. f \in Frame /\ o.R[f] = Nobody
    BY <1>1 DEF IsMem, PoolFree
  <2>2. r \in Frame /\ r # Nobody
    BY <1>1 DEF Frame, Nobody
  <2>3. f \notin Rs
    BY <1>1, <2>1 DEF RootsOwn, Frame, Nobody
  <2> QED BY <2>1, <2>2, <2>3
<1>3. o.B[t] \in Nat /\ b \in Nat
  <2>1. o.B[t] \in Nat
    BY <1>1, <1>2 DEF Owners
  <2> QED BY <2>1, Numbers DEF Slot, Below
<1>4. IsOwn(q)
  BY <1>1, <1>2, <1>3 DEF IsOwn, Owning, Frame
<1>5. /\ q.R[f] = r /\ q.L[f] = l - 1 /\ q.B[f] = b
      /\ \A g \in Frame : g # f => q.R[g] = o.R[g] /\ q.L[g] = o.L[g] /\ q.B[g] = o.B[g]
  <2>1. o.R \in [Frame -> Int] /\ o.L \in [Frame -> Int] /\ o.B \in [Frame -> Int]
    BY <1>1 DEF IsOwn
  <2> QED BY <1>2, <2>1 DEF Owning
<1>6. /\ \A g \in Frame : \A j \in Slot : g # f /\ (g # t \/ j # i) => x.table[g][j] = m.table[g][j]
      /\ \A j \in Slot : x.table[f][j] = Empty
      /\ x.table[t][i] = Intermediate(f, rt)
  <2>1. m.table \in [Frame -> [Slot -> EntryT]]
    BY <1>1 DEF IsMem
  <2> QED BY <1>2, <2>1 DEF EmptyTable
<1> HIDE DEF q
<1>7. EntryOK(m.table[t][i], r, l, b, o, a[r], k, c)
  <2>1. t \in Rs \ {k} => i < KernelFirst
    BY DEF MayWrite
  <2> QED BY <1>1, <1>2, <2>1 DEF Entries
<1> HIDE DEF b
<1>8. AbsentOK(l, b, a[r])
  BY <1>7 DEF EntryOK
<1>9. PoolFree(x, q)
  BY <1>1, <1>5 DEF PoolFree, IsMem
<1>10. RootsOwn(q, Rs)
  BY <1>1, <1>2, <1>5 DEF RootsOwn
<1>11. Owners(q, Rs)
  <2> SUFFICES ASSUME NEW g \in Frame, q.R[g] # Nobody
               PROVE  /\ q.R[g] \in Rs /\ q.L[g] \in -1 .. 3 /\ q.B[g] \in Nat
                      /\ q.L[g] = 3 => g = q.R[g]
    BY DEF Owners
  <2>1. CASE g = f
    <3>1. l - 1 \in -1 .. 3 /\ l - 1 # 3
      OBVIOUS
    <3> QED BY <1>3, <1>5, <2>1, <3>1
  <2>2. CASE g # f
    BY <1>1, <1>5, <2>2 DEF Owners
  <2> QED BY <2>1, <2>2
<1>12. \A g \in Frame : o.R[g] = r /\ o.L[g] = l - 1 /\ o.B[g] = b => FALSE
  <2> SUFFICES ASSUME NEW g \in Frame, o.R[g] = r, o.L[g] = l - 1, o.B[g] = b PROVE FALSE
    OBVIOUS
  <2>1. l - 1 \in 0 .. 2 /\ (l - 1) + 1 = l
    OBVIOUS
  <2>2. PICK u \in Frame, j \in Slot :
          /\ o.R[u] = r /\ o.L[u] = l /\ b = Below(o.B[u], j) /\ m.table[u][j].present
    BY <1>1, <1>2, <2>1 DEF Hung
  <2>3. o.B[u] \in Nat
    BY <1>1, <1>2, <2>2 DEF Owners
  <2>4. o.B[u] = o.B[t] /\ i = j
    <3>1. Below(o.B[u], j) = Below(o.B[t], i)
      BY <2>2 DEF b
    <3> QED BY <1>3, <2>3, <3>1, SlotsOnce
  <2>5. u = t
    <3>1. o.L[u] >= 0
      BY <2>2
    <3> QED BY <1>1, <1>2, <2>2, <2>4, <3>1 DEF Once
  <2> QED BY <2>2, <2>4, <2>5
<1>13. Once(q)
  <2> SUFFICES ASSUME NEW g \in Frame, NEW h \in Frame, q.R[g] # Nobody, q.L[g] >= 0,
                      q.R[h] = q.R[g], q.L[h] = q.L[g], q.B[h] = q.B[g]
               PROVE  g = h
    BY DEF Once
  <2>1. CASE g = f /\ h = f
    BY <2>1
  <2>2. CASE g = f /\ h # f
    BY <1>5, <1>12, <2>2
  <2>3. CASE g # f /\ h = f
    BY <1>5, <1>12, <2>3
  <2>4. CASE g # f /\ h # f
    <3>1. o.R[g] # Nobody /\ o.L[g] >= 0 /\ o.R[h] = o.R[g] /\ o.L[h] = o.L[g] /\ o.B[h] = o.B[g]
      BY <1>5, <2>4
    <3> QED BY <1>1, <3>1 DEF Once
  <2> QED BY <2>1, <2>2, <2>3, <2>4
<1>14. Hung(x, q)
  <2> SUFFICES ASSUME NEW g \in Frame, q.R[g] # Nobody, q.L[g] \in 0 .. 2
               PROVE  \E u \in Frame : \E j \in Slot :
                        /\ q.R[u] = q.R[g] /\ q.L[u] = q.L[g] + 1 /\ q.B[g] = Below(q.B[u], j)
                        /\ x.table[u][j].present /\ ~x.table[u][j].huge /\ x.table[u][j].to = g
    BY DEF Hung
  <2>1. CASE g = f
    <3>1. x.table[t][i].present /\ ~x.table[t][i].huge /\ x.table[t][i].to = f
      BY <1>6 DEF Intermediate
    <3>2. q.R[t] = r /\ q.L[t] = l /\ q.B[t] = o.B[t] /\ (l - 1) + 1 = l
      BY <1>2, <1>5
    <3>3. q.B[g] = Below(q.B[t], i)
      BY <1>5, <2>1, <3>2 DEF b
    <3> QED BY <1>5, <2>1, <3>1, <3>2, <3>3
  <2>2. CASE g # f
    <3>1. o.R[g] # Nobody /\ o.L[g] \in 0 .. 2 /\ q.R[g] = o.R[g] /\ q.L[g] = o.L[g]
          /\ q.B[g] = o.B[g]
      BY <1>5, <2>2
    <3>2. PICK u \in Frame, j \in Slot :
            /\ o.R[u] = o.R[g] /\ o.L[u] = o.L[g] + 1 /\ o.B[g] = Below(o.B[u], j)
            /\ m.table[u][j].present /\ ~m.table[u][j].huge /\ m.table[u][j].to = g
      BY <1>1, <3>1 DEF Hung
    <3>3. u # f /\ (u # t \/ j # i)
      BY <1>2, <3>1, <3>2
    <3>4. x.table[u][j] = m.table[u][j]
      BY <1>6, <3>3
    <3>5. q.R[u] = o.R[u] /\ q.L[u] = o.L[u] /\ q.B[u] = o.B[u]
      BY <1>5, <3>3
    <3> QED BY <3>1, <3>2, <3>4, <3>5
  <2> QED BY <2>1, <2>2
<1>15. Keeps(o, q)
  BY <1>2, <1>5 DEF Keeps
<1>16. Entries(x, q, a, Rs, k, c)
  <2> SUFFICES ASSUME NEW u \in Frame, NEW j \in Slot, q.R[u] # Nobody, q.L[u] >= 0,
                      u \in Rs \ {k} => j < KernelFirst
               PROVE  EntryOK(x.table[u][j], q.R[u], q.L[u], Below(q.B[u], j), q, a[q.R[u]], k, c)
    BY DEF Entries
  <2>1. CASE u = f
    <3>1. \A y \in Page : Block(y, l - 1) = Below(b, j) => a[r][y] = Unmapped
      <4> SUFFICES ASSUME NEW y \in Page, Block(y, l - 1) = Below(b, j)
                   PROVE  a[r][y] = Unmapped
        OBVIOUS
      <4>1. y \in Nat /\ l \in 1 .. 4
        BY DEF Page
      <4>2. Block(y, l) = b
        BY <1>3, <4>1, SubBlock
      <4> QED BY <1>8, <4>2 DEF AbsentOK
    <3>2. ~x.table[u][j].present
      BY <1>6, <2>1, EntriesTyped
    <3>3. AbsentOK(q.L[u], Below(q.B[u], j), a[q.R[u]])
      BY <1>5, <2>1, <3>1 DEF AbsentOK
    <3> QED BY <3>2, <3>3 DEF EntryOK
  <2>2. CASE u = t /\ j = i
    <3> DEFINE e == Intermediate(f, rt)
    <3>1. q.R[u] = r /\ q.L[u] = l /\ q.B[u] = o.B[t] /\ x.table[u][j] = e
      BY <1>2, <1>5, <1>6, <2>2
    <3>2. e.present /\ ~e.huge /\ e.to = f /\ e.write /\ e.exec
      BY DEF Intermediate
    <3> HIDE DEF e
    <3>3. \A y \in Page : Block(y, l) = b => ~a[r][y].rights.user
      BY <1>8 DEF AbsentOK, Unmapped, RO
    <3>4. TableOK(e, r, l, b, q, a[r])
      BY <1>2, <1>5, <3>2, <3>3 DEF TableOK
    <3>5. EntryOK(e, r, l, b, q, a[r], k, c)
      <4>1. l # 0
        OBVIOUS
      <4> QED BY <3>2, <3>4, <4>1 DEF EntryOK
    <3>6. Below(q.B[u], j) = b
      BY <2>2, <3>1 DEF b
    <3> QED BY <3>1, <3>5, <3>6
  <2>3. CASE u # f /\ (u # t \/ j # i)
    <3>1. q.R[u] = o.R[u] /\ q.L[u] = o.L[u] /\ q.B[u] = o.B[u] /\ x.table[u][j] = m.table[u][j]
      BY <1>5, <1>6, <2>3
    <3>2. o.R[u] \in Frame /\ o.L[u] \in 0 .. 3 /\ m.table[u][j] \in EntryT
      BY <1>1, <3>1 DEF Owners, IsMem
    <3>3. EntryOK(m.table[u][j], o.R[u], o.L[u], Below(o.B[u], j), o, a[o.R[u]], k, c)
      BY <1>1, <3>1 DEF Entries
    <3>4. EntryOK(m.table[u][j], o.R[u], o.L[u], Below(o.B[u], j), q, a[o.R[u]], k, c)
      BY <1>15, <3>2, <3>3, EntryKept
    <3> QED BY <3>1, <3>4
  <2> QED BY <2>1, <2>2, <2>3
<1>17. Shared(x, Rs, k)
  <2> SUFFICES ASSUME NEW u \in Rs, NEW j \in Slot, j >= KernelFirst
               PROVE  x.table[u][j] = x.table[k][j]
    BY DEF Shared
  <2>1. u \in Frame /\ k \in Frame /\ u # f /\ k # f
    BY <1>1, <1>2
  <2>2. CASE Rs = {k}
    BY <2>2
  <2>3. CASE Rs # {k}
    <3>1. (u # t \/ j # i) /\ (k # t \/ j # i)
      BY <2>3, Numbers DEF MayWrite, Slot
    <3> QED BY <1>1, <1>6, <2>1, <3>1 DEF Shared
  <2> QED BY <2>2, <2>3
<1> QED BY <1>1, <1>4, <1>9, <1>10, <1>11, <1>13, <1>14, <1>16, <1>17 DEF Shape, q, b

(* The entries of tree r but slot i of t are right for what it is asked now, z. *)
OthersOK(m, o, z, Rs, k, c, r, t, i) ==
  \A u \in Frame : \A j \in Slot :
    o.R[u] = r /\ o.L[u] >= 0 /\ (u # t \/ j # i) /\ (u \in Rs \ {k} => j < KernelFirst)
      => EntryOK(m.table[u][j], r, o.L[u], Below(o.B[u], j), o, z, k, c)

(* The entry e for block b leads to the table that is hung there, if any. *)
ChildKept(o, r, l, b, e) ==
  \A f \in Frame : l >= 1 /\ o.R[f] = r /\ o.L[f] = l - 1 /\ o.B[f] = b
    => e.present /\ ~e.huge /\ e.to = f

(* Only tree r is asked for something else. *)
SameElsewhere(a, z, Rs, r) == \A q \in Rs : q # r => z[q] = a[q]

(* An entry is rewritten, and what the tree was asked for with it. *)
LEMMA WriteEntry ==
  ASSUME NEW m, NEW o, NEW a, NEW Rs, NEW k \in Rs, NEW c, Shape(m, o, a, Rs, k, c),
         NEW r \in Rs, NEW t \in Frame, NEW i \in Slot, NEW l \in 0 .. 3,
         NEW e \in EntryT, NEW x, IsMem(x), NEW z,
         o.R[t] = r, o.L[t] = l, MayWrite(t, i, Rs, k),
         x.table = [m.table EXCEPT ![t][i] = e], x.pool = m.pool,
         SameElsewhere(a, z, Rs, r), EntryOK(e, r, l, Below(o.B[t], i), o, z[r], k, c),
         OthersOK(m, o, z[r], Rs, k, c, r, t, i), ChildKept(o, r, l, Below(o.B[t], i), e)
  PROVE  Shape(x, o, z, Rs, k, c)
<1>1. /\ IsMem(m) /\ IsOwn(o) /\ Rs \subseteq Frame
      /\ PoolFree(m, o) /\ RootsOwn(o, Rs) /\ Owners(o, Rs) /\ Once(o) /\ Hung(m, o)
      /\ Entries(m, o, a, Rs, k, c) /\ Shared(m, Rs, k)
  BY DEF Shape
<1>2. r \in Frame /\ r # Nobody
  BY <1>1 DEF Frame, Nobody
<1>3. /\ \A g \in Frame : \A j \in Slot : g # t \/ j # i => x.table[g][j] = m.table[g][j]
      /\ x.table[t][i] = e
  <2>1. m.table \in [Frame -> [Slot -> EntryT]]
    BY <1>1 DEF IsMem
  <2> QED BY <2>1
<1>4. PoolFree(x, o)
  BY <1>1 DEF PoolFree
<1>5. Hung(x, o)
  <2> SUFFICES ASSUME NEW g \in Frame, o.R[g] # Nobody, o.L[g] \in 0 .. 2
               PROVE  \E u \in Frame : \E j \in Slot :
                        /\ o.R[u] = o.R[g] /\ o.L[u] = o.L[g] + 1 /\ o.B[g] = Below(o.B[u], j)
                        /\ x.table[u][j].present /\ ~x.table[u][j].huge /\ x.table[u][j].to = g
    BY DEF Hung
  <2>1. PICK u \in Frame, j \in Slot :
          /\ o.R[u] = o.R[g] /\ o.L[u] = o.L[g] + 1 /\ o.B[g] = Below(o.B[u], j)
          /\ m.table[u][j].present /\ ~m.table[u][j].huge /\ m.table[u][j].to = g
    BY <1>1 DEF Hung
  <2>2. CASE u = t /\ j = i
    <3>1. o.R[g] = r /\ o.B[g] = Below(o.B[t], i)
      BY <2>1, <2>2
    <3>2. l >= 1 /\ o.L[g] = l - 1
      BY <2>1, <2>2
    <3>3. e.present /\ ~e.huge /\ e.to = g
      BY <3>1, <3>2 DEF ChildKept
    <3> QED BY <1>3, <2>1, <2>2, <3>3
  <2>3. CASE u # t \/ j # i
    BY <1>3, <2>1, <2>3
  <2> QED BY <2>2, <2>3
<1>6. Entries(x, o, z, Rs, k, c)
  <2> SUFFICES ASSUME NEW u \in Frame, NEW j \in Slot, o.R[u] # Nobody, o.L[u] >= 0,
                      u \in Rs \ {k} => j < KernelFirst
               PROVE  EntryOK(x.table[u][j], o.R[u], o.L[u], Below(o.B[u], j), o, z[o.R[u]], k, c)
    BY DEF Entries
  <2>1. CASE u = t /\ j = i
    BY <1>3, <2>1
  <2>2. CASE (u # t \/ j # i) /\ o.R[u] = r
    BY <1>3, <2>2 DEF OthersOK
  <2>3. CASE o.R[u] # r
    <3>1. x.table[u][j] = m.table[u][j] /\ z[o.R[u]] = a[o.R[u]]
      BY <1>1, <1>3, <2>3 DEF Owners, SameElsewhere
    <3>2. EntryOK(m.table[u][j], o.R[u], o.L[u], Below(o.B[u], j), o, a[o.R[u]], k, c)
      BY <1>1 DEF Entries
    <3> QED BY <3>1, <3>2
  <2> QED BY <2>1, <2>2, <2>3
<1>7. Shared(x, Rs, k)
  <2> SUFFICES ASSUME NEW u \in Rs, NEW j \in Slot, j >= KernelFirst
               PROVE  x.table[u][j] = x.table[k][j]
    BY DEF Shared
  <2>1. u \in Frame /\ k \in Frame
    BY <1>1
  <2>2. CASE Rs = {k}
    BY <2>2
  <2>3. CASE Rs # {k}
    <3>1. (u # t \/ j # i) /\ (k # t \/ j # i)
      BY <2>3, Numbers DEF MayWrite, Slot
    <3> QED BY <1>1, <1>3, <2>1, <3>1 DEF Shared
  <2> QED BY <2>2, <2>3
<1> QED BY <1>1, <1>4, <1>5, <1>6, <1>7 DEF Shape

(* The frame hung at a slot of a table is where the table's entry points. *)
LEMMA HungThere ==
  ASSUME NEW m, NEW o, NEW a, NEW Rs, NEW k \in Rs, NEW c, Shape(m, o, a, Rs, k, c),
         NEW r \in Rs, NEW t \in Frame, NEW i \in Slot, NEW l \in 0 .. 3, o.R[t] = r, o.L[t] = l
  PROVE  ChildKept(o, r, l, Below(o.B[t], i), m.table[t][i])
<1> SUFFICES ASSUME NEW f \in Frame, l >= 1, o.R[f] = r, o.L[f] = l - 1,
                    o.B[f] = Below(o.B[t], i)
             PROVE  m.table[t][i].present /\ ~m.table[t][i].huge /\ m.table[t][i].to = f
  BY DEF ChildKept
<1>1. /\ IsMem(m) /\ IsOwn(o) /\ Rs \subseteq Frame /\ Owners(o, Rs) /\ Once(o) /\ Hung(m, o)
  BY DEF Shape
<1>2. r \in Frame /\ r # Nobody
  BY <1>1 DEF Frame, Nobody
<1>3. l - 1 \in 0 .. 2 /\ (l - 1) + 1 = l
  OBVIOUS
<1>4. PICK u \in Frame, j \in Slot :
        /\ o.R[u] = r /\ o.L[u] = l /\ o.B[f] = Below(o.B[u], j)
        /\ m.table[u][j].present /\ ~m.table[u][j].huge /\ m.table[u][j].to = f
  BY <1>1, <1>2, <1>3 DEF Hung
<1>5. o.B[u] \in Nat /\ o.B[t] \in Nat
  BY <1>1, <1>2, <1>4 DEF Owners
<1>6. o.B[u] = o.B[t] /\ i = j
  <2>1. Below(o.B[u], j) = Below(o.B[t], i)
    BY <1>4
  <2> QED BY <1>5, <2>1, SlotsOnce
<1>7. u = t
  <2>1. o.L[u] >= 0
    BY <1>4
  <2> QED BY <1>1, <1>2, <1>4, <1>6, <2>1 DEF Once
<1> QED BY <1>4, <1>6, <1>7

(* The frames taken from m to x are the tree r's, and nothing else moved. *)
Ledger(m) == m.inUse + Cardinality(m.pool)
Moves(m, o, x, q, r) ==
  /\ x.pool \subseteq m.pool /\ Ledger(x) = Ledger(m)
  /\ \A f \in Frame \ m.pool : x.bytes[f] = m.bytes[f]
  /\ Keeps(o, q)
  /\ \A f \in Frame : o.R[f] = Nobody /\ q.R[f] # Nobody =>
       f \in m.pool /\ f \notin x.pool /\ q.R[f] = r /\ q.L[f] >= 0
  /\ \A f \in m.pool \ x.pool : q.R[f] = r
Grows(m, o, x, q, r) == x.asked = m.asked /\ Moves(m, o, x, q, r)

(* One move after another. *)
LEMMA MovesOn ==
  ASSUME NEW m, NEW o, NEW x, NEW p, NEW y, NEW q, NEW r \in Frame, IsMem(m), IsMem(x), IsMem(y),
         Moves(m, o, x, p, r), Moves(x, p, y, q, r)
  PROVE  Moves(m, o, y, q, r)
<1>0. r # Nobody
  BY DEF Frame, Nobody
<1>1. y.pool \subseteq m.pool /\ Ledger(y) = Ledger(m)
  BY DEF Moves
<1>2. \A f \in Frame \ m.pool : y.bytes[f] = m.bytes[f]
  BY DEF Moves
<1>3. Keeps(o, q)
  BY DEF Moves, Keeps
<1>4. ASSUME NEW f \in Frame, o.R[f] = Nobody, q.R[f] # Nobody
      PROVE  f \in m.pool /\ f \notin y.pool /\ q.R[f] = r /\ q.L[f] >= 0
  <2>1. CASE p.R[f] = Nobody
    BY <1>4, <2>1 DEF Moves
  <2>2. CASE p.R[f] # Nobody
    <3>1. f \in m.pool /\ f \notin x.pool /\ p.R[f] = r /\ p.L[f] >= 0
      BY <1>4, <2>2 DEF Moves
    <3>2. q.R[f] = p.R[f] /\ q.L[f] = p.L[f] /\ f \notin y.pool
      BY <2>2, <3>1 DEF Moves, Keeps
    <3> QED BY <3>1, <3>2
  <2> QED BY <2>1, <2>2
<1>5. ASSUME NEW f \in m.pool \ y.pool PROVE q.R[f] = r
  <2>1. CASE f \in x.pool
    BY <2>1 DEF Moves
  <2>2. CASE f \notin x.pool
    <3>1. p.R[f] = r /\ f \in Frame
      BY <2>2 DEF Moves, IsMem
    <3> QED BY <1>0, <3>1 DEF Moves, Keeps
  <2> QED BY <2>1, <2>2
<1> QED BY <1>1, <1>2, <1>3, <1>4, <1>5 DEF Moves

(* Growing is transitive. *)
LEMMA GrowsOn ==
  ASSUME NEW m, NEW o, NEW x, NEW p, NEW y, NEW q, NEW r \in Frame, IsMem(m), IsMem(x), IsMem(y),
         Grows(m, o, x, p, r), Grows(x, p, y, q, r)
  PROVE  Grows(m, o, y, q, r)
BY MovesOn DEF Grows

(* Taking a frame leaves the ledger as it was. *)
LEMMA LedgerTake ==
  ASSUME NEW m, IsMem(m), NEW x, IsMem(x), NEW f \in m.pool, x.pool = m.pool \ {f},
         x.inUse = m.inUse + 1
  PROVE  Ledger(x) = Ledger(m)
<1>1. IsFiniteSet(Frame)
  BY FS_Interval, Numbers DEF Frame
<1>2. IsFiniteSet(m.pool)
  BY <1>1, FS_Subset DEF IsMem
<1>3. Cardinality(m.pool \ {f}) = Cardinality(m.pool) - 1 /\ Cardinality(m.pool) \in Nat
  BY <1>2, FS_RemoveElement, FS_CardinalityType
<1> QED BY <1>3 DEF Ledger, IsMem

-----------------------------------------------------------------------------
(* The way down to a page that is being mapped. *)

(* Tree r may be given page v: the kernel's while it is alone, another's    *)
(* below the user limit.                                                    *)
MayMap(Rs, k, r, v) ==
  r \in Rs /\ v \in Page /\ (r = k => Rs = {k}) /\ (r # k => v < USER_LIMIT)

(* Above level l, the entries for v of tree r lead on, as widely as rt asks. *)
PathOpen(m, o, r, v, l, rt) ==
  \A t \in Frame : o.R[t] = r /\ o.L[t] > l /\ o.B[t] = Block(v, o.L[t] + 1) =>
    /\ m.table[t][index(v, o.L[t])].present
    /\ ~m.table[t][index(v, o.L[t])].huge
    /\ rt.user => m.table[t][index(v, o.L[t])].user

(* The descent has come to the table of level l, or has failed on the way. *)
Standing(w, o, a, Rs, k, c, r, v, l, rt) ==
  /\ w = [m |-> w.m, at |-> w.at]
  /\ Shape(w.m, o, a, Rs, k, c)
  /\ ~Failed(w.m) =>
       /\ w.at \in Frame /\ o.R[w.at] = r /\ o.L[w.at] = l /\ o.B[w.at] = Block(v, l + 1)
       /\ PathOpen(w.m, o, r, v, l, rt)

(* The tables that were added are on the way to v, of level l or above. *)
OnWay(o, q, v, l) ==
  \A f \in Frame : o.R[f] = Nobody /\ q.R[f] # Nobody => q.L[f] >= l /\ q.B[f] = Block(v, q.L[f] + 1)

(* The slots on the way may be written. *)
LEMMA WayWritable ==
  ASSUME NEW m, NEW o, NEW a, NEW Rs, NEW k \in Rs, NEW c, Shape(m, o, a, Rs, k, c),
         NEW r, NEW v, MayMap(Rs, k, r, v), NEW t \in Frame, NEW l \in 0 .. 3,
         o.R[t] = r, o.L[t] = l
  PROVE  MayWrite(t, index(v, l), Rs, k)
<1>1. Rs \subseteq Frame /\ RootsOwn(o, Rs) /\ r \in Rs /\ v \in Page
  BY DEF Shape, MayMap
<1> SUFFICES ASSUME t \in Rs
             PROVE  (t = k /\ Rs = {k}) \/ (t # k /\ index(v, l) < KernelFirst)
  BY DEF MayWrite
<1>2. t = r /\ l = 3
  BY <1>1 DEF RootsOwn
<1>3. CASE r = k
  BY <1>2, <1>3 DEF MayMap
<1>4. CASE r # k
  <2>1. v < USER_LIMIT /\ v \in Nat /\ index(v, 3) = Block(v, 3)
    BY <1>1, <1>4, TopBlock DEF MayMap
  <2> QED BY <1>2, <1>4, <2>1, UserBlock
<1> QED BY <1>3, <1>4

(* One step down: through the entry, widened, or through a new table. *)
LEMMA NextTable ==
  ASSUME NEW o, NEW a, NEW Rs, NEW k \in Rs, NEW c, NEW r, NEW v, NEW l \in 1 .. 3,
         NEW rt \in RightsT, NEW w, MayMap(Rs, k, r, v), Standing(w, o, a, Rs, k, c, r, v, l, rt)
  PROVE  LET x == next_table(w, index(v, l), rt)
         IN  \E q : /\ Standing(x, q, a, Rs, k, c, r, v, l - 1, rt) /\ Grows(w.m, o, x.m, q, r)
                    /\ OnWay(o, q, v, l - 1)
<1>0. PICK m, t : m = w.m /\ t = w.at
  OBVIOUS
<1> DEFINE i == index(v, l)
           x == next_table(w, i, rt)
           e == m.table[t][i]
           b == Block(v, l)
<1>1. w = [m |-> m, at |-> t] /\ Shape(m, o, a, Rs, k, c)
  BY <1>0 DEF Standing
<1>2. /\ IsMem(m) /\ IsOwn(o) /\ Rs \subseteq Frame /\ r \in Rs /\ r \in Frame /\ v \in Page
      /\ PoolFree(m, o) /\ RootsOwn(o, Rs) /\ Owners(o, Rs) /\ Once(o) /\ Hung(m, o)
      /\ Entries(m, o, a, Rs, k, c) /\ Shared(m, Rs, k)
  BY <1>1 DEF Shape, MayMap
<1>3. v \in Nat /\ i \in Slot /\ b \in Nat /\ b = Below(Block(v, l + 1), i)
  <2>1. v \in Nat /\ l \in 0 .. 3
    BY <1>2 DEF Page
  <2> QED BY <2>1, BlockUp
<1>4. ASSUME Failed(m)
      PROVE  Standing(x, o, a, Rs, k, c, r, v, l - 1, rt) /\ Grows(m, o, x.m, o, r)
  <2>1. x = w
    BY <1>0, <1>4 DEF next_table
  <2> HIDE DEF x
  <2>2. Grows(m, o, m, o, r)
    BY <1>2 DEF Grows, Moves, Keeps
  <2> QED BY <1>0, <1>1, <1>4, <2>1, <2>2 DEF Standing
<1> SUFFICES ASSUME ~Failed(m)
             PROVE  \E q : /\ Standing(x, q, a, Rs, k, c, r, v, l - 1, rt) /\ Grows(m, o, x.m, q, r)
                           /\ OnWay(o, q, v, l - 1)
  <2>1. OnWay(o, o, v, l - 1)
    BY DEF OnWay
  <2> QED BY <1>0, <1>4, <2>1
<1>12. OnWay(o, o, v, l - 1)
  BY DEF OnWay
<1>5. /\ t \in Frame /\ o.R[t] = r /\ o.L[t] = l /\ o.B[t] = Block(v, l + 1)
      /\ PathOpen(m, o, r, v, l, rt)
  BY <1>0 DEF Standing
<1>6. MayWrite(t, i, Rs, k)
  <2>1. l \in 0 .. 3
    OBVIOUS
  <2> QED BY <1>1, <1>5, <2>1, WayWritable
<1> HIDE DEF i, b, x
<1>7. r # Nobody /\ e \in EntryT
  <2>1. m.table \in [Frame -> [Slot -> EntryT]]
    BY <1>2 DEF IsMem
  <2>2. r # Nobody
    BY <1>2 DEF Frame, Nobody
  <2> QED BY <1>3, <1>5, <2>1, <2>2
<1>8. EntryOK(e, r, l, b, o, a[r], k, c)
  <2>1. t \in Rs \ {k} => i < KernelFirst
    BY <1>6 DEF MayWrite
  <2>2. EntryOK(e, o.R[t], o.L[t], Below(o.B[t], i), o, a[o.R[t]], k, c)
    BY <1>2, <1>3, <1>5, <1>7, <2>1 DEF Entries
  <2> QED BY <1>3, <1>5, <2>2
<1>9. CASE e.present /\ e.huge
  <2> DEFINE n == Fail(m, "LargePageCollision")
  <2>1. x = [w EXCEPT !.m = n]
    BY <1>0, <1>9 DEF next_table, next_table_present, x, i
  <2>2. /\ IsMem(n) /\ n.err = "LargePageCollision" /\ n.table = m.table /\ n.bytes = m.bytes
        /\ n.pool = m.pool /\ n.inUse = m.inUse /\ n.asked = m.asked
    BY <1>2, FailIs
  <2> HIDE DEF n
  <2>3. x = [m |-> n, at |-> t]
    BY <1>1, <2>1
  <2>4. Failed(n)
    BY <2>2 DEF Failed
  <2>5. Shape(n, o, a, Rs, k, c)
    BY <1>1, <2>2 DEF Shape, PoolFree, Hung, Entries, Shared
  <2>6. Grows(m, o, n, o, r)
    BY <1>2, <2>2 DEF Grows, Moves, Keeps, Ledger
  <2> QED BY <1>12, <2>3, <2>4, <2>5, <2>6 DEF Standing
<1>10. CASE e.present /\ ~e.huge
  <2> DEFINE y == Widened(e, rt)
             n == Write(m, t, i, y)
  <2>1. x = [m |-> n, at |-> e.to]
    BY <1>0, <1>10 DEF next_table, next_table_present, x, i
  <2>2. y \in EntryT /\ y.present /\ ~y.huge /\ y.to = e.to /\ y.write /\ y.exec = e.exec
        /\ (rt.user => y.user) /\ (e.user => y.user)
    BY <1>7, <1>10 DEF Widened, EntryT, RightsT
  <2> HIDE DEF y
  <2>3. /\ IsMem(n) /\ n.err = m.err /\ n.pool = m.pool /\ n.inUse = m.inUse
        /\ n.asked = m.asked /\ n.bytes = m.bytes /\ n.table = [m.table EXCEPT ![t][i] = y]
    BY <1>2, <1>3, <1>5, <2>2, WriteIs
  <2> HIDE DEF n
  <2>4. TableOK(e, r, l, b, o, a[r])
    BY <1>8, <1>10 DEF EntryOK
  <2>5. TableOK(y, r, l, b, o, a[r])
    BY <2>2, <2>4 DEF TableOK
  <2>6. EntryOK(y, r, l, b, o, a[r], k, c)
    <3>1. l # 0
      OBVIOUS
    <3> QED BY <2>2, <2>5, <3>1 DEF EntryOK
  <2>7. Shape(n, o, a, Rs, k, c)
    <3>1. OthersOK(m, o, a[r], Rs, k, c, r, t, i)
      BY <1>2, <1>7 DEF Entries, OthersOK
    <3>2. ChildKept(o, r, l, Below(o.B[t], i), y)
      <4>1. ChildKept(o, r, l, Below(o.B[t], i), e)
        <5>1. l \in 0 .. 3
          OBVIOUS
        <5> QED BY <1>1, <1>2, <1>3, <1>5, <5>1, HungThere
      <4> QED BY <2>2, <4>1 DEF ChildKept
    <3>3. EntryOK(y, r, l, Below(o.B[t], i), o, a[r], k, c)
      BY <1>3, <1>5, <2>6
    <3>4. l \in 0 .. 3
      OBVIOUS
    <3>5. SameElsewhere(a, a, Rs, r)
      BY DEF SameElsewhere
    <3> HIDE DEF e
    <3> QED BY <1>1, <1>2, <1>3, <1>5, <1>6, <2>2, <2>3, <3>1, <3>2, <3>3, <3>4, <3>5, WriteEntry
  <2>8. e.to \in Frame /\ o.R[e.to] = r /\ o.L[e.to] = l - 1 /\ o.B[e.to] = Block(v, (l - 1) + 1)
    <3>1. (l - 1) + 1 = l
      OBVIOUS
    <3> QED BY <2>4, <3>1 DEF TableOK, b
  <2>9. PathOpen(n, o, r, v, l - 1, rt)
    <3> SUFFICES ASSUME NEW u \in Frame, o.R[u] = r, o.L[u] > l - 1, o.B[u] = Block(v, o.L[u] + 1)
                 PROVE  /\ n.table[u][index(v, o.L[u])].present
                        /\ ~n.table[u][index(v, o.L[u])].huge
                        /\ rt.user => n.table[u][index(v, o.L[u])].user
      BY DEF PathOpen
    <3>1. m.table \in [Frame -> [Slot -> EntryT]]
      BY <1>2 DEF IsMem
    <3>2. o.L[u] \in Int
      BY <1>2 DEF IsOwn
    <3>3. CASE o.L[u] = l
      <4>1. o.L[u] >= 0
        BY <3>3
      <4>2. u = t
        BY <1>2, <1>5, <1>7, <3>3, <4>1 DEF Once
      <4>3. n.table[u][index(v, o.L[u])] = y
        BY <1>3, <1>5, <2>3, <3>1, <3>3, <4>2 DEF i
      <4> QED BY <2>2, <4>3
    <3>4. CASE o.L[u] > l
      <4>1. u # t
        BY <1>5, <3>4
      <4>2. n.table[u] = m.table[u]
        BY <1>5, <2>3, <3>1, <4>1
      <4> QED BY <1>5, <3>4, <4>2 DEF PathOpen
    <3> QED BY <3>2, <3>3, <3>4
  <2>10. Grows(m, o, n, o, r)
    BY <1>2, <2>3 DEF Grows, Moves, Keeps, Ledger
  <2>11. x.m = n /\ x.at = e.to
    BY <2>1
  <2>12. Standing(x, o, a, Rs, k, c, r, v, l - 1, rt)
    BY <2>1, <2>7, <2>8, <2>9, <2>11 DEF Standing
  <2> QED BY <1>12, <2>10, <2>11, <2>12
<1>11. CASE ~e.present
  <2> DEFINE m1 == alloc_frame(m)
             m2 == alloc_table(m)
  <2>1. x = Linked(w, m2, i, rt)
    BY <1>0, <1>11 DEF next_table, next_table_absent, x, i
  <2>2. /\ IsMem(m1) /\ m1.table = m.table /\ m1.bytes = m.bytes /\ m1.asked = m.asked
        /\ \/ Failed(m1) /\ m1.pool = m.pool /\ m1.inUse = m.inUse
           \/ /\ ~Failed(m1) /\ m1.got \in m.pool /\ m1.pool = m.pool \ {m1.got}
              /\ m1.inUse = m.inUse + 1
    BY <1>2, AllocOne
  <2>3. m2 = Zeroed(m1, {Kernel})
    BY DEF alloc_table
  <2> HIDE DEF m1, m2
  <2>4. CASE Failed(m1)
    <3>1. m2 = m1
      BY <2>3, <2>4 DEF Zeroed
    <3>2. x = [w EXCEPT !.m = m1]
      BY <2>1, <2>4, <3>1 DEF Linked
    <3>3. x = [m |-> m1, at |-> t]
      BY <1>1, <3>2
    <3>4. m1.pool = m.pool /\ m1.inUse = m.inUse
      BY <2>2, <2>4
    <3>5. Shape(m1, o, a, Rs, k, c)
      BY <1>1, <2>2, <3>4 DEF Shape, PoolFree, Hung, Entries, Shared
    <3>6. Grows(m, o, m1, o, r)
      BY <1>2, <2>2, <3>4 DEF Grows, Moves, Keeps, Ledger
    <3> QED BY <1>12, <2>4, <3>3, <3>5, <3>6 DEF Standing
  <2>5. CASE ~Failed(m1)
    <3> DEFINE f == m1.got
               g == Intermediate(f, rt)
               n == Write(m2, t, i, g)
               q == Owning(o, f, r, l - 1, Below(o.B[t], i))
    <3>1. f \in m.pool /\ m1.pool = m.pool \ {f} /\ m1.inUse = m.inUse + 1 /\ f \in Frame
      BY <1>2, <2>2, <2>5 DEF IsMem
    <3>2. /\ IsMem(m2) /\ ~Failed(m2) /\ m2.pool = m.pool \ {f} /\ m2.inUse = m.inUse + 1
          /\ m2.got = f /\ m2.asked = m.asked
          /\ m2.table = [m.table EXCEPT ![f] = EmptyTable]
          /\ m2.bytes = [m.bytes EXCEPT ![f] = {Kernel}]
      <4>1. /\ IsMem(m2) /\ ~Failed(m2) /\ m2.pool = m1.pool /\ m2.inUse = m1.inUse
            /\ m2.got = m1.got /\ m2.asked = m1.asked
            /\ m2.table = [m1.table EXCEPT ![m1.got] = EmptyTable]
            /\ m2.bytes = [m1.bytes EXCEPT ![m1.got] = {Kernel}]
        BY SMTT(30), <2>2, <2>3, <2>5, ZeroedIs
      <4> QED BY <2>2, <3>1, <4>1
    <3>3. x = [m |-> n, at |-> f]
      <4>1. x = [m |-> Write(m2, w.at, i, Intermediate(m2.got, rt)), at |-> m2.got]
        BY <2>1, <3>2 DEF Linked
      <4> QED BY <1>0, <3>2, <4>1
    <3> HIDE DEF f
    <3>4. g \in EntryT
      BY <3>1, EntriesTyped
    <3> HIDE DEF g
    <3>5. /\ IsMem(n) /\ n.err = m2.err /\ n.pool = m.pool \ {f} /\ n.inUse = m.inUse + 1
          /\ n.asked = m.asked /\ n.bytes = m2.bytes
          /\ n.table = [[m.table EXCEPT ![f] = EmptyTable] EXCEPT ![t][i] = g]
      BY <1>3, <1>5, <3>2, <3>4, WriteIs
    <3> HIDE DEF n
    <3>6. Shape(n, q, a, Rs, k, c)
      <4>1. ~m.table[t][i].present
        BY <1>11
      <4>2. n.table = [[m.table EXCEPT ![f] = EmptyTable] EXCEPT ![t][i] = Intermediate(f, rt)]
        BY <3>5 DEF g
      <4> QED BY ZenonT(30), <1>1, <1>2, <1>3, <1>5, <1>6, <3>1, <3>5, <4>1, <4>2, LinkTable
    <3>7. o.R[f] = Nobody /\ f # t
      BY <1>2, <1>5, <1>7, <3>1 DEF PoolFree
    <3>8. /\ q.R[f] = r /\ q.L[f] = l - 1 /\ q.B[f] = b
          /\ \A h \in Frame : h # f => q.R[h] = o.R[h] /\ q.L[h] = o.L[h] /\ q.B[h] = o.B[h]
      <4>1. o.R \in [Frame -> Int] /\ o.L \in [Frame -> Int] /\ o.B \in [Frame -> Int]
        BY <1>2 DEF IsOwn
      <4>2. Below(o.B[t], i) = b
        BY <1>3, <1>5
      <4> QED BY <3>1, <4>1, <4>2 DEF Owning
    <3> HIDE DEF q
    <3>9. q.B[f] = Block(v, (l - 1) + 1)
      <4>1. (l - 1) + 1 = l
        OBVIOUS
      <4> QED BY <3>8, <4>1 DEF b
    <3>10. PathOpen(n, q, r, v, l - 1, rt)
      <4> SUFFICES ASSUME NEW u \in Frame, q.R[u] = r, q.L[u] > l - 1, q.B[u] = Block(v, q.L[u] + 1)
                   PROVE  /\ n.table[u][index(v, q.L[u])].present
                          /\ ~n.table[u][index(v, q.L[u])].huge
                          /\ rt.user => n.table[u][index(v, q.L[u])].user
        BY DEF PathOpen
      <4>1. m.table \in [Frame -> [Slot -> EntryT]]
        BY <1>2 DEF IsMem
      <4>2. u # f
        BY <3>8
      <4>3. q.R[u] = o.R[u] /\ q.L[u] = o.L[u] /\ q.B[u] = o.B[u] /\ o.L[u] \in Int
        BY <1>2, <3>8, <4>2 DEF IsOwn
      <4>4. CASE o.L[u] = l
        <5>1. o.L[u] >= 0
          BY <4>4
        <5>2. u = t
          BY <1>2, <1>5, <1>7, <4>3, <4>4, <5>1 DEF Once
        <5>3. n.table[u][index(v, q.L[u])] = g
          BY <1>3, <1>5, <3>5, <3>7, <4>1, <4>3, <4>4, <5>2 DEF i
        <5>4. g.present /\ ~g.huge /\ (rt.user => g.user)
          BY DEF g, Intermediate
        <5> QED BY <5>3, <5>4
      <4>5. CASE o.L[u] > l
        <5>1. u # t
          BY <1>5, <4>5
        <5>2. n.table[u] = m.table[u]
          BY <1>5, <3>1, <3>5, <4>1, <4>2, <5>1
        <5> QED BY <1>5, <4>3, <4>5, <5>2 DEF PathOpen
      <4> QED BY <4>3, <4>4, <4>5
    <3>11. Grows(m, o, n, q, r)
      <4>1. Ledger(n) = Ledger(m)
        BY <1>2, <3>1, <3>5, LedgerTake
      <4>2. \A h \in Frame \ m.pool : n.bytes[h] = m.bytes[h]
        BY <1>2, <3>1, <3>2, <3>5 DEF IsMem
      <4>3. Keeps(o, q)
        BY <3>7, <3>8 DEF Keeps
      <4>4. ASSUME NEW h \in Frame, o.R[h] = Nobody, q.R[h] # Nobody
            PROVE  h \in m.pool /\ h \notin n.pool /\ q.R[h] = r /\ q.L[h] >= 0
        <5>1. h = f
          BY <3>8, <4>4
        <5> QED BY <3>1, <3>5, <3>8, <5>1
      <4>5. \A h \in m.pool \ n.pool : q.R[h] = r
        BY <3>5, <3>8
      <4> QED BY <3>5, <4>1, <4>2, <4>3, <4>4, <4>5 DEF Grows, Moves
    <3>12. x.m = n /\ x.at = f
      BY <3>3
    <3>13. OnWay(o, q, v, l - 1)
      <4> SUFFICES ASSUME NEW h \in Frame, o.R[h] = Nobody, q.R[h] # Nobody
                   PROVE  q.L[h] >= l - 1 /\ q.B[h] = Block(v, q.L[h] + 1)
        BY DEF OnWay
      <4>1. h = f
        BY <3>8
      <4> QED BY <3>8, <3>9, <4>1
    <3>14. Standing(x, q, a, Rs, k, c, r, v, l - 1, rt)
      BY <3>1, <3>3, <3>6, <3>8, <3>9, <3>10, <3>12 DEF Standing
    <3> QED BY <3>11, <3>12, <3>13, <3>14
  <2> QED BY <2>4, <2>5
<1> QED BY <1>9, <1>10, <1>11

IsPath(d, m, root, v, rt) ==
  d = [l \in 0 .. Top |->
         IF l = Top THEN [m |-> m, at |-> root] ELSE next_table(d[l + 1], index(v, l + 1), rt)]

(* The descent's recursion is well defined. *)
LEMMA PathExists ==
  ASSUME NEW m, NEW root, NEW v, NEW rt
  PROVE  IsPath(Path(m, root, v, rt), m, root, v, rt)
<1> DEFINE d3 == [m |-> m, at |-> root]
           d2 == next_table(d3, index(v, 3), rt)
           d1 == next_table(d2, index(v, 2), rt)
           d0 == next_table(d1, index(v, 1), rt)
           d == [l \in 0 .. 3 |-> IF l = 3 THEN d3 ELSE IF l = 2 THEN d2 ELSE
                                   IF l = 1 THEN d1 ELSE d0]
<1>1. \A l \in 0 .. 3 : d[l] = IF l = 3 THEN d3 ELSE next_table(d[l + 1], index(v, l + 1), rt)
  <2> SUFFICES ASSUME NEW l \in 0 .. 3
               PROVE  d[l] = IF l = 3 THEN d3 ELSE next_table(d[l + 1], index(v, l + 1), rt)
    OBVIOUS
  <2>1. l \in {0, 1, 2, 3}
    OBVIOUS
  <2>2. d[3] = d3 /\ d[2] = d2 /\ d[1] = d1 /\ d[0] = d0
    OBVIOUS
  <2> HIDE DEF d, d3
  <2>3. 2 + 1 = 3 /\ 1 + 1 = 2 /\ 0 + 1 = 1
    OBVIOUS
  <2> QED BY <2>1, <2>2, <2>3
<1>2. IsPath(d, m, root, v, rt)
  <2> DEFINE e == [l \in 0 .. 3 |-> IF l = 3 THEN d3 ELSE next_table(d[l + 1], index(v, l + 1), rt)]
  <2>1. d = e
    <3>1. \A l \in 0 .. 3 : d[l] = e[l]
      BY <1>1
    <3>2. d = [l \in 0 .. 3 |-> d[l]]
      OBVIOUS
    <3>3. e = [l \in 0 .. 3 |-> e[l]]
      OBVIOUS
    <3> HIDE DEF d, e
    <3> QED BY <3>1, <3>2, <3>3
  <2>2. Top = 3
    BY DEF Top
  <2> HIDE DEF d
  <2> QED BY <2>1, <2>2 DEF IsPath
<1> HIDE DEF d
<1>3. Path(m, root, v, rt) = CHOOSE x : IsPath(x, m, root, v, rt)
  BY Zenon DEF Path, IsPath
<1> QED BY <1>2, <1>3

(* The four stages of a descent, one from the other. *)
LEMMA PathSteps ==
  ASSUME NEW m, NEW root, NEW v, NEW rt
  PROVE  /\ Path(m, root, v, rt)[3] = [m |-> m, at |-> root]
         /\ Path(m, root, v, rt)[2] = next_table(Path(m, root, v, rt)[3], index(v, 3), rt)
         /\ Path(m, root, v, rt)[1] = next_table(Path(m, root, v, rt)[2], index(v, 2), rt)
         /\ Path(m, root, v, rt)[0] = next_table(Path(m, root, v, rt)[1], index(v, 1), rt)
<1> DEFINE d == Path(m, root, v, rt)
<1>1. d = [l \in 0 .. 3 |-> IF l = 3 THEN [m |-> m, at |-> root]
                            ELSE next_table(d[l + 1], index(v, l + 1), rt)]
  <2>1. Top = 3
    BY DEF Top
  <2>2. IsPath(d, m, root, v, rt)
    BY PathExists
  <2> HIDE DEF d
  <2> QED BY <2>1, <2>2 DEF IsPath
<1> HIDE DEF d
<1>2. \A l \in 0 .. 3 : d[l] = IF l = 3 THEN [m |-> m, at |-> root]
                               ELSE next_table(d[l + 1], index(v, l + 1), rt)
  BY <1>1, Zenon
<1>3. 2 + 1 = 3 /\ 1 + 1 = 2 /\ 0 + 1 = 1 /\ 0 # 3 /\ 1 # 3 /\ 2 # 3
      /\ 0 \in 0 .. 3 /\ 1 \in 0 .. 3 /\ 2 \in 0 .. 3 /\ 3 \in 0 .. 3
  OBVIOUS
<1>4. d[3] = [m |-> m, at |-> root]
  BY <1>2, <1>3
<1>5. d[2] = next_table(d[3], index(v, 3), rt)
  BY <1>2, <1>3
<1>6. d[1] = next_table(d[2], index(v, 2), rt)
  BY <1>2, <1>3
<1>7. d[0] = next_table(d[1], index(v, 1), rt)
  BY <1>2, <1>3
<1> QED BY <1>4, <1>5, <1>6, <1>7 DEF d

(* Frames added on one stretch of the way and then on the next. *)
LEMMA OnWayOn ==
  ASSUME NEW m, NEW o, NEW x, NEW p, NEW y, NEW q, NEW r \in Frame, NEW v, NEW l \in 0 .. 3,
         NEW h \in 0 .. 3, l <= h, IsOwn(p),
         Grows(x, p, y, q, r), OnWay(o, p, v, h), OnWay(p, q, v, l)
  PROVE  OnWay(o, q, v, l)
<1> SUFFICES ASSUME NEW f \in Frame, o.R[f] = Nobody, q.R[f] # Nobody
             PROVE  q.L[f] >= l /\ q.B[f] = Block(v, q.L[f] + 1)
  BY DEF OnWay
<1>1. CASE p.R[f] = Nobody
  BY <1>1 DEF OnWay
<1>2. CASE p.R[f] # Nobody
  <2>1. p.L[f] >= h /\ p.B[f] = Block(v, p.L[f] + 1) /\ p.L[f] \in Int
    BY <1>2 DEF OnWay, IsOwn
  <2>2. q.L[f] = p.L[f] /\ q.B[f] = p.B[f]
    BY <1>2 DEF Grows, Moves, Keeps
  <2> QED BY <2>1, <2>2
<1> QED BY <1>1, <1>2

(* The descent stands at the table of a level, and took what it needed. *)
Come(m, o, w, q, a, Rs, k, c, r, v, l, rt) ==
  /\ Standing(w, q, a, Rs, k, c, r, v, l, rt) /\ Grows(m, o, w.m, q, r) /\ OnWay(o, q, v, l)

(* The descent comes to the table of each level, or fails on the way. *)
LEMMA PathComes ==
  ASSUME NEW m, NEW o, NEW a, NEW Rs, NEW k \in Rs, NEW c, Shape(m, o, a, Rs, k, c),
         NEW r, NEW v, MayMap(Rs, k, r, v), NEW rt \in RightsT, NEW level \in 0 .. 3
  PROVE  \E q : Come(m, o, Path(m, r, v, rt)[level], q, a, Rs, k, c, r, v, level, rt)
<1> DEFINE d == Path(m, r, v, rt)
<1>1. /\ d[3] = [m |-> m, at |-> r] /\ d[2] = next_table(d[3], index(v, 3), rt)
      /\ d[1] = next_table(d[2], index(v, 2), rt) /\ d[0] = next_table(d[1], index(v, 1), rt)
  BY PathSteps
<1> HIDE DEF d
<1>2. r \in Rs /\ r \in Frame /\ v \in Page /\ IsMem(m) /\ IsOwn(o) /\ RootsOwn(o, Rs)
      /\ Owners(o, Rs)
  BY DEF MayMap, Shape
<1>3. Come(m, o, d[3], o, a, Rs, k, c, r, v, 3, rt)
  <2>1. d[3].m = m /\ d[3].at = r
    BY <1>1
  <2>2. Block(v, 3 + 1) = 0
    BY <1>2, TopBlock
  <2>3. o.R[r] = r /\ o.L[r] = 3 /\ o.B[r] = 0 /\ r # Nobody
    BY <1>2 DEF RootsOwn, Frame, Nobody
  <2>4. PathOpen(m, o, r, v, 3, rt)
    <3> SUFFICES ASSUME NEW t \in Frame, o.R[t] = r, o.L[t] > 3 PROVE FALSE
      BY DEF PathOpen
    <3> QED BY <1>2, <2>3 DEF Owners
  <2>5. Standing(d[3], o, a, Rs, k, c, r, v, 3, rt)
    BY <1>1, <1>2, <2>1, <2>2, <2>3, <2>4 DEF Standing
  <2>6. Grows(m, o, m, o, r) /\ OnWay(o, o, v, 3)
    BY <1>2 DEF Grows, Moves, Keeps, OnWay
  <2> QED BY <2>1, <2>5, <2>6 DEF Come
<1>4. ASSUME NEW l \in 1 .. 3, NEW w, NEW p, Come(m, o, w, p, a, Rs, k, c, r, v, l, rt)
      PROVE  \E q : Come(m, o, next_table(w, index(v, l), rt), q, a, Rs, k, c, r, v, l - 1, rt)
  <2> DEFINE x == next_table(w, index(v, l), rt)
  <2>1. Standing(w, p, a, Rs, k, c, r, v, l, rt) /\ Grows(m, o, w.m, p, r) /\ OnWay(o, p, v, l)
    BY <1>4 DEF Come
  <2>2. PICK q : /\ Standing(x, q, a, Rs, k, c, r, v, l - 1, rt) /\ Grows(w.m, p, x.m, q, r)
                 /\ OnWay(p, q, v, l - 1)
    BY <2>1, NextTable
  <2> HIDE DEF x
  <2>3. IsMem(w.m) /\ IsMem(x.m) /\ IsOwn(p)
    BY <2>1, <2>2 DEF Standing, Shape
  <2>4. Grows(m, o, x.m, q, r)
    BY <1>2, <2>1, <2>2, <2>3, GrowsOn
  <2>5. OnWay(o, q, v, l - 1)
    <3>1. l \in 0 .. 3 /\ l - 1 \in 0 .. 3 /\ l - 1 <= l
      OBVIOUS
    <3> QED BY <1>2, <2>1, <2>2, <2>3, <3>1, OnWayOn
  <2>6. Come(m, o, x, q, a, Rs, k, c, r, v, l - 1, rt)
    BY <2>2, <2>4, <2>5 DEF Come
  <2> QED BY <2>6 DEF x
<1>5. \E q : Come(m, o, d[2], q, a, Rs, k, c, r, v, 2, rt)
  BY <1>1, <1>3, <1>4
<1>6. \E q : Come(m, o, d[1], q, a, Rs, k, c, r, v, 1, rt)
  BY <1>1, <1>4, <1>5
<1>7. \E q : Come(m, o, d[0], q, a, Rs, k, c, r, v, 0, rt)
  BY <1>1, <1>4, <1>6
<1>8. level \in {0, 1, 2, 3}
  OBVIOUS
<1>9. \E q : Come(m, o, d[level], q, a, Rs, k, c, r, v, level, rt)
  BY <1>3, <1>5, <1>6, <1>7, <1>8
<1> QED BY <1>9 DEF d

-----------------------------------------------------------------------------
(* A leaf is laid. *)

(* What the trees are asked for when r is given n pages from v to p on. *)
Filled(a, r, v, n, p, rt, device) ==
  [s \in Frame |-> IF s = r
     THEN [y \in Page |-> IF y \in v .. v + n - 1 THEN Mapping(p + (y - v), rt, device) ELSE a[r][y]]
     ELSE a[s]]

(* A large page is the kernel's, in the linear map. *)
LargeOK(r, k, v, l) == l > 0 => r = k /\ Block(v, 3) = KernelFirst

(* A program is given a page of its own, or the clock to read. *)
Giving(o, r, k, c, v, p, rt) ==
  r # k => \/ p \in Frame /\ o.R[p] = r /\ o.L[p] = -1 /\ o.B[p] = v
           \/ p = c /\ ~rt.write

(* No table hangs where a page of level l is to cover block b. *)
NoneBelow(o, r, l, b) ==
  \A f \in Frame : l >= 1 /\ o.R[f] = r /\ o.L[f] = l - 1 => o.B[f] # b

(* The fields of what a page is mapped to. *)
LEMMA MappingIs ==
  ASSUME NEW p, NEW rt, NEW d
  PROVE  /\ Mapping(p, rt, d).mapped /\ Mapping(p, rt, d).phys = p
         /\ Mapping(p, rt, d).rights = rt /\ Mapping(p, rt, d).device = d
BY DEF Mapping

(* The entries for other blocks are right for what the tree is asked now. *)
LEMMA OthersFilled ==
  ASSUME NEW m, NEW o, NEW a, NEW Rs, NEW k \in Rs, NEW c, Shape(m, o, a, Rs, k, c),
         NEW r, NEW v, MayMap(Rs, k, r, v), NEW rt \in RightsT, NEW level \in 0 .. 2, NEW p \in Nat,
         NEW device \in BOOLEAN, v % level_size(level) = 0,
         NEW t \in Frame, o.R[t] = r, o.L[t] = level, o.B[t] = Block(v, level + 1),
         PathOpen(m, o, r, v, level, rt), NoneBelow(o, r, level, Block(v, level))
  PROVE  OthersOK(m, o, Filled(a, r, v, level_size(level), p, rt, device)[r], Rs, k, c, r, t,
                  index(v, level))
<1> DEFINE S == level_size(level)
           z == Filled(a, r, v, S, p, rt, device)[r]
           i == index(v, level)
           b == Block(v, level)
<1>1. /\ IsMem(m) /\ IsOwn(o) /\ Rs \subseteq Frame /\ r \in Rs /\ r \in Frame /\ v \in Page
      /\ RootsOwn(o, Rs) /\ Owners(o, Rs) /\ Once(o) /\ Hung(m, o)
      /\ Entries(m, o, a, Rs, k, c) /\ Shared(m, Rs, k)
  BY DEF Shape, MayMap
<1>2. v \in Nat /\ i \in Slot /\ b \in Nat /\ b = Below(Block(v, level + 1), i)
      /\ Block(v, level + 1) \in Nat
  <2>1. v \in Nat /\ level \in 0 .. 3
    BY <1>1 DEF Page
  <2> QED BY <2>1, BlockUp
<1>3. \A y \in Page : (Block(y, level) = b => z[y] = Mapping(p + (y - v), rt, device))
                      /\ (Block(y, level) # b => z[y] = a[r][y])
  <2> SUFFICES ASSUME NEW y \in Page
               PROVE  (Block(y, level) = b => z[y] = Mapping(p + (y - v), rt, device))
                      /\ (Block(y, level) # b => z[y] = a[r][y])
    OBVIOUS
  <2>1. y \in Nat /\ level \in 0 .. 4
    BY DEF Page
  <2>2. Block(y, level) = b <=> y \in v .. v + S - 1
    BY <1>2, <2>1, InBlock
  <2>3. z[y] = IF y \in v .. v + S - 1 THEN Mapping(p + (y - v), rt, device) ELSE a[r][y]
    BY <1>1 DEF Filled
  <2> HIDE DEF z, S, b
  <2> QED BY <2>2, <2>3
<1> HIDE DEF z, i, b
<1> SUFFICES ASSUME NEW u \in Frame, NEW j \in Slot, o.R[u] = r, o.L[u] >= 0, u # t \/ j # i,
                    u \in Rs \ {k} => j < KernelFirst
             PROVE  EntryOK(m.table[u][j], r, o.L[u], Below(o.B[u], j), o, z, k, c)
  BY DEF OthersOK, z, i
<1> DEFINE h == o.L[u]
           g == Below(o.B[u], j)
           e == m.table[u][j]
<1>4. r # Nobody /\ h \in 0 .. 3 /\ o.B[u] \in Nat /\ EntryOK(e, r, h, g, o, a[r], k, c)
  <2>1. r # Nobody
    BY <1>1 DEF Frame, Nobody
  <2>2. h \in 0 .. 3 /\ o.B[u] \in Nat
    BY <1>1, <2>1 DEF Owners
  <2> QED BY <1>1, <2>1, <2>2 DEF Entries
<1>5. CASE \A y \in Page : Block(y, h) = g => Block(y, level) # b
  <2>1. \A y \in Page : Block(y, h) = g => z[y] = a[r][y]
    BY <1>3, <1>5
  <2> HIDE DEF h, g, e
  <2>2. AbsentOK(h, g, a[r]) => AbsentOK(h, g, z)
    BY <2>1 DEF AbsentOK
  <2>3. LeafOK(e, h, g, a[r]) => LeafOK(e, h, g, z)
    BY <2>1 DEF LeafOK
  <2>4. TableOK(e, r, h, g, o, a[r]) => TableOK(e, r, h, g, o, z)
    BY <2>1 DEF TableOK
  <2>5. EntryOK(e, r, h, g, o, z, k, c)
    BY <1>4, <2>2, <2>3, <2>4, Zenon DEF EntryOK
  <2> QED BY <2>5 DEF h, g, e
<1>6. ASSUME NEW y \in Page, Block(y, h) = g, Block(y, level) = b
      PROVE  EntryOK(e, r, h, g, o, z, k, c)
  <2>1. y \in Nat
    BY DEF Page
  <2>2. CASE h > level
    <3>1. Block(v, h) = g
      <4>1. level <= h /\ level \in 0 .. 4 /\ h \in 0 .. 4
        BY <1>4, <2>2
      <4>2. Block(v, level) = Block(y, level)
        BY <1>6 DEF b
      <4> HIDE DEF h
      <4>3. Block(v, h) = Block(y, h)
        BY <1>2, <2>1, <4>1, <4>2, Coarser
      <4> QED BY <1>6, <4>3
    <3>2. Block(v, h + 1) = o.B[u] /\ index(v, h) = j
      <4>1. h + 1 \in 1 .. 4 /\ (h + 1) - 1 = h
        BY <1>4
      <4>2. Block(v, (h + 1) - 1) = Below(o.B[u], j)
        BY <3>1, <4>1
      <4> HIDE DEF h
      <4>3. Block(v, h + 1) = o.B[u] /\ index(v, (h + 1) - 1) = j
        BY <1>2, <1>4, <4>1, <4>2, SubBlock
      <4> QED BY <4>1, <4>3
    <3>3. e.present /\ ~e.huge /\ (rt.user => e.user)
      BY <2>2, <3>2 DEF PathOpen
    <3>4. h # 0
      BY <2>2
    <3> HIDE DEF h, g, e
    <3>5. TableOK(e, r, h, g, o, a[r])
      BY <1>4, <3>3, <3>4 DEF EntryOK
    <3>6. ASSUME NEW x \in Page, Block(x, h) = g, z[x].rights.user PROVE e.user
      <4>1. CASE Block(x, level) = b
        <5>1. z[x] = Mapping(p + (x - v), rt, device)
          BY <1>3, <4>1
        <5>2. z[x].rights = rt
          BY <5>1, MappingIs
        <5> QED BY <3>3, <3>6, <5>2
      <4>2. CASE Block(x, level) # b
        BY <1>3, <3>5, <3>6, <4>2 DEF TableOK
      <4> QED BY <4>1, <4>2
    <3>7. TableOK(e, r, h, g, o, z)
      BY <3>5, <3>6 DEF TableOK
    <3> QED BY <3>3, <3>4, <3>7 DEF EntryOK
  <2>3. CASE h = level
    <3>1. g = b
      BY <1>6, <2>3
    <3>2. o.B[u] = o.B[t] /\ j = i
      <4>1. Below(o.B[u], j) = Below(o.B[t], i)
        BY <1>2, <3>1
      <4>2. o.B[t] \in Nat
        BY <1>2
      <4> QED BY <1>2, <1>4, <4>1, <4>2, SlotsOnce
    <3>3. u = t
      BY <1>1, <1>4, <2>3, <3>2 DEF Once
    <3> QED BY <3>2, <3>3
  <2>4. CASE h = level - 1
    <3>1. Block(y, level) = o.B[u]
      <4>1. level \in 1 .. 4 /\ Block(y, level - 1) = Below(o.B[u], j)
        BY <1>4, <1>6, <2>4
      <4> QED BY <1>4, <2>1, <4>1, SubBlock
    <3>2. o.B[u] = Block(v, level) /\ level >= 1
      BY <1>4, <1>6, <2>4, <3>1 DEF b
    <3> QED BY <2>4, <3>2 DEF NoneBelow
  <2>5. CASE h < level - 1
    <3>1. h = 0 /\ level = 2
      BY <1>4, <2>5
    <3>2. h \in 0 .. 2
      BY <3>1
    <3>3. PICK f \in Frame, s \in Slot :
            o.R[f] = r /\ o.L[f] = h + 1 /\ o.B[u] = Below(o.B[f], s)
      BY <1>1, <1>4, <3>2 DEF Hung
    <3>4. o.B[f] \in Nat /\ o.L[f] = 1
      BY <1>1, <1>4, <3>1, <3>3 DEF Owners
    <3>5. Block(y, 1) = o.B[u]
      <4>1. 1 \in 1 .. 4 /\ Block(y, 1 - 1) = Below(o.B[u], j)
        BY <1>6, <3>1
      <4> QED BY <1>4, <2>1, <4>1, SubBlock
    <3>6. Block(y, 2) = o.B[f]
      <4>1. 2 \in 1 .. 4 /\ Block(y, 2 - 1) = Below(o.B[f], s)
        BY <3>3, <3>5
      <4> QED BY <2>1, <3>4, <4>1, SubBlock
    <3>7. o.B[f] = Block(v, level)
      BY <1>6, <3>1, <3>6 DEF b
    <3> QED BY <3>1, <3>3, <3>4, <3>7 DEF NoneBelow
  <2> QED BY <1>4, <2>2, <2>3, <2>4, <2>5
<1> QED BY <1>5, <1>6

(* A leaf was laid at v, or the memory ran out or was in the way. *)
Laid(m, o, x, q, a, z, Rs, k, c, r, v, l) ==
  /\ Grows(m, o, x, q, r) /\ OnWay(o, q, v, l)
  /\ Failed(x) => Shape(x, q, a, Rs, k, c)
  /\ ~Failed(x) => Shape(x, q, z, Rs, k, c)

(* Laying a leaf gives the tree the pages it covers and changes no other page. *)
LEMMA MapLeaf ==
  ASSUME NEW m, NEW o, NEW a, NEW Rs, NEW k \in Rs, NEW c, Shape(m, o, a, Rs, k, c),
         NEW r, NEW v, MayMap(Rs, k, r, v), NEW rt \in RightsT, NEW level \in 0 .. 2, NEW p \in Nat,
         NEW device \in BOOLEAN, v % level_size(level) = 0, p % level_size(level) = 0,
         LargeOK(r, k, v, level), Giving(o, r, k, c, v, p, rt),
         NoneBelow(o, r, level, Block(v, level))
  PROVE  \E q : Laid(m, o, map_leaf(m, r, v, p, rt, device, level), q, a,
                     Filled(a, r, v, level_size(level), p, rt, device), Rs, k, c, r, v, level)
<1> DEFINE S == level_size(level)
           z == Filled(a, r, v, S, p, rt, device)
           i == index(v, level)
           b == Block(v, level)
           e == Leaf(p, rt, device, level)
           w == Path(m, r, v, rt)[level]
           x == map_leaf(m, r, v, p, rt, device, level)
<1>1. PICK q : Come(m, o, w, q, a, Rs, k, c, r, v, level, rt)
  <2>1. level \in 0 .. 3
    OBVIOUS
  <2> QED BY <2>1, PathComes
<1>2. x = PutLeaf(w, i, e)
  BY DEF map_leaf
<1> HIDE DEF x, w, e
<1>3. PICK n, t : n = w.m /\ t = w.at
  OBVIOUS
<1>4. /\ Shape(n, q, a, Rs, k, c) /\ Grows(m, o, n, q, r) /\ OnWay(o, q, v, level)
      /\ ~Failed(n) =>
           /\ t \in Frame /\ q.R[t] = r /\ q.L[t] = level /\ q.B[t] = Block(v, level + 1)
           /\ PathOpen(n, q, r, v, level, rt)
  BY <1>1, <1>3 DEF Come, Standing
<1>5. CASE Failed(n)
  <2>1. x = n
    BY <1>2, <1>3, <1>5 DEF PutLeaf
  <2> QED BY <1>4, <1>5, <2>1 DEF Laid, x
<1>6. CASE ~Failed(n)
  <2>1. x = Write(n, t, i, e)
    BY <1>2, <1>3, <1>6 DEF PutLeaf
  <2>2. /\ IsMem(n) /\ IsMem(m) /\ IsOwn(q) /\ IsOwn(o) /\ Rs \subseteq Frame /\ r \in Rs
        /\ r \in Frame /\ v \in Page /\ v \in Nat
    BY <1>4 DEF Shape, MayMap, Page
  <2>3. i \in Slot /\ b \in Nat /\ b = Below(Block(v, level + 1), i)
    <3>1. level \in 0 .. 3
      OBVIOUS
    <3> QED BY <2>2, <3>1, BlockUp
  <2>4. e \in EntryT /\ e.present /\ e.to = p /\ RightsOf(e) = rt /\ e.device = device
        /\ (e.huge <=> level > 0) /\ e.write = rt.write
    <3>1. level \in 0 .. 3
      OBVIOUS
    <3>2. e \in EntryT
      BY <3>1, EntriesTyped DEF e
    <3>3. rt = [write |-> rt.write, exec |-> rt.exec, user |-> rt.user]
      BY DEF RightsT
    <3>4. e.write = rt.write /\ e.exec = rt.exec /\ e.user = rt.user
      BY DEF e, Leaf
    <3>5. RightsOf(e) = rt
      BY <3>3, <3>4, Zenon DEF RightsOf
    <3>6. e.present /\ e.to = p /\ e.device = device /\ e.huge = (level > 0)
      BY DEF e, Leaf
    <3> QED BY <3>2, <3>4, <3>5, <3>6
  <2>5. /\ IsMem(x) /\ x.err = n.err /\ x.pool = n.pool /\ x.inUse = n.inUse
        /\ x.asked = n.asked /\ x.bytes = n.bytes /\ x.table = [n.table EXCEPT ![t][i] = e]
    BY <1>4, <1>6, <2>1, <2>2, <2>3, <2>4, WriteIs
  <2>6. ~Failed(x)
    BY <1>6, <2>5 DEF Failed
  <2>7. Grows(m, o, x, q, r)
    BY <1>4, <2>2, <2>5 DEF Grows, Moves, Ledger
  <2>8. NoneBelow(q, r, level, b)
    <3> SUFFICES ASSUME NEW f \in Frame, level >= 1, q.R[f] = r, q.L[f] = level - 1, q.B[f] = b
                 PROVE  FALSE
      BY DEF NoneBelow
    <3>1. CASE o.R[f] = Nobody
      <4>1. r # Nobody
        BY <2>2 DEF Frame, Nobody
      <4> QED BY <1>4, <3>1, <4>1 DEF OnWay
    <3>2. CASE o.R[f] # Nobody
      <4>1. o.R[f] = r /\ o.L[f] = level - 1 /\ o.B[f] = b
        BY <1>4, <3>2 DEF Grows, Moves, Keeps
      <4> QED BY <4>1 DEF NoneBelow
    <3> QED BY <3>1, <3>2
  <2>9. OthersOK(n, q, z[r], Rs, k, c, r, t, i)
    BY <1>4, <1>6, <2>8, OthersFilled
  <2>10. EntryOK(e, r, level, b, q, z[r], k, c)
    <3>1. LeafOK(e, level, b, z[r])
      <4>1. ASSUME NEW y \in Page, Block(y, level) = b
            PROVE  z[r][y] = Mapping(e.to + (y % S), RightsOf(e), e.device)
        <5>1. y \in Nat /\ level \in 0 .. 4
          BY DEF Page
        <5>2. y \in v .. v + S - 1 /\ y % S = y - v
          BY <2>2, <4>1, <5>1, InBlock
        <5>3. z[r][y] = Mapping(p + (y - v), rt, device)
          BY <2>2, <5>2 DEF Filled
        <5> HIDE DEF z, S
        <5> QED BY <2>4, <5>2, <5>3
      <4>2. ASSUME level > 0, NEW y \in Page, Block(y, level) = b PROVE Block(y, 3) = KernelFirst
        <5>1. y \in Nat /\ level \in 0 .. 4 /\ 3 \in 0 .. 4 /\ level <= 3
          BY DEF Page
        <5>2. Block(y, 3) = Block(v, 3)
          BY <2>2, <4>2, <5>1, Coarser
        <5> QED BY <4>2, <5>2 DEF LargeOK
      <4> QED BY <2>4, <4>1, <4>2 DEF LeafOK
    <3>2. level = 0 /\ r # k => Private(e, r, b, q, c)
      <4> SUFFICES ASSUME level = 0, r # k PROVE Private(e, r, b, q, c)
        OBVIOUS
      <4>1. b = v
        BY <2>2, Sizes DEF Block
      <4>2. r # Nobody
        BY <2>2 DEF Frame, Nobody
      <4>3. CASE p \in Frame /\ o.R[p] = r /\ o.L[p] = -1 /\ o.B[p] = v
        BY <1>4, <2>4, <4>1, <4>2, <4>3 DEF Private, Grows, Moves, Keeps
      <4>4. CASE p = c /\ ~rt.write
        BY <2>4, <4>4 DEF Private
      <4> QED BY <4>3, <4>4 DEF Giving
    <3> HIDE DEF z, b
    <3> QED BY <2>4, <3>1, <3>2 DEF EntryOK
  <2>11. ChildKept(q, r, level, Below(q.B[t], i), e)
    <3>1. Below(q.B[t], i) = b
      BY <1>4, <1>6, <2>3
    <3> QED BY <2>8, <3>1 DEF ChildKept, NoneBelow
  <2>12. SameElsewhere(a, z, Rs, r)
    BY <2>2 DEF SameElsewhere, Filled
  <2>13. EntryOK(e, r, level, Below(q.B[t], i), q, z[r], k, c)
    BY <1>4, <1>6, <2>3, <2>10
  <2>14. MayWrite(t, i, Rs, k)
    <3>1. level \in 0 .. 3
      OBVIOUS
    <3> QED BY <1>4, <1>6, <3>1, WayWritable
  <2>15. Shape(x, q, z, Rs, k, c)
    <3>1. level \in 0 .. 3 /\ t \in Frame /\ q.R[t] = r /\ q.L[t] = level
      BY <1>4, <1>6
    <3> HIDE DEF z, i
    <3> QED BY <1>4, <2>2, <2>3, <2>4, <2>5, <2>9, <2>11, <2>12, <2>13, <2>14, <3>1, WriteEntry
  <2> QED BY <1>4, <2>6, <2>7, <2>15 DEF Laid, x
<1> QED BY <1>5, <1>6

-----------------------------------------------------------------------------
(* The loop that maps a range. *)

IsLoop(d, j, m, root, v, p, n, rt, device, g) ==
  d = [i \in 0 .. j |-> IF i = 0 THEN [m |-> m, at |-> 0]
                        ELSE map_next(d[i - 1], root, v, p, n, rt, device, g)]

(* The rounds of the loop, and what it leaves. *)
Looped(d, m, root, v, p, n, rt, device, g) ==
  /\ d[0] = [m |-> m, at |-> 0]
  /\ \A i \in 0 .. n : i # 0 => d[i] = map_next(d[i - 1], root, v, p, n, rt, device, g)
  /\ map_as(m, root, v, p, n, rt, device, g) = d[n].m

(* The loop's recursion is well defined. *)
LEMMA Rounds ==
  ASSUME NEW m, NEW root, NEW v, NEW p, NEW n \in Nat, NEW rt, NEW device \in BOOLEAN, NEW g \in BOOLEAN
  PROVE  \E d : Looped(d, m, root, v, p, n, rt, device, g)
<1> DEFINE F(y) == map_next(y, root, v, p, n, rt, device, g)
           Is(d, j) == IsLoop(d, j, m, root, v, p, n, rt, device, g)
           T == {j \in 0 .. n : \E d : Is(d, j)}
<1>1. 0 \in T
  <2> DEFINE d == [i \in 0 .. 0 |-> [m |-> m, at |-> 0]]
             e == [i \in 0 .. 0 |-> IF i = 0 THEN [m |-> m, at |-> 0] ELSE F(d[i - 1])]
  <2>1. \A i \in 0 .. 0 : i = 0
    OBVIOUS
  <2> HIDE DEF F
  <2>2. d = e
    BY <2>1, Zenon
  <2>3. Is(d, 0)
    BY <2>2, Zenon DEF IsLoop, F
  <2> QED BY <2>3
<1>2. ASSUME NEW j \in 0 .. n, j # n, j \in T PROVE j + 1 \in T
  <2>1. PICK d : Is(d, j)
    BY <1>2
  <2> HIDE DEF F
  <2> DEFINE e == [i \in 0 .. j + 1 |-> IF i = j + 1 THEN F(d[j]) ELSE d[i]]
             h == [i \in 0 .. j + 1 |-> IF i = 0 THEN [m |-> m, at |-> 0] ELSE F(e[i - 1])]
  <2>2. \A i \in 0 .. j : d[i] = IF i = 0 THEN [m |-> m, at |-> 0] ELSE F(d[i - 1])
    BY <2>1, Zenon DEF IsLoop, F
  <2>3. ASSUME NEW i \in 0 .. j + 1 PROVE e[i] = h[i]
    <3>1. CASE i = j + 1
      <4>1. i - 1 = j /\ i # 0 /\ j \in 0 .. j + 1 /\ j # j + 1
        BY <3>1
      <4>2. e[j] = d[j]
        BY <4>1
      <4> QED BY <3>1, <4>1, <4>2
    <3>2. CASE i # j + 1 /\ i # 0
      <4>1. i \in 0 .. j /\ i - 1 \in 0 .. j + 1 /\ i - 1 # j + 1
        BY <3>2
      <4>2. e[i] = d[i] /\ e[i - 1] = d[i - 1]
        BY <3>2, <4>1
      <4> QED BY <2>2, <3>2, <4>1, <4>2
    <3>3. CASE i = 0
      BY <2>2, <3>3
    <3> QED BY <3>1, <3>2, <3>3
  <2>4. e = h
    <3>1. e = [i \in 0 .. j + 1 |-> e[i]] /\ h = [i \in 0 .. j + 1 |-> h[i]]
      OBVIOUS
    <3> HIDE DEF e, h
    <3> QED BY <2>3, <3>1
  <2>5. Is(e, j + 1)
    BY <2>4, Zenon DEF IsLoop, F
  <2> HIDE DEF e
  <2> QED BY <1>2, <2>5
<1>3. n \in T
  <2>1. n \in 0 .. n
    OBVIOUS
  <2> HIDE DEF T
  <2>2. \A j \in 0 .. n : j \in T
    BY <1>1, <1>2, UpToBound
  <2> QED BY <2>1, <2>2
<1> DEFINE d == CHOOSE x : Is(x, n)
<1>4. map_as(m, root, v, p, n, rt, device, g) = d[n].m
  BY Zenon DEF map_as, IsLoop
<1>5. Is(d, n)
  BY <1>3
<1> HIDE DEF d
<1>6. \A i \in 0 .. n : d[i] = IF i = 0 THEN [m |-> m, at |-> 0] ELSE F(d[i - 1])
  <2> HIDE DEF F
  <2> QED BY <1>5, Zenon DEF IsLoop, F
<1>7. 0 \in 0 .. n
  OBVIOUS
<1> HIDE DEF F
<1>8. /\ d[0] = [m |-> m, at |-> 0]
      /\ \A i \in 0 .. n : i # 0 => d[i] = F(d[i - 1])
  BY <1>6, <1>7, Zenon
<1> QED BY <1>4, <1>8 DEF F, Looped

(* A single page is a page of the lowest level. *)
LEMMA MapOne ==
  ASSUME NEW m, ~Failed(m), NEW root, NEW v \in Nat, NEW p \in Nat, NEW rt,
         NEW device \in BOOLEAN, NEW g \in BOOLEAN
  PROVE  map_as(m, root, v, p, 1, rt, device, g) = map_leaf(m, root, v, p, rt, device, 0)
<1>0. PICK n \in Nat : n = 1
  OBVIOUS
<1>1. PICK d : Looped(d, m, root, v, p, n, rt, device, g)
  BY Rounds
<1>2. d[1] = map_next([m |-> m, at |-> 0], root, v, p, 1, rt, device, g)
  <2>1. 1 \in 0 .. n /\ 1 # 0 /\ 1 - 1 = 0
    BY <1>0
  <2> QED BY <1>0, <1>1, <2>1 DEF Looped
<1>3. level_size(1) > 1 /\ level_size(2) > 1
  <2>1. level_size(0 + 1) = level_size(0) * Fan /\ level_size(1 + 1) = level_size(1) * Fan
        /\ level_size(0) = 1
    BY Sizes
  <2>2. level_size(1) = Fan
    BY <2>1, Numbers
  <2>3. level_size(2) = Fan * Fan /\ Fan >= 4 /\ Fan \in Nat
    BY <2>1, <2>2, Numbers
  <2>4. Fan * Fan > 1
    BY <2>3
  <2> QED BY <2>2, <2>3, <2>4
<1>4. LevelFor(v + 0, p + 0, 1 - 0, g) = 0
  <2>1. level_size(1) \in Nat /\ level_size(2) \in Nat
    BY SizeNat
  <2>2. ~(1 - 0 >= level_size(1)) /\ ~(1 - 0 >= level_size(2))
    BY <1>3, <2>1
  <2> QED BY <2>2, Zenon DEF LevelFor, fits
<1>5. v + 0 = v /\ p + 0 = p /\ ~(0 >= 1)
  OBVIOUS
<1>6. d[1].m = map_leaf(m, root, v + 0, p + 0, rt, device, LevelFor(v + 0, p + 0, 1 - 0, g))
  <2>1. [m |-> m, at |-> 0].m = m /\ [m |-> m, at |-> 0].at = 0
    OBVIOUS
  <2> QED BY <1>2, <1>5, <2>1 DEF map_next
<1> QED BY <1>0, <1>1, <1>4, <1>5, <1>6 DEF Looped

(* The trees are asked for the same. *)
SameAsked(a, z, Rs) == \A r \in Rs : \A y \in Page : z[r][y] = a[r][y]

(* The shape depends only on what the trees are asked for. *)
LEMMA ShapeSame ==
  ASSUME NEW m, NEW o, NEW a, NEW z, NEW Rs, NEW k, NEW c, Shape(m, o, a, Rs, k, c),
         SameAsked(a, z, Rs)
  PROVE  Shape(m, o, z, Rs, k, c)
<1>1. Owners(o, Rs) /\ Entries(m, o, a, Rs, k, c)
  BY DEF Shape
<1>2. Entries(m, o, z, Rs, k, c)
  <2> SUFFICES ASSUME NEW t \in Frame, NEW i \in Slot, o.R[t] # Nobody, o.L[t] >= 0,
                      t \in Rs \ {k} => i < KernelFirst
               PROVE  EntryOK(m.table[t][i], o.R[t], o.L[t], Below(o.B[t], i), o, z[o.R[t]], k, c)
    BY DEF Entries
  <2> DEFINE e == m.table[t][i]
             r == o.R[t]
             l == o.L[t]
             b == Below(o.B[t], i)
  <2>1. EntryOK(e, r, l, b, o, a[r], k, c)
    BY <1>1 DEF Entries
  <2>2. \A y \in Page : z[r][y] = a[r][y]
    BY <1>1 DEF Owners, SameAsked
  <2> HIDE DEF e, r, l, b
  <2>3. AbsentOK(l, b, a[r]) => AbsentOK(l, b, z[r])
    BY <2>2 DEF AbsentOK
  <2>4. LeafOK(e, l, b, a[r]) => LeafOK(e, l, b, z[r])
    BY <2>2 DEF LeafOK
  <2>5. TableOK(e, r, l, b, o, a[r]) => TableOK(e, r, l, b, o, z[r])
    BY <2>2 DEF TableOK
  <2>6. EntryOK(e, r, l, b, o, z[r], k, c)
    BY <2>1, <2>3, <2>4, <2>5, Zenon DEF EntryOK
  <2> QED BY <2>6 DEF e, r, l, b
<1> QED BY <1>2 DEF Shape

-----------------------------------------------------------------------------
(* A range of the linear map, which has large pages. *)

(* The tables of tree r below level h in the linear map start before x. *)
Frontier(o, r, x, h) ==
  \A f \in Frame : \A y \in Page :
    /\ o.R[f] = r /\ o.L[f] >= 0 /\ o.L[f] < h /\ o.B[f] = Block(y, o.L[f] + 1)
    /\ Block(y, 3) = KernelFirst /\ y % level_size(o.L[f] + 1) = 0
    => y < x

(* Past the frontier no table is in the way of a large page. *)
LEMMA NothingBelow ==
  ASSUME NEW o, NEW r, NEW x \in Nat, NEW h \in 0 .. 2, Frontier(o, r, x, h), NEW v \in Page, x <= v,
         NEW l \in 0 .. 2, l <= h, v % level_size(l) = 0, Block(v, 3) = KernelFirst
  PROVE  NoneBelow(o, r, l, Block(v, l))
<1> SUFFICES ASSUME NEW f \in Frame, l >= 1, o.R[f] = r, o.L[f] = l - 1, o.B[f] = Block(v, l)
             PROVE  FALSE
  BY DEF NoneBelow
<1>1. o.L[f] >= 0 /\ o.L[f] < h /\ o.L[f] + 1 = l
  OBVIOUS
<1>2. v < x
  BY <1>1 DEF Frontier
<1> QED BY <1>2 DEF Page

(* What is mapped at v leaves no table that starts past it. *)
LEMMA FrontierOn ==
  ASSUME NEW m, NEW o, NEW n, NEW q, NEW r \in Frame, IsOwn(o), IsOwn(q), Moves(m, o, n, q, r),
         NEW x \in Nat, NEW h \in 0 .. 2, Frontier(o, r, x, h),
         NEW v \in Page, NEW l \in 0 .. 2, OnWay(o, q, v, l)
  PROVE  /\ \A z \in Nat : x <= z /\ v < z => Frontier(q, r, z, h)
         /\ l >= h => Frontier(q, r, x, h)
         /\ Block(v, 3) # KernelFirst => Frontier(q, r, x, h)
<1>1. ASSUME NEW f \in Frame, NEW y \in Page, o.R[f] # Nobody,
             q.R[f] = r, q.L[f] >= 0, q.L[f] < h, q.B[f] = Block(y, q.L[f] + 1),
             Block(y, 3) = KernelFirst, y % level_size(q.L[f] + 1) = 0
      PROVE  y < x
  <2>1. o.R[f] = q.R[f] /\ o.L[f] = q.L[f] /\ o.B[f] = q.B[f]
    BY <1>1 DEF Moves, Keeps
  <2> QED BY <1>1, <2>1 DEF Frontier
<1>2. ASSUME NEW f \in Frame, NEW y \in Page, o.R[f] = Nobody,
             q.R[f] = r, q.L[f] >= 0, q.L[f] < h, q.B[f] = Block(y, q.L[f] + 1),
             Block(y, 3) = KernelFirst, y % level_size(q.L[f] + 1) = 0
      PROVE  y <= v /\ q.L[f] >= l /\ Block(v, 3) = KernelFirst
  <2>1. r # Nobody /\ y \in Nat /\ v \in Nat
    BY DEF Frame, Nobody, Page
  <2>2. PICK j : j = q.L[f] + 1
    OBVIOUS
  <2>3. q.L[f] >= l /\ Block(y, j) = Block(v, j) /\ j \in 1 .. 2
    BY <1>2, <2>1, <2>2 DEF OnWay, IsOwn
  <2>4. y <= v
    <3>1. v \in y .. y + level_size(j) - 1
      BY <1>2, <2>1, <2>2, <2>3, InBlock
    <3>2. level_size(j) \in Nat
      BY <2>3, SizeNat
    <3> QED BY <2>1, <3>1, <3>2
  <2>5. Block(v, 3) = Block(y, 3)
    <3>1. j \in 0 .. 4 /\ 3 \in 0 .. 4 /\ j <= 3
      BY <2>3
    <3> QED BY <2>1, <2>3, <3>1, Coarser
  <2> QED BY <1>2, <2>3, <2>4, <2>5
<1>3. \A y \in Page : y \in Nat
  BY DEF Page
<1>4. ASSUME NEW z \in Nat, x <= z, v < z PROVE Frontier(q, r, z, h)
  <2> SUFFICES ASSUME NEW f \in Frame, NEW y \in Page,
                      q.R[f] = r, q.L[f] >= 0, q.L[f] < h, q.B[f] = Block(y, q.L[f] + 1),
                      Block(y, 3) = KernelFirst, y % level_size(q.L[f] + 1) = 0
               PROVE  y < z
    BY DEF Frontier
  <2>1. CASE o.R[f] # Nobody
    <3>1. y < x
      BY <1>1, <2>1
    <3> QED BY <1>3, <1>4, <3>1
  <2>2. CASE o.R[f] = Nobody
    <3>1. y <= v
      BY <1>2, <2>2
    <3> QED BY <1>3, <1>4, <3>1
  <2> QED BY <2>1, <2>2
<1>5. ASSUME l >= h \/ Block(v, 3) # KernelFirst PROVE Frontier(q, r, x, h)
  <2> SUFFICES ASSUME NEW f \in Frame, NEW y \in Page,
                      q.R[f] = r, q.L[f] >= 0, q.L[f] < h, q.B[f] = Block(y, q.L[f] + 1),
                      Block(y, 3) = KernelFirst, y % level_size(q.L[f] + 1) = 0
               PROVE  y < x
    BY DEF Frontier
  <2>1. CASE o.R[f] # Nobody
    BY <1>1, <2>1
  <2>2. CASE o.R[f] = Nobody
    <3>1. q.L[f] >= l /\ Block(v, 3) = KernelFirst /\ q.L[f] \in Int
      BY <1>2, <2>2 DEF IsOwn
    <3> QED BY <1>5, <3>1
  <2> QED BY <2>1, <2>2
<1> QED BY <1>4, <1>5

(* The page that covers v is aligned, and fits in what is left. *)
LEMMA LevelFits ==
  ASSUME NEW v \in Nat, NEW p \in Nat, NEW left \in Nat \ {0}, NEW g \in BOOLEAN
  PROVE  LET l == LevelFor(v, p, left, g)
             h == IF g THEN 2 ELSE 1
         IN  /\ l \in 0 .. 2 /\ l <= h /\ fits(v, p, left, level_size(l))
             /\ fits(v, p, left, level_size(h)) => l = h
<1> DEFINE l == LevelFor(v, p, left, g)
<1>1. fits(v, p, left, level_size(0))
  <2>1. v % 1 = 0 /\ p % 1 = 0 /\ left >= 1
    OBVIOUS
  <2> QED BY <2>1, Sizes DEF fits
<1>2. CASE g /\ fits(v, p, left, level_size(2))
  BY <1>2 DEF LevelFor
<1>3. CASE ~(g /\ fits(v, p, left, level_size(2))) /\ fits(v, p, left, level_size(1))
  <2>1. l = 1
    BY <1>3 DEF LevelFor
  <2> QED BY <1>3, <2>1
<1>4. CASE ~(g /\ fits(v, p, left, level_size(2))) /\ ~fits(v, p, left, level_size(1))
  <2>1. l = 0
    BY <1>4 DEF LevelFor
  <2> QED BY <1>1, <1>4, <2>1
<1> QED BY <1>2, <1>3, <1>4

(* A range whose ends are those of large pages of size S. *)
Even(v, p, n, S) == v % S = 0 /\ p % S = 0 /\ n % S = 0
InLinear(v, n) == \A y \in v .. v + n - 1 : y \in Page /\ Block(y, 3) = KernelFirst

Ranged(m, o, y, q, z, Rs, k, c, x, h) ==
  Grows(m, o, y, q, k) /\ Shape(y, q, z, Rs, k, c) /\ Frontier(q, k, x, h)

(* After i rounds, e.at of the n pages are mapped. *)
RoundOK(e, i, m, o, a, Rs, k, c, v, p, n, rt, device, x, h) ==
  \/ Failed(e.m)
  \/ /\ e = [m |-> e.m, at |-> e.at] /\ e.at \in 0 .. n /\ (e.at >= i \/ e.at = n)
     /\ Even(v, p, n, level_size(h)) => e.at % level_size(h) = 0
     /\ \E q : Ranged(m, o, e.m, q, Filled(a, k, v, e.at, p, rt, device), Rs, k, c,
                      IF Even(v, p, n, level_size(h)) THEN x ELSE v + e.at, h)

(* What whole large pages leave to do is whole large pages. *)
LEMMA EvenRest ==
  ASSUME NEW v \in Nat, NEW p \in Nat, NEW n \in Nat, NEW S \in Nat \ {0}, NEW j \in 0 .. n, j # n,
         Even(v, p, n, S), j % S = 0
  PROVE  fits(v + j, p + j, n - j, S) /\ (j + S) % S = 0
<1>1. PICK a \in Nat, b \in Nat, d \in Nat, e \in Nat :
        v = a * S /\ p = b * S /\ n = d * S /\ j = e * S
  <2>1. \A y \in Nat : y % S = 0 => y = (y \div S) * S /\ y \div S \in Nat
    <3> SUFFICES ASSUME NEW y \in Nat, y % S = 0 PROVE y = (y \div S) * S /\ y \div S \in Nat
      OBVIOUS
    <3>1. y \div S \in Nat /\ y = (y \div S) * S + (y % S)
      BY Quotient
    <3>2. (y \div S) * S \in Nat
      BY <3>1
    <3> QED BY <3>1, <3>2
  <2>2. v \div S \in Nat /\ p \div S \in Nat /\ n \div S \in Nat /\ j \div S \in Nat
        /\ v = (v \div S) * S /\ p = (p \div S) * S /\ n = (n \div S) * S /\ j = (j \div S) * S
    BY <2>1 DEF Even
  <2> QED BY <2>2
<1>2. \A y \in Nat : (y * S) % S = 0
  <2> SUFFICES ASSUME NEW y \in Nat PROVE (y * S) % S = 0
    OBVIOUS
  <2>1. 0 \in 0 .. S - 1
    OBVIOUS
  <2>2. (y * S + 0) % S = 0
    BY <2>1, QuotientOf
  <2>3. y * S + 0 = y * S
    OBVIOUS
  <2> QED BY <2>2, <2>3
<1>3. v + j = (a + e) * S /\ p + j = (b + e) * S /\ j + S = (e + 1) * S
  BY <1>1
<1>4. (v + j) % S = 0 /\ (p + j) % S = 0 /\ (j + S) % S = 0
  <2>1. a + e \in Nat /\ b + e \in Nat /\ e + 1 \in Nat
    OBVIOUS
  <2> QED BY <1>2, <1>3, <2>1
<1>5. n - j >= S
  <2>1. e < d
    BY <1>1, Multiples
  <2>2. (e + 1) * S <= d * S
    BY <2>1, Multiples
  <2> QED BY <1>1, <1>3, <2>2
<1> QED BY <1>4, <1>5 DEF fits

(* Two stretches of a range, one after the other. *)
LEMMA FilledOn ==
  ASSUME NEW a, NEW k \in Frame, NEW v \in Nat, NEW j \in Nat, NEW s \in Nat, NEW p \in Nat,
         NEW rt, NEW device, NEW Rs, Rs = {k}
  PROVE  SameAsked(Filled(Filled(a, k, v, j, p, rt, device), k, v + j, s, p + j, rt, device),
                   Filled(a, k, v, j + s, p, rt, device), Rs)
<1> SUFFICES ASSUME NEW y \in Page
             PROVE  Filled(a, k, v, j + s, p, rt, device)[k][y]
                    = Filled(Filled(a, k, v, j, p, rt, device), k, v + j, s, p + j, rt, device)[k][y]
  BY DEF SameAsked
<1> DEFINE u == Filled(a, k, v, j, p, rt, device)
           w == Filled(u, k, v + j, s, p + j, rt, device)
           z == Filled(a, k, v, j + s, p, rt, device)
<1>1. y \in Nat
  BY DEF Page
<1>2. u[k][y] = IF y \in v .. v + j - 1 THEN Mapping(p + (y - v), rt, device) ELSE a[k][y]
  BY DEF Filled
<1>3. z[k][y] = IF y \in v .. v + (j + s) - 1 THEN Mapping(p + (y - v), rt, device) ELSE a[k][y]
  BY DEF Filled
<1> HIDE DEF u
<1>4. w[k][y] = IF y \in v + j .. (v + j) + s - 1
                THEN Mapping((p + j) + (y - (v + j)), rt, device) ELSE u[k][y]
  BY DEF Filled
<1> HIDE DEF w, z
<1>5. (p + j) + (y - (v + j)) = p + (y - v)
  BY <1>1
<1>6. CASE y \in v + j .. (v + j) + s - 1
  <2>1. y \in v .. v + (j + s) - 1
    BY <1>1, <1>6
  <2> QED BY <1>3, <1>4, <1>5, <1>6, <2>1 DEF w, z, u
<1>7. CASE y \notin v + j .. (v + j) + s - 1
  <2>1. y \in v .. v + (j + s) - 1 <=> y \in v .. v + j - 1
    BY <1>1, <1>7
  <2> QED BY <1>2, <1>3, <1>4, <1>7, <2>1 DEF w, z, u
<1> QED BY <1>6, <1>7

(* A round of the loop. *)
LEMMA RangeRound ==
  ASSUME NEW m, NEW o, NEW a, NEW Rs, NEW k, Rs = {k}, NEW c, Shape(m, o, a, Rs, k, c),
         NEW v \in Nat, NEW p \in Nat, NEW n \in Nat, InLinear(v, n),
         NEW rt \in RightsT, NEW device \in BOOLEAN, NEW g \in BOOLEAN,
         NEW x \in Nat, x <= v, NEW h, h = (IF g THEN 2 ELSE 1),
         NEW e, NEW i \in 0 .. n, i # n, RoundOK(e, i, m, o, a, Rs, k, c, v, p, n, rt, device, x, h)
  PROVE  RoundOK(map_next(e, k, v, p, n, rt, device, g), i + 1, m, o, a, Rs, k, c, v, p, n, rt,
                 device, x, h)
<1> DEFINE y == map_next(e, k, v, p, n, rt, device, g)
           S == level_size(h)
           ev == Even(v, p, n, S)
<1>1. CASE Failed(e.m)
  <2>1. y = e
    BY <1>1 DEF map_next
  <2> QED BY <1>1, <2>1 DEF RoundOK
<1>2. CASE ~Failed(e.m)
  <2>1. PICK j, w : j = e.at /\ w = e.m
    OBVIOUS
  <2>2. /\ e = [m |-> w, at |-> j] /\ j \in 0 .. n /\ (j >= i \/ j = n) /\ (ev => j % S = 0)
        /\ \E q : Ranged(m, o, w, q, Filled(a, k, v, j, p, rt, device), Rs, k, c,
                         IF ev THEN x ELSE v + j, h)
    BY <1>2, <2>1 DEF RoundOK
  <2>3. CASE j = n
    <3>1. y = e
      BY <2>1, <2>3 DEF map_next
    <3> QED BY <1>2, <2>1, <2>2, <2>3, <3>1 DEF RoundOK
  <2>4. CASE j # n
    <3> DEFINE l == LevelFor(v + j, p + j, n - j, g)
               s == level_size(l)
               u == map_leaf(w, k, v + j, p + j, rt, device, l)
               b == Filled(a, k, v, j, p, rt, device)
               X == IF ev THEN x ELSE v + j
    <3>1. y = [m |-> u, at |-> j + s]
      <4>1. ~(j >= n)
        BY <2>2, <2>4
      <4> QED BY <1>2, <2>1, <4>1 DEF map_next
    <3>2. v + j \in Nat /\ p + j \in Nat /\ n - j \in Nat \ {0} /\ h \in 0 .. 2
      BY <2>2, <2>4
    <3>3. l \in 0 .. 2 /\ l <= h /\ fits(v + j, p + j, n - j, s) /\ (fits(v + j, p + j, n - j, S) => l = h)
      BY <3>2, LevelFits
    <3>4. s \in Nat \ {0} /\ S \in Nat \ {0}
      BY <3>2, <3>3, SizeNat
    <3>5. ev => l = h /\ (j + S) % S = 0
      <4> SUFFICES ASSUME ev PROVE l = h /\ (j + S) % S = 0
        OBVIOUS
      <4> HIDE DEF l, s, S
      <4>1. fits(v + j, p + j, n - j, S) /\ (j + S) % S = 0
        BY <2>2, <2>4, <3>4, EvenRest
      <4> QED BY <3>3, <4>1
    <3> HIDE DEF l, s, u, b, ev, S
    <3>6. PICK q : Ranged(m, o, w, q, b, Rs, k, c, X, h)
      BY <2>2 DEF b
    <3>7. /\ Grows(m, o, w, q, k) /\ Shape(w, q, b, Rs, k, c) /\ Frontier(q, k, X, h)
          /\ IsMem(m) /\ IsMem(w) /\ IsOwn(q) /\ k \in Frame /\ k \in Rs
      BY <3>6 DEF Ranged, Shape
    <3>8. v + j \in Page /\ Block(v + j, 3) = KernelFirst /\ X \in Nat /\ X <= v + j
      <4>1. v + j \in v .. v + n - 1
        BY <2>2, <2>4
      <4> QED BY <3>2, <4>1 DEF InLinear
    <3>9. MayMap(Rs, k, k, v + j)
      BY <3>7, <3>8 DEF MayMap
    <3>10. (v + j) % s = 0 /\ (p + j) % s = 0 /\ n - j >= s
      BY <3>3 DEF fits
    <3>11. PICK d : Laid(w, q, u, d, b, Filled(b, k, v + j, s, p + j, rt, device), Rs, k, c, k, v + j, l)
      <4>1. LargeOK(k, k, v + j, l) /\ Giving(q, k, k, c, v + j, p + j, rt)
        BY <3>8 DEF LargeOK, Giving
      <4>2. NoneBelow(q, k, l, Block(v + j, l))
        BY <3>2, <3>3, <3>7, <3>8, <3>10, NothingBelow DEF s
      <4> QED BY <3>2, <3>3, <3>7, <3>9, <3>10, <4>1, <4>2, MapLeaf DEF u, s
    <3>12. CASE Failed(u)
      <4>1. Failed(y.m)
        BY <3>1, <3>12
      <4> QED BY <4>1 DEF RoundOK
    <3>13. CASE ~Failed(u)
      <4>1. Grows(w, q, u, d, k) /\ OnWay(q, d, v + j, l)
            /\ Shape(u, d, Filled(b, k, v + j, s, p + j, rt, device), Rs, k, c)
        BY <3>11, <3>13 DEF Laid
      <4>2. Shape(u, d, Filled(a, k, v, j + s, p, rt, device), Rs, k, c)
        <5>1. j \in Nat /\ s \in Nat
          BY <2>2, <3>4
        <5>2. SameAsked(Filled(b, k, v + j, s, p + j, rt, device),
                        Filled(a, k, v, j + s, p, rt, device), Rs)
          BY <3>7, <5>1, FilledOn DEF b
        <5> QED BY <4>1, <5>2, ShapeSame
      <4>3. IsMem(u) /\ IsOwn(d)
        BY <4>1 DEF Shape
      <4>4. Grows(m, o, u, d, k)
        BY <3>7, <4>1, <4>3, GrowsOn
      <4>5. Frontier(d, k, IF ev THEN x ELSE v + (j + s), h)
        <5>1. /\ \A z \in Nat : X <= z /\ v + j < z => Frontier(d, k, z, h)
              /\ l >= h => Frontier(d, k, X, h)
          <6>1. Moves(w, q, u, d, k)
            BY <4>1 DEF Grows
          <6> QED BY <3>2, <3>3, <3>7, <3>8, <4>1, <4>3, <6>1, FrontierOn
        <5>2. CASE ev
          BY <3>2, <3>3, <3>5, <5>1, <5>2
        <5>3. CASE ~ev
          <6>1. v + (j + s) \in Nat /\ X <= v + (j + s) /\ v + j < v + (j + s)
            BY <2>2, <3>4, <3>8
          <6> QED BY <5>1, <5>3, <6>1
        <5> QED BY <5>2, <5>3
      <4>6. y.m = u /\ y.at = j + s /\ y = [m |-> y.m, at |-> y.at]
        BY <3>1
      <4>7. y.at \in 0 .. n /\ y.at >= i + 1
        BY <2>2, <2>4, <3>4, <3>10, <4>6
      <4>8. ev => y.at % S = 0
        <5> SUFFICES ASSUME ev PROVE (j + s) % S = 0
          BY <4>6
        <5> QED BY <3>5 DEF s, S
      <4>9. Ranged(m, o, u, d, Filled(a, k, v, j + s, p, rt, device), Rs, k, c,
                   IF ev THEN x ELSE v + (j + s), h)
        BY <4>2, <4>4, <4>5 DEF Ranged
      <4> HIDE DEF y
      <4>10. RoundOK(y, i + 1, m, o, a, Rs, k, c, v, p, n, rt, device, x, h)
        BY <4>6, <4>7, <4>8, <4>9 DEF RoundOK, ev, S
      <4> QED BY <4>10 DEF y
    <3> QED BY <3>12, <3>13
  <2> QED BY <2>3, <2>4
<1> QED BY <1>1, <1>2

(* A range of the linear map is mapped, or the map fails. *)
LEMMA MapRange ==
  ASSUME NEW m, NEW o, NEW a, NEW Rs, NEW k, Rs = {k}, NEW c, Shape(m, o, a, Rs, k, c),
         NEW v \in Nat, NEW p \in Nat, NEW n \in Nat, InLinear(v, n),
         NEW rt \in RightsT, NEW device \in BOOLEAN, NEW g \in BOOLEAN,
         NEW x \in Nat, x <= v, NEW h, h = (IF g THEN 2 ELSE 1), Frontier(o, k, x, h)
  PROVE  \/ Failed(map_as(m, k, v, p, n, rt, device, g))
         \/ \E q : Ranged(m, o, map_as(m, k, v, p, n, rt, device, g), q,
                          Filled(a, k, v, n, p, rt, device), Rs, k, c,
                          IF Even(v, p, n, level_size(h)) THEN x ELSE v + n, h)
<1>0. PICK d : Looped(d, m, k, v, p, n, rt, device, g)
  BY Rounds
<1>1. /\ d[0] = [m |-> m, at |-> 0]
      /\ \A i \in 0 .. n : i # 0 => d[i] = map_next(d[i - 1], k, v, p, n, rt, device, g)
      /\ map_as(m, k, v, p, n, rt, device, g) = d[n].m
  BY <1>0 DEF Looped
<1> DEFINE T == {i \in 0 .. n : RoundOK(d[i], i, m, o, a, Rs, k, c, v, p, n, rt, device, x, h)}
<1>2. 0 \in T
  <2> DEFINE z == Filled(a, k, v, 0, p, rt, device)
  <2>1. k \in Frame /\ IsMem(m) /\ IsOwn(o)
    BY DEF Shape
  <2>2. d[0].m = m /\ d[0].at = 0 /\ 0 \in 0 .. n /\ h \in 0 .. 2
    BY <1>1
  <2>3. SameAsked(a, z, Rs)
    BY <2>1 DEF SameAsked, Filled
  <2>4. Shape(m, o, z, Rs, k, c)
    BY <2>3, ShapeSame
  <2>5. Grows(m, o, m, o, k)
    BY <2>1 DEF Grows, Moves, Keeps
  <2>6. Frontier(o, k, v + 0, h)
    <3>1. \A y \in Page : y \in Nat
      BY DEF Page
    <3> QED BY <3>1 DEF Frontier
  <2>7. Ranged(m, o, m, o, z, Rs, k, c, IF Even(v, p, n, level_size(h)) THEN x ELSE v + 0, h)
    BY <2>4, <2>5, <2>6 DEF Ranged
  <2>8. 0 % level_size(h) = 0
    <3>1. level_size(h) \in Nat \ {0}
      BY <2>2, SizeNat
    <3> QED BY <3>1
  <2> HIDE DEF z
  <2>9. RoundOK(d[0], 0, m, o, a, Rs, k, c, v, p, n, rt, device, x, h)
    BY <1>1, <2>2, <2>7, <2>8 DEF RoundOK, z
  <2> QED BY <2>2, <2>9
<1>3. ASSUME NEW i \in 0 .. n, i # n, i \in T PROVE i + 1 \in T
  <2>1. RoundOK(d[i], i, m, o, a, Rs, k, c, v, p, n, rt, device, x, h)
    BY <1>3
  <2>2. i + 1 \in 0 .. n /\ i + 1 # 0 /\ (i + 1) - 1 = i
    BY <1>3
  <2>3. d[i + 1] = map_next(d[i], k, v, p, n, rt, device, g)
    BY <1>1, <2>2
  <2>4. RoundOK(map_next(d[i], k, v, p, n, rt, device, g), i + 1, m, o, a, Rs, k, c, v, p, n, rt,
                device, x, h)
    BY <1>3, <2>1, RangeRound
  <2> QED BY <2>2, <2>3, <2>4
<1>4. RoundOK(d[n], n, m, o, a, Rs, k, c, v, p, n, rt, device, x, h)
  <2>1. n \in 0 .. n
    OBVIOUS
  <2> HIDE DEF T
  <2>2. \A i \in 0 .. n : i \in T
    BY <1>2, <1>3, UpToBound
  <2> QED BY <2>1, <2>2 DEF T
<1>5. ~Failed(d[n].m) => d[n].at = n
  BY <1>4 DEF RoundOK
<1> QED BY <1>1, <1>4, <1>5 DEF RoundOK

-----------------------------------------------------------------------------
(* The calls to the Mapper, and what the trees are asked for. *)

AskedFn(m) == [s \in Frame |-> [y \in Page |-> Asked(m.asked[s], y)]]
Kept(m, o, Rs, k, c) == Shape(m, o, AskedFn(m), Rs, k, c)

(* Tree r is asked for w at page v, and for nothing else that is new. *)
Asks(m, x, r, v, w) ==
  \A s \in Frame : \A y \in Page :
    Asked(x.asked[s], y) = IF s = r /\ y = v THEN w ELSE Asked(m.asked[s], y)

(* What the shape is of depends on the tables, the pool and what is asked. *)
LEMMA ShapeCopied ==
  ASSUME NEW m, NEW o, NEW a, NEW Rs, NEW k, NEW c, Shape(m, o, a, Rs, k, c),
         NEW x, IsMem(x), x.table = m.table, x.pool = m.pool
  PROVE  Shape(x, o, a, Rs, k, c)
BY DEF Shape, PoolFree, Hung, Entries, Shared

(* Noting what was asked changes nothing else. *)
LEMMA NotedIs ==
  ASSUME NEW m, IsMem(m), ~Failed(m), NEW root \in Frame, NEW a
  PROVE  LET x == Noted(m, root, a)
         IN  /\ IsMem(x) /\ x.table = m.table /\ x.bytes = m.bytes /\ x.pool = m.pool
             /\ x.inUse = m.inUse /\ x.got = m.got /\ x.err = m.err
             /\ x.asked[root] = Overlay(a, m.asked[root])
             /\ \A s \in Frame : s # root => x.asked[s] = m.asked[s]
<1> DEFINE A == [m.asked EXCEPT ![root] = Overlay(a, m.asked[root])]
           y == [table |-> m.table, bytes |-> m.bytes, pool |-> m.pool, inUse |-> m.inUse,
                 got |-> m.got, err |-> m.err, asked |-> A]
           x == Noted(m, root, a)
<1>1. m.asked = [f \in Frame |-> m.asked[f]]
  BY DEF IsMem
<1>2. A = [f \in Frame |-> A[f]]
  BY <1>1
<1> HIDE DEF A
<1>3. x = [m EXCEPT !.asked = A]
  <2>1. x = [m EXCEPT !.asked[root] = Overlay(a, @)]
    BY DEF Noted
  <2> QED BY <2>1, Zenon DEF A
<1>4. m = [table |-> m.table, bytes |-> m.bytes, pool |-> m.pool, inUse |-> m.inUse,
           got |-> m.got, err |-> m.err, asked |-> m.asked]
  BY DEF IsMem
<1>5. x = y
  BY <1>3, <1>4
<1>6. IsMem(y)
  BY <1>2 DEF IsMem
<1> HIDE DEF x
<1>7. /\ IsMem(x) /\ x.table = m.table /\ x.bytes = m.bytes /\ x.pool = m.pool
      /\ x.inUse = m.inUse /\ x.got = m.got /\ x.err = m.err /\ x.asked = A
  BY <1>5, <1>6
<1>8. A[root] = Overlay(a, m.asked[root]) /\ \A s \in Frame : s # root => A[s] = m.asked[s]
  BY <1>1 DEF A
<1> QED BY <1>7, <1>8 DEF x

(* The pages of a range, and that tree r is asked for them. *)
Stretch(v, n, p, rt, device) == [y \in v .. v + n - 1 |-> Mapping(p + (y - v), rt, device)]
AsksRange(m, x, r, v, n, p, rt, device) ==
  \A s \in Frame : \A y \in Page :
    Asked(x.asked[s], y) = IF s = r /\ y \in v .. v + n - 1 THEN Mapping(p + (y - v), rt, device)
                           ELSE Asked(m.asked[s], y)

(* What a tree is asked for once a range is noted. *)
LEMMA NotedAsked ==
  ASSUME NEW m, IsMem(m), ~Failed(m), NEW root \in Frame, NEW v \in Nat, NEW n \in Nat, NEW p,
         NEW rt, NEW device
  PROVE  AsksRange(m, Noted(m, root, Stretch(v, n, p, rt, device)), root, v, n, p, rt, device)
<1> DEFINE f == Stretch(v, n, p, rt, device)
           x == Noted(m, root, f)
           g == m.asked[root]
<1> HIDE DEF f
<1>3. x.asked[root] = Overlay(f, g) /\ \A s \in Frame : s # root => x.asked[s] = m.asked[s]
  BY NotedIs
<1> HIDE DEF x, g
<1>4. ASSUME NEW y \in Page
      PROVE  Asked(Overlay(f, g), y) = IF y \in v .. v + n - 1 THEN Mapping(p + (y - v), rt, device)
                                       ELSE Asked(g, y)
  <2>1. DOMAIN f = v .. v + n - 1
    BY Zenon DEF f, Stretch
  <2>2. DOMAIN Overlay(f, g) = DOMAIN f \cup DOMAIN g
        /\ \A u \in DOMAIN f \cup DOMAIN g : Overlay(f, g)[u] = IF u \in DOMAIN f THEN f[u] ELSE g[u]
    <3> HIDE DEF f
    <3> QED BY Zenon DEF Overlay
  <2>3. CASE y \in v .. v + n - 1
    <3>1. f[y] = Mapping(p + (y - v), rt, device)
      BY <2>3, Zenon DEF f, Stretch
    <3> HIDE DEF f
    <3>2. Asked(Overlay(f, g), y) = f[y]
      BY <2>1, <2>2, <2>3, Zenon DEF Asked
    <3> QED BY <2>3, <3>1, <3>2
  <2>4. CASE y \notin v .. v + n - 1
    <3> HIDE DEF f
    <3>1. Asked(Overlay(f, g), y) = Asked(g, y)
      BY <2>1, <2>2, <2>4, Zenon DEF Asked
    <3> QED BY <2>4, <3>1
  <2> QED BY <2>3, <2>4
<1>5. AsksRange(m, x, root, v, n, p, rt, device)
  BY <1>3, <1>4, Zenon DEF g, AsksRange
<1> QED BY <1>5 DEF x, f

(* So is what the whole memory is asked for. *)
LEMMA NotedFilled ==
  ASSUME NEW m, IsMem(m), ~Failed(m), NEW root \in Frame, NEW v \in Nat, NEW n \in Nat, NEW p,
         NEW rt, NEW device, NEW Rs, Rs \subseteq Frame
  PROVE  SameAsked(Filled(AskedFn(m), root, v, n, p, rt, device),
                   AskedFn(Noted(m, root, Stretch(v, n, p, rt, device))), Rs)
<1> DEFINE x == Noted(m, root, Stretch(v, n, p, rt, device))
<1>1. AsksRange(m, x, root, v, n, p, rt, device)
  BY NotedAsked
<1> HIDE DEF x
<1>2. ASSUME NEW s \in Rs, NEW y \in Page
      PROVE  AskedFn(x)[s][y] = Filled(AskedFn(m), root, v, n, p, rt, device)[s][y]
  <2>1. s \in Frame
    OBVIOUS
  <2>2. AskedFn(x)[s][y] = Asked(x.asked[s], y) /\ AskedFn(m)[s][y] = Asked(m.asked[s], y)
    BY <2>1, Zenon DEF AskedFn
  <2>3. Filled(AskedFn(m), root, v, n, p, rt, device)[s][y]
          = IF s = root /\ y \in v .. v + n - 1 THEN Mapping(p + (y - v), rt, device)
            ELSE AskedFn(m)[s][y]
    <3>1. CASE s = root
      BY <2>1, <3>1, Zenon DEF Filled
    <3>2. CASE s # root
      BY <2>1, <3>2, Zenon DEF Filled
    <3> QED BY <3>1, <3>2
  <2> QED BY <1>1, <2>1, <2>2, <2>3 DEF AsksRange
<1>3. SameAsked(Filled(AskedFn(m), root, v, n, p, rt, device), AskedFn(x), Rs)
  BY <1>2 DEF SameAsked
<1> QED BY <1>3 DEF x

(* A page was mapped and noted, or was not. *)
Put(m, o, x, q, Rs, k, c, r, v, w) ==
  /\ Moves(m, o, x, q, r) /\ OnWay(o, q, v, 0) /\ Kept(x, q, Rs, k, c)
  /\ Failed(x) => x.asked = m.asked
  /\ ~Failed(x) => Asks(m, x, r, v, w)

(* A call for one page: it is mapped and nothing else changes, or nothing is mapped. *)
LEMMA MapPage ==
  ASSUME NEW m, NEW o, NEW Rs, NEW k \in Rs, NEW c, Kept(m, o, Rs, k, c), ~Failed(m),
         gib \in BOOLEAN, NEW r, NEW v, MayMap(Rs, k, r, v), NEW rt \in RightsT, NEW p \in Nat,
         NEW device \in BOOLEAN, Giving(o, r, k, c, v, p, rt)
  PROVE  \E q : Put(m, o, Map(m, r, v, p, 1, rt, device), q, Rs, k, c, r, v, Mapping(p, rt, device))
<1> DEFINE n == map_as(m, r, v, p, 1, rt, device, gib)
           a == AskedFn(m)
           z == Filled(a, r, v, 1, p, rt, device)
           x == Map(m, r, v, p, 1, rt, device)
<1>1. /\ Shape(m, o, a, Rs, k, c) /\ IsMem(m) /\ r \in Rs /\ r \in Frame /\ v \in Page /\ v \in Nat
      /\ Rs \subseteq Frame
  BY DEF Kept, Shape, MayMap, Page
<1>2. n = map_leaf(m, r, v, p, rt, device, 0)
  BY <1>1, MapOne
<1>3. x = Noted(n, r, Stretch(v, 1, p, rt, device))
  BY Zenon DEF Map, Stretch
<1> HIDE DEF n, x, a
<1>4. PICK q : Laid(m, o, n, q, a, z, Rs, k, c, r, v, 0)
  <2>1. level_size(0) = 1 /\ 0 \in 0 .. 2 /\ v % 1 = 0 /\ p % 1 = 0
    BY <1>1, Sizes
  <2>2. LargeOK(r, k, v, 0) /\ NoneBelow(o, r, 0, Block(v, 0))
    BY DEF LargeOK, NoneBelow
  <2>3. v % level_size(0) = 0 /\ p % level_size(0) = 0
    BY <2>1
  <2>4. \E q : Laid(m, o, map_leaf(m, r, v, p, rt, device, 0), q, a,
                    Filled(a, r, v, level_size(0), p, rt, device), Rs, k, c, r, v, 0)
    BY <1>1, <2>1, <2>2, <2>3, MapLeaf
  <2> QED BY <1>2, <2>1, <2>4
<1>5. Grows(m, o, n, q, r) /\ OnWay(o, q, v, 0) /\ IsMem(n)
  BY <1>4 DEF Laid, Shape
<1>6. CASE Failed(n)
  <2>1. x = n
    BY <1>3, <1>6 DEF Noted
  <2>2. x.asked = m.asked
    BY <1>5, <2>1 DEF Grows
  <2>3. AskedFn(x) = a
    BY <2>2, Zenon DEF AskedFn, a
  <2>4. Kept(x, q, Rs, k, c)
    BY <1>4, <1>6, <2>1, <2>3 DEF Laid, Kept
  <2> QED BY <1>5, <1>6, <2>1, <2>2, <2>4 DEF Put, Grows, x
<1>7. CASE ~Failed(n)
  <2>1. Shape(n, q, z, Rs, k, c)
    BY <1>4, <1>7 DEF Laid
  <2>2. n.asked = m.asked
    BY <1>5 DEF Grows
  <2>3. AskedFn(n) = a
    BY <2>2, Zenon DEF AskedFn, a
  <2>4. /\ IsMem(x) /\ x.table = n.table /\ x.bytes = n.bytes /\ x.pool = n.pool
        /\ x.inUse = n.inUse /\ x.err = n.err
    <3>1. PICK f : f = Stretch(v, 1, p, rt, device)
      OBVIOUS
    <3>2. x = Noted(n, r, f)
      BY <1>3, <3>1
    <3> QED BY <1>1, <1>5, <1>7, <3>2, NotedIs
  <2>5. Shape(x, q, AskedFn(x), Rs, k, c)
    <3>1. Shape(n, q, Filled(AskedFn(n), r, v, 1, p, rt, device), Rs, k, c)
      BY <2>1, <2>3
    <3>2. 1 \in Nat
      OBVIOUS
    <3>3. SameAsked(Filled(AskedFn(n), r, v, 1, p, rt, device), AskedFn(x), Rs)
      BY <1>1, <1>3, <1>5, <1>7, <3>2, NotedFilled
    <3>4. Shape(n, q, AskedFn(x), Rs, k, c)
      BY <3>1, <3>3, ShapeSame
    <3> QED BY <2>4, <3>4, ShapeCopied
  <2>6. Asks(m, x, r, v, Mapping(p, rt, device))
    <3>1. AsksRange(n, x, r, v, 1, p, rt, device)
      <4>1. 1 \in Nat
        OBVIOUS
      <4> QED BY <1>1, <1>3, <1>5, <1>7, <4>1, NotedAsked
    <3>2. \A y \in Page : (y \in v .. v + 1 - 1 <=> y = v)
      BY <1>1 DEF Page
    <3>3. p + (v - v) = p
      BY <1>1
    <3> QED BY <2>2, <3>1, <3>2, <3>3, Zenon DEF AsksRange, Asks
  <2>7. Moves(m, o, x, q, r)
    BY <1>5, <2>4 DEF Grows, Moves, Ledger
  <2>8. ~Failed(x)
    BY <1>7, <2>4 DEF Failed
  <2> QED BY <1>5, <2>5, <2>6, <2>7, <2>8 DEF Put, Kept, x
<1> QED BY <1>6, <1>7

(* What is asked of the trees, but for the page v of the kernel's. *)
Without(a, k, v) ==
  [s \in Frame |-> IF s = k THEN [y \in Page |-> IF y = v THEN Unmapped ELSE a[k][y]] ELSE a[s]]

(* Clearing the entry of a small page of the kernel's tree. *)
LEMMA ClearEntry ==
  ASSUME NEW m, NEW o, NEW a, NEW Rs, NEW k, Rs = {k}, NEW c, Shape(m, o, a, Rs, k, c),
         NEW v \in Page, v < USER_LIMIT
  PROVE  LET x == unmap(m, k, v)
         IN  /\ Shape(x, o, Without(a, k, v), Rs, k, c)
             /\ x.pool = m.pool /\ x.inUse = m.inUse /\ x.bytes = m.bytes /\ x.err = m.err
             /\ x.asked = m.asked /\ x.got = m.got
<1> DEFINE w == Walk(m, k, v)
           x == unmap(m, k, v)
           z == Without(a, k, v)
<1>1. /\ IsMem(m) /\ IsOwn(o) /\ k \in Frame /\ k \in Rs /\ RootsOwn(o, Rs) /\ Owners(o, Rs)
      /\ Once(o) /\ Entries(m, o, a, Rs, k, c)
  BY DEF Shape
<1>2. v \in Nat /\ Block(v, 3) # KernelFirst /\ TreeOf(k, k, v) = k
  <2>1. v \in Nat
    BY DEF Page
  <2>2. Block(v, 3) < KernelFirst
    BY <2>1, UserBlock
  <2> QED BY <2>1, <2>2, Numbers DEF TreeOf
<1>3. Good(w, m, o, a, k, v, 0 - 1)
  <2>1. 0 \in 0 .. 3
    OBVIOUS
  <2>2. \A l \in 0 .. 3 : Good(Descent(m, k, v)[l], m, o, a, TreeOf(k, k, v), v, l - 1)
    BY <1>1, WalkStages
  <2> QED BY <1>2, <2>1, <2>2 DEF Walk
<1>4. x = Cleared(m, w, v)
  BY DEF unmap
<1>5. z[k] = [y \in Page |-> IF y = v THEN Unmapped ELSE a[k][y]]
  BY <1>1, Zenon DEF Without
<1>6. \A y \in Page : z[k][y] = IF y = v THEN Unmapped ELSE a[k][y]
  BY <1>5, Zenon
<1> HIDE DEF w, x, z
<1>7. CASE w.end = "absent"
  <2>1. x = m
    BY <1>4, <1>7 DEF Cleared
  <2>2. a[k][v] = Unmapped
    BY <1>3, <1>7 DEF Good
  <2>3. SameAsked(a, z, Rs)
    BY <1>6, <2>2 DEF SameAsked
  <2>4. Shape(m, o, z, Rs, k, c)
    BY <2>3, ShapeSame
  <2> QED BY <2>1, <2>4 DEF x, z
<1>8. CASE w.end = "leaf"
  <2>1. w.level = 0
    BY <1>2, <1>3, <1>8 DEF Good
  <2>2. w.in \in Frame /\ o.R[w.in] = k /\ o.L[w.in] = 0 /\ o.B[w.in] = Block(v, 1)
    <3>1. 0 + 1 = 1
      OBVIOUS
    <3> QED BY <1>3, <1>8, <2>1, <3>1 DEF Good
  <2> DEFINE i == index(v, 0)
  <2>3. PICK t \in Frame : t = w.in
    BY <2>2
  <2>4. x = Write(m, t, i, Empty)
    BY <1>4, <1>8, <2>1, <2>3 DEF Cleared
  <2>5. i \in Slot /\ Block(v, 0) = Below(Block(v, 1), i) /\ Block(v, 0) = v /\ Block(v, 1) \in Nat
    <3>1. 0 \in 0 .. 3 /\ 0 + 1 = 1
      OBVIOUS
    <3>2. Block(v, 0) = v
      BY <1>2, Sizes DEF Block
    <3> QED BY <1>2, <3>1, <3>2, BlockUp
  <2> HIDE DEF i
  <2>6. /\ IsMem(x) /\ x.err = m.err /\ x.pool = m.pool /\ x.inUse = m.inUse /\ x.got = m.got
        /\ x.asked = m.asked /\ x.bytes = m.bytes /\ x.table = [m.table EXCEPT ![t][i] = Empty]
    BY <1>1, <2>4, <2>5, EntriesTyped, WriteIs
  <2>7. SameElsewhere(a, z, Rs, k)
    BY DEF SameElsewhere
  <2>8. \A y \in Page : y \in Nat /\ Block(y, 0) = y
    BY Sizes DEF Page, Block
  <2>9. EntryOK(Empty, k, 0, Below(o.B[t], i), o, z[k], k, c)
    <3>1. AbsentOK(0, v, z[k])
      BY <1>6, <2>8 DEF AbsentOK
    <3> QED BY <2>2, <2>3, <2>5, <3>1, EntriesTyped DEF EntryOK
  <2>10. OthersOK(m, o, z[k], Rs, k, c, k, t, i)
    <3> SUFFICES ASSUME NEW u \in Frame, NEW j \in Slot, o.R[u] = k, o.L[u] >= 0, u # t \/ j # i,
                        u \in Rs \ {k} => j < KernelFirst
                 PROVE  EntryOK(m.table[u][j], k, o.L[u], Below(o.B[u], j), o, z[k], k, c)
      BY DEF OthersOK
    <3> DEFINE h == o.L[u]
               g == Below(o.B[u], j)
               e == m.table[u][j]
    <3>1. k # Nobody /\ h \in 0 .. 3 /\ o.B[u] \in Nat /\ EntryOK(e, k, h, g, o, a[k], k, c)
      <4>1. k # Nobody
        BY <1>1 DEF Frame, Nobody
      <4>2. h \in 0 .. 3 /\ o.B[u] \in Nat
        BY <1>1, <4>1 DEF Owners
      <4> QED BY <1>1, <4>1, <4>2 DEF Entries
    <3> HIDE DEF h, g, e
    <3>2. AbsentOK(h, g, a[k]) => AbsentOK(h, g, z[k])
      BY <1>6 DEF AbsentOK
    <3>3. TableOK(e, k, h, g, o, a[k]) => TableOK(e, k, h, g, o, z[k])
      <4>1. ~Unmapped.rights.user
        BY DEF Unmapped, RO
      <4> QED BY <1>6, <4>1 DEF TableOK
    <3>4. ASSUME LeafOK(e, h, g, a[k]) PROVE LeafOK(e, h, g, z[k])
      <4>1. CASE Block(v, h) # g
        BY <1>6, <3>4, <4>1 DEF LeafOK
      <4>2. CASE Block(v, h) = g /\ h > 0
        BY <1>2, <3>4, <4>2 DEF LeafOK
      <4>3. CASE Block(v, h) = g /\ h = 0
        <5>1. Below(o.B[u], j) = Below(o.B[t], i) /\ o.B[t] \in Nat
          BY <2>2, <2>3, <2>5, <4>3 DEF g
        <5>2. o.B[u] = o.B[t] /\ i = j
          BY <2>5, <3>1, <5>1, SlotsOnce
        <5>3. u = t
          BY <1>1, <2>2, <2>3, <3>1, <4>3, <5>2 DEF Once, h
        <5> QED BY <5>2, <5>3
      <4> QED BY <3>1, <4>1, <4>2, <4>3
    <3>5. EntryOK(e, k, h, g, o, z[k], k, c)
      BY <3>1, <3>2, <3>3, <3>4, Zenon DEF EntryOK
    <3> QED BY <3>5 DEF h, g, e
  <2>11. ChildKept(o, k, 0, Below(o.B[t], i), Empty)
    BY DEF ChildKept
  <2>12. MayWrite(t, i, Rs, k)
    BY DEF MayWrite
  <2>13. Shape(x, o, z, Rs, k, c)
    <3>1. 0 \in 0 .. 3 /\ o.R[t] = k /\ o.L[t] = 0
      BY <2>2, <2>3
    <3> QED BY <1>1, <2>5, <2>6, <2>7, <2>9, <2>10, <2>11, <2>12, <3>1, EntriesTyped, WriteEntry
  <2> QED BY <2>6, <2>13 DEF x, z
<1>9. w.end # "table"
  BY <1>3 DEF Good
<1> QED BY <1>3, <1>7, <1>8, <1>9 DEF Good

(* Unmapping a small page of the kernel's tree. *)
LEMMA UnmapPage ==
  ASSUME NEW m, NEW o, NEW Rs, NEW k, Rs = {k}, NEW c, Kept(m, o, Rs, k, c),
         NEW v \in Page, v < USER_LIMIT
  PROVE  LET x == Unmap(m, k, v)
         IN  /\ Kept(x, o, Rs, k, c) /\ Asks(m, x, k, v, Unmapped)
             /\ x.pool = m.pool /\ x.inUse = m.inUse /\ x.bytes = m.bytes /\ x.err = m.err
             /\ x.got = m.got
<1> DEFINE n == unmap(m, k, v)
           x == Unmap(m, k, v)
           a == AskedFn(m)
           F == n.asked[k]
           G == [y \in DOMAIN F \ {v} |-> F[y]]
           A == [n.asked EXCEPT ![k] = G]
           y == [table |-> n.table, bytes |-> n.bytes, pool |-> n.pool, inUse |-> n.inUse,
                 got |-> n.got, err |-> n.err, asked |-> A]
<1>1. /\ Shape(n, o, Without(a, k, v), Rs, k, c)
      /\ n.pool = m.pool /\ n.inUse = m.inUse /\ n.bytes = m.bytes /\ n.err = m.err
      /\ n.asked = m.asked /\ n.got = m.got
  BY ClearEntry DEF Kept
<1>2. IsMem(n) /\ k \in Frame /\ Rs \subseteq Frame /\ n.asked = [s \in Frame |-> n.asked[s]]
  BY <1>1 DEF Shape, IsMem
<1>3. x = [n EXCEPT !.asked = A]
  BY Zenon DEF Unmap
<1> HIDE DEF n
<1>4. A[k] = G /\ (\A s \in Frame : s # k => A[s] = n.asked[s]) /\ A = [s \in Frame |-> A[s]]
  <2> HIDE DEF G
  <2> QED BY <1>2
<1>5. \A u : Asked(G, u) = IF u = v THEN Unmapped ELSE Asked(F, u)
  <2>1. DOMAIN G = DOMAIN F \ {v} /\ \A u \in DOMAIN F \ {v} : G[u] = F[u]
    BY Zenon
  <2> HIDE DEF G, F
  <2> QED BY <2>1, Zenon DEF Asked
<1> HIDE DEF A, G
<1>6. n = [table |-> n.table, bytes |-> n.bytes, pool |-> n.pool, inUse |-> n.inUse,
           got |-> n.got, err |-> n.err, asked |-> n.asked]
  BY <1>2 DEF IsMem
<1>7. x = y
  BY <1>3, <1>6
<1>8. IsMem(y)
  BY <1>2, <1>4 DEF IsMem
<1> HIDE DEF x
<1>9. /\ IsMem(x) /\ x.table = n.table /\ x.bytes = n.bytes /\ x.pool = n.pool
      /\ x.inUse = n.inUse /\ x.got = n.got /\ x.err = n.err /\ x.asked = A
  BY <1>7, <1>8
<1>10. Asks(m, x, k, v, Unmapped)
  BY <1>1, <1>4, <1>5, <1>9, Zenon DEF Asks, F
<1>11. SameAsked(Without(a, k, v), AskedFn(x), Rs)
  <2> SUFFICES ASSUME NEW u \in Page PROVE AskedFn(x)[k][u] = Without(a, k, v)[k][u]
    BY DEF SameAsked
  <2>1. AskedFn(x)[k][u] = Asked(x.asked[k], u) /\ a[k][u] = Asked(m.asked[k], u)
    BY <1>2, Zenon DEF AskedFn
  <2>2. Without(a, k, v)[k][u] = IF u = v THEN Unmapped ELSE a[k][u]
    <3> HIDE DEF a
    <3>1. Without(a, k, v)[k] = [j \in Page |-> IF j = v THEN Unmapped ELSE a[k][j]]
      BY <1>2, Zenon DEF Without
    <3> QED BY <3>1, Zenon
  <2>3. Asked(x.asked[k], u) = IF u = v THEN Unmapped ELSE Asked(m.asked[k], u)
    BY <1>2, <1>10 DEF Asks
  <2> QED BY <2>1, <2>2, <2>3, Zenon
<1>12. Shape(n, o, AskedFn(x), Rs, k, c)
  BY <1>1, <1>11, ShapeSame
<1>13. Kept(x, o, Rs, k, c)
  BY <1>9, <1>12, ShapeCopied DEF Kept
<1> QED BY <1>1, <1>9, <1>10, <1>13 DEF x

-----------------------------------------------------------------------------
(* Trees and pages come and go. *)

(* Between operations a memory has the same tables, pool and history. *)
LEMMA SettledIs ==
  ASSUME NEW m, IsMem(m)
  PROVE  LET x == Settled(m)
         IN  /\ IsMem(x) /\ x.table = m.table /\ x.bytes = m.bytes /\ x.pool = m.pool
             /\ x.inUse = m.inUse /\ x.asked = m.asked /\ ~Failed(x)
<1> DEFINE y == [table |-> m.table, bytes |-> m.bytes, pool |-> m.pool, inUse |-> m.inUse,
                 got |-> 0, err |-> "none", asked |-> m.asked]
<1>1. m = [table |-> m.table, bytes |-> m.bytes, pool |-> m.pool, inUse |-> m.inUse,
           got |-> m.got, err |-> m.err, asked |-> m.asked]
  BY DEF IsMem
<1>2. Settled(m) = y
  <2> DEFINE n == [m EXCEPT !.err = "none"]
  <2>1. Settled(m) = [n EXCEPT !.got = 0]
    BY Zenon DEF Settled
  <2>2. n = [table |-> m.table, bytes |-> m.bytes, pool |-> m.pool, inUse |-> m.inUse,
             got |-> m.got, err |-> "none", asked |-> m.asked]
    BY <1>1
  <2> HIDE DEF n
  <2> QED BY <2>1, <2>2
<1>3. 0 \in Frame
  BY Numbers DEF Frame
<1>4. IsMem(y)
  BY <1>3 DEF IsMem
<1> QED BY <1>2, <1>4 DEF Failed

(* The shape of a memory is that of the settled one. *)
LEMMA KeptCopied ==
  ASSUME NEW m, NEW o, NEW Rs, NEW k, NEW c, Kept(m, o, Rs, k, c), NEW x, IsMem(x),
         x.table = m.table, x.pool = m.pool, x.asked = m.asked
  PROVE  Kept(x, o, Rs, k, c)
<1>1. AskedFn(x) = AskedFn(m)
  BY Zenon DEF AskedFn
<1> QED BY <1>1, ShapeCopied DEF Kept

(* Frames leave the pool for nobody. *)
LEMMA KeptTaken ==
  ASSUME NEW m, NEW o, NEW Rs, NEW k, NEW c, Kept(m, o, Rs, k, c), NEW x, IsMem(x),
         x.table = m.table, x.asked = m.asked, \A f \in x.pool : o.R[f] = Nobody
  PROVE  Kept(x, o, Rs, k, c)
<1>1. AskedFn(x) = AskedFn(m)
  BY Zenon DEF AskedFn
<1> QED BY <1>1 DEF Kept, Shape, PoolFree, Hung, Entries, Shared

(* While there is only the kernel's tree, any frame may become the clock. *)
LEMMA KeptClock ==
  ASSUME NEW m, NEW o, NEW Rs, NEW k, Rs = {k}, NEW c, Kept(m, o, Rs, k, c), NEW d
  PROVE  Kept(m, o, Rs, k, d)
<1> DEFINE a == AskedFn(m)
<1>1. Shape(m, o, a, Rs, k, c)
  BY DEF Kept
<1> HIDE DEF a
<1>2. Owners(o, Rs) /\ Entries(m, o, a, Rs, k, c)
  BY <1>1 DEF Shape
<1>3. Entries(m, o, a, Rs, k, d)
  <2> SUFFICES ASSUME NEW t \in Frame, NEW i \in Slot, o.R[t] # Nobody, o.L[t] >= 0,
                      t \in Rs \ {k} => i < KernelFirst
               PROVE  EntryOK(m.table[t][i], o.R[t], o.L[t], Below(o.B[t], i), o, a[o.R[t]], k, d)
    BY DEF Entries
  <2>1. EntryOK(m.table[t][i], o.R[t], o.L[t], Below(o.B[t], i), o, a[o.R[t]], k, c)
    BY <1>2 DEF Entries
  <2>2. o.R[t] = k
    BY <1>2 DEF Owners
  <2> QED BY <2>1, <2>2, Zenon DEF EntryOK
<1> QED BY <1>1, <1>3 DEF Shape, Kept, a

(* A free frame becomes a page of a program. *)
LEMMA OwnPage ==
  ASSUME NEW m, NEW o, NEW a, NEW Rs, NEW k \in Rs, NEW c, Shape(m, o, a, Rs, k, c),
         NEW f \in m.pool, NEW r \in Rs, NEW v \in Nat, NEW x, IsMem(x), x.pool = m.pool \ {f},
         \A g \in Frame : g # f => x.table[g] = m.table[g]
  PROVE  Shape(x, Owning(o, f, r, -1, v), a, Rs, k, c)
<1> DEFINE q == Owning(o, f, r, -1, v)
<1>1. /\ IsMem(m) /\ IsOwn(o) /\ Rs \subseteq Frame
      /\ PoolFree(m, o) /\ RootsOwn(o, Rs) /\ Owners(o, Rs) /\ Once(o) /\ Hung(m, o)
      /\ Entries(m, o, a, Rs, k, c) /\ Shared(m, Rs, k)
  BY DEF Shape
<1>2. f \in Frame /\ o.R[f] = Nobody /\ r \in Frame /\ r # Nobody /\ f \notin Rs
  <2>1. f \in Frame /\ o.R[f] = Nobody
    BY <1>1 DEF IsMem, PoolFree
  <2>2. r \in Frame /\ r # Nobody
    BY <1>1 DEF Frame, Nobody
  <2>3. f \notin Rs
    BY <1>1, <2>1 DEF RootsOwn, Frame, Nobody
  <2> QED BY <2>1, <2>2, <2>3
<1>3. IsOwn(q)
  BY <1>1, <1>2 DEF IsOwn, Owning, Frame
<1>4. /\ q.R[f] = r /\ q.L[f] = -1 /\ q.B[f] = v
      /\ \A g \in Frame : g # f => q.R[g] = o.R[g] /\ q.L[g] = o.L[g] /\ q.B[g] = o.B[g]
  <2>1. o.R \in [Frame -> Int] /\ o.L \in [Frame -> Int] /\ o.B \in [Frame -> Int]
    BY <1>1 DEF IsOwn
  <2> QED BY <1>2, <2>1 DEF Owning
<1> HIDE DEF q
<1>5. PoolFree(x, q)
  BY <1>1, <1>4 DEF PoolFree, IsMem
<1>6. RootsOwn(q, Rs)
  BY <1>1, <1>2, <1>4 DEF RootsOwn
<1>7. Owners(q, Rs)
  <2> SUFFICES ASSUME NEW g \in Frame, q.R[g] # Nobody
               PROVE  /\ q.R[g] \in Rs /\ q.L[g] \in -1 .. 3 /\ q.B[g] \in Nat
                      /\ q.L[g] = 3 => g = q.R[g]
    BY DEF Owners
  <2>1. CASE g = f
    BY <1>4, <2>1
  <2>2. CASE g # f
    BY <1>1, <1>4, <2>2 DEF Owners
  <2> QED BY <2>1, <2>2
<1>8. Once(q)
  <2> SUFFICES ASSUME NEW g \in Frame, NEW h \in Frame, q.R[g] # Nobody, q.L[g] >= 0,
                      q.R[h] = q.R[g], q.L[h] = q.L[g], q.B[h] = q.B[g]
               PROVE  g = h
    BY DEF Once
  <2>1. g # f /\ h # f
    BY <1>4
  <2>2. o.R[g] # Nobody /\ o.L[g] >= 0 /\ o.R[h] = o.R[g] /\ o.L[h] = o.L[g] /\ o.B[h] = o.B[g]
    BY <1>4, <2>1
  <2> QED BY <1>1, <2>2 DEF Once
<1>9. Hung(x, q)
  <2> SUFFICES ASSUME NEW g \in Frame, q.R[g] # Nobody, q.L[g] \in 0 .. 2
               PROVE  \E u \in Frame : \E j \in Slot :
                        /\ q.R[u] = q.R[g] /\ q.L[u] = q.L[g] + 1 /\ q.B[g] = Below(q.B[u], j)
                        /\ x.table[u][j].present /\ ~x.table[u][j].huge /\ x.table[u][j].to = g
    BY DEF Hung
  <2>1. g # f
    BY <1>4
  <2>2. o.R[g] # Nobody /\ o.L[g] \in 0 .. 2 /\ q.R[g] = o.R[g] /\ q.L[g] = o.L[g]
        /\ q.B[g] = o.B[g]
    BY <1>4, <2>1
  <2>3. PICK u \in Frame, j \in Slot :
          /\ o.R[u] = o.R[g] /\ o.L[u] = o.L[g] + 1 /\ o.B[g] = Below(o.B[u], j)
          /\ m.table[u][j].present /\ ~m.table[u][j].huge /\ m.table[u][j].to = g
    BY <1>1, <2>2 DEF Hung
  <2>4. u # f
    BY <1>2, <2>2, <2>3
  <2>5. q.R[u] = o.R[u] /\ q.L[u] = o.L[u] /\ q.B[u] = o.B[u] /\ x.table[u] = m.table[u]
    BY <1>4, <2>4
  <2> QED BY <2>2, <2>3, <2>5
<1>10. Keeps(o, q)
  BY <1>2, <1>4 DEF Keeps
<1>11. Entries(x, q, a, Rs, k, c)
  <2> SUFFICES ASSUME NEW u \in Frame, NEW j \in Slot, q.R[u] # Nobody, q.L[u] >= 0,
                      u \in Rs \ {k} => j < KernelFirst
               PROVE  EntryOK(x.table[u][j], q.R[u], q.L[u], Below(q.B[u], j), q, a[q.R[u]], k, c)
    BY DEF Entries
  <2>1. u # f
    BY <1>4
  <2>2. q.R[u] = o.R[u] /\ q.L[u] = o.L[u] /\ q.B[u] = o.B[u] /\ x.table[u] = m.table[u]
    BY <1>4, <2>1
  <2>3. o.R[u] \in Frame /\ o.L[u] \in 0 .. 3 /\ m.table[u][j] \in EntryT
    BY <1>1, <2>2 DEF Owners, IsMem
  <2>4. EntryOK(m.table[u][j], o.R[u], o.L[u], Below(o.B[u], j), o, a[o.R[u]], k, c)
    BY <1>1, <2>2 DEF Entries
  <2>5. EntryOK(m.table[u][j], o.R[u], o.L[u], Below(o.B[u], j), q, a[o.R[u]], k, c)
    BY <1>10, <2>3, <2>4, EntryKept
  <2> QED BY <2>2, <2>5
<1>12. Shared(x, Rs, k)
  <2> SUFFICES ASSUME NEW u \in Rs, NEW j \in Slot, j >= KernelFirst
               PROVE  x.table[u][j] = x.table[k][j]
    BY DEF Shared
  <2>1. u \in Frame /\ u # f /\ k \in Frame /\ k # f
    BY <1>1, <1>2
  <2> QED BY <1>1, <2>1 DEF Shared
<1> QED BY <1>1, <1>3, <1>5, <1>6, <1>7, <1>8, <1>9, <1>11, <1>12 DEF Shape, q

(* The tree r gives up its frames. *)
Released(o, r) ==
  [R |-> [f \in Frame |-> IF o.R[f] = r THEN Nobody ELSE o.R[f]], L |-> o.L, B |-> o.B]

(* A tree goes: its frames are nobody's, and may go back to the pool. *)
LEMMA DropTree ==
  ASSUME NEW m, NEW o, NEW a, NEW Rs, NEW k \in Rs, NEW c, Shape(m, o, a, Rs, k, c),
         NEW r \in Rs, r # k, NEW x, IsMem(x), x.table = m.table,
         \A f \in x.pool : f \in m.pool \/ o.R[f] = r,
         NEW z, SameElsewhere(a, z, Rs, r)
  PROVE  Shape(x, Released(o, r), z, Rs \ {r}, k, c)
<1> DEFINE q == Released(o, r)
           Qs == Rs \ {r}
<1>1. /\ IsMem(m) /\ IsOwn(o) /\ Rs \subseteq Frame
      /\ PoolFree(m, o) /\ RootsOwn(o, Rs) /\ Owners(o, Rs) /\ Once(o) /\ Hung(m, o)
      /\ Entries(m, o, a, Rs, k, c) /\ Shared(m, Rs, k)
  BY DEF Shape
<1>2. r \in Frame /\ r # Nobody
  BY <1>1 DEF Frame, Nobody
<1>3. IsOwn(q)
  <2>1. Nobody \in Int /\ o.R \in [Frame -> Int] /\ o.L \in [Frame -> Int] /\ o.B \in [Frame -> Int]
    BY <1>1 DEF IsOwn, Nobody
  <2> QED BY <2>1 DEF IsOwn, Released
<1>4. \A f \in Frame : q.R[f] = (IF o.R[f] = r THEN Nobody ELSE o.R[f])
                       /\ q.L[f] = o.L[f] /\ q.B[f] = o.B[f]
  BY DEF Released
<1> HIDE DEF q
<1>5. \A f \in Frame : q.R[f] # Nobody => o.R[f] = q.R[f] /\ o.R[f] # r /\ o.R[f] # Nobody
  BY <1>4
<1>6. PoolFree(x, q)
  BY <1>1, <1>4 DEF PoolFree, IsMem
<1>7. RootsOwn(q, Qs)
  BY <1>1, <1>4 DEF RootsOwn
<1>8. Owners(q, Qs)
  BY <1>1, <1>4, <1>5 DEF Owners
<1>9. Once(q)
  <2> SUFFICES ASSUME NEW g \in Frame, NEW h \in Frame, q.R[g] # Nobody, q.L[g] >= 0,
                      q.R[h] = q.R[g], q.L[h] = q.L[g], q.B[h] = q.B[g]
               PROVE  g = h
    BY DEF Once
  <2>1. o.R[g] # Nobody /\ o.L[g] >= 0 /\ o.R[h] = o.R[g] /\ o.L[h] = o.L[g] /\ o.B[h] = o.B[g]
    BY <1>4, <1>5
  <2> QED BY <1>1, <2>1 DEF Once
<1>10. Hung(x, q)
  <2> SUFFICES ASSUME NEW g \in Frame, q.R[g] # Nobody, q.L[g] \in 0 .. 2
               PROVE  \E u \in Frame : \E j \in Slot :
                        /\ q.R[u] = q.R[g] /\ q.L[u] = q.L[g] + 1 /\ q.B[g] = Below(q.B[u], j)
                        /\ x.table[u][j].present /\ ~x.table[u][j].huge /\ x.table[u][j].to = g
    BY DEF Hung
  <2>1. o.R[g] # Nobody /\ o.L[g] \in 0 .. 2 /\ q.R[g] = o.R[g] /\ q.L[g] = o.L[g]
        /\ q.B[g] = o.B[g] /\ o.R[g] # r
    BY <1>4, <1>5
  <2>2. PICK u \in Frame, j \in Slot :
          /\ o.R[u] = o.R[g] /\ o.L[u] = o.L[g] + 1 /\ o.B[g] = Below(o.B[u], j)
          /\ m.table[u][j].present /\ ~m.table[u][j].huge /\ m.table[u][j].to = g
    BY <1>1, <2>1 DEF Hung
  <2>3. q.R[u] = o.R[u] /\ q.L[u] = o.L[u] /\ q.B[u] = o.B[u]
    BY <1>4, <2>1, <2>2
  <2> QED BY <2>1, <2>2, <2>3
<1>11. Entries(x, q, z, Qs, k, c)
  <2> SUFFICES ASSUME NEW u \in Frame, NEW j \in Slot, q.R[u] # Nobody, q.L[u] >= 0,
                      u \in Qs \ {k} => j < KernelFirst
               PROVE  EntryOK(x.table[u][j], q.R[u], q.L[u], Below(q.B[u], j), q, z[q.R[u]], k, c)
    BY DEF Entries
  <2> DEFINE s == o.R[u]
             l == o.L[u]
             b == Below(o.B[u], j)
             e == m.table[u][j]
  <2>1. q.R[u] = s /\ q.L[u] = l /\ q.B[u] = o.B[u] /\ s # r /\ s # Nobody /\ x.table[u][j] = e
    BY <1>4, <1>5
  <2>2. u # r
    BY <1>1, <2>1 DEF RootsOwn
  <2>3. u \in Rs \ {k} => j < KernelFirst
    BY <2>2
  <2>4. EntryOK(e, s, l, b, o, a[s], k, c)
    BY <1>1, <2>1, <2>3 DEF Entries
  <2>5. z[s] = a[s]
    BY <1>1, <2>1 DEF Owners, SameElsewhere
  <2> HIDE DEF s, l, b, e
  <2>6. TableOK(e, s, l, b, o, a[s]) => TableOK(e, s, l, b, q, a[s])
    BY <1>4, <2>1 DEF TableOK
  <2>7. Private(e, s, b, o, c) => Private(e, s, b, q, c)
    BY <1>4, <2>1 DEF Private
  <2>8. EntryOK(e, s, l, b, q, a[s], k, c)
    BY <2>4, <2>6, <2>7, Zenon DEF EntryOK
  <2> QED BY <2>1, <2>5, <2>8 DEF b
<1>12. Shared(x, Qs, k)
  BY <1>1 DEF Shared
<1>13. Qs \subseteq Frame
  BY <1>1
<1> QED BY <1>3, <1>6, <1>7, <1>8, <1>9, <1>10, <1>11, <1>12, <1>13 DEF Shape, q

(* A root with the kernel's upper half and an empty lower half is a tree. *)
LEMMA NewTree ==
  ASSUME NEW m, NEW o, NEW a, NEW Rs, NEW k \in Rs, NEW c, Shape(m, o, a, Rs, k, c),
         NEW f \in m.pool, NEW x, IsMem(x), x.pool = m.pool \ {f},
         \A g \in Frame : g # f => x.table[g] = m.table[g],
         \A i \in Slot : x.table[f][i] = IF i >= KernelFirst THEN m.table[k][i] ELSE Empty,
         \A y \in Page : a[f][y] = Unmapped
  PROVE  Shape(x, Owning(o, f, f, 3, 0), a, Rs \cup {f}, k, c)
<1> DEFINE q == Owning(o, f, f, 3, 0)
           Qs == Rs \cup {f}
<1>1. /\ IsMem(m) /\ IsOwn(o) /\ Rs \subseteq Frame
      /\ PoolFree(m, o) /\ RootsOwn(o, Rs) /\ Owners(o, Rs) /\ Once(o) /\ Hung(m, o)
      /\ Entries(m, o, a, Rs, k, c) /\ Shared(m, Rs, k)
  BY DEF Shape
<1>2. f \in Frame /\ o.R[f] = Nobody /\ f # Nobody /\ f \notin Rs /\ f # k
  <2>1. f \in Frame /\ o.R[f] = Nobody
    BY <1>1 DEF IsMem, PoolFree
  <2>2. f # Nobody
    BY <2>1 DEF Frame, Nobody
  <2>3. f \notin Rs
    BY <1>1, <2>1 DEF RootsOwn, Frame, Nobody
  <2> QED BY <2>1, <2>2, <2>3
<1>3. IsOwn(q)
  BY <1>1, <1>2 DEF IsOwn, Owning, Frame
<1>4. /\ q.R[f] = f /\ q.L[f] = 3 /\ q.B[f] = 0
      /\ \A g \in Frame : g # f => q.R[g] = o.R[g] /\ q.L[g] = o.L[g] /\ q.B[g] = o.B[g]
  <2>1. o.R \in [Frame -> Int] /\ o.L \in [Frame -> Int] /\ o.B \in [Frame -> Int]
    BY <1>1 DEF IsOwn
  <2> QED BY <1>2, <2>1 DEF Owning
<1> HIDE DEF q
<1>5. \A g \in Frame : o.R[g] # f
  BY <1>1, <1>2 DEF Owners
<1>6. PoolFree(x, q)
  BY <1>1, <1>4 DEF PoolFree, IsMem
<1>7. RootsOwn(q, Qs)
  BY <1>1, <1>2, <1>4 DEF RootsOwn
<1>8. Owners(q, Qs)
  <2> SUFFICES ASSUME NEW g \in Frame, q.R[g] # Nobody
               PROVE  /\ q.R[g] \in Qs /\ q.L[g] \in -1 .. 3 /\ q.B[g] \in Nat
                      /\ q.L[g] = 3 => g = q.R[g]
    BY DEF Owners
  <2>1. CASE g = f
    BY <1>4, <2>1
  <2>2. CASE g # f
    BY <1>1, <1>4, <2>2 DEF Owners
  <2> QED BY <2>1, <2>2
<1>9. Once(q)
  <2> SUFFICES ASSUME NEW g \in Frame, NEW h \in Frame, q.R[g] # Nobody, q.L[g] >= 0,
                      q.R[h] = q.R[g], q.L[h] = q.L[g], q.B[h] = q.B[g]
               PROVE  g = h
    BY DEF Once
  <2>1. CASE g = f \/ h = f
    BY <1>4, <1>5, <2>1
  <2>2. CASE g # f /\ h # f
    <3>1. o.R[g] # Nobody /\ o.L[g] >= 0 /\ o.R[h] = o.R[g] /\ o.L[h] = o.L[g] /\ o.B[h] = o.B[g]
      BY <1>4, <2>2
    <3> QED BY <1>1, <3>1 DEF Once
  <2> QED BY <2>1, <2>2
<1>10. Hung(x, q)
  <2> SUFFICES ASSUME NEW g \in Frame, q.R[g] # Nobody, q.L[g] \in 0 .. 2
               PROVE  \E u \in Frame : \E j \in Slot :
                        /\ q.R[u] = q.R[g] /\ q.L[u] = q.L[g] + 1 /\ q.B[g] = Below(q.B[u], j)
                        /\ x.table[u][j].present /\ ~x.table[u][j].huge /\ x.table[u][j].to = g
    BY DEF Hung
  <2>1. g # f
    BY <1>4
  <2>2. o.R[g] # Nobody /\ o.L[g] \in 0 .. 2 /\ q.R[g] = o.R[g] /\ q.L[g] = o.L[g]
        /\ q.B[g] = o.B[g]
    BY <1>4, <2>1
  <2>3. PICK u \in Frame, j \in Slot :
          /\ o.R[u] = o.R[g] /\ o.L[u] = o.L[g] + 1 /\ o.B[g] = Below(o.B[u], j)
          /\ m.table[u][j].present /\ ~m.table[u][j].huge /\ m.table[u][j].to = g
    BY <1>1, <2>2 DEF Hung
  <2>4. u # f
    BY <1>2, <2>2, <2>3
  <2>5. q.R[u] = o.R[u] /\ q.L[u] = o.L[u] /\ q.B[u] = o.B[u] /\ x.table[u] = m.table[u]
    BY <1>4, <2>4
  <2> QED BY <2>2, <2>3, <2>5
<1>11. Keeps(o, q)
  BY <1>2, <1>4 DEF Keeps
<1>12. Entries(x, q, a, Qs, k, c)
  <2> SUFFICES ASSUME NEW u \in Frame, NEW j \in Slot, q.R[u] # Nobody, q.L[u] >= 0,
                      u \in Qs \ {k} => j < KernelFirst
               PROVE  EntryOK(x.table[u][j], q.R[u], q.L[u], Below(q.B[u], j), q, a[q.R[u]], k, c)
    BY DEF Entries
  <2>1. CASE u = f
    <3>1. ~(j >= KernelFirst)
      BY <1>2, <2>1, Numbers DEF Slot
    <3>2. ~x.table[u][j].present
      BY <2>1, <3>1, EntriesTyped
    <3>3. AbsentOK(q.L[u], Below(q.B[u], j), a[q.R[u]])
      BY <1>4, <2>1 DEF AbsentOK
    <3> QED BY <3>2, <3>3 DEF EntryOK
  <2>2. CASE u # f
    <3>1. q.R[u] = o.R[u] /\ q.L[u] = o.L[u] /\ q.B[u] = o.B[u] /\ x.table[u] = m.table[u]
      BY <1>4, <2>2
    <3>2. o.R[u] \in Frame /\ o.L[u] \in 0 .. 3 /\ m.table[u][j] \in EntryT
      BY <1>1, <3>1 DEF Owners, IsMem
    <3>3. EntryOK(m.table[u][j], o.R[u], o.L[u], Below(o.B[u], j), o, a[o.R[u]], k, c)
      BY <1>1, <3>1 DEF Entries
    <3>4. EntryOK(m.table[u][j], o.R[u], o.L[u], Below(o.B[u], j), q, a[o.R[u]], k, c)
      BY <1>11, <3>2, <3>3, EntryKept
    <3> QED BY <3>1, <3>4
  <2> QED BY <2>1, <2>2
<1>13. Shared(x, Qs, k)
  <2> SUFFICES ASSUME NEW u \in Qs, NEW j \in Slot, j >= KernelFirst
               PROVE  x.table[u][j] = x.table[k][j]
    BY DEF Shared
  <2>1. k \in Frame /\ k # f /\ x.table[k] = m.table[k]
    BY <1>1, <1>2
  <2>2. CASE u = f
    BY <2>1, <2>2
  <2>3. CASE u # f
    <3>1. u \in Rs /\ u \in Frame /\ x.table[u] = m.table[u]
      BY <1>1, <2>3
    <3> QED BY <1>1, <2>1, <3>1 DEF Shared
  <2> QED BY <2>2, <2>3
<1>14. Qs \subseteq Frame
  BY <1>1, <1>2
<1> QED BY <1>3, <1>6, <1>7, <1>8, <1>9, <1>10, <1>12, <1>13, <1>14 DEF Shape, q

(* Nobody owns a frame but the tree r its root. *)
OnlyRoot(r) ==
  [R |-> [f \in Frame |-> IF f = r THEN r ELSE Nobody], L |-> [f \in Frame |-> 3],
   B |-> [f \in Frame |-> 0]]

(* The first tree, which is empty. *)
LEMMA FirstTree ==
  ASSUME NEW x, IsMem(x), NEW f \in Frame, f \notin x.pool, x.table[f] = EmptyTable,
         NEW a, \A y \in Page : a[f][y] = Unmapped, NEW c
  PROVE  /\ Shape(x, OnlyRoot(f), a, {f}, f, c)
         /\ \A v \in Nat : \A h \in 0 .. 2 : Frontier(OnlyRoot(f), f, v, h)
<1> DEFINE q == OnlyRoot(f)
           Rs == {f}
<1>1. f # Nobody /\ f \in Int /\ Nobody \in Int
  BY DEF Frame, Nobody
<1>2. /\ \A g \in Frame : g # f => q.R[g] = Nobody
      /\ q.R[f] = f /\ q.L[f] = 3 /\ q.B[f] = 0 /\ \A g \in Frame : q.L[g] = 3
  BY DEF OnlyRoot
<1>3. IsOwn(q)
  BY <1>1 DEF IsOwn, OnlyRoot
<1> HIDE DEF q
<1>4. PoolFree(x, q)
  BY <1>2 DEF PoolFree, IsMem
<1>5. RootsOwn(q, Rs) /\ Owners(q, Rs) /\ Once(q) /\ Hung(x, q)
  BY <1>2 DEF RootsOwn, Owners, Once, Hung
<1>6. Entries(x, q, a, Rs, f, c)
  <2> SUFFICES ASSUME NEW j \in Slot
               PROVE  EntryOK(x.table[f][j], f, 3, Below(0, j), q, a[f], f, c)
    BY <1>2 DEF Entries
  <2>1. ~x.table[f][j].present
    BY EntriesTyped DEF EmptyTable
  <2>2. AbsentOK(3, Below(0, j), a[f])
    BY DEF AbsentOK
  <2> QED BY <2>1, <2>2 DEF EntryOK
<1>7. Shared(x, Rs, f)
  BY DEF Shared
<1>8. Shape(x, q, a, Rs, f, c)
  BY <1>3, <1>4, <1>5, <1>6, <1>7 DEF Shape
<1>9. \A v \in Nat : \A h \in 0 .. 2 : Frontier(q, f, v, h)
  BY <1>2 DEF Frontier
<1> QED BY <1>8, <1>9 DEF q

-----------------------------------------------------------------------------
(* The tree of a space is built. *)

(* The pages tree r owns hold bytes of space s only, and none is asked for  *)
(* both to write and to execute.                                            *)
TreeOK(m, o, r, s) ==
  /\ \A f \in Frame : o.R[f] = r /\ o.L[f] = -1 => m.bytes[f] \subseteq {s}
  /\ \A y \in Page : ~is_wx(Asked(m.asked[r], y).rights)

(* From m to x work is done on tree r of space s: the frames taken are its  *)
(* own, and nothing is asked of any tree but of r for pages of V.           *)
Works(m, o, x, q, Rs, k, c, r, s, V) ==
  /\ Kept(x, q, Rs, k, c) /\ TreeOK(x, q, r, s)
  /\ Failed(m) => Failed(x)
  /\ x.pool \subseteq m.pool /\ Ledger(x) = Ledger(m)
  /\ \A f \in Frame \ m.pool : x.bytes[f] = m.bytes[f]
  /\ Keeps(o, q)
  /\ \A f \in Frame : o.R[f] = Nobody /\ q.R[f] # Nobody =>
       f \in m.pool /\ f \notin x.pool /\ q.R[f] = r
  /\ \A f \in m.pool \ x.pool : q.R[f] = r
  /\ \A t \in Frame : \A y \in Page : t # r \/ y \notin V =>
       Asked(x.asked[t], y) = Asked(m.asked[t], y)

(* The pages tree r owns are where it was asked to have them. *)
Placed(m, o, r) ==
  \A f \in Frame : o.R[f] = r /\ o.L[f] = -1 =>
    /\ o.B[f] \in Page /\ o.B[f] < USER_LIMIT
    /\ Asked(m.asked[r], o.B[f]).mapped /\ Asked(m.asked[r], o.B[f]).phys = f

(* Nothing is asked of tree r for the pages of V. *)
Vacant(m, r, V) == \A y \in V : y \in Page => ~Asked(m.asked[r], y).mapped

Builds(m, o, x, q, Rs, k, c, r, s, V) ==
  /\ Works(m, o, x, q, Rs, k, c, r, s, V)
  /\ Vacant(m, r, V) /\ Placed(m, o, r) /\ ~Failed(x) => Placed(x, q, r)

(* Work after work. *)
LEMMA WorksOn ==
  ASSUME NEW m, NEW o, NEW x, NEW p, NEW y, NEW q, NEW Rs, NEW k, NEW c, NEW r \in Frame, NEW s,
         NEW V, NEW W, IsMem(m),
         Works(m, o, x, p, Rs, k, c, r, s, V), Works(x, p, y, q, Rs, k, c, r, s, W)
  PROVE  Works(m, o, y, q, Rs, k, c, r, s, V \cup W)
<1>0. r # Nobody /\ IsMem(x)
  BY DEF Frame, Nobody, Works, Kept, Shape
<1>1. Kept(y, q, Rs, k, c) /\ TreeOK(y, q, r, s) /\ (Failed(m) => Failed(y))
  BY DEF Works
<1>2. y.pool \subseteq m.pool /\ Ledger(y) = Ledger(m)
  BY DEF Works
<1>3. \A f \in Frame \ m.pool : y.bytes[f] = m.bytes[f]
  BY DEF Works
<1>4. Keeps(o, q)
  BY DEF Works, Keeps
<1>5. ASSUME NEW f \in Frame, o.R[f] = Nobody, q.R[f] # Nobody
      PROVE  f \in m.pool /\ f \notin y.pool /\ q.R[f] = r
  <2>1. CASE p.R[f] = Nobody
    BY <1>5, <2>1 DEF Works
  <2>2. CASE p.R[f] # Nobody
    <3>1. f \in m.pool /\ f \notin x.pool /\ p.R[f] = r
      BY <1>5, <2>2 DEF Works
    <3>2. q.R[f] = p.R[f] /\ f \notin y.pool
      BY <2>2, <3>1 DEF Works, Keeps
    <3> QED BY <3>1, <3>2
  <2> QED BY <2>1, <2>2
<1>6. ASSUME NEW f \in m.pool \ y.pool PROVE q.R[f] = r
  <2>1. CASE f \in x.pool
    BY <2>1 DEF Works
  <2>2. CASE f \notin x.pool
    <3>1. p.R[f] = r /\ f \in Frame
      BY <2>2 DEF Works, IsMem
    <3> QED BY <1>0, <3>1 DEF Works, Keeps
  <2> QED BY <2>1, <2>2
<1>7. ASSUME NEW t \in Frame, NEW u \in Page, t # r \/ u \notin V \cup W
      PROVE  Asked(y.asked[t], u) = Asked(m.asked[t], u)
  <2>1. Asked(x.asked[t], u) = Asked(m.asked[t], u)
    BY <1>7 DEF Works
  <2>2. Asked(y.asked[t], u) = Asked(x.asked[t], u)
    BY <1>7 DEF Works
  <2> QED BY <2>1, <2>2
<1> QED BY <1>1, <1>2, <1>3, <1>4, <1>5, <1>6, <1>7 DEF Works

(* Building after building, at other pages. *)
LEMMA BuildsOn ==
  ASSUME NEW m, NEW o, NEW x, NEW p, NEW y, NEW q, NEW Rs, NEW k, NEW c, NEW r \in Frame, NEW s,
         NEW V, NEW W, V \cap W = {}, IsMem(m),
         Builds(m, o, x, p, Rs, k, c, r, s, V), Builds(x, p, y, q, Rs, k, c, r, s, W)
  PROVE  Builds(m, o, y, q, Rs, k, c, r, s, V \cup W)
<1>1. Works(m, o, y, q, Rs, k, c, r, s, V \cup W)
  BY WorksOn DEF Builds
<1>2. ASSUME Vacant(m, r, V \cup W), Placed(m, o, r), ~Failed(y) PROVE Placed(y, q, r)
  <2>1. ~Failed(x) /\ Vacant(m, r, V)
    BY <1>2 DEF Builds, Works, Vacant
  <2>2. Placed(x, p, r)
    BY <1>2, <2>1 DEF Builds
  <2>3. Vacant(x, r, W)
    <3> SUFFICES ASSUME NEW u \in W, u \in Page PROVE ~Asked(x.asked[r], u).mapped
      BY DEF Vacant
    <3>1. Asked(x.asked[r], u) = Asked(m.asked[r], u)
      BY DEF Builds, Works
    <3> QED BY <1>2, <3>1 DEF Vacant
  <2> QED BY <1>2, <2>2, <2>3 DEF Builds
<1> QED BY <1>1, <1>2 DEF Builds

(* Doing nothing is work, and so is failing. *)
LEMMA WorksNot ==
  ASSUME NEW m, NEW o, NEW x, NEW Rs, NEW k, NEW c, NEW r, NEW s, NEW V,
         Kept(m, o, Rs, k, c), TreeOK(m, o, r, s), IsMem(x), x.table = m.table, x.bytes = m.bytes,
         x.pool = m.pool, x.inUse = m.inUse, x.asked = m.asked, Failed(m) => Failed(x)
  PROVE  Builds(m, o, x, o, Rs, k, c, r, s, V)
<1>1. Kept(x, o, Rs, k, c)
  BY KeptCopied
<1>2. TreeOK(x, o, r, s)
  BY DEF TreeOK
<1>3. Ledger(x) = Ledger(m)
  BY DEF Ledger
<1>4. Keeps(o, o)
  BY DEF Keeps
<1>5. Works(m, o, x, o, Rs, k, c, r, s, V)
  BY <1>1, <1>2, <1>3, <1>4 DEF Works
<1> QED BY <1>5 DEF Builds, Placed

(* The pages tree r owns in q it owned in o, at the same place. *)
PagesKept(o, q, r) ==
  \A f \in Frame : q.R[f] = r /\ q.L[f] = -1 => o.R[f] = r /\ o.L[f] = -1 /\ o.B[f] = q.B[f]

(* Putting a page in the tree is work on it. *)
LEMMA PutWorks ==
  ASSUME NEW m, NEW o, NEW x, NEW q, NEW Rs, NEW k, NEW c, NEW r \in Frame, NEW s, NEW v, NEW w,
         Kept(m, o, Rs, k, c), TreeOK(m, o, r, s), ~Failed(m), Put(m, o, x, q, Rs, k, c, r, v, w),
         ~is_wx(w.rights)
  PROVE  Works(m, o, x, q, Rs, k, c, r, s, {v}) /\ PagesKept(o, q, r)
<1>1. /\ Moves(m, o, x, q, r) /\ Kept(x, q, Rs, k, c) /\ IsMem(m) /\ PoolFree(m, o)
      /\ Failed(x) => x.asked = m.asked
      /\ ~Failed(x) => Asks(m, x, r, v, w)
  BY DEF Put, Kept, Shape
<1>2. r # Nobody
  BY DEF Frame, Nobody
<1>3. ASSUME NEW f \in Frame, q.R[f] = r, q.L[f] = -1
      PROVE  o.R[f] = r /\ o.L[f] = -1 /\ o.B[f] = q.B[f]
  <2>1. o.R[f] # Nobody
    <3> SUFFICES ASSUME o.R[f] = Nobody PROVE FALSE
      OBVIOUS
    <3>1. q.L[f] >= 0
      BY <1>1, <1>2, <1>3 DEF Moves
    <3> QED BY <1>3, <3>1
  <2> QED BY <1>1, <1>3, <2>1 DEF Moves, Keeps
<1>4. \A t \in Frame : \A y \in Page : t # r \/ y \notin {v} =>
        Asked(x.asked[t], y) = Asked(m.asked[t], y)
  <2>1. CASE Failed(x)
    BY <1>1, <2>1
  <2>2. CASE ~Failed(x)
    BY <1>1, <2>2 DEF Asks
  <2> QED BY <2>1, <2>2
<1>5. TreeOK(x, q, r, s)
  <2>1. ASSUME NEW f \in Frame, q.R[f] = r, q.L[f] = -1 PROVE x.bytes[f] \subseteq {s}
    <3>1. o.R[f] = r /\ o.L[f] = -1
      BY <1>3, <2>1
    <3>2. f \notin m.pool
      BY <1>1, <1>2, <3>1 DEF PoolFree
    <3>3. x.bytes[f] = m.bytes[f]
      BY <1>1, <3>2 DEF Moves
    <3> QED BY <3>1, <3>3 DEF TreeOK
  <2>2. ASSUME NEW y \in Page PROVE ~is_wx(Asked(x.asked[r], y).rights)
    <3>1. CASE Failed(x)
      BY <1>1, <3>1 DEF TreeOK
    <3>2. CASE ~Failed(x) /\ y = v
      <4>1. Asked(x.asked[r], y) = w
        BY <1>1, <3>2 DEF Asks
      <4> QED BY <4>1
    <3>3. CASE ~Failed(x) /\ y # v
      <4>1. Asked(x.asked[r], y) = Asked(m.asked[r], y)
        BY <1>1, <3>3 DEF Asks
      <4> QED BY <4>1 DEF TreeOK
    <3> QED BY <3>1, <3>2, <3>3
  <2> QED BY <2>1, <2>2 DEF TreeOK
<1>6. Works(m, o, x, q, Rs, k, c, r, s, {v})
  BY <1>1, <1>4, <1>5 DEF Works, Moves
<1> QED BY <1>3, <1>6 DEF PagesKept

(* A frame of the pool becomes a page of the tree, mapped nowhere yet. *)
LEMMA OwnWorks ==
  ASSUME NEW m, NEW o, NEW Rs, NEW k \in Rs, NEW c, Kept(m, o, Rs, k, c), ~Failed(m),
         NEW r \in Rs, NEW s, TreeOK(m, o, r, s), NEW v \in Page,
         NEW f \in m.pool, NEW x, IsMem(x), x.pool = m.pool \ {f}, x.inUse = m.inUse + 1,
         x.asked = m.asked, \A g \in Frame : g # f => x.table[g] = m.table[g],
         \A g \in Frame : g # f => x.bytes[g] = m.bytes[g], x.bytes[f] \subseteq {s}
  PROVE  Works(m, o, x, Owning(o, f, r, -1, v), Rs, k, c, r, s, {})
<1> DEFINE q == Owning(o, f, r, -1, v)
<1>1. /\ Shape(m, o, AskedFn(m), Rs, k, c) /\ IsMem(m) /\ IsOwn(o) /\ PoolFree(m, o)
      /\ r \in Frame /\ f \in Frame /\ v \in Nat /\ v \in Int
  BY DEF Kept, Shape, IsMem, Page
<1>2. r # Nobody /\ o.R[f] = Nobody
  BY <1>1 DEF Frame, Nobody, PoolFree
<1>3. Shape(x, q, AskedFn(m), Rs, k, c)
  BY <1>1, OwnPage
<1>4. AskedFn(x) = AskedFn(m)
  BY Zenon DEF AskedFn
<1>5. Kept(x, q, Rs, k, c)
  BY <1>3, <1>4 DEF Kept
<1>6. /\ \A g \in Frame : g # f => q.R[g] = o.R[g] /\ q.L[g] = o.L[g] /\ q.B[g] = o.B[g]
      /\ q.R[f] = r /\ q.L[f] = -1 /\ q.B[f] = v
  BY <1>1 DEF Owning, IsOwn
<1> HIDE DEF q
<1>7. TreeOK(x, q, r, s)
  BY <1>6 DEF TreeOK
<1>8. Ledger(x) = Ledger(m)
  BY <1>1, LedgerTake
<1>9. Keeps(o, q)
  BY <1>2, <1>6 DEF Keeps
<1>10. \A g \in Frame : o.R[g] = Nobody /\ q.R[g] # Nobody => g = f
  BY <1>6
<1>11. /\ x.pool \subseteq m.pool
       /\ \A g \in Frame \ m.pool : x.bytes[g] = m.bytes[g]
       /\ \A g \in m.pool \ x.pool : q.R[g] = r
  BY <1>6
<1>12. Works(m, o, x, q, Rs, k, c, r, s, {})
  BY <1>5, <1>6, <1>7, <1>8, <1>9, <1>10, <1>11 DEF Works
<1> QED BY <1>12 DEF q

(* A fresh page is given to the program. *)
LEMMA MapFresh ==
  ASSUME NEW m, NEW o, NEW Rs, NEW k \in Rs, NEW c, Kept(m, o, Rs, k, c), gib \in BOOLEAN,
         NEW r, NEW s, TreeOK(m, o, r, s), r # k, NEW v, MayMap(Rs, k, r, v), NEW rt \in RightsT,
         ~is_wx(rt)
  PROVE  \E q : Builds(m, o, map_fresh(m, s, r, v, rt), q, Rs, k, c, r, s, {v})
<1> DEFINE W == IF rt.write THEN {s} ELSE {}
           m1 == alloc_frame(m)
           m2 == Zeroed(m1, W)
           x == map_fresh(m, s, r, v, rt)
           u == to_user(rt)
<1>0. IsMem(m) /\ r \in Rs /\ r \in Frame /\ v \in Page /\ v \in Nat /\ Rs \subseteq Frame
  BY DEF Kept, Shape, MayMap, Page
<1>1. x = map_got(m2, r, v, rt)
  BY Zenon DEF map_fresh
<1>2. u \in RightsT /\ ~is_wx(u)
  BY DEF to_user, RightsT, is_wx
<1>3. W \subseteq {s}
  OBVIOUS
<1> HIDE DEF u, W, x
<1>4. CASE Failed(m)
  <2>1. x = m
    BY <1>1, <1>4 DEF alloc_frame, alloc_frames, Zeroed, map_got
  <2>2. Builds(m, o, m, o, Rs, k, c, r, s, {v})
    BY <1>0, WorksNot
  <2> QED BY <2>1, <2>2 DEF x
<1>5. CASE ~Failed(m)
  <2>1. /\ IsMem(m1) /\ m1.table = m.table /\ m1.bytes = m.bytes /\ m1.asked = m.asked
        /\ \/ Failed(m1) /\ m1.pool = m.pool /\ m1.inUse = m.inUse
           \/ /\ ~Failed(m1) /\ m1.got \in m.pool /\ m1.pool = m.pool \ {m1.got}
              /\ m1.inUse = m.inUse + 1
    BY <1>0, <1>5, AllocOne
  <2> HIDE DEF m1
  <2>2. CASE Failed(m1)
    <3>1. x = m1
      BY <1>1, <2>2 DEF Zeroed, map_got
    <3>2. Builds(m, o, m1, o, Rs, k, c, r, s, {v})
      BY <2>1, <2>2, WorksNot
    <3> QED BY <3>1, <3>2 DEF x
  <2>3. CASE ~Failed(m1)
    <3> DEFINE f == m1.got
               q1 == Owning(o, f, r, -1, v)
    <3>1. /\ IsMem(m2) /\ ~Failed(m2) /\ m2.pool = m.pool \ {f} /\ m2.inUse = m.inUse + 1
          /\ m2.got = f /\ m2.asked = m.asked
          /\ m2.table = [m.table EXCEPT ![f] = EmptyTable]
          /\ m2.bytes = [m.bytes EXCEPT ![f] = W]
      BY <2>1, <2>3, ZeroedIs
    <3> HIDE DEF m2
    <3>2. f \in m.pool /\ f \in Frame /\ f \in Nat
      BY <1>0, <2>1, <2>3 DEF IsMem, Frame
    <3>3. /\ \A g \in Frame : g # f => m2.table[g] = m.table[g]
          /\ \A g \in Frame : g # f => m2.bytes[g] = m.bytes[g]
          /\ m2.bytes[f] = W
      BY <1>0, <3>1, <3>2 DEF IsMem
    <3> HIDE DEF f
    <3>4. Works(m, o, m2, q1, Rs, k, c, r, s, {})
      BY ZenonT(30), <1>0, <1>3, <1>5, <3>1, <3>2, <3>3, OwnWorks
    <3>5. /\ \A g \in Frame : g # f => q1.R[g] = o.R[g] /\ q1.L[g] = o.L[g] /\ q1.B[g] = o.B[g]
          /\ q1.R[f] = r /\ q1.L[f] = -1 /\ q1.B[f] = v
      BY <1>0, <3>2 DEF Owning, IsOwn, Kept, Shape
    <3> HIDE DEF q1
    <3>6. Kept(m2, q1, Rs, k, c) /\ TreeOK(m2, q1, r, s)
      BY <3>4 DEF Works
    <3>7. Giving(q1, r, k, c, v, f, u)
      BY <3>2, <3>5 DEF Giving
    <3> DEFINE w == Mapping(f, u, FALSE)
    <3>8. PICK q : Put(m2, q1, Map(m2, r, v, f, 1, u, FALSE), q, Rs, k, c, r, v, w)
      BY <1>2, <3>1, <3>2, <3>6, <3>7, MapPage
    <3>9. x = Map(m2, r, v, f, 1, u, FALSE)
      BY <1>1, <3>1 DEF map_got, u
    <3>10. w.mapped /\ w.phys = f /\ w.rights = u /\ ~is_wx(w.rights)
      <4>1. w.mapped /\ w.phys = f /\ w.rights = u
        BY DEF Mapping
      <4> QED BY <1>2, <4>1, Zenon
    <3> HIDE DEF w
    <3>11. Put(m2, q1, x, q, Rs, k, c, r, v, w)
      BY <3>8, <3>9
    <3>12. Works(m2, q1, x, q, Rs, k, c, r, s, {v}) /\ PagesKept(q1, q, r)
      <4>1. ~Failed(m2) /\ ~is_wx(w.rights) /\ r \in Frame
        BY <1>0, <3>1, <3>10
      <4> QED BY <3>6, <3>11, <4>1, PutWorks
    <3>13. Works(m, o, x, q, Rs, k, c, r, s, {v})
      <4>1. Works(m, o, x, q, Rs, k, c, r, s, {} \cup {v})
        BY <1>0, <3>4, <3>12, WorksOn
      <4>2. {} \cup {v} = {v}
        OBVIOUS
      <4> QED BY <4>1, <4>2
    <3>14. ASSUME Vacant(m, r, {v}), Placed(m, o, r), ~Failed(x) PROVE Placed(x, q, r)
      <4>1. Asks(m2, x, r, v, w)
        BY <3>11, <3>14 DEF Put
      <4> SUFFICES ASSUME NEW g \in Frame, q.R[g] = r, q.L[g] = -1
                   PROVE  /\ q.B[g] \in Page /\ q.B[g] < USER_LIMIT
                          /\ Asked(x.asked[r], q.B[g]).mapped /\ Asked(x.asked[r], q.B[g]).phys = g
        BY DEF Placed
      <4>2. q1.R[g] = r /\ q1.L[g] = -1 /\ q1.B[g] = q.B[g]
        BY <3>12 DEF PagesKept
      <4>3. CASE g = f
        <5>1. q.B[g] = v /\ v < USER_LIMIT
          BY <3>5, <4>2, <4>3 DEF MayMap
        <5>2. Asked(x.asked[r], v) = w
          BY <1>0, <4>1 DEF Asks
        <5> QED BY <1>0, <3>10, <4>3, <5>1, <5>2
      <4>4. CASE g # f
        <5>1. o.R[g] = r /\ o.L[g] = -1 /\ o.B[g] = q.B[g]
          BY <3>5, <4>2, <4>4
        <5>2. /\ q.B[g] \in Page /\ q.B[g] < USER_LIMIT
              /\ Asked(m.asked[r], q.B[g]).mapped /\ Asked(m.asked[r], q.B[g]).phys = g
          BY <3>14, <5>1 DEF Placed
        <5>3. q.B[g] # v
          BY <1>0, <3>14, <5>2 DEF Vacant
        <5>4. Asked(x.asked[r], q.B[g]) = Asked(m2.asked[r], q.B[g])
          BY <1>0, <4>1, <5>2, <5>3 DEF Asks
        <5> QED BY <3>1, <5>2, <5>4
      <4> QED BY <4>3, <4>4
    <3>15. Builds(m, o, x, q, Rs, k, c, r, s, {v})
      BY <3>13, <3>14 DEF Builds
    <3> QED BY <3>15 DEF x
  <2> QED BY <2>2, <2>3
<1> QED BY <1>4, <1>5

(* The shared page is mapped for reading. *)
LEMMA MapShared ==
  ASSUME NEW m, NEW o, NEW Rs, NEW k \in Rs, NEW c, Kept(m, o, Rs, k, c), ~Failed(m),
         gib \in BOOLEAN, c = clock, clock \in Frame, NEW r, NEW s, TreeOK(m, o, r, s), r # k,
         MayMap(Rs, k, r, USER_CLOCK_VA)
  PROVE  \E q : Builds(m, o, map_clock(m, r), q, Rs, k, c, r, s, {USER_CLOCK_VA})
<1> DEFINE v == USER_CLOCK_VA
           u == to_user(RO)
           x == map_clock(m, r)
           w == Mapping(clock, u, FALSE)
<1>0. IsMem(m) /\ r \in Rs /\ r \in Frame /\ v \in Page /\ Rs \subseteq Frame /\ clock \in Nat
  BY DEF Kept, Shape, MayMap, Frame
<1>1. u \in RightsT /\ ~is_wx(u) /\ ~u.write
  BY DEF to_user, RightsT, is_wx, RO
<1>2. x = Map(m, r, v, clock, 1, u, FALSE)
  BY Zenon DEF map_clock
<1> HIDE DEF u, x, v
<1>3. Giving(o, r, k, c, v, clock, u)
  BY <1>1 DEF Giving
<1>4. MayMap(Rs, k, r, v)
  BY DEF v
<1>5. PICK q : Put(m, o, x, q, Rs, k, c, r, v, w)
  BY <1>0, <1>1, <1>2, <1>3, <1>4, MapPage
<1>6. ~is_wx(w.rights)
  <2>1. w.rights = u
    BY DEF Mapping
  <2> QED BY <1>1, <2>1, Zenon
<1> HIDE DEF w
<1>7. Works(m, o, x, q, Rs, k, c, r, s, {v}) /\ PagesKept(o, q, r)
  <2>1. r \in Frame
    BY <1>0
  <2> QED BY <1>5, <1>6, <2>1, PutWorks
<1>8. ASSUME Vacant(m, r, {v}), Placed(m, o, r), ~Failed(x) PROVE Placed(x, q, r)
  <2>1. Asks(m, x, r, v, w)
    BY <1>5, <1>8 DEF Put
  <2> SUFFICES ASSUME NEW g \in Frame, q.R[g] = r, q.L[g] = -1
               PROVE  /\ q.B[g] \in Page /\ q.B[g] < USER_LIMIT
                      /\ Asked(x.asked[r], q.B[g]).mapped /\ Asked(x.asked[r], q.B[g]).phys = g
    BY DEF Placed
  <2>2. o.R[g] = r /\ o.L[g] = -1 /\ o.B[g] = q.B[g]
    BY <1>7 DEF PagesKept
  <2>3. /\ q.B[g] \in Page /\ q.B[g] < USER_LIMIT
        /\ Asked(m.asked[r], q.B[g]).mapped /\ Asked(m.asked[r], q.B[g]).phys = g
    BY <1>8, <2>2 DEF Placed
  <2>4. q.B[g] # v
    BY <1>0, <1>8, <2>3 DEF Vacant
  <2>5. Asked(x.asked[r], q.B[g]) = Asked(m.asked[r], q.B[g])
    BY <1>0, <2>1, <2>3, <2>4 DEF Asks
  <2> QED BY <2>3, <2>5
<1>9. Builds(m, o, x, q, Rs, k, c, r, s, {v})
  BY <1>7, <1>8 DEF Builds
<1> QED BY <1>9 DEF x, v

-----------------------------------------------------------------------------
(* The loops: over the pages of a segment, the segments and the cores. *)

IsPageLoop(d, j, m, s, r, seg) ==
  d = [i \in 0 .. j |-> IF i = 0 THEN m ELSE load_page(d[i - 1], s, r, seg, i)]

(* The pages of a segment, one after the other. *)
LEMMA PageLoop ==
  ASSUME NEW m, NEW s, NEW r, NEW seg, seg.pages \in Nat
  PROVE  \E d : /\ d[0] = m
                /\ \A i \in 0 .. seg.pages : i # 0 => d[i] = load_page(d[i - 1], s, r, seg, i)
                /\ load_pages(m, s, r, seg) = d[seg.pages]
<1> DEFINE F(y, i) == load_page(y, s, r, seg, i)
           Is(d, j) == IsPageLoop(d, j, m, s, r, seg)
           T == {j \in 0 .. seg.pages : \E d : Is(d, j)}
<1>1. 0 \in T
  <2> DEFINE d == [i \in 0 .. 0 |-> m]
             e == [i \in 0 .. 0 |-> IF i = 0 THEN m ELSE F(d[i - 1], i)]
  <2>1. \A i \in 0 .. 0 : i = 0
    OBVIOUS
  <2> HIDE DEF F
  <2>2. d = e
    BY <2>1, Zenon
  <2>3. Is(d, 0)
    BY <2>2, Zenon DEF IsPageLoop, F
  <2> QED BY <2>3
<1>2. ASSUME NEW j \in 0 .. seg.pages, j # seg.pages, j \in T PROVE j + 1 \in T
  <2>1. PICK d : Is(d, j)
    BY <1>2
  <2> HIDE DEF F
  <2> DEFINE e == [i \in 0 .. j + 1 |-> IF i = j + 1 THEN F(d[j], i) ELSE d[i]]
             h == [i \in 0 .. j + 1 |-> IF i = 0 THEN m ELSE F(e[i - 1], i)]
  <2>2. \A i \in 0 .. j : d[i] = IF i = 0 THEN m ELSE F(d[i - 1], i)
    BY <2>1, Zenon DEF IsPageLoop, F
  <2>3. ASSUME NEW i \in 0 .. j + 1 PROVE e[i] = h[i]
    <3>1. CASE i = j + 1
      <4>1. i - 1 = j /\ i # 0 /\ j \in 0 .. j + 1 /\ j # j + 1
        BY <3>1
      <4>2. e[j] = d[j]
        BY <4>1
      <4> QED BY <3>1, <4>1, <4>2
    <3>2. CASE i # j + 1 /\ i # 0
      <4>1. i \in 0 .. j /\ i - 1 \in 0 .. j + 1 /\ i - 1 # j + 1
        BY <3>2
      <4>2. e[i] = d[i] /\ e[i - 1] = d[i - 1]
        BY <3>2, <4>1
      <4> QED BY <2>2, <3>2, <4>1, <4>2
    <3>3. CASE i = 0
      BY <2>2, <3>3
    <3> QED BY <3>1, <3>2, <3>3
  <2>4. e = h
    <3>1. e = [i \in 0 .. j + 1 |-> e[i]] /\ h = [i \in 0 .. j + 1 |-> h[i]]
      OBVIOUS
    <3> HIDE DEF e, h
    <3> QED BY <2>3, <3>1
  <2>5. Is(e, j + 1)
    BY <2>4, Zenon DEF IsPageLoop, F
  <2> HIDE DEF e
  <2> QED BY <1>2, <2>5
<1>3. seg.pages \in T
  <2>1. seg.pages \in 0 .. seg.pages
    OBVIOUS
  <2> HIDE DEF T
  <2>2. \A j \in 0 .. seg.pages : j \in T
    BY <1>1, <1>2, UpToBound
  <2> QED BY <2>1, <2>2
<1> DEFINE d == CHOOSE x : Is(x, seg.pages)
<1>4. load_pages(m, s, r, seg) = d[seg.pages]
  BY Zenon DEF load_pages, IsPageLoop
<1>5. Is(d, seg.pages)
  BY <1>3
<1> HIDE DEF d
<1>6. \A i \in 0 .. seg.pages : d[i] = IF i = 0 THEN m ELSE F(d[i - 1], i)
  <2> HIDE DEF F
  <2> QED BY <1>5, Zenon DEF IsPageLoop, F
<1>7. 0 \in 0 .. seg.pages
  OBVIOUS
<1> HIDE DEF F
<1>8. d[0] = m /\ \A i \in 0 .. seg.pages : i # 0 => d[i] = F(d[i - 1], i)
  BY <1>6, <1>7, Zenon
<1> QED BY <1>4, <1>8 DEF F

IsSegmentLoop(d, j, m, s, r) ==
  d = [i \in 0 .. j |-> IF i = 0 THEN m ELSE load_segment(d[i - 1], s, r, image.segments[i])]

(* The segments, one after the other. *)
LEMMA SegmentLoop ==
  ASSUME NEW m, NEW s, NEW r, Len(image.segments) \in Nat
  PROVE  \E d : /\ d[0] = m
                /\ \A i \in 0 .. Len(image.segments) :
                     i # 0 => d[i] = load_segment(d[i - 1], s, r, image.segments[i])
                /\ load_segments(m, s, r) = d[Len(image.segments)]
<1> DEFINE F(y, i) == load_segment(y, s, r, image.segments[i])
           Is(d, j) == IsSegmentLoop(d, j, m, s, r)
           T == {j \in 0 .. Len(image.segments) : \E d : Is(d, j)}
<1>1. 0 \in T
  <2> DEFINE d == [i \in 0 .. 0 |-> m]
             e == [i \in 0 .. 0 |-> IF i = 0 THEN m ELSE F(d[i - 1], i)]
  <2>1. \A i \in 0 .. 0 : i = 0
    OBVIOUS
  <2> HIDE DEF F
  <2>2. d = e
    BY <2>1, Zenon
  <2>3. Is(d, 0)
    BY <2>2, Zenon DEF IsSegmentLoop, F
  <2> QED BY <2>3
<1>2. ASSUME NEW j \in 0 .. Len(image.segments), j # Len(image.segments), j \in T PROVE j + 1 \in T
  <2>1. PICK d : Is(d, j)
    BY <1>2
  <2> HIDE DEF F
  <2> DEFINE e == [i \in 0 .. j + 1 |-> IF i = j + 1 THEN F(d[j], i) ELSE d[i]]
             h == [i \in 0 .. j + 1 |-> IF i = 0 THEN m ELSE F(e[i - 1], i)]
  <2>2. \A i \in 0 .. j : d[i] = IF i = 0 THEN m ELSE F(d[i - 1], i)
    BY <2>1, Zenon DEF IsSegmentLoop, F
  <2>3. ASSUME NEW i \in 0 .. j + 1 PROVE e[i] = h[i]
    <3>1. CASE i = j + 1
      <4>1. i - 1 = j /\ i # 0 /\ j \in 0 .. j + 1 /\ j # j + 1
        BY <3>1
      <4>2. e[j] = d[j]
        BY <4>1
      <4> QED BY <3>1, <4>1, <4>2
    <3>2. CASE i # j + 1 /\ i # 0
      <4>1. i \in 0 .. j /\ i - 1 \in 0 .. j + 1 /\ i - 1 # j + 1
        BY <3>2
      <4>2. e[i] = d[i] /\ e[i - 1] = d[i - 1]
        BY <3>2, <4>1
      <4> QED BY <2>2, <3>2, <4>1, <4>2
    <3>3. CASE i = 0
      BY <2>2, <3>3
    <3> QED BY <3>1, <3>2, <3>3
  <2>4. e = h
    <3>1. e = [i \in 0 .. j + 1 |-> e[i]] /\ h = [i \in 0 .. j + 1 |-> h[i]]
      OBVIOUS
    <3> HIDE DEF e, h
    <3> QED BY <2>3, <3>1
  <2>5. Is(e, j + 1)
    BY <2>4, Zenon DEF IsSegmentLoop, F
  <2> HIDE DEF e
  <2> QED BY <1>2, <2>5
<1>3. Len(image.segments) \in T
  <2>1. Len(image.segments) \in 0 .. Len(image.segments)
    OBVIOUS
  <2> HIDE DEF T
  <2>2. \A j \in 0 .. Len(image.segments) : j \in T
    BY <1>1, <1>2, UpToBound
  <2> QED BY <2>1, <2>2
<1> DEFINE d == CHOOSE x : Is(x, Len(image.segments))
<1>4. load_segments(m, s, r) = d[Len(image.segments)]
  BY Zenon DEF load_segments, IsSegmentLoop
<1>5. Is(d, Len(image.segments))
  BY <1>3
<1> HIDE DEF d
<1>6. \A i \in 0 .. Len(image.segments) : d[i] = IF i = 0 THEN m ELSE F(d[i - 1], i)
  <2> HIDE DEF F
  <2> QED BY <1>5, Zenon DEF IsSegmentLoop, F
<1>7. 0 \in 0 .. Len(image.segments)
  OBVIOUS
<1> HIDE DEF F
<1>8. d[0] = m /\ \A i \in 0 .. Len(image.segments) : i # 0 => d[i] = F(d[i - 1], i)
  BY <1>6, <1>7, Zenon
<1> QED BY <1>4, <1>8 DEF F

IsCoreLoop(d, j, m) ==
  d = [i \in 0 .. j |-> IF i = 0 THEN m ELSE core_stack(d[i - 1])]

(* The cores, one after the other. *)
LEMMA CoreLoop ==
  ASSUME NEW m, NEW n \in Nat
  PROVE  \E d : /\ d[0] = m
                /\ \A i \in 0 .. n : i # 0 => d[i] = core_stack(d[i - 1])
                /\ core_stacks(m, n) = d[n]
<1> DEFINE F(y, i) == core_stack(y)
           Is(d, j) == IsCoreLoop(d, j, m)
           T == {j \in 0 .. n : \E d : Is(d, j)}
<1>1. 0 \in T
  <2> DEFINE d == [i \in 0 .. 0 |-> m]
             e == [i \in 0 .. 0 |-> IF i = 0 THEN m ELSE F(d[i - 1], i)]
  <2>1. \A i \in 0 .. 0 : i = 0
    OBVIOUS
  <2> HIDE DEF F
  <2>2. d = e
    BY <2>1, Zenon
  <2>3. Is(d, 0)
    BY <2>2, Zenon DEF IsCoreLoop, F
  <2> QED BY <2>3
<1>2. ASSUME NEW j \in 0 .. n, j # n, j \in T PROVE j + 1 \in T
  <2>1. PICK d : Is(d, j)
    BY <1>2
  <2> HIDE DEF F
  <2> DEFINE e == [i \in 0 .. j + 1 |-> IF i = j + 1 THEN F(d[j], i) ELSE d[i]]
             h == [i \in 0 .. j + 1 |-> IF i = 0 THEN m ELSE F(e[i - 1], i)]
  <2>2. \A i \in 0 .. j : d[i] = IF i = 0 THEN m ELSE F(d[i - 1], i)
    BY <2>1, Zenon DEF IsCoreLoop, F
  <2>3. ASSUME NEW i \in 0 .. j + 1 PROVE e[i] = h[i]
    <3>1. CASE i = j + 1
      <4>1. i - 1 = j /\ i # 0 /\ j \in 0 .. j + 1 /\ j # j + 1
        BY <3>1
      <4>2. e[j] = d[j]
        BY <4>1
      <4> QED BY <3>1, <4>1, <4>2
    <3>2. CASE i # j + 1 /\ i # 0
      <4>1. i \in 0 .. j /\ i - 1 \in 0 .. j + 1 /\ i - 1 # j + 1
        BY <3>2
      <4>2. e[i] = d[i] /\ e[i - 1] = d[i - 1]
        BY <3>2, <4>1
      <4> QED BY <2>2, <3>2, <4>1, <4>2
    <3>3. CASE i = 0
      BY <2>2, <3>3
    <3> QED BY <3>1, <3>2, <3>3
  <2>4. e = h
    <3>1. e = [i \in 0 .. j + 1 |-> e[i]] /\ h = [i \in 0 .. j + 1 |-> h[i]]
      OBVIOUS
    <3> HIDE DEF e, h
    <3> QED BY <2>3, <3>1
  <2>5. Is(e, j + 1)
    BY <2>4, Zenon DEF IsCoreLoop, F
  <2> HIDE DEF e
  <2> QED BY <1>2, <2>5
<1>3. n \in T
  <2>1. n \in 0 .. n
    OBVIOUS
  <2> HIDE DEF T
  <2>2. \A j \in 0 .. n : j \in T
    BY <1>1, <1>2, UpToBound
  <2> QED BY <2>1, <2>2
<1> DEFINE d == CHOOSE x : Is(x, n)
<1>4. core_stacks(m, n) = d[n]
  BY Zenon DEF core_stacks, IsCoreLoop
<1>5. Is(d, n)
  BY <1>3
<1> HIDE DEF d
<1>6. \A i \in 0 .. n : d[i] = IF i = 0 THEN m ELSE F(d[i - 1], i)
  <2> HIDE DEF F
  <2> QED BY <1>5, Zenon DEF IsCoreLoop, F
<1>7. 0 \in 0 .. n
  OBVIOUS
<1> HIDE DEF F
<1>8. d[0] = m /\ \A i \in 0 .. n : i # 0 => d[i] = F(d[i - 1], i)
  BY <1>6, <1>7, Zenon
<1> QED BY <1>4, <1>8 DEF F

(* The pages of the first n segments. *)
PagesUpTo(n) == UNION {PagesOf(image.segments[i]) : i \in 1 .. n}

(* The pages of a segment are given to the program. *)
LEMMA LoadPages ==
  ASSUME NEW m, NEW o, NEW Rs, NEW k \in Rs, NEW c, Kept(m, o, Rs, k, c), gib \in BOOLEAN,
         NEW r \in Rs, NEW s, TreeOK(m, o, r, s), r # k, NEW seg \in Segment, ~is_wx(seg),
         seg.vaddr + seg.pages <= USER_LIMIT
  PROVE  \E q : Builds(m, o, load_pages(m, s, r, seg), q, Rs, k, c, r, s, PagesOf(seg))
<1>0. /\ seg.vaddr \in Nat /\ seg.pages \in Nat /\ seg.write \in BOOLEAN /\ seg.exec \in BOOLEAN
      /\ IsMem(m) /\ r \in Frame
  BY DEF Segment, Kept, Shape
<1>1. PICK d : /\ d[0] = m
               /\ \A i \in 0 .. seg.pages : i # 0 => d[i] = load_page(d[i - 1], s, r, seg, i)
               /\ load_pages(m, s, r, seg) = d[seg.pages]
  BY <1>0, PageLoop
<1> DEFINE a == seg.vaddr
           V(i) == a .. a + i - 1
           T == {i \in 0 .. seg.pages : \E q : Builds(m, o, d[i], q, Rs, k, c, r, s, V(i))}
<1>2. 0 \in T
  <2>1. Builds(m, o, m, o, Rs, k, c, r, s, V(0))
    BY <1>0, WorksNot
  <2> QED BY <1>0, <1>1, <2>1
<1>3. ASSUME NEW i \in 0 .. seg.pages, i # seg.pages, i \in T PROVE i + 1 \in T
  <2>1. PICK p : Builds(m, o, d[i], p, Rs, k, c, r, s, V(i))
    BY <1>3
  <2> DEFINE v == a + i
             rt == [write |-> seg.write, exec |-> seg.exec, user |-> TRUE]
  <2>2. i + 1 \in 0 .. seg.pages /\ i + 1 # 0 /\ i + 1 - 1 = i /\ v \in Nat
        /\ a + (i + 1) - 1 = v /\ i \in Nat
    BY <1>0, <1>3
  <2>3. d[i + 1] = load_page(d[i], s, r, seg, i + 1)
    BY <1>1, <2>2
  <2>4. Kept(d[i], p, Rs, k, c) /\ TreeOK(d[i], p, r, s)
    BY <2>1 DEF Builds, Works
  <2>5. rt \in RightsT /\ ~is_wx(rt)
    BY <1>0 DEF RightsT, is_wx
  <2> HIDE DEF rt, v
  <2>6. v < USER_LIMIT /\ v \in Page
    <3>1. USER_LIMIT \in Nat /\ USER_LIMIT < level_size(4) /\ level_size(4) \in Nat
      BY UserBlock, SizeNat
    <3>2. v < USER_LIMIT
      BY <1>0, <1>3, <3>1 DEF v
    <3> QED BY <2>2, <3>1, <3>2 DEF Page, Top
  <2>7. MayMap(Rs, k, r, v)
    BY <2>6 DEF MayMap
  <2>8. \E q : Builds(d[i], p, d[i + 1], q, Rs, k, c, r, s, {v})
    <3>1. CASE Failed(d[i])
      <4>1. d[i + 1] = d[i]
        BY <2>3, <3>1 DEF load_page
      <4>2. IsMem(d[i])
        BY <2>4 DEF Kept, Shape
      <4>3. Builds(d[i], p, d[i], p, Rs, k, c, r, s, {v})
        BY <2>4, <4>2, WorksNot
      <4> QED BY <4>1, <4>3
    <3>2. CASE ~Failed(d[i])
      <4>1. d[i + 1] = map_fresh(d[i], s, r, v, rt)
        BY <2>2, <2>3, <3>2 DEF load_page, rt
      <4> QED BY <2>4, <2>5, <2>7, <4>1, MapFresh
    <3> QED BY <3>1, <3>2
  <2>9. PICK q : Builds(d[i], p, d[i + 1], q, Rs, k, c, r, s, {v})
    BY <2>8
  <2>10. V(i) \cap {v} = {} /\ V(i) \cup {v} = V(i + 1)
    BY <1>0, <2>2 DEF v
  <2> HIDE DEF V
  <2>11. Builds(m, o, d[i + 1], q, Rs, k, c, r, s, V(i) \cup {v})
    BY <1>0, <2>1, <2>9, <2>10, BuildsOn
  <2> QED BY <2>2, <2>10, <2>11
<1>4. seg.pages \in T
  <2>1. seg.pages \in 0 .. seg.pages
    BY <1>0
  <2> HIDE DEF T
  <2>2. \A i \in 0 .. seg.pages : i \in T
    BY <1>0, <1>2, <1>3, UpToBound
  <2> QED BY <2>1, <2>2
<1>5. V(seg.pages) = PagesOf(seg)
  BY DEF PagesOf
<1> QED BY <1>1, <1>4, <1>5

(* A segment that is accepted is given to the program; one that is refused  *)
(* leaves things as they are.                                               *)
LEMMA LoadSegment ==
  ASSUME NEW m, NEW o, NEW Rs, NEW k \in Rs, NEW c, Kept(m, o, Rs, k, c), gib \in BOOLEAN,
         NEW r \in Rs, NEW s, TreeOK(m, o, r, s), r # k, NEW seg \in Segment
  PROVE  \E q : Builds(m, o, load_segment(m, s, r, seg), q, Rs, k, c, r, s, PagesOf(seg))
<1> DEFINE x == load_segment(m, s, r, seg)
<1>0. IsMem(m) /\ seg.vaddr \in Nat /\ seg.pages \in Nat
  BY DEF Kept, Shape, Segment
<1>1. CASE Failed(m)
  <2>1. x = m
    BY <1>1 DEF load_segment
  <2>2. Builds(m, o, m, o, Rs, k, c, r, s, PagesOf(seg))
    BY <1>0, WorksNot
  <2> QED BY <2>1, <2>2
<1>2. CASE ~Failed(m) /\ (is_wx(seg) \/ seg.vaddr >= USER_LIMIT \/ seg.pages > USER_LIMIT - seg.vaddr)
  <2> DEFINE y == Fail(m, "Refused")
  <2>1. x = y
    BY <1>2 DEF load_segment
  <2>2. IsMem(y) /\ y.table = m.table /\ y.bytes = m.bytes /\ y.pool = m.pool /\ y.inUse = m.inUse
        /\ y.asked = m.asked
    BY <1>0, FailIs
  <2> HIDE DEF y
  <2>3. Builds(m, o, y, o, Rs, k, c, r, s, PagesOf(seg))
    BY <1>2, <2>2, WorksNot
  <2> QED BY <2>1, <2>3
<1>3. CASE ~Failed(m) /\ ~(is_wx(seg) \/ seg.vaddr >= USER_LIMIT \/ seg.pages > USER_LIMIT - seg.vaddr)
  <2>1. x = load_pages(m, s, r, seg)
    BY <1>3 DEF load_segment
  <2>2. ~is_wx(seg) /\ seg.vaddr + seg.pages <= USER_LIMIT
    BY <1>0, <1>3, UserBlock
  <2> QED BY <2>1, <2>2, LoadPages
<1> QED BY <1>1, <1>2, <1>3

(* No two segments have a page in common. *)
SegmentsApart ==
  \A i, j \in 1 .. Len(image.segments) :
    i # j => PagesOf(image.segments[i]) \cap PagesOf(image.segments[j]) = {}

(* The loader's work: the pages of all the segments, and an entry point     *)
(* below the limit.                                                         *)
LEMMA LoadWorks ==
  ASSUME NEW m, NEW o, NEW Rs, NEW k \in Rs, NEW c, Kept(m, o, Rs, k, c), gib \in BOOLEAN,
         NEW r \in Rs, NEW s, TreeOK(m, o, r, s), r # k, image.segments \in Seq(Segment)
  PROVE  LET V == PagesUpTo(Len(image.segments))
             x == load(m, s, r)
         IN  \E q : /\ Works(m, o, x, q, Rs, k, c, r, s, V)
                    /\ SegmentsApart => Builds(m, o, x, q, Rs, k, c, r, s, V)
<1> DEFINE n == Len(image.segments)
           seg(i) == image.segments[i]
<1>0. n \in Nat /\ IsMem(m) /\ r \in Frame /\ \A i \in 1 .. n : seg(i) \in Segment
  BY DEF Kept, Shape
<1>1. PICK d : /\ d[0] = m
               /\ \A i \in 0 .. n : i # 0 => d[i] = load_segment(d[i - 1], s, r, seg(i))
               /\ load_segments(m, s, r) = d[n]
  BY <1>0, SegmentLoop
<1> DEFINE P(i, q) == /\ Works(m, o, d[i], q, Rs, k, c, r, s, PagesUpTo(i))
                      /\ SegmentsApart => Builds(m, o, d[i], q, Rs, k, c, r, s, PagesUpTo(i))
           T == {i \in 0 .. n : \E q : P(i, q)}
<1>2. 0 \in T
  <2>1. Builds(m, o, m, o, Rs, k, c, r, s, PagesUpTo(0))
    BY <1>0, WorksNot
  <2>2. P(0, o)
    BY <1>1, <2>1 DEF Builds
  <2> QED BY <1>0, <2>2
<1>3. ASSUME NEW i \in 0 .. n, i # n, i \in T PROVE i + 1 \in T
  <2>1. PICK p : P(i, p)
    BY <1>3
  <2>2. i + 1 \in 0 .. n /\ i + 1 \in 1 .. n /\ i + 1 # 0 /\ i + 1 - 1 = i /\ i \in Nat
    BY <1>0, <1>3
  <2>3. d[i + 1] = load_segment(d[i], s, r, seg(i + 1)) /\ seg(i + 1) \in Segment
    BY <1>0, <1>1, <2>2
  <2>4. Kept(d[i], p, Rs, k, c) /\ TreeOK(d[i], p, r, s)
    BY <2>1 DEF Works
  <2> HIDE DEF seg
  <2>5. PICK q : Builds(d[i], p, d[i + 1], q, Rs, k, c, r, s, PagesOf(seg(i + 1)))
    BY <2>3, <2>4, LoadSegment
  <2>6. PagesUpTo(i) \cup PagesOf(seg(i + 1)) = PagesUpTo(i + 1)
    <3>1. 1 .. i + 1 = (1 .. i) \cup {i + 1}
      BY <2>2
    <3> QED BY <3>1 DEF PagesUpTo, seg
  <2>7. Works(m, o, d[i + 1], q, Rs, k, c, r, s, PagesUpTo(i) \cup PagesOf(seg(i + 1)))
    BY <1>0, <2>1, <2>5, WorksOn DEF Builds
  <2>8. ASSUME SegmentsApart
        PROVE  Builds(m, o, d[i + 1], q, Rs, k, c, r, s, PagesUpTo(i) \cup PagesOf(seg(i + 1)))
    <3>1. PagesUpTo(i) \cap PagesOf(seg(i + 1)) = {}
      <4>1. \A j \in 1 .. i : j \in 1 .. n /\ j # i + 1
        BY <1>0, <2>2
      <4> SUFFICES ASSUME NEW y \in PagesUpTo(i), y \in PagesOf(seg(i + 1)) PROVE FALSE
        OBVIOUS
      <4>2. PICK j \in 1 .. i : y \in PagesOf(image.segments[j])
        BY Zenon DEF PagesUpTo
      <4>3. PagesOf(image.segments[j]) \cap PagesOf(image.segments[i + 1]) = {}
        BY <2>2, <2>8, <4>1 DEF SegmentsApart, n
      <4> QED BY <4>2, <4>3 DEF seg
    <3> QED BY <1>0, <2>1, <2>5, <2>8, <3>1, BuildsOn
  <2>9. P(i + 1, q)
    BY <2>6, <2>7, <2>8
  <2> QED BY <2>2, <2>9
<1>4. n \in T
  <2>1. n \in 0 .. n
    BY <1>0
  <2> HIDE DEF T, n
  <2>2. \A i \in 0 .. n : i \in T
    BY <1>0, <1>2, <1>3, UpToBound
  <2> QED BY <2>1, <2>2
<1>5. PICK q : P(n, q)
  BY <1>4
<1> DEFINE y == load_segments(m, s, r)
           x == load(m, s, r)
<1>6. /\ Works(m, o, y, q, Rs, k, c, r, s, PagesUpTo(n))
      /\ SegmentsApart => Builds(m, o, y, q, Rs, k, c, r, s, PagesUpTo(n))
  BY <1>1, <1>5
<1>7. IsMem(y) /\ Kept(y, q, Rs, k, c) /\ TreeOK(y, q, r, s)
  BY <1>6 DEF Works, Kept, Shape
<1>8. x = check_entry(y)
  BY Zenon DEF load
<1> HIDE DEF y, x
<1>9. Builds(y, q, x, q, Rs, k, c, r, s, {})
  <2>1. CASE x = y
    BY <1>7, <2>1, WorksNot
  <2>2. CASE x = Fail(y, "Refused") /\ ~Failed(y)
    <3> DEFINE f == Fail(y, "Refused")
    <3>1. IsMem(f) /\ f.table = y.table /\ f.bytes = y.bytes /\ f.pool = y.pool /\ f.inUse = y.inUse
          /\ f.asked = y.asked
      BY <1>7, FailIs
    <3> HIDE DEF f
    <3>2. Builds(y, q, f, q, Rs, k, c, r, s, {})
      BY <1>7, <2>2, <3>1, WorksNot
    <3> QED BY <2>2, <3>2 DEF f
  <2> QED BY <1>8, <2>1, <2>2 DEF check_entry
<1>10. PagesUpTo(n) \cup {} = PagesUpTo(n) /\ PagesUpTo(n) \cap {} = {}
  OBVIOUS
<1> HIDE DEF n
<1>11. Works(m, o, x, q, Rs, k, c, r, s, PagesUpTo(n) \cup {})
  BY <1>0, <1>6, <1>9, WorksOn DEF Builds
<1>12. SegmentsApart => Builds(m, o, x, q, Rs, k, c, r, s, PagesUpTo(n) \cup {})
  BY <1>0, <1>6, <1>9, <1>10, BuildsOn
<1> QED BY <1>10, <1>11, <1>12 DEF n, x

(* Sets of frames are finite, and the pool is one. *)
LEMMA FramesFinite ==
  ASSUME NEW S, S \subseteq Frame
  PROVE  IsFiniteSet(S)
<1>1. IsFiniteSet(Frame)
  BY FS_Interval, Numbers DEF Frame
<1> QED BY <1>1, FS_Subset

(* The pool is finite. *)
LEMMA PoolFinite ==
  ASSUME NEW m, IsMem(m)
  PROVE  IsFiniteSet(m.pool)
BY FramesFinite DEF IsMem

(* Taking a run of frames leaves the ledger as it was. *)
LEMMA LedgerRun ==
  ASSUME NEW m, IsMem(m), NEW x, IsMem(x), NEW f \in Nat, NEW n \in Nat \ {0},
         f .. f + n - 1 \subseteq m.pool, x.pool = m.pool \ (f .. f + n - 1),
         x.inUse = m.inUse + n
  PROVE  Ledger(x) = Ledger(m)
<1> DEFINE S == f .. f + n - 1
<1>1. IsFiniteSet(m.pool)
  BY PoolFinite
<1>2. Cardinality(S) = n
  BY FS_Interval
<1>3. m.pool \cap S = S
  OBVIOUS
<1> HIDE DEF S
<1>4. Cardinality(m.pool \ S) = Cardinality(m.pool) - n /\ Cardinality(m.pool) \in Nat
  <2>1. Cardinality(m.pool \ S) = Cardinality(m.pool) - Cardinality(m.pool \cap S)
    BY <1>1, FS_Difference
  <2>2. Cardinality(m.pool) \in Nat
    BY <1>1, FS_CardinalityType
  <2> QED BY <1>2, <1>3, <2>1, <2>2
<1> QED BY <1>4 DEF Ledger, IsMem, S

(* From m to x frames were taken that are no tree's, and nothing else moved. *)
Takes(m, x) ==
  /\ IsMem(x) /\ ~Failed(x) /\ x.table = m.table /\ x.asked = m.asked /\ x.bytes = m.bytes
  /\ x.pool \subseteq m.pool /\ Ledger(x) = Ledger(m)

(* A core is given a stack, or goes without. *)
LEMMA CoreStack ==
  ASSUME NEW m, IsMem(m), ~Failed(m)
  PROVE  Takes(m, core_stack(m))
<1> DEFINE n == StackPages
           y == alloc_frames(m, n)
           x == Settled(y)
<1>1. n \in Nat \ {0}
  BY AddressSpaceAssumption
<1>2. /\ IsMem(y) /\ y.table = m.table /\ y.bytes = m.bytes /\ y.asked = m.asked
      /\ \/ Failed(y) /\ y.pool = m.pool /\ y.inUse = m.inUse
         \/ /\ ~Failed(y) /\ y.got \in m.pool
            /\ y.got .. y.got + n - 1 \subseteq m.pool
            /\ y.pool = m.pool \ (y.got .. y.got + n - 1)
            /\ y.inUse = m.inUse + n
  BY <1>1, AllocIs
<1> HIDE DEF n, y
<1>3. /\ IsMem(x) /\ x.table = y.table /\ x.bytes = y.bytes /\ x.pool = y.pool
      /\ x.inUse = y.inUse /\ x.asked = y.asked /\ ~Failed(x)
  BY <1>2, SettledIs
<1>4. core_stack(m) = x
  BY Zenon DEF core_stack, y, n
<1> HIDE DEF x
<1>5. Ledger(x) = Ledger(m)
  <2>1. CASE Failed(y)
    BY <1>2, <1>3, <2>1 DEF Ledger
  <2>2. CASE ~Failed(y)
    <3>1. y.got \in Nat
      BY <1>2 DEF IsMem, Frame
    <3> QED BY <1>1, <1>2, <1>3, <2>2, <3>1, LedgerRun
  <2> QED BY <2>1, <2>2
<1> QED BY <1>2, <1>3, <1>4, <1>5 DEF Takes

(* So are they all. *)
LEMMA CoreStacks ==
  ASSUME NEW m, IsMem(m), ~Failed(m), NEW n \in Nat
  PROVE  Takes(m, core_stacks(m, n))
<1>1. PICK d : /\ d[0] = m
               /\ \A i \in 0 .. n : i # 0 => d[i] = core_stack(d[i - 1])
               /\ core_stacks(m, n) = d[n]
  BY CoreLoop
<1> DEFINE T == {i \in 0 .. n : Takes(m, d[i])}
<1>2. 0 \in T
  BY <1>1 DEF Takes
<1>3. ASSUME NEW i \in 0 .. n, i # n, i \in T PROVE i + 1 \in T
  <2>1. i + 1 \in 0 .. n /\ i + 1 # 0 /\ i + 1 - 1 = i
    BY <1>3
  <2>2. d[i + 1] = core_stack(d[i])
    BY <1>1, <2>1
  <2>3. IsMem(d[i]) /\ ~Failed(d[i])
    BY <1>3 DEF Takes
  <2>4. Takes(d[i], d[i + 1])
    BY <2>2, <2>3, CoreStack
  <2>5. Takes(m, d[i + 1])
    BY <1>3, <2>4 DEF Takes
  <2> QED BY <2>1, <2>5
<1>4. n \in T
  <2>1. n \in 0 .. n
    OBVIOUS
  <2> HIDE DEF T
  <2>2. \A i \in 0 .. n : i \in T
    BY <1>2, <1>3, UpToBound
  <2> QED BY <2>1, <2>2
<1> QED BY <1>1, <1>4

-----------------------------------------------------------------------------
(* The kernel's tree is built. *)

(* A memory that has failed is left alone. *)
LEMMA MapFailed ==
  ASSUME NEW m, Failed(m), NEW root, NEW v, NEW p, NEW n \in Nat, NEW rt, NEW device \in BOOLEAN,
         NEW g \in BOOLEAN
  PROVE  map_as(m, root, v, p, n, rt, device, g) = m
<1>0. PICK d : Looped(d, m, root, v, p, n, rt, device, g)
  BY Rounds
<1>1. /\ d[0] = [m |-> m, at |-> 0]
      /\ \A i \in 0 .. n : i # 0 => d[i] = map_next(d[i - 1], root, v, p, n, rt, device, g)
      /\ map_as(m, root, v, p, n, rt, device, g) = d[n].m
  BY <1>0 DEF Looped
<1> DEFINE T == {i \in 0 .. n : d[i] = [m |-> m, at |-> 0]}
<1>2. 0 \in T
  BY <1>1
<1>3. ASSUME NEW i \in 0 .. n, i # n, i \in T PROVE i + 1 \in T
  <2>1. i + 1 \in 0 .. n /\ i + 1 # 0 /\ i + 1 - 1 = i
    BY <1>3
  <2>2. d[i + 1] = map_next(d[i], root, v, p, n, rt, device, g)
    BY <1>1, <2>1
  <2>3. d[i].m = m
    BY <1>3
  <2>4. d[i + 1] = d[i]
    BY <2>2, <2>3 DEF map_next
  <2> QED BY <1>3, <2>1, <2>4
<1>4. n \in T
  <2>1. n \in 0 .. n
    OBVIOUS
  <2> HIDE DEF T
  <2>2. \A i \in 0 .. n : i \in T
    BY <1>2, <1>3, UpToBound
  <2> QED BY <2>1, <2>2
<1> QED BY <1>1, <1>4

(* What is asked of the kernel's tree: nothing below the user limit but the *)
(* pages of X, nothing for ring 3 above it, and nothing to both write and   *)
(* execute but pages of X.                                                  *)
Upper(m, k, X) ==
  \A y \in Page :
    /\ Asked(m.asked[k], y).mapped => y >= USER_LIMIT \/ y \in X
    /\ y >= USER_LIMIT => ~Asked(m.asked[k], y).rights.user
    /\ is_wx(Asked(m.asked[k], y).rights) => y \in X

(* The kernel's tree grew from m to x, by frames of the pool. *)
KernelGrows(m, o, x, q, Rs, k, c) == Moves(m, o, x, q, k) /\ Kept(x, q, Rs, k, c)

(* A range is mapped in the linear map. *)
Run(m, o, x, q, Rs, k, c, v, p, n, rt, f, h) ==
  /\ KernelGrows(m, o, x, q, Rs, k, c) /\ ~Failed(x)
  /\ AsksRange(m, x, k, v, n, p, rt, FALSE) /\ Frontier(q, k, f, h)

(* A call for a range of the linear map: it is mapped, or the call fails. *)
LEMMA MapRun ==
  ASSUME NEW m, NEW o, NEW Rs, NEW k, Rs = {k}, NEW c, Kept(m, o, Rs, k, c), ~Failed(m),
         gib \in BOOLEAN, NEW v \in Nat, NEW p \in Nat, NEW n \in Nat, InLinear(v, n),
         NEW rt \in RightsT, NEW f \in Nat, f <= v, NEW h, h = (IF gib THEN 2 ELSE 1),
         Frontier(o, k, f, h)
  PROVE  LET x == Map(m, k, v, p, n, rt, FALSE)
         IN  \/ Failed(x)
             \/ \E q : Run(m, o, x, q, Rs, k, c, v, p, n, rt,
                           IF Even(v, p, n, level_size(h)) THEN f ELSE v + n, h)
<1> DEFINE e == IF Even(v, p, n, level_size(h)) THEN f ELSE v + n
           d == FALSE
           a == AskedFn(m)
           y == map_as(m, k, v, p, n, rt, d, gib)
           x == Map(m, k, v, p, n, rt, d)
<1>0. d \in BOOLEAN /\ IsMem(m) /\ k \in Frame /\ Rs \subseteq Frame /\ Shape(m, o, a, Rs, k, c)
  BY DEF Kept, Shape
<1> HIDE DEF d
<1>1. \/ Failed(y)
      \/ \E q : Ranged(m, o, y, q, Filled(a, k, v, n, p, rt, d), Rs, k, c, e, h)
  BY <1>0, MapRange
<1>2. x = Noted(y, k, Stretch(v, n, p, rt, d))
  BY Zenon DEF Map, Stretch
<1> HIDE DEF x, y, e, a
<1>3. CASE Failed(y)
  <2>1. x = y
    BY <1>2, <1>3 DEF Noted
  <2> QED BY <1>3, <2>1 DEF x, d
<1>4. CASE ~Failed(y)
  <2>1. PICK q : Ranged(m, o, y, q, Filled(a, k, v, n, p, rt, d), Rs, k, c, e, h)
    BY <1>1, <1>4
  <2>2. /\ Grows(m, o, y, q, k) /\ Shape(y, q, Filled(a, k, v, n, p, rt, d), Rs, k, c)
        /\ Frontier(q, k, e, h) /\ IsMem(y)
    BY <2>1 DEF Ranged, Shape
  <2>3. y.asked = m.asked
    BY <2>2 DEF Grows
  <2>4. AskedFn(y) = a
    BY <2>3, Zenon DEF AskedFn, a
  <2>5. /\ IsMem(x) /\ x.table = y.table /\ x.bytes = y.bytes /\ x.pool = y.pool
        /\ x.inUse = y.inUse /\ x.err = y.err
    <3>1. PICK s : s = Stretch(v, n, p, rt, d)
      OBVIOUS
    <3>2. x = Noted(y, k, s)
      BY <1>2, <3>1
    <3> QED BY <1>0, <1>4, <2>2, <3>2, NotedIs
  <2>6. Shape(x, q, AskedFn(x), Rs, k, c)
    <3>1. Shape(y, q, Filled(AskedFn(y), k, v, n, p, rt, d), Rs, k, c)
      BY <2>2, <2>4
    <3>2. SameAsked(Filled(AskedFn(y), k, v, n, p, rt, d), AskedFn(x), Rs)
      BY <1>0, <1>2, <1>4, <2>2, NotedFilled
    <3>3. Shape(y, q, AskedFn(x), Rs, k, c)
      BY <3>1, <3>2, ShapeSame
    <3> QED BY <2>5, <3>3, ShapeCopied
  <2>7. AsksRange(m, x, k, v, n, p, rt, d)
    <3>1. AsksRange(y, x, k, v, n, p, rt, d)
      BY <1>0, <1>2, <1>4, <2>2, NotedAsked
    <3> QED BY <2>3, <3>1 DEF AsksRange
  <2>8. Moves(m, o, x, q, k)
    BY <2>2, <2>5 DEF Grows, Moves, Ledger
  <2>9. ~Failed(x)
    BY <1>4, <2>5 DEF Failed
  <2>10. Run(m, o, x, q, Rs, k, c, v, p, n, rt, e, h)
    BY <2>2, <2>6, <2>7, <2>8, <2>9 DEF Run, KernelGrows, Kept, d
  <2> QED BY <2>10 DEF x, d, e
<1> QED BY <1>3, <1>4

(* A multiple of b is one of a if b is. *)
LEMMA MultipleOf ==
  ASSUME NEW q \in Nat, NEW b \in Nat \ {0}, NEW d \in Nat
  PROVE  (q * b) % b = 0 /\ (q * (b * d)) % b = 0
<1>1. 0 \in 0 .. b - 1 /\ q * d \in Nat
  OBVIOUS
<1>2. (q * b + 0) % b = 0 /\ ((q * d) * b + 0) % b = 0
  BY <1>1, QuotientOf
<1>3. q * b + 0 = q * b /\ (q * d) * b + 0 = q * (b * d)
  OBVIOUS
<1> QED BY <1>2, <1>3

(* The linear map is made of whole large pages of either size. *)
LEMMA LinearEven ==
  /\ LinearPages \in Nat /\ LinearPages <= level_size(3)
  /\ PHYS_MAP_BASE \in Nat /\ PHYS_MAP_BASE = USER_LIMIT
  /\ \A h \in 1 .. 2 : Even(PHYS_MAP_BASE, 0, LinearPages, level_size(h))
<1> DEFINE s == level_size(1)
           g == level_size(2)
           t == level_size(3)
           n == (Frames + g - 1) \div g
<1>1. s \in Nat \ {0} /\ g \in Nat \ {0} /\ t \in Nat \ {0} /\ Fan \in Nat /\ KernelFirst \in Nat
      /\ Frames \in Nat \ {0}
  BY SizeNat, Numbers
<1>2. g = s * Fan /\ t = g * Fan
  <2>1. level_size(1 + 1) = level_size(1) * Fan /\ level_size(2 + 1) = level_size(2) * Fan
    BY Sizes
  <2> QED BY <2>1
<1>3. LinearPages = n * g /\ PHYS_MAP_BASE = KernelFirst * t /\ LinearPages <= t
      /\ PHYS_MAP_BASE = USER_LIMIT
  BY MachinesAssumption DEF LinearPages, PHYS_MAP_BASE, USER_LIMIT, Top
<1> HIDE DEF s, g, t
<1>4. n \in Nat
  <2>1. Frames + g - 1 \in Nat
    BY <1>1
  <2> QED BY <1>1, <2>1, Quotient
<1> HIDE DEF n
<1>5. (n * g) % g = 0 /\ (n * g) % s = 0
  BY <1>1, <1>2, <1>4, MultipleOf
<1>6. (KernelFirst * t) % g = 0
  BY <1>1, <1>2, MultipleOf
<1>7. (KernelFirst * t) % s = 0
  <2>1. Fan * Fan \in Nat /\ t = s * (Fan * Fan)
    BY <1>1, <1>2
  <2> QED BY <1>1, <2>1, MultipleOf
<1>8. n * g \in Nat /\ KernelFirst * t \in Nat /\ 0 % g = 0 /\ 0 % s = 0
  BY <1>1, <1>4
<1>9. Even(PHYS_MAP_BASE, 0, LinearPages, g) /\ Even(PHYS_MAP_BASE, 0, LinearPages, s)
  BY <1>3, <1>5, <1>6, <1>7, <1>8 DEF Even
<1>10. \A h \in 1 .. 2 : h = 1 \/ h = 2
  OBVIOUS
<1>11. \A h \in 1 .. 2 : Even(PHYS_MAP_BASE, 0, LinearPages, level_size(h))
  BY <1>9, <1>10 DEF s, g
<1> QED BY <1>3, <1>8, <1>11 DEF t

(* The pages of the linear map's root slot. *)
LEMMA LinearRange ==
  ASSUME NEW a \in Nat, NEW n \in Nat, a + n <= level_size(3)
  PROVE  InLinear(PHYS_MAP_BASE + a, n)
<1> DEFINE S == level_size(3)
<1>1. S \in Nat \ {0} /\ level_size(4) = S * Fan /\ KernelFirst \in Nat /\ Fan \in Nat
      /\ KernelFirst + 1 <= Fan /\ PHYS_MAP_BASE = KernelFirst * S /\ level_size(4) \in Nat
  BY Sizes, Numbers DEF PHYS_MAP_BASE, Top
<1> HIDE DEF S
<1>2. ASSUME NEW y \in PHYS_MAP_BASE + a .. PHYS_MAP_BASE + a + n - 1
      PROVE  y \in Page /\ Block(y, 3) = KernelFirst
  <2>1. PICK j : j = y - KernelFirst * S
    OBVIOUS
  <2>2. j \in 0 .. S - 1 /\ y = KernelFirst * S + j /\ y \in Nat
    BY <1>1, <1>2, <2>1 DEF S
  <2>3. y \div S = KernelFirst
    BY <1>1, <2>2, QuotientOf
  <2>4. y < S * Fan
    <3>1. (KernelFirst + 1) * S <= Fan * S
      BY <1>1, Multiples
    <3> QED BY <1>1, <2>2, <3>1
  <2> QED BY <1>1, <2>2, <2>3, <2>4 DEF Page, Block, Top, S
<1> QED BY <1>2 DEF InLinear

(* The pages of the image, in the last root slot. *)
LEMMA ImagePage ==
  ASSUME NEW j \in 0 .. 4
  PROVE  /\ IMAGE_BASE + j \in Page /\ IMAGE_BASE + j \in Nat /\ IMAGE_BASE + j >= USER_LIMIT
         /\ Block(IMAGE_BASE + j, 3) # KernelFirst
<1> DEFINE S == level_size(3)
           v == IMAGE_BASE + j
<1>1. S \in Nat \ {0} /\ level_size(4) = S * Fan /\ KernelFirst \in Nat /\ Fan \in Nat /\ Fan >= 4
      /\ KernelFirst < Fan - 1 /\ IMAGE_BASE = (Fan - 1) * S /\ level_size(4) \in Nat
      /\ USER_LIMIT = KernelFirst * S
  BY Sizes, Numbers DEF IMAGE_BASE, USER_LIMIT, Top
<1>2. S > 4
  <2>1. level_size(0 + 1) = level_size(0) * Fan /\ level_size(1 + 1) = level_size(1) * Fan
        /\ level_size(2 + 1) = level_size(2) * Fan /\ level_size(0) = 1
    BY Sizes
  <2>2. S = (Fan * Fan) * Fan
    BY <1>1, <2>1
  <2>3. Fan * Fan >= 16
    BY <1>1
  <2>4. PICK q \in Nat : q = Fan * Fan
    BY <1>1
  <2> QED BY <1>1, <2>2, <2>3, <2>4
<1> HIDE DEF S
<1>3. (Fan - 1) * S \in Nat /\ j \in 0 .. S - 1 /\ Fan - 1 \in Nat
  BY <1>1, <1>2
<1>4. v \div S = Fan - 1
  BY <1>1, <1>3, QuotientOf
<1>5. v < S * Fan
  <2>1. (Fan - 1) * S + S = S * Fan
    BY <1>1
  <2> QED BY <1>1, <1>3, <2>1
<1>6. v \in Nat /\ v \in Page
  BY <1>1, <1>3, <1>5 DEF Page, Top
<1>7. v >= USER_LIMIT
  <2>1. KernelFirst * S <= (Fan - 1) * S
    BY <1>1, Multiples
  <2> QED BY <1>1, <1>3, <2>1
<1>8. Block(v, 3) # KernelFirst
  BY <1>1, <1>4 DEF Block, S
<1> QED BY <1>6, <1>7, <1>8

(* A range above the limit that ring 3 may not touch leaves the rest to say. *)
LEMMA UpperRange ==
  ASSUME NEW m, NEW x, NEW k \in Frame, NEW X, Upper(m, k, X), NEW v \in Nat, NEW n \in Nat, NEW p,
         NEW rt, ~rt.user, ~is_wx(rt), v >= USER_LIMIT, AsksRange(m, x, k, v, n, p, rt, FALSE)
  PROVE  Upper(x, k, X)
<1> SUFFICES ASSUME NEW y \in Page
             PROVE  /\ Asked(x.asked[k], y).mapped => y >= USER_LIMIT \/ y \in X
                    /\ y >= USER_LIMIT => ~Asked(x.asked[k], y).rights.user
                    /\ is_wx(Asked(x.asked[k], y).rights) => y \in X
  BY DEF Upper
<1>1. CASE y \in v .. v + n - 1
  <2>1. Asked(x.asked[k], y) = Mapping(p + (y - v), rt, FALSE)
    BY <1>1 DEF AsksRange
  <2>2. Mapping(p + (y - v), rt, FALSE).rights = rt
    BY DEF Mapping
  <2>3. y >= USER_LIMIT
    BY <1>1, UserBlock
  <2>4. Asked(x.asked[k], y).rights = rt
    BY <2>1, <2>2
  <2> QED BY <2>3, <2>4
<1>2. CASE y \notin v .. v + n - 1
  <2>1. Asked(x.asked[k], y) = Asked(m.asked[k], y)
    BY <1>2 DEF AsksRange
  <2> QED BY <2>1 DEF Upper
<1> QED BY <1>1, <1>2

(* One page more or less, in the kernel's tree. *)
LEMMA UpperPage ==
  ASSUME NEW m, NEW x, NEW k \in Frame, NEW X, Upper(m, k, X), NEW v \in Page, NEW w,
         Asks(m, x, k, v, w), NEW Y, \A y \in X : y # v => y \in Y,
         w.mapped => v >= USER_LIMIT \/ v \in Y, v >= USER_LIMIT => ~w.rights.user,
         is_wx(w.rights) => v \in Y
  PROVE  Upper(x, k, Y)
<1> SUFFICES ASSUME NEW y \in Page
             PROVE  /\ Asked(x.asked[k], y).mapped => y >= USER_LIMIT \/ y \in Y
                    /\ y >= USER_LIMIT => ~Asked(x.asked[k], y).rights.user
                    /\ is_wx(Asked(x.asked[k], y).rights) => y \in Y
  BY DEF Upper
<1>1. CASE y = v
  <2>1. Asked(x.asked[k], y) = w
    BY <1>1 DEF Asks
  <2> QED BY <1>1, <2>1
<1>2. CASE y # v
  <2>1. Asked(x.asked[k], y) = Asked(m.asked[k], y)
    BY <1>2 DEF Asks
  <2> QED BY <1>2, <2>1 DEF Upper
<1> QED BY <1>1, <1>2

(* Nothing is asked of what is no tree. *)
Blank(m, Rs) == \A f \in Frame \ Rs : \A y \in Page : Asked(m.asked[f], y) = Unmapped

(* The kernel's tree, while it is alone. *)
Bare(m, k) == Upper(m, k, {}) /\ Blank(m, {k})

(* The same range, in the tree that is alone. *)
LEMMA BareRange ==
  ASSUME NEW m, NEW x, NEW k \in Frame, Bare(m, k), NEW v \in Nat, NEW n \in Nat, NEW p,
         NEW rt, ~rt.user, ~is_wx(rt), v >= USER_LIMIT, AsksRange(m, x, k, v, n, p, rt, FALSE)
  PROVE  Bare(x, k)
<1>1. Upper(x, k, {})
  BY UpperRange DEF Bare
<1>2. Blank(x, {k})
  BY DEF Bare, Blank, AsksRange
<1> QED BY <1>1, <1>2 DEF Bare

(* The same page, in the tree that is alone. *)
LEMMA BarePage ==
  ASSUME NEW m, NEW x, NEW k \in Frame, Bare(m, k), NEW v \in Page, v >= USER_LIMIT, NEW w,
         Asks(m, x, k, v, w), ~w.rights.user, ~is_wx(w.rights)
  PROVE  Bare(x, k)
<1>1. Upper(x, k, {})
  BY UpperPage DEF Bare
<1>2. Blank(x, {k})
  BY DEF Bare, Blank, Asks
<1> QED BY <1>1, <1>2 DEF Bare

(* The building of the kernel's tree, from m: so far so good, or failed. *)
KernelUp(m, o, x, Rs, k, c, h) ==
  \/ Failed(x)
  \/ \E q : /\ KernelGrows(m, o, x, q, Rs, k, c) /\ Bare(x, k)
            /\ Frontier(q, k, PHYS_MAP_BASE, h)

(* A page of the image is put in its place. *)
LEMMA PlacePage ==
  ASSUME NEW m, NEW o, NEW x, NEW Rs, NEW k, Rs = {k}, NEW c, NEW h \in 0 .. 2, IsMem(m),
         KernelUp(m, o, x, Rs, k, c, h), ~Failed(x), gib \in BOOLEAN, NEW j \in 0 .. 4,
         NEW rt \in RightsT, ~rt.user, ~is_wx(rt)
  PROVE  KernelUp(m, o, Map(x, k, IMAGE_BASE + j, j, 1, rt, FALSE), Rs, k, c, h)
<1> DEFINE v == IMAGE_BASE + j
           y == Map(x, k, v, j, 1, rt, FALSE)
           w == Mapping(j, rt, FALSE)
<1>1. v \in Page /\ v \in Nat /\ v >= USER_LIMIT /\ Block(v, 3) # KernelFirst
  BY ImagePage
<1> HIDE DEF v
<1>2. PICK p : /\ KernelGrows(m, o, x, p, Rs, k, c) /\ Bare(x, k)
               /\ Frontier(p, k, PHYS_MAP_BASE, h)
  BY DEF KernelUp
<1>3. /\ Kept(x, p, Rs, k, c) /\ Moves(m, o, x, p, k) /\ IsMem(x) /\ IsOwn(p) /\ k \in Frame
      /\ k \in Rs
  BY <1>2 DEF KernelGrows, Kept, Shape
<1>4. MayMap(Rs, k, k, v) /\ Giving(p, k, k, c, v, j, rt) /\ j \in Nat
  BY <1>1, <1>3 DEF MayMap, Giving
<1>5. PICK q : Put(x, p, y, q, Rs, k, c, k, v, w)
  BY <1>3, <1>4, MapPage
<1>6. w.rights = rt
  BY DEF Mapping
<1> HIDE DEF w, y
<1>7. CASE Failed(y)
  BY <1>7 DEF KernelUp, y, v
<1>8. CASE ~Failed(y)
  <2>1. /\ Moves(x, p, y, q, k) /\ OnWay(p, q, v, 0) /\ Kept(y, q, Rs, k, c)
        /\ Asks(x, y, k, v, w) /\ IsMem(y) /\ IsOwn(q)
    BY <1>5, <1>8 DEF Put, Kept, Shape
  <2>2. Moves(m, o, y, q, k)
    BY <1>3, <2>1, MovesOn
  <2>3. Frontier(q, k, PHYS_MAP_BASE, h)
    <3>1. 0 \in 0 .. 2
      OBVIOUS
    <3> QED BY <1>1, <1>2, <1>3, <2>1, <3>1, LinearEven, FrontierOn
  <2>4. Bare(y, k)
    BY <1>1, <1>2, <1>3, <1>6, <2>1, BarePage
  <2> QED BY <2>1, <2>2, <2>3, <2>4 DEF KernelUp, KernelGrows, y, v
<1> QED BY <1>7, <1>8

(* The rights of the sections, and of the rest of the kernel's pages. *)
LEMMA KernelRights ==
  /\ RX \in RightsT /\ ~RX.user /\ ~is_wx(RX)
  /\ RO \in RightsT /\ ~RO.user /\ ~is_wx(RO)
  /\ RW \in RightsT /\ ~RW.user /\ ~is_wx(RW)
BY DEF RX, RO, RW, RightsT, is_wx

(* A section is put in its place, unless something failed before. *)
LEMMA PlaceSection ==
  ASSUME NEW m, NEW o, NEW x, NEW Rs, NEW k, Rs = {k}, NEW c, NEW h \in 0 .. 2, IsMem(m),
         KernelUp(m, o, x, Rs, k, c, h), gib \in BOOLEAN, NEW i \in 1 .. 4
  PROVE  KernelUp(m, o, place(x, k, Sections[i]), Rs, k, c, h)
<1> DEFINE sec == Sections[i]
<1>1. PICK j \in 0 .. 4, rt \in {RX, RO, RW} : sec[1] = j /\ sec[2] = 1 /\ sec[3] = rt
  <2>1. i = 1 \/ i = 2 \/ i = 3 \/ i = 4
    OBVIOUS
  <2>2. /\ Sections[1] = <<0, 1, RX>> /\ Sections[2] = <<1, 1, RO>> /\ Sections[3] = <<2, 1, RW>>
        /\ Sections[4] = <<4, 1, RW>>
    BY DEF Sections
  <2>3. sec = <<0, 1, RX>> \/ sec = <<1, 1, RO>> \/ sec = <<2, 1, RW>> \/ sec = <<4, 1, RW>>
    BY <2>1, <2>2
  <2> HIDE DEF sec
  <2> QED BY <2>3
<1>2. rt \in RightsT /\ ~rt.user /\ ~is_wx(rt)
  BY KernelRights
<1> HIDE DEF sec
<1>3. CASE Failed(x)
  <2>1. place(x, k, sec) = x
    BY <1>3 DEF place
  <2> QED BY <1>3, <2>1 DEF KernelUp, sec
<1>4. CASE ~Failed(x)
  <2>1. place(x, k, sec) = Map(x, k, IMAGE_BASE + j, j, 1, rt, FALSE)
    BY <1>1, <1>4 DEF place
  <2>2. KernelUp(m, o, Map(x, k, IMAGE_BASE + j, j, 1, rt, FALSE), Rs, k, c, h)
    BY <1>2, <1>4, PlacePage
  <2> QED BY <2>1, <2>2 DEF sec
<1> QED BY <1>3, <1>4

(* The screen is mapped in the linear map's slot, if it lies above the map. *)
LEMMA PlaceScreen ==
  ASSUME NEW m, NEW o, NEW x, NEW Rs, NEW k, Rs = {k}, NEW c, NEW h, h = (IF gib THEN 2 ELSE 1),
         IsMem(m), KernelUp(m, o, x, Rs, k, c, h), gib \in BOOLEAN,
         fb.phys \in Nat, fb.len \in Nat, fb.phys + fb.len <= level_size(3)
  PROVE  LET y == place_framebuffer(x, k)
         IN  Failed(y) \/ \E q : KernelGrows(m, o, y, q, Rs, k, c) /\ Bare(y, k)
<1> DEFINE y == place_framebuffer(x, k)
<1>1. CASE y = x
  <2>1. Failed(x) \/ \E q : KernelGrows(m, o, x, q, Rs, k, c) /\ Bare(x, k)
    BY DEF KernelUp
  <2> QED BY <1>1, <2>1
<1>2. CASE ~Failed(x) /\ y = Map(x, k, PHYS_MAP_BASE + fb.phys, fb.phys, fb.len, RW, FALSE)
  <2>0. PICK a \in Nat, n \in Nat : a = fb.phys /\ n = fb.len
    OBVIOUS
  <2> DEFINE v == PHYS_MAP_BASE + a
  <2>1. PICK p : /\ KernelGrows(m, o, x, p, Rs, k, c) /\ Bare(x, k)
                 /\ Frontier(p, k, PHYS_MAP_BASE, h)
    BY <1>2 DEF KernelUp
  <2>2. Kept(x, p, Rs, k, c) /\ Moves(m, o, x, p, k) /\ IsMem(x) /\ k \in Frame
    BY <2>1 DEF KernelGrows, Kept, Shape
  <2>3. InLinear(v, n)
    BY <2>0, LinearRange
  <2>4. PHYS_MAP_BASE \in Nat /\ PHYS_MAP_BASE <= v /\ v \in Nat /\ v >= USER_LIMIT
    BY LinearEven
  <2> DEFINE e == IF Even(v, a, n, level_size(h)) THEN PHYS_MAP_BASE ELSE v + n
  <2>5. y = Map(x, k, v, a, n, RW, FALSE)
    BY <1>2, <2>0
  <2> HIDE DEF v, y
  <2>6. \/ Failed(y)
        \/ \E q : Run(x, p, y, q, Rs, k, c, v, a, n, RW, e, h)
    <3>1. /\ ~Failed(x) /\ RW \in RightsT /\ Kept(x, p, Rs, k, c) /\ PHYS_MAP_BASE \in Nat
          /\ PHYS_MAP_BASE <= v /\ v \in Nat /\ Frontier(p, k, PHYS_MAP_BASE, h)
      BY <1>2, <2>1, <2>2, <2>4, KernelRights
    <3> QED BY <2>3, <2>5, <3>1, MapRun
  <2>7. CASE Failed(y)
    BY <2>7 DEF y
  <2>8. CASE \E q : Run(x, p, y, q, Rs, k, c, v, a, n, RW, e, h)
    <3>1. PICK q : Run(x, p, y, q, Rs, k, c, v, a, n, RW, e, h)
      BY <2>8
    <3>2. Moves(x, p, y, q, k) /\ Kept(y, q, Rs, k, c) /\ IsMem(y)
          /\ AsksRange(x, y, k, v, n, a, RW, FALSE)
      BY <3>1 DEF Run, KernelGrows, Kept, Shape
    <3>3. Moves(m, o, y, q, k)
      BY <2>2, <3>2, MovesOn
    <3>4. Bare(y, k)
      BY <2>1, <2>2, <2>4, <3>2, KernelRights, BareRange
    <3> QED BY <3>2, <3>3, <3>4 DEF KernelGrows, y
  <2> QED BY <2>6, <2>7, <2>8
<1>3. y = x \/ (~Failed(x) /\ y = Map(x, k, PHYS_MAP_BASE + fb.phys, fb.phys, fb.len, RW, FALSE))
  BY DEF place_framebuffer
<1> QED BY <1>1, <1>2, <1>3

(* The whole tree, on an empty root. *)
LEMMA BuildKernel ==
  ASSUME NEW m, NEW o, NEW Rs, NEW k, Rs = {k}, NEW c, Kept(m, o, Rs, k, c), ~Failed(m),
         gib \in BOOLEAN, NEW h, h = (IF gib THEN 2 ELSE 1), Bare(m, k),
         Frontier(o, k, PHYS_MAP_BASE, h),
         fb.phys \in Nat, fb.len \in Nat, fb.phys + fb.len <= level_size(3)
  PROVE  LET x == build_kernel(m, k)
         IN  Failed(x) \/ \E q : KernelGrows(m, o, x, q, Rs, k, c) /\ Bare(x, k)
<1> DEFINE v == PHYS_MAP_BASE
           n == LinearPages
           linear == Map(m, k, v, 0, n, RW, FALSE)
           text == place(linear, k, Sections[1])
           rodata == place(text, k, Sections[2])
           data == place(rodata, k, Sections[3])
           stack == place(data, k, Sections[4])
<1>0. IsMem(m) /\ k \in Frame /\ h \in 0 .. 2 /\ h \in 1 .. 2
  BY DEF Kept, Shape
<1>1. /\ v \in Nat /\ n \in Nat /\ InLinear(v + 0, n) /\ v + 0 = v /\ v >= USER_LIMIT /\ v <= v
      /\ Even(v, 0, n, level_size(h))
  <2>1. 0 \in Nat /\ 0 + n <= level_size(3) /\ n \in Nat
    BY LinearEven
  <2>2. InLinear(v + 0, n)
    BY <2>1, LinearRange
  <2> QED BY <1>0, <2>2, LinearEven
<1> HIDE DEF linear
<1>2. KernelUp(m, o, linear, Rs, k, c, h)
  <2>1. PICK a \in Nat : a = 0
    OBVIOUS
  <2>2. InLinear(v, n) /\ Even(v, a, n, level_size(h))
    BY <1>1, <2>1
  <2> DEFINE e == IF Even(v, a, n, level_size(h)) THEN v ELSE v + n
  <2>3. linear = Map(m, k, v, a, n, RW, FALSE)
    BY <2>1 DEF linear
  <2> HIDE DEF v, n
  <2>4. \/ Failed(linear)
        \/ \E q : Run(m, o, linear, q, Rs, k, c, v, a, n, RW, e, h)
    <3>1. Frontier(o, k, v, h) /\ v \in Nat /\ n \in Nat /\ v <= v
      BY <1>1 DEF v
    <3> QED BY <2>2, <2>3, <3>1, KernelRights, MapRun
  <2>5. CASE Failed(linear)
    BY <2>5 DEF KernelUp
  <2>6. CASE \E q : Run(m, o, linear, q, Rs, k, c, v, a, n, RW, e, h)
    <3>1. PICK q : Run(m, o, linear, q, Rs, k, c, v, a, n, RW, v, h)
      BY <2>2, <2>6
    <3>2. KernelGrows(m, o, linear, q, Rs, k, c) /\ Frontier(q, k, v, h)
          /\ AsksRange(m, linear, k, v, n, a, RW, FALSE)
      BY <3>1 DEF Run
    <3>3. Bare(linear, k)
      BY <1>0, <1>1, <3>2, KernelRights, BareRange
    <3> QED BY <3>2, <3>3 DEF KernelUp, v
  <2> QED BY <2>4, <2>5, <2>6
<1> HIDE DEF text
<1>3. KernelUp(m, o, text, Rs, k, c, h)
  <2>1. 1 \in 1 .. 4
    OBVIOUS
  <2> QED BY <1>0, <1>2, <2>1, PlaceSection DEF text
<1> HIDE DEF rodata
<1>4. KernelUp(m, o, rodata, Rs, k, c, h)
  <2>1. 2 \in 1 .. 4
    OBVIOUS
  <2> QED BY <1>0, <1>3, <2>1, PlaceSection DEF rodata
<1> HIDE DEF data
<1>5. KernelUp(m, o, data, Rs, k, c, h)
  <2>1. 3 \in 1 .. 4
    OBVIOUS
  <2> QED BY <1>0, <1>4, <2>1, PlaceSection DEF data
<1> HIDE DEF stack
<1>6. KernelUp(m, o, stack, Rs, k, c, h)
  <2>1. 4 \in 1 .. 4
    OBVIOUS
  <2> QED BY <1>0, <1>5, <2>1, PlaceSection DEF stack
<1>7. build_kernel(m, k) = place_framebuffer(stack, k)
  BY Zenon DEF build_kernel, stack, data, rodata, text, linear
<1>8. \/ Failed(place_framebuffer(stack, k))
      \/ \E q : /\ KernelGrows(m, o, place_framebuffer(stack, k), q, Rs, k, c)
                /\ Bare(place_framebuffer(stack, k), k)
  BY <1>0, <1>6, PlaceScreen
<1> QED BY <1>7, <1>8

(* Without a root there is no tree. *)
LEMMA BuildFailed ==
  ASSUME NEW m, NEW k, Failed(m), gib \in BOOLEAN
  PROVE  Failed(build_kernel(m, k))
<1> DEFINE v == PHYS_MAP_BASE
           n == LinearPages
           d == FALSE
           y == map_as(m, k, v, 0, n, RW, d, gib)
           linear == Map(m, k, v, 0, n, RW, d)
<1>1. n \in Nat /\ d \in BOOLEAN
  BY LinearEven
<1> HIDE DEF d, n, v
<1>2. y = m
  BY <1>1, MapFailed
<1>3. linear = Noted(y, k, Stretch(v, n, 0, RW, d))
  BY Zenon DEF Map, Stretch
<1>4. linear = m
  BY <1>2, <1>3 DEF Noted
<1>5. Map(m, k, PHYS_MAP_BASE, 0, LinearPages, RW, FALSE) = m
  BY <1>4 DEF linear, v, n, d
<1>6. place(m, k, Sections[1]) = m /\ place(m, k, Sections[2]) = m /\ place(m, k, Sections[3]) = m
      /\ place(m, k, Sections[4]) = m /\ place_framebuffer(m, k) = m
  BY DEF place, place_framebuffer
<1>7. build_kernel(m, k) = m
  BY <1>5, <1>6, Zenon DEF build_kernel
<1> QED BY <1>7

-----------------------------------------------------------------------------
(* Every table a tree owns is on the way to some page of it. *)

(* The pages below a slot of a table. *)
LEMMA Descend ==
  ASSUME NEW l \in 0 .. 3, NEW v \in Page, v % level_size(l + 1) = 0, NEW i \in Slot
  PROVE  LET y == v + i * level_size(l)
         IN  /\ y \in Page /\ Block(y, l + 1) = Block(v, l + 1) /\ y % level_size(l) = 0
             /\ Block(y, l) = Below(Block(v, l + 1), i) /\ index(y, l) = i
<1> DEFINE s == level_size(l)
           S == level_size(l + 1)
           y == v + i * s
<1>1. s \in Nat \ {0} /\ S = s * Fan /\ S \in Nat \ {0} /\ Fan \in Nat /\ v \in Nat /\ i \in Nat
      /\ i <= Fan - 1 /\ l + 1 \in 0 .. 4 /\ level_size(4) \in Nat \ {0} /\ 4 \in 0 .. 4
  BY Sizes, SizeNat, Numbers DEF Page, Slot
<1> HIDE DEF s, S
<1>2. i * s \in Nat /\ i * s + s <= S
  <2>1. (i + 1) * s <= Fan * s
    BY <1>1, Multiples
  <2> QED BY <1>1, <2>1
<1>3. y \in Nat /\ y \in v .. v + S - 1
  BY <1>1, <1>2
<1>4. Block(y, l + 1) = Block(v, l + 1)
  BY <1>1, <1>3, InBlock DEF S
<1>5. y \in Page
  <2>1. Block(y, 4) = Block(v, 4)
    BY <1>1, <1>3, <1>4, Coarser
  <2>2. Block(v, 4) = 0
    BY TopBlock
  <2>3. y \div level_size(4) = 0
    BY <2>1, <2>2 DEF Block
  <2>4. PICK b \in Nat \ {0} : b = level_size(4)
    BY <1>1
  <2>5. y = (y \div b) * b + (y % b) /\ y % b \in 0 .. b - 1
    BY <1>3, Quotient
  <2>6. y < b
    BY <1>3, <2>3, <2>4, <2>5
  <2> QED BY <1>3, <2>4, <2>6 DEF Page, Top
<1>6. PICK q \in Nat : v = q * S
  <2>1. v = (v \div S) * S + (v % S) /\ v \div S \in Nat
    BY <1>1, Quotient
  <2>2. v = (v \div S) * S
    BY <1>1, <2>1 DEF S
  <2> QED BY <2>1, <2>2
<1>7. y = (q * Fan + i) * s
  <2>1. q * (s * Fan) + i * s = (q * Fan + i) * s
    BY <1>1
  <2> QED BY <1>1, <1>6, <2>1
<1>8. y \div s = q * Fan + i /\ y % s = 0
  <2>1. q * Fan + i \in Nat /\ 0 \in 0 .. s - 1
    BY <1>1
  <2>2. PICK a \in Nat : a = q * Fan + i
    BY <2>1
  <2>3. (a * s + 0) \div s = a /\ (a * s + 0) % s = 0
    BY <1>1, <2>1, QuotientOf
  <2>4. y = a * s + 0
    BY <1>1, <1>7, <2>2
  <2> QED BY <2>2, <2>3, <2>4
<1>9. v \div S = q
  <2>1. 0 \in 0 .. S - 1
    BY <1>1
  <2>2. (q * S + 0) \div S = q
    BY <1>1, <2>1, QuotientOf
  <2> QED BY <1>1, <1>6, <2>2
<1>10. Block(v, l + 1) = q /\ Block(y, l) = q * Fan + i
  BY <1>8, <1>9 DEF Block, s, S
<1>11. Block(y, l) = Below(Block(v, l + 1), i)
  BY <1>10 DEF Below
<1>12. index(y, l) = i
  <2>1. Block(y, l) = Below(Block(y, l + 1), index(y, l)) /\ index(y, l) \in Slot
        /\ Block(y, l + 1) \in Nat
    BY <1>3, BlockUp
  <2> QED BY <1>4, <1>11, <2>1, SlotsOnce
<1> QED BY <1>4, <1>5, <1>8, <1>11, <1>12 DEF s

(* The table t of level l leads from page v to f. *)
Leads(m, o, r, t, l, v, f) ==
  /\ o.R[t] = r /\ o.L[t] = l /\ o.B[t] = Block(v, l + 1)
  /\ m.table[t][index(v, l)].present /\ ~m.table[t][index(v, l)].huge
  /\ m.table[t][index(v, l)].to = f

(* A table hangs in the table above it, at the slot of any page it is for. *)
LEMMA Above ==
  ASSUME NEW m, NEW o, NEW a, NEW Rs, NEW k \in Rs, NEW c, Shape(m, o, a, Rs, k, c),
         NEW r \in Rs, NEW f \in Frame, NEW l \in 0 .. 2, o.R[f] = r, o.L[f] = l,
         NEW v \in Page, o.B[f] = Block(v, l + 1)
  PROVE  \E t \in Frame : Leads(m, o, r, t, l + 1, v, f)
<1>1. Hung(m, o) /\ Owners(o, Rs) /\ r \in Frame /\ r # Nobody /\ v \in Nat /\ l + 1 \in 0 .. 3
  BY DEF Shape, Frame, Nobody, Page
<1>2. PICK t \in Frame, i \in Slot :
        /\ o.R[t] = o.R[f] /\ o.L[t] = o.L[f] + 1 /\ o.B[f] = Below(o.B[t], i)
        /\ m.table[t][i].present /\ ~m.table[t][i].huge /\ m.table[t][i].to = f
  BY <1>1 DEF Hung
<1>3. o.B[t] \in Nat
  BY <1>1, <1>2 DEF Owners
<1>4. Block(v, l + 1) = Below(Block(v, (l + 1) + 1), index(v, l + 1)) /\ index(v, l + 1) \in Slot
      /\ Block(v, (l + 1) + 1) \in Nat
  BY <1>1, BlockUp
<1>5. o.B[t] = Block(v, (l + 1) + 1) /\ i = index(v, l + 1)
  BY <1>2, <1>3, <1>4, SlotsOnce
<1> QED BY <1>2, <1>5 DEF Leads

(* The walk for a page goes through the tables that are for it. *)
LEMMA Reached ==
  ASSUME NEW m, NEW o, NEW a, NEW Rs, NEW k \in Rs, NEW c, Shape(m, o, a, Rs, k, c),
         NEW r \in Rs, NEW v \in Page, NEW f \in Frame, NEW l \in 0 .. 3, o.R[f] = r, o.L[f] = l,
         o.B[f] = Block(v, l + 1)
  PROVE  Descent(m, r, v)[l + 1].end = "table" /\ Descent(m, r, v)[l + 1].to = f
<1> DEFINE d == Descent(m, r, v)
           At(j) == \A g \in Frame : o.R[g] = r /\ o.L[g] = j /\ o.B[g] = Block(v, j + 1)
                      => d[j + 1].end = "table" /\ d[j + 1].to = g
<1>1. /\ d[4] = From(r) /\ d[3] = WalkStep(m, d[4], v, 3)  /\ d[2] = WalkStep(m, d[3], v, 2)
      /\ d[1] = WalkStep(m, d[2], v, 1)
  BY DescentSteps
<1> HIDE DEF d
<1>2. At(3)
  <2>1. Owners(o, Rs) /\ r # Nobody
    BY DEF Shape, Frame, Nobody
  <2>2. d[3 + 1].end = "table" /\ d[3 + 1].to = r
    BY <1>1 DEF From
  <2>3. \A g \in Frame : o.R[g] = r /\ o.L[g] = 3 => g = r
    BY <2>1 DEF Owners
  <2> QED BY <2>2, <2>3
<1>3. ASSUME NEW j \in 0 .. 2, At(j + 1), d[j + 1] = WalkStep(m, d[j + 2], v, j + 1) PROVE At(j)
  <2> SUFFICES ASSUME NEW g \in Frame, o.R[g] = r, o.L[g] = j, o.B[g] = Block(v, j + 1)
               PROVE  d[j + 1].end = "table" /\ d[j + 1].to = g
    OBVIOUS
  <2>1. PICK t \in Frame : Leads(m, o, r, t, j + 1, v, g)
    BY Above
  <2>2. (j + 1) + 1 = j + 2 /\ j + 1 # 0
    OBVIOUS
  <2>3. d[j + 2].end = "table" /\ d[j + 2].to = t
    BY <1>3, <2>1, <2>2 DEF Leads
  <2>4. d[j + 1].end = "table" /\ d[j + 1].to = m.table[t][index(v, j + 1)].to
    BY <1>3, <2>1, <2>2, <2>3 DEF WalkStep, Leads
  <2> QED BY <2>1, <2>4 DEF Leads
<1>4. At(2)
  <2>1. 2 \in 0 .. 2 /\ 2 + 1 = 3 /\ 2 + 2 = 4
    OBVIOUS
  <2> HIDE DEF At
  <2> QED BY <1>1, <1>2, <1>3, <2>1
<1>5. At(1)
  <2>1. 1 \in 0 .. 2 /\ 1 + 1 = 2 /\ 1 + 2 = 3
    OBVIOUS
  <2> HIDE DEF At
  <2> QED BY <1>1, <1>3, <1>4, <2>1
<1>6. At(0)
  <2>1. 0 \in 0 .. 2 /\ 0 + 1 = 1 /\ 0 + 2 = 2
    OBVIOUS
  <2> HIDE DEF At
  <2> QED BY <1>1, <1>3, <1>5, <2>1
<1>7. At(l)
  <2>1. l = 0 \/ l = 1 \/ l = 2 \/ l = 3
    OBVIOUS
  <2> HIDE DEF At
  <2> QED BY <1>2, <1>4, <1>5, <1>6, <2>1
<1> QED BY <1>7 DEF d

(* The kernel's half of a program's root leads to no table of the program. *)
LEMMA LowerHalf ==
  ASSUME NEW m, NEW o, NEW a, NEW Rs, NEW k \in Rs, NEW c, Shape(m, o, a, Rs, k, c),
         NEW r \in Rs, r # k, NEW f \in Frame, o.R[f] = r, NEW i \in Slot,
         m.table[r][i].present, ~m.table[r][i].huge, m.table[r][i].to = f
  PROVE  i < KernelFirst
<1> SUFFICES ASSUME ~(i < KernelFirst) PROVE FALSE
  OBVIOUS
<1>1. k \in Frame /\ k # Nobody /\ RootsOwn(o, Rs) /\ Entries(m, o, a, Rs, k, c) /\ Shared(m, Rs, k)
  BY DEF Shape, Frame, Nobody
<1>2. i >= KernelFirst
  BY Numbers DEF Slot
<1>3. m.table[r][i] = m.table[k][i]
  BY <1>1, <1>2 DEF Shared
<1>4. o.R[k] = k /\ o.L[k] = 3
  BY <1>1 DEF RootsOwn
<1>5. EntryOK(m.table[k][i], k, 3, Below(o.B[k], i), o, a[k], k, c)
  BY <1>1, <1>4 DEF Entries
<1>6. o.R[m.table[k][i].to] = k
  BY <1>3, <1>5 DEF EntryOK, TableOK
<1> QED BY <1>3, <1>6

(* A page a table is for: the first one, below the user limit if the tree   *)
(* is a program's.                                                          *)
Starts(o, r, k, t, l, v) ==
  /\ v \in Page /\ o.B[t] = Block(v, l + 1) /\ v % level_size(l + 1) = 0
  /\ r # k /\ l < 3 => v < USER_LIMIT

(* Every table of a tree is for some page. *)
LEMMA Somewhere ==
  ASSUME NEW m, NEW o, NEW a, NEW Rs, NEW k \in Rs, NEW c, Shape(m, o, a, Rs, k, c),
         NEW r \in Rs, NEW t \in Frame, NEW l \in 0 .. 3, o.R[t] = r, o.L[t] = l
  PROVE  \E v : Starts(o, r, k, t, l, v)
<1> DEFINE At(j) == \A g \in Frame : o.R[g] = r /\ o.L[g] = j => \E v : Starts(o, r, k, g, j, v)
<1>0. /\ Hung(m, o) /\ Owners(o, Rs) /\ RootsOwn(o, Rs) /\ r \in Frame /\ r # Nobody
  BY DEF Shape, Frame, Nobody
<1>1. At(3)
  <2> SUFFICES ASSUME NEW g \in Frame, o.R[g] = r, o.L[g] = 3
               PROVE  \E v : Starts(o, r, k, g, 3, v)
    OBVIOUS
  <2>1. g = r /\ o.B[g] = 0
    BY <1>0 DEF Owners, RootsOwn
  <2>2. level_size(4) \in Nat \ {0} /\ 0 \in Page
    BY SizeNat DEF Page, Top
  <2>3. Block(0, 4) = 0 /\ 0 % level_size(4) = 0
    BY <2>2, TopBlock
  <2>4. 3 + 1 = 4
    OBVIOUS
  <2>5. Starts(o, r, k, g, 3, 0)
    BY <2>1, <2>2, <2>3, <2>4 DEF Starts
  <2> QED BY <2>5
<1>2. ASSUME NEW j \in 0 .. 2, At(j + 1) PROVE At(j)
  <2> SUFFICES ASSUME NEW g \in Frame, o.R[g] = r, o.L[g] = j
               PROVE  \E v : Starts(o, r, k, g, j, v)
    OBVIOUS
  <2>1. PICK u \in Frame, i \in Slot :
          /\ o.R[u] = r /\ o.L[u] = j + 1 /\ o.B[g] = Below(o.B[u], i)
          /\ m.table[u][i].present /\ ~m.table[u][i].huge /\ m.table[u][i].to = g
    BY <1>0 DEF Hung
  <2>2. PICK v : Starts(o, r, k, u, j + 1, v)
    BY <1>2, <2>1
  <2> DEFINE h == j + 1
             y == v + i * level_size(h)
  <2>3. h \in 0 .. 3 /\ h + 1 \in 0 .. 4 /\ v \in Page /\ v % level_size(h + 1) = 0
        /\ o.B[u] = Block(v, h + 1) /\ v \in Nat
    BY <2>2 DEF Starts, Page
  <2> HIDE DEF h
  <2>4. /\ y \in Page /\ Block(y, h + 1) = Block(v, h + 1) /\ y % level_size(h) = 0
        /\ Block(y, h) = Below(Block(v, h + 1), i) /\ index(y, h) = i
    BY <2>3, Descend
  <2> HIDE DEF y
  <2>5. ASSUME r # k PROVE y < USER_LIMIT
    <3>1. y \in Nat
      BY <2>4 DEF Page
    <3>2. CASE j = 2
      <4>1. h = 3 /\ u = r
        BY <1>0, <2>1, <3>2 DEF Owners, h
      <4>2. i < KernelFirst
        BY SMTT(30), <2>1, <2>5, <4>1, LowerHalf
      <4>3. Block(y, 3) = i
        BY <2>4, <4>1, TopBlock
      <4> QED BY <3>1, <4>2, <4>3, UserBlock
    <3>3. CASE j # 2
      <4>1. v < USER_LIMIT
        BY <2>2, <2>5, <3>3 DEF Starts
      <4>2. Block(y, 3) = Block(v, 3)
        <5>1. h + 1 <= 3 /\ 3 \in 0 .. 4
          BY <3>3 DEF h
        <5> QED BY <2>3, <2>4, <3>1, <5>1, Coarser
      <4> QED BY <2>3, <3>1, <4>1, <4>2, UserBlock
    <3> QED BY <3>2, <3>3
  <2>6. Starts(o, r, k, g, j, y)
    BY <2>1, <2>3, <2>4, <2>5 DEF Starts, h
  <2> QED BY <2>6
<1> HIDE DEF At
<1>3. At(2)
  <2>1. 2 \in 0 .. 2 /\ 2 + 1 = 3
    OBVIOUS
  <2> QED BY <1>1, <1>2, <2>1
<1>4. At(1)
  <2>1. 1 \in 0 .. 2 /\ 1 + 1 = 2
    OBVIOUS
  <2> QED BY <1>2, <1>3, <2>1
<1>5. At(0)
  <2>1. 0 \in 0 .. 2 /\ 0 + 1 = 1
    OBVIOUS
  <2> QED BY <1>2, <1>4, <2>1
<1>6. l = 0 \/ l = 1 \/ l = 2 \/ l = 3
  OBVIOUS
<1> QED BY <1>1, <1>3, <1>4, <1>5, <1>6 DEF At

(* What tree r owns, and the tables among it. *)
Owned(o, r) == {f \in Frame : o.R[f] = r}
OwnTables(o, r) == {f \in Frame : o.R[f] = r /\ o.L[f] >= 0}

(* The tables on the walks for the pages of P. *)
LEMMA TablesIs ==
  ASSUME NEW m, NEW root, NEW P, NEW f
  PROVE  f \in TablesOf(m, root, P) <=>
           \E v \in P : \E l \in 1 .. 4 : /\ Descent(m, root, v)[l].end = "table"
                                          /\ Descent(m, root, v)[l].to = f
BY DEF TablesOf, Top

(* A walk's tables are the tree's, or the kernel's above the user limit. *)
LEMMA TablesWithin ==
  ASSUME NEW m, NEW o, NEW a, NEW Rs, NEW k \in Rs, NEW c, Shape(m, o, a, Rs, k, c),
         NEW r \in Rs, NEW v \in Page, NEW l \in 1 .. 4, Descent(m, r, v)[l].end = "table"
  PROVE  /\ Descent(m, r, v)[l].to \in OwnTables(o, r) \cup OwnTables(o, k)
         /\ v < USER_LIMIT => Descent(m, r, v)[l].to \in OwnTables(o, r)
<1> DEFINE d == Descent(m, r, v)
           t == TreeOf(r, k, v)
<1>1. r \in Frame /\ RootsOwn(o, Rs) /\ v \in Nat
  BY DEF Shape, Page
<1>2. t = r \/ t = k
  BY DEF TreeOf
<1>3. v < USER_LIMIT => t = r
  BY <1>1, UserBlock DEF TreeOf
<1> HIDE DEF t
<1>4. CASE l = 4
  <2>1. d[4] = From(r)
    BY DescentSteps
  <2>2. d[4].to = r
    BY <2>1 DEF From
  <2>3. r \in OwnTables(o, r)
    BY <1>1 DEF RootsOwn, OwnTables
  <2> QED BY <1>4, <2>2, <2>3
<1>5. CASE l # 4
  <2>1. l \in 0 .. 3 /\ l - 1 >= 0
    BY <1>5
  <2>2. \A j \in 0 .. 3 : Good(d[j], m, o, a, t, v, j - 1)
    BY WalkStages DEF t
  <2>3. Good(d[l], m, o, a, t, v, l - 1)
    BY <2>1, <2>2
  <2> HIDE DEF d
  <2>4. d[l].end = "table"
    BY DEF d
  <2>5. d[l].to \in Frame /\ o.R[d[l].to] = t /\ o.L[d[l].to] = l - 1
    BY <2>3, <2>4 DEF Good
  <2>6. d[l].to \in OwnTables(o, t)
    BY <2>1, <2>5 DEF OwnTables
  <2> QED BY <1>2, <1>3, <2>6 DEF d
<1> QED BY <1>4, <1>5

(* The walks of a tree reach its tables: the kernel's, and a program's from *)
(* the pages below the limit.                                               *)
LEMMA TablesReached ==
  ASSUME NEW m, NEW o, NEW a, NEW Rs, NEW k \in Rs, NEW c, Shape(m, o, a, Rs, k, c),
         NEW r \in Rs, NEW f \in OwnTables(o, r)
  PROVE  \E v \in Page : /\ r # k => v < USER_LIMIT
                         /\ \E l \in 1 .. 4 : /\ Descent(m, r, v)[l].end = "table"
                                              /\ Descent(m, r, v)[l].to = f
<1>0. /\ f \in Frame /\ o.R[f] = r /\ o.L[f] >= 0 /\ Owners(o, Rs) /\ r # Nobody /\ RootsOwn(o, Rs)
      /\ r \in Frame
  BY DEF OwnTables, Shape, Frame, Nobody
<1>1. PICK l \in 0 .. 3 : o.L[f] = l
  BY <1>0 DEF Owners
<1>2. CASE l = 3
  <2>1. f = r /\ o.B[f] = 0
    BY <1>0, <1>1, <1>2 DEF Owners, RootsOwn
  <2>2. 0 \in Page /\ 0 < USER_LIMIT
    <3>1. level_size(3) \in Nat \ {0} /\ level_size(4) \in Nat \ {0}
      BY SizeNat
    <3>2. KernelFirst * level_size(3) > 0
      BY <3>1, Numbers
    <3> QED BY <3>1, <3>2 DEF Page, USER_LIMIT, Top
  <2>3. Descent(m, r, 0)[4] = From(r)
    BY DescentSteps
  <2>4. Descent(m, r, 0)[4].end = "table" /\ Descent(m, r, 0)[4].to = f
    BY <2>1, <2>3 DEF From
  <2>5. 4 \in 1 .. 4
    OBVIOUS
  <2> QED BY <2>2, <2>4, <2>5
<1>3. CASE l # 3
  <2>1. PICK v : Starts(o, r, k, f, l, v)
    BY <1>0, <1>1, Somewhere
  <2>2. v \in Page /\ o.B[f] = Block(v, l + 1) /\ (r # k => v < USER_LIMIT)
    BY <1>3, <2>1 DEF Starts
  <2>3. Descent(m, r, v)[l + 1].end = "table" /\ Descent(m, r, v)[l + 1].to = f
    <3>1. f \in Frame /\ l \in 0 .. 3 /\ o.R[f] = r /\ o.L[f] = l /\ v \in Page /\ o.B[f] = Block(v, l + 1)
      BY <1>0, <1>1, <2>2
    <3> QED BY <3>1, Reached
  <2>4. l + 1 \in 1 .. 4
    OBVIOUS
  <2> QED BY <2>2, <2>3, <2>4
<1> QED BY <1>2, <1>3

(* The kernel's tables are those of its tree. *)
LEMMA KernelTables ==
  ASSUME NEW m, NEW o, NEW a, NEW Rs, NEW k \in Rs, NEW c, Shape(m, o, a, Rs, k, c)
  PROVE  TablesOf(m, k, Page) = OwnTables(o, k)
<1>1. ASSUME NEW f \in TablesOf(m, k, Page) PROVE f \in OwnTables(o, k)
  <2>1. PICK v \in Page : \E l \in 1 .. 4 : /\ Descent(m, k, v)[l].end = "table"
                                            /\ Descent(m, k, v)[l].to = f
    BY <1>1, TablesIs
  <2>2. PICK l \in 1 .. 4 : Descent(m, k, v)[l].end = "table" /\ Descent(m, k, v)[l].to = f
    BY <2>1
  <2>3. Descent(m, k, v)[l].to \in OwnTables(o, k) \cup OwnTables(o, k)
    BY <2>2, TablesWithin
  <2> QED BY <2>2, <2>3
<1>2. ASSUME NEW f \in OwnTables(o, k) PROVE f \in TablesOf(m, k, Page)
  BY TablesReached, TablesIs
<1> QED BY <1>1, <1>2

(* Page v resolves in tree r to what was asked. *)
Right(m, a, k, r, v) == translate(m, r, v) = a[TreeOf(r, k, v)][v]

(* Tree r resolves page v to what it was asked for, or the kernel was.      *)
LEMMA ResolvesRight ==
  ASSUME NEW m, NEW o, NEW a, NEW Rs, NEW k \in Rs, NEW c, Shape(m, o, a, Rs, k, c),
         NEW r \in Rs, NEW v \in Page
  PROVE  Right(m, a, k, r, v)
<1>1. translate(m, r, v) = a[TreeOf(r, k, v)][v]
  BY Resolves
<1> QED BY <1>1 DEF Right

(* What t resolves to is a page tree r owns, for page v, or the clock to    *)
(* read.                                                                    *)
Its(o, r, c, v, t) ==
  \/ t.phys \in Frame /\ o.R[t.phys] = r /\ o.L[t.phys] = -1 /\ o.B[t.phys] = v
  \/ t.phys = c /\ ~t.rights.write

(* So is every page a program has. *)
LEMMA UserLeaf ==
  ASSUME NEW m, NEW o, NEW a, NEW Rs, NEW k \in Rs, NEW c, Shape(m, o, a, Rs, k, c),
         NEW r \in Rs, r # k, NEW v \in Page, v < USER_LIMIT, translate(m, r, v).mapped
  PROVE  Its(o, r, c, v, translate(m, r, v))
<1> DEFINE w == Walk(m, r, v)
           t == translate(m, r, v)
<1>1. /\ r \in Frame /\ r # Nobody /\ v \in Nat /\ Block(v, 3) # KernelFirst /\ TreeOf(r, k, v) = r
      /\ Entries(m, o, a, Rs, k, c) /\ IsMem(m) /\ RootsOwn(o, Rs)
  <2>1. v \in Nat
    BY DEF Page
  <2>2. Block(v, 3) < KernelFirst /\ Block(v, 3) \in Nat /\ USER_LIMIT \in Nat
    <3>1. 3 \in 0 .. 3
      OBVIOUS
    <3> QED BY <2>1, <3>1, UserBlock, BlockUp
  <2> QED BY <2>1, <2>2, Numbers DEF Shape, Frame, Nobody, TreeOf
<1>2. t = a[r][v]
  <2>1. translate(m, r, v) = a[TreeOf(r, k, v)][v]
    BY ResolvesRight DEF Right
  <2> QED BY <1>1, <2>1
<1>3. Good(w, m, o, a, r, v, 0 - 1)
  <2>1. 0 \in 0 .. 3
    OBVIOUS
  <2> QED BY <1>1, <2>1, WalkStages DEF Walk
<1>4. w.end # "absent"
  <2>1. ~Unmapped.mapped
    BY DEF Unmapped
  <2> QED BY <1>2, <1>3, <2>1 DEF Good
<1> HIDE DEF w, t
<1>5. w.end = "leaf"
  <2>1. ~(0 - 1 >= 0)
    OBVIOUS
  <2> QED BY <1>3, <1>4, <2>1 DEF Good
<1>6. w.level = 0
  BY <1>1, <1>3, <1>5 DEF Good
<1> DEFINE i == index(v, 0)
           u == w.in
           e == m.table[u][i]
<1>7. u \in Frame /\ o.R[u] = r /\ o.L[u] = 0 /\ o.B[u] = Block(v, 1)
  <2>1. 0 < 3 /\ 0 + 1 = 1
    OBVIOUS
  <2> QED BY <1>3, <1>5, <1>6, <2>1 DEF Good
<1>8. i \in Slot /\ Block(v, 0) = Below(Block(v, 1), i) /\ Block(v, 0) = v
  <2>1. 0 \in 0 .. 3 /\ 0 + 1 = 1
    OBVIOUS
  <2>2. Block(v, 0) = v
    BY <1>1, Sizes DEF Block
  <2> QED BY <1>1, <2>1, <2>2, BlockUp
<1> HIDE DEF u, i
<1>9. u \notin Rs
  BY <1>7 DEF RootsOwn, Shape
<1>10. EntryOK(e, r, 0, v, o, a[r], k, c)
  <2>1. o.R[u] # Nobody /\ o.L[u] >= 0
    BY <1>1, <1>7
  <2>2. EntryOK(m.table[u][i], o.R[u], o.L[u], Below(o.B[u], i), o, a[o.R[u]], k, c)
    BY <1>1, <1>7, <1>8, <1>9, <2>1 DEF Entries
  <2> QED BY <1>7, <1>8, <2>2
<1>11. e.present
  <2> SUFFICES ASSUME ~e.present PROVE FALSE
    OBVIOUS
  <2>1. a[r][v] = Unmapped
    BY <1>8, <1>10 DEF EntryOK, AbsentOK
  <2> QED BY <1>2, <2>1 DEF Unmapped, t
<1>12. e \in EntryT
  BY <1>1, <1>7, <1>8 DEF IsMem
<1> HIDE DEF e
<1>13. LeafOK(e, 0, v, a[r]) /\ Private(e, r, v, o, c)
  BY <1>10, <1>11 DEF EntryOK
<1>14. a[r][v] = Mapping(e.to + (v % level_size(0)), RightsOf(e), e.device)
  BY <1>8, <1>13 DEF LeafOK
<1>15. e.to + (v % level_size(0)) = e.to
  BY <1>1, <1>12, Sizes DEF EntryT
<1>16. t.phys = e.to /\ t.rights.write = e.write
  <2>1. t.phys = e.to /\ t.rights = RightsOf(e)
    BY <1>2, <1>14, <1>15, MappingIs
  <2> QED BY <2>1 DEF RightsOf
<1> QED BY <1>13, <1>16 DEF Private, Its, t
-----------------------------------------------------------------------------
(* A table that is there needs no frame. *)

(* The table of level l of tree r for page v. *)
TableFor(o, r, v, l, g) == g \in Frame /\ o.R[g] = r /\ o.L[g] = l /\ o.B[g] = Block(v, l + 1)

(* Above a table there are the tables that lead to it. *)
LEMMA TablesAbove ==
  ASSUME NEW m, NEW o, NEW a, NEW Rs, NEW k \in Rs, NEW c, Shape(m, o, a, Rs, k, c),
         NEW r \in Rs, NEW v \in Page, NEW f, TableFor(o, r, v, 0, f), NEW l \in 0 .. 2
  PROVE  \E g : TableFor(o, r, v, l, g)
<1>1. ASSUME NEW j \in 0 .. 2, NEW g, TableFor(o, r, v, j, g)
      PROVE  \E t : TableFor(o, r, v, j + 1, t)
  <2>1. g \in Frame /\ o.R[g] = r /\ o.L[g] = j /\ o.B[g] = Block(v, j + 1)
    BY <1>1 DEF TableFor
  <2>2. PICK t \in Frame : Leads(m, o, r, t, j + 1, v, g)
    BY <2>1, Above
  <2> QED BY <2>2 DEF Leads, TableFor
<1>2. 0 \in 0 .. 2 /\ 1 \in 0 .. 2 /\ 0 + 1 = 1 /\ 1 + 1 = 2 /\ l \in {0, 1, 2}
  OBVIOUS
<1>3. \E t : TableFor(o, r, v, 1, t)
  BY <1>1, <1>2
<1>4. \E t : TableFor(o, r, v, 2, t)
  BY <1>1, <1>2, <1>3
<1> QED BY <1>2, <1>3, <1>4

(* The step down through an entry that leads on does not fail. *)
LEMMA StepStays ==
  ASSUME NEW m, NEW o, NEW a, NEW Rs, NEW k \in Rs, NEW c, Shape(m, o, a, Rs, k, c),
         NEW r, NEW v, MayMap(Rs, k, r, v), NEW rt \in RightsT, NEW f, TableFor(o, r, v, 0, f),
         NEW l \in 1 .. 3, NEW w, NEW p, Come(m, o, w, p, a, Rs, k, c, r, v, l, rt), ~Failed(w.m)
  PROVE  ~Failed(next_table(w, index(v, l), rt).m)
<1> DEFINE i == index(v, l)
           t == w.at
           e == w.m.table[t][i]
<1>1. /\ Shape(w.m, p, a, Rs, k, c) /\ t \in Frame /\ p.R[t] = r /\ p.L[t] = l
      /\ p.B[t] = Block(v, l + 1) /\ Keeps(o, p)
  BY DEF Come, Standing, Grows, Moves
<1>2. r \in Rs /\ v \in Page /\ r \in Frame /\ r # Nobody /\ v \in Nat
  BY DEF MayMap, Shape, Frame, Nobody, Page
<1>3. i \in Slot /\ Block(v, l) = Below(Block(v, l + 1), i)
  BY <1>2, BlockUp
<1>4. PICK g : TableFor(o, r, v, l - 1, g)
  <2>1. l - 1 \in 0 .. 2
    OBVIOUS
  <2> QED BY <1>2, <2>1, TablesAbove
<1>5. g \in Frame /\ p.R[g] = r /\ p.L[g] = l - 1 /\ p.B[g] = Block(v, l)
  <2>1. (l - 1) + 1 = l
    OBVIOUS
  <2>2. g \in Frame /\ o.R[g] = r /\ o.L[g] = l - 1 /\ o.B[g] = Block(v, l)
    BY <1>4, <2>1 DEF TableFor
  <2> QED BY <1>1, <1>2, <2>2 DEF Keeps
<1> HIDE DEF i
<1>6. ChildKept(p, r, l, Below(p.B[t], i), e)
  <2>1. l \in 0 .. 3
    OBVIOUS
  <2> QED BY <1>1, <1>2, <1>3, <2>1, HungThere
<1>7. e.present /\ ~e.huge
  BY <1>1, <1>3, <1>5, <1>6 DEF ChildKept
<1>8. next_table(w, i, rt) = [m |-> Write(w.m, w.at, i, Widened(e, rt)), at |-> e.to]
  BY <1>7 DEF next_table, next_table_present
<1>9. next_table(w, i, rt).m = Write(w.m, w.at, i, Widened(e, rt))
  BY <1>8
<1> HIDE DEF e
<1>10. IsMem(w.m)
  BY <1>1 DEF Shape
<1>11. Write(w.m, w.at, i, Widened(e, rt)).err = w.m.err
  BY <1>10 DEF Write, IsMem
<1> QED BY <1>9, <1>11 DEF Failed, i

(* Where the table is there, a page is mapped without fail. *)
LEMMA MapStays ==
  ASSUME NEW m, NEW o, NEW Rs, NEW k \in Rs, NEW c, Kept(m, o, Rs, k, c), ~Failed(m),
         gib \in BOOLEAN, NEW r, NEW v, MayMap(Rs, k, r, v), NEW rt \in RightsT, NEW p \in Nat,
         NEW device \in BOOLEAN, NEW f, TableFor(o, r, v, 0, f)
  PROVE  ~Failed(Map(m, r, v, p, 1, rt, device))
<1> DEFINE d == Path(m, r, v, rt)
           a == AskedFn(m)
<1>0. Shape(m, o, a, Rs, k, c)
  BY DEF Kept
<1> HIDE DEF a
<1>1. /\ d[3] = [m |-> m, at |-> r] /\ d[2] = next_table(d[3], index(v, 3), rt)
      /\ d[1] = next_table(d[2], index(v, 2), rt) /\ d[0] = next_table(d[1], index(v, 1), rt)
  BY PathSteps
<1>2. \A l \in 0 .. 3 : \E q : Come(m, o, d[l], q, a, Rs, k, c, r, v, l, rt)
  BY <1>0, PathComes
<1> HIDE DEF d
<1>3. ASSUME NEW l \in 1 .. 3, ~Failed(d[l].m)
      PROVE  ~Failed(next_table(d[l], index(v, l), rt).m)
  <2>1. l \in 0 .. 3
    OBVIOUS
  <2>2. PICK q : Come(m, o, d[l], q, a, Rs, k, c, r, v, l, rt)
    BY <1>2, <2>1
  <2> QED BY <1>0, <1>3, <2>2, StepStays
<1>4. ~Failed(d[3].m)
  BY <1>1
<1>5. ~Failed(d[2].m)
  BY <1>1, <1>3, <1>4
<1>6. ~Failed(d[1].m)
  BY <1>1, <1>3, <1>5
<1>7. ~Failed(d[0].m)
  BY <1>1, <1>3, <1>6
<1> DEFINE e == Leaf(p, rt, device, 0)
           x == Write(d[0].m, d[0].at, index(v, 0), e)
<1>8. map_leaf(m, r, v, p, rt, device, 0) = x
  BY <1>7 DEF map_leaf, PutLeaf, d
<1> HIDE DEF e
<1>9. ~Failed(x)
  <2>1. PICK q : Come(m, o, d[0], q, a, Rs, k, c, r, v, 0, rt)
    BY <1>2
  <2>2. IsMem(d[0].m)
    BY <2>1 DEF Come, Standing, Shape
  <2>3. x.err = d[0].m.err
    BY <2>2 DEF Write, IsMem
  <2> QED BY <1>7, <2>3 DEF Failed
<1> HIDE DEF x
<1>10. v \in Nat
  BY DEF MayMap, Page
<1>11. map_as(m, r, v, p, 1, rt, device, gib) = x
  BY <1>8, <1>10, MapOne
<1> DEFINE b == [y \in v .. v + 1 - 1 |-> Mapping(p + (y - v), rt, device)]
<1>12. Map(m, r, v, p, 1, rt, device) = Noted(x, r, b)
  BY <1>11, Zenon DEF Map
<1> HIDE DEF b
<1>13. IsMem(x) /\ r \in Frame
  <2>1. r \in Frame
    BY <1>0 DEF MayMap, Shape
  <2>2. PICK q : Come(m, o, d[0], q, a, Rs, k, c, r, v, 0, rt)
    BY <1>2
  <2>3. /\ IsMem(d[0].m) /\ d[0].at \in Frame
    BY <1>7, <2>2 DEF Come, Standing, Shape
  <2>4. index(v, 0) \in Slot
    <3>1. 0 \in 0 .. 3
      OBVIOUS
    <3> QED BY <1>10, <3>1, BlockUp
  <2>5. e \in EntryT
    BY DEF e, Leaf, EntryT, RightsT
  <2> QED BY <2>1, <2>3, <2>4, <2>5, WriteIs DEF x
<1>14. Noted(x, r, b).err = x.err
  BY <1>9, <1>13, NotedIs
<1> QED BY <1>9, <1>12, <1>14 DEF Failed

(* The walk to a page outside the linear map that is mapped ends in a table *)
(* of the lowest level.                                                     *)
LEMMA LeafTable ==
  ASSUME NEW m, NEW o, NEW a, NEW Rs, NEW k \in Rs, NEW c, Shape(m, o, a, Rs, k, c),
         NEW r \in Rs, NEW v \in Page, TreeOf(r, k, v) = r, Block(v, 3) # KernelFirst,
         a[r][v].mapped
  PROVE  \E g : TableFor(o, r, v, 0, g)
<1> DEFINE w == Walk(m, r, v)
<1>1. Good(w, m, o, a, r, v, 0 - 1)
  <2>1. \A l \in 0 .. 3 : Good(Descent(m, r, v)[l], m, o, a, TreeOf(r, k, v), v, l - 1)
    BY WalkStages
  <2>2. 0 \in 0 .. 3
    OBVIOUS
  <2> QED BY <2>1, <2>2 DEF Walk
<1> HIDE DEF w
<1>2. w.end # "absent"
  <2>1. ~Unmapped.mapped
    BY DEF Unmapped
  <2> QED BY <1>1, <2>1 DEF Good
<1>3. w.end = "leaf"
  <2>1. ~(0 - 1 >= 0)
    OBVIOUS
  <2> QED BY <1>1, <1>2, <2>1 DEF Good
<1>4. w.level = 0
  BY <1>1, <1>3 DEF Good
<1>5. w.in \in Frame /\ o.R[w.in] = r /\ o.L[w.in] = 0 /\ o.B[w.in] = Block(v, 1)
  <2>1. 0 < 3 /\ 0 + 1 = 1
    OBVIOUS
  <2> QED BY <1>1, <1>3, <1>4, <2>1 DEF Good
<1> QED BY <1>5 DEF TableFor
-----------------------------------------------------------------------------
(* What a program's tree reaches is what it owns. *)

(* The pages a program reaches are its own, or the clock. *)
LEMMA DataWithin ==
  ASSUME NEW m, NEW o, NEW a, NEW Rs, NEW k \in Rs, NEW c, Shape(m, o, a, Rs, k, c),
         NEW r \in Rs, r # k, NEW f \in DataOf(m, r, UserPage)
  PROVE  f = c \/ (f \in Owned(o, r) /\ o.L[f] = -1)
<1>1. PICK v \in Page : v < USER_LIMIT /\ translate(m, r, v).mapped /\ f = translate(m, r, v).phys
  BY DEF DataOf, UserPage
<1> DEFINE t == translate(m, r, v)
<1>2. Its(o, r, c, v, t)
  BY <1>1, UserLeaf
<1> QED BY <1>1, <1>2 DEF Its, Owned

(* What a space's tree reaches below the user limit, but for the clock, is  *)
(* the tree's own.                                                          *)
LEMMA OwnedWithin ==
  ASSUME NEW m, NEW o, NEW a, NEW Rs, NEW k \in Rs, Shape(m, o, a, Rs, k, clock),
         NEW r \in Rs, r # k
  PROVE  OwnedBy(m, r) \subseteq Owned(o, r)
<1> SUFFICES ASSUME NEW f \in OwnedBy(m, r) PROVE f \in Owned(o, r)
  OBVIOUS
<1>1. f # clock /\ (f \in TablesOf(m, r, UserPage) \/ f \in DataOf(m, r, UserPage))
  BY DEF OwnedBy
<1>2. CASE f \in TablesOf(m, r, UserPage)
  <2>1. PICK v \in UserPage : \E l \in 1 .. 4 : /\ Descent(m, r, v)[l].end = "table"
                                                /\ Descent(m, r, v)[l].to = f
    BY <1>2, TablesIs
  <2>2. PICK l \in 1 .. 4 : Descent(m, r, v)[l].end = "table" /\ Descent(m, r, v)[l].to = f
    BY <2>1
  <2>3. v \in Page /\ v < USER_LIMIT
    BY DEF UserPage
  <2>4. Descent(m, r, v)[l].to \in OwnTables(o, r)
    BY <2>2, <2>3, TablesWithin
  <2> QED BY <2>2, <2>4 DEF OwnTables, Owned
<1>3. CASE f \in DataOf(m, r, UserPage)
  BY <1>1, <1>3, DataWithin
<1> QED BY <1>1, <1>2, <1>3

(* The tables a program owns, and the pages it is asked to have, it reaches. *)
LEMMA OwnedReached ==
  ASSUME NEW m, NEW o, NEW a, NEW Rs, NEW k \in Rs, Shape(m, o, a, Rs, k, clock),
         NEW r \in Rs, r # k, o.R[clock] # r
  PROVE  /\ OwnTables(o, r) \subseteq OwnedBy(m, r)
         /\ \A f \in Owned(o, r) : \A v \in Page :
              v < USER_LIMIT /\ a[r][v].mapped /\ a[r][v].phys = f => f \in OwnedBy(m, r)
<1>0. ASSUME NEW v \in Page PROVE translate(m, r, v) = a[TreeOf(r, k, v)][v]
  <2>1. Right(m, a, k, r, v)
    BY ResolvesRight
  <2> QED BY <2>1 DEF Right
<1>1. ASSUME NEW f \in OwnTables(o, r) PROVE f \in OwnedBy(m, r)
  <2>1. PICK v \in Page : /\ r # k => v < USER_LIMIT
                          /\ \E l \in 1 .. 4 : /\ Descent(m, r, v)[l].end = "table"
                                               /\ Descent(m, r, v)[l].to = f
    BY TablesReached
  <2>2. v \in UserPage
    BY <2>1 DEF UserPage
  <2>3. f \in TablesOf(m, r, UserPage)
    BY <2>1, <2>2, TablesIs
  <2>4. f # clock
    BY DEF OwnTables
  <2> QED BY <2>3, <2>4 DEF OwnedBy
<1>2. ASSUME NEW f \in Owned(o, r), NEW v \in Page, v < USER_LIMIT, a[r][v].mapped, a[r][v].phys = f
      PROVE  f \in OwnedBy(m, r)
  <2>1. TreeOf(r, k, v) = r
    <3>1. v \in Nat
      BY DEF Page
    <3> QED BY <1>2, <3>1, UserBlock DEF TreeOf
  <2>2. translate(m, r, v) = a[TreeOf(r, k, v)][v]
    BY <1>0
  <2>3. translate(m, r, v).mapped /\ translate(m, r, v).phys = f
    BY <1>2, <2>1, <2>2
  <2>4. v \in UserPage
    BY <1>2 DEF UserPage
  <2>5. f \in DataOf(m, r, UserPage)
    BY <2>3, <2>4 DEF DataOf
  <2>6. f # clock
    BY DEF Owned
  <2> QED BY <2>5, <2>6 DEF OwnedBy
<1> QED BY <1>1, <1>2
-----------------------------------------------------------------------------
(* A tree is torn down. *)

(* The tables the entries of A lead to. *)
Leading(m, A) ==
  {m.table[q[1]][q[2]].to :
     q \in {x \in A : m.table[x[1]][x[2]].present /\ ~m.table[x[1]][x[2]].huge}}
IsVisited(d, m, root) ==
  d = [l \in 0 .. Top |-> IF l = Top THEN {root} \X (0 .. KernelFirst - 1)
                          ELSE Leading(m, d[l + 1]) \X Slot]

(* The recursion of the visit is well defined. *)
LEMMA VisitedExists ==
  ASSUME NEW m, NEW root
  PROVE  IsVisited(Visited(m, root), m, root)
<1> DEFINE d3 == {root} \X (0 .. KernelFirst - 1)
           d2 == Leading(m, d3) \X Slot
           d1 == Leading(m, d2) \X Slot
           d0 == Leading(m, d1) \X Slot
           d == [l \in 0 .. 3 |-> IF l = 3 THEN d3 ELSE IF l = 2 THEN d2 ELSE
                                   IF l = 1 THEN d1 ELSE d0]
           First == {root} \X (0 .. KernelFirst - 1)
<1>1. \A l \in 0 .. 3 : d[l] = IF l = 3 THEN First ELSE Leading(m, d[l + 1]) \X Slot
  <2> SUFFICES ASSUME NEW l \in 0 .. 3
               PROVE  d[l] = IF l = 3 THEN First ELSE Leading(m, d[l + 1]) \X Slot
    OBVIOUS
  <2>1. l \in {0, 1, 2, 3}
    OBVIOUS
  <2>2. d[3] = d3 /\ d[2] = d2 /\ d[1] = d1 /\ d[0] = d0 /\ d3 = First
    OBVIOUS
  <2> HIDE DEF d, d3, First
  <2>3. 2 + 1 = 3 /\ 1 + 1 = 2 /\ 0 + 1 = 1
    OBVIOUS
  <2>4. CASE l = 3
    BY <2>2, <2>4
  <2>5. CASE l = 2
    BY <2>2, <2>3, <2>5
  <2>6. CASE l = 1
    BY <2>2, <2>3, <2>6
  <2>7. CASE l = 0
    BY <2>2, <2>3, <2>7
  <2> QED BY <2>1, <2>4, <2>5, <2>6, <2>7
<1>2. IsVisited(d, m, root)
  <2> HIDE DEF First
  <2> DEFINE e == [l \in 0 .. 3 |-> IF l = 3 THEN First ELSE Leading(m, d[l + 1]) \X Slot]
  <2>1. d = e
    <3>1. \A l \in 0 .. 3 : d[l] = e[l]
      BY <1>1
    <3>2. d = [l \in 0 .. 3 |-> d[l]]
      OBVIOUS
    <3>3. e = [l \in 0 .. 3 |-> e[l]]
      OBVIOUS
    <3> HIDE DEF d, e
    <3> QED BY <3>1, <3>2, <3>3
  <2> HIDE DEF d
  <2> QED BY <2>1 DEF IsVisited, Top, First
<1> HIDE DEF d
<1>3. Visited(m, root) = CHOOSE x : IsVisited(x, m, root)
  BY Zenon DEF Visited, IsVisited, Leading
<1> QED BY <1>2, <1>3

(* The tables of tree r of level l, and their slots. *)
TablesAt(o, r, l) == {t \in Frame : o.R[t] = r /\ o.L[t] = l}
SlotsAt(o, r, l) == TablesAt(o, r, l) \X (IF l = 3 THEN 0 .. KernelFirst - 1 ELSE Slot)

GoodSlot(m, o, a, r, k, c, l, q) ==
  /\ q = <<q[1], q[2]>> /\ q[1] \in TablesAt(o, r, l) /\ q[1] \in Frame /\ q[2] \in Slot
  /\ o.B[q[1]] \in Nat
  /\ l = 3 => q[2] < KernelFirst
  /\ EntryOK(m.table[q[1]][q[2]], r, l, Below(o.B[q[1]], q[2]), o, a[r], k, c)

(* A slot of a program's tree, in its half, is right. *)
LEMMA SlotOK ==
  ASSUME NEW m, NEW o, NEW a, NEW Rs, NEW k \in Rs, NEW c, Shape(m, o, a, Rs, k, c),
         NEW r \in Rs, r # k, NEW l \in 0 .. 3, NEW q \in SlotsAt(o, r, l)
  PROVE  GoodSlot(m, o, a, r, k, c, l, q)
<1>1. q = <<q[1], q[2]>> /\ q[1] \in TablesAt(o, r, l)
      /\ q[2] \in (IF l = 3 THEN 0 .. KernelFirst - 1 ELSE Slot)
  BY DEF SlotsAt
<1>2. KernelFirst \in Nat /\ Fan \in Nat /\ KernelFirst < Fan
  BY Numbers
<1>3. q[2] \in Slot /\ (l = 3 => q[2] < KernelFirst)
  BY <1>1, <1>2 DEF Slot
<1>4. PICK t, i : t = q[1] /\ i = q[2]
  OBVIOUS
<1>5. t \in Frame /\ o.R[t] = r /\ o.L[t] = l /\ i \in Slot
  BY <1>1, <1>3, <1>4 DEF TablesAt
<1>6. r # Nobody /\ r \in Frame /\ Owners(o, Rs) /\ RootsOwn(o, Rs) /\ Entries(m, o, a, Rs, k, c)
  BY DEF Shape, Frame, Nobody
<1>7. t \in Rs \ {k} => i < KernelFirst
  BY <1>3, <1>4, <1>5, <1>6 DEF RootsOwn
<1>8. EntryOK(m.table[t][i], o.R[t], o.L[t], Below(o.B[t], i), o, a[o.R[t]], k, c)
  BY <1>5, <1>6, <1>7 DEF Entries
<1>9. o.B[t] \in Nat
  BY <1>5, <1>6 DEF Owners
<1> QED BY <1>1, <1>3, <1>4, <1>5, <1>8, <1>9 DEF GoodSlot

(* A program's tree has no large page. *)
LEMMA NoneLarge ==
  ASSUME NEW m, NEW o, NEW a, NEW Rs, NEW k \in Rs, NEW c, Shape(m, o, a, Rs, k, c),
         NEW r \in Rs, r # k, NEW l \in 1 .. 3, NEW q \in SlotsAt(o, r, l),
         m.table[q[1]][q[2]].present
  PROVE  ~m.table[q[1]][q[2]].huge
<1> SUFFICES ASSUME m.table[q[1]][q[2]].huge PROVE FALSE
  OBVIOUS
<1>1. PICK t, i : t = q[1] /\ i = q[2]
  OBVIOUS
<1>2. /\ t \in Frame /\ i \in Slot /\ o.R[t] = r /\ o.L[t] = l /\ o.B[t] \in Nat
      /\ l = 3 => i < KernelFirst
      /\ EntryOK(m.table[t][i], r, l, Below(o.B[t], i), o, a[r], k, c)
  <2>1. l \in 0 .. 3
    OBVIOUS
  <2>2. /\ q[1] \in TablesAt(o, r, l) /\ q[2] \in Slot /\ o.B[q[1]] \in Nat
        /\ l = 3 => q[2] < KernelFirst
        /\ EntryOK(m.table[q[1]][q[2]], r, l, Below(o.B[q[1]], q[2]), o, a[r], k, c)
    BY <2>1, SlotOK DEF GoodSlot
  <2> QED BY <1>1, <2>2 DEF TablesAt
<1>3. LeafOK(m.table[t][i], l, Below(o.B[t], i), a[r])
  BY <1>1, <1>2 DEF EntryOK
<1>4. PICK v : Starts(o, r, k, t, l, v)
  <2>1. l \in 0 .. 3
    OBVIOUS
  <2> QED BY <1>2, <2>1, Somewhere
<1>5. v \in Page /\ v \in Nat /\ o.B[t] = Block(v, l + 1) /\ v % level_size(l + 1) = 0
      /\ (l < 3 => v < USER_LIMIT)
  BY <1>4 DEF Starts, Page
<1> DEFINE y == v + i * level_size(l)
<1>6. y \in Page /\ Block(y, l + 1) = Block(v, l + 1) /\ Block(y, l) = Below(Block(v, l + 1), i)
  <2>1. l \in 0 .. 3
    OBVIOUS
  <2> QED BY <1>2, <1>5, <2>1, Descend
<1> HIDE DEF y
<1>7. Block(y, 3) = KernelFirst
  <2>1. l > 0 => \A z \in Page : Block(z, l) = Below(o.B[t], i) => Block(z, 3) = KernelFirst
    BY <1>3 DEF LeafOK
  <2> QED BY <1>5, <1>6, <2>1
<1>8. y \in Nat /\ KernelFirst \in Nat
  BY <1>6, Numbers DEF Page
<1>9. CASE l < 3
  <2>1. Block(y, 3) = Block(v, 3)
    <3>1. CASE l = 2
      BY <1>6, <3>1
    <3>2. CASE l = 1
      <4>1. Block(y, 2) = Block(v, 2)
        BY <1>6, <3>2
      <4>2. 2 \in 0 .. 3 /\ 2 + 1 = 3
        OBVIOUS
      <4>3. Block(y, 2 + 1) = Block(y, 2) \div Fan /\ Block(v, 2 + 1) = Block(v, 2) \div Fan
        BY <1>5, <1>8, <4>2, BlockUp
      <4> QED BY <4>1, <4>2, <4>3
    <3> QED BY <1>9, <3>1, <3>2
  <2>2. Block(v, 3) < KernelFirst
    BY <1>5, <1>9, UserBlock
  <2>3. Block(v, 3) \in Nat
    <3>1. 3 \in 0 .. 3
      OBVIOUS
    <3> QED BY <1>5, <3>1, BlockUp
  <2> QED BY <1>7, <1>8, <2>1, <2>2, <2>3
<1>10. CASE l = 3
  <2>1. Block(v, 3 + 1) = 0
    BY <1>5, TopBlock
  <2>2. Block(y, 3) = Below(0, i)
    BY <1>6, <1>10, <2>1
  <2>3. Below(0, i) = i
    BY <1>2, Numbers DEF Below, Slot
  <2> QED BY <1>2, <1>7, <1>8, <1>10, <2>2, <2>3 DEF Slot
<1> QED BY <1>9, <1>10

LeadsDown(m, o, r, l) == Leading(m, SlotsAt(o, r, l + 1)) = TablesAt(o, r, l)

(* The slots of a level lead to the tables of the next. *)
LEMMA LeadingIs ==
  ASSUME NEW m, NEW o, NEW a, NEW Rs, NEW k \in Rs, NEW c, Shape(m, o, a, Rs, k, c),
         NEW r \in Rs, r # k, NEW l \in 0 .. 2
  PROVE  LeadsDown(m, o, r, l)
<1>0. l + 1 \in 0 .. 3 /\ l + 1 # 0 /\ (l + 1) - 1 = l
  OBVIOUS
<1>1. ASSUME NEW f \in Leading(m, SlotsAt(o, r, l + 1)) PROVE f \in TablesAt(o, r, l)
  <2>1. PICK q \in SlotsAt(o, r, l + 1) : /\ m.table[q[1]][q[2]].present /\ ~m.table[q[1]][q[2]].huge
                                          /\ f = m.table[q[1]][q[2]].to
    BY DEF Leading
  <2>2. EntryOK(m.table[q[1]][q[2]], r, l + 1, Below(o.B[q[1]], q[2]), o, a[r], k, c)
    BY <1>0, SlotOK DEF GoodSlot
  <2>3. TableOK(m.table[q[1]][q[2]], r, l + 1, Below(o.B[q[1]], q[2]), o, a[r])
    BY <1>0, <2>1, <2>2 DEF EntryOK
  <2>4. f \in Frame /\ o.R[f] = r /\ o.L[f] = (l + 1) - 1
    BY <2>1, <2>3 DEF TableOK
  <2> QED BY <1>0, <2>4 DEF TablesAt
<1>2. ASSUME NEW f \in TablesAt(o, r, l) PROVE f \in Leading(m, SlotsAt(o, r, l + 1))
  <2>1. f \in Frame /\ o.R[f] = r /\ o.L[f] = l /\ r # Nobody /\ Hung(m, o) /\ Owners(o, Rs)
    BY DEF TablesAt, Shape, Frame, Nobody
  <2>2. PICK t \in Frame, i \in Slot :
          /\ o.R[t] = o.R[f] /\ o.L[t] = o.L[f] + 1
          /\ m.table[t][i].present /\ ~m.table[t][i].huge /\ m.table[t][i].to = f
    BY <2>1 DEF Hung
  <2>3. t \in TablesAt(o, r, l + 1)
    BY <2>1, <2>2 DEF TablesAt
  <2>4. l + 1 = 3 => i \in 0 .. KernelFirst - 1
    <3> SUFFICES ASSUME l + 1 = 3 PROVE i \in 0 .. KernelFirst - 1
      OBVIOUS
    <3>1. t = r
      BY <2>1, <2>2 DEF Owners
    <3>2. i < KernelFirst
      <4>1. f \in Frame /\ o.R[f] = r /\ m.table[r][i].present /\ ~m.table[r][i].huge
            /\ m.table[r][i].to = f
        BY <2>1, <2>2, <3>1
      <4> QED BY ZenonT(30), <4>1, LowerHalf
    <3> QED BY <3>2, Numbers DEF Slot
  <2> DEFINE q == <<t, i>>
  <2>5. q \in SlotsAt(o, r, l + 1)
    BY <2>3, <2>4 DEF SlotsAt
  <2>6. q[1] = t /\ q[2] = i
    OBVIOUS
  <2> HIDE DEF q
  <2> QED BY <2>2, <2>5, <2>6 DEF Leading
<1> QED BY <1>1, <1>2 DEF LeadsDown

Visits(m, o, r, l) == Visited(m, r)[l] = SlotsAt(o, r, l)

(* So the visit goes through the slots of every table of the tree. *)
LEMMA VisitedIs ==
  ASSUME NEW m, NEW o, NEW a, NEW Rs, NEW k \in Rs, NEW c, Shape(m, o, a, Rs, k, c),
         NEW r \in Rs, r # k, NEW l \in 0 .. 3
  PROVE  Visits(m, o, r, l)
<1>0. ASSUME NEW j \in 0 .. 2 PROVE LeadsDown(m, o, r, j)
  BY LeadingIs
<1> DEFINE d == Visited(m, r)
           First == {r} \X (0 .. KernelFirst - 1)
<1>1. d = [j \in 0 .. 3 |-> IF j = 3 THEN First ELSE Leading(m, d[j + 1]) \X Slot]
  <2>1. IsVisited(d, m, r)
    BY VisitedExists
  <2> HIDE DEF d
  <2> QED BY <2>1 DEF IsVisited, Top
<1> HIDE DEF d
<1>2. \A j \in 0 .. 3 : d[j] = IF j = 3 THEN First ELSE Leading(m, d[j + 1]) \X Slot
  BY <1>1, Zenon
<1>3. d[3] = SlotsAt(o, r, 3)
  <2>1. TablesAt(o, r, 3) = {r}
    <3>1. RootsOwn(o, Rs) /\ Owners(o, Rs) /\ r \in Frame /\ r # Nobody
      BY DEF Shape, Frame, Nobody
    <3> QED BY <3>1 DEF TablesAt, RootsOwn, Owners
  <2>2. d[3] = First
    BY <1>2
  <2> QED BY <2>1, <2>2 DEF SlotsAt
<1>4. ASSUME NEW j \in 0 .. 2, d[j + 1] = SlotsAt(o, r, j + 1)
      PROVE  d[j] = SlotsAt(o, r, j)
  <2>1. j \in 0 .. 3 /\ j # 3
    OBVIOUS
  <2>2. d[j] = Leading(m, d[j + 1]) \X Slot
    BY <1>2, <2>1
  <2>3. Leading(m, SlotsAt(o, r, j + 1)) = TablesAt(o, r, j)
    BY <1>0 DEF LeadsDown
  <2> QED BY <1>4, <2>1, <2>2, <2>3 DEF SlotsAt
<1>5. 2 + 1 = 3 /\ 1 + 1 = 2 /\ 0 + 1 = 1 /\ 0 \in 0 .. 2 /\ 1 \in 0 .. 2 /\ 2 \in 0 .. 2
  OBVIOUS
<1>6. d[2] = SlotsAt(o, r, 2)
  BY <1>3, <1>4, <1>5
<1>7. d[1] = SlotsAt(o, r, 1)
  BY <1>4, <1>5, <1>6
<1>8. d[0] = SlotsAt(o, r, 0)
  BY <1>4, <1>5, <1>7
<1>9. l \in {0, 1, 2, 3}
  OBVIOUS
<1> QED BY <1>3, <1>6, <1>7, <1>8, <1>9 DEF d, Visits

(* The page a program is asked to have at v is in the table that is for v. *)
LEMMA LeafEntry ==
  ASSUME NEW m, NEW o, NEW a, NEW Rs, NEW k \in Rs, NEW c, Shape(m, o, a, Rs, k, c),
         NEW r \in Rs, r # k, NEW v \in Page, v < USER_LIMIT, a[r][v].mapped
  PROVE  \E g : /\ TableFor(o, r, v, 0, g) /\ index(v, 0) \in Slot
                /\ m.table[g][index(v, 0)].present
                /\ m.table[g][index(v, 0)].to = a[r][v].phys
<1>1. /\ r \in Frame /\ r # Nobody /\ v \in Nat /\ Block(v, 3) # KernelFirst /\ TreeOf(r, k, v) = r
      /\ Entries(m, o, a, Rs, k, c) /\ IsMem(m) /\ RootsOwn(o, Rs)
  <2>1. v \in Nat
    BY DEF Page
  <2>2. Block(v, 3) < KernelFirst /\ Block(v, 3) \in Nat /\ USER_LIMIT \in Nat
    <3>1. 3 \in 0 .. 3
      OBVIOUS
    <3> QED BY <2>1, <3>1, UserBlock, BlockUp
  <2> QED BY <2>1, <2>2, Numbers DEF Shape, Frame, Nobody, TreeOf
<1>2. PICK g : TableFor(o, r, v, 0, g)
  BY <1>1, LeafTable
<1>3. g \in Frame /\ o.R[g] = r /\ o.L[g] = 0 /\ o.B[g] = Block(v, 1)
  <2>1. 0 + 1 = 1
    OBVIOUS
  <2> QED BY <1>2, <2>1 DEF TableFor
<1> DEFINE i == index(v, 0)
           e == m.table[g][i]
<1>4. i \in Slot /\ Block(v, 0) = Below(Block(v, 1), i) /\ Block(v, 0) = v
  <2>1. 0 \in 0 .. 3 /\ 0 + 1 = 1
    OBVIOUS
  <2>2. Block(v, 0) = v
    BY <1>1, Sizes DEF Block
  <2> QED BY <1>1, <2>1, <2>2, BlockUp
<1> HIDE DEF i
<1>5. g \notin Rs
  BY <1>3 DEF RootsOwn, Shape
<1>6. EntryOK(e, r, 0, v, o, a[r], k, c)
  <2>1. o.R[g] # Nobody /\ o.L[g] >= 0
    BY <1>1, <1>3
  <2>2. EntryOK(m.table[g][i], o.R[g], o.L[g], Below(o.B[g], i), o, a[o.R[g]], k, c)
    BY <1>1, <1>3, <1>4, <1>5, <2>1 DEF Entries
  <2> QED BY <1>3, <1>4, <2>2
<1>7. e \in EntryT
  BY <1>1, <1>3, <1>4 DEF IsMem
<1>8. PICK d : d = e
  OBVIOUS
<1> HIDE DEF e
<1>9. d.present
  <2> SUFFICES ASSUME ~d.present PROVE FALSE
    OBVIOUS
  <2>1. a[r][v] = Unmapped
    BY <1>4, <1>6, <1>8 DEF EntryOK, AbsentOK
  <2> QED BY <2>1 DEF Unmapped
<1>10. LeafOK(d, 0, v, a[r])
  BY <1>6, <1>8, <1>9 DEF EntryOK
<1>11. a[r][v] = Mapping(d.to + (v % level_size(0)), RightsOf(d), d.device)
  BY <1>4, <1>10 DEF LeafOK
<1>12. d.to + (v % level_size(0)) = d.to
  BY <1>1, <1>7, <1>8, Sizes DEF EntryT
<1>13. a[r][v].phys = d.to
  BY <1>11, <1>12, MappingIs
<1> QED BY <1>2, <1>4, <1>8, <1>9, <1>13 DEF e, i

(* An entry is freed at level l: what it leads to is the tree's. *)
Frees(m, o, r, l, q) ==
  LET f == m.table[q[1]][q[2]].to
  IN  /\ q \in SlotsAt(o, r, l) /\ f \in Frame /\ o.R[f] = r /\ o.L[f] = l - 1
      /\ o.B[f] = Below(o.B[q[1]], q[2])

(* The entries that are freed. *)
LEMMA FreedIs ==
  ASSUME NEW m, NEW o, NEW a, NEW Rs, NEW k \in Rs, NEW c, Shape(m, o, a, Rs, k, c),
         NEW r \in Rs, r # k, NEW q
  PROVE  q \in free_level(m, r, {c}) <=>
           \E l \in 0 .. 3 : /\ q \in SlotsAt(o, r, l) /\ m.table[q[1]][q[2]].present
                             /\ l = 0 \/ m.table[q[1]][q[2]].huge => m.table[q[1]][q[2]].to # c
<1>1. ASSUME NEW l \in 0 .. 3 PROVE Visited(m, r)[l] = SlotsAt(o, r, l)
  <2>1. Visits(m, o, r, l)
    BY VisitedIs
  <2> QED BY <2>1 DEF Visits
<1>2. q \in free_level(m, r, {c}) <=>
        \E l \in 0 .. 3 : /\ q \in Visited(m, r)[l] /\ m.table[q[1]][q[2]].present
                          /\ l = 0 \/ m.table[q[1]][q[2]].huge => m.table[q[1]][q[2]].to \notin {c}
  <2> DEFINE F(l) == {x \in Visited(m, r)[l] :
                        /\ m.table[x[1]][x[2]].present
                        /\ l = 0 \/ m.table[x[1]][x[2]].huge => m.table[x[1]][x[2]].to \notin {c}}
  <2>1. free_level(m, r, {c}) = UNION {F(l) : l \in 0 .. 3}
    BY Zenon DEF free_level, Top
  <2>2. q \in UNION {F(l) : l \in 0 .. 3} <=> \E l \in 0 .. 3 : q \in F(l)
    <3> HIDE DEF F
    <3> QED OBVIOUS
  <2> QED BY <2>1, <2>2
<1> QED BY <1>1, <1>2

(* An entry that tearing down frees names a frame of the tree.              *)
LEMMA FreedEntry ==
  ASSUME NEW m, NEW o, NEW a, NEW Rs, NEW k \in Rs, NEW c, Shape(m, o, a, Rs, k, c),
         NEW r \in Rs, r # k, NEW q \in free_level(m, r, {c})
  PROVE  \E l \in 0 .. 3 : Frees(m, o, r, l, q)
<1>1. PICK l \in 0 .. 3 : /\ q \in SlotsAt(o, r, l) /\ m.table[q[1]][q[2]].present
                          /\ l = 0 \/ m.table[q[1]][q[2]].huge => m.table[q[1]][q[2]].to # c
  BY FreedIs
<1>2. PICK e, b : e = m.table[q[1]][q[2]] /\ b = Below(o.B[q[1]], q[2])
  OBVIOUS
<1>3. EntryOK(e, r, l, b, o, a[r], k, c)
  <2>1. EntryOK(m.table[q[1]][q[2]], r, l, Below(o.B[q[1]], q[2]), o, a[r], k, c)
    BY <1>1, SlotOK DEF GoodSlot
  <2> QED BY <1>2, <2>1
<1>4. l # 0 => ~e.huge
  <2> SUFFICES ASSUME l # 0 PROVE ~e.huge
    OBVIOUS
  <2>1. l \in 1 .. 3
    OBVIOUS
  <2> QED BY <1>1, <1>2, <2>1, NoneLarge
<1>5. e.to \in Frame /\ o.R[e.to] = r /\ o.L[e.to] = l - 1 /\ o.B[e.to] = b
  <2>1. CASE l = 0
    <3>1. Private(e, r, b, o, c)
      BY <1>1, <1>2, <1>3, <2>1 DEF EntryOK
    <3> QED BY SMTT(30), <1>1, <1>2, <2>1, <3>1 DEF Private
  <2>2. CASE l # 0
    <3>1. TableOK(e, r, l, b, o, a[r])
      BY <1>1, <1>2, <1>3, <1>4, <2>2 DEF EntryOK
    <3> QED BY <3>1 DEF TableOK
  <2> QED BY <2>1, <2>2
<1>6. Frees(m, o, r, l, q)
  BY <1>1, <1>2, <1>5 DEF Frees
<1> QED BY <1>6

(* No frame is freed twice. *)
LEMMA FreedOnce ==
  ASSUME NEW m, NEW o, NEW a, NEW Rs, NEW k \in Rs, NEW c, Shape(m, o, a, Rs, k, c),
         NEW r \in Rs, r # k, NEW q \in free_level(m, r, {c}), NEW p \in free_level(m, r, {c}),
         m.table[q[1]][q[2]].to = m.table[p[1]][p[2]].to
  PROVE  q = p
<1>1. PICK l \in 0 .. 3 : Frees(m, o, r, l, q)
  BY FreedEntry
<1>2. PICK j \in 0 .. 3 : Frees(m, o, r, j, p)
  BY FreedEntry
<1>3. PICK f : f = m.table[q[1]][q[2]].to
  OBVIOUS
<1>4. /\ q \in SlotsAt(o, r, l) /\ o.L[f] = l - 1 /\ o.B[f] = Below(o.B[q[1]], q[2])
  BY <1>1, <1>3 DEF Frees
<1>5. /\ p \in SlotsAt(o, r, j) /\ o.L[f] = j - 1 /\ o.B[f] = Below(o.B[p[1]], p[2])
  BY <1>2, <1>3 DEF Frees
<1>6. l = j
  BY <1>4, <1>5
<1>7. /\ q = <<q[1], q[2]>> /\ q[1] \in TablesAt(o, r, l) /\ q[2] \in Slot /\ o.B[q[1]] \in Nat
  <2>1. q \in SlotsAt(o, r, l)
    BY <1>4
  <2>2. GoodSlot(m, o, a, r, k, c, l, q)
    BY <2>1, SlotOK
  <2> QED BY <2>2 DEF GoodSlot
<1>8. /\ p = <<p[1], p[2]>> /\ p[1] \in TablesAt(o, r, j) /\ p[2] \in Slot /\ o.B[p[1]] \in Nat
  <2>1. p \in SlotsAt(o, r, j)
    BY <1>5
  <2>2. GoodSlot(m, o, a, r, k, c, j, p)
    BY <2>1, SlotOK
  <2> QED BY <2>2 DEF GoodSlot
<1>9. o.B[q[1]] = o.B[p[1]] /\ q[2] = p[2]
  <2>1. PICK b, d, i, h : b = o.B[q[1]] /\ d = o.B[p[1]] /\ i = q[2] /\ h = p[2]
    OBVIOUS
  <2>2. b \in Nat /\ d \in Nat /\ i \in Slot /\ h \in Slot /\ Below(b, i) = Below(d, h)
    BY <1>4, <1>5, <1>7, <1>8, <2>1
  <2>3. b = d /\ i = h
    BY <2>2, SlotsOnce
  <2> QED BY <2>1, <2>3
<1>10. q[1] = p[1]
  <2>1. Once(o) /\ r # Nobody
    BY DEF Shape, Frame, Nobody
  <2> QED BY <1>6, <1>7, <1>8, <1>9, <2>1 DEF Once, TablesAt
<1> QED BY <1>7, <1>8, <1>9, <1>10

(* A freed entry names the frame; a page asked for lies in it.              *)
Found(m, r, c, f) == \E q \in free_level(m, r, {c}) : m.table[q[1]][q[2]].to = f
IsPlaced(w, f) == \E v \in Page : v < USER_LIMIT /\ w[v].mapped /\ w[v].phys = f

(* Every frame of the tree but the root is freed, if its pages are where    *)
(* the tree was asked for them.                                             *)
LEMMA FreedAll ==
  ASSUME NEW m, NEW o, NEW a, NEW Rs, NEW k \in Rs, NEW c, Shape(m, o, a, Rs, k, c),
         NEW r \in Rs, r # k, o.R[c] # r, NEW f \in Frame, o.R[f] = r, f # r,
         o.L[f] = -1 => IsPlaced(a[r], f)
  PROVE  Found(m, r, c, f)
<1>1. r \in Frame /\ r # Nobody /\ Owners(o, Rs) /\ Hung(m, o) /\ f # c
  BY DEF Shape, Frame, Nobody
<1>2. o.L[f] \in -1 .. 3 /\ o.L[f] # 3
  BY <1>1 DEF Owners
<1>3. ASSUME NEW l \in 0 .. 3, NEW t, NEW i, <<t, i>> \in SlotsAt(o, r, l),
             m.table[t][i].present, m.table[t][i].to = f
      PROVE  Found(m, r, c, f)
  <2> DEFINE q == <<t, i>>
  <2>1. q[1] = t /\ q[2] = i
    OBVIOUS
  <2>2. q \in SlotsAt(o, r, l)
    BY <1>3
  <2> HIDE DEF q
  <2>3. q \in SlotsAt(o, r, l) /\ m.table[q[1]][q[2]].present /\ m.table[q[1]][q[2]].to = f
    BY <1>3, <2>1, <2>2
  <2>4. q \in free_level(m, r, {c})
    BY <1>1, <2>3, FreedIs
  <2> QED BY <2>3, <2>4 DEF Found
<1>4. CASE o.L[f] = -1
  <2>1. PICK v \in Page : v < USER_LIMIT /\ a[r][v].mapped /\ a[r][v].phys = f
    BY <1>4 DEF IsPlaced
  <2>2. PICK g : /\ TableFor(o, r, v, 0, g) /\ index(v, 0) \in Slot
                 /\ m.table[g][index(v, 0)].present
                 /\ m.table[g][index(v, 0)].to = a[r][v].phys
    BY <2>1, LeafEntry
  <2>3. g \in TablesAt(o, r, 0)
    BY <2>2 DEF TableFor, TablesAt
  <2>4. <<g, index(v, 0)>> \in SlotsAt(o, r, 0)
    BY <2>2, <2>3 DEF SlotsAt
  <2>5. 0 \in 0 .. 3
    OBVIOUS
  <2> QED BY <1>3, <2>1, <2>2, <2>4, <2>5
<1>5. CASE o.L[f] # -1
  <2>1. o.L[f] \in 0 .. 2 /\ o.R[f] # Nobody
    BY <1>1, <1>2, <1>5
  <2>2. PICK t \in Frame, i \in Slot :
          /\ o.R[t] = o.R[f] /\ o.L[t] = o.L[f] + 1
          /\ m.table[t][i].present /\ ~m.table[t][i].huge /\ m.table[t][i].to = f
    BY <1>1, <2>1 DEF Hung
  <2> DEFINE l == o.L[f] + 1
  <2>3. l \in 0 .. 3 /\ t \in TablesAt(o, r, l)
    BY <2>1, <2>2 DEF TablesAt
  <2>4. l = 3 => i \in 0 .. KernelFirst - 1
    <3> SUFFICES ASSUME l = 3 PROVE i \in 0 .. KernelFirst - 1
      OBVIOUS
    <3>1. t = r
      BY <1>1, <2>2 DEF Owners
    <3>2. i < KernelFirst
      <4>1. f \in Frame /\ o.R[f] = r /\ m.table[r][i].present /\ ~m.table[r][i].huge
            /\ m.table[r][i].to = f
        BY <2>2, <3>1
      <4> QED BY <4>1, LowerHalf
    <3> QED BY <3>2, Numbers DEF Slot
  <2> HIDE DEF l
  <2>5. <<t, i>> \in SlotsAt(o, r, l)
    BY <2>2, <2>3, <2>4 DEF SlotsAt
  <2> QED BY <1>3, <2>2, <2>3, <2>5
<1> QED BY <1>4, <1>5

(* As many as what they lead to, one each. *)
LEMMA Counted ==
  ASSUME NEW S, NEW T, IsFiniteSet(T), NEW g \in [S -> T], \A x \in S : \A y \in S : g[x] = g[y] => x = y
  PROVE  /\ IsFiniteSet(S)
         /\ (\A t \in T : \E x \in S : g[x] = t) => Cardinality(S) = Cardinality(T)
<1>1. g \in Injection(S, T)
  BY DEF Injection, IsInjective
<1>2. IsFiniteSet(S) /\ (Cardinality(S) = Cardinality(T) <=> g \in Surjection(S, T))
  BY <1>1, FS_Injection
<1>3. (\A t \in T : \E x \in S : g[x] = t) => g \in Surjection(S, T)
  BY DEF Surjection
<1> QED BY <1>2, <1>3

FreedOK(m, o, w, c, r) ==
  LET F == free_level(m, r, {c})
      T == {m.table[q[1]][q[2]].to : q \in F}
      P == \A f \in Frame : o.R[f] = r /\ o.L[f] = -1 => IsPlaced(w, f)
  IN  /\ T \subseteq Owned(o, r) \ {r}
      /\ Cardinality(F) \in Nat
      /\ P /\ o.R[c] # r => T = Owned(o, r) \ {r} /\ Cardinality(F) = Cardinality(T)

(* How many entries are freed, and what they lead to. *)
LEMMA FreedCount ==
  ASSUME NEW m, NEW o, NEW a, NEW Rs, NEW k \in Rs, NEW c, Shape(m, o, a, Rs, k, c),
         NEW r \in Rs, r # k
  PROVE  FreedOK(m, o, a[r], c, r)
<1> DEFINE F == free_level(m, r, {c})
           T == {m.table[q[1]][q[2]].to : q \in F}
           P == \A f \in Frame : o.R[f] = r /\ o.L[f] = -1 => IsPlaced(a[r], f)
           X == Owned(o, r) \ {r}
           g == [q \in F |-> m.table[q[1]][q[2]].to]
<1>1. r \in Frame /\ RootsOwn(o, Rs)
  BY DEF Shape
<1>2. ASSUME NEW q \in F PROVE m.table[q[1]][q[2]].to \in X
  <2>1. PICK l \in 0 .. 3 : Frees(m, o, r, l, q)
    BY FreedEntry
  <2>2. PICK f : f = m.table[q[1]][q[2]].to
    OBVIOUS
  <2>3. f \in Frame /\ o.R[f] = r /\ o.L[f] = l - 1
    BY <2>1, <2>2 DEF Frees
  <2>4. f # r
    BY <1>1, <2>3 DEF RootsOwn
  <2> QED BY <2>2, <2>3, <2>4 DEF Owned
<1>3. ASSUME NEW q \in F, NEW p \in F, m.table[q[1]][q[2]].to = m.table[p[1]][p[2]].to
      PROVE  q = p
  BY <1>3, FreedOnce
<1>4. ASSUME P, o.R[c] # r, NEW f \in X PROVE \E q \in F : m.table[q[1]][q[2]].to = f
  <2>1. f \in Frame /\ o.R[f] = r /\ f # r
    BY DEF Owned
  <2>2. o.L[f] = -1 => IsPlaced(a[r], f)
    BY <1>4, <2>1
  <2>3. Found(m, r, c, f)
    BY <1>4, <2>1, <2>2, FreedAll
  <2> QED BY <2>3 DEF Found
<1> HIDE DEF F, P
<1>5. IsFiniteSet(X)
  <2>1. X \subseteq Frame
    BY DEF Owned
  <2> QED BY <2>1, FramesFinite
<1> HIDE DEF X
<1>6. g \in [F -> X] /\ \A x \in F : \A y \in F : g[x] = g[y] => x = y
  BY <1>2, <1>3
<1>7. /\ IsFiniteSet(F)
      /\ (\A t \in X : \E x \in F : g[x] = t) => Cardinality(F) = Cardinality(X)
  <2> HIDE DEF g
  <2> QED BY <1>5, <1>6, Counted
<1>8. Cardinality(F) \in Nat
  BY <1>7, FS_CardinalityType
<1>9. T \subseteq X
  BY <1>2
<1>10. P /\ o.R[c] # r => T = X /\ Cardinality(F) = Cardinality(T)
  <2> SUFFICES ASSUME P, o.R[c] # r PROVE T = X /\ Cardinality(F) = Cardinality(T)
    OBVIOUS
  <2>1. \A f \in X : \E q \in F : m.table[q[1]][q[2]].to = f
    BY <1>4
  <2>2. T = X
    BY <1>9, <2>1
  <2>3. \A t \in X : \E x \in F : g[x] = t
    BY <2>1
  <2> HIDE DEF T, g
  <2> QED BY <1>7, <2>2, <2>3
<1> HIDE DEF T
<1>11. /\ T \subseteq X /\ Cardinality(F) \in Nat
       /\ P /\ o.R[c] # r => T = X /\ Cardinality(F) = Cardinality(T)
  BY <1>8, <1>9, <1>10
<1> QED BY <1>11, Zenon DEF T, F, P, X, FreedOK

(* From m to x the tree r was torn down. *)
Returned(m, o, x, Rs, k, c, r) ==
  /\ Kept(x, Released(o, r), Rs \ {r}, k, c)
  /\ x.bytes = m.bytes /\ x.table = m.table /\ x.err = m.err
  /\ \A t \in Frame : x.asked[t] = IF t = r THEN <<>> ELSE m.asked[t]
  /\ m.pool \subseteq x.pool /\ x.pool \subseteq m.pool \cup Owned(o, r)
  /\ Placed(m, o, r) /\ o.R[c] # r =>
       x.pool = m.pool \cup Owned(o, r) /\ Ledger(x) = Ledger(m)

(* The page a tree owns is where it was asked for it. *)
LEMMA PlacedIs ==
  ASSUME NEW m, NEW o, NEW r \in Frame, Placed(m, o, r), NEW f \in Frame, o.R[f] = r, o.L[f] = -1
  PROVE  IsPlaced(AskedFn(m)[r], f)
<1>1. /\ o.B[f] \in Page /\ o.B[f] < USER_LIMIT
      /\ Asked(m.asked[r], o.B[f]).mapped /\ Asked(m.asked[r], o.B[f]).phys = f
  BY DEF Placed
<1>2. AskedFn(m)[r][o.B[f]] = Asked(m.asked[r], o.B[f])
  BY <1>1 DEF AskedFn
<1> QED BY <1>1, <1>2 DEF IsPlaced

(* x is m with the pool P and the count n, and nothing asked of the tree r. *)
Forgoes(m, x, r, P, n) ==
  /\ IsMem(x) /\ x.table = m.table /\ x.bytes = m.bytes /\ x.pool = P
  /\ x.inUse = n /\ x.got = m.got /\ x.err = m.err
  /\ \A t \in Frame : x.asked[t] = IF t = r THEN <<>> ELSE m.asked[t]

(* A tree is forgotten. *)
LEMMA ForgetIs ==
  ASSUME NEW m, IsMem(m), NEW r \in Frame, NEW P, P \subseteq Frame, NEW n \in Int
  PROVE  Forgoes(m, [m EXCEPT !.pool = P, !.inUse = n, !.asked[r] = <<>>], r, P, n)
<1> DEFINE A == [m.asked EXCEPT ![r] = <<>>]
           y == [table |-> m.table, bytes |-> m.bytes, pool |-> P, inUse |-> n,
                 got |-> m.got, err |-> m.err, asked |-> A]
           x == [m EXCEPT !.pool = P, !.inUse = n, !.asked[r] = <<>>]
<1>1. m.asked = [f \in Frame |-> m.asked[f]]
  BY DEF IsMem
<1>2. A = [f \in Frame |-> A[f]] /\ \A t \in Frame : A[t] = IF t = r THEN <<>> ELSE m.asked[t]
  BY <1>1
<1>3. x = [m EXCEPT !.pool = P, !.inUse = n, !.asked = A]
  BY Zenon DEF A
<1> HIDE DEF A, x
<1>4. m = [table |-> m.table, bytes |-> m.bytes, pool |-> m.pool, inUse |-> m.inUse,
           got |-> m.got, err |-> m.err, asked |-> m.asked]
  BY DEF IsMem
<1>5. x = y
  BY <1>3, <1>4
<1>6. IsMem(y)
  BY <1>2 DEF IsMem
<1>7. /\ IsMem(x) /\ x.table = m.table /\ x.bytes = m.bytes /\ x.pool = P
      /\ x.inUse = n /\ x.got = m.got /\ x.err = m.err /\ x.asked = A
  BY <1>5, <1>6
<1> QED BY <1>2, <1>7 DEF x, Forgoes

(* What is asked of the other trees when one is forgotten. *)
LEMMA ForgetAsked ==
  ASSUME NEW m, NEW x, NEW r \in Frame, NEW Rs, Rs \subseteq Frame,
         \A t \in Frame : x.asked[t] = IF t = r THEN <<>> ELSE m.asked[t]
  PROVE  SameElsewhere(AskedFn(m), AskedFn(x), Rs, r)
<1> SUFFICES ASSUME NEW q \in Rs, q # r PROVE AskedFn(x)[q] = AskedFn(m)[q]
  BY DEF SameElsewhere
<1>1. q \in Frame /\ x.asked[q] = m.asked[q]
  OBVIOUS
<1> QED BY <1>1, Zenon DEF AskedFn

(* Giving frames back leaves the ledger as it was. *)
LEMMA LedgerBack ==
  ASSUME NEW m, IsMem(m), NEW x, IsMem(x), NEW T, T \subseteq Frame, m.pool \cap T = {},
         x.pool = m.pool \cup T, x.inUse = m.inUse - Cardinality(T)
  PROVE  Ledger(x) = Ledger(m)
<1>1. IsFiniteSet(m.pool) /\ IsFiniteSet(T)
  BY PoolFinite, FramesFinite
<1>2. Cardinality(m.pool \cup T) = Cardinality(m.pool) + Cardinality(T) - Cardinality(m.pool \cap T)
  BY <1>1, FS_Union
<1>3. Cardinality(m.pool) \in Nat /\ Cardinality(T) \in Nat /\ Cardinality(m.pool \cap T) = 0
  BY <1>1, FS_CardinalityType, FS_EmptySet
<1> QED BY <1>2, <1>3 DEF Ledger, IsMem

(* Tearing a tree down returns what it owned and nothing else. *)
LEMMA DestroyIs ==
  ASSUME NEW m, NEW o, NEW Rs, NEW k \in Rs, NEW c, Kept(m, o, Rs, k, c), NEW r \in Rs, r # k
  PROVE  Returned(m, o, destroy(m, r, {c}), Rs, k, c, r)
<1> DEFINE a == AskedFn(m)
           F == free_level(m, r, {c})
           T == {m.table[q[1]][q[2]].to : q \in F}
           x == destroy(m, r, {c})
<1>1. Shape(m, o, a, Rs, k, c) /\ IsMem(m) /\ Rs \subseteq Frame /\ r \in Frame /\ RootsOwn(o, Rs)
      /\ PoolFree(m, o) /\ r # Nobody
  BY DEF Kept, Shape, Frame, Nobody
<1>2. /\ T \subseteq Owned(o, r) \ {r} /\ Cardinality(F) \in Nat
      /\ (\A f \in Frame : o.R[f] = r /\ o.L[f] = -1 => IsPlaced(a[r], f)) /\ o.R[c] # r =>
           T = Owned(o, r) \ {r} /\ Cardinality(F) = Cardinality(T)
  <2> HIDE DEF a
  <2>1. FreedOK(m, o, a[r], c, r)
    BY <1>1, FreedCount
  <2> QED BY <2>1, Zenon DEF FreedOK
<1> DEFINE P == m.pool \cup T \cup {r}
           n == m.inUse - (Cardinality(F) + 1)
<1>3. x = [m EXCEPT !.pool = P, !.inUse = n, !.asked[r] = <<>>]
  BY DEF destroy
<1> HIDE DEF F, T
<1>4. r \in Owned(o, r) /\ Owned(o, r) \subseteq Frame
  BY <1>1 DEF Owned, RootsOwn
<1>5. P \subseteq Frame /\ n \in Int
  BY <1>1, <1>2, <1>4 DEF IsMem
<1>6. P = m.pool \cup (T \cup {r}) /\ m.pool \subseteq P /\ P \subseteq m.pool \cup Owned(o, r)
  BY <1>2, <1>4
<1>7. T = Owned(o, r) \ {r} => T \cup {r} = Owned(o, r)
  BY <1>4
<1> HIDE DEF x, P, n
<1>8. /\ IsMem(x) /\ x.table = m.table /\ x.bytes = m.bytes /\ x.pool = P
      /\ x.inUse = n /\ x.got = m.got /\ x.err = m.err
      /\ \A t \in Frame : x.asked[t] = IF t = r THEN <<>> ELSE m.asked[t]
  <2>1. Forgoes(m, [m EXCEPT !.pool = P, !.inUse = n, !.asked[r] = <<>>], r, P, n)
    BY <1>1, <1>5, ForgetIs
  <2> QED BY <1>3, <2>1 DEF Forgoes
<1>9. Kept(x, Released(o, r), Rs \ {r}, k, c)
  <2>1. SameElsewhere(AskedFn(m), AskedFn(x), Rs, r)
    BY <1>1, <1>8, ForgetAsked
  <2>2. \A f \in x.pool : f \in m.pool \/ o.R[f] = r
    BY <1>6, <1>8 DEF Owned
  <2>3. Shape(x, Released(o, r), AskedFn(x), Rs \ {r}, k, c)
    BY <1>1, <1>8, <2>1, <2>2, DropTree DEF a
  <2> QED BY <2>3 DEF Kept
<1>10. ASSUME Placed(m, o, r), o.R[c] # r
       PROVE  x.pool = m.pool \cup Owned(o, r) /\ Ledger(x) = Ledger(m)
  <2>1. \A f \in Frame : o.R[f] = r /\ o.L[f] = -1 => IsPlaced(a[r], f)
    BY <1>1, <1>10, PlacedIs
  <2>2. T = Owned(o, r) \ {r} /\ Cardinality(F) = Cardinality(T)
    BY <1>2, <1>10, <2>1
  <2> DEFINE U == T \cup {r}
  <2>3. U = Owned(o, r)
    BY <1>7, <2>2
  <2>4. Cardinality(U) = Cardinality(T) + 1
    <3>1. IsFiniteSet(T)
      <4>1. T \subseteq Frame
        BY <1>4, <2>2
      <4> QED BY <4>1, FramesFinite
    <3>2. r \notin T
      BY <2>2
    <3> QED BY <3>1, <3>2, FS_AddElement
  <2> HIDE DEF U
  <2>5. x.pool = m.pool \cup U
    BY <1>6, <1>8 DEF U
  <2>6. U \subseteq Frame /\ m.pool \cap U = {}
    BY <1>1, <1>4, <2>3 DEF PoolFree, Owned
  <2>7. x.inUse = m.inUse - Cardinality(U)
    BY <1>1, <1>2, <1>8, <2>2, <2>4 DEF n, IsMem
  <2> QED BY <1>1, <1>8, <2>3, <2>5, <2>6, <2>7, LedgerBack
<1>11. Returned(m, o, x, Rs, k, c, r)
  BY <1>6, <1>8, <1>9, <1>10 DEF Returned
<1> QED BY <1>11 DEF x

=============================================================================
