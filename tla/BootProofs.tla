----------------------------- MODULE BootProofs -----------------------------
(***************************************************************************)
(* Proofs about Boot, for every machine, every size of the structures and  *)
(* every number of pages.  The inductive invariants:                       *)
(*   MapInv     what the map taken last says, and that the kernel's says   *)
(*              the same                                                   *)
(*   KernelInv  what of the kernel's block is filled, mapped and blank     *)
(*   PlacesInv  what the loader allocated, the firmware's record shows     *)
(*   HandedInv  what the BootInfo and its regions are                      *)
(*   LayoutInv  which regions mem::init gave to the heap and the pool      *)
(*   ReachInv   how far the loader's linear map goes, and what it covers   *)
(*                                                                         *)
(* GetMemoryMap and convert are folds.  A fold is a choice of a function   *)
(* on the sets 1..k, so what it computes is found by induction over k:     *)
(* the function exists (UpToBound), so it is what is chosen, and each of   *)
(* its steps keeps what is claimed.  Induction is the least counterexample *)
(* of a set of numbers, which the order on Nat being well founded gives.   *)
(***************************************************************************)
EXTENDS Boot, TLAPS, FiniteSetTheorems, WellFoundedInduction

-----------------------------------------------------------------------------
(* Natural numbers. *)

(* A set of natural numbers has a least element. *)
LEMMA LeastExists ==
  ASSUME NEW S, S \subseteq Nat, S # {}
  PROVE  \E x \in S : \A y \in S : x <= y
<1>1. PICK x \in S : \A y \in S : ~(<<y, x>> \in OpToRel(<, Nat))
  BY NatLessThanWellFounded, WFMin
<1>2. \A y \in S : ~(y < x)
  BY <1>1 DEF OpToRel
<1> QED BY <1>2

(* Min and Max are what they should be; Max where there is a bound. *)
LEMMA MinIsLeast ==
  ASSUME NEW S, S \subseteq Nat, S # {}
  PROVE  Min(S) \in S /\ \A y \in S : Min(S) <= y
BY LeastExists DEF Min

(* A bounded set of natural numbers has a greatest element. *)
LEMMA GreatestExists ==
  ASSUME NEW S, S \subseteq Nat, S # {}, NEW b \in Nat, \A y \in S : y <= b
  PROVE  \E x \in S : \A y \in S : y <= x
<1> DEFINE T == {n \in Nat : \E x \in S : n = b - x}
<1>1. PICK y \in S : TRUE
  OBVIOUS
<1>2. b - y \in T /\ T \subseteq Nat
  BY <1>1
<1>3. PICK n \in T : \A k \in T : n <= k
  BY <1>2, LeastExists
<1>4. PICK x \in S : n = b - x
  BY <1>3
<1>5. \A z \in S : b - z \in T
  OBVIOUS
<1>6. \A z \in S : n <= b - z
  BY <1>3, <1>5
<1>7. \A z \in S : z <= x
  BY <1>4, <1>6
<1> QED BY <1>7

(* Max gives the greatest element of a bounded set. *)
LEMMA MaxIsGreatest ==
  ASSUME NEW S, S \subseteq Nat, S # {}, NEW b \in Nat, \A y \in S : y <= b
  PROVE  Max(S) \in S /\ \A y \in S : y <= Max(S)
<1>1. \E x \in S : \A y \in S : x >= y
  BY GreatestExists
<1>2. Max(S) \in S /\ \A y \in S : Max(S) >= y
  BY <1>1 DEF Max
<1> QED BY <1>2

(* Induction up to a bound, for the members of a set. *)
LEMMA UpToBound ==
  ASSUME NEW n \in Nat, NEW S, 0 \in S, \A k \in 0 .. n : k # n /\ k \in S => k + 1 \in S
  PROVE  \A k \in 0 .. n : k \in S
<1> SUFFICES ASSUME NEW j \in 0 .. n, j \notin S PROVE FALSE
  OBVIOUS
<1> DEFINE T == {k \in 0 .. n : k \notin S}
<1>1. T \subseteq Nat /\ T # {}
  OBVIOUS
<1>2. PICK k \in T : \A y \in T : k <= y
  BY <1>1, LeastExists
<1>3. k # 0 /\ k - 1 \in 0 .. n /\ k - 1 # n
  BY <1>2
<1>4. k - 1 \in S
  BY <1>2, <1>3
<1>5. (k - 1) + 1 \in S
  BY <1>3, <1>4
<1> QED BY <1>2, <1>5

(* Multiples, quotients and remainders. *)
LEMMA Multiples ==
  ASSUME NEW a \in Int, NEW c \in Int, NEW b \in Nat \ {0}
  PROVE  /\ a < c <=> a * b < c * b
         /\ a <= c <=> a * b <= c * b
         /\ a = c <=> a * b = c * b
OBVIOUS

(* What a quotient is, from the outside and from the inside. *)
LEMMA QuotientOf ==
  ASSUME NEW q \in Nat, NEW b \in Nat \ {0}, NEW r \in 0 .. b - 1
  PROVE  (q * b + r) \div b = q /\ (q * b + r) % b = r
OBVIOUS

LEMMA Quotient ==
  ASSUME NEW a \in Nat, NEW b \in Nat \ {0}
  PROVE  /\ a \div b \in Nat /\ a % b \in 0 .. b - 1
         /\ a = (a \div b) * b + (a % b)
OBVIOUS
-----------------------------------------------------------------------------
(* GetMemoryMap, as it grows page by page.  FoldLeft chooses a function on *)
(* the sets of positions; its values on 1 .. k are the lists in between.   *)

Report(h, n) ==
  h = [S \in SUBSET (1 .. n) |->
         IF S = {} THEN <<>> ELSE Reported(h[S \ {Max(S)}], Order[Max(S)])]
ReportOf == CHOOSE h : Report(h, Pages)
ReportTo(k) == ReportOf[1 .. k]

(* The sizes are positive. *)
LEMMA PagesNat == Pages \in Nat \ {0} /\ PAGE_SIZE \in Nat \ {0} /\ ADDR_MAX \in Nat \ {0}
                  /\ Pages * PAGE_SIZE <= ADDR_MAX
BY BootAssumption, MemoryMapAssumption

(* The greatest of the first k numbers is k. *)
LEMMA MaxUpTo ==
  ASSUME NEW n \in Nat, NEW S \in SUBSET (1 .. n), S # {}
  PROVE  Max(S) \in S /\ \A y \in S : y <= Max(S)
<1>1. S \subseteq Nat /\ \A y \in S : y <= n
  OBVIOUS
<1> QED BY <1>1, MaxIsGreatest

(* The function that GetMemoryMap folds with exists, by induction on the pages folded. *)
LEMMA ReportExists == \E h : Report(h, Pages)
<1> DEFINE Good == {k \in 0 .. Pages : \E h : Report(h, k)}
<1>1. 0 \in Good
  <2> DEFINE h == [S \in SUBSET (1 .. 0) |-> <<>>]
  <2>1. SUBSET (1 .. 0) = {{}}
    OBVIOUS
  <2>2. Report(h, 0)
    BY <2>1 DEF Report
  <2> QED BY <2>2, PagesNat
<1>2. ASSUME NEW k \in 0 .. Pages, k # Pages, k \in Good PROVE k + 1 \in Good
  <2>1. PICK h : Report(h, k)
    BY <1>2
  <2> DEFINE g == [S \in SUBSET (1 .. k + 1) |->
                     IF k + 1 \in S THEN Reported(h[S \ {k + 1}], Order[k + 1]) ELSE h[S]]
  <2>2. ASSUME NEW S \in SUBSET (1 .. k + 1)
        PROVE  g[S] = IF S = {} THEN <<>> ELSE Reported(g[S \ {Max(S)}], Order[Max(S)])
    <3>1. CASE k + 1 \in S
      <4>1. k + 1 \in Nat
        BY PagesNat
      <4>2. Max(S) \in S /\ k + 1 <= Max(S)
        BY <3>1, <4>1, MaxUpTo
      <4>3. Max(S) \in 1 .. k + 1
        BY <4>2
      <4>4. Max(S) = k + 1
        BY <4>2, <4>3, <4>1, PagesNat
      <4>5. S \ {k + 1} \in SUBSET (1 .. k + 1) /\ k + 1 \notin S \ {k + 1}
        OBVIOUS
      <4>6. g[S \ {k + 1}] = h[S \ {k + 1}]
        BY <4>5
      <4> QED BY <3>1, <4>4, <4>6
    <3>2. CASE k + 1 \notin S /\ S # {}
      <4>1. S \in SUBSET (1 .. k)
        BY <3>2, PagesNat
      <4>2. Max(S) \in S /\ k \in Nat
        BY <3>2, MaxUpTo, <4>1, PagesNat
      <4>3. S \ {Max(S)} \in SUBSET (1 .. k + 1) /\ k + 1 \notin S \ {Max(S)}
        BY <3>2
      <4>4. g[S \ {Max(S)}] = h[S \ {Max(S)}]
        BY <4>3
      <4>5. h[S] = Reported(h[S \ {Max(S)}], Order[Max(S)])
        BY <2>1, <3>2, <4>1 DEF Report
      <4>6. g[S] = h[S]
        BY <3>2
      <4> QED BY <3>2, <4>4, <4>5, <4>6
    <3>3. CASE S = {}
      <4>1. h[S] = <<>>
        BY <2>1, <3>3 DEF Report
      <4> QED BY <3>3, <4>1
    <3> QED BY <3>1, <3>2, <3>3
  <2>3. Report(g, k + 1)
    BY <2>2 DEF Report
  <2> QED BY <2>3, <1>2, PagesNat
<1> HIDE DEF Good
<1>3. \A k \in 0 .. Pages : k \in Good
  BY <1>1, <1>2, UpToBound, PagesNat
<1> QED BY <1>3, PagesNat DEF Good

(* GetMemoryMap is what that function gives at the last page, one page at a time. *)
LEMMA ReportSteps ==
  /\ FoldLeft(Reported, <<>>, Order) = ReportTo(Pages)
  /\ ReportTo(0) = <<>>
  /\ \A k \in 1 .. Pages : ReportTo(k) = Reported(ReportTo(k - 1), Order[k])
<1>1. DOMAIN Order = 1 .. Pages
  BY DEF Order
<1>2. FoldLeft(Reported, <<>>, Order) = ReportTo(Pages)
  BY <1>1, Zenon DEF FoldLeft, MapThenFoldSet, ReportTo, ReportOf, Report
<1>3. Report(ReportOf, Pages)
  BY ReportExists, Zenon DEF ReportOf
<1>4. ReportTo(0) = <<>>
  BY <1>3, PagesNat DEF ReportTo, Report
<1>5. ASSUME NEW k \in 1 .. Pages PROVE ReportTo(k) = Reported(ReportTo(k - 1), Order[k])
  <2>1. 1 .. k \in SUBSET (1 .. Pages) /\ 1 .. k # {} /\ k \in 1 .. k
    BY PagesNat
  <2>2. Max(1 .. k) \in 1 .. k /\ k <= Max(1 .. k)
    BY <2>1, MaxUpTo, PagesNat
  <2>3. Max(1 .. k) = k
    BY <2>2
  <2>4. (1 .. k) \ {k} = 1 .. k - 1
    BY PagesNat
  <2> QED BY <1>3, <2>1, <2>3, <2>4 DEF ReportTo, Report
<1> QED BY <1>2, <1>4, <1>5

(***************************************************************************)
(* What the firmware's map says.  A descriptor covers an address if it     *)
(* lies in its pages.                                                      *)
(***************************************************************************)
Firmware == machine \in Machines /\ ram \in [PhysPage -> UefiType \cup {"HOLE"}]
Desc == [ty : UefiType, phys : Nat, pages : Nat]
Covers(d, u) == d.phys <= u /\ u < d.phys + d.pages * PAGE_SIZE

(* A run begins at a start and holds no other. *)
LEMMA RunOf ==
  ASSUME NEW p \in PhysPage
  PROVE  /\ RunLen(p) \in 1 .. Pages - p
         /\ \A q \in PhysPage : p < q /\ q < p + RunLen(p) => ~IsStart(q)
         /\ p + RunLen(p) = Pages \/ IsStart(p + RunLen(p))
<1> DEFINE T == {q \in p + 1 .. Pages : q = Pages \/ IsStart(q)}
<1>1. p \in Nat /\ p < Pages /\ Pages \in Nat
  BY PagesNat DEF PhysPage
<1>2. Pages \in T /\ T \subseteq Nat
  BY <1>1
<1>3. RunLen(p) = Min(T) - p
  BY DEF RunLen
<1>4. Min(T) \in T /\ \A y \in T : Min(T) <= y
  BY <1>2, MinIsLeast
<1>5. PICK e \in T : e = Min(T)
  BY <1>4
<1>6. \A y \in T : e <= y
  BY <1>4, <1>5
<1>7. RunLen(p) = e - p
  BY <1>3, <1>5
<1>8. RunLen(p) \in 1 .. Pages - p /\ p + RunLen(p) = e
  BY <1>1, <1>7
<1>9. ASSUME NEW q \in PhysPage, p < q, q < p + RunLen(p), IsStart(q) PROVE FALSE
  <2>1. q \in T
    BY <1>9, <1>1 DEF PhysPage
  <2> QED BY <2>1, <1>6, <1>8, <1>9 DEF PhysPage
<1>10. e = Pages \/ IsStart(e)
  OBVIOUS
<1> QED BY <1>8, <1>9, <1>10

(* Every page is in the run of exactly one start, which has its type. *)
LEMMA InOneRun ==
  ASSUME NEW p \in PhysPage
  PROVE  \E s \in PhysPage : /\ IsStart(s) /\ s <= p /\ p < s + RunLen(s)
                             /\ ram[s] = ram[p]
<1> DEFINE T == {s \in 0 .. p : IsStart(s)}
<1>1. p \in Nat /\ p < Pages /\ Pages \in Nat
  BY PagesNat DEF PhysPage
<1>2. 0 \in T /\ T \subseteq Nat /\ \A y \in T : y <= p
  BY <1>1 DEF IsStart
<1>3. PICK s \in T : \A y \in T : y <= s
  BY <1>1, <1>2, GreatestExists
<1>4. s \in PhysPage /\ s \in Nat /\ s <= p /\ IsStart(s)
  BY <1>1, <1>3 DEF PhysPage
<1>5. p < s + RunLen(s)
  <2> SUFFICES ASSUME ~(p < s + RunLen(s)) PROVE FALSE
    OBVIOUS
  <2>1. PICK n \in 1 .. Pages - s : n = RunLen(s)
    BY <1>4, RunOf
  <2>2. s + n # Pages /\ s + n \in 0 .. p
    BY <2>1, <1>1, <1>4
  <2>3. IsStart(s + n)
    BY <1>4, <2>1, <2>2, RunOf
  <2>4. s + n \in T
    BY <2>2, <2>3
  <2> QED BY <2>4, <1>3, <2>1, <1>4
<1>6. ram[s] = ram[p]
  <2> SUFFICES ASSUME ram[p] # ram[s] PROVE FALSE
    OBVIOUS
  <2> DEFINE D == {q \in s .. p : ram[q] # ram[s]}
  <2>1. p \in D /\ D \subseteq Nat
    BY <1>1, <1>4
  <2>2. PICK q \in D : \A y \in D : q <= y
    BY <2>1, LeastExists
  <2>3. q \in s .. p /\ q # s
    BY <2>2
  <2>4. q - 1 \in s .. p /\ q - 1 \notin D
    BY <2>2, <2>3, <1>1, <1>4
  <2>5. ram[q - 1] = ram[s]
    BY <2>4
  <2>6. IsStart(q) /\ q \in T
    BY <2>2, <2>3, <2>5, <1>4, <1>1 DEF IsStart
  <2> QED BY <2>6, <2>3, <1>3, <1>4, <1>1
<1> QED BY <1>4, <1>5, <1>6

(* No page is in two runs. *)
LEMMA InOnlyOneRun ==
  ASSUME NEW p \in PhysPage, NEW s \in PhysPage, NEW t \in PhysPage,
         IsStart(s), s <= p, p < s + RunLen(s),
         IsStart(t), t <= p, p < t + RunLen(t)
  PROVE  s = t
<1>1. p \in Int /\ s \in Int /\ t \in Int
  BY DEF PhysPage
<1>2. RunLen(s) \in Int /\ RunLen(t) \in Int
  BY RunOf
<1>3. ~(s < t)
  BY <1>1, <1>2, RunOf
<1>4. ~(t < s)
  BY <1>1, <1>2, RunOf
<1> QED BY <1>1, <1>3, <1>4

Starts == {p \in PhysPage : ram[p] # "HOLE" /\ IsStart(p)}

(* The firmware visits every page once. *)
LEMMA OrderOnce ==
  /\ \A i \in 1 .. Pages : Order[i] \in PhysPage
  /\ \A i, j \in 1 .. Pages : Order[i] = Order[j] => i = j
  /\ \A p \in PhysPage : \E i \in 1 .. Pages : Order[i] = p
<1>1. CASE machine.downwards
  <2>1. \A i \in 1 .. Pages : Order[i] = Pages - i
    BY <1>1 DEF Order
  <2>2. ASSUME NEW p \in PhysPage PROVE Pages - p \in 1 .. Pages /\ Order[Pages - p] = p
    BY <2>1, PagesNat DEF PhysPage
  <2>3. \A p \in PhysPage : \E i \in 1 .. Pages : Order[i] = p
    BY <2>2
  <2>4. \A i \in 1 .. Pages : Order[i] \in PhysPage
    BY <2>1, PagesNat DEF PhysPage
  <2>5. \A i, j \in 1 .. Pages : Order[i] = Order[j] => i = j
    BY <2>1, PagesNat
  <2> QED BY <2>3, <2>4, <2>5
<1>2. CASE ~machine.downwards
  <2>1. \A i \in 1 .. Pages : Order[i] = i - 1
    BY <1>2 DEF Order
  <2>2. ASSUME NEW p \in PhysPage PROVE p + 1 \in 1 .. Pages /\ Order[p + 1] = p
    BY <2>1, PagesNat DEF PhysPage
  <2>3. \A p \in PhysPage : \E i \in 1 .. Pages : Order[i] = p
    BY <2>2
  <2>4. \A i \in 1 .. Pages : Order[i] \in PhysPage
    BY <2>1, PagesNat DEF PhysPage
  <2>5. \A i, j \in 1 .. Pages : Order[i] = Order[j] => i = j
    BY <2>1, PagesNat
  <2> QED BY <2>3, <2>4, <2>5
<1> QED BY <1>1, <1>2

(* What a descriptor says. *)
LEMMA DescriptorIs ==
  ASSUME Firmware, NEW p \in Starts
  PROVE  /\ Descriptor(p) \in Desc
         /\ Descriptor(p).ty = ram[p] /\ Descriptor(p).phys = p * PAGE_SIZE
         /\ Descriptor(p).pages = RunLen(p)
         /\ p * PAGE_SIZE \in Nat
<1>1. p \in PhysPage /\ ram[p] \in UefiType
  BY DEF Firmware, Starts
<1>2. p * PAGE_SIZE \in Nat
  BY <1>1, PagesNat DEF PhysPage
<1>3. RunLen(p) \in Nat
  BY <1>1, RunOf
<1> QED BY <1>1, <1>2, <1>3 DEF Descriptor, Desc

(* The list after k positions: the starts among them, once each. *)
Lists(L, k) ==
  /\ L \in Seq(Desc)
  /\ \A i \in DOMAIN L : \E j \in 1 .. k : Order[j] \in Starts /\ L[i] = Descriptor(Order[j])
  /\ \A j \in 1 .. k : Order[j] \in Starts => \E i \in DOMAIN L : L[i] = Descriptor(Order[j])
  /\ \A i, j \in DOMAIN L : L[i].phys = L[j].phys => i = j

(* After k pages the list has a descriptor for every run that starts among them. *)
LEMMA ReportLists ==
  ASSUME Firmware
  PROVE  Lists(ReportTo(Pages), Pages)
<1> DEFINE Good == {k \in 0 .. Pages : Lists(ReportTo(k), k)}
<1>1. 0 \in Good
  <2>1. Lists(<<>>, 0)
    BY DEF Lists
  <2> QED BY <2>1, ReportSteps, PagesNat
<1>2. ASSUME NEW k \in 0 .. Pages, k # Pages, k \in Good PROVE k + 1 \in Good
  <2>1. k + 1 \in 1 .. Pages /\ k \in Nat /\ (k + 1) - 1 = k
    BY <1>2, PagesNat
  <2>2. PICK L : L = ReportTo(k)
    OBVIOUS
  <2>3. Lists(L, k)
    BY <1>2, <2>2
  <2>4. PICK p \in PhysPage : p = Order[k + 1]
    BY <2>1, OrderOnce
  <2>5. ReportTo(k + 1) = Reported(L, p)
    BY <2>1, <2>2, <2>4, ReportSteps
  <2>6. CASE p \notin Starts
    <3>1. ReportTo(k + 1) = L
      BY <2>5, <2>6 DEF Reported, Starts
    <3>2. Lists(L, k + 1)
      BY <2>1, <2>3, <2>4, <2>6 DEF Lists
    <3> QED BY <3>1, <3>2, <2>1, PagesNat
  <2>7. CASE p \in Starts
    <3>1. ReportTo(k + 1) = Append(L, Descriptor(p))
      BY <2>5, <2>7 DEF Reported, Starts
    <3>2. PICK d \in Desc : d = Descriptor(p)
      BY <2>7, DescriptorIs
    <3>3. PICK K : K = Append(L, d)
      OBVIOUS
    <3>4. L \in Seq(Desc)
      BY <2>3 DEF Lists
    <3>5. /\ K \in Seq(Desc) /\ Len(K) = Len(L) + 1 /\ Len(L) \in Nat
          /\ DOMAIN K = 1 .. Len(L) + 1 /\ DOMAIN L = 1 .. Len(L)
          /\ K[Len(L) + 1] = d /\ \A i \in 1 .. Len(L) : K[i] = L[i]
      BY <3>3, <3>4
    <3>6. \A i \in DOMAIN K : \E j \in 1 .. k + 1 : Order[j] \in Starts /\ K[i] = Descriptor(Order[j])
      <4> SUFFICES ASSUME NEW i \in DOMAIN K
                   PROVE  \E j \in 1 .. k + 1 : Order[j] \in Starts /\ K[i] = Descriptor(Order[j])
        OBVIOUS
      <4>1. CASE i = Len(L) + 1
        BY <4>1, <3>5, <3>2, <2>7, <2>4, <2>1
      <4>2. CASE i # Len(L) + 1
        <5>1. i \in DOMAIN L /\ K[i] = L[i]
          BY <4>2, <3>5
        <5>2. PICK j \in 1 .. k : Order[j] \in Starts /\ L[i] = Descriptor(Order[j])
          BY <5>1, <2>3 DEF Lists
        <5> QED BY <5>1, <5>2, <2>1
      <4> QED BY <4>1, <4>2
    <3>7. ASSUME NEW j \in 1 .. k + 1, Order[j] \in Starts
          PROVE  \E i \in DOMAIN K : K[i] = Descriptor(Order[j])
      <4>1. CASE j = k + 1
        <5>1. Len(L) + 1 \in DOMAIN K
          BY <3>5
        <5> QED BY <4>1, <5>1, <3>5, <3>2, <2>4
      <4>2. CASE j # k + 1
        <5>1. j \in 1 .. k
          BY <4>2, <2>1
        <5>2. PICK i \in DOMAIN L : L[i] = Descriptor(Order[j])
          BY <5>1, <3>7, <2>3 DEF Lists
        <5> QED BY <5>2, <3>5
      <4> QED BY <4>1, <4>2
    <3>8. \A i \in DOMAIN L : L[i].phys # d.phys
      <4> SUFFICES ASSUME NEW i \in DOMAIN L, L[i].phys = d.phys PROVE FALSE
        OBVIOUS
      <4>1. PICK j \in 1 .. k : Order[j] \in Starts /\ L[i] = Descriptor(Order[j])
        BY <2>3 DEF Lists
      <4>2. PICK q \in Starts : q = Order[j]
        BY <4>1
      <4>3. q * PAGE_SIZE = p * PAGE_SIZE
        BY <4>1, <4>2, <3>2, <2>7, DescriptorIs
      <4>4. q \in Int /\ p \in Int
        BY <2>7 DEF Starts, PhysPage
      <4>5. q = p
        BY <4>3, <4>4, Multiples, PagesNat
      <4>6. j \in 1 .. Pages
        BY <2>1, PagesNat
      <4>7. Order[j] = Order[k + 1]
        BY <4>5, <4>2, <2>4, Zenon
      <4>8. j = k + 1
        BY <4>6, <4>7, <2>1, OrderOnce, Zenon
      <4> QED BY <4>8, <2>1
    <3>9. \A i, j \in DOMAIN K : K[i].phys = K[j].phys => i = j
      <4>1. \A i, j \in DOMAIN L : L[i].phys = L[j].phys => i = j
        BY <2>3 DEF Lists
      <4> QED BY <4>1, <3>5, <3>8
    <3>10. Lists(K, k + 1)
      BY <3>5, <3>6, <3>7, <3>9 DEF Lists
    <3>11. ReportTo(k + 1) = K
      BY <3>1, <3>2, <3>3, Zenon
    <3>12. k + 1 \in 0 .. Pages
      BY <2>1
    <3> QED BY <3>10, <3>11, <3>12, Zenon
  <2> QED BY <2>6, <2>7
<1> HIDE DEF Good
<1>3. Pages \in Good
  BY <1>1, <1>2, UpToBound, PagesNat
<1> QED BY <1>3 DEF Good

(* The map the firmware gives is true of every page. *)
MapIsTrue(M) ==
  /\ M \in Seq(Desc)
  /\ \A p \in PhysPage :
       /\ \A i \in DOMAIN M : Covers(M[i], p * PAGE_SIZE) => M[i].ty = ram[p]
       /\ \A i, j \in DOMAIN M : Covers(M[i], p * PAGE_SIZE) /\ Covers(M[j], p * PAGE_SIZE) => i = j
       /\ ram[p] # "HOLE" => \E i \in DOMAIN M : Covers(M[i], p * PAGE_SIZE)

(* A descriptor covers a page when the page is in its run. *)
LEMMA CoversByRun ==
  ASSUME Firmware, NEW p \in PhysPage, NEW s \in Starts
  PROVE  Covers(Descriptor(s), p * PAGE_SIZE) <=> s <= p /\ p < s + RunLen(s)
<1>1. s \in PhysPage /\ s \in Int /\ p \in Int /\ RunLen(s) \in Int
  BY RunOf DEF Starts, PhysPage
<1>2. PICK n \in Int : n = RunLen(s)
  BY <1>1
<1>3. s * PAGE_SIZE + n * PAGE_SIZE = (s + n) * PAGE_SIZE
  BY <1>1, PagesNat
<1>4. s * PAGE_SIZE <= p * PAGE_SIZE <=> s <= p
  BY <1>1, PagesNat, Multiples
<1>5. p * PAGE_SIZE < (s + n) * PAGE_SIZE <=> p < s + n
  BY <1>1, PagesNat, Multiples
<1>6. Covers(Descriptor(s), p * PAGE_SIZE)
        <=> s * PAGE_SIZE <= p * PAGE_SIZE /\ p * PAGE_SIZE < s * PAGE_SIZE + n * PAGE_SIZE
  BY <1>2, DescriptorIs DEF Covers
<1> QED BY <1>2, <1>3, <1>4, <1>5, <1>6

(* GetMemoryMap says of every page what its record says, in one descriptor. *)
LEMMA FirmwareIsTrue ==
  ASSUME Firmware
  PROVE  MapIsTrue(GetMemoryMap)
<1>1. PICK L : L = ReportTo(Pages)
  OBVIOUS
<1>2. Lists(L, Pages)
  BY <1>1, ReportLists
<1>3. L \in Seq(Desc) /\ machine.extra \in Seq(Desc)
  BY <1>2, ExtraAssumption DEF Lists, Desc, Firmware
<1>4. PICK X \in Seq(Desc) : X = machine.extra
  BY <1>3
<1>5. PICK M : M = L \o X
  OBVIOUS
<1>6. GetMemoryMap = M
  BY <1>1, <1>4, <1>5, ReportSteps DEF GetMemoryMap
<1>7. /\ M \in Seq(Desc) /\ Len(L) \in Nat /\ Len(X) \in Nat
      /\ DOMAIN M = 1 .. Len(L) + Len(X)
      /\ DOMAIN L = 1 .. Len(L) /\ DOMAIN X = 1 .. Len(X)
      /\ \A i \in DOMAIN M : M[i] = IF i <= Len(L) THEN L[i] ELSE X[i - Len(L)]
  BY <1>3, <1>4, <1>5
<1>8. ASSUME NEW p \in PhysPage, NEW i \in DOMAIN M, Covers(M[i], p * PAGE_SIZE)
      PROVE  /\ i \in DOMAIN L /\ M[i] = L[i]
             /\ \E s \in Starts : L[i] = Descriptor(s) /\ s <= p /\ p < s + RunLen(s)
  <2>1. i <= Len(L)
    <3> SUFFICES ASSUME ~(i <= Len(L)) PROVE FALSE
      OBVIOUS
    <3>1. i - Len(L) \in DOMAIN X /\ M[i] = X[i - Len(L)]
      BY <1>7
    <3>2. PICK d \in Desc : d = X[i - Len(L)]
      BY <3>1, <1>4
    <3>3. d.pages = 0 \/ d.phys >= Pages * PAGE_SIZE
      BY <3>1, <3>2, <1>4, ExtraAssumption DEF Firmware
    <3>4. p * PAGE_SIZE < Pages * PAGE_SIZE /\ p * PAGE_SIZE \in Nat /\ Pages * PAGE_SIZE \in Nat
      BY PagesNat, Multiples DEF PhysPage
    <3>5. d.phys <= p * PAGE_SIZE /\ p * PAGE_SIZE < d.phys + d.pages * PAGE_SIZE
      BY <1>8, <3>1, <3>2 DEF Covers
    <3>6. d.phys \in Nat /\ d.pages \in Nat
      BY DEF Desc
    <3>7. CASE d.pages = 0
      <4>1. d.pages * PAGE_SIZE = 0
        BY <3>7, PagesNat
      <4> QED BY <4>1, <3>4, <3>5, <3>6
    <3>8. CASE d.phys >= Pages * PAGE_SIZE
      BY <3>8, <3>4, <3>5, <3>6
    <3> QED BY <3>3, <3>7, <3>8
  <2>2. i \in DOMAIN L /\ M[i] = L[i]
    BY <2>1, <1>7
  <2>3. PICK j \in 1 .. Pages : Order[j] \in Starts /\ L[i] = Descriptor(Order[j])
    BY <2>2, <1>2 DEF Lists
  <2>4. PICK s \in Starts : L[i] = Descriptor(s)
    BY <2>3
  <2>5. s <= p /\ p < s + RunLen(s)
    BY <2>2, <2>4, <1>8, CoversByRun
  <2> QED BY <2>2, <2>4, <2>5
<1>9. ASSUME NEW p \in PhysPage, NEW i \in DOMAIN M, Covers(M[i], p * PAGE_SIZE)
      PROVE  M[i].ty = ram[p]
  <2>1. PICK s \in Starts : M[i] = Descriptor(s) /\ s <= p /\ p < s + RunLen(s)
    BY <1>8, <1>9
  <2>2. PICK t \in PhysPage : IsStart(t) /\ t <= p /\ p < t + RunLen(t) /\ ram[t] = ram[p]
    BY InOneRun
  <2>3. s = t
    BY <2>1, <2>2, InOnlyOneRun DEF Starts
  <2> QED BY <2>1, <2>2, <2>3, DescriptorIs
<1>10. ASSUME NEW p \in PhysPage, NEW i \in DOMAIN M, NEW j \in DOMAIN M,
              Covers(M[i], p * PAGE_SIZE), Covers(M[j], p * PAGE_SIZE)
       PROVE  i = j
  <2>1. PICK s \in Starts : L[i] = Descriptor(s) /\ s <= p /\ p < s + RunLen(s)
    BY <1>8, <1>10
  <2>2. PICK t \in Starts : L[j] = Descriptor(t) /\ t <= p /\ p < t + RunLen(t)
    BY <1>8, <1>10
  <2>3. s = t
    BY <2>1, <2>2, InOnlyOneRun DEF Starts
  <2>4. i \in DOMAIN L /\ j \in DOMAIN L
    BY <1>8, <1>10
  <2> QED BY <2>1, <2>2, <2>3, <2>4, <1>2 DEF Lists
<1>11. ASSUME NEW p \in PhysPage, ram[p] # "HOLE"
       PROVE  \E i \in DOMAIN M : Covers(M[i], p * PAGE_SIZE)
  <2>1. PICK s \in PhysPage : IsStart(s) /\ s <= p /\ p < s + RunLen(s) /\ ram[s] = ram[p]
    BY InOneRun
  <2>2. s \in Starts
    BY <2>1, <1>11 DEF Starts
  <2>3. PICK j \in 1 .. Pages : Order[j] = s
    BY OrderOnce
  <2>4. PICK i \in DOMAIN L : L[i] = Descriptor(s)
    BY <2>2, <2>3, <1>2 DEF Lists
  <2>5. i \in DOMAIN M /\ M[i] = L[i]
    BY <1>7
  <2> QED BY <2>1, <2>2, <2>4, <2>5, CoversByRun
<1>12. MapIsTrue(M)
  BY <1>7, <1>9, <1>10, <1>11 DEF MapIsTrue
<1> QED BY <1>6, <1>12

-----------------------------------------------------------------------------
(* convert, descriptor by descriptor, in the same way. *)

Conversion(h, n, M, cap) ==
  h = [S \in SUBSET (1 .. n) |->
         IF S = {} THEN Converting ELSE ConvertStep(h[S \ {Max(S)}], M[Max(S)], cap)]
ConversionOf(M, cap) == CHOOSE h : Conversion(h, Len(M), M, cap)
ConvertedTo(k, M, cap) == ConversionOf(M, cap)[1 .. k]

(* The function that convert folds with exists. *)
LEMMA ConversionExists ==
  ASSUME NEW M, NEW cap, NEW n \in Nat
  PROVE  \E h : Conversion(h, n, M, cap)
<1> DEFINE Good == {k \in 0 .. n : \E h : Conversion(h, k, M, cap)}
<1>1. 0 \in Good
  <2> DEFINE h == [S \in SUBSET (1 .. 0) |-> Converting]
  <2>1. SUBSET (1 .. 0) = {{}}
    OBVIOUS
  <2>2. Conversion(h, 0, M, cap)
    BY <2>1 DEF Conversion
  <2> QED BY <2>2
<1>2. ASSUME NEW k \in 0 .. n, k # n, k \in Good PROVE k + 1 \in Good
  <2>1. PICK h : Conversion(h, k, M, cap)
    BY <1>2
  <2> DEFINE g == [S \in SUBSET (1 .. k + 1) |->
                     IF k + 1 \in S THEN ConvertStep(h[S \ {k + 1}], M[k + 1], cap) ELSE h[S]]
  <2>2. ASSUME NEW S \in SUBSET (1 .. k + 1)
        PROVE  g[S] = IF S = {} THEN Converting ELSE ConvertStep(g[S \ {Max(S)}], M[Max(S)], cap)
    <3>1. CASE k + 1 \in S
      <4>1. k + 1 \in Nat
        OBVIOUS
      <4>2. Max(S) \in S /\ k + 1 <= Max(S)
        BY <3>1, <4>1, MaxUpTo
      <4>3. Max(S) \in 1 .. k + 1
        BY <4>2
      <4>4. Max(S) = k + 1
        BY <4>2, <4>3
      <4>5. S \ {k + 1} \in SUBSET (1 .. k + 1) /\ k + 1 \notin S \ {k + 1}
        OBVIOUS
      <4>6. g[S \ {k + 1}] = h[S \ {k + 1}]
        BY <4>5
      <4> QED BY <3>1, <4>4, <4>6
    <3>2. CASE k + 1 \notin S /\ S # {}
      <4>1. S \in SUBSET (1 .. k)
        BY <3>2
      <4>2. S \ {Max(S)} \in SUBSET (1 .. k + 1) /\ k + 1 \notin S \ {Max(S)}
        BY <3>2
      <4>3. g[S \ {Max(S)}] = h[S \ {Max(S)}]
        BY <4>2
      <4>4. h[S] = ConvertStep(h[S \ {Max(S)}], M[Max(S)], cap)
        BY <2>1, <3>2, <4>1 DEF Conversion
      <4>5. g[S] = h[S]
        BY <3>2
      <4> QED BY <3>2, <4>3, <4>4, <4>5
    <3>3. CASE S = {}
      <4>1. h[S] = Converting
        BY <2>1, <3>3 DEF Conversion
      <4> QED BY <3>3, <4>1
    <3> QED BY <3>1, <3>2, <3>3
  <2>3. Conversion(g, k + 1, M, cap)
    BY <2>2 DEF Conversion
  <2> QED BY <2>3, <1>2
<1> HIDE DEF Good
<1>3. n \in Good
  BY <1>1, <1>2, UpToBound
<1> QED BY <1>3 DEF Good

(* convert is what that function gives at the last descriptor, one at a time. *)
LEMMA ConversionSteps ==
  ASSUME NEW M \in Seq(Desc), NEW cap
  PROVE  /\ convert(M, cap) = ConvertedTo(Len(M), M, cap)
         /\ ConvertedTo(0, M, cap) = Converting
         /\ \A k \in 1 .. Len(M) :
              ConvertedTo(k, M, cap) = ConvertStep(ConvertedTo(k - 1, M, cap), M[k], cap)
<1>1. DOMAIN M = 1 .. Len(M) /\ Len(M) \in Nat
  OBVIOUS
<1>2. convert(M, cap) = ConvertedTo(Len(M), M, cap)
  BY <1>1, Zenon DEF convert, FoldLeft, MapThenFoldSet, ConvertedTo, ConversionOf, Conversion
<1>3. Conversion(ConversionOf(M, cap), Len(M), M, cap)
  BY <1>1, ConversionExists, Zenon DEF ConversionOf
<1>4. ConvertedTo(0, M, cap) = Converting
  BY <1>1, <1>3 DEF ConvertedTo, Conversion
<1>5. ASSUME NEW k \in 1 .. Len(M)
      PROVE  ConvertedTo(k, M, cap) = ConvertStep(ConvertedTo(k - 1, M, cap), M[k], cap)
  <2>1. PICK n \in Nat : n = Len(M) /\ k \in 1 .. n
    BY <1>1
  <2>2. 1 .. k \in SUBSET (1 .. n) /\ k \in 1 .. k
    BY <2>1
  <2>3. 1 .. k \in SUBSET (1 .. Len(M)) /\ 1 .. k # {} /\ k \in 1 .. k
    BY <2>1, <2>2, Zenon
  <2>4. Max(1 .. k) \in 1 .. k /\ k <= Max(1 .. k)
    BY <1>1, <2>3, MaxUpTo
  <2>5. Max(1 .. k) = k
    BY <2>4
  <2>6. (1 .. k) \ {k} = 1 .. k - 1
    BY <1>1
  <2> QED BY <1>3, <2>3, <2>5, <2>6 DEF ConvertedTo, Conversion
<1> QED BY <1>2, <1>4, <1>5

(***************************************************************************)
(* What the regions say of an address below ADDR_MAX, where nothing        *)
(* saturates: that it is in one exactly when a descriptor covers it, and   *)
(* of what kind it is.                                                     *)
(***************************************************************************)
Kind == {"Usable", "AcpiReclaimable", "AcpiNvs", "BadMemory", "LoaderReclaimable", "Reserved"}
Reg == [start : Nat, len : Nat, kind : Kind]
In(r, u) == r.start <= u /\ u < end(r)
OnceOnly(k, M, u) == \A i, j \in 1 .. k : Covers(M[i], u) /\ Covers(M[j], u) => i = j
Told(R, k, M, u) ==
  /\ \A r \in DOMAIN R :
       In(R[r], u) => \E i \in 1 .. k : Covers(M[i], u) /\ R[r].kind = classify(M[i].ty)
  /\ \A r, q \in DOMAIN R : In(R[r], u) /\ In(R[q], u) => r = q
  /\ \A i \in 1 .. k : Covers(M[i], u) => \E r \in DOMAIN R : In(R[r], u)

LEMMA KindIs == \A ty : classify(ty) \in Kind
BY DEF classify, Kind

(* A descriptor as a region covers the same units. *)
LEMMA RegionIs ==
  ASSUME NEW d \in Desc, NEW len, len = saturating(d.pages * PAGE_SIZE)
  PROVE  /\ len \in Nat
         /\ Region(d.phys, len, classify(d.ty)) \in Reg
         /\ \A u \in 0 .. ADDR_MAX - 1 :
              /\ In(Region(d.phys, len, classify(d.ty)), u) <=> Covers(d, u)
              /\ len = 0 => ~Covers(d, u)
<1>1. d.phys \in Nat /\ d.pages \in Nat
  BY DEF Desc
<1>2. PICK n \in Nat : n = d.pages * PAGE_SIZE
  BY <1>1, PagesNat
<1>3. len \in Nat /\ len = IF n > ADDR_MAX THEN ADDR_MAX ELSE n
  BY <1>2, PagesNat DEF saturating
<1>4. Region(d.phys, len, classify(d.ty)) \in Reg
  BY <1>1, <1>3, KindIs DEF Region, Reg
<1>5. ASSUME NEW u \in 0 .. ADDR_MAX - 1
      PROVE  /\ In(Region(d.phys, len, classify(d.ty)), u) <=> Covers(d, u)
             /\ len = 0 => ~Covers(d, u)
  <2>1. Covers(d, u) <=> d.phys <= u /\ u < d.phys + n
    BY <1>2 DEF Covers
  <2>2. In(Region(d.phys, len, classify(d.ty)), u)
          <=> d.phys <= u /\ u < saturating(d.phys + len)
    BY DEF In, Region, end
  <2>3. u < saturating(d.phys + len) <=> u < d.phys + len
    BY <1>1, <1>3, PagesNat DEF saturating
  <2>4. u < d.phys + len <=> u < d.phys + n
    BY <1>1, <1>3, PagesNat
  <2>5. len = 0 => n = 0
    BY <1>3, PagesNat
  <2> QED BY <1>1, <2>1, <2>2, <2>3, <2>4, <2>5
<1> QED BY <1>3, <1>4, <1>5

(* A region that is extended covers both. *)
LEMMA RegionGrows ==
  ASSUME NEW d \in Desc, NEW len, len = saturating(d.pages * PAGE_SIZE),
         NEW r \in Reg, end(r) = d.phys,
         NEW x, x = [r EXCEPT !.len = saturating(@ + len)]
  PROVE  /\ x \in Reg /\ x.kind = r.kind
         /\ \A u \in 0 .. ADDR_MAX - 1 : In(x, u) <=> In(r, u) \/ Covers(d, u)
<1>1. d.phys \in Nat /\ d.pages \in Nat /\ r.start \in Nat /\ r.len \in Nat
  BY DEF Desc, Reg
<1>2. PICK n \in Nat : n = d.pages * PAGE_SIZE
  BY <1>1, PagesNat
<1>3. len \in Nat /\ len = IF n > ADDR_MAX THEN ADDR_MAX ELSE n
  BY <1>2, PagesNat DEF saturating
<1>4. PICK m \in Nat : m = saturating(r.len + len)
  BY <1>1, <1>3, PagesNat DEF saturating
<1>5. x \in Reg /\ x.kind = r.kind /\ x.start = r.start /\ x.len = m
  BY <1>4 DEF Reg
<1>6. ASSUME NEW u \in 0 .. ADDR_MAX - 1
      PROVE  In(x, u) <=> In(r, u) \/ Covers(d, u)
  <2>1. Covers(d, u) <=> d.phys <= u /\ u < d.phys + n
    BY <1>2 DEF Covers
  <2>2. In(x, u) <=> r.start <= u /\ u < r.start + m
    BY <1>1, <1>5, PagesNat DEF In, end, saturating
  <2>3. In(r, u) <=> r.start <= u /\ u < r.start + r.len
    BY <1>1, PagesNat DEF In, end, saturating
  <2>4. d.phys = IF r.start + r.len > ADDR_MAX THEN ADDR_MAX ELSE r.start + r.len
    BY <1>1, PagesNat DEF end, saturating
  <2>5. m = IF r.len + len > ADDR_MAX THEN ADDR_MAX ELSE r.len + len
    BY <1>4 DEF saturating
  <2> QED BY <1>1, <1>3, <2>1, <2>2, <2>3, <2>4, <2>5, PagesNat
<1> QED BY <1>5, <1>6

(* A descriptor that covers nothing changes nothing. *)
LEMMA ToldStill ==
  ASSUME NEW k \in Nat, NEW R, NEW M, NEW u, Told(R, k, M, u), ~Covers(M[k + 1], u)
  PROVE  Told(R, k + 1, M, u)
<1>1. \A i \in 1 .. k + 1 : Covers(M[i], u) => i \in 1 .. k
  OBVIOUS
<1>2. \A i \in 1 .. k : i \in 1 .. k + 1
  OBVIOUS
<1> QED BY <1>1, <1>2, Zenon DEF Told

(* A region appended tells what its descriptor told. *)
LEMMA ToldAppended ==
  ASSUME NEW k \in Nat, NEW R \in Seq(Reg), NEW M, NEW u, Told(R, k, M, u), OnceOnly(k + 1, M, u),
         NEW x \in Reg, In(x, u) <=> Covers(M[k + 1], u), x.kind = classify(M[k + 1].ty)
  PROVE  Told(Append(R, x), k + 1, M, u)
<1>1. PICK Q : Q = Append(R, x)
  OBVIOUS
<1>2. PICK n \in Nat : n = Len(R)
  OBVIOUS
<1>3. DOMAIN Q = 1 .. n + 1 /\ DOMAIN R = 1 .. n /\ Q[n + 1] = x /\ \A i \in 1 .. n : Q[i] = R[i]
  BY <1>1, <1>2
<1>4. ASSUME NEW r \in DOMAIN Q, In(Q[r], u)
      PROVE  \E i \in 1 .. k + 1 : Covers(M[i], u) /\ Q[r].kind = classify(M[i].ty)
  <2>1. CASE r = n + 1
    BY <2>1, <1>3, <1>4
  <2>2. CASE r # n + 1
    <3>1. r \in DOMAIN R /\ Q[r] = R[r]
      BY <2>2, <1>3
    <3>2. PICK i \in 1 .. k : Covers(M[i], u) /\ R[r].kind = classify(M[i].ty)
      BY <3>1, <1>4 DEF Told
    <3> QED BY <3>1, <3>2
  <2> QED BY <2>1, <2>2
<1>5. ASSUME NEW r \in DOMAIN R, In(R[r], u) PROVE ~Covers(M[k + 1], u)
  <2>1. PICK i \in 1 .. k : Covers(M[i], u)
    BY <1>5 DEF Told
  <2> QED BY <2>1 DEF OnceOnly
<1>6. ASSUME NEW r \in DOMAIN Q, NEW q \in DOMAIN Q, In(Q[r], u), In(Q[q], u) PROVE r = q
  <2>1. \A i, j \in DOMAIN R : In(R[i], u) /\ In(R[j], u) => i = j
    BY DEF Told
  <2> QED BY <1>3, <1>5, <1>6, <2>1
<1>7. ASSUME NEW i \in 1 .. k + 1, Covers(M[i], u) PROVE \E r \in DOMAIN Q : In(Q[r], u)
  <2>1. CASE i = k + 1
    <3>1. n + 1 \in DOMAIN Q
      BY <1>3
    <3> QED BY <2>1, <3>1, <1>3, <1>7
  <2>2. CASE i # k + 1
    <3>1. i \in 1 .. k
      BY <2>2
    <3>2. PICK r \in DOMAIN R : In(R[r], u)
      BY <3>1, <1>7 DEF Told
    <3> QED BY <3>2, <1>3
  <2> QED BY <2>1, <2>2
<1>8. Told(Q, k + 1, M, u)
  BY <1>4, <1>6, <1>7 DEF Told
<1> QED BY <1>1, <1>8

(* So does the last region, extended. *)
LEMMA ToldGrown ==
  ASSUME NEW k \in Nat, NEW R, NEW Q, NEW M, NEW u, Told(R, k, M, u), OnceOnly(k + 1, M, u),
         DOMAIN Q = DOMAIN R, NEW n \in DOMAIN R, \A i \in DOMAIN R : i # n => Q[i] = R[i],
         In(Q[n], u) <=> In(R[n], u) \/ Covers(M[k + 1], u),
         Q[n].kind = R[n].kind, R[n].kind = classify(M[k + 1].ty)
  PROVE  Told(Q, k + 1, M, u)
<1>1. ASSUME NEW r \in DOMAIN R, In(R[r], u) PROVE ~Covers(M[k + 1], u)
  <2>1. PICK i \in 1 .. k : Covers(M[i], u)
    BY <1>1 DEF Told
  <2> QED BY <2>1 DEF OnceOnly
<1>2. CASE Covers(M[k + 1], u)
  <2>1. \A r \in DOMAIN R : ~In(R[r], u)
    BY <1>1, <1>2
  <2>2. \A r \in DOMAIN Q : In(Q[r], u) <=> r = n
    BY <2>1, <1>2, Zenon
  <2>3. k + 1 \in 1 .. k + 1
    OBVIOUS
  <2> QED BY <2>2, <2>3, <1>2, Zenon DEF Told
<1>3. CASE ~Covers(M[k + 1], u)
  <2>1. \A r \in DOMAIN Q : /\ In(Q[r], u) <=> In(R[r], u)
                           /\ Q[r].kind = R[r].kind
    BY <1>3, Zenon
  <2>2. Told(R, k + 1, M, u)
    BY <1>3, ToldStill
  <2>3. \A r \in DOMAIN Q :
          In(Q[r], u) => \E i \in 1 .. k + 1 : Covers(M[i], u) /\ Q[r].kind = classify(M[i].ty)
    BY <2>1, <2>2 DEF Told
  <2>4. \A r, q \in DOMAIN Q : In(Q[r], u) /\ In(Q[q], u) => r = q
    BY <2>1, <2>2, Zenon DEF Told
  <2>5. \A i \in 1 .. k + 1 : Covers(M[i], u) => \E r \in DOMAIN Q : In(Q[r], u)
    BY <2>1, <2>2, Zenon DEF Told
  <2> QED BY <2>3, <2>4, <2>5, Zenon DEF Told
<1> QED BY <1>2, <1>3

(* The conversion so far: as many regions as descriptors at most, which    *)
(* tell of each address what the descriptors do.                           *)
Converted(c, k, M) ==
  /\ c \in [regions : Seq(Reg), full : BOOLEAN]
  /\ c.full = FALSE
  /\ Len(c.regions) <= k
  /\ \A u \in 0 .. ADDR_MAX - 1 : OnceOnly(k, M, u) => Told(c.regions, k, M, u)

(* One step of the conversion keeps what the regions tell. *)
LEMMA ConvertStepKeeps ==
  ASSUME NEW cap \in Nat, NEW k \in Nat, k + 1 <= cap, NEW M, M[k + 1] \in Desc,
         NEW c, Converted(c, k, M)
  PROVE  Converted(ConvertStep(c, M[k + 1], cap), k + 1, M)
<1>1. PICK d \in Desc : d = M[k + 1]
  OBVIOUS
<1>2. PICK len : len = saturating(d.pages * PAGE_SIZE)
  OBVIOUS
<1>3. PICK R \in Seq(Reg) : c = [regions |-> R, full |-> FALSE]
  BY DEF Converted
<1>4. PICK n \in Nat : n = Len(R) /\ n <= k /\ DOMAIN R = 1 .. n
  BY <1>3 DEF Converted
<1>5. \A u \in 0 .. ADDR_MAX - 1 : OnceOnly(k + 1, M, u) => Told(R, k, M, u)
  <2> SUFFICES ASSUME NEW u \in 0 .. ADDR_MAX - 1, OnceOnly(k + 1, M, u) PROVE Told(R, k, M, u)
    OBVIOUS
  <2>1. OnceOnly(k, M, u)
    BY DEF OnceOnly
  <2>2. c.regions = R
    BY <1>3
  <2> QED BY <2>1, <2>2 DEF Converted
<1>6. PICK x : x = Region(d.phys, len, classify(d.ty))
  OBVIOUS
<1>7. /\ x \in Reg /\ x.kind = classify(d.ty) /\ len \in Nat
      /\ \A u \in 0 .. ADDR_MAX - 1 : (In(x, u) <=> Covers(d, u)) /\ (len = 0 => ~Covers(d, u))
  <2>1. x.kind = classify(d.ty)
    BY <1>6 DEF Region
  <2> QED BY <1>2, <1>6, <2>1, RegionIs
<1>8. CASE len = 0
  <2>1. ConvertStep(c, d, cap) = c
    BY <1>2, <1>8 DEF ConvertStep
  <2>2. \A u \in 0 .. ADDR_MAX - 1 : OnceOnly(k + 1, M, u) => Told(R, k + 1, M, u)
    BY <1>1, <1>5, <1>7, <1>8, ToldStill
  <2>3. c.regions = R
    BY <1>3
  <2>4. Len(c.regions) <= k + 1
    BY <1>4, <2>3
  <2>5. Converted(c, k + 1, M)
    BY <2>2, <2>3, <2>4 DEF Converted
  <2> QED BY <1>1, <2>1, <2>5
<1>9. CASE len # 0 /\ Coalesces(R, d.phys, classify(d.ty))
  <2>1. R # <<>> /\ n \in 1 .. n /\ Last(R) = R[n]
    BY <1>4, <1>9 DEF Coalesces, Last
  <2>2. R[n] \in Reg /\ R[n].kind = classify(d.ty) /\ end(R[n]) = d.phys
    BY <1>4, <1>9, <2>1 DEF Coalesces
  <2>3. PICK y : y = [R[n] EXCEPT !.len = saturating(@ + len)]
    OBVIOUS
  <2>4. /\ y \in Reg /\ y.kind = R[n].kind
        /\ \A u \in 0 .. ADDR_MAX - 1 : In(y, u) <=> In(R[n], u) \/ Covers(d, u)
    BY <1>2, <2>2, <2>3, RegionGrows
  <2>5. PICK Q : Q = [R EXCEPT ![n] = y]
    OBVIOUS
  <2>6. Q \in Seq(Reg) /\ Len(Q) = n /\ DOMAIN Q = DOMAIN R /\ Q[n] = y
        /\ \A i \in DOMAIN R : i # n => Q[i] = R[i]
    BY <1>4, <2>1, <2>4, <2>5
  <2>7. ConvertStep(c, d, cap) = [regions |-> Q, full |-> FALSE]
    <3>1. ConvertStep(c, d, cap) = [c EXCEPT !.regions[n].len = saturating(@ + len)]
      BY <1>2, <1>3, <1>4, <1>9 DEF ConvertStep
    <3> QED BY <3>1, <1>3, <2>3, <2>5
  <2>8. \A u \in 0 .. ADDR_MAX - 1 : OnceOnly(k + 1, M, u) => Told(Q, k + 1, M, u)
    <3> SUFFICES ASSUME NEW u \in 0 .. ADDR_MAX - 1, OnceOnly(k + 1, M, u) PROVE Told(Q, k + 1, M, u)
      OBVIOUS
    <3>1. Told(R, k, M, u)
      BY <1>5
    <3>2. In(Q[n], u) <=> In(R[n], u) \/ Covers(M[k + 1], u)
      BY <1>1, <2>4, <2>6
    <3>3. Q[n].kind = R[n].kind /\ R[n].kind = classify(M[k + 1].ty) /\ n \in DOMAIN R
      BY <1>1, <1>4, <2>1, <2>2, <2>4, <2>6
    <3> QED BY <3>1, <3>2, <3>3, <2>6, ToldGrown
  <2>9. Converted([regions |-> Q, full |-> FALSE], k + 1, M)
    BY <1>4, <2>6, <2>8 DEF Converted
  <2> QED BY <1>1, <2>7, <2>9
<1>10. CASE len # 0 /\ ~Coalesces(R, d.phys, classify(d.ty))
  <2>1. n # cap
    BY <1>4
  <2>2. ConvertStep(c, d, cap) = [regions |-> Append(R, x), full |-> FALSE]
    <3>1. ConvertStep(c, d, cap) = [c EXCEPT !.regions = Append(@, x)]
      BY <1>2, <1>3, <1>4, <1>6, <1>10, <2>1 DEF ConvertStep
    <3> QED BY <3>1, <1>3
  <2>3. PICK Q : Q = Append(R, x)
    OBVIOUS
  <2>4. Q \in Seq(Reg) /\ Len(Q) = n + 1
    BY <1>4, <1>7, <2>3
  <2>5. \A u \in 0 .. ADDR_MAX - 1 : OnceOnly(k + 1, M, u) => Told(Q, k + 1, M, u)
    BY <1>1, <1>5, <1>7, <2>3, ToldAppended
  <2>6. Converted([regions |-> Q, full |-> FALSE], k + 1, M)
    BY <1>4, <2>4, <2>5 DEF Converted
  <2> QED BY <1>1, <2>2, <2>3, <2>6
<1> QED BY <1>8, <1>9, <1>10

(* With a region for every descriptor, convert does not run out, and tells *)
(* of every address what the descriptors tell.                             *)
LEMMA ConvertTells ==
  ASSUME NEW M \in Seq(Desc), NEW cap \in Nat, Len(M) <= cap
  PROVE  Converted(convert(M, cap), Len(M), M)
<1>1. PICK n \in Nat : n = Len(M) /\ DOMAIN M = 1 .. n /\ n <= cap
  OBVIOUS
<1> DEFINE Good == {k \in 0 .. n : Converted(ConvertedTo(k, M, cap), k, M)}
<1>2. 0 \in Good
  <2>1. Converted(Converting, 0, M)
    BY DEF Converted, Converting, Told
  <2> QED BY <2>1, ConversionSteps
<1>3. ASSUME NEW k \in 0 .. n, k # n, k \in Good PROVE k + 1 \in Good
  <2>1. k + 1 \in 1 .. n /\ k \in Nat /\ (k + 1) - 1 = k /\ k + 1 <= cap /\ k + 1 \in 0 .. n
    BY <1>1, <1>3
  <2>2. M[k + 1] \in Desc
    BY <1>1, <2>1
  <2>3. ConvertedTo(k + 1, M, cap) = ConvertStep(ConvertedTo(k, M, cap), M[k + 1], cap)
    BY <1>1, <2>1, ConversionSteps
  <2>4. Converted(ConvertedTo(k, M, cap), k, M)
    BY <1>3
  <2>5. Converted(ConvertStep(ConvertedTo(k, M, cap), M[k + 1], cap), k + 1, M)
    BY <2>1, <2>2, <2>4, ConvertStepKeeps
  <2> QED BY <2>1, <2>3, <2>5
<1> HIDE DEF Good
<1>4. \A k \in 0 .. n : k # n /\ k \in Good => k + 1 \in Good
  BY <1>3
<1>5. \A k \in 0 .. n : k \in Good
  BY <1>2, <1>4, UpToBound
<1>6. n \in Good
  BY <1>5
<1> QED BY <1>1, <1>6, ConversionSteps DEF Good

-----------------------------------------------------------------------------
(* The memory map on its way.  Early is before the map that counts is      *)
(* taken; from then on the region array has a place for every descriptor,  *)
(* and the map is true unless the key is stale.                            *)

Early == BeforeExit \ {"take", "exit"}
MapInv ==
  /\ Firmware
  /\ room \in [map : Nat, regions : Nat]
  /\ stage \in {"take", "exit", "handoff"} => room.regions = room.map
  /\ stage \in {"exit", "handoff"} => Len(map) <= room.map /\ map \in Seq(Desc)
  /\ stage = "exit" => stale \/ MapIsTrue(map)
  /\ stage = "handoff" => MapIsTrue(map)
  /\ HandsOverTheTruth
  /\ ConversionFits

(* Sizes are natural numbers. *)
LEMMA PagesForNat == \A n \in Nat : pages_for(n) \in Nat
<1> SUFFICES ASSUME NEW n \in Nat PROVE pages_for(n) \in Nat
  OBVIOUS
<1>1. PICK k \in Nat : k = (n + PAGE_SIZE - 1) \div PAGE_SIZE
  BY PagesNat, Quotient
<1>2. UpTo(n, PAGE_SIZE) \in Nat
  BY <1>1, PagesNat DEF UpTo
<1> QED BY <1>2, PagesNat, Quotient DEF pages_for

LEMMA RoomNat ==
  ASSUME NEW n \in Nat
  PROVE  (pages_for(n) * PAGE_SIZE) \div DESC \in Nat
<1>1. DESC \in Nat \ {0}
  BY BootAssumption
<1>2. pages_for(n) * PAGE_SIZE \in Nat
  BY PagesForNat, PagesNat
<1> QED BY <1>1, <1>2, Quotient

LEMMA MapLenNat == ASSUME Firmware PROVE Len(GetMemoryMap) \in Nat
BY FirmwareIsTrue DEF MapIsTrue

(* No error of the kernel file reads as the map being too large. *)
LEMMA ParseErrors == parse(elf) # "TooManyRegions" /\ Span.err # "TooManyRegions"
<1>1. ASSUME NEW failing PROVE FirstOf(Identification, failing) # "TooManyRegions"
  <2> DEFINE T == {i \in DOMAIN Identification : Identification[i] \in failing}
  <2>1. DOMAIN Identification = 1 .. 5
    BY DEF Identification
  <2>2. CASE T = {}
    BY <2>2 DEF FirstOf
  <2>3. CASE T # {}
    <3>1. T \subseteq Nat
      BY <2>1
    <3>2. Min(T) \in T
      BY <2>3, <3>1, MinIsLeast
    <3>3. Min(T) \in 1 .. 5
      BY <2>1, <3>2
    <3>4. \A i \in 1 .. 5 : Identification[i] # "TooManyRegions"
      BY DEF Identification
    <3> QED BY <2>3, <3>3, <3>4 DEF FirstOf
  <2> QED BY <2>2, <2>3
<1>2. parse(elf) # "TooManyRegions"
  BY <1>1 DEF parse
<1>3. ASSUME NEW x, NEW p PROVE SpanError(x, p) # "TooManyRegions"
  BY DEF SpanError, SegmentError
<1>4. ASSUME NEW x, NEW segs PROVE FirstSpanError(x, segs) # "TooManyRegions"
  BY <1>3 DEF FirstSpanError
<1>5. Span.err # "TooManyRegions"
  BY <1>4 DEF Span, load_span, SpanOf
<1> QED BY <1>2, <1>5

(* Steps that stop, and steps that go on early in the boot. *)
LEMMA StopKeepsMap ==
  ASSUME MapInv, NEW reason, reason # "TooManyRegions", Stop(reason)
  PROVE  MapInv'
<1>1. Firmware' /\ room' = room /\ stage' = "stopped" /\ why' = reason
  BY DEF MapInv, Stop, Firmware
<1>2. HandsOverTheTruth'
  BY <1>1 DEF HandsOverTheTruth, Entered
<1> QED BY <1>1, <1>2 DEF MapInv, ConversionFits

LEMMA EarlyKeepsMap ==
  ASSUME MapInv, stage' \in Early, machine' = machine, why' = why,
         ram' \in [PhysPage -> UefiType \cup {"HOLE"}], room' \in [map : Nat, regions : Nat]
  PROVE  MapInv'
<1>1. Firmware' /\ stage' \notin {"take", "exit", "handoff"}
  BY DEF MapInv, Firmware, Early, BeforeExit
<1>2. HandsOverTheTruth'
  BY DEF HandsOverTheTruth, Entered, Early, BeforeExit
<1> QED BY <1>1, <1>2 DEF MapInv, ConversionFits

LEMMA GivenTyped ==
  ASSUME Firmware, NEW p, NEW n, Given(p, n)
  PROVE  ram' \in [PhysPage -> UefiType \cup {"HOLE"}]
BY DEF Firmware, Given, Marked, UefiType

(* The steps before the map that counts is taken. *)
LEMMA OpeningKeepsMap ==
  ASSUME MapInv, Survey \/ OpenVolume \/ AllPlaced
  PROVE  MapInv'
<1>1. ram \in [PhysPage -> UefiType \cup {"HOLE"}] /\ room \in [map : Nat, regions : Nat]
  BY DEF MapInv, Firmware
<1>2. CASE Survey
  BY <1>1, <1>2, EarlyKeepsMap DEF Survey, Goto, Early, BeforeExit
<1>3. CASE OpenVolume
  <2>1. CASE machine.volume
    BY <1>1, <1>3, <2>1, EarlyKeepsMap DEF OpenVolume, Goto, Early, BeforeExit
  <2>2. CASE ~machine.volume
    BY <1>3, <2>2, StopKeepsMap DEF OpenVolume
  <2> QED BY <2>1, <2>2
<1>4. CASE AllPlaced
  BY <1>1, <1>4, EarlyKeepsMap DEF AllPlaced, Goto, Early, BeforeExit
<1> QED BY <1>2, <1>3, <1>4

LEMMA FilesKeepMap ==
  ASSUME MapInv, ReadKernel \/ ReadInitrd
  PROVE  MapInv'
<1>1. Firmware /\ ram \in [PhysPage -> UefiType \cup {"HOLE"}] /\ room \in [map : Nat, regions : Nat]
  BY DEF MapInv, Firmware
<1>2. ASSUME NEW file, NEW what, NEW next \in Early, ReadFile(file, what, next)
      PROVE  MapInv'
  <2>1. CASE Stop("empty file") \/ Stop("short read") \/ Stop("allocate file")
    BY <2>1, StopKeepsMap
  <2>2. CASE AllocPlace(what, pages_for(file.len), "allocate file", next, UNCHANGED <<TreeVars, room>>)
    <3>1. \/ Stop("allocate file")
          \/ \E n, p : /\ Given(p, n) /\ Goto(next)
                       /\ UNCHANGED room
      BY <2>2 DEF AllocPlace
    <3>2. ASSUME NEW n, NEW p, Given(p, n), Goto(next), UNCHANGED room PROVE MapInv'
      BY <1>1, <3>2, GivenTyped, EarlyKeepsMap DEF Goto
    <3> QED BY <3>1, <3>2, <2>1
  <2> QED BY <1>2, <2>1, <2>2 DEF ReadFile
<1>3. CASE ReadKernel
  <2>1. "initrd" \in Early
    BY DEF Early, BeforeExit
  <2>2. CASE Stop("open kernel")
    BY <2>2, StopKeepsMap
  <2> QED BY <1>2, <1>3, <2>1, <2>2 DEF ReadKernel
<1>4. CASE ReadInitrd
  <2>1. "parse" \in Early
    BY DEF Early, BeforeExit
  <2>2. CASE Goto("parse") /\ UNCHANGED <<ram, stale, Found, place, tables, TreeVars, room, Leaving>>
    BY <1>1, <2>1, <2>2, EarlyKeepsMap DEF Goto
  <2> QED BY <1>2, <1>4, <2>1, <2>2 DEF ReadInitrd
<1> QED BY <1>3, <1>4

LEMMA ParseKeepsMap ==
  ASSUME MapInv, ParseKernel
  PROVE  MapInv'
<1>1. Firmware /\ room \in [map : Nat, regions : Nat]
  BY DEF MapInv
<1>2. \/ Stop(parse(elf)) \/ Stop(Span.err) \/ Stop("not linked at KERNEL_VMA")
      \/ Stop("allocate kernel image")
      \/ \E n, p : Given(p, n) /\ Goto("tables") /\ UNCHANGED room
  BY Zenon DEF ParseKernel, AllocPlace
<1>3. ASSUME NEW n, NEW p, Given(p, n), Goto("tables"), UNCHANGED room PROVE MapInv'
  BY <1>1, <1>3, GivenTyped, EarlyKeepsMap DEF Goto, Early, BeforeExit
<1>4. CASE Stop(parse(elf)) \/ Stop(Span.err)
  BY <1>4, StopKeepsMap, ParseErrors
<1>5. CASE Stop("not linked at KERNEL_VMA") \/ Stop("allocate kernel image")
  BY <1>5, StopKeepsMap
<1> QED BY <1>2, <1>3, <1>4, <1>5

LEMMA TablesKeepMap ==
  ASSUME MapInv, NewTables \/ PlaceSegment \/ BuildMaps
  PROVE  MapInv'
<1>1. Firmware /\ room \in [map : Nat, regions : Nat]
  BY DEF MapInv
<1>2. \/ Stop("allocate page table") \/ Stop("writable and executable segment")
      \/ \E p : Given(p, 1) /\ (Goto("segments") \/ Goto("info")) /\ UNCHANGED room
  BY Zenon DEF NewTables, PlaceSegment, PlaceAt, BuildMaps, TakeTable
<1>3. ASSUME NEW p, Given(p, 1), Goto("segments") \/ Goto("info"), UNCHANGED room PROVE MapInv'
  <2>1. machine' = machine /\ why' = why /\ stage' \in Early
    BY <1>3 DEF Goto, Early, BeforeExit
  <2> QED BY <1>1, <1>3, <2>1, GivenTyped, EarlyKeepsMap
<1>4. CASE Stop("allocate page table") \/ Stop("writable and executable segment")
  BY <1>4, StopKeepsMap
<1> QED BY <1>2, <1>3, <1>4

LEMMA SizesKeepMap ==
  ASSUME MapInv, SizeProbe \/ AllocInfo \/ SizeMap
  PROVE  MapInv'
<1>1. Firmware /\ room \in [map : Nat, regions : Nat]
  BY DEF MapInv
<1>2. ProbeRoom \in Nat
  <2>1. Len(GetMemoryMap) * DESC \in Nat
    BY <1>1, MapLenNat, BootAssumption
  <2> QED BY <2>1, RoomNat DEF ProbeRoom
<1>3. MapRoom \in Nat
  <2>1. (Len(GetMemoryMap) + MAP_SLACK_DESCRIPTORS) * DESC \in Nat
    <3>1. MAP_SLACK_DESCRIPTORS \in Nat /\ DESC \in Nat
      BY BootAssumption
    <3>2. Len(GetMemoryMap) \in Nat
      BY <1>1, MapLenNat
    <3> QED BY <3>1, <3>2
  <2> QED BY <2>1, RoomNat DEF MapRoom, MapPages
<1>4. \/ Stop("allocate probe map") \/ Stop("allocate boot info") \/ Stop("allocate memory map")
      \/ \E n, p : /\ Given(p, n)
                   /\ \/ Goto("probe read") /\ room' = [room EXCEPT !.map = ProbeRoom]
                      \/ Goto("size") /\ UNCHANGED room
                      \/ Goto("array") /\ room' = [room EXCEPT !.map = MapRoom]
  BY Zenon DEF SizeProbe, AllocInfo, SizeMap, AllocPlace
<1>5. ASSUME NEW n, NEW p, Given(p, n),
             \/ Goto("probe read") /\ room' = [room EXCEPT !.map = ProbeRoom]
             \/ Goto("size") /\ UNCHANGED room
             \/ Goto("array") /\ room' = [room EXCEPT !.map = MapRoom]
      PROVE  MapInv'
  <2>1. machine' = machine /\ why' = why /\ stage' \in Early
    BY <1>5 DEF Goto, Early, BeforeExit
  <2>2. room' \in [map : Nat, regions : Nat]
    BY <1>1, <1>2, <1>3, <1>5
  <2> QED BY <1>1, <1>5, <2>1, <2>2, GivenTyped, EarlyKeepsMap
<1>6. CASE Stop("allocate probe map") \/ Stop("allocate boot info") \/ Stop("allocate memory map")
  BY <1>6, StopKeepsMap
<1> QED BY <1>4, <1>5, <1>6

LEMMA ProbeKeepsMap ==
  ASSUME MapInv, ReadProbe
  PROVE  MapInv'
<1>1. Firmware /\ ram \in [PhysPage -> UefiType \cup {"HOLE"}] /\ room \in [map : Nat, regions : Nat]
  BY DEF MapInv, Firmware
<1>2. CASE Stop("probe map too small")
  BY <1>2, StopKeepsMap
<1>3. CASE Goto("maps") /\ UNCHANGED <<ram, room>>
  BY <1>1, <1>3, EarlyKeepsMap DEF Goto, Early, BeforeExit
<1> QED BY <1>2, <1>3 DEF ReadProbe

(* The region array is given a place for every descriptor there is room for. *)
LEMMA ArrayKeepsMap ==
  ASSUME MapInv, AllocRegions
  PROVE  MapInv'
<1>1. Firmware /\ room \in [map : Nat, regions : Nat]
  BY DEF MapInv
<1>2. \/ Stop("allocate region array")
      \/ \E n, p : /\ Given(p, n) /\ Goto("take")
                   /\ room' = [room EXCEPT !.regions = RegionRoom]
  BY Zenon DEF AllocRegions, AllocPlace
<1>3. CASE Stop("allocate region array")
  BY <1>3, StopKeepsMap
<1>4. ASSUME NEW n, NEW p, Given(p, n), Goto("take"), room' = [room EXCEPT !.regions = RegionRoom]
      PROVE  MapInv'
  <2>1. stage' = "take" /\ machine' = machine /\ why' = why
    BY <1>4 DEF Goto
  <2>2. Firmware'
    BY <1>1, <1>4, <2>1, GivenTyped DEF Firmware
  <2>3. room' \in [map : Nat, regions : Nat] /\ room'.regions = room'.map
    BY <1>1, <1>4 DEF RegionRoom
  <2>4. HandsOverTheTruth'
    BY <2>1 DEF HandsOverTheTruth, Entered
  <2> QED BY <2>1, <2>2, <2>3, <2>4 DEF MapInv, ConversionFits
<1> QED BY <1>2, <1>3, <1>4

(* The map taken is true, until the firmware acts again. *)
LEMMA TakingKeepsMap ==
  ASSUME MapInv, TakeMap
  PROVE  MapInv'
<1>1. Firmware /\ room \in [map : Nat, regions : Nat] /\ room.regions = room.map
  BY DEF MapInv, TakeMap
<1>2. MapIsTrue(GetMemoryMap)
  BY <1>1, FirmwareIsTrue
<1>3. CASE Stop("memory map outgrew its buffer")
  BY <1>3, StopKeepsMap
<1>4. CASE /\ ~(Len(GetMemoryMap) > room.map)
           /\ map' = GetMemoryMap
           /\ Goto("exit")
           /\ UNCHANGED <<ram, room>>
  <2>1. stage' = "exit" /\ machine' = machine /\ why' = why
    BY <1>4 DEF Goto
  <2>2. Firmware' /\ room' = room /\ ram' = ram
    BY <1>1, <1>4, <2>1 DEF Firmware
  <2>3. PICK M : M = GetMemoryMap
    OBVIOUS
  <2>4. M \in Seq(Desc) /\ Len(M) \in Nat /\ map' = M
    BY <1>2, <1>4, <2>3 DEF MapIsTrue
  <2>5. Len(map') <= room'.map
    BY <1>1, <1>4, <2>2, <2>3, <2>4
  <2>6. MapIsTrue(map)'
    BY <1>2, <2>2, <2>3, <2>4 DEF MapIsTrue
  <2>7. HandsOverTheTruth'
    BY <2>1 DEF HandsOverTheTruth, Entered
  <2> QED BY <1>1, <2>1, <2>2, <2>4, <2>5, <2>6, <2>7 DEF MapInv, ConversionFits
<1> QED BY <1>3, <1>4 DEF TakeMap

LEMMA LeavingKeepsMap ==
  ASSUME MapInv, ExitBootServices
  PROVE  MapInv'
<1>1. CASE Stop("ExitBootServices")
  BY <1>1, StopKeepsMap
<1>2. CASE ~stale /\ LeaveFirmware
  <2>1. /\ stage' = "handoff" /\ stage = "exit"
        /\ UNCHANGED <<machine, why, ram, room, map>>
    BY <1>2 DEF LeaveFirmware, Goto, Leaving, ExitBootServices
  <2>2. HandsOverTheTruth'
    BY <2>1 DEF HandsOverTheTruth, Entered
  <2>3. MapIsTrue(map)'
    BY <1>2, <2>1 DEF MapInv, MapIsTrue
  <2> QED BY <2>1, <2>2, <2>3 DEF MapInv, ConversionFits, Firmware
<1>3. CASE ReadAgain
  <2>1. /\ stage' = "take" /\ stage = "exit"
        /\ UNCHANGED <<machine, why, ram, room, map>>
    BY <1>3 DEF ReadAgain, Goto, Leaving, ExitBootServices
  <2>2. HandsOverTheTruth'
    BY <2>1 DEF HandsOverTheTruth, Entered
  <2> QED BY <2>1, <2>2 DEF MapInv, ConversionFits, Firmware
<1> QED BY <1>1, <1>2, <1>3 DEF ExitBootServices

(* What is handed over is what the map said. *)
LEMMA HandOffTells ==
  ASSUME MapInv, stage = "handoff", NEW c, c = convert(map, room.regions)
  PROVE  /\ ~c.full
         /\ \A p \in PhysPage :
              LET told == {i \in DOMAIN c.regions : In(c.regions[i], p * PAGE_SIZE)}
              IN  IF ram[p] = "HOLE" THEN told = {}
                  ELSE \E i \in told : told = {i} /\ c.regions[i].kind = classify(ram[p])
<1>1. /\ Firmware /\ room \in [map : Nat, regions : Nat] /\ room.regions = room.map
      /\ Len(map) <= room.map /\ map \in Seq(Desc) /\ MapIsTrue(map)
  BY DEF MapInv
<1>2. PICK n \in Nat : n = Len(map) /\ DOMAIN map = 1 .. n
  BY <1>1
<1>3. Converted(c, n, map)
  BY <1>1, <1>2, ConvertTells
<1>4. ASSUME NEW p \in PhysPage
      PROVE  LET told == {i \in DOMAIN c.regions : In(c.regions[i], p * PAGE_SIZE)}
             IN  IF ram[p] = "HOLE" THEN told = {}
                 ELSE \E i \in told : told = {i} /\ c.regions[i].kind = classify(ram[p])
  <2>1. PICK u : u = p * PAGE_SIZE
    OBVIOUS
  <2>2. u \in 0 .. ADDR_MAX - 1
    <3>1. p * PAGE_SIZE < Pages * PAGE_SIZE /\ p * PAGE_SIZE \in Nat /\ Pages * PAGE_SIZE \in Nat
      BY PagesNat, Multiples DEF PhysPage
    <3> QED BY <3>1, <2>1, PagesNat
  <2>3. OnceOnly(n, map, u)
    BY <1>1, <1>2, <2>1 DEF OnceOnly, MapIsTrue
  <2>4. Told(c.regions, n, map, u)
    BY <1>3, <2>2, <2>3 DEF Converted
  <2>5. \A i \in 1 .. n : Covers(map[i], u) => map[i].ty = ram[p]
    BY <1>1, <1>2, <2>1 DEF MapIsTrue
  <2>6. \A r \in DOMAIN c.regions : In(c.regions[r], u) => c.regions[r].kind = classify(ram[p])
    BY <2>4, <2>5, Zenon DEF Told
  <2>7. CASE ram[p] = "HOLE"
    <3>1. \A i \in 1 .. n : ~Covers(map[i], u)
      <4> SUFFICES ASSUME NEW i \in 1 .. n, Covers(map[i], u) PROVE FALSE
        OBVIOUS
      <4>1. map \in Seq(Desc) /\ i \in DOMAIN map
        BY <1>1, <1>2
      <4>2. map[i] \in Desc
        BY <4>1
      <4>3. map[i].ty \in UefiType
        BY <4>2 DEF Desc
      <4> QED BY <4>3, <2>5, <2>7 DEF UefiType
    <3>2. \A r \in DOMAIN c.regions : ~In(c.regions[r], u)
      BY <3>1, <2>4, Zenon DEF Told
    <3> QED BY <2>1, <2>7, <3>2
  <2>8. CASE ram[p] # "HOLE"
    <3>1. \E i \in 1 .. n : Covers(map[i], u)
      BY <1>1, <1>2, <2>1, <2>8 DEF MapIsTrue
    <3>2. PICK r \in DOMAIN c.regions : In(c.regions[r], u)
      BY <3>1, <2>4, Zenon DEF Told
    <3>3. \A q \in DOMAIN c.regions : In(c.regions[q], u) => q = r
      BY <3>2, <2>4, Zenon DEF Told
    <3> QED BY <2>1, <2>6, <2>8, <3>2, <3>3
  <2> QED BY <2>7, <2>8
<1>5. ~c.full
  BY <1>3 DEF Converted
<1> QED BY <1>4, <1>5

LEMMA HandingKeepsMap ==
  ASSUME MapInv, HandOff
  PROVE  MapInv'
<1>1. PICK c : c = convert(map, room.regions)
  OBVIOUS
<1>2. stage = "handoff"
  BY DEF HandOff
<1>3. ~c.full
  BY <1>1, <1>2, HandOffTells
<1>4. /\ stage' = "kernel" /\ info'.regions = c.regions
      /\ UNCHANGED <<machine, ram, why, room>>
  BY <1>1, <1>3 DEF HandOff
<1>5. \A p \in PhysPage :
        CountedIn(p)' = {i \in DOMAIN c.regions : In(c.regions[i], p * PAGE_SIZE)}
  BY <1>4 DEF CountedIn, In
<1>6. HandsOverTheTruth'
  <2> SUFFICES ASSUME NEW p \in PhysPage
               PROVE  IF ram[p] = "HOLE" THEN CountedIn(p)' = {}
                      ELSE \E i \in CountedIn(p)' : /\ CountedIn(p)' = {i}
                                                    /\ info'.regions[i].kind = classify(ram[p])
    BY <1>4 DEF HandsOverTheTruth
  <2>1. LET told == {i \in DOMAIN c.regions : In(c.regions[i], p * PAGE_SIZE)}
        IN  IF ram[p] = "HOLE" THEN told = {}
            ELSE \E i \in told : told = {i} /\ c.regions[i].kind = classify(ram[p])
    BY <1>1, <1>2, HandOffTells
  <2> QED BY <1>4, <1>5, <2>1
<1>7. Firmware' /\ room' \in [map : Nat, regions : Nat] /\ ConversionFits'
  BY <1>4 DEF MapInv, Firmware, ConversionFits
<1> QED BY <1>4, <1>6, <1>7 DEF MapInv

(* The kernel's steps, and the firmware's. *)
LEMMA KernelKeepsMap ==
  ASSUME MapInv, MemInit \/ Discover
  PROVE  MapInv'
<1>1. /\ stage \in {"kernel", "memory"} /\ stage' \in {"halted", "memory", "ready"}
      /\ UNCHANGED <<machine, ram, room, info>>
      /\ why' \in {why, "NoMemoryMap", "MapTooLarge", "NoFreeRun", "TooSmall"}
  BY Zenon DEF MemInit, Discover, Settle, KernelStep
<1>2. HandsOverTheTruth'
  BY <1>1 DEF MapInv, HandsOverTheTruth, Entered, CountedIn
<1> QED BY <1>1, <1>2 DEF MapInv, Firmware, ConversionFits

LEMMA FirmwareKeepsMap ==
  ASSUME MapInv, FirmwareActs
  PROVE  MapInv'
<1>1. /\ stage \in BeforeExit /\ stale' = TRUE
      /\ UNCHANGED <<machine, stage, why, room, map, info>>
  BY DEF FirmwareActs, Leaving, KernelVars
<1>2. ram' \in [PhysPage -> UefiType \cup {"HOLE"}]
  BY DEF FirmwareActs, MapInv, Firmware, UefiType
<1>3. HandsOverTheTruth' /\ stage # "handoff"
  BY <1>1 DEF HandsOverTheTruth, Entered, BeforeExit
<1> QED BY <1>1, <1>2, <1>3 DEF MapInv, Firmware, ConversionFits

(* Every step keeps MapInv. *)
LEMMA MapInductive == MapInv /\ [Next]_vars => MapInv'
<1> SUFFICES ASSUME MapInv, [Next]_vars PROVE MapInv'
  OBVIOUS
<1>1. CASE UNCHANGED vars
  BY <1>1 DEF vars, MapInv, Firmware, MapIsTrue, HandsOverTheTruth, Entered, CountedIn, ConversionFits
<1>2. CASE Loader
  BY <1>2, OpeningKeepsMap, FilesKeepMap, ParseKeepsMap, TablesKeepMap, SizesKeepMap, ProbeKeepsMap,
     ArrayKeepsMap, TakingKeepsMap, LeavingKeepsMap, HandingKeepsMap, Zenon DEF Loader
<1>3. CASE MemInit \/ Discover
  BY <1>3, KernelKeepsMap
<1>4. CASE FirmwareActs
  BY <1>4, FirmwareKeepsMap
<1> QED BY <1>1, <1>2, <1>3, <1>4 DEF Next

LEMMA MapInitially == Init => MapInv
<1> SUFFICES ASSUME Init PROVE MapInv
  OBVIOUS
<1>1. Firmware
  BY BootAssumption DEF Init, Firmware
<1> QED BY <1>1 DEF Init, MapInv, HandsOverTheTruth, Entered, ConversionFits

(***************************************************************************)
(* Whatever the firmware does to its map until it is left, and however     *)
(* often its key is refused, the kernel is handed a map that says of every *)
(* page what the firmware last said, and the conversion does not run out   *)
(* of room once nothing can be allocated (boot.rs, memmap.rs).             *)
(***************************************************************************)
THEOREM MapIsHandedOver == Spec => []MapHandedOver
<1>1. MapInv => MapHandedOver
  BY DEF MapInv, MapHandedOver
<1> QED BY <1>1, MapInitially, MapInductive, PTL DEF Spec

-----------------------------------------------------------------------------
(* The kernel's block.  Whole pages first. *)

(* UpTo and pages_for round up to whole pages. *)
LEMMA RoundsUp ==
  ASSUME NEW n \in Nat
  PROVE  \E q \in Nat : /\ UpTo(n, PAGE_SIZE) = q * PAGE_SIZE /\ pages_for(n) = q
                         /\ n <= q * PAGE_SIZE
                         /\ \A k \in 0 .. n - 1 : k \div PAGE_SIZE < q
<1>1. PICK a \in Nat : a = n + PAGE_SIZE - 1
  BY PagesNat
<1>2. PICK q \in Nat : q = a \div PAGE_SIZE
  BY <1>1, PagesNat, Quotient
<1>3. a = q * PAGE_SIZE + (a % PAGE_SIZE) /\ a % PAGE_SIZE \in 0 .. PAGE_SIZE - 1
  BY <1>2, PagesNat, Quotient
<1>4. PICK m \in Nat : m = q * PAGE_SIZE
  BY PagesNat
<1>5. n <= m
  BY <1>1, <1>3, <1>4, PagesNat
<1>6. UpTo(n, PAGE_SIZE) = q * PAGE_SIZE
  BY <1>1, <1>2 DEF UpTo
<1>7. (q * PAGE_SIZE + 0) \div PAGE_SIZE = q
  BY QuotientOf, PagesNat
<1>8. pages_for(n) = q
  BY <1>6, <1>7, PagesNat DEF pages_for
<1>9. ASSUME NEW k \in 0 .. n - 1 PROVE k \div PAGE_SIZE < q
  <2>1. PICK j \in Nat : j = k \div PAGE_SIZE /\ k = j * PAGE_SIZE + (k % PAGE_SIZE)
                          /\ k % PAGE_SIZE \in 0 .. PAGE_SIZE - 1
    <3>1. k \in Nat
      OBVIOUS
    <3>2. PICK j \in Nat : j = k \div PAGE_SIZE
      BY <3>1, PagesNat, Quotient
    <3>3. k = j * PAGE_SIZE + (k % PAGE_SIZE) /\ k % PAGE_SIZE \in 0 .. PAGE_SIZE - 1
      BY <3>1, <3>2, PagesNat, Quotient
    <3> QED BY <3>2, <3>3
  <2>2. j * PAGE_SIZE \in Int /\ j * PAGE_SIZE < q * PAGE_SIZE
    BY <2>1, <1>4, <1>5, PagesNat
  <2>3. j < q
    BY <2>2, PagesNat, Multiples
  <2> QED BY <2>1, <2>3
<1> QED BY <1>4, <1>5, <1>6, <1>8, <1>9

Header == [load : BOOLEAN, write : BOOLEAN, exec : BOOLEAN,
           offset : Nat, vaddr : Nat, filesz : Nat, memsz : Nat]
Segs == segments(elf)

(* The segments, as LinkAssumption has them. *)
LEMMA SegsAre ==
  ASSUME machine \in Machines
  PROVE  /\ Segs \in Seq(Header)
         /\ \A s, t \in DOMAIN Segs : s # t => SegmentPage(Segs[s]) \cap SegmentPage(Segs[t]) = {}
BY LinkAssumption DEF Segs, elf, Header

(* A span without error holds every segment. *)
LEMMA SpanFits ==
  ASSUME machine \in Machines, Span.err = "none"
  PROVE  /\ Span.base \in Nat /\ Span.size \in Nat
         /\ \A s \in DOMAIN Segs :
              LET p == Segs[s]
              IN  /\ p \in Header /\ p.filesz <= p.memsz /\ p.vaddr % PAGE_SIZE = 0
                  /\ Span.base <= p.vaddr /\ p.vaddr + p.memsz <= Span.base + Span.size
<1>1. Segs \in Seq(Header)
  BY SegsAre
<1>2. PICK n \in Nat : n = Len(Segs) /\ DOMAIN Segs = 1 .. n
  BY <1>1
<1>3. /\ FirstSpanError(elf, Segs) = "none" /\ Segs # <<>> /\ ~(SpanEnd(Segs) > ADDR_MAX)
      /\ Span = [err |-> "none", base |-> SpanBase(Segs), size |-> SpanEnd(Segs) - SpanBase(Segs)]
  BY DEF Span, load_span, SpanOf, Segs
<1>4. ASSUME NEW s \in DOMAIN Segs PROVE SpanError(elf, Segs[s]) = "none"
  <2> SUFFICES ASSUME SpanError(elf, Segs[s]) # "none" PROVE FALSE
    OBVIOUS
  <2> DEFINE bad == {i \in DOMAIN Segs : SpanError(elf, Segs[i]) # "none"}
  <2>1. s \in bad /\ bad \subseteq Nat
    BY <1>2
  <2>2. Min(bad) \in bad
    BY <2>1, MinIsLeast
  <2>3. SpanError(elf, Segs[Min(bad)]) # "none"
    BY <2>2
  <2>4. FirstSpanError(elf, Segs) = SpanError(elf, Segs[Min(bad)])
    BY <2>1 DEF FirstSpanError
  <2> QED BY <2>3, <2>4, <1>3
<1>5. ASSUME NEW s \in DOMAIN Segs
      PROVE  /\ Segs[s] \in Header /\ Segs[s].filesz <= Segs[s].memsz
             /\ Segs[s].vaddr % PAGE_SIZE = 0 /\ Segs[s].vaddr + Segs[s].memsz <= ADDR_MAX
             /\ Segs[s].vaddr \in Nat /\ Segs[s].memsz \in Nat
  <2>1. PICK p \in Header : p = Segs[s]
    BY <1>1
  <2>2. p.vaddr \in Nat /\ p.memsz \in Nat /\ p.filesz \in Nat
    BY DEF Header
  <2>3. SpanError(elf, p) = "none"
    BY <1>4, <2>1
  <2>4. SegmentError(elf, p) = "none" /\ ~(p.vaddr + p.memsz > ADDR_MAX)
    BY <2>3 DEF SpanError
  <2>5. ~(p.filesz > p.memsz) /\ p.vaddr % PAGE_SIZE = 0
    BY <2>4 DEF SegmentError
  <2> QED BY <2>1, <2>2, <2>4, <2>5, PagesNat
<1> DEFINE tops == {Segs[i].vaddr + Segs[i].memsz : i \in DOMAIN Segs}
           bases == {Segs[i].vaddr : i \in DOMAIN Segs}
<1>6. 1 \in DOMAIN Segs
  BY <1>1, <1>2, <1>3
<1>7. tops \subseteq Nat /\ tops # {} /\ \A y \in tops : y <= ADDR_MAX
  BY <1>5, <1>6
<1>8. Max(tops) \in tops /\ \A y \in tops : y <= Max(tops)
  BY <1>7, MaxIsGreatest, PagesNat
<1>9. bases \subseteq Nat /\ bases # {}
  BY <1>5, <1>6
<1>10. Min(bases) \in bases /\ \A y \in bases : Min(bases) <= y
  BY <1>9, MinIsLeast
<1>11. SpanBase(Segs) = Min(bases) /\ SpanEnd(Segs) = UpTo(Max(tops), PAGE_SIZE)
  BY DEF SpanBase, SpanEnd
<1>12. PICK hi \in Nat : hi = Max(tops)
  BY <1>7, <1>8
<1>13. PICK lo \in Nat : lo = Min(bases)
  BY <1>9, <1>10
<1>14. PICK e \in Nat : UpTo(hi, PAGE_SIZE) = e * PAGE_SIZE /\ hi <= e * PAGE_SIZE
  BY RoundsUp
<1>15. PICK m \in Nat : m = e * PAGE_SIZE
  BY PagesNat
<1>16. ASSUME NEW s \in DOMAIN Segs
       PROVE  lo <= Segs[s].vaddr /\ Segs[s].vaddr + Segs[s].memsz <= hi
  BY <1>8, <1>10, <1>12, <1>13
<1>17. Span.base = lo /\ Span.size = m - lo
  BY <1>3, <1>11, <1>12, <1>13, <1>14, <1>15
<1>18. lo <= m
  BY <1>5, <1>6, <1>14, <1>15, <1>16
<1>19. ASSUME NEW s \in DOMAIN Segs
       PROVE  Span.base <= Segs[s].vaddr /\ Segs[s].vaddr + Segs[s].memsz <= Span.base + Span.size
  BY <1>5, <1>14, <1>15, <1>16, <1>17
<1> QED BY <1>5, <1>15, <1>17, <1>18, <1>19

(* Addresses and page numbers count from the kernel's base alike. *)
LEMMA FromBase ==
  ASSUME NEW a \in Nat, NEW v \in Nat, a <= v, a % PAGE_SIZE = 0
  PROVE  /\ v \div PAGE_SIZE \in Nat /\ a \div PAGE_SIZE \in Nat
         /\ (v - a) \div PAGE_SIZE = (v \div PAGE_SIZE) - (a \div PAGE_SIZE)
         /\ ((v \div PAGE_SIZE) - (a \div PAGE_SIZE)) * PAGE_SIZE + (v % PAGE_SIZE) = v - a
<1>1. PICK i \in Nat : i = a \div PAGE_SIZE
  BY PagesNat, Quotient
<1>2. PICK j \in Nat : j = v \div PAGE_SIZE
  BY PagesNat, Quotient
<1>3. PICK r \in 0 .. PAGE_SIZE - 1 : r = v % PAGE_SIZE
  BY PagesNat, Quotient
<1>4. a = i * PAGE_SIZE /\ v = j * PAGE_SIZE + r
  BY <1>1, <1>2, <1>3, PagesNat, Quotient
<1>5. i <= j
  <2> SUFFICES ASSUME j < i PROVE FALSE
    BY <1>1, <1>2
  <2>1. PICK d \in Nat : i = j + 1 + d
    <3>1. i - j - 1 \in Nat /\ i = j + 1 + (i - j - 1)
      OBVIOUS
    <3> QED BY <3>1
  <2>2. i * PAGE_SIZE = j * PAGE_SIZE + PAGE_SIZE + d * PAGE_SIZE
    BY <2>1, PagesNat
  <2>3. d * PAGE_SIZE \in Nat /\ j * PAGE_SIZE \in Nat
    BY PagesNat
  <2> QED BY <1>4, <2>2, <2>3, PagesNat
<1>6. PICK d \in Nat : j = i + d
  <2>1. j - i \in Nat /\ j = i + (j - i)
    BY <1>5
  <2> QED BY <2>1
<1>7. j * PAGE_SIZE = i * PAGE_SIZE + d * PAGE_SIZE /\ i * PAGE_SIZE \in Nat /\ d * PAGE_SIZE \in Nat
  BY <1>6, PagesNat
<1>8. v - a = d * PAGE_SIZE + r
  BY <1>4, <1>7
<1>9. (d * PAGE_SIZE + r) \div PAGE_SIZE = d
  BY PagesNat, QuotientOf
<1>10. j - i = d
  BY <1>6
<1> QED BY <1>1, <1>2, <1>3, <1>8, <1>9, <1>10

(* A unit of a segment is on one of the segment's pages. *)
LEMMA InSegmentPage ==
  ASSUME NEW p \in Header, p.vaddr % PAGE_SIZE = 0, NEW v \in p.vaddr .. p.vaddr + p.memsz - 1
  PROVE  v \in Nat /\ v \div PAGE_SIZE \in SegmentPage(p)
<1>1. PICK a \in Nat, m \in Nat : a = p.vaddr /\ m = p.memsz
  BY DEF Header
<1>2. v \in Nat /\ a <= v /\ v - a \in 0 .. m - 1 /\ a % PAGE_SIZE = 0
  BY <1>1
<1>3. PICK q \in Nat : pages_for(m) = q /\ \A k \in 0 .. m - 1 : k \div PAGE_SIZE < q
  BY RoundsUp
<1>4. (v - a) \div PAGE_SIZE < q
  BY <1>2, <1>3
<1>5. /\ v \div PAGE_SIZE \in Nat /\ a \div PAGE_SIZE \in Nat
      /\ (v - a) \div PAGE_SIZE = (v \div PAGE_SIZE) - (a \div PAGE_SIZE)
  BY <1>2, FromBase
<1>6. (v - a) \in Nat
  BY <1>2
<1>7. (v - a) \div PAGE_SIZE \in Nat
  BY <1>6, PagesNat, Quotient
<1>8. SegmentPage(p) = (a \div PAGE_SIZE) .. (a \div PAGE_SIZE) + q - 1
  BY <1>1, <1>3 DEF SegmentPage, SegPages
<1> QED BY <1>2, <1>4, <1>5, <1>7, <1>8

(* AllocatePages gives a place that is free. *)
LEMMA AllocatedFree ==
  ASSUME NEW n, NEW p \in alloc_pages(n)
  PROVE  p \in FreeAt(n) /\ p \in Nat \ {0}
<1>1. FreeAt(n) # {} /\ p = AllocAt(n)
  BY DEF alloc_pages
<1>2. FreeAt(n) \subseteq Nat \ {0} /\ \A q \in FreeAt(n) : q <= Pages
  BY PagesNat DEF FreeAt, PhysPage
<1>3. \E b \in FreeAt(n) : \A q \in FreeAt(n) : IF machine.fromTop THEN q <= b ELSE b <= q
  <2>1. PICK x : x = FreeAt(n)
    OBVIOUS
  <2>2. x \subseteq Nat /\ x # {} /\ \A q \in x : q <= Pages
    BY <1>1, <1>2, <2>1
  <2>3. Max(x) \in x /\ \A q \in x : q <= Max(x)
    BY <2>2, MaxIsGreatest, PagesNat
  <2>4. Min(x) \in x /\ \A q \in x : Min(x) <= q
    BY <2>2, MinIsLeast
  <2> QED BY <2>1, <2>3, <2>4, Zenon
<1>4. AllocAt(n) \in FreeAt(n)
  BY <1>3, Zenon DEF AllocAt
<1> QED BY <1>1, <1>2, <1>4

(* What has been placed is laid out as it was linked, and what has not is  *)
(* still zero.                                                             *)
UnitsOf(s) == Segs[s].vaddr .. Segs[s].vaddr + Segs[s].memsz - 1
FromFile(s, v) == IF v - Segs[s].vaddr < Segs[s].filesz THEN <<s, v - Segs[s].vaddr>> ELSE <<0, 0>>
MappedTo(s, v) ==
  /\ v \div PAGE_SIZE \in DOMAIN ktree
  /\ ktree[v \div PAGE_SIZE] =
       [page |-> place["kernel"] + ((v \div PAGE_SIZE) - (KERNEL_VMA \div PAGE_SIZE)),
        write |-> Segs[s].write, exec |-> Segs[s].exec]
LaidOut(s) == \A v \in UnitsOf(s) : MappedTo(s, v) /\ image[v - KERNEL_VMA] = FromFile(s, v)
Blank(s) == \A v \in UnitsOf(s) : image[v - KERNEL_VMA] = <<0, 0>>

Linked ==
  /\ Span.err = "none" /\ Span.base = KERNEL_VMA
  /\ place["kernel"] # 0
  /\ DOMAIN image = 0 .. Span.size - 1
  /\ seg \in 1 .. Len(Segs) + 1
  /\ \A s \in 1 .. seg - 1 : LaidOut(s)
  /\ \A s \in seg .. Len(Segs) : Blank(s)

Unparsed == {"start", "volume", "kernel file", "initrd", "parse"}
Complete == {"probe", "probe read", "maps", "info", "size", "array", "take", "exit", "handoff",
           "kernel", "memory", "halted", "ready"}
KernelInv ==
  /\ machine \in Machines
  /\ place \in [Place -> Nat]
  /\ stage \in Stage
  /\ stage \in Unparsed \cup {"tables"} => seg = 1
  /\ stage \in {"tables", "segments"} \cup Complete => Linked
  /\ stage \in Complete => seg = Len(Segs) + 1

(* The last step: what is laid out is in place. *)
LEMMA LaidOutInPlace ==
  ASSUME KernelInv, stage \in Complete, NEW s \in DOMAIN Segs
  PROVE  SegmentInPlace(s)
<1>1. /\ machine \in Machines /\ Span.err = "none" /\ Span.base = KERNEL_VMA
      /\ place["kernel"] \in Nat \ {0} /\ LaidOut(s)
  <2>1. Linked /\ seg = Len(Segs) + 1 /\ machine \in Machines /\ place["kernel"] \in Nat
    BY DEF KernelInv, Place
  <2>2. Segs \in Seq(Header)
    BY <2>1, SegsAre
  <2>3. s \in 1 .. seg - 1
    BY <2>1, <2>2
  <2> QED BY <2>1, <2>3 DEF Linked
<1>2. PICK p \in Header : p = Segs[s]
  BY <1>1, SpanFits
<1>3. /\ Span.size \in Nat /\ p.vaddr % PAGE_SIZE = 0
      /\ KERNEL_VMA <= p.vaddr /\ p.vaddr + p.memsz <= KERNEL_VMA + Span.size
  BY <1>1, <1>2, SpanFits
<1>4. PICK w \in Nat : w = place["kernel"] /\ w # 0
  BY <1>1
<1>5. KERNEL_VMA \in Nat /\ KERNEL_VMA % PAGE_SIZE = 0
  BY BootAssumption
<1>6. ASSUME NEW v \in p.vaddr .. p.vaddr + p.memsz - 1
      PROVE  /\ v \div PAGE_SIZE \in DOMAIN ktree
             /\ ktree[v \div PAGE_SIZE].page \in Occupied("kernel")
             /\ ktree[v \div PAGE_SIZE].write = p.write /\ ktree[v \div PAGE_SIZE].exec = p.exec
             /\ ByteAt(v) = IF v - p.vaddr < p.filesz THEN <<s, v - p.vaddr>> ELSE <<0, 0>>
  <2>1. MappedTo(s, v) /\ image[v - KERNEL_VMA] = FromFile(s, v)
    BY <1>1, <1>2 DEF LaidOut, UnitsOf
  <2>2. v \in Nat /\ KERNEL_VMA <= v /\ v - KERNEL_VMA \in 0 .. Span.size - 1
    BY <1>3, <1>5 DEF Header
  <2>3. PICK d \in Int : d = (v \div PAGE_SIZE) - (KERNEL_VMA \div PAGE_SIZE)
    BY <2>2, <1>5, FromBase
  <2>4. (v - KERNEL_VMA) \div PAGE_SIZE = d /\ d * PAGE_SIZE + (v % PAGE_SIZE) = v - KERNEL_VMA
    BY <2>2, <2>3, <1>5, FromBase
  <2>5. PICK q \in Nat : pages_for(Span.size) = q /\ \A k \in 0 .. Span.size - 1 : k \div PAGE_SIZE < q
    BY <1>3, RoundsUp
  <2>6. d < q
    BY <2>2, <2>4, <2>5
  <2>7. d \in Nat
    <3>1. v - KERNEL_VMA \in Nat
      BY <2>2
    <3> QED BY <3>1, <2>4, PagesNat, Quotient
  <2>8. ktree[v \div PAGE_SIZE] = [page |-> w + d, write |-> p.write, exec |-> p.exec]
    BY <2>1, <2>3, <1>2, <1>4 DEF MappedTo
  <2>9. Occupied("kernel") = w .. w + q - 1
    BY <1>4, <2>5 DEF Occupied, PlacePages
  <2>10. w + d \in w .. w + q - 1
    BY <2>6, <2>7
  <2>11. ByteAt(v) = image[v - KERNEL_VMA]
    <3>1. (w + d) - w = d
      BY <2>3
    <3>2. ByteAt(v) = image[((w + d) - w) * PAGE_SIZE + (v % PAGE_SIZE)]
      BY <2>8, <1>4 DEF ByteAt
    <3> QED BY <3>1, <3>2, <2>4
  <2>12. v \div PAGE_SIZE \in DOMAIN ktree
    BY <2>1 DEF MappedTo
  <2>13. ByteAt(v) = IF v - p.vaddr < p.filesz THEN <<s, v - p.vaddr>> ELSE <<0, 0>>
    BY <2>1, <2>11, <1>2 DEF FromFile
  <2>14. ktree[v \div PAGE_SIZE].page = w + d /\ ktree[v \div PAGE_SIZE].write = p.write
         /\ ktree[v \div PAGE_SIZE].exec = p.exec
    BY <2>8
  <2> QED BY <2>9, <2>10, <2>12, <2>13, <2>14
<1> QED BY <1>2, <1>6 DEF SegmentInPlace, Segs

(* Steps that leave the kernel's block alone. *)
LEMMA ElsewhereKeepsKernel ==
  ASSUME KernelInv, UNCHANGED <<machine, seg, image, ktree>>, place' \in [Place -> Nat],
         place'["kernel"] = place["kernel"], stage' \in Stage,
         \/ stage' \in {"stopped", stage}
         \/ stage \in Unparsed /\ stage' \in Unparsed
         \/ stage = "tables" /\ stage' = "segments"
         \/ stage \in Complete /\ stage' \in Complete
         \/ stage = "segments" /\ seg = Len(Segs) + 1 /\ stage' \in Complete
  PROVE  KernelInv'
<1>1. Segs' = Segs /\ Span' = Span
  BY DEF Segs, Span, elf
<1>2. ASSUME Linked PROVE Linked'
  <2>1. ASSUME NEW s PROVE (LaidOut(s) => LaidOut(s)') /\ (Blank(s) => Blank(s)')
    BY <1>1 DEF LaidOut, Blank, UnitsOf, MappedTo, FromFile
  <2> QED BY <1>1, <1>2, <2>1 DEF Linked
<1>3. stage' # "stopped" /\ stage' \in {"tables", "segments"} \cup Complete
        => stage \in {"tables", "segments"} \cup Complete
  BY DEF Unparsed, Complete
<1>4. Linked \/ stage' \notin {"tables", "segments"} \cup Complete
  BY <1>3 DEF KernelInv, Complete
<1>5. stage' \in Unparsed \cup {"tables"} => seg = 1
  BY DEF KernelInv, Unparsed, Complete
<1>6. stage' \in Complete => seg = Len(Segs) + 1
  BY DEF KernelInv, Unparsed, Complete
<1> QED BY <1>1, <1>2, <1>4, <1>5, <1>6 DEF KernelInv

LEMMA StopKeepsKernel ==
  ASSUME KernelInv, NEW reason, Stop(reason)
  PROVE  KernelInv'
<1>1. /\ UNCHANGED <<machine, seg, image, ktree>> /\ place' = place /\ stage' = "stopped"
  BY DEF Stop, TreeVars
<1>2. place \in [Place -> Nat] /\ stage' \in Stage
  BY <1>1 DEF KernelInv, Stage, Over
<1> QED BY <1>1, <1>2, ElsewhereKeepsKernel

(* The block is allocated zeroed: every segment is blank. *)
LEMMA ParseKeepsKernel == KernelInv /\ ParseKernel => KernelInv'
<1> SUFFICES ASSUME KernelInv, ParseKernel PROVE KernelInv'
  OBVIOUS
<1>1. CASE \E reason : Stop(reason)
  BY <1>1, StopKeepsKernel
<1>2. CASE /\ parse(elf) = "none" /\ Span.err = "none" /\ Span.base = KERNEL_VMA
           /\ stage = "parse" /\ stage' = "tables"
           /\ \E p \in alloc_pages(pages_for(Span.size)) : place' = [place EXCEPT !["kernel"] = p]
           /\ image' = [u \in 0 .. Span.size - 1 |-> <<0, 0>>]
           /\ UNCHANGED <<machine, seg, ktree>>
  <2>1. /\ machine \in Machines /\ seg = 1 /\ Segs' = Segs /\ Span' = Span /\ place \in [Place -> Nat]
    BY <1>2 DEF KernelInv, Segs, Span, elf, Unparsed
  <2>2. PICK p \in alloc_pages(pages_for(Span.size)) : place' = [place EXCEPT !["kernel"] = p]
    BY <1>2
  <2>3. p \in Nat \ {0}
    BY AllocatedFree
  <2>4. place' \in [Place -> Nat] /\ place'["kernel"] # 0
    BY <2>1, <2>2, <2>3 DEF Place
  <2>5. PICK n \in Nat : n = Len(Segs) /\ DOMAIN Segs = 1 .. n
    BY <2>1, SegsAre
  <2>6. ASSUME NEW s \in 1 .. n PROVE Blank(s)'
    <3>1. PICK p1 \in Header : p1 = Segs[s]
      BY <1>2, <2>1, <2>5, SpanFits
    <3>2. Span.size \in Nat /\ KERNEL_VMA <= p1.vaddr /\ p1.vaddr + p1.memsz <= KERNEL_VMA + Span.size
      BY <1>2, <2>1, <2>5, <3>1, SpanFits
    <3>3. p1.vaddr \in Nat /\ p1.memsz \in Nat /\ KERNEL_VMA \in Nat
      BY BootAssumption DEF Header
    <3>4. ASSUME NEW v \in p1.vaddr .. p1.vaddr + p1.memsz - 1 PROVE image'[v - KERNEL_VMA] = <<0, 0>>
      <4>1. v - KERNEL_VMA \in 0 .. Span.size - 1
        BY <3>2, <3>3
      <4> QED BY <4>1, <1>2
    <3> QED BY <2>1, <3>1, <3>4 DEF Blank, UnitsOf
  <2>7. Linked'
    BY <1>2, <2>1, <2>4, <2>5, <2>6 DEF Linked
  <2>8. stage' \in Stage /\ stage' \notin Complete
    BY <1>2 DEF Stage, BeforeExit, Complete
  <2> QED BY <1>2, <2>1, <2>4, <2>7, <2>8 DEF KernelInv
<1> QED BY <1>1, <1>2, Zenon DEF ParseKernel, AllocPlace, Goto

LEMMA Regrouped == \A d, q, w, k \in Int : d = w - k => d + q = w + (q - k)
OBVIOUS

(* An offset into a segment inside the block is an offset into the block. *)
LEMMA InBlock ==
  ASSUME NEW b \in Nat, NEW a \in Nat, NEW m \in Nat, NEW z \in Nat, NEW v \in Nat,
         b <= a, a + m <= b + z, a <= v, v <= a + m - 1
  PROVE  v - b \in 0 .. z - 1
OBVIOUS

(* Placing a segment writes it, and disturbs no other. *)
LEMMA SegmentIsLaidOut ==
  ASSUME machine \in Machines, Linked, place["kernel"] \in Nat, NEW p, p = Segs[seg], seg <= Len(Segs),
         ~seg_is_wx(p),
         UNCHANGED <<machine, place>>, seg' = seg + 1,
         image' = Copied(p, seg, p.vaddr - Span.base), ktree' = MappedSegment(p, p.vaddr - Span.base)
  PROVE  Linked'
<1>1. Segs' = Segs /\ Span' = Span
  BY DEF Segs, Span, elf
<1>2. PICK n \in Nat : n = Len(Segs) /\ DOMAIN Segs = 1 .. n
  BY SegsAre
<1>3. seg \in 1 .. n /\ Span.err = "none" /\ Span.base = KERNEL_VMA /\ DOMAIN image = 0 .. Span.size - 1
  BY <1>2 DEF Linked
<1>4. KERNEL_VMA \in Nat /\ KERNEL_VMA % PAGE_SIZE = 0
  BY BootAssumption
<1>5. ASSUME NEW s \in 1 .. n
      PROVE  /\ Segs[s] \in Header /\ Segs[s].filesz <= Segs[s].memsz /\ Segs[s].vaddr % PAGE_SIZE = 0
             /\ KERNEL_VMA <= Segs[s].vaddr /\ Segs[s].vaddr + Segs[s].memsz <= KERNEL_VMA + Span.size
             /\ Segs[s].vaddr \in Nat /\ Segs[s].memsz \in Nat /\ Segs[s].filesz \in Nat
  <2>1. /\ Segs[s] \in Header /\ Segs[s].filesz <= Segs[s].memsz /\ Segs[s].vaddr % PAGE_SIZE = 0
        /\ KERNEL_VMA <= Segs[s].vaddr /\ Segs[s].vaddr + Segs[s].memsz <= KERNEL_VMA + Span.size
    BY <1>2, <1>3, SpanFits
  <2> QED BY <2>1 DEF Header
<1>6. Span.size \in Nat
  BY <1>3, SpanFits
<1>7. ASSUME NEW s \in 1 .. n, NEW v \in UnitsOf(s)
      PROVE  v \in Nat /\ v - KERNEL_VMA \in DOMAIN image /\ v \div PAGE_SIZE \in SegmentPage(Segs[s])
  <2>1. PICK x \in Header : x = Segs[s]
    BY <1>5
  <2>2. v \in x.vaddr .. x.vaddr + x.memsz - 1
    BY <2>1 DEF UnitsOf
  <2>3. v \in Nat /\ v \div PAGE_SIZE \in SegmentPage(x)
    BY <1>5, <2>1, <2>2, InSegmentPage
  <2>4. v - KERNEL_VMA \in 0 .. Span.size - 1
    <3>1. PICK a \in Nat, m \in Nat : a = x.vaddr /\ m = x.memsz
      BY <2>1 DEF Header
    <3>2. KERNEL_VMA <= a /\ a + m <= KERNEL_VMA + Span.size /\ v \in a .. a + m - 1
      BY <1>5, <2>1, <2>2, <3>1
    <3>3. PICK z \in Nat : z = Span.size
      BY <1>6
    <3>4. KERNEL_VMA \in Nat /\ KERNEL_VMA <= a /\ a + m <= KERNEL_VMA + z /\ v \in Nat /\ a <= v /\ v <= a + m - 1
      BY <1>4, <2>3, <3>2, <3>3
    <3>5. v - KERNEL_VMA \in 0 .. z - 1
      BY <3>4, InBlock
    <3> QED BY <3>3, <3>5
  <2> QED BY <1>3, <2>1, <2>3, <2>4
<1>8. p \in Header /\ p.vaddr \in Nat /\ p.memsz \in Nat /\ p.filesz \in Nat /\ p.filesz <= p.memsz
      /\ KERNEL_VMA <= p.vaddr /\ p.vaddr % PAGE_SIZE = 0
  BY <1>3, <1>5
<1> DEFINE from == p.vaddr - KERNEL_VMA
<1>9. image' = [u \in DOMAIN image |-> IF u \in from .. from + p.filesz - 1 THEN <<seg, u - from>> ELSE image[u]]
  BY <1>3 DEF Copied
<1>10. PICK d \in Int : d = place["kernel"] - (KERNEL_VMA \div PAGE_SIZE)
  <2>1. PICK k \in Nat : k = KERNEL_VMA \div PAGE_SIZE
    BY <1>4, PagesNat, Quotient
  <2>2. place["kernel"] - k \in Int
    OBVIOUS
  <2> QED BY <2>1, <2>2
<1>11. ktree' = [q \in DOMAIN ktree \cup SegmentPage(p) |->
                  IF q \in SegmentPage(p) THEN SegRights(p, d + q) ELSE ktree[q]]
  <2>1. /\ from \div PAGE_SIZE = (p.vaddr \div PAGE_SIZE) - (KERNEL_VMA \div PAGE_SIZE)
        /\ p.vaddr \div PAGE_SIZE \in Nat /\ KERNEL_VMA \div PAGE_SIZE \in Nat
    BY <1>4, <1>8, FromBase
  <2>2. place["kernel"] + (from \div PAGE_SIZE) - (p.vaddr \div PAGE_SIZE) = d
    BY <2>1, <1>10
  <2> QED BY <1>3, <2>2 DEF MappedSegment
<1>12. ASSUME NEW s \in 1 .. n, s # seg, NEW v \in UnitsOf(s)
       PROVE  /\ image'[v - KERNEL_VMA] = image[v - KERNEL_VMA]
              /\ v \div PAGE_SIZE \in DOMAIN ktree =>
                   /\ v \div PAGE_SIZE \in DOMAIN ktree'
                   /\ ktree'[v \div PAGE_SIZE] = ktree[v \div PAGE_SIZE]
  <2>1. v \in Nat /\ v - KERNEL_VMA \in DOMAIN image /\ v \div PAGE_SIZE \in SegmentPage(Segs[s])
    BY <1>7
  <2>2. v \div PAGE_SIZE \notin SegmentPage(p)
    BY <1>2, <1>3, <1>12, <2>1, SegsAre
  <2>3. v \notin UnitsOf(seg)
    BY <1>3, <1>7, <2>2
  <2>4. ~(v \in p.vaddr .. p.vaddr + p.memsz - 1)
    BY <2>3 DEF UnitsOf
  <2>5. v - KERNEL_VMA \notin from .. from + p.filesz - 1
    <3>1. PICK a \in Nat, m \in Nat, f \in Nat : a = p.vaddr /\ m = p.memsz /\ f = p.filesz
      BY <1>8
    <3>2. f <= m /\ v \in Nat /\ ~(v \in a .. a + m - 1) /\ from = a - KERNEL_VMA
      BY <1>8, <2>1, <2>4, <3>1
    <3>3. ~(v - KERNEL_VMA \in (a - KERNEL_VMA) .. (a - KERNEL_VMA) + f - 1)
      BY <1>4, <3>2
    <3> QED BY <3>1, <3>2, <3>3
  <2> QED BY <1>9, <1>11, <2>1, <2>2, <2>5
<1>13. ASSUME NEW s \in 1 .. seg - 1 PROVE LaidOut(s)'
  <2>1. s \in 1 .. n /\ s # seg /\ LaidOut(s)
    BY <1>3, <1>13 DEF Linked
  <2>2. ASSUME NEW v \in UnitsOf(s) PROVE MappedTo(s, v)' /\ image'[v - KERNEL_VMA] = FromFile(s, v)
    <3>1. MappedTo(s, v) /\ image[v - KERNEL_VMA] = FromFile(s, v)
      BY <2>1 DEF LaidOut
    <3>2. /\ image'[v - KERNEL_VMA] = FromFile(s, v)
          /\ v \div PAGE_SIZE \in DOMAIN ktree'
          /\ ktree'[v \div PAGE_SIZE] = ktree[v \div PAGE_SIZE]
      BY <1>12, <2>1, <3>1 DEF MappedTo
    <3> QED BY <1>1, <3>1, <3>2 DEF MappedTo
  <2> QED BY <1>1, <2>2 DEF LaidOut, UnitsOf, FromFile
<1>14. ASSUME NEW s \in seg + 1 .. n PROVE Blank(s)'
  <2>1. s \in 1 .. n /\ s # seg /\ s \in seg .. n
    BY <1>3, <1>14
  <2>2. Blank(s)
    BY <1>2, <2>1 DEF Linked
  <2>3. ASSUME NEW v \in UnitsOf(s) PROVE image'[v - KERNEL_VMA] = <<0, 0>>
    BY <1>12, <2>1, <2>2 DEF Blank
  <2> QED BY <1>1, <2>3 DEF Blank, UnitsOf
<1>15. ASSUME NEW s \in 1 .. n, s = seg PROVE LaidOut(s)'
  <2>1. Blank(s) /\ p = Segs[s]
    BY <1>2, <1>3, <1>15 DEF Linked
  <2>2. ASSUME NEW v \in UnitsOf(s) PROVE MappedTo(s, v)' /\ image'[v - KERNEL_VMA] = FromFile(s, v)
    <3>1. v \in Nat /\ v - KERNEL_VMA \in DOMAIN image /\ v \div PAGE_SIZE \in SegmentPage(p)
      BY <1>7, <2>1
    <3>2. v \in p.vaddr .. p.vaddr + p.memsz - 1 /\ image[v - KERNEL_VMA] = <<0, 0>>
      BY <2>1 DEF UnitsOf, Blank
    <3>3. image'[v - KERNEL_VMA] = FromFile(s, v)
      <4>1. PICK a \in Nat, f \in Nat : a = p.vaddr /\ f = p.filesz
        BY <1>8
      <4>2. v >= a /\ v - KERNEL_VMA - from = v - a
            /\ (v - KERNEL_VMA \in from .. from + p.filesz - 1 <=> v - a < f)
        <5>1. v >= a /\ v \in Nat /\ from = a - KERNEL_VMA
          BY <3>1, <3>2, <4>1
        <5>2. /\ v - KERNEL_VMA - (a - KERNEL_VMA) = v - a
              /\ v - KERNEL_VMA \in (a - KERNEL_VMA) .. (a - KERNEL_VMA) + f - 1 <=> v - a < f
          BY <1>4, <5>1
        <5> QED BY <4>1, <5>1, <5>2
      <4> QED BY <1>9, <1>15, <2>1, <3>1, <3>2, <4>1, <4>2 DEF FromFile
    <3>4. MappedTo(s, v)'
      <4>1. PICK q \in Int : q = v \div PAGE_SIZE
        <5>1. v \in Nat
          BY <3>1
        <5>2. v \div PAGE_SIZE \in Nat
          BY <5>1, PagesNat, Quotient
        <5> QED BY <5>2
      <4>2. q \in DOMAIN ktree' /\ ktree'[q] = SegRights(p, d + q)
        BY <1>11, <3>1, <4>1
      <4>3. (p.write /\ ~p.exec) = p.write
        <5>1. p.write \in BOOLEAN /\ p.exec \in BOOLEAN
          BY <1>8 DEF Header
        <5> QED BY <5>1 DEF seg_is_wx
      <4>4. PICK w \in Nat, k \in Nat : w = place["kernel"] /\ k = KERNEL_VMA \div PAGE_SIZE
        BY <1>4, PagesNat, Quotient
      <4>5. d + q = w + (q - k)
        <5>1. d = w - k
          BY <1>10, <4>4
        <5> QED BY <5>1, <4>1, <4>4, Regrouped
      <4>6. ktree'[q] = [page |-> w + (q - k), write |-> p.write, exec |-> p.exec]
        BY <4>2, <4>3, <4>5 DEF SegRights
      <4>7. place' = place /\ Segs'[s] = p
        BY <1>1, <2>1
      <4> QED BY <4>1, <4>2, <4>4, <4>6, <4>7 DEF MappedTo
    <3> QED BY <3>3, <3>4
  <2> QED BY <1>1, <2>2 DEF LaidOut, UnitsOf, FromFile
<1>16. seg' \in 1 .. n + 1 /\ DOMAIN image' = DOMAIN image
  BY <1>3, <1>9
<1>17. ASSUME NEW s \in 1 .. seg' - 1 PROVE LaidOut(s)'
  <2>1. s \in 1 .. seg - 1 \/ (s \in 1 .. n /\ s = seg)
    BY <1>3, <1>17
  <2> QED BY <1>13, <1>15, <2>1
<1> QED BY <1>1, <1>2, <1>3, <1>14, <1>16, <1>17 DEF Linked

(* The step that places a segment. *)
LEMMA SegmentKeepsKernel == KernelInv /\ PlaceSegment => KernelInv'
<1> SUFFICES ASSUME KernelInv, PlaceSegment PROVE KernelInv'
  OBVIOUS
<1>1. CASE \E reason : Stop(reason)
  BY <1>1, StopKeepsKernel
<1>2. CASE \E p \in {Segs[seg]} :
             /\ ~seg_is_wx(p) /\ stage = "segments" /\ stage' = "segments" /\ seg <= Len(Segs)
             /\ image' = Copied(p, seg, p.vaddr - Span.base)
             /\ ktree' = MappedSegment(p, p.vaddr - Span.base)
             /\ seg' = seg + 1
             /\ UNCHANGED <<machine, place>>
  <2>1. /\ machine \in Machines /\ Linked /\ place["kernel"] \in Nat
    BY <1>2 DEF KernelInv, Place
  <2>2. Linked'
    BY <1>2, <2>1, SegmentIsLaidOut
  <2>3. stage' = "segments"
    BY <1>2
  <2>4. stage' \in Stage /\ stage' \notin Complete \cup Unparsed \cup {"tables"}
    BY <2>3 DEF Stage, BeforeExit, Complete, Unparsed
  <2>5. machine' \in Machines /\ place' \in [Place -> Nat]
    BY <1>2 DEF KernelInv
  <2> QED BY <2>2, <2>4, <2>5 DEF KernelInv
<1> QED BY <1>1, <1>2, Zenon DEF PlaceSegment, PlaceAt, TakeTable, Goto, Segs

(* The steps around it: tables are taken, and the loader goes on when      *)
(* every segment is placed.                                                *)
LEMMA TablesKeepKernel == KernelInv /\ (NewTables \/ AllPlaced \/ BuildMaps \/ ReadProbe) => KernelInv'
<1> SUFFICES ASSUME KernelInv, NewTables \/ AllPlaced \/ BuildMaps \/ ReadProbe PROVE KernelInv'
  OBVIOUS
<1>1. CASE \E reason : Stop(reason)
  BY <1>1, StopKeepsKernel
<1>2. CASE /\ UNCHANGED <<machine, seg, image, ktree, place>>
           /\ \/ stage = "tables" /\ stage' = "segments"
              \/ stage = "maps" /\ stage' = "info"
              \/ stage = "probe read" /\ stage' = "maps"
              \/ stage = "segments" /\ stage' = "probe" /\ seg > Len(Segs)
  <2>1. place' \in [Place -> Nat] /\ place'["kernel"] = place["kernel"]
    BY <1>2 DEF KernelInv
  <2>2. stage' \in Stage
    BY <1>2 DEF Stage, BeforeExit
  <2>3. \/ stage = "tables" /\ stage' = "segments"
        \/ stage \in Complete /\ stage' \in Complete
        \/ stage = "segments" /\ seg > Len(Segs) /\ stage' \in Complete
    BY <1>2 DEF Complete
  <2>4. stage = "segments" /\ seg > Len(Segs) => seg = Len(Segs) + 1
    <3>1. ASSUME stage = "segments" PROVE seg \in 1 .. Len(Segs) + 1 /\ Len(Segs) \in Nat
      BY <3>1, SegsAre DEF KernelInv, Linked
    <3> QED BY <3>1
  <2> QED BY <1>2, <2>1, <2>2, <2>3, <2>4, ElsewhereKeepsKernel
<1> QED BY <1>1, <1>2, Zenon
    DEF NewTables, AllPlaced, BuildMaps, ReadProbe, TakeTable, Goto, TreeVars, Segs

(* Every other allocation is somewhere else. *)
LEMMA OthersKeepKernel ==
  KernelInv /\ (ReadKernel \/ ReadInitrd \/ SizeProbe \/ AllocInfo \/ SizeMap \/ AllocRegions) => KernelInv'
<1> SUFFICES ASSUME KernelInv, ReadKernel \/ ReadInitrd \/ SizeProbe \/ AllocInfo \/ SizeMap \/ AllocRegions
             PROVE  KernelInv'
  OBVIOUS
<1>1. CASE \E reason : Stop(reason)
  BY <1>1, StopKeepsKernel
<1>2. CASE stage = "initrd" /\ stage' = "parse" /\ UNCHANGED <<machine, seg, image, ktree, place>>
  <2>1. place' \in [Place -> Nat] /\ place'["kernel"] = place["kernel"]
    BY <1>2 DEF KernelInv
  <2> QED BY <1>2, <2>1, ElsewhereKeepsKernel DEF Stage, BeforeExit, Unparsed
<1>3. CASE /\ UNCHANGED <<machine, seg, image, ktree>>
           /\ \E what \in Place \ {"kernel"} : \E n : \E p \in alloc_pages(n) : place' = [place EXCEPT ![what] = p]
           /\ \/ stage = "kernel file" /\ stage' = "initrd"
              \/ stage = "initrd" /\ stage' = "parse"
              \/ stage = "probe" /\ stage' = "probe read"
              \/ stage = "info" /\ stage' = "size"
              \/ stage = "size" /\ stage' = "array"
              \/ stage = "array" /\ stage' = "take"
  <2>1. PICK what \in Place \ {"kernel"} : \E n : \E p \in alloc_pages(n) : place' = [place EXCEPT ![what] = p]
    BY <1>3
  <2>2. PICK n, p : p \in alloc_pages(n) /\ place' = [place EXCEPT ![what] = p]
    BY <2>1
  <2>3. p \in Nat
    BY <2>2, AllocatedFree
  <2>4. place' \in [Place -> Nat] /\ place'["kernel"] = place["kernel"]
    BY <2>1, <2>2, <2>3 DEF KernelInv, Place
  <2>5. stage' \in Stage
    BY <1>3 DEF Stage, BeforeExit
  <2>6. (stage \in Unparsed /\ stage' \in Unparsed) \/ (stage \in Complete /\ stage' \in Complete)
    BY <1>3 DEF Unparsed, Complete
  <2> QED BY <1>3, <2>4, <2>5, <2>6, ElsewhereKeepsKernel
<1>4. {"file", "initrd", "probe", "info", "map", "regions"} \subseteq Place \ {"kernel"}
  BY DEF Place
<1> QED BY <1>1, <1>2, <1>3, <1>4, Zenon
    DEF ReadKernel, ReadInitrd, SizeProbe, AllocInfo, SizeMap, AllocRegions, ReadFile, AllocPlace, Goto, TreeVars

(* Before the first allocation, and from the map that counts on. *)
LEMMA RestKeepsKernel ==
  KernelInv /\ (Survey \/ OpenVolume \/ TakeMap \/ ExitBootServices \/ HandOff \/ MemInit \/ Discover \/ FirmwareActs)
    => KernelInv'
<1> SUFFICES ASSUME KernelInv, \/ Survey \/ OpenVolume \/ TakeMap \/ ExitBootServices
                               \/ HandOff \/ MemInit \/ Discover \/ FirmwareActs
             PROVE  KernelInv'
  OBVIOUS
<1>1. CASE \E reason : Stop(reason)
  BY <1>1, StopKeepsKernel
<1>2. CASE /\ UNCHANGED <<machine, seg, image, ktree, place>>
           /\ \/ stage = "start" /\ stage' = "volume"
              \/ stage = "volume" /\ stage' = "kernel file"
              \/ stage = "take" /\ stage' = "exit"
              \/ stage = "exit" /\ stage' = "handoff"
              \/ stage = "exit" /\ stage' = "take"
              \/ stage = "handoff" /\ stage' = "kernel"
              \/ stage = "kernel" /\ stage' = "halted"
              \/ stage = "kernel" /\ stage' = "memory"
              \/ stage = "memory" /\ stage' = "ready"
              \/ stage' = stage
  <2>1. place' \in [Place -> Nat] /\ place'["kernel"] = place["kernel"] /\ stage \in Stage
    BY <1>2 DEF KernelInv
  <2>2. stage' \in Stage
    BY <1>2, <2>1 DEF Stage, BeforeExit, Over
  <2>3. \/ stage' = stage
        \/ stage \in Unparsed /\ stage' \in Unparsed
        \/ stage \in Complete /\ stage' \in Complete
    BY <1>2 DEF Unparsed, Complete
  <2> QED BY <1>2, <2>1, <2>2, <2>3, ElsewhereKeepsKernel
<1>3. CASE Survey \/ OpenVolume \/ TakeMap
  BY <1>1, <1>2, <1>3, Zenon DEF Survey, OpenVolume, TakeMap, Goto, TreeVars
<1>4. CASE ExitBootServices \/ HandOff
  BY <1>1, <1>2, <1>4, Zenon DEF ExitBootServices, LeaveFirmware, ReadAgain, HandOff, Goto, TreeVars
<1>5. CASE MemInit \/ Discover
  BY <1>2, <1>5, Zenon DEF MemInit, Settle, Discover, KernelStep, TreeVars
<1>6. CASE FirmwareActs
  BY <1>2, <1>6, Zenon DEF FirmwareActs, TreeVars
<1> QED BY <1>3, <1>4, <1>5, <1>6

(* Every step keeps KernelInv. *)
LEMMA KernelInductive == KernelInv /\ [Next]_vars => KernelInv'
<1> SUFFICES ASSUME KernelInv, [Next]_vars PROVE KernelInv'
  OBVIOUS
<1>1. CASE UNCHANGED vars
  <2>1. UNCHANGED <<machine, seg, image, ktree, place, stage>>
    BY <1>1 DEF vars
  <2>2. place' \in [Place -> Nat] /\ stage' \in Stage
    BY <2>1 DEF KernelInv
  <2> QED BY <2>1, <2>2, ElsewhereKeepsKernel
<1>2. CASE Loader
  BY <1>2, ParseKeepsKernel, SegmentKeepsKernel, TablesKeepKernel, OthersKeepKernel, RestKeepsKernel, Zenon
     DEF Loader
<1>3. CASE MemInit \/ Discover \/ FirmwareActs
  BY <1>3, RestKeepsKernel
<1> QED BY <1>1, <1>2, <1>3 DEF Next

(* It holds to begin with. *)
LEMMA KernelInitially == Init => KernelInv
<1> SUFFICES ASSUME Init PROVE KernelInv
  OBVIOUS
<1>1. machine \in Machines /\ seg = 1 /\ stage = "start" /\ place \in [Place -> Nat]
  BY DEF Init
<1> QED BY <1>1 DEF KernelInv, Stage, BeforeExit, Complete

(***************************************************************************)
(* The kernel is entered as it was linked: every unit of every segment is  *)
(* mapped, with the rights the segment asked for, to a page of the block   *)
(* allocated for it that holds the file's byte or the zero after it        *)
(* (boot.rs's load_kernel, paging.rs, elf64).                              *)
(***************************************************************************)
THEOREM KernelIsEnteredAsLinked == Spec => []EnteredAsLinked
<1>1. KernelInv => EnteredAsLinked
  <2> SUFFICES ASSUME KernelInv, Entered PROVE \A s \in DOMAIN segments(elf) : SegmentInPlace(s)
    BY DEF EnteredAsLinked
  <2>1. stage \in Complete
    BY DEF Entered, Complete
  <2> QED BY <2>1, LaidOutInPlace DEF Segs
<1> QED BY <1>1, KernelInitially, KernelInductive, PTL DEF Spec

-----------------------------------------------------------------------------
(* Folds in general: a function f on a set A is folded over the positions  *)
(* 1 .. n.                                                                 *)

Folds(h, f, base, n) ==
  h = [S \in SUBSET (1 .. n) |-> IF S = {} THEN base ELSE f[<<h[S \ {Max(S)}], Max(S)>>]]

(* What is folded exists, and stays in A. *)
LEMMA FoldExists ==
  ASSUME NEW A, NEW base \in A, NEW n \in Nat, NEW f \in [A \X (1 .. n) -> A]
  PROVE  \E h \in [SUBSET (1 .. n) -> A] : Folds(h, f, base, n)
<1> DEFINE Good == {k \in 0 .. n : \E h \in [SUBSET (1 .. k) -> A] : Folds(h, f, base, k)}
<1>1. 0 \in Good
  <2> DEFINE h == [S \in SUBSET (1 .. 0) |-> base]
  <2>1. SUBSET (1 .. 0) = {{}}
    OBVIOUS
  <2>2. h \in [SUBSET (1 .. 0) -> A] /\ Folds(h, f, base, 0)
    BY <2>1 DEF Folds
  <2> QED BY <2>2
<1>2. ASSUME NEW k \in 0 .. n, k # n, k \in Good PROVE k + 1 \in Good
  <2>1. PICK h \in [SUBSET (1 .. k) -> A] : Folds(h, f, base, k)
    BY <1>2
  <2> DEFINE g == [S \in SUBSET (1 .. k + 1) |->
                     IF k + 1 \in S THEN f[<<h[S \ {k + 1}], k + 1>>] ELSE h[S]]
  <2>2. ASSUME NEW S \in SUBSET (1 .. k + 1)
        PROVE  /\ g[S] = IF S = {} THEN base ELSE f[<<g[S \ {Max(S)}], Max(S)>>]
               /\ g[S] \in A
    <3>1. CASE k + 1 \in S
      <4>1. k + 1 \in Nat /\ k + 1 \in 1 .. n
        BY <1>2
      <4>2. Max(S) \in S /\ k + 1 <= Max(S)
        BY <3>1, <4>1, MaxUpTo
      <4>3. Max(S) \in 1 .. k + 1
        BY <4>2
      <4>4. Max(S) = k + 1
        BY <4>2, <4>3
      <4>5. S \ {k + 1} \in SUBSET (1 .. k + 1) /\ k + 1 \notin S \ {k + 1} /\ S \ {k + 1} \in SUBSET (1 .. k)
        OBVIOUS
      <4>6. g[S \ {k + 1}] = h[S \ {k + 1}] /\ h[S \ {k + 1}] \in A
        BY <4>5
      <4> QED BY <3>1, <4>1, <4>4, <4>6
    <3>2. CASE k + 1 \notin S /\ S # {}
      <4>1. S \in SUBSET (1 .. k)
        BY <3>2
      <4>2. S \ {Max(S)} \in SUBSET (1 .. k + 1) /\ k + 1 \notin S \ {Max(S)}
        BY <3>2
      <4>3. g[S \ {Max(S)}] = h[S \ {Max(S)}]
        BY <4>2
      <4>4. h[S] = f[<<h[S \ {Max(S)}], Max(S)>>]
        BY <2>1, <3>2, <4>1 DEF Folds
      <4>5. g[S] = h[S] /\ h[S] \in A
        BY <3>2, <4>1
      <4> QED BY <3>2, <4>3, <4>4, <4>5
    <3>3. CASE S = {}
      <4>1. h[S] = base
        BY <2>1, <3>3 DEF Folds
      <4> QED BY <3>3, <4>1
    <3> QED BY <3>1, <3>2, <3>3
  <2>3. g \in [SUBSET (1 .. k + 1) -> A] /\ Folds(g, f, base, k + 1)
    BY <2>2 DEF Folds
  <2> HIDE DEF g
  <2>4. \E h1 \in [SUBSET (1 .. k + 1) -> A] : Folds(h1, f, base, k + 1)
    BY <2>3
  <2> QED BY <2>4, <1>2
<1> HIDE DEF Good
<1>3. n \in Good
  BY <1>1, <1>2, UpToBound
<1> QED BY <1>3 DEF Good

(* The sets 1 .. k, from the first on. *)
LEMMA UpToSets ==
  ASSUME NEW n \in Nat, NEW k \in 1 .. n
  PROVE  /\ 1 .. k \in SUBSET (1 .. n) /\ 1 .. k # {} /\ Max(1 .. k) = k
         /\ (1 .. k) \ {k} = 1 .. k - 1 /\ 1 .. k - 1 \in SUBSET (1 .. n)
<1>1. 1 .. k \in SUBSET (1 .. n) /\ k \in 1 .. k /\ 1 .. k # {}
  OBVIOUS
<1>2. Max(1 .. k) \in 1 .. k /\ k <= Max(1 .. k)
  BY <1>1, MaxUpTo
<1>3. Max(1 .. k) = k
  BY <1>2
<1>4. (1 .. k) \ {k} = 1 .. k - 1
  OBVIOUS
<1> QED BY <1>1, <1>3, <1>4

(* Filling the runs, region by region. *)
Regions(R, n) == n \in Nat /\ R \in Seq(Reg) /\ Len(R) = n
Filling(N) == [out : [1 .. N -> Int \X Int], live : Nat, n : Nat]
(* Filled is a fold: its runs after each region. *)
LEMMA FillSteps ==
  ASSUME NEW n, NEW R, Regions(R, n), NEW N \in Nat
  PROVE  \E T : /\ T[0] = NoRuns(N)
                /\ \A k \in 1 .. n : T[k] = FillRun(T[k - 1], R[k])
                /\ FoldLeft(FillRun, NoRuns(N), R) = T[n]
<1> DEFINE f == [x \in Filling(N) \X (1 .. n) |-> FillRun(x[1], R[x[2]])]
<1> DEFINE Eq(h) == h = [S \in SUBSET (1 .. n) |->
                           IF S = {} THEN NoRuns(N) ELSE FillRun(h[S \ {Max(S)}], R[Max(S)])]
<1>1. n \in Nat /\ DOMAIN R = 1 .. n /\ R \in [1 .. n -> Reg]
  BY DEF Regions
<1>2. NoRuns(N) \in Filling(N)
  BY DEF NoRuns, Filling
<1>3. ASSUME NEW a \in Filling(N), NEW k \in 1 .. n PROVE FillRun(a, R[k]) \in Filling(N)
  <2>1. R[k] \in Reg
    BY <1>1
  <2>2. Bounds(R[k]) \in Int \X Int
    BY <2>1, PagesNat DEF Bounds, end, saturating, Reg
  <2>3. PICK o \in [1 .. N -> Int \X Int], l \in Nat, m \in Nat : a = [out |-> o, live |-> l, n |-> m]
    BY DEF Filling
  <2>4. [o EXCEPT ![m + 1] = Bounds(R[k])] \in [1 .. N -> Int \X Int]
    BY <2>2, <2>3
  <2>5. \E x \in [1 .. N -> Int \X Int] : FillRun(a, R[k]) \in {a, [out |-> x, live |-> l, n |-> m + 1]}
    BY <2>3, <2>4 DEF FillRun
  <2> QED BY <2>3, <2>5 DEF Filling
<1>4. f \in [Filling(N) \X (1 .. n) -> Filling(N)]
  BY <1>3
<1>5. PICK h \in [SUBSET (1 .. n) -> Filling(N)] : Folds(h, f, NoRuns(N), n)
  BY <1>1, <1>2, <1>4, FoldExists
<1>6. Eq(h)
  <2>1. ASSUME NEW S \in SUBSET (1 .. n), S # {} PROVE f[<<h[S \ {Max(S)}], Max(S)>>] = FillRun(h[S \ {Max(S)}], R[Max(S)])
    <3>1. Max(S) \in 1 .. n /\ S \ {Max(S)} \in SUBSET (1 .. n)
      BY <1>1, <2>1, MaxUpTo
    <3> QED BY <3>1
  <2> QED BY <1>5, <2>1 DEF Folds
<1> DEFINE H == CHOOSE g : Eq(g)
<1> HIDE DEF f
<1>7. Eq(H)
  BY <1>6, Zenon
<1>8. FoldLeft(FillRun, NoRuns(N), R) = H[1 .. n]
  BY <1>1, Zenon DEF FoldLeft, MapThenFoldSet
<1> HIDE DEF H
<1> DEFINE T == [k \in 0 .. n |-> H[1 .. k]]
<1>9. T[0] = NoRuns(N) /\ T[n] = H[1 .. n]
  <2>1. 1 .. 0 = {} /\ {} \in SUBSET (1 .. n) /\ 0 \in 0 .. n /\ n \in 0 .. n
    BY <1>1
  <2> QED BY <1>7, <2>1
<1>10. ASSUME NEW k \in 1 .. n PROVE T[k] = FillRun(T[k - 1], R[k])
  <2>1. /\ 1 .. k \in SUBSET (1 .. n) /\ 1 .. k # {} /\ Max(1 .. k) = k
        /\ (1 .. k) \ {k} = 1 .. k - 1 /\ k \in 0 .. n /\ k - 1 \in 0 .. n
    BY <1>1, UpToSets
  <2> QED BY <1>7, <2>1
<1> HIDE DEF T
<1> QED BY <1>8, <1>9, <1>10

(* What usable regions add up to. *)
LEMMA UsableSteps ==
  ASSUME NEW n, NEW R, Regions(R, n)
  PROVE  \E T : /\ T[0] = 0
                /\ \A k \in 1 .. n : T[k] = AddUsable(T[k - 1], R[k])
                /\ FoldLeft(AddUsable, 0, R) = T[n]
<1> DEFINE f == [x \in Nat \X (1 .. n) |-> AddUsable(x[1], R[x[2]])]
<1> DEFINE Eq(h) == h = [S \in SUBSET (1 .. n) |->
                           IF S = {} THEN 0 ELSE AddUsable(h[S \ {Max(S)}], R[Max(S)])]
<1>1. n \in Nat /\ DOMAIN R = 1 .. n /\ R \in [1 .. n -> Reg]
  BY DEF Regions
<1>3. ASSUME NEW a \in Nat, NEW k \in 1 .. n PROVE AddUsable(a, R[k]) \in Nat
  <2>1. R[k] \in Reg
    BY <1>1
  <2> QED BY <2>1, PagesNat DEF AddUsable, AddLen, saturating, Reg
<1>4. f \in [Nat \X (1 .. n) -> Nat]
  BY <1>3
<1>5. PICK h \in [SUBSET (1 .. n) -> Nat] : Folds(h, f, 0, n)
  BY <1>1, <1>4, FoldExists
<1>6. Eq(h)
  <2>1. ASSUME NEW S \in SUBSET (1 .. n), S # {}
        PROVE  f[<<h[S \ {Max(S)}], Max(S)>>] = AddUsable(h[S \ {Max(S)}], R[Max(S)])
    <3>1. Max(S) \in 1 .. n /\ S \ {Max(S)} \in SUBSET (1 .. n)
      BY <1>1, <2>1, MaxUpTo
    <3> QED BY <3>1
  <2> QED BY <1>5, <2>1 DEF Folds
<1> DEFINE H == CHOOSE g : Eq(g)
<1> HIDE DEF f
<1>7. Eq(H)
  BY <1>6, Zenon
<1>8. FoldLeft(AddUsable, 0, R) = H[1 .. n]
  BY <1>1, Zenon DEF FoldLeft, MapThenFoldSet
<1> HIDE DEF H
<1> DEFINE T == [k \in 0 .. n |-> H[1 .. k]]
<1>9. T[0] = 0 /\ T[n] = H[1 .. n]
  <2>1. 1 .. 0 = {} /\ {} \in SUBSET (1 .. n) /\ 0 \in 0 .. n /\ n \in 0 .. n
    BY <1>1
  <2> QED BY <1>7, <2>1
<1>10. ASSUME NEW k \in 1 .. n PROVE T[k] = AddUsable(T[k - 1], R[k])
  <2>1. /\ 1 .. k \in SUBSET (1 .. n) /\ 1 .. k # {} /\ Max(1 .. k) = k
        /\ (1 .. k) \ {k} = 1 .. k - 1 /\ k \in 0 .. n /\ k - 1 \in 0 .. n
    BY <1>1, UpToSets
  <2> QED BY <1>7, <2>1
<1> HIDE DEF T
<1> QED BY <1>8, <1>9, <1>10

(* Keeping the runs that are left. *)
Keeping(N) == [out : [1 .. N -> Int \X Int], kept : Nat]
(* Compacted is a fold: the runs kept after each piece. *)
LEMMA KeepSteps ==
  ASSUME NEW N \in Nat, NEW c \in Filling(N), c.live <= N
  PROVE  \E T : /\ T[0] = [out |-> c.out, kept |-> 0]
                /\ \A k \in 1 .. c.live : T[k] = Keep(T[k - 1], k)
                /\ Compacted(c) = T[c.live]
<1> DEFINE n == c.live
<1> DEFINE base == [out |-> c.out, kept |-> 0]
<1> DEFINE R == [i \in 1 .. c.live |-> i]
<1> DEFINE f == [x \in Keeping(N) \X (1 .. n) |-> Keep(x[1], x[2])]
<1> DEFINE Eq(h) == h = [S \in SUBSET (1 .. n) |->
                           IF S = {} THEN base ELSE Keep(h[S \ {Max(S)}], R[Max(S)])]
<1>1. n \in Nat /\ DOMAIN R = 1 .. n /\ \A i \in 1 .. n : R[i] = i /\ i \in 1 .. N
  BY DEF Filling
<1>2. base \in Keeping(N)
  BY DEF Filling, Keeping
<1>3. ASSUME NEW a \in Keeping(N), NEW k \in 1 .. n PROVE Keep(a, k) \in Keeping(N)
  <2>1. PICK o \in [1 .. N -> Int \X Int], m \in Nat : a = [out |-> o, kept |-> m]
    BY DEF Keeping
  <2>2. PICK v : v = <<o[k][1], Length(o[k])>>
    OBVIOUS
  <2>3. v \in Int \X Int
    BY <1>1, <2>1, <2>2 DEF Length
  <2>4. [o EXCEPT ![m + 1] = v] \in [1 .. N -> Int \X Int]
    BY <2>1, <2>3
  <2>5. \E x \in [1 .. N -> Int \X Int] : Keep(a, k) \in {a, [out |-> x, kept |-> m + 1]}
    BY <2>1, <2>2, <2>4 DEF Keep
  <2> QED BY <2>1, <2>5 DEF Keeping
<1>4. f \in [Keeping(N) \X (1 .. n) -> Keeping(N)]
  BY <1>3
<1>5. PICK h \in [SUBSET (1 .. n) -> Keeping(N)] : Folds(h, f, base, n)
  <2> HIDE DEF base, f, n
  <2> QED BY <1>1, <1>2, <1>4, FoldExists
<1>6. Eq(h)
  <2>1. ASSUME NEW S \in SUBSET (1 .. n), S # {}
        PROVE  f[<<h[S \ {Max(S)}], Max(S)>>] = Keep(h[S \ {Max(S)}], R[Max(S)])
    <3>1. Max(S) \in 1 .. n /\ S \ {Max(S)} \in SUBSET (1 .. n)
      BY <1>1, <2>1, MaxUpTo
    <3>2. R[Max(S)] = Max(S)
      BY <1>1, <3>1
    <3>3. h[S \ {Max(S)}] \in Keeping(N)
      BY <3>1, <1>5
    <3> HIDE DEF R
    <3> QED BY <3>1, <3>2, <3>3
  <2> HIDE DEF base, f, n, R
  <2> QED BY <1>5, <2>1 DEF Folds
<1> DEFINE H == CHOOSE g : Eq(g)
<1> HIDE DEF f
<1>7. Eq(H)
  BY <1>6, Zenon
<1>8. Compacted(c) = H[1 .. n]
  BY <1>1, Zenon DEF Compacted, FoldLeft, MapThenFoldSet
<1> HIDE DEF H
<1> DEFINE T == [k \in 0 .. n |-> H[1 .. k]]
<1>9. T[0] = base /\ T[n] = H[1 .. n]
  <2>1. 1 .. 0 = {} /\ {} \in SUBSET (1 .. n) /\ 0 \in 0 .. n /\ n \in 0 .. n
    BY <1>1
  <2> HIDE DEF base, n
  <2> QED BY <1>7, <2>1
<1>10. ASSUME NEW k \in 1 .. n PROVE T[k] = Keep(T[k - 1], k)
  <2>1. /\ 1 .. k \in SUBSET (1 .. n) /\ 1 .. k # {} /\ Max(1 .. k) = k
        /\ (1 .. k) \ {k} = 1 .. k - 1 /\ k \in 0 .. n /\ k - 1 \in 0 .. n
    BY <1>1, UpToSets
  <2>2. R[k] = k
    OBVIOUS
  <2> HIDE DEF base, n, R
  <2> QED BY <1>7, <2>1, <2>2
<1> HIDE DEF T
<1> QED BY <1>8, <1>9, <1>10

(***************************************************************************)
(* A run is carved: it is not met, or is empty, and nothing changes; what  *)
(* is cut off at an end is lost; or both ends are left, and the second     *)
(* goes behind the others if there is room.                                *)
(***************************************************************************)
Orderly(a, N) == a.live <= N /\ \A j \in 1 .. N : a.out[j][1] <= a.out[j][2]
Inside(p, from, to) == p[1] < from /\ to < p[2]
Missed(p, from, to) == to <= p[1] \/ from >= p[2] \/ p[1] = p[2]
Trimmed(p, from, to) ==
  IF p[1] < from THEN <<p[1], from>> ELSE IF to < p[2] THEN <<to, p[2]>> ELSE <<p[1], p[1]>>

CarvedAs(N, a, i, from, to, p, r) ==
  \/ Missed(p, from, to) /\ r = a
  \/ ~Missed(p, from, to) /\ ~Inside(p, from, to) /\ r = [a EXCEPT !.out[i] = Trimmed(p, from, to)]
  \/ /\ ~Missed(p, from, to) /\ Inside(p, from, to) /\ a.live < N
     /\ r = [a EXCEPT !.out[i] = <<p[1], from>>, !.out[a.live + 1] = <<to, p[2]>>, !.live = @ + 1]
  \/ /\ ~Missed(p, from, to) /\ Inside(p, from, to) /\ a.live = N
     /\ \E q \in {<<p[1], from>>, <<to, p[2]>>} : r = [a EXCEPT !.out[i] = q]

(* What carving a piece makes of it, case by case. *)
LEMMA CarveRunIs ==
  ASSUME NEW N \in Nat, NEW a \in Filling(N), Orderly(a, N), NEW i \in 1 .. N,
         NEW from \in Int, NEW to \in Int, from < to,
         NEW p, p = a.out[i], NEW r, r = CarveRun(a, i, from, to)
  PROVE  CarvedAs(N, a, i, from, to, p, r)
<1> USE DEF CarvedAs
<1>1. PICK o \in [1 .. N -> Int \X Int], l \in Nat, m \in Nat : a = [out |-> o, live |-> l, n |-> m] /\ l <= N
  BY DEF Filling, Orderly
<1>2. Len(o) = N /\ a.out = o /\ a.live = l
  BY <1>1
<1>3. PICK s \in Int, e \in Int : o[i] = <<s, e>>
  BY <1>1
<1>4. s <= e /\ p = <<s, e>> /\ p[1] = s /\ p[2] = e
  BY <1>2, <1>3 DEF Orderly
<1>5. PICK L : L = Least(Greatest(from, s), e)
  OBVIOUS
<1>6. PICK R : R = Greatest(Least(to, e), s)
  OBVIOUS
<1>7. r = IF to <= s \/ from >= e THEN a ELSE Split(a, i, <<s, L>>, <<R, e>>)
  BY <1>2, <1>4, <1>5, <1>6, Zenon DEF CarveRun
<1>8. CASE to <= s \/ from >= e
  BY <1>4, <1>7, <1>8 DEF Missed
<1>9. CASE s < to /\ from < e
  <2>1. L = (IF from < s THEN s ELSE from) /\ L \in Int
    BY <1>4, <1>5, <1>9 DEF Least, Greatest
  <2>2. R = (IF to < e THEN to ELSE e) /\ R \in Int
    BY <1>4, <1>6, <1>9 DEF Least, Greatest
  <2>3. r = Split(a, i, <<s, L>>, <<R, e>>)
    BY <1>7, <1>9
  <2>4. /\ Length(<<s, L>>) = L - s /\ Length(<<R, e>>) = e - R
        /\ (L - s > 0 <=> s < from) /\ (e - R > 0 <=> to < e)
        /\ (L - s = 0 <=> ~(s < from)) /\ (e - R = 0 <=> ~(to < e))
    BY <2>1, <2>2, <1>4, <1>9 DEF Length
  <2>5. r = CASE s < from /\ to < e /\ l < N ->
                   [a EXCEPT !.out[i] = <<s, L>>, !.out[l + 1] = <<R, e>>, !.live = @ + 1]
              [] s < from /\ to < e /\ l = N ->
                   [a EXCEPT !.out[i] = IF Length(<<s, L>>) >= Length(<<R, e>>) THEN <<s, L>> ELSE <<R, e>>]
              [] s < from /\ ~(to < e) -> [a EXCEPT !.out[i] = <<s, L>>]
              [] ~(s < from) /\ to < e -> [a EXCEPT !.out[i] = <<R, e>>]
              [] OTHER -> [a EXCEPT !.out[i] = <<@[1], @[1]>>]
    BY <1>2, <2>3, <2>4, Zenon DEF Split
  <2>6. CASE s < from /\ to < e /\ l < N
    <3>1. L = from /\ R = to
      BY <2>1, <2>2, <2>6
    <3>2. r = [a EXCEPT !.out[i] = <<s, from>>, !.out[l + 1] = <<to, e>>, !.live = @ + 1]
      BY <2>5, <2>6, <3>1
    <3>3. ~Missed(p, from, to) /\ Inside(p, from, to)
      BY <1>4, <1>9, <2>6 DEF Missed, Inside
    <3> QED BY <3>2, <3>3, <1>2, <1>4, <2>6
  <2>7. CASE s < from /\ to < e /\ l = N
    <3>1. L = from /\ R = to
      BY <2>1, <2>2, <2>7
    <3>2. \E q \in {<<s, from>>, <<to, e>>} : r = [a EXCEPT !.out[i] = q]
      <4>1. PICK q : q = IF Length(<<s, L>>) >= Length(<<R, e>>) THEN <<s, L>> ELSE <<R, e>>
        OBVIOUS
      <4>2. q \in {<<s, from>>, <<to, e>>}
        BY <4>1, <3>1
      <4>3. r = [a EXCEPT !.out[i] = q]
        BY <2>5, <2>7, <4>1, <1>1
      <4> QED BY <4>2, <4>3
    <3>3. ~Missed(p, from, to) /\ Inside(p, from, to)
      BY <1>4, <1>9, <2>7 DEF Missed, Inside
    <3> QED BY <3>2, <3>3, <1>2, <1>4, <2>7
  <2>8. CASE s < from /\ ~(to < e)
    <3>1. L = from
      BY <2>1, <2>8
    <3>2. r = [a EXCEPT !.out[i] = <<s, from>>]
      BY <2>5, <2>8, <3>1
    <3>3. ~Missed(p, from, to) /\ ~Inside(p, from, to) /\ Trimmed(p, from, to) = <<s, from>>
      BY <1>4, <1>9, <2>8 DEF Missed, Inside, Trimmed
    <3> QED BY <3>2, <3>3
  <2>9. CASE ~(s < from) /\ to < e
    <3>1. R = to
      BY <2>2, <2>9
    <3>2. r = [a EXCEPT !.out[i] = <<to, e>>]
      BY <2>5, <2>9, <3>1
    <3>3. ~Missed(p, from, to) /\ ~Inside(p, from, to) /\ Trimmed(p, from, to) = <<to, e>>
      BY <1>4, <1>9, <2>9 DEF Missed, Inside, Trimmed
    <3> QED BY <3>2, <3>3
  <2>10. CASE ~(s < from) /\ ~(to < e)
    <3>1. r = [a EXCEPT !.out[i] = <<s, s>>]
      <4>1. r = [a EXCEPT !.out[i] = <<@[1], @[1]>>]
        BY <2>5, <2>10
      <4> QED BY <4>1, <1>2, <1>3
    <3>2. Trimmed(p, from, to) = <<s, s>> /\ ~Inside(p, from, to)
      BY <1>4, <2>10 DEF Inside, Trimmed
    <3>3. s = e => r = a
      <4>1. s = e => [o EXCEPT ![i] = <<s, s>>] = o
        BY <1>1, <1>3
      <4>2. r = [out |-> [o EXCEPT ![i] = <<s, s>>], live |-> l, n |-> m]
        BY <3>1, <1>1
      <4> QED BY <1>1, <4>1, <4>2
    <3> QED BY <3>1, <3>2, <3>3, <1>4, <1>9 DEF Missed
  <2> QED BY <1>1, <2>6, <2>7, <2>8, <2>9, <2>10
<1> QED BY <1>4, <1>8, <1>9

(* Carving a run leaves orderly runs, as many or one more. *)
LEMMA CarveRunKeeps ==
  ASSUME NEW N \in Nat, NEW a \in Filling(N), Orderly(a, N), NEW i \in 1 .. N,
         NEW from \in Int, NEW to \in Int, from < to,
         NEW r, r = CarveRun(a, i, from, to)
  PROVE  /\ r \in Filling(N) /\ Orderly(r, N) /\ r.live \in a.live .. N /\ r.n = a.n
         /\ \A j \in 1 .. N : j # i /\ j <= a.live => r.out[j] = a.out[j]
<1>1. PICK o \in [1 .. N -> Int \X Int], l \in Nat, m \in Nat : a = [out |-> o, live |-> l, n |-> m] /\ l <= N
  BY DEF Filling, Orderly
<1>2. PICK s \in Int, e \in Int : o[i] = <<s, e>>
  BY <1>1
<1>3. PICK p : p = <<s, e>> /\ p = a.out[i] /\ p[1] = s /\ p[2] = e
  BY <1>1, <1>2
<1>4. s <= e /\ \A j \in 1 .. N : o[j][1] <= o[j][2]
  BY <1>1, <1>2 DEF Orderly
<1>5. ASSUME NEW q \in Int \X Int, q[1] <= q[2], r = [a EXCEPT !.out[i] = q]
      PROVE  /\ r \in Filling(N) /\ Orderly(r, N) /\ r.live \in a.live .. N /\ r.n = a.n
             /\ \A j \in 1 .. N : j # i /\ j <= a.live => r.out[j] = a.out[j]
  <2>1. PICK x : x = [o EXCEPT ![i] = q]
    OBVIOUS
  <2>2. r = [out |-> x, live |-> l, n |-> m]
    BY <1>1, <1>5, <2>1
  <2>3. x \in [1 .. N -> Int \X Int] /\ \A j \in 1 .. N : x[j][1] <= x[j][2]
    BY <1>1, <1>4, <1>5, <2>1
  <2>4. r \in Filling(N)
    BY <1>1, <2>2, <2>3 DEF Filling
  <2>5. Orderly(r, N)
    BY <1>1, <2>2, <2>3 DEF Orderly
  <2> QED BY <1>1, <2>1, <2>2, <2>4, <2>5
<1>6. CASE Missed(p, from, to) /\ r = a
  BY <1>1, <1>6
<1>7. CASE ~Missed(p, from, to) /\ ~Inside(p, from, to) /\ r = [a EXCEPT !.out[i] = Trimmed(p, from, to)]
  <2>1. Trimmed(p, from, to) \in Int \X Int /\ Trimmed(p, from, to)[1] <= Trimmed(p, from, to)[2]
    BY <1>3, <1>4, <1>7 DEF Trimmed, Missed
  <2> QED BY <1>7, <2>1, <1>5
<1>8. CASE /\ ~Missed(p, from, to) /\ Inside(p, from, to) /\ a.live < N
           /\ r = [a EXCEPT !.out[i] = <<p[1], from>>, !.out[a.live + 1] = <<to, p[2]>>, !.live = @ + 1]
  <2>1. PICK x : x = [[o EXCEPT ![i] = <<s, from>>] EXCEPT ![l + 1] = <<to, e>>]
    OBVIOUS
  <2>2. r = [out |-> x, live |-> l + 1, n |-> m]
    BY <1>1, <1>3, <1>8, <2>1
  <2>3. s <= from /\ to <= e
    BY <1>3, <1>8 DEF Inside
  <2>4. x \in [1 .. N -> Int \X Int]
    BY <1>1, <2>1
  <2>5. r \in Filling(N)
    <3>1. l + 1 \in Nat
      BY <1>1
    <3> QED BY <3>1, <2>2, <2>4 DEF Filling
  <2>6. Orderly(r, N) /\ r.live \in a.live .. N /\ r.n = a.n
    <3>1. \A j \in 1 .. N : x[j][1] <= x[j][2]
      BY <1>1, <1>4, <2>1, <2>3
    <3>2. l + 1 <= N
      BY <1>1, <1>8
    <3>3. r.out = x /\ r.live = l + 1 /\ r.n = m
      BY <2>2
    <3>4. Orderly(r, N)
      BY <3>1, <3>2, <3>3, Zenon DEF Orderly
    <3>5. a.live = l /\ a.n = m
      BY <1>1
    <3> QED BY <3>2, <3>3, <3>4, <3>5
  <2>7. \A j \in 1 .. N : j # i /\ j <= a.live => r.out[j] = a.out[j]
    BY <1>1, <2>1, <2>2
  <2> QED BY <2>5, <2>6, <2>7
<1>9. CASE /\ ~Missed(p, from, to) /\ Inside(p, from, to) /\ a.live = N
           /\ \E q \in {<<p[1], from>>, <<to, p[2]>>} : r = [a EXCEPT !.out[i] = q]
  <2>1. PICK q \in {<<p[1], from>>, <<to, p[2]>>} : r = [a EXCEPT !.out[i] = q]
    BY <1>9
  <2>2. q \in Int \X Int /\ q[1] <= q[2]
    BY <1>3, <1>9, <2>1 DEF Inside
  <2> QED BY <2>1, <2>2, <1>5
<1>10. CarvedAs(N, a, i, from, to, p, r)
  BY <1>3, CarveRunIs
<1> QED BY <1>6, <1>7, <1>8, <1>9, <1>10, Zenon DEF CarvedAs

(* Carving an exclusion out of the runs there are, one run after the other. *)
CarvedBy(T, c, from, to, r) ==
  /\ T[0] = c
  /\ \A k \in 1 .. c.live : T[k] = CarveRun(T[k - 1], k, from, to)
  /\ r = T[c.live]

(* Carve is a fold over the pieces there are. *)
LEMMA CarveSteps ==
  ASSUME NEW N \in Nat, NEW c \in Filling(N), Orderly(c, N),
         NEW from \in Int, NEW len \in Int, NEW to, to = saturating(from + len), from < to
  PROVE  \E T : CarvedBy(T, c, from, to, Carve(c, <<from, len>>))
<1> DEFINE n == c.live
<1> DEFINE A == {a \in Filling(N) : Orderly(a, N) /\ a.live >= n}
<1> DEFINE R == [i \in 1 .. c.live |-> i]
<1> DEFINE f == [x \in A \X (1 .. n) |-> CarveRun(x[1], x[2], from, to)]
<1> DEFINE Eq(h) == h = [S \in SUBSET (1 .. n) |->
                           IF S = {} THEN c ELSE CarveRun(h[S \ {Max(S)}], R[Max(S)], from, to)]
<1>1. n \in Nat /\ n <= N /\ DOMAIN R = 1 .. n /\ \A i \in 1 .. n : R[i] = i /\ i \in 1 .. N
  BY DEF Filling, Orderly
<1>2. c \in A /\ to \in Int
  BY <1>1, PagesNat DEF saturating
<1>3. ASSUME NEW a \in A, NEW k \in 1 .. n PROVE CarveRun(a, k, from, to) \in A
  <2>1. k \in 1 .. N /\ a \in Filling(N) /\ Orderly(a, N) /\ a.live >= n
    BY <1>1
  <2>2. /\ CarveRun(a, k, from, to) \in Filling(N) /\ Orderly(CarveRun(a, k, from, to), N)
        /\ CarveRun(a, k, from, to).live \in a.live .. N
    BY <1>2, <2>1, CarveRunKeeps
  <2>3. a.live \in Nat
    BY <2>1 DEF Filling
  <2> QED BY <1>1, <2>1, <2>2, <2>3
<1>4. f \in [A \X (1 .. n) -> A]
  <2> HIDE DEF A
  <2> QED BY <1>3
<1>5. PICK h \in [SUBSET (1 .. n) -> A] : Folds(h, f, c, n)
  <2> HIDE DEF f, n, A
  <2> QED BY <1>1, <1>2, <1>4, FoldExists
<1>6. Eq(h)
  <2>1. ASSUME NEW S \in SUBSET (1 .. n), S # {}
        PROVE  f[<<h[S \ {Max(S)}], Max(S)>>] = CarveRun(h[S \ {Max(S)}], R[Max(S)], from, to)
    <3>1. Max(S) \in 1 .. n /\ S \ {Max(S)} \in SUBSET (1 .. n)
      BY <1>1, <2>1, MaxUpTo
    <3>2. R[Max(S)] = Max(S)
      BY <1>1, <3>1
    <3>3. h[S \ {Max(S)}] \in A
      BY <3>1, <1>5
    <3> HIDE DEF R, A
    <3> QED BY <3>1, <3>2, <3>3
  <2> HIDE DEF f, n, R
  <2> QED BY <1>5, <2>1 DEF Folds
<1> DEFINE H == CHOOSE g : Eq(g)
<1> HIDE DEF f, A
<1>7. Eq(H)
  BY <1>6, Zenon
<1>8. Carve(c, <<from, len>>) = H[1 .. n]
  <2>0. PICK ex : ex = <<from, len>>
    OBVIOUS
  <2>1. ex = <<from, len>> /\ ex[1] = from /\ ex[2] = len
    BY <2>0
  <2>2. saturating(ex[1] + ex[2]) = to /\ ~(to <= ex[1])
    BY <1>2, <2>1
  <2>3. \A a, i : CarveRun(a, i, ex[1], saturating(ex[1] + ex[2])) = CarveRun(a, i, from, to)
    BY <2>1, <2>2
  <2>4. Carve(c, ex) = FoldLeft(LAMBDA a, i : CarveRun(a, i, from, to), c, R)
    BY <2>1, <2>2 DEF Carve
  <2>5. FoldLeft(LAMBDA a, i : CarveRun(a, i, from, to), c, R) = H[1 .. n]
    BY <1>1, Zenon DEF FoldLeft, MapThenFoldSet
  <2> QED BY <2>1, <2>4, <2>5
<1> HIDE DEF H
<1> DEFINE T == [k \in 0 .. n |-> H[1 .. k]]
<1>9. T[0] = c /\ T[n] = H[1 .. n]
  <2>1. 1 .. 0 = {} /\ {} \in SUBSET (1 .. n) /\ 0 \in 0 .. n /\ n \in 0 .. n
    BY <1>1
  <2> HIDE DEF n
  <2> QED BY <1>7, <2>1
<1>10. ASSUME NEW k \in 1 .. n PROVE T[k] = CarveRun(T[k - 1], k, from, to)
  <2>1. /\ 1 .. k \in SUBSET (1 .. n) /\ 1 .. k # {} /\ Max(1 .. k) = k
        /\ (1 .. k) \ {k} = 1 .. k - 1 /\ k \in 0 .. n /\ k - 1 \in 0 .. n
    BY <1>1, UpToSets
  <2>2. R[k] = k
    OBVIOUS
  <2> HIDE DEF n, R
  <2> QED BY <1>7, <2>1, <2>2
<1> HIDE DEF T
<1>11. CarvedBy(T, c, from, to, Carve(c, <<from, len>>))
  BY <1>8, <1>9, <1>10 DEF CarvedBy
<1> QED BY <1>11

(***************************************************************************)
(* What carving a run does to the units in it: those outside the exclusion *)
(* stay, if there is room for both ends, and none comes in.                *)
(***************************************************************************)
Within(u, p) == p[1] <= u /\ u < p[2]
Cut(u, from, to) == from <= u /\ u < to

(* The units of a piece after it is carved. *)
LEMMA CarveRunUnits ==
  ASSUME NEW N \in Nat, NEW a \in Filling(N), Orderly(a, N), NEW i \in 1 .. a.live,
         NEW from \in Int, NEW to \in Int, from < to,
         NEW r, r = CarveRun(a, i, from, to)
  PROVE  /\ r.live \in {a.live, a.live + 1}
         /\ \A u \in Int : Within(u, r.out[i]) => Within(u, a.out[i]) /\ ~Cut(u, from, to)
         /\ r.live = a.live + 1 =>
              /\ Within(from, a.out[i])
              /\ \A u \in Int : Within(u, r.out[r.live])
                                  => Within(u, a.out[i]) /\ ~Cut(u, from, to) /\ ~Within(u, r.out[i])
         /\ a.live < N \/ ~Within(from, a.out[i]) =>
              \A u \in Int : Within(u, a.out[i]) /\ ~Cut(u, from, to)
                               => \/ Within(u, r.out[i])
                                  \/ r.live = a.live + 1 /\ Within(u, r.out[r.live])
         /\ Missed(a.out[i], from, to) => r = a
<1>1. PICK o \in [1 .. N -> Int \X Int], l \in Nat, m \in Nat : a = [out |-> o, live |-> l, n |-> m] /\ l <= N
  BY DEF Filling, Orderly
<1>2. PICK s \in Int, e \in Int : o[i] = <<s, e>>
  BY <1>1
<1>3. PICK p : p = <<s, e>> /\ p = a.out[i] /\ p[1] = s /\ p[2] = e
  BY <1>1, <1>2
<1>4. s <= e /\ i \in 1 .. N /\ i \in 1 .. l
  BY <1>1, <1>2 DEF Orderly
<1>5. \A u \in Int : Within(u, a.out[i]) <=> s <= u /\ u < e
  BY <1>3 DEF Within
<1>6. CASE Missed(p, from, to) /\ r = a
  <2>1. \A u \in Int : s <= u /\ u < e => ~Cut(u, from, to)
    BY <1>3, <1>6 DEF Missed, Cut
  <2> QED BY <1>1, <1>5, <1>6, <2>1
<1>7. ASSUME NEW q, NEW x \in Int, NEW y \in Int, q = <<x, y>>, r = [a EXCEPT !.out[i] = q],
             ~Missed(p, from, to)
      PROVE  /\ r.live = a.live /\ ~Missed(a.out[i], from, to)
             /\ \A u \in Int : Within(u, r.out[i]) <=> x <= u /\ u < y
  <2>1. r = [out |-> [o EXCEPT ![i] = q], live |-> l, n |-> m]
    BY <1>1, <1>7
  <2>2. r.out[i] = q /\ r.live = l
    BY <1>1, <1>4, <2>1
  <2>3. ~Missed(p, from, to) /\ q = <<x, y>>
    BY <1>7, Zenon
  <2>4. q[1] = x /\ q[2] = y
    BY <2>3
  <2>5. \A u : Within(u, q) <=> x <= u /\ u < y
    BY <2>4 DEF Within
  <2>6. a.live = l /\ a.out[i] = p
    BY <1>1, <1>3
  <2>7. \A u \in Int : Within(u, r.out[i]) <=> x <= u /\ u < y
    BY <2>2, <2>5, Zenon
  <2> QED BY <2>2, <2>3, <2>6, <2>7, Zenon
<1>8. CASE ~Missed(p, from, to) /\ ~Inside(p, from, to) /\ r = [a EXCEPT !.out[i] = Trimmed(p, from, to)]
  <2>1. PICK x \in Int, y \in Int :
          /\ Trimmed(p, from, to) = <<x, y>>
          /\ \A u \in Int : x <= u /\ u < y <=> s <= u /\ u < e /\ ~Cut(u, from, to)
    BY <1>3, <1>4, <1>8 DEF Trimmed, Missed, Inside, Cut
  <2>2. r = [a EXCEPT !.out[i] = Trimmed(p, from, to)] /\ ~Missed(p, from, to)
    BY <1>8, Zenon
  <2>3. /\ r.live = a.live /\ ~Missed(a.out[i], from, to)
        /\ \A u \in Int : Within(u, r.out[i]) <=> x <= u /\ u < y
    BY <1>7, <2>1, <2>2
  <2>4. a.live = l
    BY <1>1
  <2> QED BY <1>5, <2>1, <2>3, <2>4
<1>9. CASE /\ ~Missed(p, from, to) /\ Inside(p, from, to) /\ a.live < N
           /\ r = [a EXCEPT !.out[i] = <<p[1], from>>, !.out[a.live + 1] = <<to, p[2]>>, !.live = @ + 1]
  <2>1. PICK x : x = [[o EXCEPT ![i] = <<s, from>>] EXCEPT ![l + 1] = <<to, e>>]
    OBVIOUS
  <2>2. r = [out |-> x, live |-> l + 1, n |-> m]
    BY <1>1, <1>3, <1>9, <2>1
  <2>3. s < from /\ to < e
    BY <1>3, <1>9 DEF Inside
  <2>10. a.live < N
    BY <1>9, Zenon
  <2>11. l + 1 \in 1 .. N /\ i # l + 1
    BY <1>1, <1>4, <2>10
  <2>4. x[i] = <<s, from>> /\ x[l + 1] = <<to, e>>
    BY <1>1, <1>4, <2>1, <2>11
  <2>5. r.out[i] = <<s, from>> /\ r.live = l + 1 /\ r.out[r.live] = <<to, e>>
    BY <2>2, <2>4
  <2>6. \A u \in Int : /\ Within(u, r.out[i]) <=> s <= u /\ u < from
                       /\ Within(u, r.out[r.live]) <=> to <= u /\ u < e
    BY <2>5 DEF Within
  <2>7. ~Missed(p, from, to) /\ a.live < N
    BY <1>9, Zenon
  <2>8. a.out[i] = p /\ a.live = l
    BY <1>1, <1>3
  <2>9. ~Missed(a.out[i], from, to)
    BY <2>7, <2>8, Zenon
  <2>12. from < e /\ s <= from
    BY <2>3
  <2>13. Within(from, a.out[i])
    BY <1>5, <2>12
  <2>14. r.live = a.live + 1
    BY <1>1, <2>5
  <2>15. \A u \in Int : /\ Within(u, r.out[i]) => Within(u, a.out[i]) /\ ~Cut(u, from, to)
                        /\ Within(u, r.out[r.live])
                             => Within(u, a.out[i]) /\ ~Cut(u, from, to) /\ ~Within(u, r.out[i])
                        /\ Within(u, a.out[i]) /\ ~Cut(u, from, to)
                             => Within(u, r.out[i]) \/ Within(u, r.out[r.live])
    BY <1>4, <1>5, <2>3, <2>6 DEF Cut
  <2>16. r.live \in {a.live, a.live + 1}
    BY <2>14
  <2>17. Missed(a.out[i], from, to) => r = a
    BY <2>9
  <2>18. \A u \in Int : Within(u, r.out[i]) => Within(u, a.out[i]) /\ ~Cut(u, from, to)
    BY <2>15
  <2>19. \A u \in Int : Within(u, r.out[r.live])
                            => Within(u, a.out[i]) /\ ~Cut(u, from, to) /\ ~Within(u, r.out[i])
    BY <2>15
  <2>20. \A u \in Int : Within(u, a.out[i]) /\ ~Cut(u, from, to)
                            => \/ Within(u, r.out[i])
                               \/ r.live = a.live + 1 /\ Within(u, r.out[r.live])
    BY <2>14, <2>15
  <2> QED BY <2>13, <2>16, <2>17, <2>18, <2>19, <2>20, Zenon
<1>10. CASE /\ ~Missed(p, from, to) /\ Inside(p, from, to) /\ a.live = N
            /\ \E q \in {<<p[1], from>>, <<to, p[2]>>} : r = [a EXCEPT !.out[i] = q]
  <2>1. PICK q \in {<<p[1], from>>, <<to, p[2]>>} : r = [a EXCEPT !.out[i] = q]
    BY <1>10
  <2>2. s < from /\ to < e
    BY <1>3, <1>10 DEF Inside
  <2>3. PICK x \in Int, y \in Int :
          /\ q = <<x, y>>
          /\ \A u \in Int : x <= u /\ u < y => s <= u /\ u < e /\ ~Cut(u, from, to)
    BY <1>3, <2>1, <2>2 DEF Cut
  <2>4. Within(from, a.out[i]) /\ a.live = N
    BY <1>5, <1>10, <2>2
  <2>5. ~Missed(p, from, to)
    BY <1>10, Zenon
  <2>6. /\ r.live = a.live /\ ~Missed(a.out[i], from, to)
        /\ \A u \in Int : Within(u, r.out[i]) <=> x <= u /\ u < y
    BY <1>7, <2>1, <2>3, <2>5
  <2>7. a.live = l
    BY <1>1
  <2> QED BY <1>5, <2>3, <2>4, <2>6, <2>7
<1>11. CarvedAs(N, a, i, from, to, p, r)
  BY <1>3, <1>4, CarveRunIs
<1> QED BY <1>6, <1>8, <1>9, <1>10, <1>11, Zenon DEF CarvedAs

(***************************************************************************)
(* What the runs hold: nothing but what is in F, no unit twice, and all of *)
(* F.                                                                      *)
(***************************************************************************)
Holds(a, F) == \A j \in 1 .. a.live : \A u \in Int : Within(u, a.out[j]) => u \in F
Separate(a) ==
  \A i, j \in 1 .. a.live : \A u \in Int : Within(u, a.out[i]) /\ Within(u, a.out[j]) => i = j
Whole(a, F) == \A u \in F : \E j \in 1 .. a.live : Within(u, a.out[j])
Without(F, from, to) == {u \in F : ~Cut(u, from, to)}

(* The first k of c's runs are carved. *)
Carving(N, c, F, from, to, k, a) ==
  /\ a \in Filling(N) /\ Orderly(a, N) /\ a.n = c.n
  /\ a.live = c.live \/ a.live = c.live + 1
  /\ Holds(a, F) /\ Separate(a)
  /\ \A j \in 1 .. a.live : j <= k \/ j > c.live
       => \A u \in Int : Within(u, a.out[j]) => ~Cut(u, from, to)
  /\ a.live = c.live + 1 => \A j \in 1 .. a.live : ~Within(from, a.out[j])
  /\ c.live < N /\ Whole(c, F) => Whole(a, Without(F, from, to))

(* One more piece is carved. *)
LEMMA CarvingStep ==
  ASSUME NEW N \in Nat, NEW c \in Filling(N), Orderly(c, N), NEW F \in SUBSET Int,
         NEW from \in Int, NEW to \in Int, from < to,
         NEW k \in Nat, k + 1 <= c.live, NEW a, Carving(N, c, F, from, to, k, a),
         NEW r, r = CarveRun(a, k + 1, from, to)
  PROVE  Carving(N, c, F, from, to, k + 1, r)
<1>1. a \in Filling(N) /\ Orderly(a, N) /\ a.n = c.n /\ (a.live = c.live \/ a.live = c.live + 1)
  BY DEF Carving
<1>2. PICK i \in Nat : i = k + 1
  OBVIOUS
<1>3. c.live \in Nat /\ a.live \in Nat /\ i <= c.live /\ i <= a.live /\ i \in 1 .. a.live /\ a.live <= N
  <2>1. c.live \in Nat /\ a.live \in Nat
    BY <1>1 DEF Filling
  <2>2. a.live <= N
    BY <1>1 DEF Orderly
  <2> QED BY <1>1, <1>2, <2>1, <2>2
<1>4. i \in 1 .. N
  BY <1>3
<1>5. /\ r \in Filling(N) /\ Orderly(r, N) /\ r.live \in a.live .. N /\ r.n = a.n
      /\ \A j \in 1 .. N : j # i /\ j <= a.live => r.out[j] = a.out[j]
  BY <1>1, <1>2, <1>4, CarveRunKeeps
<1>6. /\ r.live \in {a.live, a.live + 1}
      /\ \A u \in Int : Within(u, r.out[i]) => Within(u, a.out[i]) /\ ~Cut(u, from, to)
      /\ r.live = a.live + 1 =>
           /\ Within(from, a.out[i])
           /\ \A u \in Int : Within(u, r.out[r.live])
                               => Within(u, a.out[i]) /\ ~Cut(u, from, to) /\ ~Within(u, r.out[i])
      /\ a.live < N \/ ~Within(from, a.out[i]) =>
           \A u \in Int : Within(u, a.out[i]) /\ ~Cut(u, from, to)
                            => \/ Within(u, r.out[i])
                               \/ r.live = a.live + 1 /\ Within(u, r.out[r.live])
  BY <1>1, <1>2, <1>3, CarveRunUnits
<1>7. Holds(a, F) /\ Separate(a)
  BY DEF Carving
<1>8. \A j \in 1 .. a.live : j <= k \/ j > c.live
        => \A u \in Int : Within(u, a.out[j]) => ~Cut(u, from, to)
  BY DEF Carving
<1>9. a.live = c.live + 1 => \A j \in 1 .. a.live : ~Within(from, a.out[j])
  BY DEF Carving
<1>10. ASSUME NEW j \in 1 .. r.live, j # i, j <= a.live PROVE r.out[j] = a.out[j] /\ j \in 1 .. a.live
  BY <1>3, <1>5, <1>10
<1>11. ASSUME NEW j \in 1 .. r.live, NEW u \in Int, Within(u, r.out[j])
       PROVE  /\ j <= a.live => j \in 1 .. a.live /\ Within(u, a.out[j])
              /\ ~(j <= a.live) => /\ j = r.live /\ r.live = a.live + 1 /\ Within(u, a.out[i])
                                   /\ ~Cut(u, from, to) /\ ~Within(u, r.out[i])
  BY <1>3, <1>6, <1>10, <1>11
<1>12. r.live = a.live + 1 => a.live = c.live
  BY <1>1, <1>3, <1>6, <1>9
<1>13. Holds(r, F)
  BY <1>3, <1>7, <1>11 DEF Holds
<1>14. Separate(r)
  <2> SUFFICES ASSUME NEW j \in 1 .. r.live, NEW l \in 1 .. r.live, NEW u \in Int,
                      Within(u, r.out[j]), Within(u, r.out[l])
               PROVE  j = l
    BY DEF Separate
  <2>1. r.live \in Nat
    BY <1>5 DEF Filling
  <2>2. \A x, y \in 1 .. a.live : Within(u, a.out[x]) /\ Within(u, a.out[y]) => x = y
    BY <1>7 DEF Separate
  <2>3. CASE j <= a.live /\ l <= a.live
    BY <2>2, <2>3, <1>11
  <2>4. CASE ~(j <= a.live) /\ ~(l <= a.live)
    BY <2>4, <1>11
  <2>5. CASE j <= a.live /\ ~(l <= a.live)
    BY <2>2, <2>5, <1>3, <1>11
  <2>6. CASE l <= a.live /\ ~(j <= a.live)
    BY <2>2, <2>6, <1>3, <1>11
  <2> QED BY <2>3, <2>4, <2>5, <2>6
<1>15. ASSUME NEW j \in 1 .. r.live, j <= i \/ j > c.live, NEW u \in Int, Within(u, r.out[j])
       PROVE  ~Cut(u, from, to)
  <2>1. CASE ~(j <= a.live)
    BY <2>1, <1>11, <1>15
  <2>2. CASE j = i
    BY <2>2, <1>6, <1>15
  <2>3. CASE j # i /\ j <= a.live
    <3>1. j <= k \/ j > c.live
      BY <1>2, <1>15, <2>3
    <3> QED BY <3>1, <2>3, <1>8, <1>10, <1>15
  <2> QED BY <2>1, <2>2, <2>3
<1>16. ASSUME r.live = c.live + 1, NEW j \in 1 .. r.live, Within(from, r.out[j])
       PROVE  FALSE
  <2>1. Cut(from, from, to)
    BY DEF Cut
  <2>2. CASE a.live = c.live + 1
    BY <2>2, <1>9, <1>11, <1>16
  <2>3. CASE a.live = c.live
    <3>1. r.live = a.live + 1 /\ Within(from, a.out[i])
      BY <2>3, <1>6, <1>16
    <3>2. j <= a.live /\ j # i
      BY <2>1, <1>6, <1>11, <1>16
    <3>3. Within(from, a.out[j]) /\ j \in 1 .. a.live
      BY <3>2, <1>10, <1>16
    <3> QED BY <1>3, <1>7, <3>1, <3>2, <3>3 DEF Separate
  <2> QED BY <1>1, <2>2, <2>3
<1>17. ASSUME c.live < N, Whole(c, F) PROVE Whole(r, Without(F, from, to))
  <2> SUFFICES ASSUME NEW u \in Without(F, from, to)
               PROVE  \E j \in 1 .. r.live : Within(u, r.out[j])
    BY DEF Whole
  <2>1. u \in Int /\ ~Cut(u, from, to)
    BY DEF Without
  <2>2. Whole(a, Without(F, from, to))
    BY <1>17 DEF Carving
  <2>3. PICK j \in 1 .. a.live : Within(u, a.out[j])
    BY <2>2 DEF Whole
  <2>4. a.live < N \/ ~Within(from, a.out[i])
    BY <1>1, <1>3, <1>9, <1>17
  <2>5. CASE j # i
    <3>1. j \in 1 .. r.live /\ j <= a.live
      BY <1>3, <1>5
    <3> QED BY <3>1, <2>3, <2>5, <1>10
  <2>6. CASE j = i
    <3>1. Within(u, r.out[i]) \/ (r.live = a.live + 1 /\ Within(u, r.out[r.live]))
      BY <2>1, <2>3, <2>4, <2>6, <1>6
    <3>2. i \in 1 .. r.live /\ r.live \in 1 .. r.live
      BY <1>3, <1>5
    <3> QED BY <3>1, <3>2
  <2> QED BY <2>5, <2>6
<1>18. r.live = c.live \/ r.live = c.live + 1
  BY <1>1, <1>6, <1>12
<1>19. k + 1 = i /\ r.n = c.n
  BY <1>1, <1>2, <1>5
<1> QED BY <1>5, <1>13, <1>14, <1>15, <1>16, <1>17, <1>18, <1>19 DEF Carving

(* An exclusion carved out of the runs there are. *)
LEMMA CarveIs ==
  ASSUME NEW N \in Nat, NEW c \in Filling(N), Orderly(c, N), NEW F \in SUBSET Int,
         Holds(c, F), Separate(c),
         NEW from \in Int, NEW len \in Int, NEW to, to = saturating(from + len),
         NEW r, r = Carve(c, <<from, len>>)
  PROVE  /\ r \in Filling(N) /\ Orderly(r, N) /\ r.n = c.n
         /\ r.live = c.live \/ r.live = c.live + 1
         /\ Holds(r, Without(F, from, to)) /\ Separate(r)
         /\ c.live < N /\ Whole(c, F) => Whole(r, Without(F, from, to))
<1>1. to \in Int
  BY PagesNat DEF saturating
<1>2. CASE ~(from < to)
  <2>0. PICK ex : ex = <<from, len>>
    OBVIOUS
  <2>1. ex[1] = from /\ ex[2] = len
    BY <2>0
  <2>2. saturating(ex[1] + ex[2]) <= ex[1]
    BY <1>1, <1>2, <2>1
  <2>3. r = c
    BY <2>0, <2>2 DEF Carve
  <2>4. Without(F, from, to) = F
    <3>1. \A u \in Int : ~Cut(u, from, to)
      BY <1>1, <1>2 DEF Cut
    <3> QED BY <3>1 DEF Without
  <2> QED BY <2>3, <2>4
<1>3. CASE from < to
  <2>1. PICK T : /\ T[0] = c
                 /\ \A k \in 1 .. c.live : T[k] = CarveRun(T[k - 1], k, from, to)
                 /\ r = T[c.live]
    <3>1. \E T : CarvedBy(T, c, from, to, r)
      BY <1>3, CarveSteps
    <3> QED BY <3>1 DEF CarvedBy
  <2>2. PICK n \in Nat : n = c.live
    BY DEF Filling
  <2> DEFINE Good == {k \in 0 .. n : Carving(N, c, F, from, to, k, T[k])}
  <2>3. 0 \in Good
    <3>1. \A j \in 1 .. c.live : ~(j <= 0 \/ j > c.live)
      BY <2>2
    <3>2. c.live # c.live + 1
      BY <2>2
    <3>3. Whole(c, F) => Whole(c, Without(F, from, to))
      BY DEF Whole, Without
    <3>4. Carving(N, c, F, from, to, 0, c)
      BY <3>1, <3>2, <3>3 DEF Carving
    <3> QED BY <2>1, <3>4
  <2>4. ASSUME NEW k \in 0 .. n, k # n, k \in Good PROVE k + 1 \in Good
    <3>1. k + 1 \in 1 .. c.live /\ k + 1 <= c.live /\ (k + 1) - 1 = k /\ k \in Nat /\ k + 1 \in 0 .. n
      BY <2>2, <2>4
    <3>2. T[k + 1] = CarveRun(T[k], k + 1, from, to)
      BY <2>1, <3>1
    <3>3. Carving(N, c, F, from, to, k, T[k])
      BY <2>4
    <3>4. Carving(N, c, F, from, to, k + 1, T[k + 1])
      BY <1>1, <1>3, <3>1, <3>2, <3>3, CarvingStep
    <3> QED BY <3>1, <3>4
  <2> HIDE DEF Good
  <2>5. n \in Good
    BY <2>3, <2>4, UpToBound
  <2>6. Carving(N, c, F, from, to, c.live, r)
    BY <2>1, <2>2, <2>5 DEF Good
  <2>7. Holds(r, Without(F, from, to))
    <3> SUFFICES ASSUME NEW j \in 1 .. r.live, NEW u \in Int, Within(u, r.out[j])
                 PROVE  u \in Without(F, from, to)
      BY DEF Holds
    <3>1. j <= c.live \/ j > c.live
      BY <2>2, <2>6 DEF Carving
    <3> QED BY <2>6, <3>1 DEF Carving, Holds, Without
  <2> QED BY <2>6, <2>7 DEF Carving
<1> QED BY <1>2, <1>3

(* An exclusion that meets no run changes none. *)
LEMMA CarveMisses ==
  ASSUME NEW N \in Nat, NEW c \in Filling(N), Orderly(c, N),
         NEW from \in Int, NEW len \in Int, NEW to, to = saturating(from + len),
         \A j \in 1 .. c.live : Missed(c.out[j], from, to)
  PROVE  Carve(c, <<from, len>>) = c
<1>1. to \in Int
  BY PagesNat DEF saturating
<1>2. CASE ~(from < to)
  <2>0. PICK ex : ex = <<from, len>>
    OBVIOUS
  <2>1. ex[1] = from /\ ex[2] = len
    BY <2>0
  <2>2. saturating(ex[1] + ex[2]) <= ex[1]
    BY <1>1, <1>2, <2>1
  <2> QED BY <2>0, <2>2 DEF Carve
<1>3. CASE from < to
  <2>1. PICK T : CarvedBy(T, c, from, to, Carve(c, <<from, len>>))
    BY <1>3, CarveSteps
  <2>2. PICK n \in Nat : n = c.live /\ n <= N
    BY DEF Filling, Orderly
  <2> DEFINE Good == {k \in 0 .. n : T[k] = c}
  <2>3. 0 \in Good
    BY <2>1 DEF CarvedBy
  <2>4. ASSUME NEW k \in 0 .. n, k # n, k \in Good PROVE k + 1 \in Good
    <3>1. k + 1 \in 1 .. c.live /\ k + 1 \in 1 .. N /\ (k + 1) - 1 = k /\ k + 1 \in 0 .. n
      BY <2>2, <2>4
    <3>2. T[k + 1] = CarveRun(T[k], k + 1, from, to)
      BY <2>1, <3>1 DEF CarvedBy
    <3>3. T[k] = c
      BY <2>4
    <3>4. CarveRun(c, k + 1, from, to) = c
      BY <1>1, <1>3, <3>1, CarveRunUnits
    <3> QED BY <3>1, <3>2, <3>3, <3>4
  <2> HIDE DEF Good
  <2>5. n \in Good
    BY <2>3, <2>4, UpToBound
  <2>6. T[c.live] = c
    BY <2>2, <2>5 DEF Good
  <2> QED BY <2>1, <2>6 DEF CarvedBy
<1> QED BY <1>2, <1>3

(* Every exclusion is carved out, one after the other. *)
Runs(a, N) == a \in Filling(N) /\ Orderly(a, N) /\ Separate(a)
Excluded(exs, n) == n \in Nat /\ exs \in [1 .. n -> Int \X Int]
CarvedOut(T, c, exs, n, r) ==
  /\ T[0] = c
  /\ \A k \in 1 .. n : T[k] = Carve(T[k - 1], exs[k])
  /\ r = T[n]

(* Runs that nothing cuts into stay as they are. *)
LEMMA RunsStay ==
  ASSUME NEW N \in Nat, NEW a, Runs(a, N), NEW x \in Int \X Int
  PROVE  Runs(Carve(a, x), N)
<1>1. PICK from \in Int, len \in Int : x = <<from, len>>
  OBVIOUS
<1>2. a \in Filling(N) /\ Orderly(a, N) /\ Separate(a) /\ Holds(a, Int)
  BY DEF Runs, Holds
<1>3. PICK to : to = saturating(from + len)
  OBVIOUS
<1>4. PICK r : r = Carve(a, <<from, len>>)
  OBVIOUS
<1>5. r \in Filling(N) /\ Orderly(r, N) /\ Separate(r)
  BY <1>2, <1>3, <1>4, CarveIs
<1> QED BY <1>1, <1>4, <1>5 DEF Runs

(* Carved is a fold over the exclusions. *)
LEMMA CarvedSteps ==
  ASSUME NEW N \in Nat, NEW c, Runs(c, N), NEW n \in Nat, NEW exs, Excluded(exs, n)
  PROVE  \E T : CarvedOut(T, c, exs, n, FoldLeft(Carve, c, exs))
<1> DEFINE A == {a \in Filling(N) : Runs(a, N)}
<1> DEFINE f == [x \in A \X (1 .. n) |-> Carve(x[1], exs[x[2]])]
<1> DEFINE Eq(h) == h = [S \in SUBSET (1 .. n) |->
                           IF S = {} THEN c ELSE Carve(h[S \ {Max(S)}], exs[Max(S)])]
<1>1. n \in Nat /\ DOMAIN exs = 1 .. n /\ exs \in [1 .. n -> Int \X Int]
  BY DEF Excluded
<1>2. c \in A
  BY DEF Runs
<1>3. ASSUME NEW a \in A, NEW k \in 1 .. n PROVE Carve(a, exs[k]) \in A
  <2>1. exs[k] \in Int \X Int
    BY <1>1
  <2>2. Runs(Carve(a, exs[k]), N)
    BY <2>1, RunsStay
  <2> QED BY <2>2 DEF Runs
<1>4. f \in [A \X (1 .. n) -> A]
  <2> HIDE DEF A
  <2> QED BY <1>3
<1>5. PICK h \in [SUBSET (1 .. n) -> A] : Folds(h, f, c, n)
  <2> HIDE DEF f, A
  <2> QED BY <1>1, <1>2, <1>4, FoldExists
<1>6. Eq(h)
  <2>1. ASSUME NEW S \in SUBSET (1 .. n), S # {}
        PROVE  f[<<h[S \ {Max(S)}], Max(S)>>] = Carve(h[S \ {Max(S)}], exs[Max(S)])
    <3>1. Max(S) \in 1 .. n /\ S \ {Max(S)} \in SUBSET (1 .. n)
      BY <1>1, <2>1, MaxUpTo
    <3>3. h[S \ {Max(S)}] \in A
      BY <3>1, <1>5
    <3> HIDE DEF A
    <3> QED BY <3>1, <3>3
  <2> HIDE DEF f
  <2> QED BY <1>5, <2>1 DEF Folds
<1> DEFINE H == CHOOSE g : Eq(g)
<1> HIDE DEF f, A
<1>7. Eq(H)
  BY <1>6, Zenon
<1>8. FoldLeft(Carve, c, exs) = H[1 .. n]
  BY <1>1, Zenon DEF FoldLeft, MapThenFoldSet
<1> HIDE DEF H
<1> DEFINE T == [k \in 0 .. n |-> H[1 .. k]]
<1>9. T[0] = c /\ T[n] = H[1 .. n]
  <2>1. 1 .. 0 = {} /\ {} \in SUBSET (1 .. n) /\ 0 \in 0 .. n /\ n \in 0 .. n
    BY <1>1
  <2> QED BY <1>7, <2>1
<1>10. ASSUME NEW k \in 1 .. n PROVE T[k] = Carve(T[k - 1], exs[k])
  <2>1. /\ 1 .. k \in SUBSET (1 .. n) /\ 1 .. k # {} /\ Max(1 .. k) = k
        /\ (1 .. k) \ {k} = 1 .. k - 1 /\ k \in 0 .. n /\ k - 1 \in 0 .. n
    <3>1. k \in 0 .. n /\ k - 1 \in 0 .. n
      OBVIOUS
    <3> QED BY <3>1, UpToSets
  <2> QED BY <1>7, <2>1
<1> HIDE DEF T
<1>11. CarvedOut(T, c, exs, n, FoldLeft(Carve, c, exs))
  BY <1>8, <1>9, <1>10 DEF CarvedOut
<1> QED BY <1>11

(* What is left of F, and what is left of it for certain. *)
CutBy(x, u) == Cut(u, x[1], saturating(x[1] + x[2]))
Left(F, exs, k) == {u \in F : \A i \in 1 .. k : ~CutBy(exs[i], u)}

CarvedSoFar(N, c, F, exs, n, k, a) ==
  /\ Runs(a, N) /\ a.n = c.n /\ Holds(a, Left(F, exs, k))
  /\ a.live <= c.live + k
  /\ c.live + n <= N /\ Whole(c, F) => Whole(a, Left(F, exs, k))

(* What is left when every exclusion has been carved. *)
LEMMA CarvedIs ==
  ASSUME NEW N \in Nat, NEW c, Runs(c, N), NEW n \in Nat, NEW exs, Excluded(exs, n),
         NEW F \in SUBSET Int, Holds(c, F),
         NEW r, r = FoldLeft(Carve, c, exs)
  PROVE  /\ Runs(r, N) /\ r.n = c.n /\ Holds(r, Left(F, exs, n))
         /\ c.live + n <= N /\ Whole(c, F) => Whole(r, Left(F, exs, n))
<1>1. PICK T : CarvedOut(T, c, exs, n, r)
  BY CarvedSteps
<1>2. n \in Nat /\ exs \in [1 .. n -> Int \X Int]
  BY DEF Excluded
<1>3. c.live \in Nat
  BY DEF Runs, Filling
<1> DEFINE Good == {k \in 0 .. n : CarvedSoFar(N, c, F, exs, n, k, T[k])}
<1>4. 0 \in Good
  <2>1. Left(F, exs, 0) = F
    BY DEF Left
  <2>2. T[0] = c
    BY <1>1 DEF CarvedOut
  <2>3. T[0].live <= c.live + 0
    BY <1>3, <2>2
  <2> QED BY <1>2, <2>1, <2>2, <2>3 DEF CarvedSoFar
<1>5. ASSUME NEW k \in 0 .. n, k # n, k \in Good PROVE k + 1 \in Good
  <2>1. k + 1 \in 1 .. n /\ (k + 1) - 1 = k /\ k + 1 \in 0 .. n
    BY <1>2, <1>5
  <2>2. PICK from \in Int, len \in Int : exs[k + 1] = <<from, len>>
    BY <1>2, <2>1
  <2>3. PICK a : a = T[k]
    OBVIOUS
  <2>4. PICK b : b = Carve(a, <<from, len>>) /\ b = T[k + 1]
    BY <1>1, <2>1, <2>2, <2>3 DEF CarvedOut
  <2>5. PICK to : to = saturating(from + len)
    OBVIOUS
  <2>6. /\ Runs(a, N) /\ a.n = c.n /\ Holds(a, Left(F, exs, k))
        /\ a.live <= c.live + k
        /\ c.live + n <= N /\ Whole(c, F) => Whole(a, Left(F, exs, k))
    BY <1>5, <2>3 DEF CarvedSoFar
  <2>7. a \in Filling(N) /\ Orderly(a, N) /\ Separate(a) /\ Left(F, exs, k) \in SUBSET Int
    BY <2>6 DEF Runs, Left
  <2>8. /\ b \in Filling(N) /\ Orderly(b, N) /\ b.n = a.n
        /\ b.live = a.live \/ b.live = a.live + 1
        /\ Holds(b, Without(Left(F, exs, k), from, to)) /\ Separate(b)
        /\ a.live < N /\ Whole(a, Left(F, exs, k)) => Whole(b, Without(Left(F, exs, k), from, to))
    BY <2>4, <2>5, <2>6, <2>7, CarveIs
  <2>9. Without(Left(F, exs, k), from, to) = Left(F, exs, k + 1)
    <3>1. \A u : CutBy(exs[k + 1], u) <=> Cut(u, from, to)
      BY <2>2, <2>5 DEF CutBy
    <3>2. \A i : i \in 1 .. k + 1 <=> i \in 1 .. k \/ i = k + 1
      BY <2>1
    <3> QED BY <3>1, <3>2, Zenon DEF Left, Without
  <2>10. a.live \in Nat
    BY <2>7 DEF Filling
  <2>11. b.live <= c.live + (k + 1) /\ (c.live + n <= N => a.live < N)
    BY <1>2, <1>3, <2>1, <2>6, <2>8, <2>10
  <2>12. Runs(b, N)
    BY <2>8 DEF Runs
  <2>13. CarvedSoFar(N, c, F, exs, n, k + 1, b)
    BY <2>6, <2>8, <2>9, <2>11, <2>12 DEF CarvedSoFar
  <2> QED BY <2>1, <2>4, <2>13
<1> HIDE DEF Good
<1>7. n \in Good
  BY <1>4, <1>5, UpToBound
<1>8. CarvedSoFar(N, c, F, exs, n, n, r)
  BY <1>1, <1>7 DEF Good, CarvedOut
<1> QED BY <1>8 DEF CarvedSoFar

(* The numbers 1 .. m are matched with the members of S, one with one. *)
Matches(g, m, S) ==
  /\ g \in [1 .. m -> S]
  /\ \A x, y \in 1 .. m : g[x] = g[y] => x = y
  /\ \A s \in S : \E x \in 1 .. m : g[x] = s

MatchedWith(g, m, s) == [x \in 1 .. m + 1 |-> IF x = m + 1 THEN s ELSE g[x]]

(* One more member, and one more number for it. *)
LEMMA MatchGrows ==
  ASSUME NEW m \in Nat, NEW S, NEW g, Matches(g, m, S), NEW s, s \notin S
  PROVE  Matches(MatchedWith(g, m, s), m + 1, S \cup {s})
<1> DEFINE f == MatchedWith(g, m, s)
<1>0. f = [x \in 1 .. m + 1 |-> IF x = m + 1 THEN s ELSE g[x]]
  BY DEF MatchedWith
<1> HIDE DEF f
<1>1. \A x \in 1 .. m : x \in 1 .. m + 1 /\ x # m + 1
  OBVIOUS
<1>2. \A x \in 1 .. m + 1 : x # m + 1 => x \in 1 .. m
  OBVIOUS
<1>3. f[m + 1] = s /\ \A x \in 1 .. m : f[x] = g[x] /\ g[x] \in S
  BY <1>0, <1>1 DEF Matches
<1>4. f \in [1 .. m + 1 -> S \cup {s}]
  BY <1>0, <1>2, <1>3
<1>5. \A x, y \in 1 .. m + 1 : f[x] = f[y] => x = y
  BY <1>2, <1>3 DEF Matches
<1>6. \A t \in S \cup {s} : \E x \in 1 .. m + 1 : f[x] = t
  BY <1>1, <1>3 DEF Matches
<1>7. Matches(f, m + 1, S \cup {s})
  BY <1>4, <1>5, <1>6 DEF Matches
<1> QED BY <1>7 DEF f

(* The runs filled are the usable regions, one each, as far as there is room. *)
UsableTo(R, k) == {j \in 1 .. k : usable_at_boot(R[j]) /\ R[j].len # 0}
FilledWith(a, R, N, g) ==
  \A m \in 1 .. N : a.out[m] = IF m <= a.n THEN Bounds(R[g[m]]) ELSE <<0, 0>>
FillSoFar(R, N, k, a) ==
  /\ a \in Filling(N) /\ a.live = 0
  /\ \E g : Matches(g, a.n, UsableTo(R, k)) /\ FilledWith(a, R, N, g)

(* One more region is filled in, or passed over. *)
LEMMA FillStep ==
  ASSUME NEW n, NEW R, Regions(R, n), NEW N \in Nat, NEW k \in Nat, k + 1 <= n,
         NEW a, FillSoFar(R, N, k, a)
  PROVE  FillSoFar(R, N, k + 1, FillRun(a, R[k + 1]))
<1>1. PICK o \in [1 .. N -> Int \X Int], m \in Nat : a = [out |-> o, live |-> 0, n |-> m]
  BY DEF FillSoFar, Filling
<1>2. PICK g : Matches(g, m, UsableTo(R, k)) /\ FilledWith(a, R, N, g)
  BY <1>1 DEF FillSoFar
<1>3. PICK r \in Reg : r = R[k + 1]
  BY DEF Regions
<1>4. CASE ~usable_at_boot(r) \/ r.len = 0
  <2>1. FillRun(a, r) = a
    BY <1>4 DEF FillRun
  <2>2. UsableTo(R, k + 1) = UsableTo(R, k)
    BY <1>3, <1>4 DEF UsableTo
  <2> QED BY <1>3, <2>1, <2>2 DEF FillSoFar
<1>5. CASE usable_at_boot(r) /\ r.len # 0
  <2>1. PICK q : q = IF m < N THEN [o EXCEPT ![m + 1] = Bounds(r)] ELSE o
    OBVIOUS
  <2>2. Len(o) = N
    OBVIOUS
  <2>3. FillRun(a, r) = [out |-> q, live |-> 0, n |-> m + 1]
    BY <1>1, <1>5, <2>1, <2>2 DEF FillRun
  <2>4. Bounds(r) \in Int \X Int
    BY PagesNat DEF Bounds, end, saturating, Reg
  <2>5. q \in [1 .. N -> Int \X Int]
    BY <2>1, <2>4
  <2>6. UsableTo(R, k + 1) = UsableTo(R, k) \cup {k + 1} /\ k + 1 \notin UsableTo(R, k)
    BY <1>3, <1>5 DEF UsableTo
  <2>7. PICK f : f = MatchedWith(g, m, k + 1)
    OBVIOUS
  <2>8. Matches(f, m + 1, UsableTo(R, k + 1)) /\ f[m + 1] = k + 1 /\ \A x \in 1 .. m : f[x] = g[x]
    <3>1. PICK S, s : S = UsableTo(R, k) /\ s = k + 1
      OBVIOUS
    <3>2. Matches(g, m, S) /\ s \notin S /\ f = MatchedWith(g, m, s)
      BY <1>2, <2>6, <2>7, <3>1
    <3>3. Matches(f, m + 1, S \cup {s})
      BY <3>2, MatchGrows
    <3>4. f = [x \in 1 .. m + 1 |-> IF x = m + 1 THEN s ELSE g[x]]
      BY <3>2 DEF MatchedWith
    <3>5. f[m + 1] = s /\ \A x \in 1 .. m : f[x] = g[x]
      BY <3>4
    <3> QED BY <2>6, <3>1, <3>3, <3>5
  <2>9. PICK b : b = [out |-> q, live |-> 0, n |-> m + 1]
    OBVIOUS
  <2>10. ASSUME NEW j \in 1 .. N
         PROVE  q[j] = IF j <= m + 1 THEN Bounds(R[f[j]]) ELSE <<0, 0>>
    <3>1. o[j] = IF j <= m THEN Bounds(R[g[j]]) ELSE <<0, 0>>
      BY <1>1, <1>2 DEF FilledWith
    <3>2. CASE j = m + 1
      BY <1>3, <2>1, <2>8, <3>2
    <3>3. CASE j # m + 1
      <4>1. q[j] = o[j] /\ (j <= m + 1 <=> j <= m)
        BY <2>1, <3>3
      <4>2. j <= m => f[j] = g[j]
        BY <2>8
      <4> QED BY <3>1, <4>1, <4>2
    <3> QED BY <3>2, <3>3
  <2>11. b.out = q /\ b.n = m + 1 /\ b.live = 0 /\ b \in Filling(N)
    BY <2>5, <2>9 DEF Filling
  <2>12. FilledWith(b, R, N, f)
    BY <2>10, <2>11 DEF FilledWith
  <2> QED BY <1>3, <2>3, <2>8, <2>9, <2>11, <2>12 DEF FillSoFar
<1> QED BY <1>4, <1>5

(* What is filled in when every region has been looked at. *)
LEMMA FilledIs ==
  ASSUME NEW n, NEW R, Regions(R, n), NEW N \in Nat, NEW c, c = Filled(R, N)
  PROVE  /\ c \in Filling(N) /\ c.live = Least(c.n, N)
         /\ \E g : Matches(g, c.n, UsableTo(R, n)) /\ FilledWith(c, R, N, g)
<1>1. PICK T : /\ T[0] = NoRuns(N)
               /\ \A k \in 1 .. n : T[k] = FillRun(T[k - 1], R[k])
               /\ FoldLeft(FillRun, NoRuns(N), R) = T[n]
  BY FillSteps
<1>2. n \in Nat
  BY DEF Regions
<1> DEFINE Good == {k \in 0 .. n : FillSoFar(R, N, k, T[k])}
<1>3. 0 \in Good
  <2>1. PICK g : g = [x \in 1 .. 0 |-> 0]
    OBVIOUS
  <2>2. UsableTo(R, 0) = {}
    BY DEF UsableTo
  <2>3. Matches(g, 0, {})
    BY <2>1 DEF Matches
  <2>4. PICK a : a = [out |-> [i \in 1 .. N |-> <<0, 0>>], live |-> 0, n |-> 0]
    OBVIOUS
  <2>5. a.n = 0 /\ a.live = 0 /\ a.out = [i \in 1 .. N |-> <<0, 0>>] /\ a \in Filling(N)
    BY <2>4 DEF Filling
  <2>6. FilledWith(a, R, N, g)
    BY <2>5 DEF FilledWith
  <2>7. T[0] = a
    BY <1>1, <2>4 DEF NoRuns
  <2>8. FillSoFar(R, N, 0, a)
    BY <2>2, <2>3, <2>5, <2>6 DEF FillSoFar
  <2> QED BY <1>2, <2>7, <2>8
<1>4. ASSUME NEW k \in 0 .. n, k # n, k \in Good PROVE k + 1 \in Good
  <2>1. k + 1 \in 1 .. n /\ k + 1 <= n /\ k \in Nat /\ (k + 1) - 1 = k /\ k + 1 \in 0 .. n
    BY <1>2, <1>4
  <2>2. T[k + 1] = FillRun(T[k], R[k + 1])
    BY <1>1, <2>1
  <2>3. FillSoFar(R, N, k, T[k])
    BY <1>4
  <2>4. FillSoFar(R, N, k + 1, T[k + 1])
    BY <2>1, <2>2, <2>3, FillStep
  <2> QED BY <2>1, <2>4
<1> HIDE DEF Good
<1>5. n \in Good
  BY <1>2, <1>3, <1>4, UpToBound
<1>6. FillSoFar(R, N, n, T[n])
  BY <1>5 DEF Good
<1>7. PICK o \in [1 .. N -> Int \X Int], m \in Nat : T[n] = [out |-> o, live |-> 0, n |-> m]
  BY <1>6 DEF FillSoFar, Filling
<1>8. c = [out |-> o, live |-> Least(m, N), n |-> m]
  BY <1>1, <1>7 DEF Filled
<1>9. Least(m, N) \in Nat
  BY DEF Least
<1>10. PICK g : Matches(g, m, UsableTo(R, n)) /\ FilledWith(T[n], R, N, g)
  BY <1>6, <1>7 DEF FillSoFar
<1>11. c.out = T[n].out /\ c.n = T[n].n /\ c.n = m /\ c.live = Least(m, N)
  BY <1>7, <1>8
<1>12. FilledWith(c, R, N, g)
  BY <1>10, <1>11 DEF FilledWith
<1>13. c \in Filling(N)
  BY <1>8, <1>9 DEF Filling
<1> QED BY <1>10, <1>11, <1>12, <1>13

(* The runs kept are those that are not empty, one each. *)
NotEmpty(c, k) == {i \in 1 .. k : Length(c.out[i]) > 0}
KeptAs(a, c, g) == \A x \in 1 .. a.kept : a.out[x] = <<c.out[g[x]][1], Length(c.out[g[x]])>>
KeepSoFar(N, c, k, a) ==
  /\ a \in Keeping(N) /\ a.kept <= k
  /\ \A i \in 1 .. N : i > k => a.out[i] = c.out[i]
  /\ \E g : Matches(g, a.kept, NotEmpty(c, k)) /\ KeptAs(a, c, g)

(* One more piece is kept, or was empty. *)
LEMMA KeepStep ==
  ASSUME NEW N \in Nat, NEW c \in Filling(N), c.live <= N, NEW k \in Nat, k + 1 <= c.live,
         NEW a, KeepSoFar(N, c, k, a)
  PROVE  KeepSoFar(N, c, k + 1, Keep(a, k + 1))
<1>0. PICK co \in [1 .. N -> Int \X Int], live \in Nat, n \in Nat : c = [out |-> co, live |-> live, n |-> n]
  BY DEF Filling
<1>1. PICK o \in [1 .. N -> Int \X Int], m \in Nat : a = [out |-> o, kept |-> m]
  BY DEF KeepSoFar, Keeping
<1>2. PICK g : Matches(g, m, NotEmpty(c, k)) /\ KeptAs(a, c, g)
  BY <1>1 DEF KeepSoFar
<1>3. PICK i \in 1 .. N : i = k + 1
  BY <1>0
<1>4. m <= k /\ \A x \in 1 .. N : x > k => o[x] = co[x]
  BY <1>0, <1>1 DEF KeepSoFar
<1>5. o[i] = co[i] /\ co[i] \in Int \X Int
  BY <1>3, <1>4
<1>6. Length(co[i]) \in Int
  BY <1>5 DEF Length
<1>9. c.out[k + 1] = co[i] /\ \A x : x \in 1 .. k + 1 <=> x \in 1 .. k \/ x = k + 1
  BY <1>0, <1>3
<1>10. k + 1 \notin 1 .. k
  OBVIOUS
<1>7. CASE ~(Length(co[i]) > 0)
  <2>1. Keep(a, i) = a
    BY <1>1, <1>5, <1>7 DEF Keep
  <2>2. NotEmpty(c, k + 1) = NotEmpty(c, k)
    BY <1>7, <1>9 DEF NotEmpty
  <2>3. a.kept <= k + 1 /\ \A x \in 1 .. N : x > k + 1 => a.out[x] = c.out[x]
    BY <1>0, <1>1, <1>4
  <2>4. a \in Keeping(N)
    BY DEF KeepSoFar
  <2> QED BY <1>1, <1>2, <1>3, <2>1, <2>2, <2>3, <2>4 DEF KeepSoFar
<1>8. CASE Length(co[i]) > 0
  <2>1. PICK v : v = <<co[i][1], Length(co[i])>>
    OBVIOUS
  <2>2. v \in Int \X Int
    BY <1>5, <1>6, <2>1
  <2>3. PICK q : q = [o EXCEPT ![m + 1] = v]
    OBVIOUS
  <2>4. Keep(a, i) = [out |-> q, kept |-> m + 1]
    BY <1>1, <1>5, <1>8, <2>1, <2>3 DEF Keep
  <2>5. NotEmpty(c, k + 1) = NotEmpty(c, k) \cup {k + 1} /\ k + 1 \notin NotEmpty(c, k)
    BY <1>8, <1>9, <1>10, Zenon DEF NotEmpty
  <2>6. PICK f : f = MatchedWith(g, m, k + 1)
    OBVIOUS
  <2>7. Matches(f, m + 1, NotEmpty(c, k + 1)) /\ f[m + 1] = k + 1 /\ \A x \in 1 .. m : f[x] = g[x]
    <3>1. PICK S, s : S = NotEmpty(c, k) /\ s = k + 1
      OBVIOUS
    <3>2. Matches(g, m, S) /\ s \notin S /\ f = MatchedWith(g, m, s)
      BY <1>2, <2>5, <2>6, <3>1
    <3>3. Matches(f, m + 1, S \cup {s})
      BY <3>2, MatchGrows
    <3>4. f = [x \in 1 .. m + 1 |-> IF x = m + 1 THEN s ELSE g[x]]
      BY <3>2 DEF MatchedWith
    <3>5. f[m + 1] = s /\ \A x \in 1 .. m : f[x] = g[x]
      BY <3>4
    <3> QED BY <2>5, <3>1, <3>3, <3>5
  <2>8. PICK b : b = [out |-> q, kept |-> m + 1]
    OBVIOUS
  <2>9. q \in [1 .. N -> Int \X Int]
    BY <2>2, <2>3
  <2>10. b.out = q /\ b.kept = m + 1 /\ b \in Keeping(N)
    BY <2>8, <2>9 DEF Keeping
  <2>11. m + 1 \in 1 .. N /\ m + 1 <= k + 1
    BY <1>3, <1>4
  <2>12. \A x \in 1 .. N : x > k + 1 => q[x] = co[x]
    BY <1>4, <2>3, <2>11
  <2>13. ASSUME NEW x \in 1 .. m + 1 PROVE q[x] = <<c.out[f[x]][1], Length(c.out[f[x]])>>
    <3>1. CASE x = m + 1
      BY <1>0, <1>3, <2>1, <2>3, <2>7, <2>11, <3>1
    <3>2. CASE x # m + 1
      <4>1. x \in 1 .. m /\ q[x] = o[x] /\ f[x] = g[x]
        BY <2>3, <2>7, <2>11, <3>2
      <4>2. o[x] = <<c.out[g[x]][1], Length(c.out[g[x]])>>
        BY <1>1, <1>2, <4>1 DEF KeptAs
      <4> QED BY <4>1, <4>2
    <3> QED BY <3>1, <3>2
  <2>14. KeptAs(b, c, f)
    BY <2>10, <2>13 DEF KeptAs
  <2>15. c.out = co
    BY <1>0
  <2> QED BY <1>3, <2>4, <2>7, <2>8, <2>10, <2>11, <2>12, <2>14, <2>15 DEF KeepSoFar
<1> QED BY <1>6, <1>7, <1>8

(* What is kept when every piece has been looked at. *)
LEMMA CompactedIs ==
  ASSUME NEW N \in Nat, NEW c \in Filling(N), c.live <= N, NEW a, a = Compacted(c)
  PROVE  KeepSoFar(N, c, c.live, a)
<1>1. PICK T : /\ T[0] = [out |-> c.out, kept |-> 0]
               /\ \A k \in 1 .. c.live : T[k] = Keep(T[k - 1], k)
               /\ Compacted(c) = T[c.live]
  BY KeepSteps
<1>2. PICK n \in Nat : n = c.live
  BY DEF Filling
<1> DEFINE Good == {k \in 0 .. n : KeepSoFar(N, c, k, T[k])}
<1>3. 0 \in Good
  <2>1. PICK g : g = [x \in 1 .. 0 |-> 0]
    OBVIOUS
  <2>2. NotEmpty(c, 0) = {}
    BY DEF NotEmpty
  <2>3. Matches(g, 0, {})
    BY <2>1 DEF Matches
  <2>4. PICK b : b = [out |-> c.out, kept |-> 0]
    OBVIOUS
  <2>5. b.kept = 0 /\ b.out = c.out /\ b \in Keeping(N)
    BY <2>4 DEF Keeping, Filling
  <2>6. KeptAs(b, c, g)
    BY <2>5 DEF KeptAs
  <2>7. KeepSoFar(N, c, 0, b)
    BY <2>2, <2>3, <2>5, <2>6 DEF KeepSoFar
  <2> QED BY <1>1, <1>2, <2>4, <2>7
<1>4. ASSUME NEW k \in 0 .. n, k # n, k \in Good PROVE k + 1 \in Good
  <2>1. k + 1 \in 1 .. c.live /\ k + 1 <= c.live /\ k \in Nat /\ (k + 1) - 1 = k /\ k + 1 \in 0 .. n
    BY <1>2, <1>4
  <2>2. T[k + 1] = Keep(T[k], k + 1)
    BY <1>1, <2>1
  <2>3. KeepSoFar(N, c, k, T[k])
    BY <1>4
  <2>4. KeepSoFar(N, c, k + 1, T[k + 1])
    BY <2>1, <2>2, <2>3, KeepStep
  <2> QED BY <2>1, <2>4
<1> HIDE DEF Good
<1>5. n \in Good
  BY <1>2, <1>3, <1>4, UpToBound
<1> QED BY <1>1, <1>2, <1>5 DEF Good

(* What a caller takes, when every run found had a place, or all were kept. *)
LEMMA TakenIs ==
  ASSUME NEW N \in Nat, NEW c \in Filling(N), c.live <= N,
         NEW f, f = FreeRuns(c, Compacted(c))
  PROVE  \E m \in 0 .. N : \E g :
           /\ Matches(g, m, NotEmpty(c, c.live))
           /\ f.found = m + Greatest(c.n - N, 0)
           /\ c.n <= N \/ m = N =>
                /\ DOMAIN Taken(f) = 1 .. m /\ Len(Taken(f)) = m
                /\ \A x \in 1 .. m : Taken(f)[x] = <<c.out[g[x]][1], Length(c.out[g[x]])>>
<1>1. PICK a : a = Compacted(c)
  OBVIOUS
<1>2. KeepSoFar(N, c, c.live, a)
  BY <1>1, CompactedIs
<1>3. PICK o \in [1 .. N -> Int \X Int], m \in Nat : a = [out |-> o, kept |-> m]
  BY <1>2 DEF KeepSoFar, Keeping
<1>4. PICK g : Matches(g, m, NotEmpty(c, c.live)) /\ KeptAs(a, c, g)
  BY <1>2, <1>3 DEF KeepSoFar
<1>5. m <= c.live /\ c.live \in Nat /\ m \in 0 .. N
  <2>1. c.live \in Nat
    BY DEF Filling
  <2>2. m <= c.live
    BY <1>2, <1>3 DEF KeepSoFar
  <2> QED BY <2>1, <2>2
<1>6. PICK d \in Nat : d = Greatest(c.n - N, 0) /\ (c.n <= N => d = 0) /\ Len(c.out) = N
  <2>1. Len(c.out) = N /\ c.n \in Nat
    BY DEF Filling
  <2>2. PICK e \in Int : e = c.n - N
    BY <2>1
  <2> QED BY <2>1, <2>2 DEF Greatest
<1>7. f = [out |-> o, found |-> m + d]
  <2>1. f = [out |-> a.out, found |-> a.kept + Greatest(c.n - Len(c.out), 0)]
    BY <1>1 DEF FreeRuns
  <2> QED BY <1>3, <1>6, <2>1
<1>8. Len(o) = N
  OBVIOUS
<1>9. ASSUME c.n <= N \/ m = N
      PROVE  /\ DOMAIN Taken(f) = 1 .. m /\ Len(Taken(f)) = m
             /\ \A x \in 1 .. m : Taken(f)[x] = <<c.out[g[x]][1], Length(c.out[g[x]])>>
  <2>1. Least(m + d, N) = m
    BY <1>5, <1>6, <1>9 DEF Least
  <2>2. Taken(f) = [x \in 1 .. m |-> o[x]]
    BY <1>7, <1>8, <2>1 DEF Taken
  <2>3. \A x \in 1 .. m : o[x] \in Int \X Int
    BY <1>5
  <2>4. DOMAIN Taken(f) = 1 .. m /\ Len(Taken(f)) = m /\ \A x \in 1 .. m : Taken(f)[x] = o[x]
    BY <2>2, <2>3, <1>5
  <2>5. \A x \in 1 .. m : o[x] = <<c.out[g[x]][1], Length(c.out[g[x]])>>
    BY <1>3, <1>4 DEF KeptAs
  <2> QED BY <2>2, <2>4, <2>5
<1>10. f.found = m + Greatest(c.n - N, 0)
  BY <1>6, <1>7
<1> QED BY <1>4, <1>5, <1>9, <1>10, Zenon

(* As many numbers as members. *)
LEMMA MatchCounts ==
  ASSUME NEW m \in Nat, NEW S, NEW g, Matches(g, m, S)
  PROVE  IsFiniteSet(S) /\ Cardinality(S) = m
<1>1. g \in [1 .. m -> S] /\ (\A x, y \in 1 .. m : g[x] = g[y] => x = y)
  BY DEF Matches
<1>2. \A s \in S : \E x \in 1 .. m : g[x] = s
  BY DEF Matches
<1>3. g \in Injection(1 .. m, S)
  BY <1>1 DEF Injection, IsInjective
<1>4. g \in Surjection(1 .. m, S)
  BY <1>1, <1>2 DEF Surjection
<1>5. ExistsBijection(1 .. m, S)
  BY <1>3, <1>4 DEF ExistsBijection, Bijection
<1>6. IsFiniteSet(S)
  BY <1>5, FS_NatBijection
<1>7. Cardinality(S) = m
  BY <1>5, FS_CountingElements
<1> QED BY <1>6, <1>7

(***************************************************************************)
(* The regions handed over.  A usable one is whole pages, of the pages the *)
(* firmware calls conventional, and each of these is in one of them.       *)
(***************************************************************************)
WholePages(r) ==
  \E a \in 0 .. Pages, b \in 0 .. Pages :
    a < b /\ r.start = a * PAGE_SIZE /\ r.len = b * PAGE_SIZE - a * PAGE_SIZE
Regular(R) ==
  \A i \in DOMAIN R : R[i].len > 0 /\ (R[i].kind = "Usable" => WholePages(R[i]))

(* The pages from a up to b. *)
LEMMA PageBounds ==
  ASSUME NEW r \in Reg, NEW a \in 0 .. Pages, NEW b \in 0 .. Pages, a < b,
         r.start = a * PAGE_SIZE, r.len = b * PAGE_SIZE - a * PAGE_SIZE
  PROVE  /\ end(r) = b * PAGE_SIZE /\ Bounds(r) = <<a * PAGE_SIZE, b * PAGE_SIZE>>
         /\ a * PAGE_SIZE \in Nat /\ b * PAGE_SIZE \in Nat /\ a * PAGE_SIZE < b * PAGE_SIZE
         /\ b * PAGE_SIZE <= ADDR_MAX
<1>1. a * PAGE_SIZE \in Nat /\ b * PAGE_SIZE \in Nat
  BY PagesNat
<1>2. b * PAGE_SIZE <= Pages * PAGE_SIZE /\ a * PAGE_SIZE < b * PAGE_SIZE
  BY PagesNat, Multiples
<1>3. Pages * PAGE_SIZE \in Nat /\ Pages * PAGE_SIZE <= ADDR_MAX
  BY PagesNat
<1>4. PICK x \in Nat, y \in Nat : x = a * PAGE_SIZE /\ y = b * PAGE_SIZE
  BY <1>1
<1>5. PICK z \in Nat : z = Pages * PAGE_SIZE
  BY <1>3
<1>6. x < y /\ y <= z /\ z <= ADDR_MAX /\ ADDR_MAX \in Nat
  BY <1>2, <1>3, <1>4, <1>5, PagesNat
<1>7. r.start + r.len = y /\ y <= ADDR_MAX
  BY <1>4, <1>6
<1>8. end(r) = y
  BY <1>6, <1>7 DEF end, saturating
<1> QED BY <1>4, <1>6, <1>7, <1>8 DEF Bounds

(* A unit between two page bounds is in a page between them. *)
LEMMA PageOfUnit ==
  ASSUME NEW a \in 0 .. Pages, NEW b \in 0 .. Pages, NEW u \in Int,
         a * PAGE_SIZE <= u, u < b * PAGE_SIZE
  PROVE  \E p \in PhysPage : a <= p /\ p < b /\ p * PAGE_SIZE <= u /\ u < (p + 1) * PAGE_SIZE
                             /\ p = u \div PAGE_SIZE
<1>1. u \in Nat
  BY PagesNat
<1>2. PICK p : p = u \div PAGE_SIZE
  OBVIOUS
<1>3. p \in Nat /\ u % PAGE_SIZE \in 0 .. PAGE_SIZE - 1 /\ u = p * PAGE_SIZE + (u % PAGE_SIZE)
  BY <1>1, <1>2, PagesNat, Quotient
<1>4. p * PAGE_SIZE \in Nat /\ (p + 1) * PAGE_SIZE = p * PAGE_SIZE + PAGE_SIZE
  BY <1>3, PagesNat
<1>5. p * PAGE_SIZE <= u /\ u < (p + 1) * PAGE_SIZE
  BY <1>3, <1>4, PagesNat
<1>6. p < b
  <2>1. p * PAGE_SIZE < b * PAGE_SIZE
    BY <1>1, <1>4, <1>5, PagesNat
  <2> QED BY <2>1, <1>3, PagesNat, Multiples
<1>7. a < p + 1
  <2>1. a * PAGE_SIZE < (p + 1) * PAGE_SIZE
    BY <1>1, <1>4, <1>5, PagesNat
  <2> QED BY <2>1, <1>3, PagesNat, Multiples
<1> QED BY <1>2, <1>3, <1>5, <1>6, <1>7, PagesNat DEF PhysPage

(* Conventional pages are usable, and nothing else is. *)
LEMMA UsableIs == \A ty : classify(ty) = "Usable" <=> ty = "CONVENTIONAL"
BY DEF classify

(* A usable region, as the firmware would have it. *)
LEMMA UsableRegion ==
  ASSUME Firmware, Entered, HandsOverTheTruth, info.regions \in Seq(Reg), Regular(info.regions),
         NEW i \in DOMAIN info.regions, info.regions[i].kind = "Usable",
         NEW a \in 0 .. Pages, NEW b \in 0 .. Pages, a < b,
         info.regions[i].start = a * PAGE_SIZE,
         info.regions[i].len = b * PAGE_SIZE - a * PAGE_SIZE
  PROVE  \A p \in PhysPage : /\ i \in CountedIn(p) <=> a <= p /\ p < b
                             /\ i \in CountedIn(p) => ram[p] = "CONVENTIONAL" /\ CountedIn(p) = {i}
<1> SUFFICES ASSUME NEW p \in PhysPage
             PROVE  /\ i \in CountedIn(p) <=> a <= p /\ p < b
                    /\ i \in CountedIn(p) => ram[p] = "CONVENTIONAL" /\ CountedIn(p) = {i}
  OBVIOUS
<1>1. info.regions[i] \in Reg
  OBVIOUS
<1>2. end(info.regions[i]) = b * PAGE_SIZE
  BY <1>1, PageBounds
<1>3. i \in CountedIn(p) <=> a * PAGE_SIZE <= p * PAGE_SIZE /\ p * PAGE_SIZE < b * PAGE_SIZE
  BY <1>2 DEF CountedIn
<1>4. p \in Int
  BY DEF PhysPage
<1>5. i \in CountedIn(p) <=> a <= p /\ p < b
  BY <1>3, <1>4, PagesNat, Multiples
<1>6. ASSUME i \in CountedIn(p) PROVE ram[p] = "CONVENTIONAL" /\ CountedIn(p) = {i}
  <2>1. IF ram[p] = "HOLE" THEN CountedIn(p) = {}
        ELSE \E j \in CountedIn(p) : CountedIn(p) = {j} /\ info.regions[j].kind = classify(ram[p])
    BY DEF HandsOverTheTruth
  <2>2. PICK j \in CountedIn(p) : CountedIn(p) = {j} /\ info.regions[j].kind = classify(ram[p])
    BY <1>6, <2>1
  <2>3. j = i
    BY <1>6, <2>2
  <2> QED BY <2>2, <2>3, UsableIs
<1> QED BY <1>5, <1>6

(* The regions handed over, as mem::init reads them. *)
UsableIndex == {j \in DOMAIN info.regions : info.regions[j].kind = "Usable"}
RegionsHold ==
  /\ Firmware /\ Entered /\ HandsOverTheTruth
  /\ info.regions \in Seq(Reg) /\ Regular(info.regions)

(* Where a usable region begins and ends, in pages. *)
LEMMA UsableBounds ==
  ASSUME RegionsHold, NEW i \in UsableIndex
  PROVE  \E a \in 0 .. Pages, b \in 0 .. Pages :
           /\ a < b
           /\ info.regions[i].start = a * PAGE_SIZE
           /\ info.regions[i].len = b * PAGE_SIZE - a * PAGE_SIZE
           /\ end(info.regions[i]) = b * PAGE_SIZE
           /\ Bounds(info.regions[i]) = <<a * PAGE_SIZE, b * PAGE_SIZE>>
           /\ a * PAGE_SIZE \in Nat /\ b * PAGE_SIZE \in Nat /\ a * PAGE_SIZE < b * PAGE_SIZE
           /\ b * PAGE_SIZE <= ADDR_MAX
           /\ \A p \in PhysPage : /\ i \in CountedIn(p) <=> a <= p /\ p < b
                                  /\ i \in CountedIn(p) => ram[p] = "CONVENTIONAL" /\ CountedIn(p) = {i}
<1>1. i \in DOMAIN info.regions /\ info.regions[i].kind = "Usable" /\ info.regions \in Seq(Reg)
  BY DEF RegionsHold, UsableIndex
<1>2. WholePages(info.regions[i])
  BY <1>1 DEF RegionsHold, Regular
<1>3. PICK a \in 0 .. Pages, b \in 0 .. Pages :
        /\ a < b /\ info.regions[i].start = a * PAGE_SIZE
        /\ info.regions[i].len = b * PAGE_SIZE - a * PAGE_SIZE
  BY <1>2 DEF WholePages
<1>4. info.regions[i] \in Reg
  BY <1>1
<1>5. /\ end(info.regions[i]) = b * PAGE_SIZE
      /\ Bounds(info.regions[i]) = <<a * PAGE_SIZE, b * PAGE_SIZE>>
      /\ a * PAGE_SIZE \in Nat /\ b * PAGE_SIZE \in Nat /\ a * PAGE_SIZE < b * PAGE_SIZE
      /\ b * PAGE_SIZE <= ADDR_MAX
  BY <1>3, <1>4, PageBounds
<1>6. \A p \in PhysPage : /\ i \in CountedIn(p) <=> a <= p /\ p < b
                          /\ i \in CountedIn(p) => ram[p] = "CONVENTIONAL" /\ CountedIn(p) = {i}
  BY <1>1, <1>3, UsableRegion DEF RegionsHold
<1> QED BY <1>3, <1>5, <1>6

(* A unit in a usable region is in a page counted in it, and in no other. *)
LEMMA UnitCounted ==
  ASSUME RegionsHold, NEW i \in UsableIndex, NEW u \in Int, Within(u, Bounds(info.regions[i]))
  PROVE  (u \div PAGE_SIZE) \in PhysPage /\ CountedIn(u \div PAGE_SIZE) = {i} /\ u \in 0 .. ADDR_MAX - 1
<1>1. PICK a \in 0 .. Pages, b \in 0 .. Pages :
        /\ Bounds(info.regions[i]) = <<a * PAGE_SIZE, b * PAGE_SIZE>>
        /\ a * PAGE_SIZE \in Nat /\ b * PAGE_SIZE \in Nat /\ b * PAGE_SIZE <= ADDR_MAX
        /\ \A p \in PhysPage : /\ i \in CountedIn(p) <=> a <= p /\ p < b
                               /\ i \in CountedIn(p) => ram[p] = "CONVENTIONAL" /\ CountedIn(p) = {i}
  BY UsableBounds, Zenon
<1>2. a * PAGE_SIZE <= u /\ u < b * PAGE_SIZE
  BY <1>1 DEF Within
<1>3. PICK p \in PhysPage : a <= p /\ p < b /\ p = u \div PAGE_SIZE
  BY <1>2, PageOfUnit
<1>4. u \in 0 .. ADDR_MAX - 1
  BY <1>1, <1>2, PagesNat
<1> QED BY <1>1, <1>3, <1>4

(* No unit is in two usable regions. *)
LEMMA UsableApart ==
  ASSUME RegionsHold, NEW i \in UsableIndex, NEW j \in UsableIndex, NEW u \in Int,
         Within(u, Bounds(info.regions[i])), Within(u, Bounds(info.regions[j]))
  PROVE  i = j
<1>1. CountedIn(u \div PAGE_SIZE) = {i} /\ CountedIn(u \div PAGE_SIZE) = {j}
  BY UnitCounted
<1> QED BY <1>1

(* The units of the usable regions. *)
UsableUnits == UNION {info.regions[i].start .. end(info.regions[i]) - 1 : i \in UsableIndex}

(* The units of the usable regions are those within one of them. *)
LEMMA UnitsAre ==
  ASSUME RegionsHold
  PROVE  /\ UsableUnits \in SUBSET (0 .. ADDR_MAX - 1)
         /\ \A u \in Int : u \in UsableUnits <=> \E i \in UsableIndex : Within(u, Bounds(info.regions[i]))
<1>1. ASSUME NEW i \in UsableIndex, NEW u
      PROVE  /\ u \in info.regions[i].start .. end(info.regions[i]) - 1
                  <=> u \in Int /\ Within(u, Bounds(info.regions[i]))
             /\ u \in info.regions[i].start .. end(info.regions[i]) - 1 => u \in 0 .. ADDR_MAX - 1
  <2>1. PICK a \in 0 .. Pages, b \in 0 .. Pages :
          /\ info.regions[i].start = a * PAGE_SIZE /\ end(info.regions[i]) = b * PAGE_SIZE
          /\ Bounds(info.regions[i]) = <<a * PAGE_SIZE, b * PAGE_SIZE>>
          /\ a * PAGE_SIZE \in Nat /\ b * PAGE_SIZE \in Nat /\ b * PAGE_SIZE <= ADDR_MAX
    BY UsableBounds, Zenon
  <2>2. PICK x \in Nat, y \in Nat : x = a * PAGE_SIZE /\ y = b * PAGE_SIZE
    BY <2>1
  <2>3. Within(u, Bounds(info.regions[i])) <=> x <= u /\ u < y
    BY <2>1, <2>2 DEF Within
  <2>4. u \in info.regions[i].start .. end(info.regions[i]) - 1 <=> u \in x .. y - 1
    BY <2>1, <2>2
  <2>5. y <= ADDR_MAX
    BY <2>1, <2>2
  <2> QED BY <2>2, <2>3, <2>4, <2>5, PagesNat
<1> QED BY <1>1 DEF UsableUnits

(* The usable regions, all of some length, are as many as are counted. *)
LEMMA UsableToIs ==
  ASSUME RegionsHold
  PROVE  /\ UsableTo(info.regions, Len(info.regions)) = UsableIndex
         /\ Regions(info.regions, Len(info.regions))
         /\ DOMAIN info.regions = 1 .. Len(info.regions) /\ Len(info.regions) \in Nat
<1>1. PICK R \in Seq(Reg) : R = info.regions
  BY DEF RegionsHold
<1>2. DOMAIN R = 1 .. Len(R) /\ Len(R) \in Nat
  BY <1>1
<1>3. \A j \in DOMAIN R : R[j].len # 0
  BY <1>1 DEF RegionsHold, Regular
<1>4. UsableTo(R, Len(R)) = UsableIndex
  BY <1>1, <1>2, <1>3 DEF UsableTo, UsableIndex, usable_at_boot
<1> QED BY <1>1, <1>2, <1>4 DEF Regions

(* The runs filled: the usable regions, as far as there is room. *)
LEMMA FilledRuns ==
  ASSUME RegionsHold, NEW N \in Nat, NEW c, c = Filled(info.regions, N)
  PROVE  /\ Runs(c, N) /\ c.live = Least(c.n, N) /\ c.n \in Nat
         /\ Holds(c, UsableUnits) /\ (c.n <= N => Whole(c, UsableUnits))
         /\ \E g : /\ Matches(g, c.n, UsableIndex)
                   /\ \A m \in 1 .. c.live : c.out[m] = Bounds(info.regions[g[m]])
<1>1. /\ c \in Filling(N) /\ c.live = Least(c.n, N)
      /\ \E g : Matches(g, c.n, UsableIndex) /\ FilledWith(c, info.regions, N, g)
  BY UsableToIs, FilledIs
<1>2. PICK g : Matches(g, c.n, UsableIndex) /\ FilledWith(c, info.regions, N, g)
  BY <1>1
<1>3. c.n \in Nat /\ c.live \in Nat /\ c.live <= N /\ c.live <= c.n /\ (c.n <= N => c.live = c.n)
  BY <1>1 DEF Filling, Least
<1>4. \A m \in 1 .. c.n : g[m] \in UsableIndex
  BY <1>2 DEF Matches
<1>5. \A m \in 1 .. N : c.out[m] = IF m <= c.n THEN Bounds(info.regions[g[m]]) ELSE <<0, 0>>
  BY <1>2 DEF FilledWith
<1>6. \A m \in 1 .. c.live : c.out[m] = Bounds(info.regions[g[m]]) /\ g[m] \in UsableIndex
  BY <1>3, <1>4, <1>5
<1>7. Orderly(c, N)
  <2> SUFFICES ASSUME NEW j \in 1 .. N PROVE c.out[j][1] <= c.out[j][2]
    BY <1>3 DEF Orderly
  <2>1. CASE j <= c.n
    <3>1. g[j] \in UsableIndex /\ c.out[j] = Bounds(info.regions[g[j]])
      BY <1>3, <1>4, <1>5, <2>1
    <3>2. PICK a \in 0 .. Pages, b \in 0 .. Pages :
            /\ Bounds(info.regions[g[j]]) = <<a * PAGE_SIZE, b * PAGE_SIZE>>
            /\ a * PAGE_SIZE \in Nat /\ b * PAGE_SIZE \in Nat /\ a * PAGE_SIZE < b * PAGE_SIZE
      BY <3>1, UsableBounds, Zenon
    <3> QED BY <3>1, <3>2
  <2>2. CASE ~(j <= c.n)
    BY <1>5, <2>2
  <2> QED BY <2>1, <2>2
<1>8. Separate(c)
  <2> SUFFICES ASSUME NEW i \in 1 .. c.live, NEW j \in 1 .. c.live, NEW u \in Int,
                      Within(u, c.out[i]), Within(u, c.out[j])
               PROVE  i = j
    BY DEF Separate
  <2>1. g[i] = g[j]
    BY <1>6, UsableApart
  <2>2. i \in 1 .. c.n /\ j \in 1 .. c.n
    BY <1>3
  <2> QED BY <1>2, <2>1, <2>2 DEF Matches
<1>9. Holds(c, UsableUnits)
  BY <1>6, UnitsAre DEF Holds
<1>10. ASSUME c.n <= N PROVE Whole(c, UsableUnits)
  <2> SUFFICES ASSUME NEW u \in UsableUnits PROVE \E j \in 1 .. c.live : Within(u, c.out[j])
    BY DEF Whole
  <2>1. u \in Int
    BY UnitsAre
  <2>2. PICK i \in UsableIndex : Within(u, Bounds(info.regions[i]))
    BY <2>1, UnitsAre
  <2>3. PICK m \in 1 .. c.n : g[m] = i
    BY <1>2 DEF Matches
  <2>4. m \in 1 .. c.live
    BY <1>3, <1>10
  <2> QED BY <1>6, <2>2, <2>3, <2>4
<1>11. Runs(c, N)
  BY <1>1, <1>7, <1>8 DEF Runs
<1> QED BY <1>1, <1>2, <1>3, <1>6, <1>9, <1>10, <1>11

(* The usable regions are counted. *)
LEMMA UsableCounted ==
  ASSUME RegionsHold
  PROVE  /\ IsFiniteSet(UsableIndex) /\ UsableRuns = Cardinality(UsableIndex) /\ UsableRuns \in Nat
         /\ \A N \in Nat : Filled(info.regions, N).n = UsableRuns
<1>1. UsableRuns = Cardinality(UsableIndex)
  BY DEF UsableRuns, UsableIndex
<1>2. ASSUME NEW N \in Nat
      PROVE  /\ IsFiniteSet(UsableIndex) /\ Filled(info.regions, N).n = Cardinality(UsableIndex)
             /\ Filled(info.regions, N).n \in Nat
  <2>1. PICK c : c = Filled(info.regions, N)
    OBVIOUS
  <2>2. c.n \in Nat /\ \E g : Matches(g, c.n, UsableIndex)
    BY <2>1, FilledRuns
  <2>3a. PICK n \in Nat : \E g :
          n = c.n /\ Matches(g, n, UsableIndex)
    BY <2>2
  <2>3. PICK g :
          n = c.n /\ Matches(g, n, UsableIndex)
    BY <2>3a
  <2>4. IsFiniteSet(UsableIndex) /\ Cardinality(UsableIndex) = n
    BY <2>3, MatchCounts
  <2> QED BY <2>1, <2>3, <2>4
<1>3. 0 \in Nat
  OBVIOUS
<1> QED BY <1>1, <1>2, <1>3

(* A run taken is what a piece left, as a start and a length. *)
LEMMA RunUnits ==
  ASSUME NEW p \in Int \X Int, NEW run, run = <<p[1], Length(p)>>
  PROVE  \A u : u \in Units(run) <=> u \in Int /\ Within(u, p)
<1>1. run[1] = p[1] /\ run[2] = p[2] - p[1] /\ p[1] \in Int /\ p[2] \in Int
  BY DEF Length
<1>2. run[1] + run[2] = p[2]
  BY <1>1
<1> QED BY <1>1, <1>2 DEF Units, Within

(* What the exclusions leave of the usable units is what is free. *)
LEMMA LeftIsFree ==
  ASSUME RegionsHold, NEW exs, Excluded(exs, 2)
  PROVE  Left(UsableUnits, exs, 2) = FreeUnits(exs)
<1>1. FreeUnits(exs) = UsableUnits \ UNION {Units(exs[i]) : i \in DOMAIN exs}
  BY DEF FreeUnits, UsableUnits, UsableIndex
<1>2. DOMAIN exs = 1 .. 2
  BY DEF Excluded
<1>3. ASSUME NEW u \in UsableUnits, NEW i \in 1 .. 2
      PROVE  CutBy(exs[i], u) <=> u \in Units(exs[i])
  <2>1. u \in 0 .. ADDR_MAX - 1
    BY UnitsAre
  <2>2. PICK x \in Int, y \in Int : exs[i] = <<x, y>>
    BY DEF Excluded
  <2>3. exs[i][1] = x /\ exs[i][2] = y
    BY <2>2
  <2>4. saturating(x + y) = IF x + y > ADDR_MAX THEN ADDR_MAX ELSE x + y
    BY DEF saturating
  <2>5. u < saturating(x + y) <=> u < x + y
    BY <2>1, <2>4, PagesNat
  <2>6. CutBy(exs[i], u) <=> x <= u /\ u < x + y
    BY <2>3, <2>5 DEF CutBy, Cut
  <2>7. u \in Units(exs[i]) <=> x <= u /\ u < x + y
    BY <2>1, <2>3 DEF Units
  <2> QED BY <2>6, <2>7
<1>4. Left(UsableUnits, exs, 2) = {u \in UsableUnits : \A i \in 1 .. 2 : u \notin Units(exs[i])}
  BY <1>3 DEF Left
<1> QED BY <1>1, <1>2, <1>4

(* free_runs answers with what is left, and with all of it if there is room. *)
LEMMA FreeRunsAre ==
  ASSUME RegionsHold, NEW exs, Excluded(exs, 2), Len(exs) = 2, NEW N \in Nat, UsableRuns <= N,
         NEW runs, runs = Taken(free_runs(info.regions, exs, N)),
         NEW free, free = FreeUnits(exs)
  PROVE  RunsAreFree(exs, runs, free, N)
<1>1. PICK c : c = Filled(info.regions, N)
  OBVIOUS
<1>2. /\ Runs(c, N) /\ c.live = Least(c.n, N) /\ Holds(c, UsableUnits)
      /\ (c.n <= N => Whole(c, UsableUnits)) /\ c.n = UsableRuns /\ UsableRuns \in Nat
  BY <1>1, FilledRuns, UsableCounted
<1>3. c.n <= N /\ c.live = UsableRuns /\ Whole(c, UsableUnits)
  BY <1>2 DEF Least
<1>4. PICK F \in SUBSET Int : F = UsableUnits
  BY UnitsAre, PagesNat
<1>5. PICK r : r = FoldLeft(Carve, c, exs)
  OBVIOUS
<1>6. Holds(c, F) /\ Whole(c, F)
  BY <1>2, <1>3, <1>4
<1>7. /\ Runs(r, N) /\ r.n = c.n /\ Holds(r, Left(F, exs, 2))
      /\ c.live + 2 <= N /\ Whole(c, F) => Whole(r, Left(F, exs, 2))
  BY <1>2, <1>5, <1>6, CarvedIs
<1>8. Left(F, exs, 2) = free
  BY <1>4, LeftIsFree
<1>9. PICK f : f = FreeRuns(r, Compacted(r))
  OBVIOUS
<1>10. r = Carved(info.regions, exs, N)
  BY <1>1, <1>5 DEF Carved
<1>11. runs = Taken(f)
  BY <1>9, <1>10 DEF free_runs
<1>12. r \in Filling(N) /\ r.live <= N /\ r.n <= N /\ r.live \in Nat
  BY <1>3, <1>7 DEF Runs, Orderly, Filling
<1>13a. PICK m \in 0 .. N : \E g :
        /\ Matches(g, m, NotEmpty(r, r.live))
        /\ DOMAIN Taken(f) = 1 .. m
        /\ \A x \in 1 .. m : Taken(f)[x] = <<r.out[g[x]][1], Length(r.out[g[x]])>>
  BY <1>9, <1>12, TakenIs
<1>13. PICK g :
        /\ Matches(g, m, NotEmpty(r, r.live))
        /\ DOMAIN Taken(f) = 1 .. m
        /\ \A x \in 1 .. m : Taken(f)[x] = <<r.out[g[x]][1], Length(r.out[g[x]])>>
  BY <1>13a
<1>14. \A x \in 1 .. m : g[x] \in 1 .. r.live /\ r.out[g[x]] \in Int \X Int
  <2> SUFFICES ASSUME NEW x \in 1 .. m PROVE g[x] \in 1 .. r.live /\ r.out[g[x]] \in Int \X Int
    OBVIOUS
  <2>1. g[x] \in 1 .. r.live
    BY <1>13 DEF Matches, NotEmpty
  <2>2. g[x] \in 1 .. N /\ r.out \in [1 .. N -> Int \X Int]
    BY <1>12, <2>1 DEF Filling
  <2> QED BY <2>1, <2>2
<1>15. DOMAIN runs = 1 .. m
  BY <1>11, <1>13
<1>16. ASSUME NEW x \in 1 .. m, NEW u
       PROVE  u \in Units(runs[x]) <=> u \in Int /\ Within(u, r.out[g[x]])
  BY <1>11, <1>13, <1>14, RunUnits
<1>17. ASSUME NEW x \in 1 .. m PROVE Units(runs[x]) \subseteq free
  BY <1>7, <1>8, <1>14, <1>16 DEF Holds
<1>18. ASSUME NEW x \in 1 .. m, NEW y \in 1 .. m, x < y PROVE Units(runs[x]) \cap Units(runs[y]) = {}
  <2> SUFFICES ASSUME NEW u \in Units(runs[x]), u \in Units(runs[y]) PROVE FALSE
    OBVIOUS
  <2>1. u \in Int /\ Within(u, r.out[g[x]]) /\ Within(u, r.out[g[y]])
    BY <1>16
  <2>2. g[x] = g[y]
    BY <1>7, <1>14, <2>1 DEF Runs, Separate
  <2>3. x = y
    BY <1>13, <2>2 DEF Matches
  <2> QED BY <1>18, <2>3
<1>19. ASSUME N >= UsableRuns + Len(exs) PROVE UNION {Units(runs[i]) : i \in DOMAIN runs} = free
  <2>2. Whole(r, free)
    BY <1>2, <1>3, <1>6, <1>7, <1>8, <1>19
  <2>3. ASSUME NEW u \in free PROVE \E i \in DOMAIN runs : u \in Units(runs[i])
    <3>1. u \in Int
      BY <1>4, <1>8 DEF Left
    <3>2. PICK j \in 1 .. r.live : Within(u, r.out[j])
      BY <2>2 DEF Whole
    <3>3. r.out[j][1] \in Int /\ r.out[j][2] \in Int
      <4>1. j \in 1 .. N /\ r.out \in [1 .. N -> Int \X Int]
        BY <1>12, <3>2 DEF Filling
      <4>2. r.out[j] \in Int \X Int
        BY <4>1
      <4> QED BY <4>2
    <3>4. j \in NotEmpty(r, r.live)
      BY <3>1, <3>2, <3>3 DEF NotEmpty, Length, Within
    <3>5. PICK x \in 1 .. m : g[x] = j
      BY <1>13, <3>4 DEF Matches
    <3> QED BY <1>15, <1>16, <3>1, <3>2, <3>5
  <2> QED BY <1>15, <1>17, <2>3
<1> QED BY <1>15, <1>17, <1>18, <1>19 DEF RunsAreFree

(* The pairs of exclusions tried are two runs of units. *)
LEMMA TwoExcluded ==
  ASSUME NEW exs \in TwoExclusions
  PROVE  Excluded(exs, 2) /\ Len(exs) = 2
<1>1. PICK p \in PhysPage, n \in {1, PAGE_SIZE + 1} :
        exs = << <<p * PAGE_SIZE, n>>, <<(p + 2) * PAGE_SIZE + 1, PAGE_SIZE>> >>
  BY DEF TwoExclusions
<1>2. p * PAGE_SIZE \in Int /\ (p + 2) * PAGE_SIZE + 1 \in Int /\ n \in Int /\ PAGE_SIZE \in Int
  BY PagesNat DEF PhysPage
<1>3. PICK x \in Int, y \in Int, z \in Int, w \in Int : exs = << <<x, y>>, <<z, w>> >>
  BY <1>1, <1>2
<1> QED BY <1>3 DEF Excluded

(* free_runs, for exclusions anywhere. *)
LEMMA FreeRunsHold ==
  ASSUME RegionsHold
  PROVE  FreeRunsExact
<1> SUFFICES ASSUME NEW exs \in TwoExclusions, NEW n \in {UsableRuns, UsableRuns + 2}
             PROVE  \E runs \in {Taken(free_runs(info.regions, exs, n))}, free \in {FreeUnits(exs)} :
                      RunsAreFree(exs, runs, free, n)
  BY Zenon DEF FreeRunsExact
<1>1. UsableRuns \in Nat
  BY UsableCounted
<1>2. n \in Nat /\ UsableRuns <= n
  BY <1>1
<1>3. Excluded(exs, 2) /\ Len(exs) = 2
  BY TwoExcluded
<1> QED BY <1>2, <1>3, FreeRunsAre

(***************************************************************************)
(* Free memory is described in whole pages of the map, by the firmware and *)
(* then, coalesced, by convert.                                            *)
(***************************************************************************)
WholeRun(d) ==
  \E s \in 0 .. Pages, t \in 0 .. Pages : s < t /\ d.phys = s * PAGE_SIZE /\ d.pages = t - s
MapRegular(M) ==
  \A i \in DOMAIN M : M[i].ty = "CONVENTIONAL" => M[i].pages = 0 \/ WholeRun(M[i])

(* The firmware's map is of whole pages, where it says conventional. *)
LEMMA FirmwareRegular ==
  ASSUME Firmware
  PROVE  MapRegular(GetMemoryMap)
<1>1. PICK L : L = ReportTo(Pages)
  OBVIOUS
<1>2. Lists(L, Pages)
  BY <1>1, ReportLists
<1>3. L \in Seq(Desc) /\ machine.extra \in Seq(Desc)
  BY <1>2, ExtraAssumption DEF Lists, Desc, Firmware
<1>4. PICK X \in Seq(Desc) : X = machine.extra
  BY <1>3
<1>5. PICK M : M = L \o X
  OBVIOUS
<1>6. GetMemoryMap = M
  BY <1>1, <1>4, <1>5, ReportSteps DEF GetMemoryMap
<1>7. /\ Len(L) \in Nat /\ Len(X) \in Nat
      /\ DOMAIN M = 1 .. Len(L) + Len(X)
      /\ DOMAIN L = 1 .. Len(L) /\ DOMAIN X = 1 .. Len(X)
      /\ \A i \in DOMAIN M : M[i] = IF i <= Len(L) THEN L[i] ELSE X[i - Len(L)]
  BY <1>3, <1>4, <1>5
<1>8. ASSUME NEW i \in DOMAIN M, M[i].ty = "CONVENTIONAL" PROVE M[i].pages = 0 \/ WholeRun(M[i])
  <2>1. CASE i <= Len(L)
    <3>1. i \in DOMAIN L /\ M[i] = L[i]
      BY <1>7, <2>1
    <3>2. PICK j \in 1 .. Pages : Order[j] \in Starts /\ L[i] = Descriptor(Order[j])
      BY <1>2, <3>1 DEF Lists
    <3>3. PICK s \in Starts : M[i] = Descriptor(s)
      BY <3>1, <3>2
    <3>4. s \in PhysPage /\ M[i].phys = s * PAGE_SIZE /\ M[i].pages = RunLen(s)
      BY <3>3, DescriptorIs DEF Starts
    <3>5. PICK n \in 1 .. Pages - s : n = RunLen(s)
      BY <3>4, RunOf
    <3>6. PICK t : t = s + n
      OBVIOUS
    <3>7. s \in 0 .. Pages /\ t \in 0 .. Pages /\ s < t /\ M[i].pages = t - s
      BY <3>4, <3>5, <3>6, PagesNat DEF PhysPage
    <3> QED BY <3>4, <3>7 DEF WholeRun
  <2>2. CASE ~(i <= Len(L))
    <3>1. i - Len(L) \in DOMAIN X /\ M[i] = X[i - Len(L)]
      BY <1>7, <2>2
    <3> QED BY <1>4, <1>8, <3>1, ExtraKindAssumption DEF Firmware
  <2> QED BY <2>1, <2>2
<1> QED BY <1>6, <1>8 DEF MapRegular

(* A descriptor of free memory is a region of whole pages. *)
LEMMA RunRegular ==
  ASSUME NEW d \in Desc, WholeRun(d), NEW len, len = saturating(d.pages * PAGE_SIZE)
  PROVE  \E s \in 0 .. Pages, t \in 0 .. Pages :
           s < t /\ d.phys = s * PAGE_SIZE /\ len = t * PAGE_SIZE - s * PAGE_SIZE
           /\ s * PAGE_SIZE \in Nat /\ t * PAGE_SIZE \in Nat /\ t * PAGE_SIZE <= ADDR_MAX
<1>1. PICK s \in 0 .. Pages, t \in 0 .. Pages : s < t /\ d.phys = s * PAGE_SIZE /\ d.pages = t - s
  BY DEF WholeRun
<1>2. (t - s) * PAGE_SIZE = t * PAGE_SIZE - s * PAGE_SIZE
  BY PagesNat
<1>3. s * PAGE_SIZE \in Nat /\ t * PAGE_SIZE \in Nat
  BY PagesNat
<1>4. t * PAGE_SIZE <= Pages * PAGE_SIZE
  BY PagesNat, Multiples
<1>5. PICK x \in Nat, y \in Nat, z \in Nat : x = s * PAGE_SIZE /\ y = t * PAGE_SIZE /\ z = Pages * PAGE_SIZE
  BY <1>3, PagesNat
<1>6. y <= z /\ z <= ADDR_MAX /\ ADDR_MAX \in Nat
  BY <1>4, <1>5, PagesNat
<1>7. d.pages * PAGE_SIZE = y - x
  BY <1>1, <1>2, <1>5
<1>8. len = y - x /\ y <= ADDR_MAX
  BY <1>5, <1>6, <1>7 DEF saturating
<1> QED BY <1>1, <1>3, <1>5, <1>8

(* One step of the conversion keeps the regions whole. *)
LEMMA ConvertStepRegular ==
  ASSUME NEW cap \in Nat, NEW R \in Seq(Reg), Regular(R), NEW c, c = [regions |-> R, full |-> FALSE],
         NEW d \in Desc, d.ty = "CONVENTIONAL" => d.pages = 0 \/ WholeRun(d),
         NEW r, r = ConvertStep(c, d, cap)
  PROVE  Regular(r.regions)
<1>1. PICK len : len = saturating(d.pages * PAGE_SIZE)
  OBVIOUS
<1>2. PICK n \in Nat : n = Len(R) /\ DOMAIN R = 1 .. n
  OBVIOUS
<1>3. len \in Nat /\ (len # 0 => d.pages # 0)
  <2>1. len \in Nat
    BY <1>1, RegionIs
  <2>2. ASSUME d.pages = 0 PROVE len = 0
    BY <1>1, <2>2, PagesNat DEF saturating
  <2> QED BY <2>1, <2>2
<1>4. PICK k : k = classify(d.ty)
  OBVIOUS
<1>5. CASE len = 0
  <2>1. r = c
    BY <1>1, <1>5 DEF ConvertStep
  <2> QED BY <2>1
<1>6. CASE len # 0 /\ Coalesces(R, d.phys, k)
  <2>1. n # 0 /\ R[n].kind = k /\ end(R[n]) = d.phys /\ n \in DOMAIN R
    BY <1>2, <1>6 DEF Coalesces, Last
  <2>2. PICK x : x = [R[n] EXCEPT !.len = saturating(@ + len)]
    OBVIOUS
  <2>3. r = [c EXCEPT !.regions[n].len = saturating(@ + len)]
    BY <1>1, <1>2, <1>4, <1>6 DEF ConvertStep
  <2>4. PICK Q : Q = [R EXCEPT ![n] = x]
    OBVIOUS
  <2>5. r.regions = Q
    BY <2>2, <2>3, <2>4
  <2>6. DOMAIN Q = DOMAIN R /\ Q[n] = x /\ \A i \in DOMAIN R : i # n => Q[i] = R[i]
    BY <2>1, <2>4
  <2>7. R[n] \in Reg /\ R[n].len > 0
    BY <2>1 DEF Regular
  <2>8. PICK l \in Nat : l = R[n].len
    BY <2>7 DEF Reg
  <2>9. x.start = R[n].start /\ x.kind = R[n].kind /\ x.len = saturating(l + len)
    BY <2>2, <2>7, <2>8 DEF Reg
  <2>10. x.len > 0
    BY <1>3, <1>6, <2>7, <2>8, <2>9, PagesNat DEF saturating
  <2>11. ASSUME x.kind = "Usable" PROVE WholePages(x)
    <3>1. WholePages(R[n]) /\ d.ty = "CONVENTIONAL"
      BY <1>4, <2>1, <2>9, <2>11, UsableIs DEF Regular
    <3>2. PICK a \in 0 .. Pages, b \in 0 .. Pages :
            a < b /\ R[n].start = a * PAGE_SIZE /\ R[n].len = b * PAGE_SIZE - a * PAGE_SIZE
      BY <3>1 DEF WholePages
    <3>3. end(R[n]) = b * PAGE_SIZE /\ a * PAGE_SIZE \in Nat /\ b * PAGE_SIZE \in Nat
      BY <2>7, <3>2, PageBounds
    <3>4. WholeRun(d)
      BY <1>3, <1>6, <3>1
    <3>5. PICK s \in 0 .. Pages, t \in 0 .. Pages :
            s < t /\ d.phys = s * PAGE_SIZE /\ len = t * PAGE_SIZE - s * PAGE_SIZE
            /\ s * PAGE_SIZE \in Nat /\ t * PAGE_SIZE \in Nat /\ t * PAGE_SIZE <= ADDR_MAX
      BY <1>1, <3>4, RunRegular
    <3>6. s = b
      <4>1. s * PAGE_SIZE = b * PAGE_SIZE
        BY <2>1, <3>3, <3>5
      <4>2. s \in Int /\ b \in Int /\ PAGE_SIZE \in Nat \ {0}
        BY PagesNat
      <4> QED BY <4>1, <4>2, Multiples
    <3>7. PICK u \in Nat, v \in Nat, w \in Nat : u = a * PAGE_SIZE /\ v = b * PAGE_SIZE /\ w = t * PAGE_SIZE
      BY <3>3, <3>5
    <3>8. l = v - u /\ len = w - v /\ w <= ADDR_MAX
      BY <2>8, <3>2, <3>5, <3>6, <3>7
    <3>9. x.len = w - u
      BY <2>9, <3>7, <3>8, PagesNat DEF saturating
    <3>10. a < t
      BY <3>2, <3>5, <3>6
    <3> QED BY <2>9, <3>2, <3>7, <3>9, <3>10 DEF WholePages
  <2>12. Regular(Q)
    BY <2>6, <2>10, <2>11 DEF Regular
  <2> QED BY <2>5, <2>12
<1>7. CASE len # 0 /\ ~Coalesces(R, d.phys, k) /\ n = cap
  <2>1. r = [c EXCEPT !.full = TRUE]
    BY <1>1, <1>2, <1>4, <1>7 DEF ConvertStep
  <2> QED BY <2>1
<1>8. CASE len # 0 /\ ~Coalesces(R, d.phys, k) /\ n # cap
  <2>1. PICK x : x = Region(d.phys, len, k)
    OBVIOUS
  <2>2. PICK Q : Q = Append(R, x)
    OBVIOUS
  <2>3. r.regions = Q
    BY <1>1, <1>2, <1>4, <1>8, <2>1, <2>2 DEF ConvertStep
  <2>4. x \in Reg /\ x.start = d.phys /\ x.len = len /\ x.kind = k
    <3>1. x \in Reg
      BY <1>1, <1>4, <2>1, RegionIs
    <3> QED BY <2>1, <3>1 DEF Region
  <2>5. DOMAIN Q = 1 .. n + 1 /\ Q[n + 1] = x /\ \A i \in DOMAIN R : Q[i] = R[i]
    BY <1>2, <2>2, <2>4
  <2>6. ASSUME x.kind = "Usable" PROVE WholePages(x)
    <3>1. WholeRun(d)
      BY <1>3, <1>4, <1>8, <2>4, <2>6, UsableIs
    <3>2. PICK s \in 0 .. Pages, t \in 0 .. Pages :
            s < t /\ d.phys = s * PAGE_SIZE /\ len = t * PAGE_SIZE - s * PAGE_SIZE
      BY <1>1, <3>1, RunRegular
    <3> QED BY <2>4, <3>2 DEF WholePages
  <2>7. x.len > 0
    BY <1>3, <1>8, <2>4
  <2>8. ASSUME NEW i \in DOMAIN Q PROVE Q[i].len > 0 /\ (Q[i].kind = "Usable" => WholePages(Q[i]))
    <3>1. CASE i \in DOMAIN R
      BY <2>5, <3>1 DEF Regular
    <3>2. CASE i = n + 1
      BY <2>5, <2>6, <2>7, <3>2
    <3> QED BY <1>2, <2>5, <3>1, <3>2
  <2> QED BY <2>3, <2>8 DEF Regular
<1> QED BY <1>5, <1>6, <1>7, <1>8

(* Nor does the whole of it. *)
LEMMA ConvertRegular ==
  ASSUME NEW M \in Seq(Desc), MapRegular(M), NEW cap \in Nat, Len(M) <= cap
  PROVE  Regular(convert(M, cap).regions)
<1>1. PICK n \in Nat : n = Len(M) /\ DOMAIN M = 1 .. n /\ n <= cap
  OBVIOUS
<1> DEFINE Good == {k \in 0 .. n : /\ Converted(ConvertedTo(k, M, cap), k, M)
                                   /\ Regular(ConvertedTo(k, M, cap).regions)}
<1>2. 0 \in Good
  <2>1. Converted(Converting, 0, M)
    BY DEF Converted, Converting, Told
  <2>2. Regular(Converting.regions)
    BY DEF Regular, Converting
  <2> QED BY <2>1, <2>2, ConversionSteps
<1>3. ASSUME NEW k \in 0 .. n, k # n, k \in Good PROVE k + 1 \in Good
  <2>1. k + 1 \in 1 .. n /\ k \in Nat /\ (k + 1) - 1 = k /\ k + 1 <= cap /\ k + 1 \in 0 .. n
    BY <1>1, <1>3
  <2>2. M[k + 1] \in Desc /\ (M[k + 1].ty = "CONVENTIONAL" => M[k + 1].pages = 0 \/ WholeRun(M[k + 1]))
    BY <1>1, <2>1 DEF MapRegular
  <2>3. ConvertedTo(k + 1, M, cap) = ConvertStep(ConvertedTo(k, M, cap), M[k + 1], cap)
    BY <1>1, <2>1, ConversionSteps
  <2>4. PICK c : c = ConvertedTo(k, M, cap)
    OBVIOUS
  <2>5. Converted(c, k, M) /\ Regular(c.regions)
    BY <1>3, <2>4
  <2>6. Converted(ConvertStep(c, M[k + 1], cap), k + 1, M)
    BY <2>1, <2>2, <2>5, ConvertStepKeeps
  <2>7. PICK R \in Seq(Reg) : c = [regions |-> R, full |-> FALSE] /\ R = c.regions
    BY <2>5 DEF Converted
  <2>8. PICK d \in Desc : d = M[k + 1]
    BY <2>2
  <2>9. Regular(ConvertStep(c, d, cap).regions)
    BY <2>2, <2>5, <2>7, <2>8, ConvertStepRegular
  <2> QED BY <2>1, <2>3, <2>4, <2>6, <2>8, <2>9
<1> HIDE DEF Good
<1>4. \A k \in 0 .. n : k # n /\ k \in Good => k + 1 \in Good
  BY <1>3
<1>5. \A k \in 0 .. n : k \in Good
  BY <1>2, <1>4, UpToBound
<1>6. n \in Good
  BY <1>5
<1> QED BY <1>1, <1>6, ConversionSteps DEF Good

(***************************************************************************)
(* What the loader has allocated stays the loader's: the firmware's events *)
(* take and free conventional pages only, so no later map calls it free.   *)
(***************************************************************************)
LoaderOwned(S) == \A q \in S : q \in PhysPage /\ ram[q] = "LOADER_DATA"
LoaderHas == LoaderOwned(tables) /\ \A w \in Place : LoaderOwned(Occupied(w))

(* The stages before the map has a buffer, before the regions have one,    *)
(* and from the BootInfo on.                                               *)
Unmapped == BeforeExit \ {"array", "take", "exit"}
Unlisted == BeforeExit \ {"take", "exit"}
Informed == {"size", "array", "take", "exit", "handoff", "kernel", "memory", "halted", "ready"}
Buffers ==
  /\ stage \in Unmapped => place["map"] = 0
  /\ stage \in Unlisted => place["regions"] = 0
  /\ stage \in Informed => place["info"] # 0
PlacesInv == LoaderHas /\ Buffers

Onwards ==
  /\ stage' \in Unmapped => stage \in Unmapped
  /\ stage' \in Unlisted => stage \in Unlisted
  /\ stage' \in Informed => stage \in Informed

(* How much of a place is occupied depends on the machine and on the room. *)
LEMMA SameRoom ==
  ASSUME UNCHANGED <<machine, room>>, NEW w
  PROVE  PlacePages(w)' = PlacePages(w)
<1>1. machine' = machine /\ room' = room
  OBVIOUS
<1> QED BY <1>1, Zenon DEF PlacePages, Span, elf

(* A step that allocates nothing. *)
LEMMA QuietKeepsPlaces ==
  ASSUME PlacesInv, UNCHANGED <<place, tables>>, Onwards,
         \A w \in Place : place[w] # 0 => PlacePages(w)' = PlacePages(w),
         \A q \in PhysPage : ram[q] = "LOADER_DATA" => ram'[q] = "LOADER_DATA"
  PROVE  PlacesInv'
<1>1. Buffers'
  BY DEF PlacesInv, Buffers, Onwards
<1>2. \A w \in Place : Occupied(w)' = Occupied(w)
  BY DEF Occupied
<1>3. LoaderHas'
  BY <1>2 DEF PlacesInv, LoaderHas, LoaderOwned
<1> QED BY <1>1, <1>3 DEF PlacesInv

(* Stopping leaves what was allocated where it is. *)
LEMMA StopKeepsPlaces ==
  ASSUME PlacesInv, NEW reason, Stop(reason)
  PROVE  PlacesInv'
<1>1. UNCHANGED <<machine, room, place, tables, ram>> /\ stage' = "stopped"
  BY DEF Stop
<1>2. Onwards
  BY <1>1 DEF Onwards, Unmapped, Unlisted, Informed, BeforeExit
<1> QED BY <1>1, <1>2, SameRoom, QuietKeepsPlaces

(* What is marked for the loader is the loader's, as what was before. *)
LEMMA GivenOwned ==
  ASSUME NEW n \in Nat, NEW p \in alloc_pages(n), Given(p, n)
  PROVE  /\ \A q \in PhysPage : ram[q] = "LOADER_DATA" => ram'[q] = "LOADER_DATA"
         /\ \A q \in p .. p + n - 1 : q \in PhysPage /\ ram'[q] = "LOADER_DATA"
<1>1. p \in Nat /\ p + n <= Pages
  BY AllocatedFree DEF FreeAt
<1>2. \A q \in p .. p + n - 1 : q \in PhysPage
  BY <1>1, PagesNat DEF PhysPage
<1> QED BY <1>2 DEF Given, Marked

(* A step that allocates a place. *)
LEMMA PlacedKeepsPlaces ==
  ASSUME PlacesInv, place \in [Place -> Nat], tables' = tables,
         NEW what \in Place, NEW n \in Nat, NEW p \in alloc_pages(n), Given(p, n),
         place' = [place EXCEPT ![what] = p],
         \A w \in Place : w # what /\ place[w] # 0 => PlacePages(w)' = PlacePages(w),
         \A q \in Occupied(what)' : q \in p .. p + n - 1,
         Buffers'
  PROVE  PlacesInv'
<1>1. ASSUME NEW w \in Place PROVE LoaderOwned(Occupied(w))'
  <2>1. CASE w = what
    BY <2>1, GivenOwned DEF LoaderOwned
  <2>2. CASE w # what
    <3>1. Occupied(w)' = Occupied(w)
      BY <2>2 DEF Occupied
    <3>2. LoaderOwned(Occupied(w))
      BY DEF PlacesInv, LoaderHas
    <3> QED BY <3>1, <3>2, GivenOwned DEF LoaderOwned
  <2> QED BY <2>1, <2>2
<1>2. LoaderOwned(tables)'
  BY GivenOwned DEF PlacesInv, LoaderHas, LoaderOwned
<1> QED BY <1>1, <1>2 DEF PlacesInv, LoaderHas

(* A step that takes a page of tables. *)
LEMMA TableKeepsPlaces ==
  ASSUME PlacesInv, UNCHANGED <<machine, room, place>>, Onwards,
         NEW p \in alloc_pages(1), Given(p, 1), tables' = tables \cup {p}
  PROVE  PlacesInv'
<1>1. Buffers'
  BY DEF PlacesInv, Buffers, Onwards
<1>2. \A w \in Place : Occupied(w)' = Occupied(w)
  BY SameRoom DEF Occupied
<1>3. p \in Nat
  BY AllocatedFree
<1>4. p \in p .. p + 1 - 1
  BY <1>3
<1>5. LoaderOwned(tables)'
  BY <1>4, GivenOwned DEF PlacesInv, LoaderHas, LoaderOwned
<1>6. \A w \in Place : LoaderOwned(Occupied(w))'
  BY <1>2, GivenOwned DEF PlacesInv, LoaderHas, LoaderOwned
<1> QED BY <1>1, <1>5, <1>6 DEF PlacesInv, LoaderHas

(* The tables' steps. *)
LEMMA TakingKeepsPlaces ==
  ASSUME PlacesInv, NewTables \/ PlaceSegment \/ BuildMaps
  PROVE  PlacesInv'
<1>1. CASE \E reason : Stop(reason)
  BY <1>1, StopKeepsPlaces
<1>2. CASE /\ \E p \in alloc_pages(1) : Given(p, 1) /\ tables' = tables \cup {p}
           /\ UNCHANGED <<machine, room, place>>
           /\ \/ stage \in {"tables", "segments"} /\ stage' = "segments"
              \/ stage = "maps" /\ stage' = "info"
  <2>1. Onwards
    BY <1>2 DEF Onwards, Unmapped, Unlisted, Informed, BeforeExit
  <2> QED BY <1>2, <2>1, TableKeepsPlaces
<1>3. CASE NewTables
  BY <1>1, <1>2, <1>3, Zenon DEF NewTables, TakeTable, Goto
<1>4. CASE PlaceSegment
  BY <1>1, <1>2, <1>4, Zenon DEF PlaceSegment, PlaceAt, TakeTable, Goto
<1>5. CASE BuildMaps
  BY <1>1, <1>2, <1>5, Zenon DEF BuildMaps, TakeTable, Goto
<1> QED BY <1>3, <1>4, <1>5

(* The steps that allocate nothing. *)
LEMMA QuietStepsKeepPlaces ==
  ASSUME PlacesInv, \/ Survey \/ OpenVolume \/ AllPlaced \/ ReadProbe \/ TakeMap \/ ExitBootServices
                    \/ HandOff \/ MemInit \/ Discover
  PROVE  PlacesInv'
<1>1. CASE \E reason : Stop(reason)
  BY <1>1, StopKeepsPlaces
<1>2. CASE /\ UNCHANGED <<machine, ram, room, place, tables>>
           /\ \/ stage = "start" /\ stage' = "volume"
              \/ stage = "volume" /\ stage' = "kernel file"
              \/ stage = "segments" /\ stage' = "probe"
              \/ stage = "probe read" /\ stage' = "maps"
              \/ stage = "take" /\ stage' = "exit"
              \/ stage = "exit" /\ stage' \in {"take", "handoff"}
              \/ stage = "handoff" /\ stage' = "kernel"
              \/ stage = "kernel" /\ stage' \in {"memory", "halted"}
              \/ stage = "memory" /\ stage' = "ready"
  <2>1. Onwards
    BY <1>2 DEF Onwards, Unmapped, Unlisted, Informed, BeforeExit
  <2> QED BY <1>2, <2>1, SameRoom, QuietKeepsPlaces
<1>3. CASE Survey \/ OpenVolume \/ AllPlaced \/ ReadProbe \/ TakeMap
  BY <1>1, <1>2, <1>3, Zenon DEF Survey, OpenVolume, AllPlaced, ReadProbe, TakeMap, Goto
<1>4. "take" \in {"take", "handoff"} /\ "handoff" \in {"take", "handoff"}
      /\ "memory" \in {"memory", "halted"} /\ "halted" \in {"memory", "halted"}
  OBVIOUS
<1>5. CASE ExitBootServices \/ HandOff
  BY <1>1, <1>2, <1>4, <1>5, Zenon DEF ExitBootServices, LeaveFirmware, ReadAgain, HandOff, Goto
<1>6. CASE MemInit \/ Discover
  BY <1>1, <1>2, <1>4, <1>6, Zenon DEF MemInit, Settle, Discover, KernelStep
<1> QED BY <1>3, <1>5, <1>6

(* The firmware's events take and give back none of the loader's pages. *)
LEMMA FirmwareKeepsPlaces ==
  ASSUME PlacesInv, Firmware, FirmwareActs
  PROVE  PlacesInv'
<1>1. UNCHANGED <<machine, room, place, tables, stage>>
  BY DEF FirmwareActs
<1>2. PICK p \in machine.noisy :
               /\ ram[p] \in {"CONVENTIONAL", "BOOT_SERVICES"}
               /\ ram' = [ram EXCEPT ![p] = IF @ = "CONVENTIONAL" THEN "BOOT_SERVICES" ELSE "CONVENTIONAL"]
  BY Zenon DEF FirmwareActs
<1>3. \A q \in PhysPage : ram[q] = "LOADER_DATA" => ram'[q] = "LOADER_DATA"
  BY <1>2 DEF Firmware
<1>4. Onwards
  BY <1>1 DEF Onwards
<1> QED BY <1>1, <1>3, <1>4, SameRoom, QuietKeepsPlaces

(* What each place is for. *)
LEMMA PlaceSizes ==
  /\ PlacePages("file") = pages_for(machine.file.len)
  /\ PlacePages("initrd") = pages_for(machine.initrd.len)
  /\ PlacePages("kernel") = pages_for(Span.size)
  /\ PlacePages("map") = pages_for(room.map * DESC)
  /\ PlacePages("regions") = pages_for(room.regions * REGION)
  /\ PlacePages("probe") = 1 /\ PlacePages("info") = 1
<1>1. PlacePages("file") = pages_for(machine.file.len)
  BY DEF PlacePages
<1>2. PlacePages("initrd") = pages_for(machine.initrd.len)
  BY DEF PlacePages
<1>3. PlacePages("kernel") = pages_for(Span.size)
  BY DEF PlacePages
<1>4. PlacePages("map") = pages_for(room.map * DESC)
  BY DEF PlacePages
<1>5. PlacePages("regions") = pages_for(room.regions * REGION)
  BY DEF PlacePages
<1>6. PlacePages("probe") = 1 /\ PlacePages("info") = 1
  BY DEF PlacePages
<1> QED BY <1>1, <1>2, <1>3, <1>4, <1>5, <1>6

(* A place that takes just what is given, and leaves the room as it was. *)
LEMMA ExactKeepsPlaces ==
  ASSUME PlacesInv, place \in [Place -> Nat], UNCHANGED <<machine, room, tables>>,
         NEW what \in Place, NEW n \in Nat, n = PlacePages(what), NEW p \in alloc_pages(n), Given(p, n),
         place' = [place EXCEPT ![what] = p], Buffers'
  PROVE  PlacesInv'
<1>1. \A w \in Place : PlacePages(w)' = PlacePages(w)
  BY SameRoom
<1>2. place'[what] = p
  OBVIOUS
<1>3. \A q \in Occupied(what)' : q \in p .. p + n - 1
  BY <1>1, <1>2 DEF Occupied
<1> QED BY <1>1, <1>3, PlacedKeepsPlaces

(* Places of which no buffer is one. *)
LEMMA BuffersElsewhere ==
  ASSUME Buffers, place \in [Place -> Nat], NEW what \in Place \ {"map", "regions", "info"}, NEW p,
         place' = [place EXCEPT ![what] = p], Onwards
  PROVE  Buffers'
<1>1. place'["map"] = place["map"] /\ place'["regions"] = place["regions"] /\ place'["info"] = place["info"]
  BY DEF Place
<1> QED BY <1>1 DEF Buffers, Onwards

Placing(what, count, next) ==
  /\ UNCHANGED <<machine, room, tables>> /\ stage' = next
  /\ \E p \in alloc_pages(count) : Given(p, count) /\ place' = [place EXCEPT ![what] = p]

(* A file's buffer is the loader's from the allocation on. *)
LEMMA FileKeepsPlaces ==
  ASSUME PlacesInv, KernelInv, NEW what \in {"file", "initrd", "kernel"}, PlacePages(what) \in Nat, NEW next,
         Placing(what, PlacePages(what), next),
         \/ stage = "kernel file" /\ next = "initrd"
         \/ stage = "initrd" /\ next = "parse"
         \/ stage = "parse" /\ next = "tables"
  PROVE  PlacesInv'
<1>1. PICK p \in alloc_pages(PlacePages(what)) :
        Given(p, PlacePages(what)) /\ place' = [place EXCEPT ![what] = p]
  BY DEF Placing
<1>2. Onwards /\ UNCHANGED <<machine, room, tables>>
  BY DEF Onwards, Unmapped, Unlisted, Informed, BeforeExit, Placing
<1>3. what \in Place \ {"map", "regions", "info"} /\ what \in Place
  BY DEF Place
<1>4. place \in [Place -> Nat] /\ Buffers
  BY DEF KernelInv, PlacesInv
<1>5. Buffers'
  BY <1>1, <1>2, <1>3, <1>4, BuffersElsewhere
<1> QED BY <1>1, <1>2, <1>3, <1>4, <1>5, ExactKeepsPlaces

(* The steps that read files. *)
LEMMA FilesKeepPlaces ==
  ASSUME PlacesInv, KernelInv, ReadKernel \/ ReadInitrd \/ ParseKernel
  PROVE  PlacesInv'
<1>1. CASE \E reason : Stop(reason)
  BY <1>1, StopKeepsPlaces
<1>2. CASE stage = "initrd" /\ stage' = "parse" /\ UNCHANGED <<machine, ram, room, place, tables>>
  <2>1. Onwards
    BY <1>2 DEF Onwards, Unmapped, Unlisted, Informed, BeforeExit
  <2> QED BY <1>2, <2>1, SameRoom, QuietKeepsPlaces
<1>3. CASE ReadKernel
  <2>1. stage = "kernel file"
    BY <1>3 DEF ReadKernel
  <2>2. (\E reason : Stop(reason)) \/ ReadFile(machine.file, "file", "initrd")
    BY <1>3, Zenon DEF ReadKernel
  <2>3. (\E reason : Stop(reason)) \/ Placing("file", pages_for(machine.file.len), "initrd")
    BY <2>2, Zenon DEF ReadFile, AllocPlace, Goto, Placing
  <2>4. pages_for(machine.file.len) \in Nat
    BY BootAssumption, PagesForNat DEF KernelInv
  <2> QED BY <1>1, <2>1, <2>3, <2>4, PlaceSizes, FileKeepsPlaces
<1>4. CASE ReadInitrd
  <2>1. stage = "initrd"
    BY <1>4 DEF ReadInitrd
  <2>2. \/ ReadFile(machine.initrd, "initrd", "parse")
        \/ stage' = "parse" /\ UNCHANGED <<machine, ram, room, place, tables>>
    BY <1>4, Zenon DEF ReadInitrd, Goto
  <2>3. CASE stage' = "parse" /\ UNCHANGED <<machine, ram, room, place, tables>>
    BY <1>2, <2>1, <2>3
  <2>4. CASE ReadFile(machine.initrd, "initrd", "parse")
    <3>1. (\E reason : Stop(reason)) \/ Placing("initrd", pages_for(machine.initrd.len), "parse")
      BY <2>4, Zenon DEF ReadFile, AllocPlace, Goto, Placing
    <3>2. pages_for(machine.initrd.len) \in Nat
      BY BootAssumption, PagesForNat DEF KernelInv
    <3> QED BY <1>1, <2>1, <3>1, <3>2, PlaceSizes, FileKeepsPlaces
  <2> QED BY <2>2, <2>3, <2>4
<1>5. CASE ParseKernel
  <2>1. stage = "parse"
    BY <1>5 DEF ParseKernel
  <2>2. \/ \E reason : Stop(reason)
        \/ Span.err = "none" /\ Placing("kernel", pages_for(Span.size), "tables")
    BY <1>5, Zenon DEF ParseKernel, AllocPlace, Goto, Placing
  <2>3. Span.err = "none" => pages_for(Span.size) \in Nat
    BY SpanFits, PagesForNat DEF KernelInv
  <2> QED BY <1>1, <2>1, <2>2, <2>3, PlaceSizes, FileKeepsPlaces
<1> QED BY <1>3, <1>4, <1>5

(* As many whole items as fit in whole pages need no more pages. *)
LEMMA FitsInPages ==
  ASSUME NEW k \in Nat, NEW size \in Nat \ {0}, NEW m \in Nat, m = (k * PAGE_SIZE) \div size
  PROVE  pages_for(m * size) \in Nat /\ pages_for(m * size) <= k
<1>1. m * size \in Nat
  OBVIOUS
<1>2. PICK q \in Nat : /\ pages_for(m * size) = q
                       /\ \A j \in 0 .. m * size - 1 : j \div PAGE_SIZE < q
  BY <1>1, RoundsUp
<1>3. PICK x \in Nat : x = m * size
  BY <1>1
<1>4. k * PAGE_SIZE \in Nat
  BY PagesNat
<1>5. k * PAGE_SIZE = m * size + ((k * PAGE_SIZE) % size) /\ (k * PAGE_SIZE) % size \in Nat
  <2>1. PICK x1 \in Nat : x1 = k * PAGE_SIZE
    BY <1>4
  <2>2. x1 = (x1 \div size) * size + (x1 % size) /\ x1 % size \in 0 .. size - 1
    BY <2>1, Quotient
  <2>3. m = x1 \div size
    BY <2>1
  <2> QED BY <2>1, <2>2, <2>3
<1>6. x <= k * PAGE_SIZE
  BY <1>3, <1>4, <1>5
<1>7. UpTo(x, PAGE_SIZE) \div PAGE_SIZE = q
  BY <1>2, <1>3 DEF pages_for
<1>8. PICK b \in Nat : b = (x + PAGE_SIZE - 1) \div PAGE_SIZE
  BY PagesNat, Quotient
<1>9. b * PAGE_SIZE <= x + PAGE_SIZE - 1
  <2>1. x + PAGE_SIZE - 1 \in Nat
    BY PagesNat
  <2>2. x + PAGE_SIZE - 1 = b * PAGE_SIZE + ((x + PAGE_SIZE - 1) % PAGE_SIZE)
        /\ (x + PAGE_SIZE - 1) % PAGE_SIZE \in 0 .. PAGE_SIZE - 1
    BY <1>8, <2>1, PagesNat, Quotient
  <2>3. b * PAGE_SIZE \in Nat
    BY PagesNat
  <2> QED BY <2>1, <2>2, <2>3, PagesNat
<1>10. b * PAGE_SIZE < (k + 1) * PAGE_SIZE
  <2>1. (k + 1) * PAGE_SIZE = k * PAGE_SIZE + PAGE_SIZE /\ b * PAGE_SIZE \in Nat
    BY PagesNat
  <2> QED BY <1>4, <1>6, <1>9, <2>1, PagesNat
<1>11. b < k + 1
  BY <1>10, PagesNat, Multiples
<1>12. q = b
  <2>1. UpTo(x, PAGE_SIZE) = b * PAGE_SIZE
    BY <1>8 DEF UpTo
  <2>2. (b * PAGE_SIZE + 0) \div PAGE_SIZE = b
    BY PagesNat, QuotientOf
  <2>3. b * PAGE_SIZE + 0 = b * PAGE_SIZE
    BY PagesNat
  <2> QED BY <1>7, <2>1, <2>2, <2>3
<1> QED BY <1>2, <1>11, <1>12

(* Room for the regions changes nothing of the other places' sizes. *)
LEMMA RoomsApart ==
  ASSUME machine' = machine
  PROVE  /\ \A w \in Place \ {"map", "regions"} : PlacePages(w)' = PlacePages(w)
         /\ room'.map = room.map => PlacePages("map")' = PlacePages("map")
         /\ room'.regions = room.regions => PlacePages("regions")' = PlacePages("regions")
<1>1. Span' = Span
  BY Zenon DEF Span, elf
<1>2. ASSUME NEW w \in Place \ {"map", "regions"} PROVE PlacePages(w)' = PlacePages(w)
  BY <1>1 DEF PlacePages, Place
<1>3. room'.map = room.map => PlacePages("map")' = PlacePages("map")
  BY DEF PlacePages
<1>4. room'.regions = room.regions => PlacePages("regions")' = PlacePages("regions")
  BY DEF PlacePages
<1> QED BY <1>2, <1>3, <1>4

(* The BootInfo gets a page. *)
LEMMA InfoKeepsPlaces ==
  ASSUME PlacesInv, KernelInv, AllocInfo
  PROVE  PlacesInv'
<1>1. CASE \E reason : Stop(reason)
  BY <1>1, StopKeepsPlaces
<1>2. CASE Placing("info", 1, "size")
  <2>1. PICK p \in alloc_pages(1) : Given(p, 1) /\ place' = [place EXCEPT !["info"] = p]
    BY <1>2 DEF Placing
  <2>2. UNCHANGED <<machine, room, tables>> /\ stage = "info" /\ stage' = "size"
    BY <1>2 DEF Placing, AllocInfo
  <2>3. "info" \in Place /\ place \in [Place -> Nat] /\ {"map", "regions"} \subseteq Place
    BY DEF KernelInv, Place
  <2>4. p # 0
    BY <2>1, AllocatedFree
  <2>5. place["map"] = 0 /\ place["regions"] = 0
    BY <2>2 DEF PlacesInv, Buffers, Unmapped, Unlisted, BeforeExit
  <2>6. place'["map"] = 0 /\ place'["regions"] = 0 /\ place'["info"] # 0
    BY <2>1, <2>3, <2>4, <2>5
  <2>7. Buffers'
    BY <2>6 DEF Buffers
  <2> QED BY <2>1, <2>2, <2>3, <2>7, PlaceSizes, ExactKeepsPlaces
<1> QED BY <1>1, <1>2, Zenon DEF AllocInfo, AllocPlace, Goto, Placing

(* The probe of the map's size gets a page. *)
LEMMA ProbeKeepsPlaces ==
  ASSUME PlacesInv, KernelInv, MapInv, SizeProbe
  PROVE  PlacesInv'
<1>1. CASE \E reason : Stop(reason)
  BY <1>1, StopKeepsPlaces
<1>2. PICK n : n = pages_for(Len(GetMemoryMap) * DESC)
  OBVIOUS
<1>3. CASE /\ UNCHANGED <<machine, tables>> /\ stage' = "probe read"
           /\ room' = [room EXCEPT !.map = ProbeRoom]
           /\ \E p \in alloc_pages(n) : Given(p, n) /\ place' = [place EXCEPT !["probe"] = p]
  <2>1. PICK p \in alloc_pages(n) : Given(p, n) /\ place' = [place EXCEPT !["probe"] = p]
    BY <1>3
  <2>2. stage = "probe"
    BY DEF SizeProbe
  <2>3. "probe" \in Place /\ place \in [Place -> Nat] /\ {"map", "regions"} \subseteq Place
    BY DEF KernelInv, Place
  <2>4. place["map"] = 0 /\ place["regions"] = 0
    BY <2>2 DEF PlacesInv, Buffers, Unmapped, Unlisted, BeforeExit
  <2>5. place'["map"] = 0 /\ place'["regions"] = 0
    BY <2>1, <2>3, <2>4
  <2>6. Buffers'
    BY <1>3, <2>5 DEF Buffers, Informed
  <2>7. \A w \in Place : w # "probe" /\ place[w] # 0 => PlacePages(w)' = PlacePages(w)
    BY <1>3, <2>4, RoomsApart
  <2>8. n \in Nat /\ n # 0 /\ p \in Nat
    <3>1. Len(GetMemoryMap) * DESC \in Nat
      BY MapLenNat, BootAssumption DEF MapInv
    <3>2. n # 0
      BY <2>1 DEF alloc_pages
    <3> QED BY <1>2, <2>1, <3>1, <3>2, PagesForNat, AllocatedFree
  <2>9. PlacePages("probe")' = 1
    BY PlaceSizes, <1>3, <2>3, RoomsApart
  <2>10. \A q \in Occupied("probe")' : q \in p .. p + n - 1
    <3>1. place'["probe"] = p
      BY <2>1, <2>3
    <3> QED BY <2>8, <2>9, <3>1 DEF Occupied
  <2> QED BY <1>3, <2>1, <2>3, <2>6, <2>7, <2>8, <2>10, PlacedKeepsPlaces
<1> QED BY <1>1, <1>2, <1>3, Zenon DEF SizeProbe, AllocPlace, Goto

(* The map gets a buffer, at least as large as its entries need. *)
LEMMA SizeMapKeepsPlaces ==
  ASSUME PlacesInv, KernelInv, MapInv, SizeMap
  PROVE  PlacesInv'
<1>1. CASE \E reason : Stop(reason)
  BY <1>1, StopKeepsPlaces
<1>2. PICK n : n = MapPages
  OBVIOUS
<1>3. CASE /\ UNCHANGED <<machine, tables>> /\ stage' = "array"
           /\ room' = [room EXCEPT !.map = MapRoom]
           /\ \E p \in alloc_pages(n) : Given(p, n) /\ place' = [place EXCEPT !["map"] = p]
  <2>1. PICK p \in alloc_pages(n) : Given(p, n) /\ place' = [place EXCEPT !["map"] = p]
    BY <1>3
  <2>2. stage = "size"
    BY DEF SizeMap
  <2>3. place \in [Place -> Nat] /\ {"map", "regions", "info"} \subseteq Place
    BY DEF KernelInv, Place
  <2>4. place["regions"] = 0 /\ place["info"] # 0
    BY <2>2 DEF PlacesInv, Buffers, Unlisted, Informed, BeforeExit
  <2>5. place'["regions"] = 0 /\ place'["info"] # 0
    BY <2>1, <2>3, <2>4
  <2>6. Buffers'
    BY <1>3, <2>5 DEF Buffers, Unmapped, BeforeExit
  <2>7. \A w \in Place : w # "map" /\ place[w] # 0 => PlacePages(w)' = PlacePages(w)
    BY <1>3, <2>4, RoomsApart
  <2>8. n \in Nat /\ p \in Nat /\ DESC \in Nat \ {0}
    <3>1. Len(GetMemoryMap) \in Nat
      BY MapLenNat DEF MapInv
    <3>2. DESC \in Nat \ {0} /\ MAP_SLACK_DESCRIPTORS \in Nat
      BY BootAssumption
    <3>3. (Len(GetMemoryMap) + MAP_SLACK_DESCRIPTORS) * DESC \in Nat
      BY <3>1, <3>2
    <3> QED BY <1>2, <2>1, <3>2, <3>3, PagesForNat, AllocatedFree DEF MapPages
  <2>9. PICK m : m = (n * PAGE_SIZE) \div DESC
    OBVIOUS
  <2>10. m \in Nat
    <3>1. n * PAGE_SIZE \in Nat
      BY <2>8, PagesNat
    <3> QED BY <2>8, <2>9, <3>1, Quotient
  <2>11. room'.map = m
    BY <1>2, <1>3, <2>9 DEF MapRoom, MapInv
  <2>12. PlacePages("map")' = pages_for(m * DESC)
    BY <2>11 DEF PlacePages
  <2>13. pages_for(m * DESC) \in Nat /\ pages_for(m * DESC) <= n
    BY <2>8, <2>9, <2>10, FitsInPages
  <2>14. \A q \in Occupied("map")' : q \in p .. p + n - 1
    <3>1. place'["map"] = p
      BY <2>1, <2>3
    <3>2. PICK k \in Nat : k = PlacePages("map")' /\ k <= n
      BY <2>12, <2>13
    <3>3. \A q \in Int : q \in p .. p + k - 1 => q \in p .. p + n - 1
      BY <2>8, <3>2
    <3>4. p \in Nat \ {0}
      BY <2>1, AllocatedFree
    <3> QED BY <3>1, <3>2, <3>3, <3>4 DEF Occupied
  <2> QED BY <1>3, <2>1, <2>3, <2>6, <2>7, <2>8, <2>14, PlacedKeepsPlaces
<1> QED BY <1>1, <1>2, <1>3, Zenon DEF SizeMap, AllocPlace, Goto

(* The regions get a buffer. *)
LEMMA RegionsKeepPlaces ==
  ASSUME PlacesInv, KernelInv, MapInv, AllocRegions
  PROVE  PlacesInv'
<1>1. CASE \E reason : Stop(reason)
  BY <1>1, StopKeepsPlaces
<1>2. PICK n : n = pages_for(RegionRoom * REGION)
  OBVIOUS
<1>3. CASE /\ UNCHANGED <<machine, tables>> /\ stage' = "take"
           /\ room' = [room EXCEPT !.regions = RegionRoom]
           /\ \E p \in alloc_pages(n) : Given(p, n) /\ place' = [place EXCEPT !["regions"] = p]
  <2>1. PICK p \in alloc_pages(n) : Given(p, n) /\ place' = [place EXCEPT !["regions"] = p]
    BY <1>3
  <2>2. stage = "array"
    BY DEF AllocRegions
  <2>3. place \in [Place -> Nat] /\ {"regions", "info"} \subseteq Place
    BY DEF KernelInv, Place
  <2>4. place'["info"] # 0
    BY <2>1, <2>2, <2>3 DEF PlacesInv, Buffers, Informed
  <2>5. Buffers'
    BY <1>3, <2>4 DEF Buffers, Unmapped, Unlisted, BeforeExit
  <2>6. room'.regions = RegionRoom /\ room'.map = room.map
    BY <1>3 DEF MapInv
  <2>7. \A w \in Place : w # "regions" /\ place[w] # 0 => PlacePages(w)' = PlacePages(w)
    BY <1>3, <2>6, RoomsApart
  <2>8. PlacePages("regions")' = n
    BY <1>2, <2>6 DEF PlacePages
  <2>9. \A q \in Occupied("regions")' : q \in p .. p + n - 1
    <3>1. place'["regions"] = p
      BY <2>1, <2>3
    <3> QED BY <2>8, <3>1 DEF Occupied
  <2>10. n \in Nat
    <3>1. RegionRoom * REGION \in Nat
      BY BootAssumption DEF RegionRoom, MapInv
    <3> QED BY <1>2, <3>1, PagesForNat
  <2> QED BY <1>3, <2>1, <2>3, <2>5, <2>7, <2>9, <2>10, PlacedKeepsPlaces
<1> QED BY <1>1, <1>2, <1>3, Zenon DEF AllocRegions, AllocPlace, Goto

(* Every step keeps PlacesInv. *)
LEMMA PlacesInductive == MapInv /\ KernelInv /\ PlacesInv /\ [Next]_vars => PlacesInv'
<1> SUFFICES ASSUME MapInv, KernelInv, PlacesInv, [Next]_vars PROVE PlacesInv'
  OBVIOUS
<1>1. CASE UNCHANGED vars
  <2>1. UNCHANGED <<machine, room, place, tables, stage, ram>>
    BY <1>1 DEF vars
  <2> QED BY <2>1, SameRoom, QuietKeepsPlaces DEF Onwards
<1>2. CASE Loader
  BY <1>2, FilesKeepPlaces, TakingKeepsPlaces, QuietStepsKeepPlaces, InfoKeepsPlaces, ProbeKeepsPlaces,
     SizeMapKeepsPlaces, RegionsKeepPlaces, Zenon DEF Loader
<1>3. CASE MemInit \/ Discover
  BY <1>3, QuietStepsKeepPlaces
<1>4. CASE FirmwareActs
  BY <1>4, FirmwareKeepsPlaces DEF MapInv
<1> QED BY <1>1, <1>2, <1>3, <1>4 DEF Next

(* Nothing is allocated to begin with. *)
LEMMA PlacesInitially == Init => PlacesInv
<1> SUFFICES ASSUME Init PROVE PlacesInv
  OBVIOUS
<1>1. place = [x \in Place |-> 0] /\ tables = {} /\ stage = "start"
  BY DEF Init
<1>2. \A w \in Place : place[w] = 0
  BY <1>1
<1>3. LoaderHas
  BY <1>1, <1>2 DEF LoaderHas, LoaderOwned, Occupied
<1>4. Buffers
  BY <1>1, <1>2 DEF Buffers, Informed, Place
<1> QED BY <1>3, <1>4 DEF PlacesInv

(* What is handed over: whole regions, and where the loader put things. *)
Handed ==
  /\ info.regions \in Seq(Reg) /\ Regular(info.regions) /\ Len(info.regions) <= room.regions
  /\ info.kernel_phys = place["kernel"] * PAGE_SIZE /\ info.kernel_len = Span.size
  /\ info.memory_map = place["regions"] * PAGE_SIZE
  /\ info.initrd = place["initrd"] * PAGE_SIZE
  /\ info.initrd_len = IF place["initrd"] = 0 THEN 0 ELSE machine.initrd.len
HandedInv ==
  /\ stage \in {"exit", "handoff"} => MapRegular(map)
  /\ Entered => Handed

Before == {"stopped", "volume", "kernel file", "initrd", "parse", "tables", "segments", "probe",
           "probe read", "maps", "info", "size", "array", "take"}

(* Nothing is handed over before the firmware is left. *)
LEMMA BeforeHanded ==
  ASSUME stage' \in Before
  PROVE  HandedInv'
BY DEF HandedInv, Entered, Before

(* The steps before the map is taken stay before it. *)
LEMMA EarlyStages ==
  ASSUME \/ Survey \/ OpenVolume \/ ReadKernel \/ ReadInitrd \/ ParseKernel \/ NewTables \/ PlaceSegment
         \/ AllPlaced \/ SizeProbe \/ ReadProbe \/ BuildMaps \/ AllocInfo \/ SizeMap \/ AllocRegions
  PROVE  stage' \in Before
<1>1. CASE \E reason : Stop(reason)
  BY <1>1 DEF Stop, Before
<1>2. CASE \/ stage' = "volume" \/ stage' = "kernel file" \/ stage' = "initrd" \/ stage' = "parse"
           \/ stage' = "tables" \/ stage' = "segments" \/ stage' = "probe" \/ stage' = "probe read"
           \/ stage' = "maps" \/ stage' = "info" \/ stage' = "size" \/ stage' = "array" \/ stage' = "take"
  BY <1>2 DEF Before
<1>3. CASE Survey \/ OpenVolume \/ AllPlaced \/ ReadProbe
  BY <1>1, <1>2, <1>3, Zenon DEF Survey, OpenVolume, AllPlaced, ReadProbe, Goto
<1>4. CASE ReadKernel \/ ReadInitrd
  BY <1>1, <1>2, <1>4, Zenon DEF ReadKernel, ReadInitrd, ReadFile, AllocPlace, Goto
<1>5. CASE ParseKernel \/ SizeProbe \/ AllocInfo \/ SizeMap \/ AllocRegions
  BY <1>1, <1>2, <1>5, Zenon DEF ParseKernel, SizeProbe, AllocInfo, SizeMap, AllocRegions, AllocPlace, Goto
<1>6. CASE NewTables \/ PlaceSegment \/ BuildMaps
  BY <1>1, <1>2, <1>6, Zenon DEF NewTables, PlaceSegment, PlaceAt, BuildMaps, TakeTable, Goto
<1> QED BY <1>3, <1>4, <1>5, <1>6

(* The map that counts is taken, kept, and handed over. *)
LEMMA TakingHanded ==
  ASSUME Firmware, TakeMap
  PROVE  HandedInv'
<1>1. CASE \E reason : Stop(reason)
  <2>1. stage' \in Before
    BY <1>1 DEF Stop, Before
  <2> QED BY <2>1, BeforeHanded
<1>2. CASE stage' = "exit" /\ map' = GetMemoryMap
  <2>1. MapRegular(map')
    BY <1>2, FirmwareRegular
  <2>2. MapRegular(map)'
    BY <2>1 DEF MapRegular, WholeRun
  <2> QED BY <1>2, <2>2 DEF HandedInv, Entered
<1> QED BY <1>1, <1>2, Zenon DEF TakeMap, Goto

(* Leaving the firmware keeps the map. *)
LEMMA LeavingHanded ==
  ASSUME HandedInv, ExitBootServices
  PROVE  HandedInv'
<1>1. CASE stage' \in Before
  BY <1>1, BeforeHanded
<1>2. CASE stage = "exit" /\ stage' = "handoff" /\ map' = map
  BY <1>2 DEF HandedInv, Entered, MapRegular
<1>3. \/ (\E reason : Stop(reason)) \/ stage' = "take"
      \/ stage = "exit" /\ stage' = "handoff" /\ map' = map
  BY Zenon DEF ExitBootServices, LeaveFirmware, ReadAgain, Goto, Leaving
<1>4. CASE \E reason : Stop(reason)
  BY <1>1, <1>4 DEF Stop, Before
<1> QED BY <1>1, <1>2, <1>3, <1>4 DEF Before

(* The hand-off says where things were placed. *)
LEMMA HandingHanded ==
  ASSUME MapInv, HandedInv, HandOff
  PROVE  HandedInv'
<1>1. PICK c : c = convert(map, room.regions)
  OBVIOUS
<1>2. stage = "handoff"
  BY DEF HandOff
<1>3. ~c.full
  BY <1>1, <1>2, HandOffTells
<1>4. /\ stage' = "kernel" /\ UNCHANGED <<machine, room, place>>
      /\ info' = [memory_map |-> place["regions"] * PAGE_SIZE,
                  regions |-> c.regions,
                  framebuffer |-> fb,
                  rsdp |-> rsdp,
                  initrd |-> place["initrd"] * PAGE_SIZE,
                  initrd_len |-> IF place["initrd"] = 0 THEN 0 ELSE machine.initrd.len,
                  kernel_phys |-> place["kernel"] * PAGE_SIZE,
                  kernel_len |-> Span.size]
  BY <1>1, <1>3 DEF HandOff
<1>5. /\ Len(map) <= room.regions /\ map \in Seq(Desc) /\ MapRegular(map) /\ room.regions \in Nat
  BY <1>2 DEF MapInv, HandedInv
<1>6. Converted(c, Len(map), map) /\ Regular(c.regions)
  BY <1>1, <1>5, ConvertTells, ConvertRegular
<1>7. c.regions \in Seq(Reg) /\ Len(c.regions) <= room.regions
  <2>1. PICK n \in Nat, m \in Nat : n = Len(map) /\ m = room.regions /\ n <= m
    BY <1>5
  <2>2. PICK R \in Seq(Reg) : R = c.regions /\ Len(R) <= n
    BY <1>6, <2>1 DEF Converted
  <2> QED BY <2>1, <2>2
<1>8. info'.regions = c.regions
  BY <1>4
<1>9. info'.regions \in Seq(Reg) /\ Regular(info'.regions) /\ Len(info'.regions) <= room'.regions
  BY <1>4, <1>6, <1>7, <1>8
<1>10. Span' = Span
  BY <1>4, Zenon DEF Span, elf
<1>11. /\ info'.kernel_phys = place'["kernel"] * PAGE_SIZE /\ info'.kernel_len = Span'.size
       /\ info'.memory_map = place'["regions"] * PAGE_SIZE
       /\ info'.initrd = place'["initrd"] * PAGE_SIZE
       /\ info'.initrd_len = IF place'["initrd"] = 0 THEN 0 ELSE machine'.initrd.len
  BY <1>4, <1>10
<1>12. Regular(info.regions)'
  BY <1>9 DEF Regular, WholePages
<1>13. Handed'
  BY <1>9, <1>11, <1>12 DEF Handed
<1> QED BY <1>4, <1>13 DEF HandedInv

(* Steps that leave the map and the hand-off alone. *)
LEMMA QuietHanded ==
  ASSUME HandedInv, UNCHANGED <<machine, room, place, map, info>>,
         Entered' => Entered, stage' \in {"exit", "handoff"} => stage' = stage
  PROVE  HandedInv'
<1>1. Span' = Span
  BY Zenon DEF Span, elf
<1>2. Handed' <=> Handed
  BY <1>1 DEF Handed
<1>3. MapRegular(map)' <=> MapRegular(map)
  BY DEF MapRegular
<1> QED BY <1>2, <1>3 DEF HandedInv

(* Every step keeps HandedInv. *)
LEMMA HandedInductive == MapInv /\ HandedInv /\ [Next]_vars => HandedInv'
<1> SUFFICES ASSUME MapInv, HandedInv, [Next]_vars PROVE HandedInv'
  OBVIOUS
<1>1. CASE UNCHANGED vars
  <2>1. UNCHANGED <<machine, room, place, map, info, stage>>
    BY <1>1 DEF vars
  <2> QED BY <2>1, QuietHanded DEF Entered
<1>2. CASE Loader
  <2>1. CASE TakeMap \/ ExitBootServices \/ HandOff
    BY <2>1, TakingHanded, LeavingHanded, HandingHanded DEF MapInv
  <2> QED BY <1>2, <2>1, EarlyStages, BeforeHanded, Zenon DEF Loader
<1>3. CASE MemInit \/ Discover
  <2>1. /\ UNCHANGED <<machine, room, place, map, info>>
        /\ stage = "kernel" \/ stage = "memory"
        /\ stage' = "halted" \/ stage' = "memory" \/ stage' = "ready"
    BY <1>3, Zenon DEF MemInit, Settle, Discover, KernelStep, Leaving
  <2> QED BY <2>1, QuietHanded DEF Entered
<1>4. CASE FirmwareActs
  <2>1. UNCHANGED <<machine, room, place, map, info, stage>>
    BY <1>4, Zenon DEF FirmwareActs, Leaving, KernelVars
  <2> QED BY <2>1, QuietHanded DEF Entered
<1> QED BY <1>1, <1>2, <1>3, <1>4 DEF Next

(* It holds to begin with. *)
LEMMA HandedInitially == Init => HandedInv
BY DEF Init, HandedInv, Entered

(* What the kernel's steps may rely on. *)
LEMMA RegionsAreHeld ==
  ASSUME MapInv, HandedInv, Entered
  PROVE  RegionsHold
BY DEF MapInv, HandedInv, Handed, RegionsHold

(***************************************************************************)
(* What mem::init excludes is the loader's, which no usable region meets.  *)
(***************************************************************************)
LEMMA PlacedMissed ==
  ASSUME RegionsHold, LoaderHas, NEW w \in Place, NEW p \in Nat \ {0}, p = place[w],
         NEW n \in Nat, n = PlacePages(w), NEW len \in Nat, len <= n * PAGE_SIZE,
         NEW i \in UsableIndex, NEW to, to = saturating(p * PAGE_SIZE + len), p * PAGE_SIZE < to
  PROVE  Missed(Bounds(info.regions[i]), p * PAGE_SIZE, to)
<1> SUFFICES ASSUME ~Missed(Bounds(info.regions[i]), p * PAGE_SIZE, to) PROVE FALSE
  OBVIOUS
<1>1. PICK a \in 0 .. Pages, b \in 0 .. Pages :
        /\ a < b
        /\ Bounds(info.regions[i]) = <<a * PAGE_SIZE, b * PAGE_SIZE>>
        /\ a * PAGE_SIZE \in Nat /\ b * PAGE_SIZE \in Nat
        /\ \A q \in PhysPage : /\ i \in CountedIn(q) <=> a <= q /\ q < b
                               /\ i \in CountedIn(q) => ram[q] = "CONVENTIONAL" /\ CountedIn(q) = {i}
  BY UsableBounds, Zenon
<1>12. a * PAGE_SIZE \in Nat /\ b * PAGE_SIZE \in Nat
  BY <1>1
<1>13. p * PAGE_SIZE \in Nat /\ (p + n) * PAGE_SIZE \in Nat
  BY PagesNat
<1>2. a * PAGE_SIZE < to /\ p * PAGE_SIZE < b * PAGE_SIZE
  <2>1. PICK x \in Nat, y \in Nat, z \in Nat : x = a * PAGE_SIZE /\ y = b * PAGE_SIZE /\ z = p * PAGE_SIZE
    BY <1>12, <1>13
  <2>2. to \in Nat
    BY <2>1, PagesNat DEF saturating
  <2> QED BY <1>1, <2>1, <2>2 DEF Missed
<1>3. to <= (p + n) * PAGE_SIZE /\ 0 < len
  <2>1. PICK x \in Nat, y \in Nat : x = p * PAGE_SIZE /\ y = n * PAGE_SIZE
    BY PagesNat
  <2>2. (p + n) * PAGE_SIZE = x + y
    BY <2>1, PagesNat
  <2>3. to = saturating(x + len) /\ len <= y /\ x < to
    BY <2>1
  <2> QED BY <2>1, <2>2, <2>3, PagesNat DEF saturating
<1>4. a < p + n
  <2>1. PICK x \in Nat, y \in Nat : x = a * PAGE_SIZE /\ y = (p + n) * PAGE_SIZE
    BY <1>12, <1>13
  <2>2. to \in Int
    BY PagesNat DEF saturating
  <2>3. x < y
    BY <1>2, <1>3, <2>1, <2>2
  <2> QED BY <2>1, <2>3, PagesNat, Multiples
<1>5. p < b
  BY <1>2, PagesNat, Multiples
<1>6. 0 < n
  <2>1. n # 0
    BY <1>3, PagesNat
  <2> QED BY <2>1
<1>7. PICK q : q = IF a <= p THEN p ELSE a
  OBVIOUS
<1>8. q \in PhysPage /\ a <= q /\ q < b /\ q \in p .. p + n - 1
  BY <1>1, <1>4, <1>5, <1>6, <1>7, PagesNat DEF PhysPage
<1>9. ram[q] = "CONVENTIONAL"
  BY <1>1, <1>8
<1>10. q \in Occupied(w)
  BY <1>8 DEF Occupied
<1>11. ram[q] = "LOADER_DATA"
  BY <1>8, <1>10 DEF LoaderHas, LoaderOwned
<1> QED BY <1>9, <1>11

(* An exclusion of something placed carves nothing. *)
Spared(ex) ==
  /\ ex \in Int \X Int
  /\ \A to : to = saturating(ex[1] + ex[2]) /\ ex[1] < to
       => \A i \in UsableIndex : Missed(Bounds(info.regions[i]), ex[1], to)

(* An exclusion within what the loader placed cuts no usable region. *)
LEMMA PlacedSpared ==
  ASSUME RegionsHold, LoaderHas, NEW w \in Place, place[w] \in Nat \ {0},
         PlacePages(w) \in Nat, NEW len \in Nat, len <= PlacePages(w) * PAGE_SIZE
  PROVE  Spared(<<place[w] * PAGE_SIZE, len>>)
<1>1. PICK p \in Nat \ {0}, n \in Nat : p = place[w] /\ n = PlacePages(w)
  OBVIOUS
<1>2. p * PAGE_SIZE \in Int
  BY PagesNat
<1>3. \A to : to = saturating(p * PAGE_SIZE + len) /\ p * PAGE_SIZE < to
        => \A i \in UsableIndex : Missed(Bounds(info.regions[i]), p * PAGE_SIZE, to)
  BY <1>1, PlacedMissed
<1>4. PICK x \in Int : x = p * PAGE_SIZE
  BY <1>2
<1>5. PICK ex : ex = <<x, len>>
  OBVIOUS
<1>6. ex[1] = x /\ ex[2] = len /\ ex \in Int \X Int
  BY <1>5
<1>7. Spared(ex)
  BY <1>3, <1>4, <1>6 DEF Spared
<1> QED BY <1>1, <1>4, <1>5, <1>7

(* Carving such an exclusion changes no run. *)
LEMMA CarveSpares ==
  ASSUME RegionsHold, NEW N \in Nat, NEW c, Runs(c, N), NEW g,
         \A m \in 1 .. c.live : g[m] \in UsableIndex /\ c.out[m] = Bounds(info.regions[g[m]]),
         NEW ex, Spared(ex)
  PROVE  Carve(c, ex) = c
<1>1. PICK x \in Int, y \in Int : ex = <<x, y>>
  BY DEF Spared
<1>2. PICK to : to = saturating(x + y)
  OBVIOUS
<1>3. ex[1] = x /\ ex[2] = y
  BY <1>1
<1>4. CASE to <= x
  BY <1>2, <1>3, <1>4 DEF Carve
<1>5. CASE ~(to <= x)
  <2>1. to \in Int
    BY <1>2, PagesNat DEF saturating
  <2>2. x < to
    BY <1>5, <2>1
  <2>3. \A i \in UsableIndex : Missed(Bounds(info.regions[i]), x, to)
    BY <1>2, <1>3, <2>2 DEF Spared
  <2>4. \A j \in 1 .. c.live : Missed(c.out[j], x, to)
    BY <2>3
  <2>5. c \in Filling(N) /\ Orderly(c, N)
    BY DEF Runs
  <2> QED BY <1>1, <1>2, <2>4, <2>5, CarveMisses
<1> QED BY <1>4, <1>5

(* Nor does carving any number of them. *)
LEMMA CarvedSpares ==
  ASSUME RegionsHold, NEW N \in Nat, NEW c, c = Filled(info.regions, N),
         NEW n \in Nat, NEW exs, Excluded(exs, n), \A k \in 1 .. n : Spared(exs[k])
  PROVE  FoldLeft(Carve, c, exs) = c
<1>1. Runs(c, N) /\ c.live = Least(c.n, N) /\ c.n \in Nat
      /\ \E g : /\ Matches(g, c.n, UsableIndex)
                /\ \A m \in 1 .. c.live : c.out[m] = Bounds(info.regions[g[m]])
  BY FilledRuns
<1>2. PICK g : /\ Matches(g, c.n, UsableIndex)
               /\ \A m \in 1 .. c.live : c.out[m] = Bounds(info.regions[g[m]])
  BY <1>1
<1>3. c.live <= c.n /\ c.live \in Nat
  BY <1>1 DEF Least
<1>4. \A m \in 1 .. c.live : g[m] \in UsableIndex /\ c.out[m] = Bounds(info.regions[g[m]])
  <2> SUFFICES ASSUME NEW m \in 1 .. c.live
               PROVE  g[m] \in UsableIndex /\ c.out[m] = Bounds(info.regions[g[m]])
    OBVIOUS
  <2>1. m \in 1 .. c.n
    BY <1>1, <1>3
  <2>2. g \in [1 .. c.n -> UsableIndex]
    BY <1>2 DEF Matches
  <2> QED BY <1>2, <2>1, <2>2
<1>5. PICK T : CarvedOut(T, c, exs, n, FoldLeft(Carve, c, exs))
  BY <1>1, CarvedSteps
<1>6. T[0] = c /\ FoldLeft(Carve, c, exs) = T[n] /\ \A k \in 1 .. n : T[k] = Carve(T[k - 1], exs[k])
  BY <1>5 DEF CarvedOut
<1> DEFINE Same == {k \in 0 .. n : T[k] = c}
<1>7. 0 \in Same
  BY <1>6
<1>8. ASSUME NEW k \in 0 .. n, k # n, k \in Same PROVE k + 1 \in Same
  <2>1. k + 1 \in 1 .. n /\ (k + 1) - 1 = k /\ k + 1 \in 0 .. n
    BY <1>8
  <2>2. T[k + 1] = Carve(T[k], exs[k + 1]) /\ T[k] = c
    BY <1>6, <1>8, <2>1
  <2>3. PICK ex : ex = exs[k + 1] /\ Spared(ex)
    BY <2>1
  <2>4. Carve(c, ex) = c
    BY <1>1, <1>4, <2>3, CarveSpares
  <2> QED BY <2>1, <2>2, <2>3, <2>4
<1> HIDE DEF Same
<1>9. \A k \in 0 .. n : k # n /\ k \in Same => k + 1 \in Same
  BY <1>8
<1>10. \A k \in 0 .. n : k \in Same
  BY <1>7, <1>9, UpToBound
<1>11. n \in Same
  BY <1>10
<1> QED BY <1>6, <1>11 DEF Same

(* Whole pages hold what they were counted for. *)
LEMMA RoundedPages ==
  ASSUME NEW n \in Nat
  PROVE  pages_for(n) \in Nat /\ n <= pages_for(n) * PAGE_SIZE
BY RoundsUp

(* The four exclusions are of what the loader placed, or of nothing. *)
LEMMA ExclusionsSpared ==
  ASSUME MapInv, KernelInv, PlacesInv, HandedInv, stage = "kernel", validate
  PROVE  Excluded(Exclusions, 4) /\ \A k \in 1 .. 4 : Spared(Exclusions[k])
<1>1. RegionsHold /\ Handed /\ LoaderHas
  BY RegionsAreHeld DEF Entered, HandedInv, PlacesInv
<1>2. /\ place \in [Place -> Nat] /\ machine \in Machines /\ Linked
      /\ {"kernel", "regions", "info", "initrd"} \subseteq Place
  BY DEF KernelInv, Complete, Place
<1>3. Spared(<<info.kernel_phys, info.kernel_len>>)
  <2>1. Span.size \in Nat
    BY <1>2, SpanFits DEF Linked
  <2>2. PlacePages("kernel") \in Nat /\ Span.size <= PlacePages("kernel") * PAGE_SIZE
    BY <2>1, RoundedPages, PlaceSizes
  <2>3. place["kernel"] \in Nat \ {0}
    BY <1>2 DEF Linked
  <2>4. Spared(<<place["kernel"] * PAGE_SIZE, Span.size>>)
    BY <1>1, <1>2, <2>1, <2>2, <2>3, PlacedSpared
  <2> QED BY <1>1, <2>4 DEF Handed
<1>4. Spared(<<info.memory_map, Len(info.regions) * REGION>>)
  <2>1. PICK n \in Nat, m \in Nat : n = Len(info.regions) /\ m = room.regions /\ n <= m
    BY <1>1 DEF Handed, MapInv
  <2>2. REGION \in Nat \ {0}
    BY BootAssumption
  <2>3. n * REGION \in Nat /\ m * REGION \in Nat /\ n * REGION <= m * REGION
    BY <2>1, <2>2, Multiples
  <2>4. pages_for(m * REGION) \in Nat /\ m * REGION <= pages_for(m * REGION) * PAGE_SIZE
    BY <2>3, RoundedPages
  <2>5. PlacePages("regions") \in Nat /\ n * REGION <= PlacePages("regions") * PAGE_SIZE
    <3>1. PlacePages("regions") = pages_for(m * REGION)
      BY <2>1, PlaceSizes
    <3>2. PICK x \in Nat, y \in Nat, z \in Nat :
            x = n * REGION /\ y = m * REGION /\ z = pages_for(m * REGION) * PAGE_SIZE
      <4>1. pages_for(m * REGION) * PAGE_SIZE \in Nat
        BY <2>4, PagesNat
      <4> QED BY <2>3, <4>1
    <3>3. x <= z
      BY <2>3, <2>4, <3>2
    <3> QED BY <2>4, <3>1, <3>2, <3>3
  <2>6. place["regions"] \in Nat \ {0}
    <3>1. info.memory_map # 0 /\ info.memory_map = place["regions"] * PAGE_SIZE
      BY <1>1 DEF validate, Handed
    <3>2. place["regions"] # 0
      BY <3>1, PagesNat
    <3> QED BY <1>2, <3>2
  <2>7. Spared(<<place["regions"] * PAGE_SIZE, n * REGION>>)
    BY <1>1, <1>2, <2>3, <2>5, <2>6, PlacedSpared
  <2> QED BY <1>1, <2>1, <2>7 DEF Handed
<1>5. Spared(<<place["info"] * PAGE_SIZE, INFO>>)
  <2>1. INFO \in Nat /\ INFO <= 1 * PAGE_SIZE
    BY BootAssumption, PagesNat
  <2>2. place["info"] \in Nat \ {0}
    BY <1>2 DEF PlacesInv, Buffers, Informed
  <2>3. PlacePages("info") = 1
    BY PlaceSizes
  <2> QED BY <1>1, <1>2, <2>1, <2>2, <2>3, PlacedSpared
<1>6. Spared(IF info.initrd # 0 /\ info.initrd_len # 0 THEN <<info.initrd, info.initrd_len>> ELSE <<0, 0>>)
  <2>1. CASE info.initrd # 0 /\ info.initrd_len # 0
    <3>1. info.initrd = place["initrd"] * PAGE_SIZE
      BY <1>1 DEF Handed
    <3>2. place["initrd"] \in Nat \ {0}
      BY <1>2, <2>1, <3>1, PagesNat
    <3>3. info.initrd_len = machine.initrd.len
      BY <1>1, <3>2 DEF Handed
    <3>4. machine.initrd.len \in Nat
      BY <1>2, BootAssumption
    <3>5. PlacePages("initrd") \in Nat /\ machine.initrd.len <= PlacePages("initrd") * PAGE_SIZE
      BY <3>4, RoundedPages, PlaceSizes
    <3>6. Spared(<<place["initrd"] * PAGE_SIZE, machine.initrd.len>>)
      BY <1>1, <1>2, <3>2, <3>4, <3>5, PlacedSpared
    <3> QED BY <2>1, <3>1, <3>3, <3>6
  <2>2. CASE ~(info.initrd # 0 /\ info.initrd_len # 0)
    <3>1. PICK ex : ex = <<0, 0>>
      OBVIOUS
    <3>2. ex[1] = 0 /\ ex[2] = 0 /\ ex \in Int \X Int
      BY <3>1
    <3>3. ~(0 < saturating(0 + 0))
      BY PagesNat DEF saturating
    <3>4. Spared(ex)
      BY <3>2, <3>3 DEF Spared
    <3> QED BY <2>2, <3>1, <3>4
  <2> QED BY <2>1, <2>2
<1>7. PICK w, x, y, z :
        /\ w = <<info.kernel_phys, info.kernel_len>> /\ x = <<info.memory_map, Len(info.regions) * REGION>>
        /\ y = <<place["info"] * PAGE_SIZE, INFO>>
        /\ z = IF info.initrd # 0 /\ info.initrd_len # 0 THEN <<info.initrd, info.initrd_len>> ELSE <<0, 0>>
  OBVIOUS
<1>8. Exclusions = <<w, x, y, z>>
  BY <1>7 DEF Exclusions
<1>9. Spared(w) /\ Spared(x) /\ Spared(y) /\ Spared(z)
  BY <1>3, <1>4, <1>5, <1>6, <1>7
<1>10. w \in Int \X Int /\ x \in Int \X Int /\ y \in Int \X Int /\ z \in Int \X Int
  BY <1>9 DEF Spared
<1>11. PICK exs : exs = <<w, x, y, z>>
  OBVIOUS
<1>12. Excluded(exs, 4)
  BY <1>10, <1>11 DEF Excluded
<1>13. \A k \in 1 .. 4 : exs[k] \in {w, x, y, z}
  BY <1>11
<1>14. \A k \in 1 .. 4 : Spared(exs[k])
  <2> SUFFICES ASSUME NEW k \in 1 .. 4 PROVE Spared(exs[k])
    OBVIOUS
  <2>1. exs[k] = w \/ exs[k] = x \/ exs[k] = y \/ exs[k] = z
    BY <1>13
  <2> QED BY <1>9, <2>1
<1> QED BY <1>8, <1>11, <1>12, <1>14

(***************************************************************************)
(* The runs mem::init takes: usable regions, one each, as many as there    *)
(* are or there is room for; the others are counted.                       *)
(***************************************************************************)
PagesIn(i) == {p \in PhysPage : i \in CountedIn(p)}
TookRegions(runs, n, h) ==
  /\ DOMAIN runs = 1 .. n /\ Len(runs) = n
  /\ \A x \in 1 .. n : /\ h[x] \in UsableIndex
                       /\ \E a \in 0 .. Pages, b \in 0 .. Pages :
                            /\ a < b /\ runs[x] = <<a * PAGE_SIZE, b * PAGE_SIZE - a * PAGE_SIZE>>
                            /\ PagesIn(h[x]) = a .. b - 1
  /\ \A x, y \in 1 .. n : h[x] = h[y] => x = y

(* The pages of a usable region, and its bounds. *)
LEMMA PagesOfRegion ==
  ASSUME RegionsHold, NEW i \in UsableIndex
  PROVE  \E a \in 0 .. Pages, b \in 0 .. Pages :
           /\ a < b /\ Bounds(info.regions[i]) = <<a * PAGE_SIZE, b * PAGE_SIZE>>
           /\ info.regions[i].start = a * PAGE_SIZE /\ end(info.regions[i]) = b * PAGE_SIZE
           /\ info.regions[i].len = b * PAGE_SIZE - a * PAGE_SIZE
           /\ PagesIn(i) = a .. b - 1
<1>1. PICK a \in 0 .. Pages, b \in 0 .. Pages :
        /\ a < b
        /\ info.regions[i].start = a * PAGE_SIZE
        /\ info.regions[i].len = b * PAGE_SIZE - a * PAGE_SIZE
        /\ end(info.regions[i]) = b * PAGE_SIZE
        /\ Bounds(info.regions[i]) = <<a * PAGE_SIZE, b * PAGE_SIZE>>
        /\ \A p \in PhysPage : /\ i \in CountedIn(p) <=> a <= p /\ p < b
                               /\ i \in CountedIn(p) => ram[p] = "CONVENTIONAL" /\ CountedIn(p) = {i}
  BY UsableBounds, Zenon
<1>2. \A p : p \in PagesIn(i) <=> p \in PhysPage /\ a <= p /\ p < b
  BY <1>1 DEF PagesIn
<1>3. \A p : p \in a .. b - 1 <=> p \in PhysPage /\ a <= p /\ p < b
  BY PagesNat DEF PhysPage
<1>4. PagesIn(i) = a .. b - 1
  BY <1>2, <1>3
<1> QED BY <1>1, <1>4

(* The runs taken are usable regions, none twice, and all found are counted. *)
LEMMA TakenRegions ==
  ASSUME RegionsHold, NEW exs, Excluded(exs, 4), \A k \in 1 .. 4 : Spared(exs[k]), NEW N \in Nat,
         NEW f, f = free_runs(info.regions, exs, N)
  PROVE  \E n \in Nat : \E h : /\ n = Least(UsableRuns, N) /\ TookRegions(Taken(f), n, h)
                                /\ f.found - n = UsableRuns - n
<1>1. PICK c : c = Filled(info.regions, N)
  OBVIOUS
<1>2. FoldLeft(Carve, c, exs) = c
  BY <1>1, CarvedSpares
<1>3. f = FreeRuns(c, Compacted(c))
  BY <1>1, <1>2, Zenon DEF free_runs, Carved
<1>4. /\ Runs(c, N) /\ c.live = Least(c.n, N) /\ c.n \in Nat
      /\ \E g : /\ Matches(g, c.n, UsableIndex)
                /\ \A m \in 1 .. c.live : c.out[m] = Bounds(info.regions[g[m]])
  BY <1>1, FilledRuns
<1>5. c.n = UsableRuns /\ UsableRuns \in Nat
  BY <1>1, UsableCounted
<1>6. PICK g : /\ Matches(g, c.n, UsableIndex)
               /\ \A m \in 1 .. c.live : c.out[m] = Bounds(info.regions[g[m]])
  BY <1>4
<1>7. PICK n \in Nat : n = c.live /\ n <= c.n /\ n <= N /\ (c.n <= N \/ n = N) /\ (c.n <= N => n = c.n)
  BY <1>4 DEF Least
<1>8. \A m \in 1 .. n : m \in 1 .. c.n
  BY <1>4, <1>7
<1>9. \A m \in 1 .. n : g[m] \in UsableIndex
  BY <1>6, <1>8 DEF Matches
<1>10. \A m, k \in 1 .. n : g[m] = g[k] => m = k
  BY <1>6, <1>8 DEF Matches
<1>11. ASSUME NEW m \in 1 .. n
       PROVE  \E a \in 0 .. Pages, b \in 0 .. Pages :
                /\ a < b /\ c.out[m] = <<a * PAGE_SIZE, b * PAGE_SIZE>>
                /\ <<c.out[m][1], Length(c.out[m])>> = <<a * PAGE_SIZE, b * PAGE_SIZE - a * PAGE_SIZE>>
                /\ PagesIn(g[m]) = a .. b - 1 /\ Length(c.out[m]) > 0
  <2>1. g[m] \in UsableIndex /\ c.out[m] = Bounds(info.regions[g[m]])
    BY <1>6, <1>7, <1>9
  <2>2. PICK i \in UsableIndex : i = g[m]
    BY <2>1
  <2>3. PICK a \in 0 .. Pages, b \in 0 .. Pages :
          a < b /\ Bounds(info.regions[i]) = <<a * PAGE_SIZE, b * PAGE_SIZE>> /\ PagesIn(i) = a .. b - 1
    BY PagesOfRegion, Zenon
  <2>4. a * PAGE_SIZE \in Nat /\ b * PAGE_SIZE \in Nat /\ a * PAGE_SIZE < b * PAGE_SIZE
    BY <2>3, PagesNat, Multiples
  <2>5. c.out[m] = <<a * PAGE_SIZE, b * PAGE_SIZE>>
    BY <2>1, <2>2, <2>3
  <2>6. Length(c.out[m]) = b * PAGE_SIZE - a * PAGE_SIZE /\ c.out[m][1] = a * PAGE_SIZE
    BY <2>5 DEF Length
  <2>7. Length(c.out[m]) > 0
    BY <2>4, <2>6
  <2> QED BY <2>2, <2>3, <2>5, <2>6, <2>7
<1>12. NotEmpty(c, n) = 1 .. n
  BY <1>11 DEF NotEmpty
<1>13. c \in Filling(N) /\ c.live <= N
  BY <1>4, <1>7 DEF Runs
<1>14a. PICK m \in 0 .. N : \E k :
         /\ Matches(k, m, NotEmpty(c, c.live))
         /\ f.found = m + Greatest(c.n - N, 0)
         /\ c.n <= N \/ m = N =>
              /\ DOMAIN Taken(f) = 1 .. m /\ Len(Taken(f)) = m
              /\ \A x \in 1 .. m : Taken(f)[x] = <<c.out[k[x]][1], Length(c.out[k[x]])>>
  BY <1>3, <1>13, TakenIs
<1>14. PICK k :
         /\ Matches(k, m, NotEmpty(c, c.live))
         /\ f.found = m + Greatest(c.n - N, 0)
         /\ c.n <= N \/ m = N =>
              /\ DOMAIN Taken(f) = 1 .. m /\ Len(Taken(f)) = m
              /\ \A x \in 1 .. m : Taken(f)[x] = <<c.out[k[x]][1], Length(c.out[k[x]])>>
  BY <1>14a
<1>15. Matches(k, m, 1 .. n)
  BY <1>7, <1>12, <1>14
<1>16. m = n
  <2>1. m \in Nat
    OBVIOUS
  <2>2. Cardinality(1 .. n) = m
    BY <1>15, <2>1, MatchCounts
  <2>3. Cardinality(1 .. n) = n
    BY FS_Interval
  <2> QED BY <2>2, <2>3
<1>17. /\ DOMAIN Taken(f) = 1 .. n /\ Len(Taken(f)) = n
       /\ \A x \in 1 .. n : Taken(f)[x] = <<c.out[k[x]][1], Length(c.out[k[x]])>>
  BY <1>7, <1>14, <1>16
<1>18. \A x \in 1 .. n : k[x] \in 1 .. n
  BY <1>15, <1>16 DEF Matches
<1>19. \A x, y \in 1 .. n : k[x] = k[y] => x = y
  BY <1>15, <1>16 DEF Matches
<1>20. PICK h : h = [x \in 1 .. n |-> g[k[x]]]
  OBVIOUS
<1>21. \A x \in 1 .. n : h[x] = g[k[x]]
  BY <1>20
<1>22. ASSUME NEW x \in 1 .. n
       PROVE  /\ h[x] \in UsableIndex
              /\ \E a \in 0 .. Pages, b \in 0 .. Pages :
                   /\ a < b /\ Taken(f)[x] = <<a * PAGE_SIZE, b * PAGE_SIZE - a * PAGE_SIZE>>
                   /\ PagesIn(h[x]) = a .. b - 1
  <2>1. PICK m1 \in 1 .. n : m1 = k[x]
    BY <1>18
  <2>2. PICK a \in 0 .. Pages, b \in 0 .. Pages :
          /\ a < b
          /\ <<c.out[m1][1], Length(c.out[m1])>> = <<a * PAGE_SIZE, b * PAGE_SIZE - a * PAGE_SIZE>>
          /\ PagesIn(g[m1]) = a .. b - 1
    BY <1>11
  <2>3. h[x] = g[m1] /\ Taken(f)[x] = <<c.out[m1][1], Length(c.out[m1])>>
    BY <1>17, <1>21, <2>1
  <2>4. h[x] \in UsableIndex
    BY <1>9, <2>3
  <2> QED BY <2>2, <2>3, <2>4
<1>23. \A x, y \in 1 .. n : h[x] = h[y] => x = y
  BY <1>10, <1>18, <1>19, <1>21
<1>24. TookRegions(Taken(f), n, h)
  BY <1>17, <1>22, <1>23 DEF TookRegions
<1>25. n = Least(UsableRuns, N)
  BY <1>4, <1>5, <1>7
<1>26. f.found = UsableRuns
  <2>1. f.found = n + Greatest(c.n - N, 0)
    BY <1>14, <1>16
  <2>2. PICK u \in Nat : u = c.n /\ u = UsableRuns
    BY <1>5
  <2> QED BY <1>7, <2>1, <2>2 DEF Greatest
<1> QED BY <1>24, <1>25, <1>26

(* The whole frames of a run of pages, and the pages between two bounds. *)
LEMMA FramesOf ==
  ASSUME NEW a \in 0 .. Pages, NEW b \in 0 .. Pages
  PROVE  WholeFrames(<<a * PAGE_SIZE, b * PAGE_SIZE - a * PAGE_SIZE>>) = a .. b - 1
<1>1. PICK x \in Nat, y \in Nat : x = a * PAGE_SIZE /\ y = b * PAGE_SIZE
  BY PagesNat
<1>2. PICK run : run = <<x, y - x>>
  OBVIOUS
<1>3. run[1] = x /\ run[1] + run[2] = y
  BY <1>2
<1>4. ASSUME NEW p PROVE p \in WholeFrames(run) <=> p \in a .. b - 1
  <2>1. p \in WholeFrames(run) <=> p \in PhysPage /\ x <= p * PAGE_SIZE /\ (p + 1) * PAGE_SIZE <= y
    BY <1>3 DEF WholeFrames
  <2>2. ASSUME NEW q \in Int PROVE (x <= q * PAGE_SIZE <=> a <= q) /\ ((q + 1) * PAGE_SIZE <= y <=> q + 1 <= b)
    BY <1>1, PagesNat, Multiples
  <2>3. p \in PhysPage => p \in Int
    BY DEF PhysPage
  <2>4. p \in a .. b - 1 => p \in PhysPage
    BY PagesNat DEF PhysPage
  <2>5. CASE p \in Int
    <3>1. (x <= p * PAGE_SIZE <=> a <= p) /\ ((p + 1) * PAGE_SIZE <= y <=> p + 1 <= b)
      BY <2>2, <2>5
    <3>2. p \in a .. b - 1 <=> a <= p /\ p + 1 <= b
      BY <2>5
    <3> QED BY <2>1, <2>4, <3>1, <3>2
  <2> QED BY <2>1, <2>3, <2>5
<1>5. WholeFrames(run) = a .. b - 1
  BY <1>4
<1> QED BY <1>1, <1>2, <1>5

(* The pages between two page bounds. *)
LEMMA PagesBetween ==
  ASSUME NEW a \in 0 .. Pages, NEW b \in 0 .. Pages
  PROVE  PagesOf(a * PAGE_SIZE, b * PAGE_SIZE) = a .. b - 1
<1>1. PICK x \in Nat, y \in Nat : x = a * PAGE_SIZE /\ y = b * PAGE_SIZE
  BY PagesNat
<1>2. PICK top \in Nat : top = ADDR_MAX \div PAGE_SIZE
  BY PagesNat, Quotient
<1>3. ASSUME NEW p \in Int PROVE (x <= p * PAGE_SIZE <=> a <= p) /\ (p * PAGE_SIZE < y <=> p < b)
  BY <1>1, PagesNat, Multiples
<1>4. ASSUME NEW p \in Int, a <= p, p < b PROVE p \in 0 .. top
  <2>1. p < Pages /\ p \in Nat
    BY <1>4, PagesNat
  <2>2. p * PAGE_SIZE < Pages * PAGE_SIZE /\ p * PAGE_SIZE \in Nat
    BY <2>1, PagesNat, Multiples
  <2>3. p * PAGE_SIZE < ADDR_MAX
    <3>1. PICK u \in Nat, v \in Nat : u = p * PAGE_SIZE /\ v = Pages * PAGE_SIZE
      BY <2>2, PagesNat
    <3> QED BY <2>2, <3>1, PagesNat
  <2>4. ADDR_MAX = top * PAGE_SIZE + (ADDR_MAX % PAGE_SIZE) /\ ADDR_MAX % PAGE_SIZE \in 0 .. PAGE_SIZE - 1
    BY <1>2, PagesNat, Quotient
  <2>5. (top + 1) * PAGE_SIZE = top * PAGE_SIZE + PAGE_SIZE /\ top * PAGE_SIZE \in Nat
    BY PagesNat
  <2>6. p * PAGE_SIZE < (top + 1) * PAGE_SIZE
    <3>1. PICK u \in Nat, v \in Nat : u = p * PAGE_SIZE /\ v = top * PAGE_SIZE
      BY <2>2, <2>5
    <3> QED BY <2>3, <2>4, <2>5, <3>1, PagesNat
  <2>7. p < top + 1
    BY <2>1, <2>6, PagesNat, Multiples
  <2> QED BY <2>1, <2>7
<1>5. PagesOf(x, y) = {p \in 0 .. top : x <= p * PAGE_SIZE /\ p * PAGE_SIZE < y}
  BY <1>2 DEF PagesOf
<1>6. ASSUME NEW p PROVE p \in PagesOf(x, y) <=> p \in a .. b - 1
  <2>1. p \in PagesOf(x, y) => p \in Int /\ a <= p /\ p < b
    BY <1>3, <1>5
  <2>2. p \in Int /\ a <= p /\ p < b => p \in PagesOf(x, y)
    BY <1>3, <1>4, <1>5
  <2> QED BY <2>1, <2>2
<1> QED BY <1>1, <1>6

(* The heap is of whole pages. *)
LEMMA HeapWhole ==
  ASSUME NEW runs
  PROVE  \E q \in Nat : HeapLen(runs) = q * PAGE_SIZE
<1>1. PICK S : S = UNION {WholeFrames(runs[i]) : i \in DOMAIN runs}
  OBVIOUS
<1>2. S \in SUBSET PhysPage
  BY <1>1 DEF WholeFrames
<1>3. IsFiniteSet(PhysPage)
  BY PagesNat, FS_Interval DEF PhysPage
<1>4. PICK c \in Nat : c = Cardinality(S)
  BY <1>2, <1>3, FS_Subset, FS_CardinalityType
<1>5. PICK k \in Nat : k = (c + 8 - 1) \div 8
  BY Quotient
<1>6. UpTo(c, 8) \div 8 \in Nat
  BY <1>5, Quotient DEF UpTo
<1>7. PICK m \in Nat : m = metadata_bytes_for(runs) + HEAP_SLACK
  <2>1. metadata_bytes_for(runs) = UpTo(c, 8) \div 8
    BY <1>1, <1>4, Zenon DEF metadata_bytes_for
  <2>2. HEAP_SLACK \in Nat
    BY BootAssumption
  <2> QED BY <1>6, <2>1, <2>2
<1>8. HeapLen(runs) = UpTo(m, PAGE_SIZE)
  BY <1>7 DEF HeapLen
<1> QED BY <1>8, RoundsUp

(* The pages of two usable regions are apart, and free. *)
LEMMA RegionsApart ==
  ASSUME RegionsHold, NEW i \in UsableIndex, NEW p \in PagesIn(i)
  PROVE  /\ p \in PhysPage /\ ram[p] = "CONVENTIONAL"
         /\ \A j \in UsableIndex : p \in PagesIn(j) => j = i
<1>1. p \in PhysPage /\ i \in CountedIn(p)
  BY DEF PagesIn
<1>2. ram[p] = "CONVENTIONAL" /\ CountedIn(p) = {i}
  BY <1>1, UsableBounds
<1> QED BY <1>1, <1>2 DEF PagesIn

(* The longest run is one of the runs. *)
LEMMA BiggestIs ==
  ASSUME NEW n \in Nat, n > 0, NEW h, NEW runs, TookRegions(runs, n, h)
  PROVE  Biggest(runs) \in 1 .. n
<1>1. PICK top \in Nat : top = Pages * PAGE_SIZE
  BY PagesNat
<1>2. ASSUME NEW x \in 1 .. n PROVE runs[x][2] \in Nat /\ runs[x][2] <= top
  <2>1. PICK a \in 0 .. Pages, b \in 0 .. Pages :
          a < b /\ runs[x] = <<a * PAGE_SIZE, b * PAGE_SIZE - a * PAGE_SIZE>>
    BY DEF TookRegions
  <2>2. /\ a * PAGE_SIZE \in Nat /\ b * PAGE_SIZE \in Nat
        /\ a * PAGE_SIZE < b * PAGE_SIZE /\ b * PAGE_SIZE <= Pages * PAGE_SIZE
    BY <2>1, PagesNat, Multiples
  <2>3. PICK u \in Nat, v \in Nat : u = a * PAGE_SIZE /\ v = b * PAGE_SIZE
    BY <2>2
  <2>4. runs[x][2] = v - u
    BY <2>1, <2>3
  <2> QED BY <1>1, <2>2, <2>3, <2>4
<1>3. DOMAIN runs = 1 .. n
  BY DEF TookRegions
<1> DEFINE Lens == {runs[x][2] : x \in 1 .. n}
<1>4. 1 \in 1 .. n
  OBVIOUS
<1>5. Lens \subseteq Nat /\ Lens # {} /\ \A y \in Lens : y <= top
  BY <1>2, <1>4
<1>6. PICK l \in Lens : \A y \in Lens : y <= l
  BY <1>5, GreatestExists
<1>7. PICK x \in 1 .. n : \A y \in 1 .. n : runs[y][2] <= runs[x][2]
  BY <1>6
<1> DEFINE S == {i \in DOMAIN runs : \A j \in DOMAIN runs : runs[j][2] <= runs[i][2]}
<1>8. x \in S /\ S \in SUBSET (1 .. n)
  BY <1>3, <1>7
<1>9. Max(S) \in S
  BY <1>8, MaxUpTo
<1> QED BY <1>8, <1>9 DEF Biggest

(* What mem::init gives to the heap and to the pool: every page of the     *)
(* regions taken, each once.                                               *)
LEMMA HeapAndPool ==
  ASSUME RegionsHold, NEW n \in Nat, NEW h, NEW runs, TookRegions(runs, n, h),
         NEW b, b = Biggest(runs), b \in 1 .. n, NEW len, len = HeapLen(runs), ~(runs[b][2] <= len),
         NEW pool, pool = PoolOf(Shortened(runs, b, len)),
         NEW heap, heap = PagesOf(runs[b][1], runs[b][1] + len)
  PROVE  pool \cup heap = UNION {PagesIn(h[x]) : x \in 1 .. n} /\ pool \cap heap = {}
<1>1. PICK s \in 0 .. Pages, e \in 0 .. Pages :
        s < e /\ runs[b] = <<s * PAGE_SIZE, e * PAGE_SIZE - s * PAGE_SIZE>> /\ PagesIn(h[b]) = s .. e - 1
  BY DEF TookRegions
<1>2. PICK q \in Nat : len = q * PAGE_SIZE
  BY HeapWhole
<1>3. (s + q) * PAGE_SIZE = s * PAGE_SIZE + q * PAGE_SIZE
  BY PagesNat
<1>4. s * PAGE_SIZE \in Nat /\ e * PAGE_SIZE \in Nat /\ q * PAGE_SIZE \in Nat
  BY PagesNat
<1>5. PICK x \in Nat, y \in Nat, z \in Nat : x = s * PAGE_SIZE /\ y = e * PAGE_SIZE /\ z = q * PAGE_SIZE
  BY <1>4
<1>6. runs[b] = <<x, y - x>> /\ len = z /\ (s + q) * PAGE_SIZE = x + z
  BY <1>1, <1>2, <1>3, <1>5
<1>7. runs[b][1] = x /\ runs[b][2] = y - x /\ x + z < y
  BY <1>5, <1>6
<1>8. s + q < e
  BY <1>5, <1>6, <1>7, PagesNat, Multiples
<1>9. s + q \in 0 .. Pages
  BY <1>8, PagesNat
<1>10. heap = s .. s + q - 1
  <2>1. heap = PagesOf(s * PAGE_SIZE, (s + q) * PAGE_SIZE)
    BY <1>5, <1>6, <1>7
  <2>2. PagesOf(s * PAGE_SIZE, (s + q) * PAGE_SIZE) = s .. (s + q) - 1
    BY <1>9, PagesBetween
  <2> QED BY <2>1, <2>2
<1>11. PICK cut : cut = Shortened(runs, b, len)
  OBVIOUS
<1>12. /\ DOMAIN cut = 1 .. n /\ cut[b] = <<x + z, (y - x) - z>>
       /\ \A m \in 1 .. n : m # b => cut[m] = runs[m]
  BY <1>6, <1>7, <1>11 DEF Shortened, TookRegions
<1>13. WholeFrames(cut[b]) = s + q .. e - 1
  <2>1. (y - x) - z = y - (x + z)
    BY <1>5
  <2>2. cut[b] = <<(s + q) * PAGE_SIZE, e * PAGE_SIZE - (s + q) * PAGE_SIZE>>
    BY <1>5, <1>6, <1>12, <2>1
  <2> QED BY <1>9, <2>2, FramesOf
<1>14. \A m \in 1 .. n : m # b => WholeFrames(cut[m]) = PagesIn(h[m])
  <2> SUFFICES ASSUME NEW m \in 1 .. n, m # b PROVE WholeFrames(cut[m]) = PagesIn(h[m])
    OBVIOUS
  <2>1. PICK c \in 0 .. Pages, d \in 0 .. Pages :
          runs[m] = <<c * PAGE_SIZE, d * PAGE_SIZE - c * PAGE_SIZE>> /\ PagesIn(h[m]) = c .. d - 1
    BY DEF TookRegions
  <2>2. cut[m] = <<c * PAGE_SIZE, d * PAGE_SIZE - c * PAGE_SIZE>>
    BY <1>12, <2>1
  <2> QED BY <2>1, <2>2, FramesOf
<1>15. pool = UNION {WholeFrames(cut[m]) : m \in 1 .. n}
  BY <1>11, <1>12 DEF PoolOf
<1>16. \A p : p \in PagesIn(h[b]) <=> p \in WholeFrames(cut[b]) \/ p \in heap
  BY <1>1, <1>8, <1>10, <1>13
<1>17. \A p : p \in WholeFrames(cut[b]) => p \notin heap
  BY <1>10, <1>13
<1>18. \A m \in 1 .. n : h[m] \in UsableIndex /\ (m # b => h[m] # h[b])
  BY DEF TookRegions
<1>19. \A m \in 1 .. n : \A p \in PagesIn(h[m]) : m # b => p \notin PagesIn(h[b])
  BY <1>18, RegionsApart
<1>20. ASSUME NEW p PROVE p \in pool \cup heap <=> \E m \in 1 .. n : p \in PagesIn(h[m])
  <2>1. ASSUME p \in pool PROVE \E m \in 1 .. n : p \in PagesIn(h[m])
    BY <1>14, <1>15, <1>16, <2>1
  <2>2. ASSUME NEW m \in 1 .. n, p \in PagesIn(h[m]) PROVE p \in pool \cup heap
    BY <1>14, <1>15, <1>16, <2>2
  <2> QED BY <1>16, <2>1, <2>2
<1>21. ASSUME NEW p \in pool, p \in heap PROVE FALSE
  <2>1. PICK m \in 1 .. n : p \in WholeFrames(cut[m])
    BY <1>15, <1>21
  <2> QED BY <1>14, <1>16, <1>17, <1>19, <1>21, <2>1
<1> QED BY <1>20, <1>21

(* The free pages are those of the usable regions. *)
Conventional == {p \in PhysPage : ram[p] = "CONVENTIONAL"}
(* A free page is in a usable region, and only such a page is. *)
LEMMA ConventionalPages ==
  ASSUME RegionsHold
  PROVE  Conventional = UNION {PagesIn(i) : i \in UsableIndex}
<1>1. ASSUME NEW p \in Conventional PROVE \E i \in UsableIndex : p \in PagesIn(i)
  <2>1. p \in PhysPage /\ ram[p] = "CONVENTIONAL"
    BY DEF Conventional
  <2>2. IF ram[p] = "HOLE" THEN CountedIn(p) = {}
        ELSE \E i \in CountedIn(p) : CountedIn(p) = {i} /\ info.regions[i].kind = classify(ram[p])
    BY <2>1 DEF RegionsHold, HandsOverTheTruth
  <2>3. PICK i \in CountedIn(p) : info.regions[i].kind = classify(ram[p])
    BY <2>1, <2>2
  <2>4. i \in DOMAIN info.regions /\ info.regions[i].kind = "Usable"
    BY <2>1, <2>3, UsableIs DEF CountedIn
  <2> QED BY <2>1, <2>3, <2>4 DEF UsableIndex, PagesIn
<1>2. ASSUME NEW i \in UsableIndex, NEW p \in PagesIn(i) PROVE p \in Conventional
  BY RegionsApart DEF Conventional
<1> QED BY <1>1, <1>2

(* Some of the pages of the usable regions among the first k. *)
CoveredTo(k) == UNION {PagesIn(i) : i \in UsableTo(info.regions, k)}
(* Pages are finitely many, and no more than there are. *)
LEMMA CoveredPages ==
  ASSUME NEW S, S \subseteq PhysPage
  PROVE  IsFiniteSet(S) /\ Cardinality(S) \in 0 .. Pages
<1>1. IsFiniteSet(PhysPage) /\ Cardinality(PhysPage) = Pages
  BY PagesNat, FS_Interval DEF PhysPage
<1>2. IsFiniteSet(S) /\ Cardinality(S) <= Cardinality(PhysPage)
  BY <1>1, FS_Subset
<1>3. Cardinality(S) \in Nat
  BY <1>2, FS_CardinalityType
<1> QED BY <1>1, <1>2, <1>3, PagesNat

(* One more region adds its pages. *)
LEMMA CoveredStep ==
  ASSUME RegionsHold, NEW k \in Nat, k + 1 <= Len(info.regions),
         NEW t, t = Cardinality(CoveredTo(k)) * PAGE_SIZE
  PROVE  AddUsable(t, info.regions[k + 1]) = Cardinality(CoveredTo(k + 1)) * PAGE_SIZE
<1>1. PICK R \in Seq(Reg) : R = info.regions
  BY DEF RegionsHold
<1>2. k + 1 \in DOMAIN R
  BY <1>1
<1>3. R[k + 1].len # 0
  BY <1>1, <1>2 DEF RegionsHold, Regular, Reg
<1>4. UsableTo(R, k + 1) = UsableTo(R, k) \cup (IF usable_at_boot(R[k + 1]) THEN {k + 1} ELSE {})
  BY <1>3 DEF UsableTo
<1>5. CASE ~usable_at_boot(R[k + 1])
  <2>1. CoveredTo(k + 1) = CoveredTo(k)
    BY <1>1, <1>4, <1>5 DEF CoveredTo
  <2> QED BY <1>1, <1>5, <2>1 DEF AddUsable
<1>6. CASE usable_at_boot(R[k + 1])
  <2>1. k + 1 \in UsableIndex
    BY <1>1, <1>2, <1>6 DEF UsableIndex, usable_at_boot
  <2>2. PICK i \in UsableIndex : i = k + 1
    BY <2>1
  <2>3. PICK a \in 0 .. Pages, b \in 0 .. Pages :
          a < b /\ info.regions[i].len = b * PAGE_SIZE - a * PAGE_SIZE /\ PagesIn(i) = a .. b - 1
    BY PagesOfRegion, Zenon
  <2>4. CoveredTo(k + 1) = CoveredTo(k) \cup PagesIn(i)
    BY <1>1, <1>4, <1>6, <2>2 DEF CoveredTo
  <2>5. CoveredTo(k) \cap PagesIn(i) = {}
    <3> SUFFICES ASSUME NEW p \in PagesIn(i), p \in CoveredTo(k) PROVE FALSE
      OBVIOUS
    <3>1. PICK j \in UsableTo(info.regions, k) : p \in PagesIn(j)
      BY DEF CoveredTo
    <3>2. j \in UsableIndex /\ j # i
      BY <1>1, <1>2, <2>2, <3>1 DEF UsableTo, UsableIndex, usable_at_boot
    <3> QED BY <3>1, <3>2, RegionsApart
  <2>6. CoveredTo(k) \subseteq PhysPage /\ PagesIn(i) \subseteq PhysPage
    BY DEF CoveredTo, PagesIn
  <2>7. PICK c \in 0 .. Pages : c = Cardinality(CoveredTo(k)) /\ IsFiniteSet(CoveredTo(k))
    BY <2>6, CoveredPages
  <2>8. PICK d \in 0 .. Pages : d = Cardinality(CoveredTo(k + 1))
    BY <2>4, <2>6, CoveredPages
  <2>9. IsFiniteSet(PagesIn(i)) /\ Cardinality(PagesIn(i)) = b - a
    BY <2>3, PagesNat, FS_Interval
  <2>10. Cardinality(CoveredTo(k) \cap PagesIn(i)) = 0
    BY <2>5, FS_EmptySet
  <2>11. d = c + (b - a)
    <3>1. Cardinality(CoveredTo(k) \cup PagesIn(i))
            = Cardinality(CoveredTo(k)) + Cardinality(PagesIn(i)) - Cardinality(CoveredTo(k) \cap PagesIn(i))
      BY <2>7, <2>9, FS_Union, Zenon
    <3>2. d = c + (b - a) - 0
      BY <2>4, <2>7, <2>8, <2>9, <2>10, <3>1, Zenon
    <3>3. a \in Int /\ b \in Int /\ c \in Int
      BY PagesNat
    <3> QED BY <3>2, <3>3
  <2>12. c * PAGE_SIZE + (b * PAGE_SIZE - a * PAGE_SIZE) = (c + (b - a)) * PAGE_SIZE
    BY PagesNat
  <2>13. d * PAGE_SIZE \in Nat /\ d * PAGE_SIZE <= Pages * PAGE_SIZE
    BY PagesNat, Multiples
  <2>14. PICK x \in Nat, y \in Nat : x = d * PAGE_SIZE /\ y = Pages * PAGE_SIZE
    BY <2>13, PagesNat
  <2>15. x <= ADDR_MAX
    BY <2>13, <2>14, PagesNat
  <2>16. t + info.regions[k + 1].len = x
    BY <2>2, <2>3, <2>7, <2>11, <2>12, <2>14
  <2>17. saturating(t + info.regions[k + 1].len) = x
    BY <2>15, <2>16, PagesNat DEF saturating
  <2> QED BY <1>1, <1>6, <2>8, <2>14, <2>17 DEF AddUsable, AddLen
<1> QED BY <1>5, <1>6

(* What the kernel reports as usable is what is free. *)
LEMMA UsableBytes ==
  ASSUME RegionsHold
  PROVE  summarise(info.regions).usable = PAGE_SIZE * Cardinality(Conventional)
<1>1. PICK R, n : R = info.regions /\ n = Len(info.regions)
  OBVIOUS
<1>2. UsableTo(R, n) = UsableIndex /\ Regions(R, n) /\ n \in Nat
  BY <1>1, UsableToIs
<1>3. PICK T : /\ T[0] = 0
               /\ \A k \in 1 .. n : T[k] = AddUsable(T[k - 1], R[k])
               /\ FoldLeft(AddUsable, 0, R) = T[n]
  BY <1>2, UsableSteps
<1> DEFINE Good == {k \in 0 .. n : T[k] = Cardinality(CoveredTo(k)) * PAGE_SIZE}
<1>4. 0 \in Good
  <2>1. CoveredTo(0) = {}
    BY DEF CoveredTo, UsableTo
  <2>2. Cardinality(CoveredTo(0)) = 0
    BY <2>1, FS_EmptySet
  <2> QED BY <1>2, <1>3, <2>2, PagesNat
<1>5. ASSUME NEW k \in 0 .. n, k # n, k \in Good PROVE k + 1 \in Good
  <2>1. k \in Nat /\ k + 1 <= Len(info.regions) /\ T[k] = Cardinality(CoveredTo(k)) * PAGE_SIZE
    BY <1>1, <1>2, <1>5
  <2>2. AddUsable(T[k], info.regions[k + 1]) = Cardinality(CoveredTo(k + 1)) * PAGE_SIZE
    BY <2>1, CoveredStep
  <2>3. k + 1 \in 1 .. n /\ (k + 1) - 1 = k
    BY <1>2, <1>5
  <2>4. T[k + 1] = AddUsable(T[k], R[k + 1])
    BY <1>3, <2>3
  <2> QED BY <1>1, <2>2, <2>3, <2>4
<1> HIDE DEF Good
<1>6. n \in Good
  BY <1>2, <1>4, <1>5, UpToBound
<1>7. T[n] = Cardinality(CoveredTo(n)) * PAGE_SIZE
  BY <1>6 DEF Good
<1>8. CoveredTo(n) = Conventional
  BY <1>1, <1>2, ConventionalPages DEF CoveredTo
<1>9. Cardinality(Conventional) \in Nat
  BY CoveredPages DEF Conventional
<1>10. summarise(info.regions).usable = FoldLeft(AddUsable, 0, R)
  BY <1>1, Zenon DEF summarise
<1> QED BY <1>3, <1>7, <1>8, <1>9, <1>10, PagesNat

(* What is taken is a sequence: without members it is the empty one. *)
LEMMA TakenNone ==
  ASSUME NEW N \in Nat, NEW c \in Filling(N), c.live <= N,
         NEW f, f = FreeRuns(c, Compacted(c)), Len(Taken(f)) = 0
  PROVE  Taken(f) = <<>>
<1>1. PICK a : a = Compacted(c)
  OBVIOUS
<1>2. KeepSoFar(N, c, c.live, a)
  BY <1>1, CompactedIs
<1>3. PICK o \in [1 .. N -> Int \X Int], m \in Nat : a = [out |-> o, kept |-> m]
  BY <1>2 DEF KeepSoFar, Keeping
<1>4. Len(c.out) = N /\ c.n \in Nat
  BY DEF Filling
<1>5. PICK d \in Nat : d = Greatest(c.n - N, 0)
  <2>1. PICK e \in Int : e = c.n - N
    BY <1>4
  <2> QED BY <2>1 DEF Greatest
<1>6. f = [out |-> o, found |-> m + d]
  <2>1. f = [out |-> a.out, found |-> a.kept + Greatest(c.n - Len(c.out), 0)]
    BY <1>1 DEF FreeRuns
  <2> QED BY <1>3, <1>4, <1>5, <2>1
<1>7. PICK k \in 0 .. N : k = Least(m + d, N)
  BY DEF Least
<1>8. Len(o) = N
  OBVIOUS
<1>9. Taken(f) = [x \in 1 .. k |-> o[x]]
  BY <1>6, <1>7, <1>8 DEF Taken
<1>10. \A x \in 1 .. k : o[x] \in Int \X Int
  BY <1>7
<1>11. k = 0
  BY <1>7, <1>9, <1>10
<1> QED BY <1>9, <1>11

(* The same of the runs mem::init takes. *)
LEMMA NoneTaken ==
  ASSUME RegionsHold, NEW exs, Excluded(exs, 4), \A k \in 1 .. 4 : Spared(exs[k]), NEW N \in Nat,
         NEW f, f = free_runs(info.regions, exs, N), Len(Taken(f)) = 0
  PROVE  Taken(f) = <<>>
<1>1. PICK c : c = Filled(info.regions, N)
  OBVIOUS
<1>2. FoldLeft(Carve, c, exs) = c
  BY <1>1, CarvedSpares
<1>3. f = FreeRuns(c, Compacted(c))
  BY <1>1, <1>2, Zenon DEF free_runs, Carved
<1>4. Runs(c, N) /\ c.live = Least(c.n, N) /\ c.n \in Nat
  BY <1>1, FilledRuns
<1>5. c \in Filling(N) /\ c.live <= N
  BY <1>4 DEF Runs, Least
<1> QED BY <1>3, <1>5, TakenNone

(***************************************************************************)
(* What mem::init settles on: the regions of the runs it took are the      *)
(* heap's and the pool's, each page once; the others are counted.          *)
(***************************************************************************)
Allotted(lay, heap, n, h) ==
  /\ n \in Nat /\ n = Least(UsableRuns, MAX_FREE_RUNS)
  /\ \A x \in 1 .. n : h[x] \in UsableIndex
  /\ \A x, y \in 1 .. n : h[x] = h[y] => x = y
  /\ lay.pool \cup heap = UNION {PagesIn(h[x]) : x \in 1 .. n}
  /\ lay.pool \cap heap = {}
  /\ lay.truncated = UsableRuns - n
  /\ lay.usable = PAGE_SIZE * Cardinality(Conventional)
  /\ lay.highest_ram = summarise(info.regions).highest_ram
LayoutInv == Owned => \E n, h : Allotted(layout, HeapPages, n, h)

(* A layout as mem::init makes it. *)
LEMMA LayoutIs ==
  ASSUME RegionsHold, NEW exs, Excluded(exs, 4), \A k \in 1 .. 4 : Spared(exs[k]),
         NEW f, f = free_runs(info.regions, exs, MAX_FREE_RUNS),
         NEW runs, runs = Taken(f), runs # <<>>,
         NEW len, len = HeapLen(runs), ~(runs[Biggest(runs)][2] <= len),
         NEW lay, lay = LayoutOf(runs, len, f.found, summarise(info.regions)),
         NEW heap, heap = PagesOf(lay.heap[1], lay.heap[1] + lay.heap[2])
  PROVE  \E n, h : Allotted(lay, heap, n, h)
<1>1. MAX_FREE_RUNS \in Nat
  BY BootAssumption
<1>2a. PICK n \in Nat : \E h :
        /\ n = Least(UsableRuns, MAX_FREE_RUNS) /\ TookRegions(runs, n, h)
        /\ f.found - n = UsableRuns - n
  BY <1>1, TakenRegions, Zenon
<1>2. PICK h :
        /\ n = Least(UsableRuns, MAX_FREE_RUNS) /\ TookRegions(runs, n, h)
        /\ f.found - n = UsableRuns - n
  BY <1>2a
<1>3. Len(runs) = n
  BY <1>2 DEF TookRegions
<1>4. n > 0
  <2>1. n # 0
    BY <1>1, <1>3, NoneTaken, Zenon
  <2> QED BY <2>1
<1>5. PICK b : b = Biggest(runs)
  OBVIOUS
<1>6. b \in 1 .. n
  BY <1>2, <1>4, <1>5, BiggestIs
<1>7. PICK pool : pool = PoolOf(Shortened(runs, b, len))
  OBVIOUS
<1>8. lay = [heap |-> <<runs[b][1], len>>, pool |-> pool, truncated |-> f.found - Len(runs),
             usable |-> summarise(info.regions).usable, highest_ram |-> summarise(info.regions).highest_ram]
  BY <1>5, <1>7, Zenon DEF LayoutOf
<1>9. /\ lay.heap = <<runs[b][1], len>> /\ lay.pool = pool /\ lay.truncated = f.found - Len(runs)
      /\ lay.usable = summarise(info.regions).usable
      /\ lay.highest_ram = summarise(info.regions).highest_ram
  BY <1>8
<1>10. lay.heap[1] = runs[b][1] /\ lay.heap[2] = len
  BY <1>9
<1>11. heap = PagesOf(runs[b][1], runs[b][1] + len)
  BY <1>10
<1>12. ~(runs[b][2] <= len)
  BY <1>5
<1>13. pool \cup heap = UNION {PagesIn(h[x]) : x \in 1 .. n} /\ pool \cap heap = {}
  BY <1>2, <1>5, <1>6, <1>7, <1>11, <1>12, HeapAndPool
<1>14. lay.usable = PAGE_SIZE * Cardinality(Conventional)
  BY <1>9, UsableBytes
<1>15. lay.truncated = UsableRuns - n
  BY <1>2, <1>3, <1>9
<1>16. (\A x \in 1 .. n : h[x] \in UsableIndex) /\ (\A x, y \in 1 .. n : h[x] = h[y] => x = y)
  BY <1>2, Zenon DEF TookRegions
<1>17. lay.pool \cup heap = UNION {PagesIn(h[x]) : x \in 1 .. n} /\ lay.pool \cap heap = {}
  BY <1>9, <1>13
<1>18. n = Least(UsableRuns, MAX_FREE_RUNS)
  BY <1>2
<1>19. Allotted(lay, heap, n, h)
  BY <1>2, <1>9, <1>14, <1>15, <1>16, <1>17, <1>18, Zenon DEF Allotted
<1> QED BY <1>19

(* Steps that leave the layout, and what it was made from, alone. *)
LEMMA QuietLayout ==
  ASSUME LayoutInv, UNCHANGED <<info, layout, ram>>, Owned' => Owned
  PROVE  LayoutInv'
<1>1. \A n, h : Allotted(layout, HeapPages, n, h)' <=> Allotted(layout, HeapPages, n, h)
  <2>1. UsableRuns' = UsableRuns /\ UsableIndex' = UsableIndex /\ Conventional' = Conventional
    BY DEF UsableRuns, UsableIndex, Conventional
  <2>2. \A i : PagesIn(i)' = PagesIn(i)
    BY DEF PagesIn, CountedIn
  <2>3. HeapPages' = HeapPages /\ layout' = layout
    BY DEF HeapPages
  <2> QED BY <2>1, <2>2, <2>3 DEF Allotted
<1> QED BY <1>1 DEF LayoutInv

Unowned == Before \cup {"exit", "handoff", "kernel", "halted"}
(* Before mem::init has settled there is nothing to show. *)
LEMMA UnownedLayout ==
  ASSUME stage' \in Unowned
  PROVE  LayoutInv'
BY DEF LayoutInv, Owned, Unowned, Before

(* The loader's steps all come before that. *)
LEMMA LoaderLayout ==
  ASSUME Loader
  PROVE  stage' \in Unowned
<1>1. CASE TakeMap
  BY <1>1, Zenon DEF TakeMap, Stop, Goto, Unowned, Before
<1>2. CASE ExitBootServices
  <2>1. CASE \E reason : Stop(reason)
    BY <2>1 DEF Stop, Unowned, Before
  <2>2. stage' = "handoff" \/ stage' = "take" \/ \E reason : Stop(reason)
    BY <1>2, Zenon DEF ExitBootServices, LeaveFirmware, ReadAgain, Goto
  <2> QED BY <2>1, <2>2 DEF Unowned, Before
<1>3. CASE HandOff
  <2>1. CASE \E reason : Stop(reason)
    BY <2>1 DEF Stop, Unowned, Before
  <2>2. stage' = "kernel" \/ \E reason : Stop(reason)
    BY <1>3, Zenon DEF HandOff
  <2> QED BY <2>1, <2>2 DEF Unowned
<1>4. ASSUME stage' \in Before PROVE stage' \in Unowned
  BY <1>4 DEF Unowned
<1> QED BY <1>1, <1>2, <1>3, <1>4, EarlyStages, Zenon DEF Loader

(* mem::init settles on regions, or halts. *)
LEMMA MemInitLayout ==
  ASSUME MapInv, KernelInv, PlacesInv, HandedInv, MemInit
  PROVE  LayoutInv'
<1>1. stage = "kernel" /\ UNCHANGED <<info, ram>>
  BY Zenon DEF MemInit, Settle, KernelStep
<1>2. CASE stage' = "halted"
  BY <1>2, UnownedLayout DEF Unowned
<1>3. CASE /\ validate
           /\ \E f \in {free_runs(info.regions, Exclusions, MAX_FREE_RUNS)} :
                \E runs \in {Taken(f)} : \E len \in {HeapLen(runs)} :
                  /\ runs # <<>> /\ ~(runs[Biggest(runs)][2] <= len)
                  /\ layout' = LayoutOf(runs, len, f.found, summarise(info.regions))
  <2>1. RegionsHold
    BY <1>1, RegionsAreHeld DEF Entered
  <2>2. PICK exs : exs = Exclusions
    OBVIOUS
  <2>3. Excluded(exs, 4) /\ \A k \in 1 .. 4 : Spared(exs[k])
    BY <1>1, <1>3, <2>2, ExclusionsSpared
  <2>4. PICK f, runs, len :
          /\ f = free_runs(info.regions, exs, MAX_FREE_RUNS) /\ runs = Taken(f) /\ len = HeapLen(runs)
          /\ runs # <<>> /\ ~(runs[Biggest(runs)][2] <= len)
          /\ layout' = LayoutOf(runs, len, f.found, summarise(info.regions))
    BY <1>3, <2>2, Zenon
  <2>5. PICK lay : lay = layout'
    OBVIOUS
  <2>6. lay = LayoutOf(runs, len, f.found, summarise(info.regions))
    BY <2>4, <2>5
  <2>7. PICK heap : heap = PagesOf(lay.heap[1], lay.heap[1] + lay.heap[2])
    OBVIOUS
  <2>8. PICK n, h : Allotted(lay, heap, n, h)
    BY <2>1, <2>3, <2>4, <2>6, <2>7, LayoutIs, Zenon
  <2>9. UsableRuns' = UsableRuns /\ UsableIndex' = UsableIndex /\ Conventional' = Conventional
    BY <1>1 DEF UsableRuns, UsableIndex, Conventional
  <2>10. \A i : PagesIn(i)' = PagesIn(i)
    BY <1>1 DEF PagesIn, CountedIn
  <2>11. HeapPages' = heap
    BY <2>5, <2>7 DEF HeapPages
  <2>12. info' = info
    BY <1>1
  <2>13. Allotted(layout, HeapPages, n, h)'
    BY <2>5, <2>8, <2>9, <2>10, <2>11, <2>12 DEF Allotted
  <2> QED BY <2>13 DEF LayoutInv
<1> QED BY <1>2, <1>3, Zenon DEF MemInit, Settle, KernelStep

(* Every step keeps LayoutInv. *)
LEMMA LayoutInductive ==
  MapInv /\ KernelInv /\ PlacesInv /\ HandedInv /\ LayoutInv /\ [Next]_vars => LayoutInv'
<1> SUFFICES ASSUME MapInv, KernelInv, PlacesInv, HandedInv, LayoutInv, [Next]_vars PROVE LayoutInv'
  OBVIOUS
<1>1. CASE UNCHANGED vars
  <2>1. UNCHANGED <<info, layout, ram, stage>>
    BY <1>1 DEF vars
  <2> QED BY <2>1, QuietLayout DEF Owned
<1>2. CASE Loader
  BY <1>2, LoaderLayout, UnownedLayout
<1>3. CASE MemInit
  BY <1>3, MemInitLayout
<1>4. CASE Discover
  <2>1. UNCHANGED <<info, layout, ram>> /\ stage = "memory"
    BY <1>4, Zenon DEF Discover, KernelStep
  <2> QED BY <2>1, QuietLayout DEF Owned
<1>5. CASE FirmwareActs
  <2>1. stage \in BeforeExit /\ stage' = stage
    BY <1>5, Zenon DEF FirmwareActs
  <2> QED BY <2>1 DEF LayoutInv, Owned, BeforeExit
<1> QED BY <1>1, <1>2, <1>3, <1>4, <1>5 DEF Next

(* Nothing is owned to begin with. *)
LEMMA LayoutInitially == Init => LayoutInv
BY DEF Init, LayoutInv, Owned

(***************************************************************************)
(* What holds once the kernel owns its memory.                             *)
(***************************************************************************)
LEMMA OwnedPages ==
  ASSUME RegionsHold, NEW n, NEW h, Allotted(layout, HeapPages, n, h), NEW p
  PROVE  /\ p \in layout.pool \cup HeapPages <=> \E x \in 1 .. n : p \in PagesIn(h[x])
         /\ p \in layout.pool \cup HeapPages => p \in PhysPage /\ ram[p] = "CONVENTIONAL"
<1>1. p \in layout.pool \cup HeapPages <=> \E x \in 1 .. n : p \in PagesIn(h[x])
  BY DEF Allotted
<1>2. ASSUME NEW x \in 1 .. n, p \in PagesIn(h[x]) PROVE p \in PhysPage /\ ram[p] = "CONVENTIONAL"
  <2>1. h[x] \in UsableIndex
    BY DEF Allotted
  <2> QED BY <1>2, <2>1, RegionsApart
<1> QED BY <1>1, <1>2

(* What is owned is free, and nobody else's. *)
LEMMA OwnedIsFree ==
  ASSUME RegionsHold, LoaderHas, NEW n, NEW h, Allotted(layout, HeapPages, n, h)
  PROVE  OwnsOnlyFree
<1>1. \A p \in layout.pool \cup HeapPages : p \in PhysPage /\ ram[p] = "CONVENTIONAL"
  BY OwnedPages
<1>2. layout.pool \cap HeapPages = {}
  BY DEF Allotted
<1>3. ASSUME NEW S, LoaderOwned(S), NEW p \in S, p \in layout.pool \cup HeapPages PROVE FALSE
  BY <1>1, <1>3 DEF LoaderOwned
<1>4. LoaderOwned(tables) /\ \A w \in Place : LoaderOwned(Occupied(w))
  BY DEF LoaderHas
<1>5. ASSUME NEW p \in layout.pool \cup HeapPages PROVE p \notin tables \cup UNION {Occupied(w) : w \in Place}
  BY <1>3, <1>4
<1> QED BY <1>1, <1>2, <1>5 DEF OwnsOnlyFree

(* The usable regions, as sets of pages. *)
UsableSets == {PagesOf(r.start, end(r)) : r \in {x \in Described(info.regions) : usable_at_boot(x)}}
(* These are the pages of the usable regions. *)
LEMMA UsableSetsAre ==
  ASSUME RegionsHold
  PROVE  UsableSets = {PagesIn(i) : i \in UsableIndex}
<1>1. ASSUME NEW i \in UsableIndex
      PROVE  PagesOf(info.regions[i].start, end(info.regions[i])) = PagesIn(i)
  BY PagesOfRegion, PagesBetween
<1>2. \A r : r \in {x \in Described(info.regions) : usable_at_boot(x)}
               <=> \E i \in UsableIndex : r = info.regions[i]
  <2>1. \A i \in DOMAIN info.regions : info.regions[i].len > 0
    BY DEF RegionsHold, Regular
  <2> QED BY <2>1 DEF Described, usable_at_boot, UsableIndex
<1> QED BY <1>1, <1>2 DEF UsableSets

(* The usable regions that were not taken. *)
Untaken(n, h) == UsableIndex \ {h[x] : x \in 1 .. n}
(* They are as many as are counted as truncated. *)
LEMMA UntakenCount ==
  ASSUME RegionsHold, NEW n, NEW h, Allotted(layout, HeapPages, n, h)
  PROVE  IsFiniteSet(Untaken(n, h)) /\ Cardinality(Untaken(n, h)) = layout.truncated
<1>1. /\ n \in Nat /\ \A x \in 1 .. n : h[x] \in UsableIndex
      /\ \A x, y \in 1 .. n : h[x] = h[y] => x = y
      /\ layout.truncated = UsableRuns - n
  BY DEF Allotted
<1>2. PICK H : H = {h[x] : x \in 1 .. n}
  OBVIOUS
<1>3. PICK g : g = [x \in 1 .. n |-> h[x]]
  OBVIOUS
<1>4. Matches(g, n, H)
  BY <1>1, <1>2, <1>3 DEF Matches
<1>5. Cardinality(H) = n
  BY <1>1, <1>4, MatchCounts
<1>6. UsableIndex \cap H = H
  BY <1>1, <1>2
<1>7. IsFiniteSet(UsableIndex) /\ Cardinality(UsableIndex) = UsableRuns
  BY UsableCounted
<1>8. /\ IsFiniteSet(UsableIndex \ H)
      /\ Cardinality(UsableIndex \ H) = Cardinality(UsableIndex) - Cardinality(UsableIndex \cap H)
  BY <1>7, FS_Difference
<1> QED BY <1>1, <1>2, <1>5, <1>6, <1>7, <1>8 DEF Untaken

(* What is lost is the pages of these regions, and no others. *)
LEMMA OnlyReportedIsLost ==
  ASSUME RegionsHold, NEW n, NEW h, Allotted(layout, HeapPages, n, h)
  PROVE  NothingLost
<1>1. PICK lost : lost = Conventional \ (layout.pool \cup HeapPages)
  OBVIOUS
<1>2. PICK L : L = Untaken(n, h)
  OBVIOUS
<1>3. L \subseteq UsableIndex
  BY <1>2 DEF Untaken
<1>4. ASSUME NEW i \in UsableIndex, NEW p \in PagesIn(i)
      PROVE  p \in Conventional /\ (p \in lost <=> i \in L)
  <2>1. p \in Conventional
    BY RegionsApart DEF Conventional
  <2>2. p \in layout.pool \cup HeapPages <=> \E x \in 1 .. n : p \in PagesIn(h[x])
    BY OwnedPages
  <2>3. \A x \in 1 .. n : h[x] \in UsableIndex
    BY DEF Allotted
  <2>4. \A x \in 1 .. n : p \in PagesIn(h[x]) <=> h[x] = i
    BY <2>3, RegionsApart
  <2>5. i \in L <=> ~ \E x \in 1 .. n : h[x] = i
    BY <1>2 DEF Untaken
  <2> QED BY <1>1, <2>1, <2>2, <2>4, <2>5
<1>5. lost = UNION {PagesIn(i) : i \in L}
  <2>1. ASSUME NEW p \in lost PROVE \E i \in L : p \in PagesIn(i)
    <3>1. p \in Conventional
      BY <1>1
    <3>2. PICK i \in UsableIndex : p \in PagesIn(i)
      BY <3>1, ConventionalPages
    <3> QED BY <1>4, <3>2
  <2>2. ASSUME NEW i \in L, NEW p \in PagesIn(i) PROVE p \in lost
    BY <1>3, <1>4
  <2> QED BY <2>1, <2>2
<1>6. ASSUME NEW i \in UsableIndex PROVE PagesIn(i) # {}
  <2>1. PICK a \in 0 .. Pages, b \in 0 .. Pages : a < b /\ PagesIn(i) = a .. b - 1
    BY PagesOfRegion, Zenon
  <2>2. a \in a .. b - 1
    BY <2>1, PagesNat
  <2> QED BY <2>1, <2>2
<1>7. PICK truncated : truncated = {ps \in UsableSets : ps \cap lost # {}}
  OBVIOUS
<1>8. truncated = {PagesIn(i) : i \in L}
  <2>1. ASSUME NEW i \in UsableIndex PROVE PagesIn(i) \cap lost # {} <=> i \in L
    BY <1>4, <1>6
  <2> QED BY <1>3, <1>7, <2>1, UsableSetsAre
<1>9. Cardinality(truncated) = layout.truncated
  <2>1. PICK f : f = [i \in L |-> PagesIn(i)]
    OBVIOUS
  <2>2. ASSUME NEW i \in L, NEW j \in L, f[i] = f[j] PROVE i = j
    <3>1. PagesIn(i) = PagesIn(j)
      BY <2>1, <2>2
    <3>2. PICK p : p \in PagesIn(i)
      BY <1>3, <1>6
    <3> QED BY <1>3, <3>1, <3>2, RegionsApart
  <2>3. f \in [L -> truncated] /\ \A ps \in truncated : \E i \in L : f[i] = ps
    BY <1>8, <2>1
  <2>4. f \in Injection(L, truncated) /\ f \in Surjection(L, truncated)
    BY <2>2, <2>3 DEF Injection, IsInjective, Surjection
  <2>5. ExistsBijection(L, truncated)
    BY <2>4 DEF ExistsBijection, Bijection
  <2>6. IsFiniteSet(L) /\ Cardinality(L) = layout.truncated
    BY <1>2, UntakenCount
  <2> QED BY <2>5, <2>6, FS_Bijection
<1>10. lost = UNION truncated
  BY <1>5, <1>8
<1>11. layout.usable = PAGE_SIZE * Cardinality(Conventional)
  BY DEF Allotted
<1> QED BY <1>1, <1>7, <1>9, <1>10, <1>11, Zenon DEF NothingLost, Conventional, UsableSets

(***************************************************************************)
(* The kernel owns free memory only, and all of it but what it counts as   *)
(* truncated: no frame of the pool or the heap is the firmware's or the    *)
(* loader's, none of the memory the firmware calls free is lost unseen     *)
(* (mem::init, bootinfo's free_runs and summarise), and free_runs is exact *)
(* for exclusions anywhere.                                                *)
(***************************************************************************)
THEOREM MemoryIsOwnedExactly == Spec => []FreeMemoryExact
<1> DEFINE Inv == MapInv /\ KernelInv /\ PlacesInv /\ HandedInv /\ LayoutInv
<1>1. Init => Inv
  BY MapInitially, KernelInitially, PlacesInitially, HandedInitially, LayoutInitially
<1>2. Inv /\ [Next]_vars => Inv'
  BY MapInductive, KernelInductive, PlacesInductive, HandedInductive, LayoutInductive
<1>3. Inv => FreeMemoryExact
  <2> SUFFICES ASSUME Inv PROVE FreeMemoryExact
    OBVIOUS
  <2>1. LoaderHas
    BY DEF PlacesInv
  <2>2. Entered => RegionsHold
    BY RegionsAreHeld
  <2>3. Owned => Entered
    BY DEF Owned, Entered
  <2>4. ASSUME Owned PROVE OwnsOnlyFree /\ NothingLost
    <3>1. PICK n, h : Allotted(layout, HeapPages, n, h)
      BY <2>4 DEF LayoutInv
    <3> QED BY <2>1, <2>2, <2>3, <2>4, <3>1, OwnedIsFree, OnlyReportedIsLost
  <2>5. ~Owned => OwnsOnlyFree /\ NothingLost
    BY Zenon DEF OwnsOnlyFree, NothingLost
  <2>6. stage = "memory" => FreeRunsExact
    BY <2>2, <2>3, FreeRunsHold DEF Owned
  <2>7. stage # "memory" => FreeRunsExact
    BY Zenon DEF FreeRunsExact
  <2> QED BY <2>4, <2>5, <2>6, <2>7 DEF FreeMemoryExact
<1> HIDE DEF Inv
<1>4. Spec => []Inv
  BY <1>1, <1>2, PTL DEF Spec
<1> QED BY <1>3, <1>4, PTL

-----------------------------------------------------------------------------
(***************************************************************************)
(* What the linear maps reach: as far as there is memory, and the screen.  *)
(***************************************************************************)
Present(ty) == IsMemory(ty) /\ ty # "HOLE"

(* A page ends below the top of the address space. *)
LEMMA PageEnds ==
  ASSUME NEW q \in PhysPage
  PROVE  /\ q * PAGE_SIZE \in Nat /\ q * PAGE_SIZE < ADDR_MAX
         /\ q \in 0 .. ADDR_MAX \div PAGE_SIZE /\ q \in Nat
<1>1. q \in Nat /\ q < Pages
  BY PagesNat DEF PhysPage
<1>2. q * PAGE_SIZE < Pages * PAGE_SIZE /\ q * PAGE_SIZE \in Nat /\ Pages * PAGE_SIZE \in Nat
  BY <1>1, PagesNat, Multiples
<1>3. PICK u \in Nat, v \in Nat : u = q * PAGE_SIZE /\ v = Pages * PAGE_SIZE /\ u < v
  BY <1>2
<1>4. u < ADDR_MAX
  BY <1>3, PagesNat
<1>5. PICK top \in Nat : top = ADDR_MAX \div PAGE_SIZE
  BY PagesNat, Quotient
<1>6. ADDR_MAX = top * PAGE_SIZE + (ADDR_MAX % PAGE_SIZE) /\ ADDR_MAX % PAGE_SIZE \in 0 .. PAGE_SIZE - 1
  BY <1>5, PagesNat, Quotient
<1>7. (top + 1) * PAGE_SIZE = top * PAGE_SIZE + PAGE_SIZE /\ top * PAGE_SIZE \in Nat
  BY PagesNat
<1>8. PICK w \in Nat : w = top * PAGE_SIZE
  BY <1>7
<1>9. q * PAGE_SIZE < (top + 1) * PAGE_SIZE
  BY <1>3, <1>4, <1>6, <1>7, <1>8, PagesNat
<1>10. q < top + 1
  BY <1>1, <1>9, PagesNat, Multiples
<1> QED BY <1>1, <1>3, <1>4, <1>5, <1>10

(* A page that begins below the top of a map is in it. *)
LEMMA PageReached ==
  ASSUME NEW q \in PhysPage, NEW top \in Nat, q * PAGE_SIZE < top
  PROVE  q \in PagesOf(0, top)
BY PageEnds DEF PagesOf

(* Rounding up to a gigabyte. *)
LEMMA UpToGib ==
  ASSUME NEW n \in Nat
  PROVE  \E k \in Nat : UpTo(n, GIB) = k * GIB /\ k * GIB \in Nat /\ n <= k * GIB
<1>1. GIB \in Nat \ {0}
  BY MemoryMapAssumption
<1>2. PICK a \in Nat : a = n + GIB - 1
  BY <1>1
<1>3. PICK k \in Nat : k = a \div GIB
  BY <1>1, <1>2, Quotient
<1>4. a = k * GIB + (a % GIB) /\ a % GIB \in 0 .. GIB - 1
  BY <1>1, <1>2, <1>3, Quotient
<1>5. PICK m \in Nat : m = k * GIB
  BY <1>1
<1>6. n <= m
  BY <1>1, <1>2, <1>4, <1>5
<1> QED BY <1>2, <1>3, <1>5, <1>6 DEF UpTo

(* Saturating addition is monotone, and stops at the top. *)
LEMMA Saturates ==
  ASSUME NEW n \in Nat
  PROVE  /\ saturating(n) \in 0 .. ADDR_MAX
         /\ \A u \in Nat : u < n /\ u < ADDR_MAX => u < saturating(n)
         /\ saturating(n) = n \/ saturating(n) = ADDR_MAX
BY PagesNat DEF saturating

(* A map reaches the whole address space, or whole gigabytes of it. *)
WholeReach(top) == top \in Nat /\ (top = ADDR_MAX \/ \E k \in Nat : top = k * GIB)

(* The address a true map gives is above all memory. *)
LEMMA HighestReaches ==
  ASSUME Firmware, NEW M, MapIsTrue(M)
  PROVE  /\ WholeReach(highest_ram_address(M))
         /\ \A q \in PhysPage : Present(ram[q]) => q * PAGE_SIZE < highest_ram_address(M)
<1> DEFINE end_of(d) == saturating(d.phys + saturating(d.pages * PAGE_SIZE))
           tops == {end_of(M[i]) : i \in {j \in DOMAIN M : IsMemory(M[j].ty)}}
<1>1. M \in Seq(Desc)
  BY DEF MapIsTrue
<1>2. ASSUME NEW d \in Desc
      PROVE  /\ end_of(d) \in 0 .. ADDR_MAX
             /\ \A u \in Nat : u < ADDR_MAX /\ Covers(d, u) => u < end_of(d)
  <2>1. d.phys \in Nat /\ d.pages \in Nat
    BY DEF Desc
  <2>2. PICK x \in Nat, len \in Nat : x = d.phys /\ len = d.pages * PAGE_SIZE
    BY <2>1, PagesNat
  <2>3. PICK s \in Nat : s = saturating(len) /\ s <= ADDR_MAX /\ (s = len \/ s = ADDR_MAX)
    BY <2>2, Saturates, PagesNat
  <2>4. end_of(d) = saturating(x + s)
    BY <2>2, <2>3
  <2>5. ASSUME NEW u \in Nat, u < ADDR_MAX, Covers(d, u) PROVE u < x + s
    <3>1. u < x + len
      BY <2>2, <2>5 DEF Covers
    <3> QED BY <2>3, <2>5, <3>1
  <2> QED BY <2>2, <2>3, <2>4, <2>5, Saturates
<1>3. \A i \in DOMAIN M : M[i] \in Desc
  BY <1>1
<1> HIDE DEF end_of
<1>4. PICK T : T = tops \cup {0}
  OBVIOUS
<1>5. T \subseteq Nat /\ T # {} /\ \A y \in T : y <= ADDR_MAX
  BY <1>2, <1>3, <1>4, PagesNat
<1>6. PICK hi \in Nat : hi = Max(T) /\ \A y \in T : y <= hi
  BY <1>5, MaxIsGreatest, PagesNat
<1>7. PICK k \in Nat : UpTo(hi, GIB) = k * GIB /\ k * GIB \in Nat /\ hi <= k * GIB
  BY UpToGib
<1>8. PICK g \in Nat : g = k * GIB /\ hi <= g /\ UpTo(hi, GIB) = g
  BY <1>7
<1>9. highest_ram_address(M) = saturating(g)
  BY <1>4, <1>6, <1>8 DEF highest_ram_address, end_of
<1>10. WholeReach(saturating(g))
  BY <1>8, Saturates DEF WholeReach
<1>11. ASSUME NEW q \in PhysPage, Present(ram[q]) PROVE q * PAGE_SIZE < saturating(g)
  <2>1. PICK u \in Nat : u = q * PAGE_SIZE /\ u < ADDR_MAX
    BY PageEnds
  <2>2. PICK i \in DOMAIN M : Covers(M[i], u) /\ M[i].ty = ram[q]
    BY <1>11, <2>1 DEF MapIsTrue, Present
  <2>3. IsMemory(M[i].ty)
    BY <1>11, <2>2 DEF Present
  <2>4. end_of(M[i]) \in T
    BY <1>4, <2>3
  <2>5. u < end_of(M[i]) /\ end_of(M[i]) \in Nat
    BY <1>2, <1>3, <2>1, <2>2
  <2>6. u < g
    BY <1>6, <1>8, <2>4, <2>5
  <2> QED BY <2>1, <2>6, Saturates
<1> QED BY <1>9, <1>10, <1>11

(* The loader's map reaches all memory, in whole gigabytes. *)
LEMMA MappedReaches ==
  ASSUME Firmware, NEW M, MapIsTrue(M)
  PROVE  /\ WholeReach(Mapped(M))
         /\ \A q \in PhysPage : Present(ram[q]) => q * PAGE_SIZE < Mapped(M)
<1>1. PICK h : h = highest_ram_address(M)
  OBVIOUS
<1>2. h \in Nat /\ WholeReach(h)
  BY <1>1, HighestReaches DEF WholeReach
<1>3. \A q \in PhysPage : Present(ram[q]) => q * PAGE_SIZE < h
  BY <1>1, HighestReaches
<1>4. MIN_MAPPED \in Nat \ {0} /\ MIN_MAPPED % GIB = 0 /\ GIB \in Nat \ {0}
  BY BootAssumption, MemoryMapAssumption
<1>5. \E k \in Nat : MIN_MAPPED = k * GIB
  <2>1. PICK m \in Nat : m = MIN_MAPPED
    BY <1>4
  <2>2. PICK k \in Nat : k = m \div GIB /\ m = k * GIB + (m % GIB)
    BY <1>4, <2>1, Quotient
  <2>3. m % GIB = 0 /\ k * GIB \in Nat
    BY <1>4, <2>1
  <2> QED BY <2>1, <2>2, <2>3
<1>6. Mapped(M) = Greatest(h, MIN_MAPPED)
  BY <1>1 DEF Mapped
<1>7. CASE h < MIN_MAPPED
  <2>1. Mapped(M) = MIN_MAPPED
    BY <1>6, <1>7 DEF Greatest
  <2>2. \A q \in PhysPage : Present(ram[q]) => q * PAGE_SIZE < MIN_MAPPED
    BY <1>2, <1>3, <1>4, <1>7, PageEnds
  <2> QED BY <1>4, <1>5, <2>1, <2>2 DEF WholeReach
<1>8. CASE ~(h < MIN_MAPPED)
  <2>1. Mapped(M) = h
    BY <1>6, <1>8 DEF Greatest
  <2> QED BY <1>2, <1>3, <2>1
<1> QED BY <1>7, <1>8

(* The kernel's map reaches every region that is not reserved. *)
LEMMA KernelReaches ==
  ASSUME RegionsHold, layout.highest_ram = summarise(info.regions).highest_ram,
         NEW q \in PhysPage, ram[q] # "HOLE", classify(ram[q]) # "Reserved"
  PROVE  q \in KernelLinear
<1> DEFINE R == info.regions
           high == {r \in Described(R) : r.kind # "Reserved"}
           tops == {end(r) : r \in high}
<1>1. R \in Seq(Reg) /\ \A i \in DOMAIN R : R[i].len > 0
  BY DEF RegionsHold, Regular
<1>2. PICK u \in Nat : u = q * PAGE_SIZE
  BY PageEnds
<1>3. PICK i \in CountedIn(q) : R[i].kind = classify(ram[q])
  BY DEF RegionsHold, HandsOverTheTruth
<1>4. i \in DOMAIN R /\ u < end(R[i])
  BY <1>2, <1>3 DEF CountedIn
<1>5. R[i] \in high
  BY <1>1, <1>3, <1>4 DEF Described
<1>6. ASSUME NEW r \in high PROVE end(r) \in 0 .. ADDR_MAX
  <2>1. PICK j \in DOMAIN R : r = R[j]
    BY <1>6 DEF Described
  <2>2. r \in Reg
    BY <1>1, <2>1
  <2>3. r.start + r.len \in Nat
    BY <2>2 DEF Reg
  <2> QED BY <2>3, Saturates DEF end
<1>7. PICK T : T = tops \cup {0}
  OBVIOUS
<1>8. T \subseteq Nat /\ T # {} /\ \A y \in T : y <= ADDR_MAX
  BY <1>6, <1>7, PagesNat
<1>9. PICK hi \in Nat : hi = Max(T) /\ \A y \in T : y <= hi
  BY <1>8, MaxIsGreatest, PagesNat
<1>10. layout.highest_ram = hi
  BY <1>7, <1>9 DEF summarise, Tops
<1>11. end(R[i]) \in T /\ end(R[i]) \in Nat
  BY <1>5, <1>6, <1>7
<1>12. PICK g \in Nat : g = Greatest(hi, MIN_MAPPED) /\ hi <= g
  BY <1>9, BootAssumption DEF Greatest
<1>13. PICK top \in Nat : top = UpTo(g, GIB) /\ g <= top
  BY UpToGib
<1>14. u < top
  BY <1>4, <1>9, <1>11, <1>12, <1>13
<1>15. KernelLinear = PagesOf(0, top)
  BY <1>10, <1>12, <1>13 DEF KernelLinear
<1> QED BY <1>2, <1>14, <1>15, PageReached

-----------------------------------------------------------------------------
(* The screen. *)

(* A screen within a gigabyte is in a map that reaches its first page. *)
LEMMA ScreenReached ==
  ASSUME machine \in Machines, fb = locate_framebuffer(machine.gop), is_sane(fb),
         NEW top, WholeReach(top), FbBase \div PAGE_SIZE \in PagesOf(0, top)
  PROVE  FbPages \subseteq PagesOf(0, top)
<1>1. fb # NoFb
  BY DEF is_sane, NoFb
<1>2. PICK a \in Nat, n \in Nat \ {0} :
        a = fb.phys /\ n = bytes(fb) /\ a + n <= ADDR_MAX /\ a \div GIB = (a + n - 1) \div GIB
  BY <1>1, ScreenAssumption
<1>3. PICK b \in Nat : b = a \div PAGE_SIZE
  BY PagesNat, Quotient
<1>4. a = b * PAGE_SIZE + (a % PAGE_SIZE) /\ a % PAGE_SIZE \in 0 .. PAGE_SIZE - 1 /\ b * PAGE_SIZE \in Nat
  BY <1>3, PagesNat, Quotient
<1>5. FbBase = b * PAGE_SIZE
  BY <1>2, <1>4, PagesNat DEF FbBase
<1>6. FbBase \div PAGE_SIZE = b
  <2>1. (b * PAGE_SIZE + 0) \div PAGE_SIZE = b
    BY PagesNat, QuotientOf
  <2>2. b * PAGE_SIZE + 0 = b * PAGE_SIZE
    BY PagesNat
  <2> QED BY <1>5, <2>1, <2>2
<1>7. b * PAGE_SIZE < top /\ top \in Nat
  BY <1>6 DEF PagesOf, WholeReach
<1>8. a + n <= top
  <2>1. CASE top = ADDR_MAX
    BY <1>2, <2>1
  <2>2. CASE \E k \in Nat : top = k * GIB
    <3>1. PICK k \in Nat : top = k * GIB
      BY <2>2
    <3>2. GIB \in Nat \ {0} /\ GIB % PAGE_SIZE = 0
      BY MemoryMapAssumption
    <3>3. PICK c \in Nat : GIB = c * PAGE_SIZE
      <4>1. GIB = (GIB \div PAGE_SIZE) * PAGE_SIZE + (GIB % PAGE_SIZE) /\ GIB \div PAGE_SIZE \in Nat
        BY <3>2, PagesNat, Quotient
      <4> QED BY <3>2, <4>1, PagesNat
    <3>4. PICK d \in Nat : d = k * c
      OBVIOUS
    <3>5. top = d * PAGE_SIZE
      <4>1. k * (c * PAGE_SIZE) = (k * c) * PAGE_SIZE
        BY PagesNat
      <4> QED BY <3>1, <3>3, <3>4, <4>1
    <3>6. b < d
      BY <1>7, <3>5, PagesNat, Multiples
    <3>7. (b + 1) * PAGE_SIZE <= d * PAGE_SIZE
      BY <3>6, PagesNat, Multiples
    <3>8. (b + 1) * PAGE_SIZE = b * PAGE_SIZE + PAGE_SIZE
      BY PagesNat
    <3>9. PICK m \in Nat : m = b * PAGE_SIZE
      BY <1>4
    <3>10. m + PAGE_SIZE <= top
      BY <3>5, <3>7, <3>8, <3>9
    <3>11. a < top
      BY <1>4, <1>7, <3>9, <3>10, PagesNat
    <3>12. PICK e \in Nat : e = a \div GIB /\ e * GIB <= a
      <4>1. PICK e \in Nat : e = a \div GIB
        BY <3>2, Quotient
      <4>2. a = e * GIB + (a % GIB) /\ a % GIB \in 0 .. GIB - 1
        BY <3>2, <4>1, Quotient
      <4>3. PICK z \in Nat : z = e * GIB
        BY <3>2
      <4>4. e * GIB <= a
        BY <3>2, <4>2, <4>3
      <4> QED BY <4>1, <4>4
    <3>13. e < k
      <4>1. PICK z \in Nat, y \in Nat : z = e * GIB /\ y = k * GIB
        BY <3>2
      <4>2. z < y
        BY <3>1, <3>11, <3>12, <4>1
      <4> QED BY <4>1, <4>2, <3>2, Multiples
    <3>14. PICK l \in Nat : l = a + n - 1
      BY <1>2
    <3>15. l = e * GIB + (l % GIB) /\ l % GIB \in 0 .. GIB - 1
      <4>1. e = l \div GIB
        BY <1>2, <3>12, <3>14
      <4> QED BY <3>2, <4>1, Quotient
    <3>16. (e + 1) * GIB <= k * GIB
      BY <3>2, <3>13, Multiples
    <3>17. (e + 1) * GIB = e * GIB + GIB
      BY <3>2
    <3>18. PICK z \in Nat : z = e * GIB
      BY <3>2
    <3>19. l < top
      BY <1>7, <3>1, <3>2, <3>15, <3>16, <3>17, <3>18
    <3> QED BY <1>2, <1>7, <3>14, <3>19
  <2> QED BY <2>1, <2>2 DEF WholeReach
<1>9. ASSUME NEW p \in Nat, p * PAGE_SIZE < FbEnd PROVE p * PAGE_SIZE < a + n
  <2> SUFFICES ASSUME ~(p * PAGE_SIZE < a + n) PROVE FALSE
    OBVIOUS
  <2>1. PICK j \in Nat : j = a + n + PAGE_SIZE - 1
    BY PagesNat
  <2>2. PICK f \in Nat : f = j \div PAGE_SIZE
    BY <2>1, PagesNat, Quotient
  <2>3. FbEnd = f * PAGE_SIZE
    BY <1>2, <2>1, <2>2 DEF FbEnd, UpTo
  <2>4. PICK x \in Nat, y \in Nat : x = p * PAGE_SIZE /\ y = f * PAGE_SIZE
    BY PagesNat
  <2>5. p < f
    BY <1>9, <2>3, PagesNat, Multiples
  <2>6. (p + 1) * PAGE_SIZE <= f * PAGE_SIZE /\ (p + 1) * PAGE_SIZE = p * PAGE_SIZE + PAGE_SIZE
    BY <2>5, PagesNat, Multiples
  <2>7. y <= a + n + PAGE_SIZE - 1
    <3>1. j = f * PAGE_SIZE + (j % PAGE_SIZE) /\ j % PAGE_SIZE \in 0 .. PAGE_SIZE - 1
      BY <2>2, PagesNat, Quotient
    <3> QED BY <2>1, <2>4, <3>1, PagesNat
  <2> QED BY <2>4, <2>6, <2>7, PagesNat
<1>10. ASSUME NEW p \in FbPages PROVE p \in PagesOf(0, top)
  <2>1. p \in 0 .. ADDR_MAX \div PAGE_SIZE /\ p * PAGE_SIZE < FbEnd
    BY DEF FbPages, PagesOf
  <2>2. p \in Nat
    BY <2>1, PagesNat, Quotient
  <2>3. PICK x \in Nat : x = p * PAGE_SIZE
    BY <2>2, PagesNat
  <2>4. x < top
    BY <1>2, <1>7, <1>8, <1>9, <2>1, <2>2, <2>3
  <2> QED BY <2>1, <2>3, <2>4 DEF PagesOf
<1> QED BY <1>10

(***************************************************************************)
(* From the probe on, all memory is in the loader's map, the screen from   *)
(* the maps on; and the firmware's tables stay where they were.            *)
(***************************************************************************)
Drawn == {"info", "size", "array", "take", "exit", "handoff", "kernel", "memory", "halted", "ready"}
ReachInv ==
  /\ rsdp \in {None, find_rsdp(machine.config)}
  /\ fb \in {NoFb, locate_framebuffer(machine.gop)}
  /\ \A q \in PhysPage : machine.ram[q] \in {"ACPI_RECLAIM", "ACPI_NVS"} => ram[q] = machine.ram[q]
  /\ stage \in {"maps"} \cup Drawn => \A q \in PhysPage : Present(ram[q]) => q \in linear
  /\ stage = "maps" => \E top : WholeReach(top) /\ linear = PagesOf(0, top)
  /\ stage \in Drawn => FbPages \subseteq linear
  /\ Entered => info.rsdp = rsdp

(* The loader and the firmware take and give back conventional pages only. *)
Working == {"CONVENTIONAL", "BOOT_SERVICES", "LOADER_DATA"}
RamKept ==
  /\ machine' = machine
  /\ \A q \in PhysPage : ram'[q] = ram[q] \/ {ram[q], ram'[q]} \subseteq Working

(* What the loader is given was conventional. *)
LEMMA GivenKeeps ==
  ASSUME NEW n, NEW p \in alloc_pages(n), Given(p, n), machine' = machine
  PROVE  RamKept
<1>1. \A q \in p .. p + n - 1 : ram[q] = "CONVENTIONAL"
  BY AllocatedFree DEF FreeAt
<1> QED BY <1>1 DEF Given, Marked, RamKept, Working

(* A step that leaves memory alone keeps it. *)
LEMMA StillKeeps ==
  ASSUME UNCHANGED <<machine, ram>>
  PROVE  RamKept
BY DEF RamKept

(* The firmware takes conventional pages, and frees its own. *)
LEMMA FirmwareKeeps ==
  ASSUME Firmware, FirmwareActs
  PROVE  RamKept
<1>1. machine' = machine
  BY DEF FirmwareActs
<1>2. PICK p \in machine.noisy :
               /\ ram[p] \in {"CONVENTIONAL", "BOOT_SERVICES"}
               /\ ram' = [ram EXCEPT ![p] = IF @ = "CONVENTIONAL" THEN "BOOT_SERVICES" ELSE "CONVENTIONAL"]
  BY Zenon DEF FirmwareActs
<1>3. ASSUME NEW q \in PhysPage PROVE ram'[q] = ram[q] \/ {ram[q], ram'[q]} \subseteq Working
  BY <1>2 DEF Firmware, Working
<1> QED BY <1>1, <1>3 DEF RamKept

(* Of a page that is memory, or the tables', a step makes no other. *)
LEMMA KeptPages ==
  ASSUME RamKept, NEW q \in PhysPage
  PROVE  /\ Present(ram'[q]) <=> Present(ram[q])
         /\ (machine.ram[q] \in {"ACPI_RECLAIM", "ACPI_NVS"} /\ ram[q] = machine.ram[q])
              => ram'[q] = machine'.ram[q]
<1>1. \A ty \in Working : Present(ty) /\ ty \notin {"ACPI_RECLAIM", "ACPI_NVS"}
  BY DEF Working, Present, IsMemory
<1> QED BY <1>1 DEF RamKept

(* Steps before the probe. *)
LEMMA EarlyReach ==
  ASSUME ReachInv, RamKept, UNCHANGED <<rsdp, fb>>, stage' \in Before \ ({"maps"} \cup Drawn)
  PROVE  ReachInv'
<1>1. machine' = machine /\ \A q \in PhysPage : machine.ram[q] \in {"ACPI_RECLAIM", "ACPI_NVS"}
                                                  => ram'[q] = machine'.ram[q]
  BY KeptPages DEF ReachInv, RamKept
<1>2. stage' \notin {"maps"} \cup Drawn /\ stage' # "maps" /\ ~Entered'
  BY DEF Entered, Before, Drawn
<1> QED BY <1>1, <1>2 DEF ReachInv

(* Steps after the maps are built. *)
LEMMA LateReach ==
  ASSUME ReachInv, RamKept, UNCHANGED <<rsdp, fb, linear>>, Entered' => Entered /\ info' = info,
         stage \in Drawn, stage' \in Drawn \cup {"stopped"}
  PROVE  ReachInv'
<1>1. machine' = machine /\ \A q \in PhysPage : machine.ram[q] \in {"ACPI_RECLAIM", "ACPI_NVS"}
                                                  => ram'[q] = machine'.ram[q]
  BY KeptPages DEF ReachInv, RamKept
<1>2. \A q \in PhysPage : Present(ram'[q]) => q \in linear'
  BY KeptPages DEF ReachInv
<1>3. FbPages' = FbPages
  BY DEF FbPages, FbBase, FbEnd
<1>4. stage' # "maps"
  BY DEF Drawn
<1> QED BY <1>1, <1>2, <1>3, <1>4 DEF ReachInv

(* A step that allocates. *)
Allotting == machine' = machine /\ \E n : \E p \in alloc_pages(n) : Given(p, n)

(* Steps that allocate, or leave memory alone. *)
LEMMA AllottingKeeps == Allotting \/ UNCHANGED <<machine, ram>> => RamKept
BY GivenKeeps, StillKeeps, Zenon DEF Allotting

(* Stopping is no step to the kernel. *)
LEMMA StopReach ==
  ASSUME ReachInv, NEW reason, Stop(reason)
  PROVE  ReachInv'
<1>1. UNCHANGED <<machine, ram>> /\ UNCHANGED <<rsdp, fb>> /\ stage' = "stopped"
  BY DEF Stop, Found
<1>2. stage' \in Before \ ({"maps"} \cup Drawn)
  BY <1>1 DEF Before, Drawn
<1> QED BY <1>1, <1>2, StillKeeps, EarlyReach

(* The loader looks around, and reads what it is to load. *)
LEMMA SurveyReach ==
  ASSUME ReachInv, Survey
  PROVE  ReachInv'
<1>1. /\ UNCHANGED <<machine, ram>> /\ stage' = "volume"
      /\ rsdp' = find_rsdp(machine.config) /\ fb' = locate_framebuffer(machine.gop)
  BY DEF Survey, Goto
<1>2. stage' \notin {"maps"} \cup Drawn /\ ~Entered'
  BY <1>1 DEF Drawn, Entered
<1> QED BY <1>1, <1>2 DEF ReachInv

(* The loader's steps from the volume to the size of the map. *)
LEMMA LoadingReach ==
  ASSUME ReachInv, \/ OpenVolume \/ ReadKernel \/ ReadInitrd \/ ParseKernel \/ NewTables
                   \/ PlaceSegment \/ AllPlaced \/ SizeProbe
  PROVE  ReachInv'
<1>1. CASE \E reason : Stop(reason)
  BY <1>1, StopReach
<1>2. CASE /\ UNCHANGED Found /\ (Allotting \/ UNCHANGED <<machine, ram>>)
           /\ \/ stage' = "kernel file" \/ stage' = "initrd" \/ stage' = "parse" \/ stage' = "tables"
              \/ stage' = "segments" \/ stage' = "probe" \/ stage' = "probe read"
  <2>1. stage' \in Before \ ({"maps"} \cup Drawn)
    BY <1>2 DEF Before, Drawn
  <2>2. UNCHANGED <<rsdp, fb>>
    BY <1>2 DEF Found
  <2> QED BY <1>2, <2>1, <2>2, AllottingKeeps, EarlyReach
<1>3. CASE OpenVolume \/ AllPlaced
  BY <1>1, <1>2, <1>3, Zenon DEF OpenVolume, AllPlaced, Goto
<1>4. CASE ReadKernel \/ ReadInitrd
  BY <1>1, <1>2, <1>4, Zenon DEF ReadKernel, ReadInitrd, ReadFile, AllocPlace, Goto, Allotting
<1>5. CASE ParseKernel \/ SizeProbe
  BY <1>1, <1>2, <1>5, Zenon DEF ParseKernel, SizeProbe, AllocPlace, Goto, Allotting
<1>6. CASE NewTables \/ PlaceSegment
  BY <1>1, <1>2, <1>6, Zenon DEF NewTables, PlaceSegment, PlaceAt, TakeTable, Goto, Allotting
<1> QED BY <1>3, <1>4, <1>5, <1>6

(* The probe says how far there is memory. *)
LEMMA ProbeReach ==
  ASSUME ReachInv, Firmware, ReadProbe
  PROVE  ReachInv'
<1>1. CASE \E reason : Stop(reason)
  BY <1>1, StopReach
<1>2. CASE /\ linear' = PagesOf(0, Mapped(GetMemoryMap)) /\ stage' = "maps"
           /\ UNCHANGED <<machine, ram>> /\ UNCHANGED Found
  <2>1. PICK top : top = Mapped(GetMemoryMap)
    OBVIOUS
  <2>2. WholeReach(top) /\ \A q \in PhysPage : Present(ram[q]) => q * PAGE_SIZE < top
    BY <2>1, FirmwareIsTrue, MappedReaches
  <2>3. \A q \in PhysPage : Present(ram[q]) => q \in PagesOf(0, top)
    BY <2>2, PageReached DEF WholeReach
  <2>4. linear' = PagesOf(0, top) /\ UNCHANGED <<machine, ram, rsdp, fb>>
    BY <1>2, <2>1 DEF Found
  <2>5. stage' \notin Drawn /\ ~Entered'
    BY <1>2 DEF Drawn, Entered
  <2> QED BY <1>2, <2>2, <2>3, <2>4, <2>5 DEF ReachInv
<1> QED BY <1>1, <1>2, Zenon DEF ReadProbe, Goto

(* A screen beyond that is mapped as well. *)
LEMMA ScreenMapped ==
  ASSUME ReachInv, machine \in Machines, stage = "maps"
  PROVE  FbPages \subseteq linear \cup ExtraFb
<1>1. CASE ~is_sane(fb)
  BY <1>1 DEF FbPages
<1>2. CASE is_sane(fb) /\ FbBase \div PAGE_SIZE \notin linear
  BY <1>2 DEF ExtraFb
<1>3. CASE is_sane(fb) /\ FbBase \div PAGE_SIZE \in linear
  <2>1. PICK top : WholeReach(top) /\ linear = PagesOf(0, top)
    BY DEF ReachInv
  <2>2. fb = locate_framebuffer(machine.gop)
    BY <1>3 DEF ReachInv, is_sane, NoFb
  <2> QED BY <1>3, <2>1, <2>2, ScreenReached
<1> QED BY <1>1, <1>2, <1>3

(* The maps are built: the screen is in one of them from here on. *)
LEMMA MapsReach ==
  ASSUME ReachInv, Firmware, BuildMaps
  PROVE  ReachInv'
<1>1. CASE \E reason : Stop(reason)
  BY <1>1, StopReach
<1>2. CASE /\ stage = "maps" /\ stage' = "info" /\ linear' = linear \cup ExtraFb
           /\ Allotting /\ UNCHANGED Found
  <2>1. RamKept /\ machine' = machine
    BY <1>2, AllottingKeeps DEF Allotting
  <2>2. /\ \A q \in PhysPage : machine.ram[q] \in {"ACPI_RECLAIM", "ACPI_NVS"} => ram'[q] = machine'.ram[q]
        /\ \A q \in PhysPage : Present(ram'[q]) => q \in linear'
    BY <1>2, <2>1, KeptPages DEF ReachInv
  <2>3. UNCHANGED <<rsdp, fb>>
    BY <1>2 DEF Found
  <2>4. FbPages' \subseteq linear'
    <3>1. FbPages' = FbPages
      BY <2>3 DEF FbPages, FbBase, FbEnd
    <3> QED BY <1>2, <3>1, ScreenMapped DEF Firmware
  <2>5. ~Entered' /\ stage' # "maps"
    BY <1>2 DEF Entered
  <2> QED BY <2>1, <2>2, <2>3, <2>4, <2>5 DEF ReachInv
<1> QED BY <1>1, <1>2, Zenon DEF BuildMaps, TakeTable, Goto, Allotting

(* What comes after the maps leaves them as they are. *)
LEMMA LeavingReach ==
  ASSUME ReachInv, AllocInfo \/ SizeMap \/ AllocRegions \/ TakeMap \/ ExitBootServices
  PROVE  ReachInv'
<1>1. CASE \E reason : Stop(reason)
  BY <1>1, StopReach
<1>2. CASE /\ UNCHANGED Found /\ UNCHANGED linear /\ (Allotting \/ UNCHANGED <<machine, ram>>)
           /\ \/ stage = "info" /\ stage' = "size"
              \/ stage = "size" /\ stage' = "array"
              \/ stage = "array" /\ stage' = "take"
              \/ stage = "take" /\ stage' = "exit"
              \/ stage = "exit" /\ stage' = "take"
              \/ stage = "exit" /\ stage' = "handoff"
  <2>1. stage \in Drawn /\ stage' \in Drawn /\ ~Entered'
    BY <1>2 DEF Drawn, Entered
  <2>2. UNCHANGED <<rsdp, fb, linear>>
    BY <1>2 DEF Found
  <2> QED BY <1>2, <2>1, <2>2, AllottingKeeps, LateReach
<1>3. CASE AllocInfo \/ SizeMap \/ AllocRegions
  BY <1>1, <1>2, <1>3, Zenon DEF AllocInfo, SizeMap, AllocRegions, AllocPlace, Goto, Allotting, TreeVars
<1>4. CASE TakeMap \/ ExitBootServices
  BY <1>1, <1>2, <1>4, Zenon DEF TakeMap, ExitBootServices, LeaveFirmware, ReadAgain, Goto, TreeVars
<1> QED BY <1>3, <1>4

(* The kernel is told of the root of the tables that was found. *)
LEMMA HandOffReach ==
  ASSUME ReachInv, HandOff
  PROVE  ReachInv'
<1>1. CASE \E reason : Stop(reason)
  BY <1>1, StopReach
<1>2. CASE /\ stage = "handoff" /\ stage' = "kernel" /\ info'.rsdp = rsdp
           /\ UNCHANGED Found /\ UNCHANGED linear /\ UNCHANGED <<machine, ram>>
  <2>1. stage \in Drawn /\ stage' \in Drawn /\ stage' # "maps"
    BY <1>2 DEF Drawn
  <2>2. UNCHANGED <<rsdp, fb, linear, machine, ram>>
    BY <1>2 DEF Found
  <2>3. FbPages' = FbPages
    BY <2>2 DEF FbPages, FbBase, FbEnd
  <2> QED BY <1>2, <2>1, <2>2, <2>3 DEF ReachInv
<1>3. stage = "handoff"
  BY DEF HandOff
<1>4. ASSUME NEW r PROVE [memory_map |-> place["regions"] * PAGE_SIZE,
                      regions |-> r,
                      framebuffer |-> fb,
                      rsdp |-> rsdp,
                      initrd |-> place["initrd"] * PAGE_SIZE,
                      initrd_len |-> IF place["initrd"] = 0 THEN 0 ELSE machine.initrd.len,
                      kernel_phys |-> place["kernel"] * PAGE_SIZE,
                      kernel_len |-> Span.size].rsdp = rsdp
  OBVIOUS
<1> QED BY <1>1, <1>2, <1>3, <1>4, Zenon DEF HandOff, TreeVars

(* Every step keeps ReachInv. *)
LEMMA ReachInductive == MapInv /\ ReachInv /\ [Next]_vars => ReachInv'
<1> SUFFICES ASSUME MapInv, ReachInv, [Next]_vars PROVE ReachInv'
  OBVIOUS
<1>1. Firmware
  BY DEF MapInv
<1>2. CASE UNCHANGED vars
  <2>1. UNCHANGED <<machine, ram, rsdp, fb, linear, info, stage>>
    BY <1>2 DEF vars
  <2>2. FbPages' = FbPages
    BY <2>1 DEF FbPages, FbBase, FbEnd
  <2> QED BY <2>1, <2>2 DEF ReachInv, Entered
<1>3. CASE Loader
  BY <1>1, <1>3, SurveyReach, LoadingReach, ProbeReach, MapsReach, LeavingReach, HandOffReach, Zenon
  DEF Loader
<1>4. CASE MemInit \/ Discover
  <2>1. /\ UNCHANGED <<machine, ram>> /\ UNCHANGED Found /\ UNCHANGED linear /\ UNCHANGED info
        /\ \/ stage = "kernel" /\ (stage' = "memory" \/ stage' = "halted")
           \/ stage = "memory" /\ stage' = "ready"
    BY <1>4, Zenon DEF MemInit, Settle, Discover, KernelStep, TreeVars
  <2>2. stage \in Drawn /\ stage' \in Drawn /\ Entered
    BY <2>1 DEF Drawn, Entered
  <2>3. UNCHANGED <<rsdp, fb, linear>> /\ info' = info
    BY <2>1 DEF Found
  <2> QED BY <2>1, <2>2, <2>3, StillKeeps, LateReach
<1>5. CASE FirmwareActs
  <2>1. RamKept
    BY <1>1, <1>5, FirmwareKeeps
  <2>2. UNCHANGED <<stage, rsdp, fb, linear>> /\ stage \in BeforeExit
    BY <1>5 DEF FirmwareActs, Found, TreeVars
  <2>3. ~Entered'
    BY <2>2 DEF BeforeExit, Entered
  <2>4. /\ \A q \in PhysPage : machine.ram[q] \in {"ACPI_RECLAIM", "ACPI_NVS"} => ram'[q] = machine'.ram[q]
        /\ \A q \in PhysPage : Present(ram'[q]) <=> Present(ram[q])
        /\ machine' = machine
    BY <2>1, KeptPages DEF ReachInv, RamKept
  <2>5. FbPages' = FbPages
    BY <2>2 DEF FbPages, FbBase, FbEnd
  <2> QED BY <2>2, <2>3, <2>4, <2>5 DEF ReachInv
<1> QED BY <1>2, <1>3, <1>4, <1>5 DEF Next

(* It holds to begin with. *)
LEMMA ReachInitially == Init => ReachInv
BY DEF Init, ReachInv, Entered, Drawn

(* The tables are where the firmware said, in ACPI's memory. *)
LEMMA TablesInPlace ==
  ASSUME ReachInv, machine \in Machines, Entered, NEW p \in TablePages
  PROVE  p \in PhysPage /\ ram[p] \in {"ACPI_RECLAIM", "ACPI_NVS"}
<1>1. PICK a \in (DOMAIN machine.acpi.at) \cup ({info.rsdp} \ {None}) : p = a \div PAGE_SIZE
  BY DEF TablePages
<1>2. a \in TableAddresses(machine)
  <2>1. info.rsdp \in {None, find_rsdp(machine.config)}
    BY DEF ReachInv
  <2> QED BY <1>1, <2>1 DEF TableAddresses
<1>3. p \in PhysPage /\ machine.ram[p] \in {"ACPI_RECLAIM", "ACPI_NVS"}
  BY <1>1, <1>2, TablesAssumption
<1> QED BY <1>3 DEF ReachInv

(* What is memory is within both maps. *)
LEMMA MemoryReached ==
  ASSUME RegionsHold, ReachInv, layout.highest_ram = summarise(info.regions).highest_ram,
         NEW p \in PhysPage, ram[p] \in {"CONVENTIONAL", "ACPI_RECLAIM", "ACPI_NVS"}
  PROVE  p \in linear \cap KernelLinear
<1>1. stage \in Drawn
  BY DEF RegionsHold, Entered, Drawn
<1>2. Present(ram[p]) /\ ram[p] # "HOLE" /\ classify(ram[p]) # "Reserved"
  BY DEF Present, IsMemory, classify
<1>3. p \in linear
  BY <1>1, <1>2 DEF ReachInv
<1> QED BY <1>2, <1>3, KernelReaches

(***************************************************************************)
(* Nothing the kernel is told of, or given, lies beyond the maps it is     *)
(* reached through: its own block, the hand-off and the screen are in the  *)
(* loader's linear map, the pool, the heap and the tables in that and in   *)
(* the one vm::init builds (boot.rs, memmap.rs's highest_ram_address,      *)
(* bootinfo's summarise, vm.rs).                                           *)
(***************************************************************************)
THEOREM EverythingIsInReach == Spec => []AllWithinReach
<1> DEFINE Inv == MapInv /\ KernelInv /\ PlacesInv /\ HandedInv /\ LayoutInv /\ ReachInv
<1>1. Init => Inv
  BY MapInitially, KernelInitially, PlacesInitially, HandedInitially, LayoutInitially, ReachInitially
<1>2. Inv /\ [Next]_vars => Inv'
  BY MapInductive, KernelInductive, PlacesInductive, HandedInductive, LayoutInductive, ReachInductive
<1>3. Inv => AllWithinReach
  <2> SUFFICES ASSUME Inv PROVE AllWithinReach
    OBVIOUS
  <2>1. Entered => stage \in Drawn
    BY DEF Entered, Drawn
  <2>2. Entered => FbPages \subseteq linear
    BY <2>1 DEF ReachInv
  <2>3. ASSUME Entered, NEW w \in {"kernel", "info", "regions"} PROVE Occupied(w) \subseteq linear
    <3>1. LoaderOwned(Occupied(w))
      BY DEF PlacesInv, LoaderHas, Place
    <3>2. Present("LOADER_DATA")
      BY DEF Present, IsMemory
    <3> QED BY <2>1, <2>3, <3>1, <3>2 DEF LoaderOwned, ReachInv
  <2>4. ASSUME Owned PROVE layout.pool \cup HeapPages \cup TablePages \subseteq linear \cap KernelLinear
    <3>1. Entered /\ RegionsHold
      BY <2>4, RegionsAreHeld DEF Owned, Entered
    <3>2. PICK n, h : Allotted(layout, HeapPages, n, h)
      BY <2>4 DEF LayoutInv
    <3>3. layout.highest_ram = summarise(info.regions).highest_ram
      BY <3>2 DEF Allotted
    <3>4. \A p \in layout.pool \cup HeapPages : p \in PhysPage /\ ram[p] = "CONVENTIONAL"
      BY <3>1, <3>2, OwnedPages
    <3>5. \A p \in TablePages : p \in PhysPage /\ ram[p] \in {"ACPI_RECLAIM", "ACPI_NVS"}
      BY <3>1, TablesInPlace DEF KernelInv
    <3>6. ASSUME NEW p \in layout.pool \cup HeapPages \cup TablePages PROVE p \in linear \cap KernelLinear
      <4>1. p \in PhysPage /\ ram[p] \in {"CONVENTIONAL", "ACPI_RECLAIM", "ACPI_NVS"}
        BY <3>4, <3>5
      <4> QED BY <3>1, <3>3, <4>1, MemoryReached
    <3> QED BY <3>6
  <2>5. WithinReach
    BY <2>3, <2>4 DEF WithinReach
  <2> QED BY <2>2, <2>5 DEF AllWithinReach, ScreenWithinReach
<1> QED BY <1>1, <1>2, <1>3, PTL DEF Spec

=============================================================================
