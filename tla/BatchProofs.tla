---------------------------- MODULE BatchProofs ----------------------------
(***************************************************************************)
(* Proofs about Batch, for every batch length, every number of elements    *)
(* per key and every contents of the keys.                                 *)
(***************************************************************************)
EXTENDS Batch, WellFoundedInduction, TLAPS

\* Where the loops are, and what the counters are there.
PhaseInv ==
    /\ pc \in {"loop", "done"} => l = 0 /\ j = 0
    /\ pc = "done" => i = in.n
    /\ pc = "group" =>
         /\ i + Group <= in.n
         /\ useAVX2 => l % VecLimbs = 0
         /\ j > 0 => l = Group * Limbs
    /\ pc = "single" =>
         /\ i < in.n /\ l <= Limbs /\ j = 0
         /\ useAVX2 /\ l < SingleVec => l % VecLimbs = 0

\* Everything in front of the next store is already the right character.
RightInv == \A x \in 0..(At - 1) : backing[x] = x

\* Exactly the strings before i + j are published, with their final ranges.
OutInv ==
    \A k \in 0..(in.n - 1) :
        out[k] = IF k < i + j
                 THEN [from |-> k * Slot + Skip(k), to |-> k * Slot + Slot]
                 ELSE NoString

IInv == TypeOK /\ PhaseInv /\ RightInv /\ OutInv

-----------------------------------------------------------------------------
\* Facts about the sizes.
LEMMA SlotPositive == Slot \in Nat /\ Slot >= 5 /\ Slot = 5 * Limbs
  BY SizesAssumption DEF Slot, LimbChars

\* Sizes and positions of the slots are natural numbers that grow with the key.
LEMMA Slots ==
    ASSUME NEW a \in Nat, NEW b \in Nat
    PROVE  /\ a * Slot \in Nat
           /\ (a + b) * Slot = a * Slot + b * Slot
           /\ (a + 1) * Slot = a * Slot + Slot
           /\ (a + 4) * Slot = a * Slot + 4 * Slot
           /\ a <= b => a * Slot <= b * Slot
           /\ a < b => a * Slot + Slot <= b * Slot
           /\ a + 4 <= b => a * Slot + 4 * Slot <= b * Slot
<1> DEFINE S == Slot
<1>1. S \in Nat
  BY SlotPositive
<1> HIDE DEF S
<1>2. \A x, y \in Nat : x * S \in Nat /\ (x + y) * S = x * S + y * S
  BY <1>1
<1>3. \A x, y \in Nat : x <= y => x * S <= y * S
  <2> SUFFICES ASSUME NEW x \in Nat, NEW y \in Nat, x <= y PROVE x * S <= y * S
    OBVIOUS
  <2>1. y - x \in Nat /\ y = x + (y - x)
    OBVIOUS
  <2>2. y * S = x * S + (y - x) * S
    BY <1>2, <2>1
  <2> QED
    BY <1>1, <1>2, <2>1, <2>2
<1>4. (a + 1) * S = a * S + S /\ (a + 4) * S = a * S + 4 * S
  BY <1>1
<1>5. a < b => a * S + S <= b * S
  BY <1>3, <1>4
<1>6. a + 4 <= b => a * S + 4 * S <= b * S
  BY <1>3, <1>4
<1> QED
  BY <1>2, <1>3, <1>4, <1>5, <1>6 DEF S

\* A nonempty set of naturals has a least element.
LEMMA LeastNat ==
    ASSUME NEW T, T \subseteq Nat, T # {}
    PROVE  \E x \in T : \A y \in T : x <= y
<1>1. \E x \in T : \A y \in T : ~(<<y, x>> \in OpToRel(<, Nat))
  BY NatLessThanWellFounded, WFMin
<1>2. OpToRel(<, Nat) = {p \in Nat \X Nat : p[1] < p[2]}
  BY DEF OpToRel
<1>3. \E x \in T : \A y \in T : ~(<<y, x>> \in {p \in Nat \X Nat : p[1] < p[2]})
  BY <1>1, <1>2
<1>4. PICK x \in T : \A y \in T : ~(<<y, x>> \in {p \in Nat \X Nat : p[1] < p[2]})
  BY <1>3
<1>5. \A y \in T : ~(y < x)
  BY <1>4
<1> QED
  BY <1>5

-----------------------------------------------------------------------------
\* rawLeading0s counts the leading '1's.
LEMMA LeadingCounted ==
    ASSUME NEW f, NEW lo
    PROVE  /\ rawLeading0s(f, lo) \in 0..Slot
           /\ LeadingCount(f, lo, rawLeading0s(f, lo))
<1> DEFINE T == {d \in 0..(Slot - 1) : ~IsOne(f[lo + d])}
<1>1. Slot \in Nat /\ T \subseteq Nat
  BY SlotPositive
<1>2. \E m \in 0..Slot : LeadingCount(f, lo, m)
  <2>1. CASE T = {}
    BY <1>1, <2>1 DEF LeadingCount
  <2>2. CASE T # {}
    <3>1. PICK m \in T : \A d \in T : m <= d
      BY <1>1, <2>2, LeastNat
    <3>2. \A d \in 0..(m - 1) : IsOne(f[lo + d])
      BY <1>1, <3>1
    <3> QED
      BY <1>1, <3>1, <3>2 DEF LeadingCount
  <2> QED
    BY <2>1, <2>2
<1> QED
  BY <1>2 DEF rawLeading0s

\* There is only one such count: two buffers that agree on a slot agree on it.
LEMMA LeadingUnique ==
    ASSUME NEW f, NEW g, NEW lo, \A d \in 0..(Slot - 1) : f[lo + d] = g[lo + d]
    PROVE  rawLeading0s(f, lo) = rawLeading0s(g, lo)
<1> DEFINE m == rawLeading0s(f, lo)
           p == rawLeading0s(g, lo)
<1>1. /\ m \in 0..Slot /\ LeadingCount(f, lo, m)
      /\ p \in 0..Slot /\ LeadingCount(g, lo, p)
  BY LeadingCounted
<1> HIDE DEF m, p
<1>2. ~(m < p)
  BY <1>1, SlotPositive DEF LeadingCount
<1>3. ~(p < m)
  BY <1>1, SlotPositive DEF LeadingCount
<1>4. m = p
  BY <1>1, <1>2, <1>3, SlotPositive
<1> QED
  BY <1>4 DEF m, p

\* Sizes of a batch.
LEMMA BatchFacts ==
    ASSUME TypeOK
    PROVE  /\ in.n \in Nat
           /\ in.n * Slot \in Nat
           /\ Size = in.n * Slot + 6
           /\ i \in Nat /\ i <= in.n
           /\ i * Slot \in Nat
           /\ At = i * Slot + 5 * l
           /\ l \in Nat
<1>1. in.n \in Nat
  BY InputsAssumption DEF TypeOK
<1>2. in.n * Slot \in Nat
  BY <1>1, Slots
<1>3. i \in Nat /\ i <= in.n /\ l \in Nat
  BY <1>1, SizesAssumption DEF TypeOK, Group
<1>4. i * Slot \in Nat
  BY <1>3, Slots
<1> QED
  BY <1>1, <1>2, <1>3, <1>4 DEF Size, At, Tail, LimbChars

\* The offsets of a slot are offsets of the buffer.
LEMMA SlotInBuffer ==
    ASSUME TypeOK, NEW k \in 0..(in.n - 1), NEW d \in 0..(Slot - 1)
    PROVE  k * Slot + d \in 0..(Size - 1)
<1> DEFINE lo  == k * Slot
           end == in.n * Slot
<1>1. in.n \in Nat /\ k \in Nat /\ k < in.n
  BY BatchFacts
<1>2. lo \in Nat /\ lo + Slot <= end /\ end \in Nat
  BY <1>1, Slots
<1>3. Size = end + 6
  BY BatchFacts
<1> HIDE DEF lo, end
<1>4. lo + d \in 0..(Size - 1)
  BY <1>2, <1>3, SlotPositive
<1> QED
  BY <1>4 DEF lo

\* The skip leaves at least the '1's that stand for zero bytes.
LEMMA SkipInSlot ==
    ASSUME TypeOK, NEW k \in 0..(in.n - 1)
    PROVE  Skip(k) \in 0..Slot
<1> DEFINE f == [x \in 0..(Size - 1) |-> x]
           m == rawLeading0s(f, k * Slot)
<1>3. \A d \in 0..(Slot - 1) : f[k * Slot + d] = k * Slot + d
  BY SlotInBuffer
<1>4. in.zeros[k] \in 0..Slot
  BY InputsAssumption DEF TypeOK
<1>5. \A d \in 0..(in.zeros[k] - 1) : k * Slot + d \in in.ones
  BY InputsAssumption DEF TypeOK
<1>6. m \in 0..Slot /\ LeadingCount(f, k * Slot, m)
  BY LeadingCounted
<1> HIDE DEF f, m
<1>7. m >= in.zeros[k]
  BY <1>3, <1>4, <1>5, <1>6, SlotPositive DEF LeadingCount, IsOne
<1>8. Skip(k) = m - in.zeros[k]
  BY DEF Skip, f, m
<1> QED
  BY <1>4, <1>6, <1>7, <1>8, SlotPositive

\* The skip of a slot that holds the right characters is the right one.
LEMMA SkipRight ==
    ASSUME TypeOK, NEW k \in 0..(in.n - 1),
           \A x \in 0..(k * Slot + Slot - 1) : backing[x] = x
    PROVE  rawSkip(k) = Skip(k)
<1> DEFINE f == [x \in 0..(Size - 1) |-> x]
<1>1. ASSUME NEW d \in 0..(Slot - 1)
      PROVE  backing[k * Slot + d] = f[k * Slot + d]
  <2> DEFINE lo == k * Slot
  <2>0. k \in Nat
    BY BatchFacts
  <2>1. lo \in Nat
    BY <2>0, Slots
  <2>2. lo + d \in 0..(Size - 1) /\ \A x \in 0..(lo + Slot - 1) : backing[x] = x
    BY SlotInBuffer
  <2> HIDE DEF lo
  <2>3. backing[lo + d] = f[lo + d]
    BY <2>1, <2>2, SlotPositive
  <2> QED
    BY <2>3 DEF lo
<1> HIDE DEF f
<1>2. rawLeading0s(backing, k * Slot) = rawLeading0s(f, k * Slot)
  BY <1>1, LeadingUnique
<1> QED
  BY <1>2 DEF rawSkip, Skip, f

-----------------------------------------------------------------------------
LEMMA InitIInv == Init => IInv
<1> SUFFICES ASSUME Init PROVE IInv
  OBVIOUS
<1>1. in.n \in Nat
  BY InputsAssumption DEF Init
<1>2. in.n * Slot \in Nat
  BY <1>1, Slots
<1>3. TypeOK
  BY <1>1, <1>2, SizesAssumption DEF Init, TypeOK, NoString, Group
<1>4. PhaseInv
  BY <1>1 DEF Init, PhaseInv
<1>5. At = 0
  BY SlotPositive DEF Init, At, LimbChars
<1> QED
  BY <1>1, <1>3, <1>4, <1>5 DEF Init, IInv, RightInv, OutInv

\* One store: what is in front of it stays, what it renders is right, and the
\* published strings, which lie in front of it, keep their characters.
LEMMA StoreKeeps ==
    ASSUME IInv, NEW m \in 1..2, NEW w \in Nat, Store(m, w), j = 0,
           l + m <= Group * Limbs, At + 5 * m <= in.n * Slot
    PROVE  /\ TypeOK' /\ RightInv' /\ OutInv'
           /\ \A x \in 0..(At - 1) : backing'[x] = backing[x]
<1> USE DEF IInv
<1>1. TypeOK'
  BY SizesAssumption DEF TypeOK, Store, Group, Size
<1>2. At \in Nat /\ At' = At + 5 * m /\ Size \in Nat /\ Size = in.n * Slot + 6
  BY BatchFacts, SizesAssumption, SMTT(30) DEF TypeOK, Store, At, LimbChars, Group
<1>3. \A x \in 0..(Size - 1) :
         backing'[x] = IF x \in At..(At + 5 * m - 1) THEN x
                       ELSE IF x \in At..(At + w - 1) THEN Junk
                       ELSE backing[x]
  BY DEF Store, LimbChars
<1>4. \A x \in 0..(At - 1) : backing'[x] = backing[x] /\ backing[x] = x
  <2> SUFFICES ASSUME NEW x \in 0..(At - 1) PROVE backing'[x] = backing[x] /\ backing[x] = x
    OBVIOUS
  <2> DEFINE a == At
             z == Size
  <2>1. a \in Nat /\ x \in 0..(a - 1) /\ z \in Nat /\ a < z /\ m \in Nat
    BY <1>2, BatchFacts
  <2>2. /\ \A y \in 0..(z - 1) :
               backing'[y] = IF y \in a..(a + 5 * m - 1) THEN y
                             ELSE IF y \in a..(a + w - 1) THEN Junk
                             ELSE backing[y]
        /\ \A y \in 0..(a - 1) : backing[y] = y
    BY <1>3 DEF RightInv
  <2> HIDE DEF a, z
  <2> QED
    BY <2>1, <2>2
<1>5. RightInv'
  <2> DEFINE a == At
             z == Size
  <2>1. a \in Nat /\ z \in Nat /\ a + 5 * m < z /\ m \in Nat /\ At' = a + 5 * m
    BY <1>2, BatchFacts
  <2>2. /\ \A y \in 0..(z - 1) :
               backing'[y] = IF y \in a..(a + 5 * m - 1) THEN y
                             ELSE IF y \in a..(a + w - 1) THEN Junk
                             ELSE backing[y]
        /\ \A y \in 0..(a - 1) : backing'[y] = y
    BY <1>3, <1>4
  <2> HIDE DEF a, z
  <2>3. \A y \in 0..(a + 5 * m - 1) : backing'[y] = y
    BY <2>1, <2>2
  <2> QED
    BY <2>1, <2>3 DEF RightInv
<1>6. OutInv'
  BY DEF OutInv, Store, Skip, Size, rawLeading0s, LeadingCount, IsOne
<1> QED
  BY <1>1, <1>4, <1>5, <1>6

\* What the steps that touch neither the buffer nor the strings preserve.
LEMMA ControlKeeps ==
    ASSUME IInv, TypeOK', At' = At, i' + j' = i + j,
           UNCHANGED <<in, useAVX2, backing, out>>
    PROVE  RightInv' /\ OutInv'
  BY DEF IInv, RightInv, OutInv, Skip, Size, rawLeading0s, LeadingCount, IsOne

\* Publishing string i + j, all of whose slot is rendered.
LEMMA PublishKeeps ==
    ASSUME IInv, NEW k \in 0..(in.n - 1), k = i + j, Publish(k), At' = At,
           k * Slot + Slot <= At, i' + j' = k + 1, UNCHANGED <<in, backing>>
    PROVE  /\ out' \in [0..(in.n - 1) -> [from : Int, to : Int]]
           /\ RightInv' /\ OutInv'
<1> USE DEF IInv
<1>1. k \in Nat
  BY BatchFacts
<1>2. k * Slot \in Nat
  BY <1>1, Slots
<1>3. \A x \in 0..(k * Slot + Slot - 1) : backing[x] = x
  <2> DEFINE lo == k * Slot
             a  == At
  <2>1. a \in Int /\ lo \in Nat /\ lo + Slot <= a /\ \A x \in 0..(a - 1) : backing[x] = x
    BY <1>2, BatchFacts DEF RightInv
  <2> HIDE DEF lo, a
  <2>2. \A x \in 0..(lo + Slot - 1) : backing[x] = x
    BY <2>1, SlotPositive
  <2> QED
    BY <2>2 DEF lo
<1>4. rawSkip(k) = Skip(k) /\ Skip(k) \in 0..Slot
  BY <1>3, SkipRight, SkipInSlot
<1>5. out' = [out EXCEPT ![k] = [from |-> k * Slot + Skip(k), to |-> k * Slot + Slot]]
  BY <1>4 DEF Publish
<1>6. out' \in [0..(in.n - 1) -> [from : Int, to : Int]]
  BY <1>2, <1>4, <1>5, SlotPositive, SMTT(30) DEF TypeOK
<1>7. RightInv'
  BY DEF RightInv
<1>8. OutInv'
  <2>1. \A q : Skip(q)' = Skip(q)
    BY DEF Skip, Size, rawLeading0s, LeadingCount, IsOne
  <2> SUFFICES ASSUME NEW q \in 0..(in.n - 1)
               PROVE  out'[q] = IF q < k + 1
                                THEN [from |-> q * Slot + Skip(q), to |-> q * Slot + Slot]
                                ELSE NoString
    BY <2>1 DEF OutInv
  <2>2. CASE q = k
    BY <1>1, <1>5, <2>2 DEF TypeOK
  <2>3. CASE q # k
    <3>1. out'[q] = out[q] /\ (q < k + 1 <=> q < i + j)
      BY <1>1, <1>5, <2>3, BatchFacts, SMTT(30) DEF TypeOK
    <3> QED
      BY <3>1 DEF OutInv
  <2> QED
    BY <2>2, <2>3
<1> QED
  BY <1>6, <1>7, <1>8

\* A store of the running kernel ends in front of the last slot's end.
LEMMA GroupRoom ==
    ASSUME TypeOK, i + Group <= in.n, NEW m \in Nat, l + m <= Group * Limbs
    PROVE  /\ At + 5 * m <= i * Slot + 4 * Slot
           /\ i * Slot + 4 * Slot <= in.n * Slot
<1>1. i * Slot + 4 * Slot <= in.n * Slot
  BY BatchFacts, Slots DEF Group
<1>2. At + 5 * m <= i * Slot + 4 * Slot
  <2> DEFINE lo == i * Slot
  <2>1. lo \in Nat /\ At = lo + 5 * l /\ l \in Nat
    BY BatchFacts
  <2> HIDE DEF lo
  <2>2. At + 5 * m <= lo + 4 * Slot
    BY <2>1, SlotPositive, SizesAssumption DEF Group
  <2> QED
    BY <2>2 DEF lo
<1> QED
  BY <1>1, <1>2

LEMMA SingleRoom ==
    ASSUME TypeOK, i < in.n, NEW m \in Nat, l + m <= Limbs
    PROVE  /\ At + 5 * m <= i * Slot + Slot
           /\ i * Slot + Slot <= in.n * Slot
<1>1. i * Slot + Slot <= in.n * Slot
  BY BatchFacts, Slots
<1>2. At + 5 * m <= i * Slot + Slot
  <2> DEFINE lo == i * Slot
  <2>1. lo \in Nat /\ At = lo + 5 * l /\ l \in Nat
    BY BatchFacts
  <2> HIDE DEF lo
  <2>2. At + 5 * m <= lo + Slot
    BY <2>1, SlotPositive, SizesAssumption
  <2> QED
    BY <2>2 DEF lo
<1> QED
  BY <1>1, <1>2

-----------------------------------------------------------------------------
\* One step preserves the inductive invariant.
LEMMA StepIInv == IInv /\ [Next]_vars => IInv'
<1> SUFFICES ASSUME IInv, [Next]_vars PROVE IInv'
  OBVIOUS
<1> USE SizesAssumption DEF IInv
<1>0. in.n \in Nat /\ i \in Nat /\ i <= in.n /\ l \in Nat
  BY BatchFacts
<1>1. CASE BeginGroup
  <2>1. TypeOK' /\ PhaseInv' /\ At' = At
    BY <1>0, <1>1 DEF TypeOK, PhaseInv, BeginGroup, At, Size, VecLimbs
  <2> QED
    BY <1>1, <2>1, ControlKeeps DEF BeginGroup
<1>2. CASE RenderGroup
  <2>1. j = 0 /\ i + Group <= in.n /\ l < Group * Limbs
    BY <1>2 DEF RenderGroup, PhaseInv, TypeOK, Group
  <2>2. CASE useAVX2
    <3>1. l % 2 = 0 /\ l + 2 <= Group * Limbs
      BY <1>0, <1>2, <2>1, <2>2 DEF RenderGroup, PhaseInv, VecLimbs, Group
    <3>2. At + 5 * 2 <= in.n * Slot
      BY <2>1, <3>1, GroupRoom, BatchFacts, SlotPositive
    <3>3. Store(2, 16)
      BY <1>2, <2>2 DEF RenderGroup, StoreVector, VecLimbs, VecWidth
    <3>4. TypeOK' /\ RightInv' /\ OutInv'
      BY <2>1, <3>1, <3>2, <3>3, StoreKeeps
    <3>5. PhaseInv'
      BY <1>0, <1>2, <2>1, <3>1, <3>3 DEF RenderGroup, PhaseInv, Store, VecLimbs
    <3> QED
      BY <3>4, <3>5
  <2>3. CASE ~useAVX2
    <3>1. l + 1 <= Group * Limbs
      BY <1>0, <2>1 DEF Group
    <3>2. At + 5 * 1 <= in.n * Slot
      BY <2>1, <3>1, GroupRoom, BatchFacts, SlotPositive
    <3>3. Store(1, 5)
      BY <1>2, <2>3 DEF RenderGroup, StoreScalar, LimbChars
    <3>4. TypeOK' /\ RightInv' /\ OutInv'
      BY <2>1, <3>1, <3>2, <3>3, StoreKeeps
    <3>5. PhaseInv'
      BY <1>0, <1>2, <2>1, <2>3, <3>1, <3>3 DEF RenderGroup, PhaseInv, Store
    <3> QED
      BY <3>4, <3>5
  <2> QED
    BY <2>2, <2>3
<1>3. CASE PublishGroup
  <2>1. i + Group <= in.n /\ l = Group * Limbs /\ j \in 0..3
    BY <1>3 DEF PublishGroup, PhaseInv, TypeOK, Group
  <2>2. i + j \in 0..(in.n - 1)
    BY <1>0, <2>1 DEF Group
  <2>3. (i + j) * Slot + Slot <= At
    <3>0. j \in Nat /\ j < 4
      BY <2>1
    <3>1. /\ (i + j) * Slot = i * Slot + j * Slot
          /\ j * Slot + Slot <= 4 * Slot
      <4>1. (i + j) * Slot = i * Slot + j * Slot
        BY <1>0, <3>0, Slots
      <4>2. j * Slot + Slot <= 4 * Slot
        BY <3>0, Slots
      <4> QED
        BY <4>1, <4>2
    <3>2. At = i * Slot + 4 * Slot
      BY <2>1, BatchFacts, SlotPositive DEF Group
    <3>3. i * Slot \in Nat /\ j * Slot \in Nat
      BY <1>0, <3>0, Slots
    <3> DEFINE p == (i + j) * Slot
               a == i * Slot
               b == j * Slot
    <3>4. p = a + b /\ b + Slot <= 4 * Slot /\ At = a + 4 * Slot /\ a \in Nat /\ b \in Nat
      BY <3>1, <3>2, <3>3
    <3> HIDE DEF p, a, b
    <3>5. p + Slot <= At
      BY <3>4, SlotPositive
    <3> QED
      BY <3>5 DEF p
  <2>4. At' = At /\ i' + j' = (i + j) + 1
    BY <1>0, <1>3, <2>1 DEF PublishGroup, At
  <2>5. RightInv' /\ OutInv' /\ out' \in [0..(in.n - 1) -> [from : Int, to : Int]]
    BY <1>3, <2>2, <2>3, <2>4, PublishKeeps DEF PublishGroup
  <2>6. TypeOK' /\ PhaseInv'
    BY <1>3, <2>1, <2>5 DEF PublishGroup, TypeOK, PhaseInv, Size, Group
  <2> QED
    BY <2>5, <2>6
<1>4. CASE EndGroup
  <2>1. i + Group <= in.n /\ l = Group * Limbs /\ j = 4
    BY <1>4 DEF EndGroup, PhaseInv, Group
  <2>2. At' = At
    <3>1. At' = (i + 4) * Slot
      BY <1>0, <1>4, Slots DEF EndGroup, At, Group, LimbChars
    <3>2. At = i * Slot + 4 * Slot
      BY <2>1, BatchFacts, SlotPositive DEF Group
    <3> QED
      BY <1>0, <3>1, <3>2, Slots
  <2>3. TypeOK' /\ PhaseInv'
    BY <1>0, <1>4, <2>1 DEF EndGroup, TypeOK, PhaseInv, Size, Group
  <2>4. i' + j' = i + j
    BY <1>0, <1>4, <2>1 DEF EndGroup, Group
  <2> QED
    BY <1>4, <2>2, <2>3, <2>4, ControlKeeps DEF EndGroup
<1>5. CASE BeginSingle
  <2>1. TypeOK' /\ PhaseInv' /\ At' = At
    BY <1>0, <1>5 DEF TypeOK, PhaseInv, BeginSingle, At, Size, VecLimbs
  <2> QED
    BY <1>5, <2>1, ControlKeeps DEF BeginSingle
<1>6. CASE RenderSingle
  <2>1. j = 0 /\ i < in.n /\ l < Limbs
    BY <1>6 DEF RenderSingle, PhaseInv
  <2>2. CASE useAVX2 /\ l < SingleVec
    <3>1. l % 2 = 0 /\ l + 2 <= SingleVec
      BY <1>0, <1>6, <2>2 DEF RenderSingle, PhaseInv, VecLimbs
    <3>2. l + 2 <= Limbs /\ l + 2 <= Group * Limbs
      BY <1>0, <3>1 DEF Group
    <3>3. At + 5 * 2 <= in.n * Slot
      BY <2>1, <3>2, SingleRoom, BatchFacts, SlotPositive
    <3>4. Store(2, 16)
      BY <1>6, <2>2 DEF RenderSingle, StoreVector, VecLimbs, VecWidth
    <3>5. TypeOK' /\ RightInv' /\ OutInv'
      BY <2>1, <3>2, <3>3, <3>4, StoreKeeps
    <3>6. PhaseInv'
      BY <1>0, <1>6, <2>1, <3>1, <3>2, <3>4 DEF RenderSingle, PhaseInv, Store, VecLimbs
    <3> QED
      BY <3>5, <3>6
  <2>3. CASE ~(useAVX2 /\ l < SingleVec)
    <3>1. l + 1 <= Limbs /\ l + 1 <= Group * Limbs
      BY <1>0, <2>1 DEF Group
    <3>2. At + 5 * 1 <= in.n * Slot
      BY <2>1, <3>1, SingleRoom, BatchFacts, SlotPositive
    <3>3. Store(1, 5)
      BY <1>6, <2>3 DEF RenderSingle, StoreScalar, LimbChars
    <3>4. TypeOK' /\ RightInv' /\ OutInv'
      BY <2>1, <3>1, <3>2, <3>3, StoreKeeps
    <3>5. PhaseInv'
      BY <1>0, <1>6, <2>1, <2>3, <3>1, <3>3 DEF RenderSingle, PhaseInv, Store
    <3> QED
      BY <3>4, <3>5
  <2> QED
    BY <2>2, <2>3
<1>7. CASE PublishSingle
  <2>1. i < in.n /\ l = Limbs /\ j = 0
    BY <1>7 DEF PublishSingle, PhaseInv
  <2>2. i \in 0..(in.n - 1)
    BY <1>0, <2>1
  <2>3. At = i * Slot + Slot
    BY <2>1, BatchFacts, SlotPositive
  <2>4. At' = At
    <3>1. At' = (i + 1) * Slot
      BY <1>0, <1>7, Slots DEF PublishSingle, At, LimbChars
    <3> QED
      BY <1>0, <2>3, <3>1, Slots
  <2>5. i = i + j /\ i' + j' = i + 1 /\ i * Slot + Slot <= At
    BY <1>0, <1>7, <2>1, <2>3, BatchFacts, SlotPositive DEF PublishSingle
  <2>6. RightInv' /\ OutInv' /\ out' \in [0..(in.n - 1) -> [from : Int, to : Int]]
    BY <1>7, <2>2, <2>4, <2>5, PublishKeeps DEF PublishSingle
  <2>7. TypeOK' /\ PhaseInv'
    BY <1>0, <1>7, <2>1, <2>6 DEF PublishSingle, TypeOK, PhaseInv, Size, Group
  <2> QED
    BY <2>6, <2>7
<1>8. CASE Return
  <2>1. TypeOK' /\ PhaseInv' /\ At' = At
    BY <1>0, <1>8 DEF TypeOK, PhaseInv, Return, At, Size
  <2> QED
    BY <1>8, <2>1, ControlKeeps DEF Return
<1>9. CASE UNCHANGED vars
  <2>1. TypeOK' /\ PhaseInv' /\ At' = At
    BY <1>9 DEF TypeOK, PhaseInv, vars, At, Size
  <2> QED
    BY <1>9, <2>1, ControlKeeps DEF vars
<1> QED
  BY <1>1, <1>2, <1>3, <1>4, <1>5, <1>6, <1>7, <1>8, <1>9 DEF Next, Terminated

LEMMA Inductive == Spec => []IInv
  BY InitIInv, StepIInv, PTL DEF Spec

-----------------------------------------------------------------------------
\* Every variable of the batch encoders keeps its type.
THEOREM TypeCorrect == Spec => []TypeOK
<1>1. IInv => TypeOK
  BY DEF IInv
<1> QED
  BY <1>1, Inductive, PTL

\* For every batch length, no store of Encode32Batch or Encode64Batch goes past
\* the buffer, and its up-front bounds checks never panic.
THEOREM BatchStoresInBounds == Spec => []StoresInBounds
<1>1. ASSUME IInv PROVE StoresInBounds
  <2> USE <1>1, SizesAssumption DEF IInv
  <2>1. /\ Size = in.n * Slot + 6 /\ in.n * Slot \in Nat /\ i * Slot \in Nat
        /\ At \in Int /\ l \in Nat
    BY BatchFacts
  <2>2. ASSUME pc = "group"
        PROVE  /\ l < Group * Limbs => At + (IF useAVX2 THEN VecWidth ELSE LimbChars) <= Size
               /\ Size - i * Slot >= Group * Slot + Tail
    <3>1. i + Group <= in.n /\ l + 0 <= Group * Limbs
      BY <2>2 DEF PhaseInv, TypeOK, Group
    <3>2. i * Slot + 4 * Slot <= in.n * Slot
      BY <3>1, GroupRoom
    <3>3. ASSUME l < Group * Limbs
          PROVE  At + (IF useAVX2 THEN VecWidth ELSE LimbChars) <= Size
      <4>1. CASE useAVX2
        <5>1. l + 2 <= Group * Limbs
          BY <2>1, <2>2, <3>3, <4>1 DEF PhaseInv, VecLimbs, Group
        <5>2. At + 5 * 2 <= in.n * Slot
          BY <2>1, <3>1, <5>1, GroupRoom, SlotPositive
        <5> QED
          BY <2>1, <4>1, <5>2 DEF VecWidth
      <4>2. CASE ~useAVX2
        <5>1. l + 1 <= Group * Limbs
          BY <2>1, <3>3 DEF Group
        <5>2. At + 5 * 1 <= in.n * Slot
          BY <2>1, <3>1, <5>1, GroupRoom, SlotPositive
        <5> QED
          BY <2>1, <4>2, <5>2 DEF LimbChars
      <4> QED
        BY <4>1, <4>2
    <3> QED
      BY <2>1, <3>2, <3>3, SlotPositive DEF Group, Tail
  <2>3. ASSUME pc = "single"
        PROVE  /\ l < Limbs =>
                    At + (IF useAVX2 /\ l < SingleVec THEN VecWidth ELSE LimbChars) <= Size
               /\ Size - i * Slot >= RawBuf
    <3>1. i < in.n /\ l + 0 <= Limbs
      BY <2>1, <2>3 DEF PhaseInv
    <3>2. i * Slot + Slot <= in.n * Slot
      BY <3>1, SingleRoom
    <3>3. ASSUME l < Limbs
          PROVE  At + (IF useAVX2 /\ l < SingleVec THEN VecWidth ELSE LimbChars) <= Size
      <4>1. CASE useAVX2 /\ l < SingleVec
        <5>1. l + 2 <= Limbs
          BY <2>1, <2>3, <4>1 DEF PhaseInv, VecLimbs
        <5>2. At + 5 * 2 <= in.n * Slot
          BY <2>1, <3>1, <5>1, SingleRoom, SlotPositive
        <5> QED
          BY <2>1, <4>1, <5>2 DEF VecWidth
      <4>2. CASE ~(useAVX2 /\ l < SingleVec)
        <5>1. l + 1 <= Limbs
          BY <2>1, <3>3
        <5>2. At + 5 * 1 <= i * Slot + Slot
          BY <3>1, <5>1, SingleRoom
        <5> QED
          BY <2>1, <3>2, <4>2, <5>2, SlotPositive DEF LimbChars
      <4> QED
        BY <4>1, <4>2
    <3> QED
      BY <2>1, <3>2, <3>3, SlotPositive DEF Tail
  <2> QED
    BY <2>2, <2>3 DEF StoresInBounds
<1> QED
  BY <1>1, Inductive, PTL

\* No step of a batch changes a byte of a string it has already published.
THEOREM BatchPublishedStable == Spec => PublishedStable
<1> DEFINE Stable ==
      \A k \in 0..(in.n - 1) :
         out[k] # NoString =>
            /\ out'[k] = out[k]
            /\ \A x \in out[k].from..(out[k].to - 1) : backing'[x] = backing[x]
<1>1. ASSUME IInv, [Next]_vars PROVE [Stable]_vars
  <2> USE <1>1, SizesAssumption DEF IInv
  <2>1. CASE RenderGroup \/ RenderSingle
    <3>1. j = 0 /\ out' = out
      BY <2>1 DEF RenderGroup, RenderSingle, StoreVector, StoreScalar, Store, PhaseInv, TypeOK, Group
    <3>2. PICK m \in 1..2, w \in Nat : Store(m, w)
      BY <2>1 DEF RenderGroup, RenderSingle, StoreVector, StoreScalar, VecLimbs, VecWidth, LimbChars
    <3>3. ASSUME NEW k \in 0..(in.n - 1), out[k] # NoString,
                 NEW x \in out[k].from..(out[k].to - 1)
          PROVE  backing'[x] = backing[x]
      <4> DEFINE lo == k * Slot
                 a  == i * Slot
      <4>0. k < i /\ out[k] = [from |-> k * Slot + Skip(k), to |-> k * Slot + Slot]
        <5>1. i + j = i
          BY <3>1, BatchFacts
        <5> QED
          BY <3>3, <5>1 DEF OutInv
      <4>1. k < i /\ out[k].from = lo + Skip(k) /\ out[k].to = lo + Slot
        BY <4>0
      <4>2. k \in Nat /\ i \in Nat /\ l \in Nat /\ At = a + 5 * l /\ a \in Nat
        BY BatchFacts
      <4>3. lo \in Nat /\ lo + Slot <= a
        BY <4>1, <4>2, Slots
      <4>4. Skip(k) \in 0..Slot /\ \A d \in 0..(Slot - 1) : lo + d \in 0..(Size - 1)
        BY SkipInSlot, SlotInBuffer
      <4>5. \A y \in 0..(Size - 1) : ~(y >= At) => backing'[y] = backing[y]
        BY <3>2, <4>2 DEF Store
      <4> HIDE DEF lo, a
      <4>6. x \in lo..(lo + Slot - 1)
        BY <3>3, <4>1, <4>3, <4>4, SlotPositive
      <4>7. x = lo + (x - lo) /\ x - lo \in 0..(Slot - 1) /\ ~(x >= At)
        BY <4>2, <4>3, <4>6, SlotPositive
      <4> QED
        BY <4>4, <4>5, <4>7
    <3> QED
      BY <3>1, <3>3
  <2>2. CASE PublishGroup \/ PublishSingle
    <3>1. backing' = backing
      BY <2>2 DEF PublishGroup, PublishSingle
    <3>2. i + j \in Int /\ \A k \in 0..(in.n - 1) : k # i + j => out'[k] = out[k]
      <4>1. CASE PublishGroup
        BY <4>1, BatchFacts DEF PublishGroup, Publish, TypeOK, Group
      <4>2. CASE PublishSingle
        <5>1. i + j = i
          BY <4>2, BatchFacts DEF PublishSingle, PhaseInv
        <5> QED
          BY <4>2, <5>1, BatchFacts DEF PublishSingle, Publish, TypeOK
      <4> QED
        BY <2>2, <4>1, <4>2
    <3>3. \A k \in 0..(in.n - 1) : out[k] # NoString => k # i + j
      <4> SUFFICES ASSUME NEW k \in 0..(in.n - 1), k = i + j PROVE out[k] = NoString
        OBVIOUS
      <4>1. ~(k < i + j)
        BY <3>2
      <4> QED
        BY <4>1 DEF OutInv
    <3> QED
      BY <3>1, <3>2, <3>3
  <2>3. CASE BeginGroup \/ EndGroup \/ BeginSingle \/ Return \/ Terminated
    BY <2>3 DEF BeginGroup, EndGroup, BeginSingle, Return, Terminated, vars
  <2> QED
    BY <2>1, <2>2, <2>3 DEF Next
<1> QED
  BY <1>1, Inductive, PTL DEF Spec, PublishedStable

\* When a batch of any length returns, every string is its key's encoding.
THEOREM BatchResultsCorrect == Spec => []ResultsCorrect
<1>1. ASSUME IInv PROVE ResultsCorrect
  <2> USE <1>1 DEF IInv
  <2> SUFFICES ASSUME pc = "done", NEW k \in 0..(in.n - 1)
               PROVE  /\ out[k] = [from |-> k * Slot + Skip(k), to |-> k * Slot + Slot]
                      /\ \A x \in out[k].from..(out[k].to - 1) : backing[x] = x
    BY DEF ResultsCorrect
  <2>1. i = in.n /\ l = 0 /\ j = 0
    BY DEF PhaseInv
  <2>2. k \in Nat /\ in.n \in Nat /\ k < in.n
    BY BatchFacts
  <2>3. out[k] = [from |-> k * Slot + Skip(k), to |-> k * Slot + Slot]
    BY <2>1, <2>2 DEF OutInv
  <2>4. \A x \in out[k].from..(out[k].to - 1) : backing[x] = x
    <3> DEFINE lo == k * Slot
               a  == in.n * Slot
    <3>1. lo \in Nat /\ lo + Slot <= a /\ a \in Nat
      BY <2>2, Slots
    <3>2. At = a
      BY <2>1, <3>1 DEF At, LimbChars
    <3>3. Skip(k) \in 0..Slot /\ out[k].from = lo + Skip(k) /\ out[k].to = lo + Slot
      BY <2>3, SkipInSlot
    <3>4. \A x \in 0..(a - 1) : backing[x] = x
      BY <3>2 DEF RightInv
    <3> HIDE DEF lo, a
    <3> QED
      BY <3>1, <3>3, <3>4, SlotPositive
  <2> QED
    BY <2>3, <2>4
<1> QED
  BY <1>1, Inductive, PTL
=============================================================================
