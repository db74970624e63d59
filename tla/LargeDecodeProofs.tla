------------------------- MODULE LargeDecodeProofs -------------------------
(***************************************************************************)
(* The large decoder returns the value of its string, and no join disturbs *)
(* a power that others share: for every string, base, group and leaf size. *)
(***************************************************************************)
EXTENDS LargeDecode, RadixProofs, FiniteSetTheorems, SequenceTheorems

-----------------------------------------------------------------------------
(* The inductive invariant *)

TreeFrame  == [fn : {"tree"}, at : {"enter", "left", "right", "power"},
               from : Nat, len : Nat, left : Int, right : Int]
LeafFrame  == [fn : {"leaf"}, from : Nat, len : Nat, group : Nat, value : Int]
PowerFrame == [fn : {"power"}, at : {"enter", "first", "second"}, exponent : Nat, first : Int]
Frame      == TreeFrame \cup LeafFrame \cup PowerFrame

\* The value of len digits of the string, from position from on.
Val(s, from, len) == Part(s, from, len, Base)

\* A frame that has called another and not been told its answer.
Waiting(F) == F.fn # "leaf" /\ F.at # "enter"

\* What a waiting frame wants to know: the value of a part of the string, or a
\* power.
Awaited(F) ==
    IF F.fn = "tree"
    THEN IF F.at = "left" THEN <<"value", F.from, split(F.len)>>
         ELSE IF F.at = "right" THEN <<"value", F.from + split(F.len), rightLen(F.len)>>
         ELSE <<"power", rightLen(F.len), 0>>
    ELSE IF F.at = "first" THEN <<"power", F.exponent \div 2, 0>>
         ELSE <<"power", F.exponent - F.exponent \div 2, 0>>

\* What the frame above the first k frames of st has been asked for.
Asked(s, st, k) == IF k = 0 THEN <<"value", 0, Len(s)>> ELSE Awaited(st[k])

\* The big.Ints that a frame writes, or will write, in place.
Holds(F) ==
    IF F.fn = "leaf" THEN {F.value}
    ELSE IF F.fn = "tree" /\ F.at = "right" THEN {F.left}
    ELSE IF F.fn = "tree" /\ F.at = "power" THEN {F.left, F.right}
    ELSE {}

\* The table, and the memo.
Shared == 0..Group \cup {powers[e] : e \in DOMAIN powers}

\* What a frame that was asked for A has computed so far, in heap h.
TreeOK(s, h, F, A) ==
    /\ A = <<"value", F.from, F.len>>
    /\ F.from + F.len <= Len(s)
    /\ F.at \in {"right", "power"} => h[F.left] = Val(s, F.from, split(F.len))
    /\ F.at = "power" => /\ h[F.right] = Val(s, F.from + split(F.len), rightLen(F.len))
                         /\ F.left # F.right

LeafOK(s, h, F, A) ==
    /\ A[1] = "value" /\ A[2] \in Nat /\ A[3] \in Nat
    /\ A[2] <= F.from /\ F.from + F.len = A[2] + A[3] /\ A[2] + A[3] <= Len(s)
    /\ h[F.value] = Val(s, A[2], F.from - A[2])
    /\ F.len # 0 => F.group \in 1..Group /\ \E q \in Nat : F.len = F.group + q * Group

PowerOK(h, sh, F, A) ==
    /\ A = <<"power", F.exponent, 0>>
    /\ F.at # "enter" => F.exponent > Group
    /\ F.at = "second" => F.first \in sh /\ h[F.first] = Pow(Base, F.exponent \div 2)

FrameOK(s, h, sh, F, A) ==
    /\ F.fn = "tree"  => TreeOK(s, h, F, A)
    /\ F.fn = "leaf"  => LeafOK(s, h, F, A)
    /\ F.fn = "power" => PowerOK(h, sh, F, A)

\* Address a is an answer to A that nobody else will write.
AnswerOK(s, h, sh, st, A, a) ==
    IF A[1] = "value"
    THEN /\ a \in DOMAIN h \ sh
         /\ \A k \in 1..Len(st) : a \notin Holds(st[k])
         /\ h[a] = Val(s, A[2], A[3])
    ELSE a \in sh /\ h[a] = Pow(Base, A[2])

HeapOK ==
    /\ fresh \in Nat /\ fresh > Group
    /\ heap \in [0..(fresh - 1) -> Int]
    /\ DOMAIN powers \subseteq Nat
    /\ Shared \subseteq DOMAIN heap

StackOK ==
    /\ stack \in Seq(Frame)
    /\ \A k \in 1..Len(stack) : FrameOK(src, heap, Shared, stack[k], Asked(src, stack, k - 1))
    /\ \A k \in 1..(Len(stack) - 1) : Waiting(stack[k])

Separate ==
    /\ \A k \in 1..Len(stack) : Holds(stack[k]) \subseteq DOMAIN heap \ Shared
    /\ \A k, l \in 1..Len(stack) : k # l => Holds(stack[k]) \cap Holds(stack[l]) = {}

RetOK ==
    (stack = <<>> \/ Waiting(top)) => AnswerOK(src, heap, Shared, stack, Asked(src, stack, Len(stack)), ret)

\* No power is computed twice: one that is being computed is not in the memo,
\* and the calls it makes are for smaller ones.
MemoOK ==
    /\ \A k \in 1..Len(stack) :
         stack[k].fn = "power" /\ stack[k].at # "enter" => stack[k].exponent \notin DOMAIN powers
    /\ \A k, l \in 1..Len(stack) :
         k < l /\ stack[k].fn = "power" =>
             stack[l].fn = "power" /\ stack[l].exponent < stack[k].exponent

Inv ==
    /\ src \in Seq(0..(Base - 1))
    /\ HeapOK /\ PowersExact /\ StackOK /\ Separate /\ RetOK

-----------------------------------------------------------------------------
(* Facts about the operators *)

\* Returning takes the last frame away.
LEMMA FrontOf ==
    ASSUME NEW S, NEW s \in Seq(S), s # <<>>
    PROVE  /\ Len(s) \in Nat \ {0}
           /\ Front(s) \in Seq(S) /\ Len(Front(s)) = Len(s) - 1
           /\ \A k \in 1..(Len(s) - 1) : Front(s)[k] = s[k]
<1>1. Len(s) \in Nat \ {0}
  OBVIOUS
<1>2. \A k \in 1..(Len(s) - 1) : s[k] \in S
  BY <1>1
<1>3. Front(s) \in Seq(S)
  BY <1>1, <1>2, SubSeqProperties DEF Front
<1>4. Len(Front(s)) = Len(s) - 1
  <2> DEFINE r == SubSeq(s, 1, Len(s) - 1)
             l == Len(s)
  <2>1. Len(r) = IF 1 <= l - 1 THEN (l - 1) - 1 + 1 ELSE 0
    BY <1>1, <1>2, SubSeqProperties
  <2>2. Front(s) = r
    BY DEF Front
  <2>3. l \in Nat \ {0}
    BY <1>1
  <2> HIDE DEF r, l
  <2>4. Len(r) = l - 1
    BY <2>1, <2>3
  <2> QED  BY <2>2, <2>4 DEF l
<1>5. \A k \in 1..(Len(s) - 1) : Front(s)[k] = s[k]
  BY DEF Front
<1> QED  BY <1>1, <1>3, <1>4, <1>5

\* A step inside the running frame changes the last frame.
LEMMA Replaced ==
    ASSUME NEW S, NEW s \in Seq(S), s # <<>>, NEW x \in S
    PROVE  /\ Len(s) \in Nat \ {0}
           /\ Append(Front(s), x) \in Seq(S) /\ Len(Append(Front(s), x)) = Len(s)
           /\ \A k \in 1..(Len(s) - 1) : Append(Front(s), x)[k] = s[k]
           /\ Append(Front(s), x)[Len(s)] = x
BY FrontOf

\* A call changes the last frame and puts another behind it.
LEMMA Pushed ==
    ASSUME NEW S, NEW s \in Seq(S), s # <<>>, NEW x \in S, NEW y \in S
    PROVE  /\ Len(s) \in Nat \ {0}
           /\ Append(Front(s), x) \o <<y>> \in Seq(S)
           /\ Len(Append(Front(s), x) \o <<y>>) = Len(s) + 1
           /\ \A k \in 1..(Len(s) - 1) : (Append(Front(s), x) \o <<y>>)[k] = s[k]
           /\ (Append(Front(s), x) \o <<y>>)[Len(s)] = x
           /\ (Append(Front(s), x) \o <<y>>)[Len(s) + 1] = y
<1> DEFINE t == Append(Front(s), x)
<1>1. /\ Len(s) \in Nat \ {0}
      /\ t \in Seq(S) /\ Len(t) = Len(s)
      /\ \A k \in 1..(Len(s) - 1) : t[k] = s[k]
      /\ t[Len(s)] = x
  BY Replaced
<1> HIDE DEF t
<1> DEFINE u == t \o <<y>>
<1>2. /\ u \in Seq(S) /\ Len(u) = Len(s) + 1
      /\ \A k \in 1..Len(s) : u[k] = t[k]
      /\ u[Len(s) + 1] = y
  BY <1>1
<1>3. /\ \A k \in 1..(Len(s) - 1) : u[k] = s[k]
      /\ u[Len(s)] = x
  BY <1>1, <1>2
<1> QED  BY <1>1, <1>2, <1>3 DEF t

\* What a step puts on the stack is a frame.
LEMMA PushedOne ==
    ASSUME NEW S, NEW s \in Seq(S), s # <<>>, NEW x, Append(Front(s), x) \in Seq(S)
    PROVE  x \in S
<1>1. Front(s) \in Seq(S)
  BY FrontOf
<1> QED  BY <1>1

\* And so is what a call puts there.
LEMMA PushedBoth ==
    ASSUME NEW S, NEW s \in Seq(S), s # <<>>, NEW x, NEW y, Append(Front(s), x) \o <<y>> \in Seq(S)
    PROVE  x \in S /\ y \in S
<1> DEFINE f == Front(s)
           u == Append(f, x) \o <<y>>
           n == Len(f)
<1>1. f \in Seq(S) /\ n \in Nat
  BY FrontOf
<1> HIDE DEF f
<1>2. Len(u) = n + 2 /\ u[n + 1] = x /\ u[n + 2] = y
  BY <1>1
<1>3. n + 1 \in 1..Len(u) /\ n + 2 \in 1..Len(u) /\ u \in Seq(S)
  BY <1>1, <1>2 DEF f
<1> HIDE DEF u
<1>4. u[n + 1] \in S /\ u[n + 2] \in S
  BY <1>3, ElementOfSeq, Zenon
<1> QED  BY <1>2, <1>4

\* The running frame is the last one.
LEMMA TopFrame ==
    ASSUME stack \in Seq(Frame), stack # <<>>
    PROVE  top = stack[Len(stack)] /\ top \in Frame /\ Len(stack) \in Nat \ {0}
BY DEF top, Last

\* The two parts of a string make up the whole.
LEMMA SplitParts ==
    ASSUME NEW n \in Nat
    PROVE  split(n) \in Nat /\ rightLen(n) \in Nat /\ split(n) + rightLen(n) = n
<1>1. Group \in Nat \ {0}
  BY LargeAssumption
<1>2. n \div 2 \in Nat /\ n \div 2 <= n
  OBVIOUS
<1>3. ASSUME NEW h \in Nat PROVE (h % Group) \in Nat /\ h % Group <= h
  BY <1>1
<1> QED  BY <1>2, <1>3 DEF split, rightLen

\* The constants are what the arithmetic needs.
LEMMA Constants ==
    Base \in Nat \ {0} /\ Base \in Int /\ Group \in Nat \ {0} /\ LeafChars \in Nat /\ Wrap \in Nat \ {0}
BY LargeAssumption

\* The string consists of digits.
LEMMA SrcDigits ==
    ASSUME src \in Seq(0..(Base - 1))
    PROVE  Len(src) \in Nat /\ \A x \in 1..Len(src) : src[x] \in 0..(Base - 1) /\ src[x] \in Int
<1>1. \A x \in 1..Len(src) : src[x] \in 0..(Base - 1)
  BY ElementOfSeq, Zenon
<1> QED  BY <1>1, Constants

\* A part of the string has a value, below the power of its length.
LEMMA ValBound ==
    ASSUME src \in Seq(0..(Base - 1)), NEW from \in Nat, NEW n \in Nat, from + n <= Len(src)
    PROVE  Val(src, from, n) \in Int /\ Val(src, from, n) \in 0..(Pow(Base, n) - 1)
<1>1. \A x \in (from + 1)..(from + n) : src[x] \in 0..(Base - 1)
  BY SrcDigits
<1>2. Val(src, from, n) \in 0..(Pow(Base, n) - 1)
  BY <1>1, Constants, PartBound DEF Val
<1>3. Pow(Base, n) \in Int
  BY Constants, PowInt
<1> QED  BY <1>2, <1>3

\* Two adjacent parts are joined by the power of the second one's length.
LEMMA ValJoin ==
    ASSUME src \in Seq(0..(Base - 1)), NEW from \in Nat, NEW m \in Nat, NEW n \in Nat,
           from + m + n <= Len(src)
    PROVE  Val(src, from, m + n) = Val(src, from, m) * Pow(Base, n) + Val(src, from + m, n)
<1>1. \A x \in (from + 1)..(from + m + n) : src[x] \in Int
  BY SrcDigits
<1> QED  BY <1>1, Constants, PartJoin DEF Val

\* Nothing is read yet: zero.
LEMMA ValNone ==
    ASSUME NEW from
    PROVE  Val(src, from, 0) = 0
BY Constants, PartNone DEF Val

\* One more digit.
LEMMA ValNext ==
    ASSUME src \in Seq(0..(Base - 1)), NEW from \in Nat, NEW n \in Nat, from + n + 1 <= Len(src)
    PROVE  Val(src, from, n + 1) = Val(src, from, n) * Base + src[from + n + 1]
<1>1. \A x \in (from + 1)..(from + n + 1) : src[x] \in Int
  BY SrcDigits
<1> QED  BY <1>1, Constants, PartNext DEF Val

\* A group of at most Group digits is folded in uint64 without a wrap.
LEMMA GroupExact ==
    ASSUME src \in Seq(0..(Base - 1)), NEW from \in Nat, NEW n \in Nat, n <= Group,
           from + n <= Len(src)
    PROVE  decodeLargeGroup(from, n) = Val(src, from, n)
<1> DEFINE Fold(h, k) == uint64(h[k - 1] * Base + src[from + k])
           IsGroup(h) == h = [k \in 0..n |-> IF k = 0 THEN 0 ELSE Fold(h, k)]
           value == CHOOSE h : IsGroup(h)
           g == [k \in 0..n |-> Val(src, from, k)]
<1>1. ASSUME NEW j \in Nat, j < n
      PROVE  Val(src, from, j + 1) = uint64(Val(src, from, j) * Base + src[from + (j + 1)])
  <2>1. Val(src, from, j + 1) = Val(src, from, j) * Base + src[from + j + 1]
    BY <1>1, ValNext, SrcDigits
  <2>2. Val(src, from, j + 1) \in 0..(Pow(Base, j + 1) - 1)
    BY <1>1, ValBound, SrcDigits
  <2>3. Pow(Base, j + 1) <= Pow(Base, Group) /\ Pow(Base, j + 1) \in Int /\ Pow(Base, Group) \in Int
    <3>1. j + 1 \in Nat /\ Group \in Nat /\ j + 1 <= Group
      BY <1>1, Constants
    <3>2. Pow(Base, j + 1) <= Pow(Base, Group)
      BY <3>1, Constants, PowMonotone
    <3> QED  BY <3>1, <3>2, Constants, PowInt
  <2>4. Pow(Base, Group) <= Wrap
    BY LargeAssumption
  <2>5. Val(src, from, j + 1) \in 0..(Wrap - 1)
    BY <2>2, <2>3, <2>4, Constants
  <2>6. \A x \in 0..(Wrap - 1) : x % Wrap = x
    BY Constants
  <2>7. from + j + 1 = from + (j + 1)
    BY <1>1
  <2> QED  BY <2>1, <2>5, <2>6, <2>7 DEF uint64
<1>2. ASSUME NEW h, \A k \in 0..n : h[k] = IF k = 0 THEN 0 ELSE Fold(h, k)
      PROVE  \A k \in 0..n : h[k] = Val(src, from, k)
  <2> DEFINE S == {k \in Nat : h[k] = Val(src, from, k)}
  <2>1. 0 \in S
    BY <1>2, ValNone
  <2>2. \A k \in Nat : k < n /\ k \in S => k + 1 \in S
    <3> SUFFICES ASSUME NEW k \in Nat, k < n, h[k] = Val(src, from, k) PROVE h[k + 1] = Val(src, from, k + 1)
      OBVIOUS
    <3>1. k + 1 \in 0..n /\ k + 1 # 0 /\ k + 1 - 1 = k
      OBVIOUS
    <3>2. h[k + 1] = uint64(h[k] * Base + src[from + (k + 1)])
      BY <1>2, <3>1
    <3> QED  BY <3>2, <1>1
  <2> HIDE DEF S
  <2>3. \A k \in 0..n : k \in S
    BY <2>1, <2>2, BoundedInduct
  <2> QED  BY <2>3 DEF S
<1>3. IsGroup(g)
  <2>1. \A k \in 0..n : g[k] = IF k = 0 THEN 0 ELSE Fold(g, k)
    <3> TAKE k \in 0..n
    <3>1. CASE k = 0
      BY <3>1, ValNone
    <3>2. CASE k # 0
      <4>1. k - 1 \in Nat /\ k - 1 < n /\ (k - 1) + 1 = k /\ k - 1 \in 0..n
        BY <3>2
      <4>2. Val(src, from, k) = uint64(Val(src, from, k - 1) * Base + src[from + k])
        BY <4>1, <1>1
      <4>3. g[k] = Val(src, from, k) /\ g[k - 1] = Val(src, from, k - 1)
        BY <4>1
      <4> HIDE DEF g
      <4> QED  BY <3>2, <4>2, <4>3
    <3> QED  BY <3>1, <3>2
  <2> QED  BY <2>1
<1>4. IsGroup(value)
  BY <1>3
<1>5. decodeLargeGroup(from, n) = value[n]
  BY DEF decodeLargeGroup
<1> HIDE DEF value
<1>6. \A k \in 0..n : value[k] = IF k = 0 THEN 0 ELSE Fold(value, k)
  BY <1>4
<1> HIDE DEF Fold
<1> QED  BY <1>2, <1>5, <1>6

\* The parts of an exponent make up the whole, and so do their powers.
LEMMA PowHalves ==
    ASSUME NEW e \in Nat
    PROVE  /\ e \div 2 \in Nat /\ e - e \div 2 \in Nat
           /\ Pow(Base, e) = Pow(Base, e \div 2) * Pow(Base, e - e \div 2)
<1>1. e \div 2 \in Nat /\ e - e \div 2 \in Nat /\ e = e \div 2 + (e - e \div 2)
  OBVIOUS
<1> QED  BY <1>1, Constants, PowAdd

\* A new big.Int gets an address of its own and leaves the others alone.
LEMMA AllocFresh ==
    ASSUME HeapOK, NEW value \in Int, Alloc(value)
    PROVE  /\ fresh \in Nat /\ fresh' = fresh + 1 /\ fresh > Group
           /\ heap' \in [0..(fresh' - 1) -> Int]
           /\ fresh \notin DOMAIN heap /\ fresh \notin Shared
           /\ DOMAIN heap' = DOMAIN heap \cup {fresh}
           /\ heap'[fresh] = value
           /\ \A a \in DOMAIN heap : heap'[a] = heap[a]
<1>1. /\ fresh \in Nat /\ fresh > Group /\ heap \in [0..(fresh - 1) -> Int]
      /\ DOMAIN heap = 0..(fresh - 1) /\ Shared \subseteq DOMAIN heap
  BY DEF HeapOK
<1>2. heap' = [a \in DOMAIN heap \cup {fresh} |-> IF a = fresh THEN value ELSE heap[a]]
  BY DEF Alloc
<1> DEFINE n == fresh
<1>3. n \in Nat /\ n > Group /\ heap \in [0..(n - 1) -> Int] /\ DOMAIN heap = 0..(n - 1)
      /\ heap' = [a \in DOMAIN heap \cup {n} |-> IF a = n THEN value ELSE heap[a]]
  BY <1>1, <1>2
<1>4. fresh' = Cardinality(DOMAIN heap')
  BY DEF fresh
<1> HIDE DEF n
<1>5. DOMAIN heap \cup {n} = 0..n /\ n \notin DOMAIN heap
  BY <1>3
<1>6. DOMAIN heap' = 0..n
  BY <1>3, <1>5
<1>7. Cardinality(0..n) = n + 1
  <2>1. 0 \in Int /\ n \in Int /\ ~(0 > n)
    BY <1>3, Constants
  <2>2. Cardinality(0..n) = IF 0 > n THEN 0 ELSE n - 0 + 1
    BY <2>1, FS_Interval
  <2> QED  BY <2>1, <2>2
<1>8. fresh' = n + 1
  BY <1>4, <1>6, <1>7
<1>9. heap' \in [0..n -> Int] /\ heap'[n] = value /\ \A a \in DOMAIN heap : heap'[a] = heap[a]
  BY <1>3, <1>5
<1>10. (n + 1) - 1 = n
  BY <1>3
<1> QED  BY <1>1, <1>3, <1>5, <1>6, <1>8, <1>9, <1>10 DEF n

\* A frame's claims survive a step that keeps what it holds and what is shared.
LEMMA FrameStable ==
    ASSUME NEW s, NEW F, NEW A, NEW h, NEW sh, NEW g, NEW th,
           FrameOK(s, h, sh, F, A), sh \subseteq th,
           \A a \in Holds(F) \cup sh : g[a] = h[a]
    PROVE  FrameOK(s, g, th, F, A)
<1>1. ASSUME F.fn = "tree", TreeOK(s, h, F, A) PROVE TreeOK(s, g, F, A)
  BY <1>1 DEF TreeOK, Holds
<1>2. ASSUME F.fn = "leaf", LeafOK(s, h, F, A) PROVE LeafOK(s, g, F, A)
  BY <1>2 DEF LeafOK, Holds
<1>3. ASSUME F.fn = "power", PowerOK(h, sh, F, A) PROVE PowerOK(g, th, F, A)
  BY <1>3 DEF PowerOK, Holds
<1> QED  BY <1>1, <1>2, <1>3 DEF FrameOK

-----------------------------------------------------------------------------
(* What calls, returns and steps inside the running frame preserve *)

\* The frames below the running one are left as they are, and stay true.
LEMMA LowerFrames ==
    ASSUME Inv, stack # <<>>, src' = src,
           Len(stack') \in Nat, Len(stack') >= Len(stack) - 1,
           \A k \in 1..(Len(stack) - 1) : stack'[k] = stack[k],
           Shared \subseteq Shared',
           \A a \in Shared : heap'[a] = heap[a],
           \A k \in 1..(Len(stack) - 1) : \A a \in Holds(stack[k]) : heap'[a] = heap[a]
    PROVE  \A k \in 1..(Len(stack) - 1) :
             /\ FrameOK(src', heap', Shared', stack'[k], Asked(src', stack', k - 1))
             /\ Waiting(stack'[k])
<1> SUFFICES ASSUME NEW k \in 1..(Len(stack) - 1)
             PROVE  /\ FrameOK(src, heap', Shared', stack[k], Asked(src, stack', k - 1))
                    /\ Waiting(stack[k])
  OBVIOUS
<1>1. stack \in Seq(Frame) /\ Len(stack) \in Nat
  BY DEF Inv, StackOK
<1>2. k \in 1..Len(stack)
  BY <1>1
<1>3. FrameOK(src, heap, Shared, stack[k], Asked(src, stack, k - 1)) /\ Waiting(stack[k])
  BY <1>2 DEF Inv, StackOK
<1>4. Asked(src, stack', k - 1) = Asked(src, stack, k - 1)
  <2>1. CASE k = 1
    BY <2>1 DEF Asked
  <2>2. CASE k # 1
    <3>1. k - 1 \in 1..(Len(stack) - 1)
      BY <1>1, <2>2
    <3>2. stack'[k - 1] = stack[k - 1]
      BY <3>1
    <3> QED  BY <3>2 DEF Asked
  <2> QED  BY <2>1, <2>2
<1>5. \A a \in Holds(stack[k]) \cup Shared : heap'[a] = heap[a]
  OBVIOUS
<1>6. FrameOK(src, heap', Shared', stack[k], Asked(src, stack, k - 1))
  BY <1>3, <1>5, FrameStable
<1> QED  BY <1>3, <1>4, <1>6

\* The running frame changes or becomes another one, and stays the running one.
LEMMA ReplaceStep ==
    ASSUME Inv, stack # <<>>, src' = src, HeapOK', PowersExact',
           NEW frame \in Frame, stack' = Append(Front(stack), frame), ~Waiting(frame),
           Shared \subseteq Shared',
           \A a \in Shared : heap'[a] = heap[a],
           \A k \in 1..(Len(stack) - 1) :
             /\ \A a \in Holds(stack[k]) : a \in DOMAIN heap' \ Shared' /\ heap'[a] = heap[a]
             /\ Holds(frame) \cap Holds(stack[k]) = {},
           Holds(frame) \subseteq DOMAIN heap' \ Shared',
           FrameOK(src, heap', Shared', frame, Asked(src, stack, Len(stack) - 1))
    PROVE  Inv'
<1> DEFINE n == Len(stack)
<1>1. /\ n \in Nat \ {0}
      /\ stack' \in Seq(Frame) /\ Len(stack') = n /\ stack'[n] = frame
      /\ \A k \in 1..(n - 1) : stack'[k] = stack[k]
  <2>1. stack \in Seq(Frame)
    BY DEF Inv, StackOK
  <2> HIDE DEF n
  <2>2. /\ Len(stack) \in Nat \ {0}
        /\ Append(Front(stack), frame) \in Seq(Frame)
        /\ Len(Append(Front(stack), frame)) = Len(stack)
        /\ Append(Front(stack), frame)[Len(stack)] = frame
        /\ \A k \in 1..(Len(stack) - 1) : Append(Front(stack), frame)[k] = stack[k]
    BY <2>1, Replaced
  <2> QED  BY <2>2, Zenon DEF n
<1>2. \A k \in 1..(n - 1) :
        /\ FrameOK(src', heap', Shared', stack'[k], Asked(src', stack', k - 1))
        /\ Waiting(stack'[k])
  BY <1>1, LowerFrames
<1>3. Asked(src', stack', n - 1) = Asked(src, stack, n - 1)
  BY <1>1 DEF Asked
<1>4. FrameOK(src', heap', Shared', stack'[n], Asked(src', stack', n - 1))
  BY <1>1, <1>3
<1> HIDE DEF n
<1>5. StackOK'
  <2>1. \A k \in 1..n : FrameOK(src', heap', Shared', stack'[k], Asked(src', stack', k - 1))
    BY <1>1, <1>2, <1>4
  <2> QED  BY <1>1, <1>2, <2>1 DEF StackOK
<1>6. Separate'
  <2>1. \A k \in 1..(n - 1) : Holds(stack'[k]) \subseteq DOMAIN heap' \ Shared'
    BY <1>1 DEF n
  <2>2. \A k \in 1..n : Holds(stack'[k]) \subseteq DOMAIN heap' \ Shared'
    BY <1>1, <2>1
  <2>3. ASSUME NEW k \in 1..(n - 1), NEW l \in 1..(n - 1), k # l
        PROVE  Holds(stack'[k]) \cap Holds(stack'[l]) = {}
    <3>1. k \in 1..Len(stack) /\ l \in 1..Len(stack)
      BY <1>1 DEF n
    <3>2. Holds(stack[k]) \cap Holds(stack[l]) = {}
      BY <2>3, <3>1 DEF Inv, Separate
    <3> QED  BY <1>1, <3>2
  <2>4. \A k \in 1..(n - 1) : Holds(stack'[n]) \cap Holds(stack'[k]) = {}
    BY <1>1 DEF n
  <2>5. ASSUME NEW k \in 1..n, NEW l \in 1..n, k # l
        PROVE  Holds(stack'[k]) \cap Holds(stack'[l]) = {}
    <3>1. CASE k = n
      <4>1. l \in 1..(n - 1)
        BY <1>1, <2>5, <3>1
      <4> QED  BY <2>4, <3>1, <4>1
    <3>2. CASE l = n
      <4>1. k \in 1..(n - 1)
        BY <1>1, <2>5, <3>2
      <4> QED  BY <2>4, <3>2, <4>1
    <3>3. CASE k # n /\ l # n
      <4>1. k \in 1..(n - 1) /\ l \in 1..(n - 1)
        BY <1>1, <3>3
      <4> QED  BY <2>3, <2>5, <4>1
    <3> QED  BY <3>1, <3>2, <3>3
  <2> QED  BY <1>1, <2>2, <2>5 DEF Separate
<1>7. RetOK'
  <2>1. stack' # <<>> /\ top' = frame
    BY <1>1 DEF top, Last
  <2> QED  BY <2>1 DEF RetOK
<1> QED  BY <1>5, <1>6, <1>7 DEF Inv

\* The running frame calls another: nothing is allocated or written.
LEMMA CallStep ==
    ASSUME Inv, stack # <<>>, UNCHANGED <<src, heap, powers>>,
           NEW frame \in Frame, NEW callee \in Frame, Call(frame, callee),
           Waiting(frame), ~Waiting(callee), Holds(callee) = {},
           Holds(frame) \subseteq DOMAIN heap \ Shared,
           \A k \in 1..(Len(stack) - 1) : Holds(frame) \cap Holds(stack[k]) = {},
           FrameOK(src, heap, Shared, frame, Asked(src, stack, Len(stack) - 1)),
           FrameOK(src, heap, Shared, callee, Awaited(frame))
    PROVE  Inv'
<1> DEFINE n == Len(stack)
<1>1. /\ n \in Nat \ {0}
      /\ stack' \in Seq(Frame) /\ Len(stack') = n + 1 /\ stack'[n] = frame /\ stack'[n + 1] = callee
      /\ \A k \in 1..(n - 1) : stack'[k] = stack[k]
  <2>1. stack \in Seq(Frame)
    BY DEF Inv, StackOK
  <2> HIDE DEF n
  <2> DEFINE st == Append(Front(stack), frame) \o <<callee>>
  <2>2. /\ Len(stack) \in Nat \ {0}
        /\ st \in Seq(Frame)
        /\ Len(st) = Len(stack) + 1
        /\ st[Len(stack)] = frame /\ st[Len(stack) + 1] = callee
        /\ \A k \in 1..(Len(stack) - 1) : st[k] = stack[k]
    BY <2>1, Pushed
  <2>3. stack' = st
    BY DEF Call
  <2> HIDE DEF st
  <2> QED  BY <2>2, <2>3, Zenon DEF n
<1>2. Shared' = Shared /\ fresh' = fresh
  BY DEF Shared, fresh
<1>3. HeapOK' /\ PowersExact'
  BY <1>2 DEF Inv, HeapOK, PowersExact
<1>4. \A k \in 1..(n - 1) :
        /\ FrameOK(src', heap', Shared', stack'[k], Asked(src', stack', k - 1))
        /\ Waiting(stack'[k])
  BY <1>1, <1>2, LowerFrames
<1>5. Asked(src', stack', n - 1) = Asked(src, stack, n - 1)
  <2> HIDE DEF n
  <2>1. n = 1 \/ n - 1 \in 1..(n - 1)
    BY <1>1
  <2> QED  BY <1>1, <2>1 DEF Asked
<1>6. Asked(src', stack', n) = Awaited(frame)
  BY <1>1 DEF Asked
<1> HIDE DEF n
<1>7. StackOK'
  <2>1. FrameOK(src', heap', Shared', stack'[n], Asked(src', stack', n - 1))
    BY <1>1, <1>2, <1>5 DEF n
  <2>2. FrameOK(src', heap', Shared', stack'[n + 1], Asked(src', stack', (n + 1) - 1))
    <3>1. (n + 1) - 1 = n
      BY <1>1
    <3> QED  BY <1>1, <1>2, <1>6, <3>1
  <2>3. \A k \in 1..(n + 1) : FrameOK(src', heap', Shared', stack'[k], Asked(src', stack', k - 1))
    <3> TAKE k \in 1..(n + 1)
    <3>1. k = n + 1 \/ k = n \/ k \in 1..(n - 1)
      BY <1>1
    <3> QED  BY <1>4, <2>1, <2>2, <3>1
  <2>4. \A k \in 1..((n + 1) - 1) : Waiting(stack'[k])
    <3> TAKE k \in 1..((n + 1) - 1)
    <3>1. k = n \/ k \in 1..(n - 1)
      BY <1>1
    <3> QED  BY <1>1, <1>4, <3>1
  <2> QED  BY <1>1, <2>3, <2>4 DEF StackOK
<1>8. Separate'
  <2>1. \A k \in 1..(n - 1) : /\ Holds(stack[k]) \subseteq DOMAIN heap \ Shared
                              /\ Holds(frame) \cap Holds(stack[k]) = {}
    BY <1>1 DEF Inv, Separate, n
  <2>2. ASSUME NEW k \in 1..(n + 1)
        PROVE  Holds(stack'[k]) \subseteq DOMAIN heap' \ Shared'
    <3>1. k = n + 1 \/ k = n \/ k \in 1..(n - 1)
      BY <1>1
    <3> QED  BY <1>1, <1>2, <2>1, <3>1
  <2>3. ASSUME NEW k \in 1..(n + 1), NEW l \in 1..(n + 1), k # l
        PROVE  Holds(stack'[k]) \cap Holds(stack'[l]) = {}
    <3>1. CASE k = n + 1 \/ l = n + 1
      BY <1>1, <3>1
    <3>2. CASE k = n /\ l \in 1..(n - 1)
      BY <1>1, <2>1, <3>2
    <3>3. CASE l = n /\ k \in 1..(n - 1)
      BY <1>1, <2>1, <3>3
    <3>4. CASE k \in 1..(n - 1) /\ l \in 1..(n - 1)
      <4>1. k \in 1..Len(stack) /\ l \in 1..Len(stack)
        BY <1>1, <3>4 DEF n
      <4>2. Holds(stack[k]) \cap Holds(stack[l]) = {}
        BY <2>3, <4>1 DEF Inv, Separate
      <4> QED  BY <1>1, <3>4, <4>2
    <3> QED  BY <1>1, <2>3, <3>1, <3>2, <3>3, <3>4
  <2> QED  BY <1>1, <2>2, <2>3 DEF Separate
<1>9. RetOK'
  <2>1. stack' # <<>> /\ top' = callee
    BY <1>1 DEF top, Last
  <2> QED  BY <2>1 DEF RetOK
<1> QED  BY <1>3, <1>7, <1>8, <1>9 DEF Inv

\* The running frame returns a: what it did kept what the others hold and what
\* is shared, and a is the answer that its caller waits for.
LEMMA ReturnStep ==
    ASSUME Inv, stack # <<>>, src' = src, HeapOK', PowersExact', NEW a, Return(a),
           Shared \subseteq Shared',
           \A x \in Shared : heap'[x] = heap[x],
           \A k \in 1..(Len(stack) - 1) :
             \A x \in Holds(stack[k]) : x \in DOMAIN heap' \ Shared' /\ heap'[x] = heap[x],
           AnswerOK(src, heap', Shared', stack', Asked(src, stack, Len(stack) - 1), a)
    PROVE  Inv'
<1> DEFINE n == Len(stack)
<1>1. /\ n \in Nat \ {0}
      /\ stack' \in Seq(Frame) /\ Len(stack') = n - 1
      /\ \A k \in 1..(n - 1) : stack'[k] = stack[k]
  <2>1. stack \in Seq(Frame)
    BY DEF Inv, StackOK
  <2>2. stack' = Front(stack)
    BY DEF Return
  <2> QED  BY <2>1, <2>2, FrontOf
<1>2. \A k \in 1..(n - 1) :
        /\ FrameOK(src', heap', Shared', stack'[k], Asked(src', stack', k - 1))
        /\ Waiting(stack'[k])
  BY <1>1, LowerFrames
<1> HIDE DEF n
<1>3. StackOK'
  <2>1. \A k \in 1..((n - 1) - 1) : Waiting(stack'[k])
    BY <1>1, <1>2
  <2> QED  BY <1>1, <1>2, <2>1 DEF StackOK
<1>4. Separate'
  <2>1. \A k \in 1..(n - 1) : Holds(stack'[k]) \subseteq DOMAIN heap' \ Shared'
    BY <1>1 DEF n
  <2>2. ASSUME NEW k \in 1..(n - 1), NEW l \in 1..(n - 1), k # l
        PROVE  Holds(stack'[k]) \cap Holds(stack'[l]) = {}
    <3>1. k \in 1..Len(stack) /\ l \in 1..Len(stack)
      BY <1>1 DEF n
    <3>2. Holds(stack[k]) \cap Holds(stack[l]) = {}
      BY <2>2, <3>1 DEF Inv, Separate
    <3> QED  BY <1>1, <3>2
  <2> QED  BY <1>1, <2>1, <2>2 DEF Separate
<1>5. RetOK'
  <2>1. Asked(src', stack', n - 1) = Asked(src, stack, n - 1)
    BY <1>1 DEF Asked
  <2>2. ret' = a
    BY DEF Return
  <2>3. AnswerOK(src', heap', Shared', stack', Asked(src', stack', Len(stack')), ret')
    BY <1>1, <2>1, <2>2 DEF n
  <2> QED  BY <2>3 DEF RetOK
<1> QED  BY <1>3, <1>4, <1>5 DEF Inv

\* What the invariant says of the running frame.
LEMMA TopFacts ==
    ASSUME Inv, stack # <<>>
    PROVE  /\ top \in Frame /\ Len(stack) \in Nat \ {0}
           /\ FrameOK(src, heap, Shared, top, Asked(src, stack, Len(stack) - 1))
           /\ Holds(top) \subseteq DOMAIN heap \ Shared
           /\ \A k \in 1..(Len(stack) - 1) : /\ Holds(top) \cap Holds(stack[k]) = {}
                                             /\ Holds(stack[k]) \subseteq DOMAIN heap \ Shared
           /\ Waiting(top) => AnswerOK(src, heap, Shared, stack, Awaited(top), ret)
<1>1. stack \in Seq(Frame)
  BY DEF Inv, StackOK
<1>2. top = stack[Len(stack)] /\ top \in Frame /\ Len(stack) \in Nat \ {0}
  BY <1>1, TopFrame
<1> DEFINE n == Len(stack)
<1>3. n \in 1..n /\ n \in Nat \ {0}
  BY <1>2
<1>4. FrameOK(src, heap, Shared, top, Asked(src, stack, n - 1))
  BY <1>2, <1>3 DEF Inv, StackOK
<1>5. \A k \in 1..n : Holds(stack[k]) \subseteq DOMAIN heap \ Shared
  BY DEF Inv, Separate
<1>6. ASSUME NEW k \in 1..(n - 1)
      PROVE  Holds(top) \cap Holds(stack[k]) = {} /\ Holds(stack[k]) \subseteq DOMAIN heap \ Shared
  <2>1. k \in 1..n /\ k # n
    BY <1>3
  <2> QED  BY <1>2, <1>3, <1>5, <2>1 DEF Inv, Separate
<1>7. ASSUME Waiting(top) PROVE AnswerOK(src, heap, Shared, stack, Awaited(top), ret)
  <2>1. Asked(src, stack, n) = Awaited(top)
    BY <1>2, <1>3 DEF Asked
  <2> QED  BY <1>7, <2>1 DEF Inv, RetOK
<1> QED  BY <1>2, <1>3, <1>4, <1>5, <1>6, <1>7

\* A record of one kind of frame is not of another.
LEMMA FrameKinds ==
    ASSUME NEW F \in Frame
    PROVE  /\ F.fn = "tree" => F \in TreeFrame
           /\ F.fn = "leaf" => F \in LeafFrame
           /\ F.fn = "power" => F \in PowerFrame
BY DEF Frame, TreeFrame, LeafFrame, PowerFrame

\* New frames are frames.
LEMMA NewFrames ==
    /\ \A from, len \in Nat : Tree(from, len) \in Frame
    /\ \A from, len, group \in Nat : \A value \in Int : Leaf(from, len, group, value) \in Frame
    /\ \A exponent \in Nat : Power(exponent) \in Frame
BY DEF Frame, TreeFrame, LeafFrame, PowerFrame, Tree, Leaf, Power

\* Allocation keeps the table and the memo.
LEMMA AllocKeeps ==
    ASSUME Inv, NEW value \in Int, Alloc(value), powers' = powers
    PROVE  /\ HeapOK' /\ PowersExact' /\ Shared' = Shared
           /\ \A a \in DOMAIN heap : a \in DOMAIN heap' /\ heap'[a] = heap[a]
           /\ fresh \in Nat /\ fresh \in DOMAIN heap' \ Shared' /\ fresh \notin DOMAIN heap
           /\ heap'[fresh] = value
<1>1. HeapOK
  BY DEF Inv
<1>2. /\ fresh \in Nat /\ fresh' = fresh + 1 /\ fresh > Group
      /\ heap' \in [0..(fresh' - 1) -> Int]
      /\ fresh \notin DOMAIN heap /\ fresh \notin Shared
      /\ DOMAIN heap' = DOMAIN heap \cup {fresh}
      /\ heap'[fresh] = value
      /\ \A a \in DOMAIN heap : heap'[a] = heap[a]
  BY <1>1, AllocFresh
<1>3. Shared' = Shared
  BY DEF Shared
<1>4. HeapOK'
  <2>1. fresh' \in Nat /\ fresh' > Group
    BY <1>2, Constants
  <2> QED  BY <1>1, <1>2, <1>3, <2>1 DEF HeapOK
<1>5. PowersExact'
  <2>1. \A e \in 0..Group : e \in DOMAIN heap
    BY <1>1 DEF HeapOK, Shared
  <2>2. \A e \in DOMAIN powers : powers[e] \in DOMAIN heap
    BY <1>1 DEF HeapOK, Shared
  <2> QED  BY <1>2, <2>1, <2>2 DEF Inv, PowersExact
<1> QED  BY <1>2, <1>3, <1>4, <1>5

\* decodeLargeLeaf starts with a big.Int of its own and a first group that makes
\* the rest a multiple of the group size.
LEMMA EnterLeafStep ==
    ASSUME Inv, EnterLeaf
    PROVE  Inv'
<1> DEFINE g == IF top.len % Group = 0 THEN Group ELSE top.len % Group
           frame == Leaf(top.from, top.len, g, fresh)
           A == Asked(src, stack, Len(stack) - 1)
<1>1. stack # <<>> /\ top.fn = "tree" /\ top.at = "enter"
  BY DEF EnterLeaf, Running
<1>2. top \in TreeFrame /\ TreeOK(src, heap, top, A)
  BY <1>1, TopFacts, FrameKinds DEF FrameOK
<1>3. top.from \in Nat /\ top.len \in Nat
  BY <1>2 DEF TreeFrame
<1>4. Alloc(0) /\ powers' = powers /\ src' = src /\ stack' = Append(Front(stack), frame)
  BY DEF EnterLeaf
<1>5. /\ HeapOK' /\ PowersExact' /\ Shared' = Shared
      /\ \A a \in DOMAIN heap : a \in DOMAIN heap' /\ heap'[a] = heap[a]
      /\ fresh \in Nat /\ fresh \in DOMAIN heap' \ Shared' /\ fresh \notin DOMAIN heap
      /\ heap'[fresh] = 0
  BY <1>4, AllocKeeps
<1>6. g \in 1..Group /\ (top.len # 0 => \E q \in Nat : top.len = g + q * Group)
  <2> DEFINE l == top.len
  <2>1. l \in Nat
    BY <1>3
  <2> HIDE DEF l
  <2> DEFINE d == l \div Group
             r == l % Group
  <2>2. r \in 0..(Group - 1) /\ d \in Nat /\ l = d * Group + r
    <3>1. l \in Int /\ Group \in Nat \ {0}
      BY <2>1, Constants
    <3>2. d \in Int /\ r \in 0..(Group - 1) /\ l = d * Group + r
      BY <3>1, DivMod, Zenon
    <3>3. d \in Nat
      BY <2>1, <3>1, DivNat, Zenon
    <3> QED  BY <3>2, <3>3
  <2> HIDE DEF d, r
  <2>3. CASE r = 0
    <3>1. g = Group
      BY <2>3 DEF l, r
    <3>2. ASSUME l # 0 PROVE \E q \in Nat : l = g + q * Group
      <4>1. d # 0
        BY <2>2, <2>3, <3>2, Constants
      <4>2. d - 1 \in Nat /\ l = Group + (d - 1) * Group
        BY <2>2, <2>3, <4>1, Constants
      <4> QED  BY <3>1, <4>2
    <3> QED  BY <3>1, <3>2, Constants DEF l
  <2>4. CASE r # 0
    <3>1. g = r
      BY <2>4 DEF l, r
    <3>2. l = g + d * Group
      BY <2>2, <3>1, Constants
    <3> QED  BY <2>2, <2>4, <3>1, <3>2, Constants DEF l
  <2> QED  BY <2>3, <2>4
<1> HIDE DEF g
<1>7. frame \in Frame /\ frame.fn = "leaf" /\ frame.value = fresh /\ Holds(frame) = {fresh}
        /\ frame.from = top.from /\ frame.len = top.len /\ frame.group = g
  <2>1. frame \in Frame
    <3>1. g \in Nat /\ fresh \in Int
      BY <1>5, <1>6, Constants
    <3> QED  BY <1>3, <3>1, NewFrames
  <2> QED  BY <2>1 DEF Leaf, Holds
<1> HIDE DEF frame
<1>8. LeafOK(src, heap', frame, A)
  <2>1. A = <<"value", top.from, top.len>> /\ top.from + top.len <= Len(src)
    BY <1>2 DEF TreeOK
  <2>2. A[1] = "value" /\ A[2] = top.from /\ A[3] = top.len
    BY <2>1
  <2>3. Val(src, top.from, top.from - top.from) = 0
    BY <1>3, ValNone
  <2> QED  BY <1>3, <1>5, <1>6, <1>7, <2>1, <2>2, <2>3 DEF LeafOK
<1>9. ~Waiting(frame) /\ FrameOK(src, heap', Shared', frame, A)
  BY <1>7, <1>8 DEF Waiting, FrameOK
<1>10. \A a \in Shared : heap'[a] = heap[a]
  BY <1>5 DEF Inv, HeapOK
<1>11. \A k \in 1..(Len(stack) - 1) :
         /\ \A a \in Holds(stack[k]) : a \in DOMAIN heap' \ Shared' /\ heap'[a] = heap[a]
         /\ Holds(frame) \cap Holds(stack[k]) = {}
  BY <1>1, <1>5, <1>7, TopFacts
<1> HIDE DEF A
<1> QED  BY <1>1, <1>4, <1>5, <1>7, <1>9, <1>10, <1>11, ReplaceStep DEF A

\* A new call has written nothing and waits for nothing.
LEMMA CalleeFacts ==
    /\ \A from, len \in Nat :
         /\ Tree(from, len) \in Frame /\ ~Waiting(Tree(from, len)) /\ Holds(Tree(from, len)) = {}
         /\ from + len <= Len(src) =>
              FrameOK(src, heap, Shared, Tree(from, len), <<"value", from, len>>)
    /\ \A e \in Nat :
         /\ Power(e) \in Frame /\ ~Waiting(Power(e)) /\ Holds(Power(e)) = {}
         /\ FrameOK(src, heap, Shared, Power(e), <<"power", e, 0>>)
<1>1. ASSUME NEW from \in Nat, NEW len \in Nat
      PROVE  /\ Tree(from, len) \in Frame /\ ~Waiting(Tree(from, len)) /\ Holds(Tree(from, len)) = {}
             /\ from + len <= Len(src) =>
                  FrameOK(src, heap, Shared, Tree(from, len), <<"value", from, len>>)
  <2>1. Tree(from, len) \in Frame
    BY NewFrames
  <2>2. ~Waiting(Tree(from, len)) /\ Holds(Tree(from, len)) = {}
    BY DEF Waiting, Holds, Tree
  <2>3. from + len <= Len(src) => FrameOK(src, heap, Shared, Tree(from, len), <<"value", from, len>>)
    BY DEF FrameOK, TreeOK, Tree
  <2> QED  BY <2>1, <2>2, <2>3
<1>2. ASSUME NEW e \in Nat
      PROVE  /\ Power(e) \in Frame /\ ~Waiting(Power(e)) /\ Holds(Power(e)) = {}
             /\ FrameOK(src, heap, Shared, Power(e), <<"power", e, 0>>)
  <2>1. Power(e) \in Frame
    BY NewFrames
  <2>2. ~Waiting(Power(e)) /\ Holds(Power(e)) = {}
    BY DEF Waiting, Holds, Power
  <2>3. FrameOK(src, heap, Shared, Power(e), <<"power", e, 0>>)
    BY DEF FrameOK, PowerOK, Power
  <2> QED  BY <2>1, <2>2, <2>3
<1> QED  BY <1>1, <1>2

\* The left part is asked for first.
LEMMA LeftStep ==
    ASSUME Inv, Left
    PROVE  Inv'
<1> DEFINE frame == [top EXCEPT !.at = "left"]
           callee == Tree(top.from, split(top.len))
           A == Asked(src, stack, Len(stack) - 1)
<1>1. stack # <<>> /\ top.fn = "tree" /\ top.at = "enter"
  BY DEF Left, Running
<1>2. top \in TreeFrame /\ TreeOK(src, heap, top, A)
  BY <1>1, TopFacts, FrameKinds DEF FrameOK
<1>3. top.from \in Nat /\ top.len \in Nat /\ split(top.len) \in Nat /\ split(top.len) <= top.len
  BY <1>2, SplitParts DEF TreeFrame
<1>4. Call(frame, callee) /\ UNCHANGED <<src, heap, powers>>
  BY DEF Left
<1>5. frame \in Frame /\ frame.fn = "tree" /\ frame.at = "left" /\ frame.from = top.from
        /\ frame.len = top.len
  BY <1>2 DEF Frame, TreeFrame
<1> HIDE DEF frame
<1>6. Holds(frame) = {} /\ Waiting(frame) /\ Awaited(frame) = <<"value", top.from, split(top.len)>>
  BY <1>5 DEF Holds, Waiting, Awaited
<1>7. FrameOK(src, heap, Shared, frame, A)
  BY <1>2, <1>5 DEF FrameOK, TreeOK
<1>8. top.from + split(top.len) <= Len(src)
  <2>1. Len(src) \in Nat
    BY SrcDigits DEF Inv
  <2> QED  BY <1>2, <1>3, <2>1 DEF TreeOK
<1>9. /\ callee \in Frame /\ ~Waiting(callee) /\ Holds(callee) = {}
      /\ FrameOK(src, heap, Shared, callee, Awaited(frame))
  BY <1>3, <1>6, <1>8, CalleeFacts
<1> HIDE DEF callee
<1> QED  BY <1>1, <1>4, <1>5, <1>6, <1>7, <1>9, CallStep

\* Then the right part, and the answer for the left one is kept.
LEMMA RightStep ==
    ASSUME Inv, Right
    PROVE  Inv'
<1> DEFINE frame == [top EXCEPT !.at = "right", !.left = ret]
           callee == Tree(top.from + split(top.len), top.len - split(top.len))
           A == Asked(src, stack, Len(stack) - 1)
<1>1. stack # <<>> /\ top.fn = "tree" /\ top.at = "left"
  BY DEF Right, Running
<1>2. top \in TreeFrame /\ TreeOK(src, heap, top, A)
  BY <1>1, TopFacts, FrameKinds DEF FrameOK
<1>3. /\ top.from \in Nat /\ top.len \in Nat /\ split(top.len) \in Nat /\ rightLen(top.len) \in Nat
      /\ split(top.len) + rightLen(top.len) = top.len /\ rightLen(top.len) = top.len - split(top.len)
  BY <1>2, SplitParts DEF TreeFrame, rightLen
<1>4. Call(frame, callee) /\ UNCHANGED <<src, heap, powers>>
  BY DEF Right
<1>5. /\ ret \in DOMAIN heap \ Shared
      /\ \A k \in 1..Len(stack) : ret \notin Holds(stack[k])
      /\ heap[ret] = Val(src, top.from, split(top.len))
  <2>1. Waiting(top) /\ Awaited(top) = <<"value", top.from, split(top.len)>>
    BY <1>1 DEF Waiting, Awaited
  <2> QED  BY <1>1, <2>1, TopFacts DEF AnswerOK
<1>6. ret \in Int
  BY <1>5 DEF Inv, HeapOK
<1>7. frame \in Frame /\ frame.fn = "tree" /\ frame.at = "right" /\ frame.from = top.from
        /\ frame.len = top.len /\ frame.left = ret
  BY <1>2, <1>6 DEF Frame, TreeFrame
<1> HIDE DEF frame
<1>8. /\ Holds(frame) = {ret} /\ Waiting(frame)
      /\ Awaited(frame) = <<"value", top.from + split(top.len), rightLen(top.len)>>
  BY <1>7 DEF Holds, Waiting, Awaited
<1>9. FrameOK(src, heap, Shared, frame, A)
  BY <1>2, <1>5, <1>7 DEF FrameOK, TreeOK
<1>10. (top.from + split(top.len)) + rightLen(top.len) <= Len(src)
  <2>1. Len(src) \in Nat
    BY SrcDigits DEF Inv
  <2> QED  BY <1>2, <1>3, <2>1 DEF TreeOK
<1>11. /\ callee \in Frame /\ ~Waiting(callee) /\ Holds(callee) = {}
       /\ FrameOK(src, heap, Shared, callee, Awaited(frame))
  <2>1. callee = Tree(top.from + split(top.len), rightLen(top.len))
    BY <1>3
  <2>2. top.from + split(top.len) \in Nat
    BY <1>3
  <2> HIDE DEF callee
  <2> QED  BY <1>3, <1>8, <1>10, <2>1, <2>2, CalleeFacts
<1>12. \A k \in 1..(Len(stack) - 1) : Holds(frame) \cap Holds(stack[k]) = {}
  <2>1. Len(stack) \in Nat
    BY <1>1, TopFacts
  <2> QED  BY <1>5, <1>8, <2>1
<1> HIDE DEF callee
<1> QED  BY <1>1, <1>4, <1>5, <1>7, <1>8, <1>9, <1>11, <1>12, CallStep

\* Then the power that joins them, and the answer for the right one is kept.
LEMMA RightPowerStep ==
    ASSUME Inv, RightPower
    PROVE  Inv'
<1> DEFINE frame == [top EXCEPT !.at = "power", !.right = ret]
           callee == Power(rightLen(top.len))
           A == Asked(src, stack, Len(stack) - 1)
<1>1. stack # <<>> /\ top.fn = "tree" /\ top.at = "right"
  BY DEF RightPower, Running
<1>2. top \in TreeFrame /\ TreeOK(src, heap, top, A)
  BY <1>1, TopFacts, FrameKinds DEF FrameOK
<1>3. top.len \in Nat /\ rightLen(top.len) \in Nat
  BY <1>2, SplitParts DEF TreeFrame
<1>4. Call(frame, callee) /\ UNCHANGED <<src, heap, powers>>
  BY DEF RightPower
<1>5. /\ ret \in DOMAIN heap \ Shared
      /\ \A k \in 1..Len(stack) : ret \notin Holds(stack[k])
      /\ heap[ret] = Val(src, top.from + split(top.len), rightLen(top.len))
  <2>1. Waiting(top) /\ Awaited(top) = <<"value", top.from + split(top.len), rightLen(top.len)>>
    BY <1>1 DEF Waiting, Awaited
  <2> QED  BY <1>1, <2>1, TopFacts DEF AnswerOK
<1>6. ret \in Int
  BY <1>5 DEF Inv, HeapOK
<1>7. frame \in Frame /\ frame.fn = "tree" /\ frame.at = "power" /\ frame.from = top.from
        /\ frame.len = top.len /\ frame.left = top.left /\ frame.right = ret
  BY <1>2, <1>6 DEF Frame, TreeFrame
<1> HIDE DEF frame
<1>8. /\ Holds(frame) = {top.left, ret} /\ Waiting(frame)
      /\ Awaited(frame) = <<"power", rightLen(top.len), 0>>
      /\ Holds(top) = {top.left}
  BY <1>1, <1>7 DEF Holds, Waiting, Awaited
<1>9. top.left # ret
  <2>1. top = stack[Len(stack)] /\ Len(stack) \in 1..Len(stack)
    BY <1>1, TopFrame DEF Inv, StackOK
  <2> QED  BY <1>5, <1>8, <2>1
<1>10. FrameOK(src, heap, Shared, frame, A)
  BY <1>1, <1>2, <1>5, <1>7, <1>9 DEF FrameOK, TreeOK
<1>11. /\ callee \in Frame /\ ~Waiting(callee) /\ Holds(callee) = {}
       /\ FrameOK(src, heap, Shared, callee, Awaited(frame))
  BY <1>3, <1>8, CalleeFacts
<1>12. \A k \in 1..(Len(stack) - 1) : Holds(frame) \cap Holds(stack[k]) = {}
  <2>1. Len(stack) \in Nat /\ \A k \in 1..(Len(stack) - 1) : Holds(top) \cap Holds(stack[k]) = {}
    BY <1>1, TopFacts
  <2> QED  BY <1>5, <1>8, <2>1
<1>13. Holds(frame) \subseteq DOMAIN heap \ Shared
  BY <1>1, <1>5, <1>8, TopFacts
<1> HIDE DEF callee
<1> QED  BY <1>1, <1>4, <1>7, <1>8, <1>10, <1>11, <1>12, <1>13, CallStep

\* A power that is not known is put together from two halves, the first of them
\* asked for first.
LEMMA PowerFirstStep ==
    ASSUME Inv, PowerFirst
    PROVE  Inv'
<1> DEFINE frame == [top EXCEPT !.at = "first"]
           callee == Power(top.exponent \div 2)
           A == Asked(src, stack, Len(stack) - 1)
<1>1. stack # <<>> /\ top.fn = "power" /\ top.at = "enter" /\ top.exponent > Group
  BY DEF PowerFirst, Running
<1>2. top \in PowerFrame /\ PowerOK(heap, Shared, top, A)
  BY <1>1, TopFacts, FrameKinds DEF FrameOK
<1>3. top.exponent \in Nat /\ top.exponent \div 2 \in Nat
  BY <1>2, PowHalves DEF PowerFrame
<1>4. Call(frame, callee) /\ UNCHANGED <<src, heap, powers>>
  BY DEF PowerFirst
<1>5. frame \in Frame /\ frame.fn = "power" /\ frame.at = "first" /\ frame.exponent = top.exponent
  BY <1>2 DEF Frame, PowerFrame
<1> HIDE DEF frame
<1>6. Holds(frame) = {} /\ Waiting(frame) /\ Awaited(frame) = <<"power", top.exponent \div 2, 0>>
  BY <1>5 DEF Holds, Waiting, Awaited
<1>7. FrameOK(src, heap, Shared, frame, A)
  BY <1>1, <1>2, <1>5 DEF FrameOK, PowerOK
<1>8. /\ callee \in Frame /\ ~Waiting(callee) /\ Holds(callee) = {}
      /\ FrameOK(src, heap, Shared, callee, Awaited(frame))
  BY <1>3, <1>6, CalleeFacts
<1> HIDE DEF callee
<1> QED  BY <1>1, <1>4, <1>5, <1>6, <1>7, <1>8, CallStep

\* Then the other half, and the first one is kept.
LEMMA PowerSecondStep ==
    ASSUME Inv, PowerSecond
    PROVE  Inv'
<1> DEFINE frame == [top EXCEPT !.at = "second", !.first = ret]
           callee == Power(top.exponent - top.exponent \div 2)
           A == Asked(src, stack, Len(stack) - 1)
<1>1. stack # <<>> /\ top.fn = "power" /\ top.at = "first"
  BY DEF PowerSecond, Running
<1>2. top \in PowerFrame /\ PowerOK(heap, Shared, top, A)
  BY <1>1, TopFacts, FrameKinds DEF FrameOK
<1>3. top.exponent \in Nat /\ top.exponent - top.exponent \div 2 \in Nat
  BY <1>2, PowHalves DEF PowerFrame
<1>4. Call(frame, callee) /\ UNCHANGED <<src, heap, powers>>
  BY DEF PowerSecond
<1>5. ret \in Shared /\ heap[ret] = Pow(Base, top.exponent \div 2)
  <2>1. Waiting(top) /\ Awaited(top) = <<"power", top.exponent \div 2, 0>>
    BY <1>1 DEF Waiting, Awaited
  <2> QED  BY <1>1, <2>1, TopFacts DEF AnswerOK
<1>6. ret \in Int
  BY <1>5 DEF Inv, HeapOK
<1>7. frame \in Frame /\ frame.fn = "power" /\ frame.at = "second" /\ frame.exponent = top.exponent
        /\ frame.first = ret
  BY <1>2, <1>6 DEF Frame, PowerFrame
<1> HIDE DEF frame
<1>8. /\ Holds(frame) = {} /\ Waiting(frame)
      /\ Awaited(frame) = <<"power", top.exponent - top.exponent \div 2, 0>>
  BY <1>7 DEF Holds, Waiting, Awaited
<1>9. FrameOK(src, heap, Shared, frame, A)
  BY <1>1, <1>2, <1>5, <1>7 DEF FrameOK, PowerOK
<1>10. /\ callee \in Frame /\ ~Waiting(callee) /\ Holds(callee) = {}
       /\ FrameOK(src, heap, Shared, callee, Awaited(frame))
  BY <1>3, <1>8, CalleeFacts
<1> HIDE DEF callee
<1> QED  BY <1>1, <1>4, <1>7, <1>8, <1>9, <1>10, CallStep

\* A step that leaves heap and memo alone keeps what is true of them.
LEMMA HeapSame ==
    ASSUME Inv, UNCHANGED <<heap, powers>>
    PROVE  HeapOK' /\ PowersExact' /\ Shared' = Shared
<1>1. Shared' = Shared /\ fresh' = fresh
  BY DEF Shared, fresh
<1> QED  BY <1>1 DEF Inv, HeapOK, PowersExact

\* A power of the table or the memo is the answer.
LEMMA PowerKnownStep ==
    ASSUME Inv, PowerKnown
    PROVE  Inv'
<1> DEFINE A == Asked(src, stack, Len(stack) - 1)
<1>1. stack # <<>> /\ top.fn = "power" /\ top.at = "enter" /\ UNCHANGED <<src, heap, powers>>
  BY DEF PowerKnown, Running
<1>2. top \in PowerFrame /\ PowerOK(heap, Shared, top, A)
  BY <1>1, TopFacts, FrameKinds DEF FrameOK
<1>3. top.exponent \in Nat /\ A = <<"power", top.exponent, 0>>
  BY <1>2 DEF PowerFrame, PowerOK
<1>4. PICK a : Return(a) /\ a \in Shared /\ heap[a] = Pow(Base, top.exponent)
  <2>1. CASE top.exponent <= Group /\ Return(top.exponent)
    <3>1. top.exponent \in 0..Group
      BY <1>3, <2>1, Constants
    <3> QED  BY <2>1, <3>1 DEF Inv, PowersExact, Shared
  <2>2. CASE top.exponent \in DOMAIN powers /\ Return(powers[top.exponent])
    BY <2>2 DEF Inv, PowersExact, Shared
  <2> QED  BY <2>1, <2>2 DEF PowerKnown
<1>5. HeapOK' /\ PowersExact' /\ Shared' = Shared
  BY <1>1, HeapSame
<1>6. AnswerOK(src, heap', Shared', stack', A, a)
  BY <1>1, <1>3, <1>4, <1>5 DEF AnswerOK
<1>7. \A k \in 1..(Len(stack) - 1) :
        \A x \in Holds(stack[k]) : x \in DOMAIN heap' \ Shared' /\ heap'[x] = heap[x]
  BY <1>1, <1>5, TopFacts
<1> HIDE DEF A
<1> QED  BY <1>1, <1>4, <1>5, <1>6, <1>7, ReturnStep DEF A

\* The product of the halves is a new entry of the memo, and the answer.
LEMMA PowerStoreStep ==
    ASSUME Inv, MemoOK, PowerStore
    PROVE  Inv'
<1> DEFINE A == Asked(src, stack, Len(stack) - 1)
           e == top.exponent
           value == heap[top.first] * heap[ret]
<1>1. /\ stack # <<>> /\ top.fn = "power" /\ top.at = "second" /\ src' = src
      /\ Alloc(value) /\ Return(fresh)
      /\ powers' = [x \in DOMAIN powers \cup {e} |-> IF x = e THEN fresh ELSE powers[x]]
  BY DEF PowerStore, Running
<1>2. top \in PowerFrame /\ PowerOK(heap, Shared, top, A)
  BY <1>1, TopFacts, FrameKinds DEF FrameOK
<1>3. /\ e \in Nat /\ A = <<"power", e, 0>>
      /\ heap[top.first] = Pow(Base, e \div 2)
  BY <1>1, <1>2 DEF PowerFrame, PowerOK
<1>4. heap[ret] = Pow(Base, e - e \div 2)
  <2>1. Waiting(top) /\ Awaited(top) = <<"power", e - e \div 2, 0>>
    BY <1>1 DEF Waiting, Awaited
  <2> QED  BY <1>1, <2>1, TopFacts DEF AnswerOK
<1>5. value = Pow(Base, e) /\ value \in Int
  BY <1>3, <1>4, PowHalves, PowInt, Constants
<1> HIDE DEF value, e
<1>6. HeapOK
  BY DEF Inv
<1>7. /\ fresh \in Nat /\ fresh' = fresh + 1 /\ fresh > Group
      /\ heap' \in [0..(fresh' - 1) -> Int]
      /\ fresh \notin DOMAIN heap /\ fresh \notin Shared
      /\ DOMAIN heap' = DOMAIN heap \cup {fresh}
      /\ heap'[fresh] = value
      /\ \A a \in DOMAIN heap : heap'[a] = heap[a]
  BY <1>1, <1>5, <1>6, AllocFresh
<1>8. /\ Shared \subseteq DOMAIN heap /\ DOMAIN powers \subseteq Nat
      /\ 0..Group \subseteq Shared /\ \A x \in DOMAIN powers : powers[x] \in Shared
  BY <1>6 DEF HeapOK, Shared
<1>9. /\ DOMAIN powers' = DOMAIN powers \cup {e} /\ powers'[e] = fresh
      /\ \A x \in DOMAIN powers \ {e} : powers'[x] = powers[x]
  BY <1>1
<1>10. Shared' \subseteq Shared \cup {fresh} /\ fresh \in Shared'
  BY <1>9 DEF Shared
<1>11. HeapOK'
  <2>1. fresh' \in Nat /\ fresh' > Group
    BY <1>7, Constants
  <2> QED  BY <1>3, <1>7, <1>8, <1>9, <1>10, <2>1 DEF HeapOK, e
<1>12. PowersExact'
  <2>1. \A x \in 0..Group : heap'[x] = Pow(Base, x)
    BY <1>7, <1>8 DEF Inv, PowersExact
  <2>2. ASSUME NEW x \in DOMAIN powers' PROVE heap'[powers'[x]] = Pow(Base, x)
    <3>1. CASE x = e
      BY <1>5, <1>7, <1>9, <3>1
    <3>2. CASE x # e
      <4>1. x \in DOMAIN powers /\ powers'[x] = powers[x]
        BY <1>9, <3>2
      <4>2. powers[x] \in DOMAIN heap /\ heap[powers[x]] = Pow(Base, x)
        BY <1>8, <4>1 DEF Inv, PowersExact
      <4> QED  BY <1>7, <4>1, <4>2
    <3> QED  BY <3>1, <3>2
  <2> QED  BY <2>1, <2>2 DEF PowersExact
<1>13. Shared \subseteq Shared'
  <2>1. e \notin DOMAIN powers
    <3>1. top = stack[Len(stack)] /\ Len(stack) \in 1..Len(stack)
      BY <1>1, TopFrame DEF Inv, StackOK
    <3> QED  BY <1>1, <3>1 DEF MemoOK, e
  <2>2. \A x \in DOMAIN powers : x \in DOMAIN powers' /\ powers'[x] = powers[x]
    BY <1>9, <2>1
  <2> QED  BY <2>2 DEF Shared
<1>14. AnswerOK(src, heap', Shared', stack', A, fresh)
  BY <1>3, <1>5, <1>7, <1>10 DEF AnswerOK
<1>15. \A k \in 1..(Len(stack) - 1) :
         \A x \in Holds(stack[k]) : x \in DOMAIN heap' \ Shared' /\ heap'[x] = heap[x]
  <2>1. \A k \in 1..(Len(stack) - 1) : Holds(stack[k]) \subseteq DOMAIN heap \ Shared
    BY <1>1, TopFacts
  <2> QED  BY <1>7, <1>10, <2>1
<1>16. \A x \in Shared : heap'[x] = heap[x]
  BY <1>7, <1>8
<1> HIDE DEF A
<1> QED  BY <1>1, <1>11, <1>12, <1>13, <1>14, <1>15, <1>16, ReturnStep DEF A

\* left * 58^len(right) + right is the value of both parts; only left, which no
\* other frame holds, is written.
LEMMA CombineStep ==
    ASSUME Inv, Combine
    PROVE  Inv'
<1> DEFINE A == Asked(src, stack, Len(stack) - 1)
           value == heap[top.left] * heap[ret] + heap[top.right]
<1>1. /\ stack # <<>> /\ top.fn = "tree" /\ top.at = "power" /\ src' = src /\ powers' = powers
      /\ heap' = [heap EXCEPT ![top.left] = value] /\ Return(top.left)
  BY DEF Combine, Running
<1>2. top \in TreeFrame /\ TreeOK(src, heap, top, A)
  BY <1>1, TopFacts, FrameKinds DEF FrameOK
<1>3. /\ top.from \in Nat /\ top.len \in Nat /\ split(top.len) \in Nat /\ rightLen(top.len) \in Nat
      /\ split(top.len) + rightLen(top.len) = top.len
  BY <1>2, SplitParts DEF TreeFrame
<1>4. /\ A = <<"value", top.from, top.len>> /\ top.from + top.len <= Len(src)
      /\ heap[top.left] = Val(src, top.from, split(top.len))
      /\ heap[top.right] = Val(src, top.from + split(top.len), rightLen(top.len))
  BY <1>1, <1>2 DEF TreeOK
<1>5. heap[ret] = Pow(Base, rightLen(top.len))
  <2>1. Waiting(top) /\ Awaited(top) = <<"power", rightLen(top.len), 0>>
    BY <1>1 DEF Waiting, Awaited
  <2> QED  BY <1>1, <2>1, TopFacts DEF AnswerOK
<1>6. value = Val(src, top.from, top.len) /\ value \in Int
  <2>1. src \in Seq(0..(Base - 1)) /\ Len(src) \in Nat
    BY SrcDigits DEF Inv
  <2>2. top.from + split(top.len) + rightLen(top.len) <= Len(src)
    BY <1>3, <1>4, <2>1
  <2>3. Val(src, top.from, split(top.len) + rightLen(top.len))
          = Val(src, top.from, split(top.len)) * Pow(Base, rightLen(top.len))
              + Val(src, top.from + split(top.len), rightLen(top.len))
    BY <1>3, <2>1, <2>2, ValJoin
  <2>4. Val(src, top.from, top.len) \in Int
    BY <1>3, <1>4, <2>1, ValBound
  <2> QED  BY <1>3, <1>4, <1>5, <2>3, <2>4
<1> HIDE DEF value
<1>7. top.left \in DOMAIN heap \ Shared /\ \A k \in 1..(Len(stack) - 1) : top.left \notin Holds(stack[k])
  <2>1. top.left \in Holds(top)
    BY <1>1 DEF Holds
  <2> QED  BY <1>1, <2>1, TopFacts
<1>8. /\ DOMAIN heap' = DOMAIN heap /\ heap'[top.left] = value
      /\ \A x \in DOMAIN heap \ {top.left} : heap'[x] = heap[x]
  BY <1>1, <1>7
<1>9. Shared' = Shared /\ fresh' = fresh
  BY <1>1, <1>8 DEF Shared, fresh
<1>10. Shared \subseteq DOMAIN heap /\ \A x \in Shared : heap'[x] = heap[x]
  BY <1>7, <1>8 DEF Inv, HeapOK
<1>11. HeapOK'
  <2>1. heap' \in [0..(fresh - 1) -> Int]
    BY <1>1, <1>6, <1>7 DEF Inv, HeapOK
  <2> QED  BY <1>1, <1>8, <1>9, <2>1 DEF Inv, HeapOK
<1>12. PowersExact'
  <2>1. \A x \in 0..Group : x \in Shared
    BY DEF Shared
  <2>2. \A x \in DOMAIN powers : powers[x] \in Shared
    BY DEF Shared
  <2> QED  BY <1>1, <1>10, <2>1, <2>2 DEF Inv, PowersExact
<1>13. \A k \in 1..(Len(stack) - 1) :
         \A x \in Holds(stack[k]) : x \in DOMAIN heap' \ Shared' /\ heap'[x] = heap[x]
  <2>1. \A k \in 1..(Len(stack) - 1) : Holds(stack[k]) \subseteq DOMAIN heap \ Shared
    BY <1>1, TopFacts
  <2> QED  BY <1>7, <1>8, <1>9, <2>1
<1>14. AnswerOK(src, heap', Shared', stack', A, top.left)
  <2>1. \A k \in 1..Len(stack') : top.left \notin Holds(stack'[k])
    <3>1. stack \in Seq(Frame) /\ stack' = Front(stack)
      BY <1>1 DEF Inv, StackOK, Return
    <3>2. Len(stack') = Len(stack) - 1 /\ \A k \in 1..(Len(stack) - 1) : stack'[k] = stack[k]
      BY <1>1, <3>1, FrontOf
    <3> QED  BY <1>7, <3>2
  <2> QED  BY <1>4, <1>6, <1>7, <1>8, <1>9, <2>1 DEF AnswerOK
<1> HIDE DEF A
<1> QED  BY <1>1, <1>9, <1>10, <1>11, <1>12, <1>13, <1>14, ReturnStep DEF A

\* A finished leaf has read its whole part.
LEMMA LeafReturnStep ==
    ASSUME Inv, LeafReturn
    PROVE  Inv'
<1> DEFINE A == Asked(src, stack, Len(stack) - 1)
<1>1. /\ stack # <<>> /\ top.fn = "leaf" /\ top.len = 0 /\ Return(top.value)
      /\ UNCHANGED <<src, heap, powers>>
  BY DEF LeafReturn
<1>2. top \in LeafFrame /\ LeafOK(src, heap, top, A)
  BY <1>1, TopFacts, FrameKinds DEF FrameOK
<1>3. /\ A[1] = "value" /\ A[2] \in Nat /\ A[3] \in Nat
      /\ heap[top.value] = Val(src, A[2], A[3])
  <2>1. top.from - A[2] = A[3]
    BY <1>1, <1>2 DEF LeafOK, LeafFrame
  <2> QED  BY <1>2, <2>1 DEF LeafOK
<1>4. top.value \in DOMAIN heap \ Shared /\ \A k \in 1..(Len(stack) - 1) : top.value \notin Holds(stack[k])
  <2>1. top.value \in Holds(top)
    BY <1>1 DEF Holds
  <2> QED  BY <1>1, <2>1, TopFacts
<1>5. HeapOK' /\ PowersExact' /\ Shared' = Shared
  BY <1>1, HeapSame
<1>6. AnswerOK(src, heap', Shared', stack', A, top.value)
  <2>1. \A k \in 1..Len(stack') : top.value \notin Holds(stack'[k])
    <3>1. stack \in Seq(Frame) /\ stack' = Front(stack)
      BY <1>1 DEF Inv, StackOK, Return
    <3>2. Len(stack') = Len(stack) - 1 /\ \A k \in 1..(Len(stack) - 1) : stack'[k] = stack[k]
      BY <1>1, <3>1, FrontOf
    <3> QED  BY <1>4, <3>2
  <2> QED  BY <1>1, <1>3, <1>4, <1>5, <2>1 DEF AnswerOK
<1>7. \A k \in 1..(Len(stack) - 1) :
        \A x \in Holds(stack[k]) : x \in DOMAIN heap' \ Shared' /\ heap'[x] = heap[x]
  BY <1>1, <1>5, TopFacts
<1> HIDE DEF A
<1> QED  BY <1>1, <1>5, <1>6, <1>7, ReturnStep DEF A

\* A group is joined to what the leaf has read, with the power of its length
\* from the table; only the leaf's own big.Int is written.
LEMMA LeafGroupStep ==
    ASSUME Inv, LeafGroup
    PROVE  Inv'
<1> DEFINE A == Asked(src, stack, Len(stack) - 1)
           value == heap[top.value] * heap[top.group] + decodeLargeGroup(top.from, top.group)
           frame == Leaf(top.from + top.group, top.len - top.group, Group, top.value)
<1>1. /\ stack # <<>> /\ top.fn = "leaf" /\ top.len > 0 /\ src' = src /\ powers' = powers
      /\ heap' = [heap EXCEPT ![top.value] = value]
      /\ stack' = Append(Front(stack), frame)
  BY DEF LeafGroup
<1>2. top \in LeafFrame /\ LeafOK(src, heap, top, A)
  BY <1>1, TopFacts, FrameKinds DEF FrameOK
<1>3. top.from \in Nat /\ top.len \in Nat /\ top.group \in Nat /\ top.value \in Int
  BY <1>2 DEF LeafFrame
<1>4. PICK q \in Nat : top.len = top.group + q * Group
  BY <1>1, <1>2, <1>3 DEF LeafOK
<1>5. /\ A[1] = "value" /\ A[2] \in Nat /\ A[3] \in Nat
      /\ A[2] <= top.from /\ top.from + top.len = A[2] + A[3] /\ A[2] + A[3] <= Len(src)
      /\ heap[top.value] = Val(src, A[2], top.from - A[2])
      /\ top.group \in 1..Group
  BY <1>1, <1>2, <1>3 DEF LeafOK
<1> DEFINE rest == q * Group
<1>6. rest \in Nat /\ top.len = top.group + rest
  BY <1>4, Constants
<1>7. rest # 0 => q - 1 \in Nat /\ rest = Group + (q - 1) * Group
  BY Constants
<1> HIDE DEF rest
<1>8. src \in Seq(0..(Base - 1)) /\ Len(src) \in Nat
  BY SrcDigits DEF Inv
<1> HIDE DEF A
<1>21. /\ top.from + top.group <= Len(src) /\ top.from - A[2] \in Nat /\ A[2] + (top.from - A[2]) = top.from
       /\ A[2] + (top.from - A[2]) + top.group <= Len(src)
       /\ (top.from + top.group) - A[2] = (top.from - A[2]) + top.group
       /\ A[2] <= top.from + top.group /\ (top.from + top.group) + rest = A[2] + A[3]
       /\ top.from + top.group \in Nat /\ top.len - top.group = rest
  <2>1. /\ A[2] \in Nat /\ A[3] \in Nat /\ A[2] <= top.from
        /\ top.from + top.len = A[2] + A[3] /\ A[2] + A[3] <= Len(src)
    BY <1>5
  <2> DEFINE a == A[2]  b == A[3]  from == top.from  len == top.len  group == top.group  n == Len(src)
  <2>2. /\ a \in Nat /\ b \in Nat /\ from \in Nat /\ len \in Nat /\ group \in Nat /\ rest \in Nat /\ n \in Nat
        /\ a <= from /\ from + len = a + b /\ a + b <= n /\ len = group + rest
    BY <1>3, <1>6, <1>8, <2>1
  <2> HIDE DEF a, b, from, len, group, n
  <2>3. /\ from + group <= n /\ from - a \in Nat /\ a + (from - a) = from
        /\ a + (from - a) + group <= n
        /\ (from + group) - a = (from - a) + group
        /\ a <= from + group /\ (from + group) + rest = a + b
        /\ from + group \in Nat /\ len - group = rest
    BY <2>2
  <2> QED  BY <2>3, Zenon DEF a, b, from, len, group, n
<1>9. value = Val(src, A[2], (top.from - A[2]) + top.group) /\ value \in Int
  <2>1. heap[top.group] = Pow(Base, top.group)
    <3>1. top.group \in 0..Group
      BY <1>5, Constants
    <3> QED  BY <3>1 DEF Inv, PowersExact
  <2>2. decodeLargeGroup(top.from, top.group) = Val(src, top.from, top.group)
    <3>1. top.group <= Group /\ top.from + top.group <= Len(src)
      BY <1>5, <1>21, Constants
    <3> QED  BY <1>3, <1>8, <3>1, GroupExact
  <2> DEFINE m == top.from - A[2]
  <2>3. m \in Nat /\ A[2] + m = top.from /\ A[2] + m + top.group <= Len(src)
    BY <1>21, Zenon
  <2> HIDE DEF m
  <2>4. Val(src, A[2], m + top.group) = Val(src, A[2], m) * Pow(Base, top.group) + Val(src, A[2] + m, top.group)
    BY <1>3, <1>5, <1>8, <2>3, ValJoin
  <2>5. Val(src, A[2], m + top.group) \in Int
    <3>1. m + top.group \in Nat /\ A[2] + (m + top.group) <= Len(src)
      <4>1. ASSUME NEW a \in Nat, NEW b \in Nat, NEW c \in Nat, a + b + c <= Len(src)
            PROVE  b + c \in Nat /\ a + (b + c) <= Len(src)
        BY <1>8, <4>1
      <4>2. A[2] \in Nat
        BY <1>5
      <4> QED  BY <1>3, <2>3, <4>1, <4>2, Zenon
    <3> QED  BY <1>5, <1>8, <3>1, ValBound
  <2>6. heap[top.value] = Val(src, A[2], m)
    BY <1>5 DEF m
  <2>7. value = Val(src, A[2], m + top.group)
    BY <2>1, <2>2, <2>3, <2>4, <2>6
  <2> QED  BY <2>5, <2>7 DEF m
<1> HIDE DEF value
<1>10. top.value \in DOMAIN heap \ Shared /\ \A k \in 1..(Len(stack) - 1) : top.value \notin Holds(stack[k])
  <2>1. top.value \in Holds(top)
    BY <1>1 DEF Holds
  <2> QED  BY <1>1, <2>1, TopFacts
<1>11. /\ DOMAIN heap' = DOMAIN heap /\ heap'[top.value] = value
       /\ \A x \in DOMAIN heap \ {top.value} : heap'[x] = heap[x]
  BY <1>1, <1>10
<1>12. Shared' = Shared /\ fresh' = fresh
  BY <1>1, <1>11 DEF Shared, fresh
<1>13. Shared \subseteq DOMAIN heap /\ \A x \in Shared : heap'[x] = heap[x]
  BY <1>10, <1>11 DEF Inv, HeapOK
<1>14. HeapOK'
  <2>1. heap' \in [0..(fresh - 1) -> Int]
    BY <1>1, <1>9, <1>10 DEF Inv, HeapOK
  <2> QED  BY <1>1, <1>11, <1>12, <2>1 DEF Inv, HeapOK
<1>15. PowersExact'
  <2>1. \A x \in 0..Group : x \in Shared
    BY DEF Shared
  <2>2. \A x \in DOMAIN powers : powers[x] \in Shared
    BY DEF Shared
  <2> QED  BY <1>1, <1>13, <2>1, <2>2 DEF Inv, PowersExact
<1>16. /\ frame \in Frame /\ frame.fn = "leaf" /\ frame.value = top.value /\ Holds(frame) = {top.value}
       /\ frame.from = top.from + top.group /\ frame.len = rest /\ frame.group = Group
  <2>1. top.from + top.group \in Nat /\ top.len - top.group = rest /\ Group \in Nat
    BY <1>21, Constants
  <2>2. frame \in Frame
    BY <1>3, <1>6, <2>1, NewFrames
  <2> QED  BY <2>1, <2>2 DEF Leaf, Holds
<1> HIDE DEF frame
<1>17. LeafOK(src, heap', frame, A)
  <2>1. frame.from - A[2] = (top.from - A[2]) + top.group
    BY <1>16, <1>21, Zenon
  <2>2. A[2] <= frame.from /\ frame.from + frame.len = A[2] + A[3]
    BY <1>16, <1>21, Zenon
  <2>3. frame.len # 0 => frame.group \in 1..Group /\ \E p \in Nat : frame.len = frame.group + p * Group
    BY <1>7, <1>16, Constants
  <2> QED  BY <1>5, <1>9, <1>11, <1>16, <2>1, <2>2, <2>3 DEF LeafOK
<1>18. ~Waiting(frame) /\ FrameOK(src, heap', Shared', frame, A)
  BY <1>16, <1>17 DEF Waiting, FrameOK
<1>19. \A k \in 1..(Len(stack) - 1) :
         /\ \A a \in Holds(stack[k]) : a \in DOMAIN heap' \ Shared' /\ heap'[a] = heap[a]
         /\ Holds(frame) \cap Holds(stack[k]) = {}
  <2>1. \A k \in 1..(Len(stack) - 1) : Holds(stack[k]) \subseteq DOMAIN heap \ Shared
    BY <1>1, TopFacts
  <2> QED  BY <1>10, <1>11, <1>12, <1>16, <2>1
<1>20. Holds(frame) \subseteq DOMAIN heap' \ Shared'
  BY <1>10, <1>11, <1>12, <1>16
<1> HIDE DEF A
<1> QED  BY <1>1, <1>12, <1>13, <1>14, <1>15, <1>16, <1>18, <1>19, <1>20, ReplaceStep DEF A

-----------------------------------------------------------------------------
(* The memo *)

\* When the running frame is not a power, none is.
LEMMA NoPowers ==
    ASSUME Inv, MemoOK, stack # <<>>, top.fn # "power"
    PROVE  \A k \in 1..Len(stack) : stack[k].fn # "power"
<1>1. top = stack[Len(stack)] /\ Len(stack) \in Nat \ {0}
  BY TopFrame DEF Inv, StackOK
<1> SUFFICES ASSUME NEW k \in 1..Len(stack), stack[k].fn = "power" PROVE FALSE
  OBVIOUS
<1>2. k # Len(stack)
  BY <1>1
<1>3. k < Len(stack) /\ Len(stack) \in 1..Len(stack)
  BY <1>1, <1>2
<1> QED  BY <1>1, <1>3 DEF MemoOK

\* A call of a power is for a smaller one, and the memo is as it was.
LEMMA MemoCall ==
    ASSUME Inv, MemoOK, stack # <<>>, powers' = powers,
           NEW frame \in Frame, NEW callee \in Frame, Call(frame, callee),
           frame.fn = top.fn, callee.fn \in {"tree", "power"},
           callee.fn = "power" => callee.at = "enter",
           top.fn = "power" => /\ frame.exponent = top.exponent /\ top.exponent \notin DOMAIN powers
                               /\ callee.fn = "power" /\ callee.exponent < top.exponent
    PROVE  MemoOK'
<1> DEFINE n == Len(stack)
           st == Append(Front(stack), frame) \o <<callee>>
<1>1. stack \in Seq(Frame) /\ stack' = st /\ top = stack[n]
  BY TopFrame DEF Inv, StackOK, Call
<1>2. /\ n \in Nat \ {0} /\ Len(st) = n + 1 /\ st[n] = frame /\ st[n + 1] = callee
      /\ \A k \in 1..(n - 1) : st[k] = stack[k]
  BY <1>1, Pushed
<1> HIDE DEF st
<1>3. CASE top.fn # "power"
  <2>1. \A k \in 1..n : stack[k].fn # "power"
    BY <1>3, NoPowers
  <2>2. \A k \in 1..n : st[k].fn # "power"
    BY <1>2, <1>3, <2>1
  <2>3. ASSUME NEW k \in 1..(n + 1), st[k].fn = "power" PROVE k = n + 1
    BY <1>2, <2>2, <2>3
  <2> HIDE DEF n
  <2> QED  BY <1>1, <1>2, <2>3 DEF MemoOK
<1>4. CASE top.fn = "power"
  <2>1. \A k \in 1..n : st[k].fn = stack[k].fn /\ (st[k].fn = "power" => st[k].exponent = stack[k].exponent)
    BY <1>1, <1>2, <1>4
  <2>2. ASSUME NEW k \in 1..(n + 1), st[k].fn = "power", st[k].at # "enter"
        PROVE  st[k].exponent \notin DOMAIN powers
    <3>1. k = n \/ k \in 1..(n - 1)
      BY <1>2, <1>4, <2>2
    <3>2. CASE k = n
      BY <1>2, <1>4, <3>2
    <3>3. CASE k \in 1..(n - 1)
      <4>1. k \in 1..n /\ st[k] = stack[k]
        BY <1>2, <3>3
      <4> QED  BY <2>2, <4>1 DEF MemoOK
    <3> QED  BY <3>1, <3>2, <3>3
  <2>3. ASSUME NEW k \in 1..(n + 1), NEW l \in 1..(n + 1), k < l, st[k].fn = "power"
        PROVE  st[l].fn = "power" /\ st[l].exponent < st[k].exponent
    <3>1. k \in 1..n
      BY <1>2, <2>3
    <3>2. CASE l \in 1..n
      <4>1. stack[l].fn = "power" /\ stack[l].exponent < stack[k].exponent
        BY <2>1, <2>3, <3>1, <3>2 DEF MemoOK
      <4> QED  BY <2>1, <2>3, <3>1, <3>2, <4>1
    <3>3. CASE l = n + 1
      <4>1. CASE k = n
        BY <1>1, <1>2, <1>4, <3>3, <4>1
      <4>2. CASE k # n
        <5>1. k < n /\ n \in 1..n
          BY <1>2, <3>1, <4>2
        <5>2. stack[n].exponent < stack[k].exponent
          BY <2>1, <2>3, <3>1, <5>1 DEF MemoOK
        <5>3. callee.exponent < stack[n].exponent /\ callee.fn = "power"
          BY <1>1, <1>4
        <5>4. callee.exponent \in Nat /\ stack[n].exponent \in Nat /\ stack[k].exponent \in Nat
          <6>1. stack[n] \in Frame /\ stack[k] \in Frame /\ stack[k].fn = "power" /\ stack[n].fn = "power"
            BY <1>1, <1>4, <2>1, <2>3, <3>1, <5>1
          <6> QED  BY <5>3, <6>1, FrameKinds DEF PowerFrame
        <5>5. st[k].exponent = stack[k].exponent
          BY <2>1, <2>3, <3>1
        <5> QED  BY <1>2, <3>3, <5>2, <5>3, <5>4, <5>5
      <4> QED  BY <4>1, <4>2
    <3> QED  BY <1>2, <3>2, <3>3
  <2> HIDE DEF n
  <2> QED  BY <1>1, <1>2, <2>2, <2>3 DEF MemoOK
<1> QED  BY <1>3, <1>4

\* A leaf replaces the frame that has become it.
LEMMA MemoReplace ==
    ASSUME Inv, MemoOK, stack # <<>>, top.fn # "power", powers' = powers,
           NEW frame \in Frame, frame.fn = "leaf", stack' = Append(Front(stack), frame)
    PROVE  MemoOK'
<1> DEFINE n == Len(stack)
<1>1. stack \in Seq(Frame)
  BY DEF Inv, StackOK
<1>2. /\ n \in Nat \ {0} /\ Len(stack') = n /\ stack'[n] = frame
      /\ \A k \in 1..(n - 1) : stack'[k] = stack[k]
  BY <1>1, Replaced
<1>3. \A k \in 1..n : stack[k].fn # "power"
  BY NoPowers
<1>4. \A k \in 1..n : stack'[k].fn # "power"
  BY <1>2, <1>3
<1> HIDE DEF n
<1> QED  BY <1>2, <1>4 DEF MemoOK

\* A call that returns leaves the callers, whose powers are larger than the one
\* it may have added.
LEMMA MemoReturn ==
    ASSUME Inv, MemoOK, stack # <<>>, stack' = Front(stack),
           powers' = powers \/ (top.fn = "power" /\ DOMAIN powers' = DOMAIN powers \cup {top.exponent})
    PROVE  MemoOK'
<1> DEFINE n == Len(stack)
<1>1. stack \in Seq(Frame) /\ top = stack[n]
  BY TopFrame DEF Inv, StackOK
<1>2. /\ n \in Nat \ {0} /\ Len(stack') = n - 1
      /\ \A k \in 1..(n - 1) : stack'[k] = stack[k]
  BY <1>1, FrontOf
<1>3. \A k \in 1..(n - 1) : k \in 1..n
  BY <1>2
<1>4. ASSUME NEW k \in 1..(n - 1), stack[k].fn = "power", stack[k].at # "enter"
      PROVE  stack[k].exponent \notin DOMAIN powers'
  <2>1. stack[k].exponent \notin DOMAIN powers
    BY <1>3, <1>4 DEF MemoOK
  <2>2. k < n /\ n \in 1..n
    BY <1>2
  <2>3. top.fn = "power" /\ top.exponent < stack[k].exponent
    BY <1>1, <1>3, <1>4, <2>2 DEF MemoOK
  <2>4. top.exponent \in Nat /\ stack[k].exponent \in Nat
    <3>1. top \in Frame /\ stack[k] \in Frame
      BY <1>1, <1>2, <1>3
    <3> QED  BY <1>4, <2>3, <3>1, FrameKinds DEF PowerFrame
  <2>5. top.exponent # stack[k].exponent
    BY <2>3, <2>4
  <2> QED  BY <2>1, <2>5
<1>5. \A k, l \in 1..(n - 1) :
        k < l /\ stack[k].fn = "power" => stack[l].fn = "power" /\ stack[l].exponent < stack[k].exponent
  BY <1>3 DEF MemoOK
<1> HIDE DEF n
<1> QED  BY <1>2, <1>4, <1>5 DEF MemoOK

\* The parts of a power are smaller than it.
LEMMA Halves ==
    ASSUME NEW e \in Nat, e > Group
    PROVE  /\ e \div 2 \in Nat /\ e \div 2 < e
           /\ e - e \div 2 \in Nat /\ e - e \div 2 < e
<1>1. Group >= 1 /\ Group \in Nat
  BY Constants
<1> QED  BY <1>1

\* The memo is in order after every step.
LEMMA MemoStep ==
    ASSUME Inv, MemoOK, [Next]_vars
    PROVE  MemoOK'
<1>1. CASE EnterLeaf
  <2> DEFINE group == IF top.len % Group = 0 THEN Group ELSE top.len % Group
             frame == Leaf(top.from, top.len, group, fresh)
  <2>1. stack # <<>> /\ top.fn = "tree" /\ powers' = powers /\ stack' = Append(Front(stack), frame)
    BY <1>1 DEF EnterLeaf, Running
  <2>2. top.from \in Nat /\ top.len \in Nat
    BY <2>1, TopFacts, FrameKinds DEF TreeFrame
  <2>3. group \in Nat /\ fresh \in Int
    BY <2>2, Constants DEF Inv, HeapOK
  <2>4. frame.fn = "leaf"
    BY DEF Leaf
  <2>5. frame \in Frame
    <3> HIDE DEF group
    <3> QED  BY <2>2, <2>3, NewFrames
  <2> HIDE DEF frame
  <2> QED  BY <2>1, <2>4, <2>5, MemoReplace
<1>2. CASE Left
  <2> DEFINE frame == [top EXCEPT !.at = "left"]
             callee == Tree(top.from, split(top.len))
  <2>1. stack # <<>> /\ top.fn = "tree" /\ Call(frame, callee) /\ powers' = powers
    BY <1>2 DEF Left, Running
  <2>2. top \in TreeFrame
    BY <2>1, TopFacts, FrameKinds
  <2>3. frame \in Frame /\ frame.fn = "tree"
    BY <2>2 DEF Frame, TreeFrame
  <2>4. callee \in Frame /\ callee.fn = "tree"
    <3>1. top.from \in Nat /\ split(top.len) \in Nat
      BY <2>2, SplitParts DEF TreeFrame
    <3> QED  BY <3>1, NewFrames DEF Tree
  <2> HIDE DEF frame, callee
  <2> QED  BY <2>1, <2>3, <2>4, MemoCall
<1>3. CASE Right
  <2> DEFINE frame == [top EXCEPT !.at = "right", !.left = ret]
             callee == Tree(top.from + split(top.len), top.len - split(top.len))
  <2>1. stack # <<>> /\ top.fn = "tree" /\ Call(frame, callee) /\ powers' = powers
    BY <1>3 DEF Right, Running
  <2>2. stack' \in Seq(Frame) /\ stack \in Seq(Frame)
    BY <1>3, RightStep DEF Inv, StackOK
  <2>3. frame \in Frame /\ callee \in Frame
    BY <2>1, <2>2, PushedBoth DEF Call
  <2>4. frame.fn = top.fn /\ callee.fn = "tree"
    <3>1. top \in TreeFrame
      BY <2>1, TopFacts, FrameKinds
    <3> QED  BY <3>1 DEF Tree, TreeFrame
  <2> HIDE DEF frame, callee
  <2> QED  BY <2>1, <2>3, <2>4, MemoCall
<1>4. CASE RightPower
  <2> DEFINE frame == [top EXCEPT !.at = "power", !.right = ret]
             callee == Power(rightLen(top.len))
  <2>1. stack # <<>> /\ top.fn = "tree" /\ Call(frame, callee) /\ powers' = powers
    BY <1>4 DEF RightPower, Running
  <2>2. stack' \in Seq(Frame) /\ stack \in Seq(Frame)
    BY <1>4, RightPowerStep DEF Inv, StackOK
  <2>3. frame \in Frame /\ callee \in Frame
    BY <2>1, <2>2, PushedBoth DEF Call
  <2>4. frame.fn = top.fn /\ callee.fn = "power" /\ callee.at = "enter"
    <3>1. top \in TreeFrame
      BY <2>1, TopFacts, FrameKinds
    <3> QED  BY <3>1 DEF Power, TreeFrame
  <2> HIDE DEF frame, callee
  <2> QED  BY <2>1, <2>3, <2>4, MemoCall
<1>5. CASE PowerFirst
  <2> DEFINE frame == [top EXCEPT !.at = "first"]
             callee == Power(top.exponent \div 2)
  <2>1. /\ stack # <<>> /\ top.fn = "power" /\ Call(frame, callee) /\ powers' = powers
        /\ top.exponent > Group /\ top.exponent \notin DOMAIN powers
    BY <1>5 DEF PowerFirst, Running
  <2>2. stack' \in Seq(Frame) /\ stack \in Seq(Frame)
    BY <1>5, PowerFirstStep DEF Inv, StackOK
  <2>3. frame \in Frame /\ callee \in Frame
    BY <2>1, <2>2, PushedBoth DEF Call
  <2>4. top \in PowerFrame
    BY <2>1, TopFacts, FrameKinds
  <2>5. frame.fn = top.fn /\ frame.exponent = top.exponent /\ callee.fn = "power" /\ callee.at = "enter"
    BY <2>4 DEF Power, PowerFrame
  <2>6. callee.exponent < top.exponent
    BY <2>1, <2>4, Halves DEF Power, PowerFrame
  <2> HIDE DEF frame, callee
  <2> QED  BY <2>1, <2>3, <2>5, <2>6, MemoCall
<1>6. CASE PowerSecond
  <2> DEFINE frame == [top EXCEPT !.at = "second", !.first = ret]
             callee == Power(top.exponent - top.exponent \div 2)
  <2>1. /\ stack # <<>> /\ top.fn = "power" /\ top.at = "first" /\ Call(frame, callee) /\ powers' = powers
    BY <1>6 DEF PowerSecond, Running
  <2>2. stack' \in Seq(Frame) /\ stack \in Seq(Frame)
    BY <1>6, PowerSecondStep DEF Inv, StackOK
  <2>3. frame \in Frame /\ callee \in Frame
    BY <2>1, <2>2, PushedBoth DEF Call
  <2>4. top \in PowerFrame /\ top.exponent > Group
    BY <2>1, TopFacts, FrameKinds DEF FrameOK, PowerOK
  <2>5. frame.fn = top.fn /\ frame.exponent = top.exponent /\ callee.fn = "power" /\ callee.at = "enter"
    BY <2>4 DEF Power, PowerFrame
  <2>6. callee.exponent < top.exponent
    BY <2>1, <2>4, Halves DEF Power, PowerFrame
  <2>7. top.exponent \notin DOMAIN powers
    <3>1. top = stack[Len(stack)] /\ Len(stack) \in 1..Len(stack)
      BY <2>1, <2>2, TopFrame
    <3> QED  BY <2>1, <3>1 DEF MemoOK
  <2> HIDE DEF frame, callee
  <2> QED  BY <2>1, <2>3, <2>5, <2>6, <2>7, MemoCall
<1>7. CASE Combine
  BY <1>7, MemoReturn DEF Combine, Running, Return
<1>8. CASE PowerKnown
  BY <1>8, MemoReturn DEF PowerKnown, Running, Return
<1>9. CASE PowerStore
  BY <1>9, MemoReturn DEF PowerStore, Running, Return
<1>10. CASE LeafGroup
  <2> DEFINE frame == Leaf(top.from + top.group, top.len - top.group, Group, top.value)
  <2>1. stack # <<>> /\ top.fn = "leaf" /\ powers' = powers /\ stack' = Append(Front(stack), frame)
    BY <1>10 DEF LeafGroup
  <2>2. stack' \in Seq(Frame) /\ stack \in Seq(Frame)
    BY <1>10, LeafGroupStep DEF Inv, StackOK
  <2>3. frame \in Frame
    BY <2>1, <2>2, PushedOne
  <2>4. frame.fn = "leaf"
    BY DEF Leaf
  <2> HIDE DEF frame
  <2> QED  BY <2>1, <2>3, <2>4, MemoReplace
<1>11. CASE LeafReturn
  BY <1>11, MemoReturn DEF LeafReturn, Return
<1>12. CASE UNCHANGED vars
  BY <1>12 DEF vars, MemoOK
<1> QED
  BY <1>1, <1>2, <1>3, <1>4, <1>5, <1>6, <1>7, <1>8, <1>9, <1>10, <1>11, <1>12 DEF Next, Terminated

-----------------------------------------------------------------------------
(* The theorems *)

\* The call of the tree for the whole string, with the table of powers.
LEMMA InitOK ==
    ASSUME Init
    PROVE  Inv /\ MemoOK
<1>1. /\ src \in Seq(0..(Base - 1)) /\ heap = largePow58 /\ powers = [e \in {} |-> 0]
      /\ stack = <<Tree(0, Len(src))>>
  BY LargeAssumption DEF Init
<1>2. Len(src) \in Nat
  BY <1>1
<1>3. DOMAIN heap = 0..Group /\ \A e \in 0..Group : heap[e] = Pow(Base, e)
  BY <1>1 DEF largePow58
<1>4. DOMAIN powers = {} /\ Shared = 0..Group
  BY <1>1 DEF Shared
<1>5. fresh = Group + 1
  <2>1. Cardinality(0..Group) = Group - 0 + 1
    <3>1. 0 \in Int /\ Group \in Int /\ 0 <= Group
      BY Constants
    <3> QED  BY <3>1, FS_Interval
  <2> QED  BY <1>3, <2>1, Constants DEF fresh
<1>6. HeapOK
  <2>1. fresh \in Nat /\ fresh > Group /\ 0..(fresh - 1) = 0..Group
    BY <1>5, Constants
  <2>2. \A e \in 0..Group : Pow(Base, e) \in Int
    <3>1. \A e \in 0..Group : e \in Nat
      OBVIOUS
    <3> QED  BY <3>1, Constants, PowInt
  <2>3. heap \in [0..Group -> Int]
    BY <1>1, <1>3, <2>2 DEF largePow58
  <2> QED  BY <1>3, <1>4, <2>1, <2>3 DEF HeapOK
<1>7. PowersExact
  BY <1>3, <1>4 DEF PowersExact
<1> DEFINE F == Tree(0, Len(src))
<1>8. /\ F \in Frame /\ F.fn = "tree" /\ F.at = "enter" /\ F.from = 0 /\ F.len = Len(src)
      /\ ~Waiting(F) /\ Holds(F) = {}
  <2>1. F \in Frame
    BY <1>2, NewFrames
  <2> QED  BY <2>1 DEF Tree, Waiting, Holds
<1>9. stack \in Seq(Frame) /\ Len(stack) = 1 /\ stack[1] = F /\ top = F /\ stack # <<>>
  BY <1>1, <1>8 DEF top, Last
<1> HIDE DEF F
<1>10. FrameOK(src, heap, Shared, F, Asked(src, stack, 0))
  BY <1>2, <1>8 DEF FrameOK, TreeOK, Asked
<1>11. StackOK
  <2>1. \A k \in 1..Len(stack) : k = 1 /\ k - 1 = 0
    BY <1>9
  <2>2. \A k \in 1..(Len(stack) - 1) : FALSE
    BY <1>9
  <2> QED  BY <1>9, <1>10, <2>1, <2>2 DEF StackOK
<1>12. Separate
  BY <1>8, <1>9 DEF Separate
<1>13. RetOK
  BY <1>8, <1>9 DEF RetOK
<1>14. MemoOK
  BY <1>4, <1>8, <1>9 DEF MemoOK
<1> QED  BY <1>1, <1>6, <1>7, <1>11, <1>12, <1>13, <1>14 DEF Inv

\* Every step keeps the invariant.
LEMMA InvStep ==
    ASSUME Inv, MemoOK, [Next]_vars
    PROVE  Inv'
<1>1. CASE UNCHANGED vars
  <2>1. /\ src' = src /\ heap' = heap /\ powers' = powers /\ stack' = stack /\ ret' = ret
    BY <1>1 DEF vars
  <2>2. fresh' = fresh /\ Shared' = Shared /\ top' = top
    BY <2>1 DEF fresh, Shared, top
  <2>3. HeapOK' /\ PowersExact'
    BY <2>1, HeapSame
  <2> QED  BY <2>1, <2>2, <2>3 DEF Inv, StackOK, Separate, RetOK
<1> QED
  BY <1>1, EnterLeafStep, LeftStep, RightStep, RightPowerStep, CombineStep, PowerKnownStep, PowerFirstStep,
     PowerSecondStep, PowerStoreStep, LeafGroupStep, LeafReturnStep DEF Next, Terminated

\* The invariant holds throughout.
THEOREM Invariance == Spec => [](Inv /\ MemoOK)
<1>1. Init => Inv /\ MemoOK
  BY InitOK
<1>2. Inv /\ MemoOK /\ [Next]_vars => (Inv /\ MemoOK)'
  BY InvStep, MemoStep
<1> QED  BY <1>1, <1>2, PTL DEF Spec

\* For every string, base, group and leaf size: the table that all calls share
\* and the memo of this call keep the exact powers that joins multiply by
\* (largePow58 and the powers map of largePower58).
THEOREM PowersAlwaysExact == Spec => []PowersExact
<1>1. Inv => PowersExact
  BY DEF Inv
<1> QED  BY <1>1, Invariance, PTL

\* For every string, base, group and leaf size: when decodeLargeTree returns,
\* the big.Int it returns is the value of the whole string.
THEOREM LargeResultExact == Spec => []ResultExact
<1>1. Inv => ResultExact
  <2> SUFFICES ASSUME Inv, stack = <<>>
               PROVE  heap[ret] = Value([k \in 0..(Len(src) - 1) |-> src[k + 1]], Len(src), Base)
    BY DEF ResultExact
  <2>1. Asked(src, stack, Len(stack)) = <<"value", 0, Len(src)>>
    BY DEF Asked
  <2>2. heap[ret] = Val(src, 0, Len(src))
    BY <2>1 DEF Inv, RetOK, AnswerOK
  <2>3. [k \in 0..(Len(src) - 1) |-> src[0 + k + 1]] = [k \in 0..(Len(src) - 1) |-> src[k + 1]]
    <3>1. \A k \in 0..(Len(src) - 1) : 0 + k + 1 = k + 1
      OBVIOUS
    <3> QED  BY <3>1
  <2> QED  BY <2>2, <2>3 DEF Val, Part
<1> QED  BY <1>1, Invariance, PTL
=============================================================================
