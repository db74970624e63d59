------------------------- MODULE FixedEncodeProofs -------------------------
(***************************************************************************)
(* The fixed-size encoders are correct for all radices, all numbers of     *)
(* words and limbs and all inputs: no column sum and no carry wraps around *)
(* (ValuePreserved), every limb ends up below R1div (LimbsReduced), and    *)
(* each path returns the base58 form of its input (ResultCorrect).         *)
(*                                                                         *)
(* The invariant bounds, at every step, each column by the largest sum the *)
(* rows read so far can make, and says what the carry chains have left to  *)
(* do; the assumption on the column sums turns the bounds into "fits".     *)
(*                                                                         *)
(* The last section is about the numbers of the code itself: where the     *)
(* model divides, the kernels multiply by rounded reciprocals.             *)
(***************************************************************************)
EXTENDS FixedEncode, RadixProofs

-----------------------------------------------------------------------------
(* The inductive invariant *)

Typed ==
    /\ src \in Inputs /\ path \in Paths
    /\ pc \in {"matmul", "reduce", "carry", "patch", "ripple", "render", "done"}
    /\ row \in 0..Words
    /\ im \in [0..(Limbs - 1) -> Nat]
    /\ i \in 0..(Limbs - 1)
    /\ part \in Nat /\ carry \in Nat /\ lowCarry \in Nat

\* Column Hot has been reduced, with a carry into the column before it.
Reduced == path # "full" /\ pc = "matmul" /\ row >= HeadWords

\* What column Hot and its second sum are at most.
TailMax(rows) == ColumnMax(Hot, rows) - ColumnMax(Hot, HeadWords)
HotMax ==
    IF Reduced THEN R1div + TailMax(row)
    ELSE ColumnMax(Hot, IF row < HeadWords THEN row ELSE HeadWords)
PartMax == IF path = "full" /\ row >= HeadWords THEN TailMax(row) ELSE 0

\* While the columns are summed.
Summing ==
    pc \in {"matmul", "reduce"} =>
        /\ row < Words /\ i = Limbs - 1
        /\ carry = 0 /\ lowCarry = 0
        /\ im[0] = 0
        /\ pc = "reduce" => row = HeadWords /\ path # "full"
        /\ \A k \in 1..(Limbs - 1) : k # Hot =>
             im[k] <= ColumnMax(k, row) + (IF k = Hot - 1 /\ Reduced THEN CarryMax ELSE 0)
        /\ im[Hot] <= HotMax
        /\ part <= PartMax

\* While the carry chain runs: limbs behind i are done, columns up to i wait.
Carrying ==
    pc = "carry" =>
        /\ row = Words
        /\ im[0] = 0
        /\ \A k \in (i + 1)..(Limbs - 1) : im[k] < R1div
        /\ \A k \in 1..i : k # Hot =>
             im[k] <= ColumnMax(k, Words) + (IF k = Hot - 1 /\ path # "full" THEN CarryMax ELSE 0)
        /\ Hot <= i => im[Hot] + CarryMax < Wrap
        /\ part + R1div < Wrap
        /\ part # 0 => path = "full" /\ i >= Hot
        /\ carry <= IF i = Hot - 1 /\ path = "full" THEN 2 * CarryMax ELSE CarryMax
        /\ lowCarry # 0 => path = "full" /\ i < Half
        /\ lowCarry <= Pow(R1div, 2)

\* Once the first limb is reached all limbs are below R1div, and stay there.
Finishing ==
    pc \in {"patch", "ripple", "render", "done"} =>
        /\ row = Words
        /\ \A k \in 0..(Limbs - 1) : im[k] < R1div
        /\ part = 0
        /\ pc = "patch" => path = "full" /\ carry = 0 /\ i = 0 /\ lowCarry <= Pow(R1div, 2)
        /\ pc # "patch" => lowCarry = 0
        /\ pc = "ripple" => path = "full" /\ carry <= 1 /\ i <= Half - 3
        /\ pc \in {"render", "done"} => carry = 0

Rendered == \A k \in DOMAIN out : \E d \in 0..(Base - 1) : out[k] = base58Chars[d]

Inv ==
    /\ Typed /\ Summing /\ Carrying /\ Finishing
    /\ Rendered /\ ValuePreserved /\ ResultCorrect
-----------------------------------------------------------------------------
(* Constants *)

\* The radices are positive, the columns named in the code exist.
LEMMA Constants ==
    /\ R1div \in Nat \ {0} /\ WordBase \in Nat \ {0} /\ Wrap \in Nat \ {0}
    /\ Words \in Nat \ {0} /\ HeadWords \in 1..Words
    /\ Limbs \in Nat /\ Limbs > 3
    /\ Hot = Limbs - 2 /\ Hot \in 2..(Limbs - 2)
    /\ CarryMax \in Nat
    /\ Half \in 1..(Limbs - 1)
<1>1. R1div \in Nat \ {0} /\ WordBase \in Nat \ {0}
  BY RadixAssumption, PowPos DEF R1div, WordBase
<1>2. Wrap \in Nat \ {0} /\ Words \in Nat \ {0} /\ HeadWords \in 1..Words
  BY RadixAssumption
<1>3. Limbs \in Nat /\ Limbs > 3
  BY RadixAssumption
<1>4. Hot = Limbs - 2 /\ Hot \in 2..(Limbs - 2)
  BY <1>3 DEF Hot
<1>5. CarryMax \in Nat
  <2>1. Wrap - 1 \in Nat
    BY <1>2
  <2> QED  BY <1>1, <2>1, DivNat DEF CarryMax
<1>6. Half \in 1..(Limbs - 1)
  BY <1>3 DEF Half
<1> QED  BY <1>1, <1>2, <1>3, <1>4, <1>5, <1>6

\* What the "full" path asks for in addition.
LEMMA HalfFacts ==
    ASSUME "full" \in Paths
    PROVE  Half \in 3..(Limbs - 3)
BY RadixAssumption DEF Half

\* Table entries are natural numbers.
LEMMA TableNat ==
    ASSUME NEW j \in 0..(Words - 1), NEW k \in 1..(Limbs - 1)
    PROVE  encTable[j][k - 1] \in Nat
<1>1. k - 1 \in 0..(Limbs - 2) /\ Words - 1 - j \in Nat /\ Limbs - 1 \in Nat
  BY Constants
<1>2. encTable[j][k - 1] = Digit(Pow(WordBase, Words - 1 - j), k - 1, Limbs - 1, R1div)
  BY <1>1 DEF encTable
<1>3. Pow(WordBase, Words - 1 - j) \in Nat
  BY <1>1, Constants, PowPos
<1>4. k - 1 \in 0..((Limbs - 1) - 1)
  BY <1>1, Constants
<1>5. Digit(Pow(WordBase, Words - 1 - j), k - 1, Limbs - 1, R1div) \in 0..(R1div - 1)
  BY <1>1, <1>3, <1>4, Constants, DigitRange
<1> QED  BY <1>2, <1>5, Constants

\* A row of the table, read in base R1div, is the weight of its word.
LEMMA RowValue ==
    ASSUME NEW j \in 0..(Words - 1), NEW t,
           t[0] = 0, \A k \in 1..(Limbs - 1) : t[k] = encTable[j][k - 1]
    PROVE  Value(t, Limbs, R1div) = Pow(WordBase, Words - 1 - j)
<1> DEFINE x == Pow(WordBase, Words - 1 - j)
<1>1. Words - 1 - j \in Nat /\ Words - 1 \in Nat /\ Words - 1 - j <= Words - 1
  BY Constants
<1>2. x \in Nat /\ x < Pow(R1div, Limbs - 1)
  <2>1. x \in Nat /\ Pow(WordBase, Words - 1) \in Nat
    BY <1>1, Constants, PowPos
  <2>2. x <= Pow(WordBase, Words - 1)
    BY <1>1, Constants, PowMonotone
  <2>3. Limbs - 1 \in Nat
    BY Constants
  <2>4. Pow(R1div, Limbs - 1) \in Nat
    BY <2>3, Constants, PowPos
  <2> QED  BY <2>1, <2>2, <2>4, LengthAssumption
<1>3. x < Pow(R1div, Limbs)
  <2>1. Limbs - 1 \in Nat /\ Limbs \in Nat /\ Limbs - 1 <= Limbs
    BY Constants
  <2>2. Pow(R1div, Limbs - 1) <= Pow(R1div, Limbs)
    BY <2>1, Constants, PowMonotone
  <2>3. Pow(R1div, Limbs - 1) \in Nat /\ Pow(R1div, Limbs) \in Nat
    BY <2>1, Constants, PowPos
  <2> QED  BY <1>2, <2>2, <2>3
<1>4. ASSUME NEW k \in 1..(Limbs - 1)
      PROVE  t[k] = Digit(x, k, Limbs, R1div)
  <2>1. k - 1 \in 0..(Limbs - 2) /\ (Limbs - 1) - 1 - (k - 1) = Limbs - 1 - k
    BY Constants
  <2>2. t[k] = Digit(x, k - 1, Limbs - 1, R1div)
    BY <2>1 DEF encTable
  <2> QED  BY <2>1, <2>2 DEF Digit
<1>5. t[0] = Digit(x, 0, Limbs, R1div)
  <2>1. Limbs - 1 - 0 = Limbs - 1 /\ Limbs - 1 \in Nat
    BY Constants
  <2>2. Pow(R1div, Limbs - 1) \in Nat \ {0}
    BY <2>1, Constants, PowPos
  <2> HIDE DEF x
  <2>3. x \div Pow(R1div, Limbs - 1) = 0
    BY <1>2, <2>2, DivNat
  <2>4. 0 % R1div = 0
    BY Constants
  <2> QED  BY <2>1, <2>3, <2>4 DEF Digit
<1>6. \A k \in 0..(Limbs - 1) : t[k] = Digit(x, k, Limbs, R1div)
  <2>1. \A k \in 0..(Limbs - 1) : k = 0 \/ k \in 1..(Limbs - 1)
    BY Constants
  <2> QED  BY <1>4, <1>5, <2>1
<1> HIDE DEF x
<1>7. Value(t, Limbs, R1div) = x
  BY <1>2, <1>3, <1>6, Constants, ValueDigits
<1> QED  BY <1>7 DEF x

\* The largest column sum grows by the largest product.
LEMMA ColumnStep ==
    ASSUME NEW k \in 1..(Limbs - 1), NEW r \in 0..(Words - 1)
    PROVE  /\ ColumnMax(k, r) \in Nat /\ ColumnMax(k, r + 1) \in Nat
           /\ ColumnMax(k, r + 1) = ColumnMax(k, r) + (WordBase - 1) * encTable[r][k - 1]
<1> DEFINE f == [j \in 0..(Words - 1) |-> (WordBase - 1) * encTable[j][k - 1]]
<1>1. \A j \in 0..(Words - 1) : f[j] \in Nat
  <2> SUFFICES ASSUME NEW j \in 0..(Words - 1) PROVE f[j] \in Nat
    OBVIOUS
  <2>1. encTable[j][k - 1] \in Nat
    BY TableNat
  <2>2. \A e \in Nat : (WordBase - 1) * e \in Nat
    BY Constants
  <2> QED  BY <2>1, <2>2
<1>2. f[r] = (WordBase - 1) * encTable[r][k - 1]
  OBVIOUS
<1>3. \A n \in Nat : ColumnMax(k, n) = Value(f, n, 1)
  BY DEF ColumnMax
<1> HIDE DEF f
<1>4. /\ r \in Nat /\ r + 1 \in Nat
      /\ \A j \in 0..(r - 1) : f[j] \in Nat
      /\ \A j \in 0..((r + 1) - 1) : f[j] \in Nat
      /\ \A j \in 0..r : f[j] \in Int
  BY <1>1, Constants
<1>5. Value(f, r, 1) \in Nat /\ Value(f, r + 1, 1) \in Nat
  BY <1>4, ValueNat
<1>6. Value(f, r + 1, 1) = Value(f, r, 1) * 1 + f[r]
  BY <1>4, ValueStep
<1>7. f[r] \in Nat
  BY <1>1
<1>8. ColumnMax(k, r) = Value(f, r, 1) /\ ColumnMax(k, r + 1) = Value(f, r + 1, 1)
  BY <1>3, <1>4
<1> QED  BY <1>2, <1>5, <1>6, <1>7, <1>8

\* No rows, no sum.
LEMMA ColumnNone == ASSUME NEW k PROVE ColumnMax(k, 0) = 0
BY ValueZero DEF ColumnMax

\* Column sums are natural numbers that grow with the rows.
LEMMA ColumnNat ==
    ASSUME NEW k \in 1..(Limbs - 1), NEW r \in 0..Words
    PROVE  ColumnMax(k, r) \in Nat
<1>1. CASE r = 0
  BY <1>1, ColumnNone
<1>2. CASE r # 0
  <2>1. r - 1 \in 0..(Words - 1) /\ (r - 1) + 1 = r
    BY <1>2, Constants
  <2>2. ColumnMax(k, (r - 1) + 1) \in Nat
    BY <2>1, ColumnStep
  <2> QED  BY <2>1, <2>2
<1> QED  BY <1>1, <1>2

\* More rows make the largest sum of a column no smaller.
LEMMA ColumnMono ==
    ASSUME NEW k \in 1..(Limbs - 1), NEW r \in 0..Words, NEW s \in 0..Words, r <= s
    PROVE  ColumnMax(k, r) <= ColumnMax(k, s)
<1> DEFINE S == {d \in Nat : r + d <= Words => ColumnMax(k, r) <= ColumnMax(k, r + d)}
<1>1. 0 \in S
  <2>1. r + 0 = r /\ ColumnMax(k, r) \in Nat
    BY ColumnNat
  <2> QED  BY <2>1
<1>2. \A d \in Nat : d \in S => d + 1 \in S
  <2> SUFFICES ASSUME NEW d \in Nat, d \in S, r + (d + 1) <= Words
               PROVE  ColumnMax(k, r) <= ColumnMax(k, r + (d + 1))
    OBVIOUS
  <2>1. r + d \in 0..(Words - 1) /\ r + (d + 1) = (r + d) + 1 /\ r + d <= Words
    BY Constants
  <2>2. ColumnMax(k, r) <= ColumnMax(k, r + d)
    BY <2>1
  <2> HIDE DEF S
  <2>3. /\ ColumnMax(k, r + d) \in Nat
        /\ ColumnMax(k, (r + d) + 1) = ColumnMax(k, r + d) + (WordBase - 1) * encTable[r + d][k - 1]
    BY <2>1, ColumnStep
  <2>4. encTable[r + d][k - 1] \in Nat
    BY <2>1, TableNat
  <2>5. \A e \in Nat : (WordBase - 1) * e \in Nat
    BY Constants
  <2>6. (WordBase - 1) * encTable[r + d][k - 1] \in Nat
    BY <2>4, <2>5
  <2>7. ColumnMax(k, r) \in Nat
    BY ColumnNat
  <2> QED  BY <2>1, <2>2, <2>3, <2>6, <2>7
<1> HIDE DEF S
<1>3. s - r \in Nat /\ r + (s - r) = s /\ s <= Words
  BY Constants
<1>4. s - r \in S
  BY <1>1, <1>2, <1>3, NatInduct
<1> QED  BY <1>3, <1>4 DEF S

\* Which sums fit: of a column other than Hot, with the carry of the reduction.
LEMMA ColumnFits ==
    ASSUME NEW k \in 1..(Limbs - 1), k # Hot, NEW r \in 0..Words
    PROVE  ColumnMax(k, r) + (IF k = Hot - 1 THEN CarryMax ELSE 0) < Wrap
<1>1. ColumnMax(k, r) \in Nat /\ ColumnMax(k, Words) \in Nat /\ ColumnMax(k, r) <= ColumnMax(k, Words)
  <2>1. Words \in 0..Words /\ r <= Words
    BY Constants
  <2> QED  BY <2>1, ColumnNat, ColumnMono
<1>2. k = Hot - 1 => ColumnMax(k, Words) + 2 * CarryMax < Wrap
  BY ColumnsAssumption
<1>3. ColumnMax(k, Words) + CarryMax < Wrap
  BY ColumnsAssumption
<1> QED  BY <1>1, <1>2, <1>3, Constants

\* Of column Hot, the sums of the first rows and of the others.
LEMMA HotFits ==
    /\ \A r \in 0..HeadWords : ColumnMax(Hot, r) + CarryMax < Wrap
    /\ \A r \in HeadWords..Words : TailMax(r) \in Nat /\ R1div + TailMax(r) + CarryMax < Wrap
<1>1. Hot \in 1..(Limbs - 1) /\ HeadWords \in 0..Words /\ Words \in 0..Words
  BY Constants
<1>2. \A r \in 0..Words : ColumnMax(Hot, r) \in Nat
  BY <1>1, ColumnNat
<1>3. ASSUME NEW r \in 0..HeadWords
      PROVE  ColumnMax(Hot, r) + CarryMax < Wrap
  <2>1. r \in 0..Words /\ r <= HeadWords
    BY Constants
  <2>2. ColumnMax(Hot, r) <= ColumnMax(Hot, HeadWords)
    BY <1>1, <2>1, ColumnMono
  <2>3. ColumnMax(Hot, r) \in Nat /\ ColumnMax(Hot, HeadWords) \in Nat
    BY <1>1, <1>2, <2>1
  <2>4. ColumnMax(Hot, HeadWords) + CarryMax < Wrap
    BY ColumnsAssumption
  <2> QED  BY <2>2, <2>3, <2>4, Constants
<1>4. ASSUME NEW r \in HeadWords..Words
      PROVE  TailMax(r) \in Nat /\ R1div + TailMax(r) + CarryMax < Wrap
  <2>1. r \in 0..Words /\ HeadWords <= r /\ r <= Words
    BY Constants
  <2>2. ColumnMax(Hot, HeadWords) <= ColumnMax(Hot, r) /\ ColumnMax(Hot, r) <= ColumnMax(Hot, Words)
    BY <1>1, <2>1, ColumnMono
  <2>3. ColumnMax(Hot, r) \in Nat /\ ColumnMax(Hot, HeadWords) \in Nat /\ ColumnMax(Hot, Words) \in Nat
    BY <1>1, <1>2, <2>1
  <2>4. ColumnMax(Hot, Words) - ColumnMax(Hot, HeadWords) + R1div + CarryMax < Wrap
    BY ColumnsAssumption
  <2> QED  BY <2>2, <2>3, <2>4, Constants DEF TailMax
<1> QED  BY <1>3, <1>4

\* One more row keeps a column within its bound.
LEMMA ColumnAdd ==
    ASSUME NEW k \in 1..(Limbs - 1), NEW r \in 0..(Words - 1), NEW b \in 0..(WordBase - 1),
           NEW a \in Nat, NEW s \in Int, a <= ColumnMax(k, r) + s
    PROVE  /\ a + b * encTable[r][k - 1] \in Nat
           /\ a + b * encTable[r][k - 1] <= ColumnMax(k, r + 1) + s
<1> DEFINE t == encTable[r][k - 1]
<1>1. t \in Nat
  BY TableNat
<1>2. /\ ColumnMax(k, r) \in Nat /\ ColumnMax(k, r + 1) \in Nat
      /\ ColumnMax(k, r + 1) = ColumnMax(k, r) + (WordBase - 1) * t
  BY ColumnStep
<1> HIDE DEF t
<1>3. b * t \in Nat /\ b * t <= (WordBase - 1) * t /\ (WordBase - 1) * t \in Nat
  <2>1. (WordBase - 1 - b) * t >= 0 /\ (WordBase - 1 - b) * t = (WordBase - 1) * t - b * t
    BY <1>1, Constants
  <2>2. b * t \in Nat /\ (WordBase - 1) * t \in Nat
    BY <1>1, Constants
  <2> QED  BY <2>1, <2>2
<1>4. a + b * t \in Nat /\ a + b * t <= ColumnMax(k, r + 1) + s
  BY <1>2, <1>3
<1> QED  BY <1>4 DEF t

\* A uint64 that does not overflow.
LEMMA NoWrap ==
    ASSUME NEW x \in Nat, x < Wrap
    PROVE  uint64(x) = x
BY Constants, DivNat DEF uint64

\* The whole input fits the limbs.
LEMMA InputFits == Pow(WordBase, Words) <= Pow(R1div, Limbs)
<1>1. /\ Base \in Nat \ {0} /\ ByteBase \in Nat \ {0} /\ WordBytes \in Nat /\ LimbDigits \in Nat
      /\ Words \in Nat /\ Limbs \in Nat /\ EncodedMaxLen \in Nat
  BY RadixAssumption
<1>2. Pow(WordBase, Words) = Pow(ByteBase, Bytes)
  BY <1>1, PowPow DEF WordBase, Bytes
<1>3. Pow(R1div, Limbs) = Pow(Base, Raw) /\ Raw \in Nat
  BY <1>1, PowPow DEF R1div, Raw
<1>4. Pow(Base, EncodedMaxLen) <= Pow(Base, Raw)
  BY <1>1, <1>3, LengthAssumption, PowMonotone
<1>5. Bytes \in Nat
  BY <1>1 DEF Bytes
<1>6. Pow(ByteBase, Bytes) \in Nat /\ Pow(Base, EncodedMaxLen) \in Nat /\ Pow(Base, Raw) \in Nat
  BY <1>1, <1>3, <1>5, PowPos
<1> QED  BY <1>2, <1>3, <1>4, <1>6, LengthAssumption

-----------------------------------------------------------------------------
(* The input *)

\* An input is a number of Bytes bytes, its words are below WordBase.
LEMMA WordRange ==
    ASSUME src \in Inputs, NEW j \in 0..(Words - 1)
    PROVE  bin(j) \in 0..(WordBase - 1)
<1> DEFINE f == [b \in 0..(WordBytes - 1) |-> src[j * WordBytes + b]]
<1>1. src \in [0..(Bytes - 1) -> 0..(ByteBase - 1)]
  BY RadixAssumption
<1>2. Words \in Nat /\ WordBytes \in Nat /\ ByteBase \in Nat \ {0}
  BY RadixAssumption
<1>3. \A b \in 0..(WordBytes - 1) : f[b] \in 0..(ByteBase - 1)
  <2> SUFFICES ASSUME NEW b \in 0..(WordBytes - 1)
               PROVE  j * WordBytes + b \in 0..(Words * WordBytes - 1)
    BY <1>1 DEF Bytes
  <2>1. /\ (Words - 1 - j) * WordBytes >= 0
        /\ (Words - 1 - j) * WordBytes = Words * WordBytes - WordBytes - j * WordBytes
        /\ j * WordBytes \in Nat /\ Words * WordBytes \in Nat
    BY <1>2
  <2> QED  BY <1>2, <2>1
<1> HIDE DEF f
<1>4. Value(f, WordBytes, ByteBase) \in 0..(Pow(ByteBase, WordBytes) - 1)
  BY <1>2, <1>3, ValueBound
<1> QED  BY <1>4 DEF bin, f, WordBase

\* What has been read is a number of Words words.
LEMMA ConsumedRange ==
    ASSUME src \in Inputs, row \in 0..Words
    PROVE  /\ Consumed \in Nat
           /\ Consumed < Pow(R1div, Limbs)
<1> DEFINE f == [j \in 0..(Words - 1) |-> IF j < row THEN bin(j) ELSE 0]
<1>1. \A j \in 0..(Words - 1) : f[j] \in 0..(WordBase - 1)
  BY WordRange, Constants
<1> HIDE DEF f
<1>2. Value(f, Words, WordBase) \in 0..(Pow(WordBase, Words) - 1)
  BY <1>1, Constants, ValueBound
<1>3. Pow(WordBase, Words) \in Nat /\ Pow(R1div, Limbs) \in Nat
  BY Constants, PowPos
<1> QED  BY <1>2, <1>3, InputFits DEF Consumed, f

\* Reading a word adds it with its weight.
LEMMA ConsumedStep ==
    ASSUME src \in Inputs, row \in 0..(Words - 1), src' = src, row' = row + 1
    PROVE  Consumed' = Consumed + bin(row) * Pow(WordBase, Words - 1 - row)
<1> DEFINE f == [j \in 0..(Words - 1) |-> IF j < row THEN bin(j) ELSE 0]
           g == [j \in 0..(Words - 1) |-> IF j < row + 1 THEN bin(j) ELSE 0]
<1>1. Consumed = Value(f, Words, WordBase)
  BY DEF Consumed
<1>2. Consumed' = Value(g, Words, WordBase)
  BY DEF Consumed, bin
<1>3. \A j \in 0..(Words - 1) : bin(j) \in Int
  BY WordRange, Constants
<1>4. /\ \A j \in 0..(Words - 1) : f[j] \in Int
      /\ \A j \in 0..(Words - 1) : j # row => g[j] = f[j]
      /\ f[row] = 0 /\ g[row] = bin(row) /\ g[row] \in Int
  BY <1>3, Constants
<1> HIDE DEF f, g
<1>5. Value(g, Words, WordBase) = Value(f, Words, WordBase) + (g[row] - f[row]) * Pow(WordBase, Words - 1 - row)
  BY <1>4, Constants, ValueChange
<1>6. g[row] - f[row] = bin(row)
  BY <1>4
<1> QED  BY <1>1, <1>2, <1>5, <1>6

-----------------------------------------------------------------------------
(* Sums *)

\* Weights are positive, each R1div times the next.
LEMMA WeightFacts ==
    /\ \A k \in 0..(Limbs - 1) : Weight(k) \in Nat \ {0}
    /\ \A k \in 1..(Limbs - 1) : Weight(k - 1) = Weight(k) * R1div
<1>1. ASSUME NEW k \in 0..(Limbs - 1) PROVE Weight(k) \in Nat \ {0}
  <2>1. Limbs - 1 - k \in Nat
    BY Constants
  <2> QED  BY <2>1, Constants, PowPos DEF Weight
<1>2. ASSUME NEW k \in 1..(Limbs - 1) PROVE Weight(k - 1) = Weight(k) * R1div
  <2>1. Limbs - 1 - k \in Nat /\ Limbs - 1 - (k - 1) = (Limbs - 1 - k) + 1
    BY Constants
  <2>2. Pow(R1div, (Limbs - 1 - k) + 1) = Pow(R1div, Limbs - 1 - k) * R1div
    BY <2>1, Constants, PowStep
  <2> QED  BY <2>1, <2>2 DEF Weight
<1> QED  BY <1>1, <1>2

\* What MulRow does to a column other than Hot: it adds, without wrapping.
LEMMA MulColumn ==
    ASSUME Typed, Summing, MulRow, NEW k \in 1..(Limbs - 1), k # Hot
    PROVE  /\ im'[k] = im[k] + bin(row) * encTable[row][k - 1]
           /\ im'[k] \in Nat
           /\ im'[k] <= ColumnMax(k, row + 1) + (IF k = Hot - 1 /\ Reduced THEN CarryMax ELSE 0)
<1> DEFINE s == IF k = Hot - 1 /\ Reduced THEN CarryMax ELSE 0
           b == bin(row)
           x == im[k] + b * encTable[row][k - 1]
<1>1. /\ row \in 0..(Words - 1) /\ row + 1 \in 0..Words
      /\ im[k] \in Nat /\ im[k] <= ColumnMax(k, row) + s
      /\ s \in Int /\ s >= 0
      /\ s <= IF k = Hot - 1 THEN CarryMax ELSE 0
  BY Constants DEF Typed, Summing, MulRow
<1>2. b \in 0..(WordBase - 1)
  BY <1>1, WordRange DEF Typed
<1>3. im'[k] = uint64(x)
  <2>1. ~Split(k) /\ k # 0 /\ k \in 0..(Limbs - 1)
    BY Constants DEF Split
  <2> QED  BY <2>1 DEF MulRow
<1> HIDE DEF s, b
<1>4. x \in Nat /\ x <= ColumnMax(k, row + 1) + s
  BY <1>1, <1>2, ColumnAdd
<1>5. ColumnMax(k, row + 1) + (IF k = Hot - 1 THEN CarryMax ELSE 0) < Wrap
  BY <1>1, ColumnFits
<1>6. ColumnMax(k, row + 1) \in Nat
  BY <1>1, ColumnNat
<1> HIDE DEF x
<1>7. x < Wrap
  BY <1>1, <1>4, <1>5, <1>6, Constants
<1>8. im'[k] = x
  BY <1>3, <1>4, <1>7, NoWrap
<1> QED  BY <1>4, <1>8 DEF x, b, s

\* To column Hot, before the words of the second sum.
LEMMA MulHot ==
    ASSUME Typed, Summing, MulRow, ~Split(Hot)
    PROVE  /\ im'[Hot] = im[Hot] + bin(row) * encTable[row][Hot - 1]
           /\ im'[Hot] \in Nat
           /\ im'[Hot] <= IF Reduced THEN R1div + TailMax(row + 1) ELSE ColumnMax(Hot, row + 1)
           /\ Reduced \/ row < HeadWords
           /\ part' = part
<1> DEFINE s == IF Reduced THEN R1div - ColumnMax(Hot, HeadWords) ELSE 0
           b == bin(row)
           x == im[Hot] + b * encTable[row][Hot - 1]
<1>0. Hot \in 1..(Limbs - 1) /\ Hot # 0 /\ Hot \in 0..(Limbs - 1) /\ HeadWords \in 0..Words
  BY Constants
<1>1. ColumnMax(Hot, HeadWords) \in Nat
  BY <1>0, ColumnNat
<1>2. row \in 0..(Words - 1) /\ row + 1 \in 0..Words /\ pc = "matmul"
  BY Constants DEF Typed, Summing, MulRow
<1>3. Reduced \/ row < HeadWords
  BY <1>2, Constants DEF Split, Reduced
<1>4. im[Hot] \in Nat /\ im[Hot] <= ColumnMax(Hot, row) + s
  <2>1. im[Hot] \in Nat /\ im[Hot] <= HotMax
    BY <1>0, <1>2 DEF Typed, Summing
  <2>2. ColumnMax(Hot, row) \in Nat
    BY <1>0, <1>2, ColumnNat, Constants
  <2> QED  BY <1>1, <1>3, <2>1, <2>2, Constants DEF HotMax, TailMax, Reduced
<1>5. s \in Int
  BY <1>1, Constants
<1>6. b \in 0..(WordBase - 1)
  BY <1>2, WordRange DEF Typed
<1>7. im'[Hot] = uint64(x) /\ part' = part
  BY <1>0 DEF MulRow
<1> HIDE DEF s, b
<1>8. x \in Nat /\ x <= ColumnMax(Hot, row + 1) + s
  BY <1>0, <1>2, <1>4, <1>5, <1>6, ColumnAdd
<1>9. ColumnMax(Hot, row + 1) \in Nat
  BY <1>0, <1>2, ColumnNat
<1> HIDE DEF x
<1>10. x <= IF Reduced THEN R1div + TailMax(row + 1) ELSE ColumnMax(Hot, row + 1)
  BY <1>1, <1>8, <1>9, Constants DEF s, TailMax
<1>11. x < Wrap
  <2>1. CASE Reduced
    <3>1. row + 1 \in HeadWords..Words
      BY <1>2, <2>1, Constants DEF Reduced
    <3>2. TailMax(row + 1) \in Nat /\ R1div + TailMax(row + 1) + CarryMax < Wrap
      BY <3>1, HotFits
    <3> QED  BY <1>8, <1>10, <2>1, <3>2, Constants
  <2>2. CASE ~Reduced
    <3>1. row + 1 \in 0..HeadWords
      BY <1>2, <1>3, <2>2, Constants
    <3>2. ColumnMax(Hot, row + 1) + CarryMax < Wrap
      BY <3>1, HotFits
    <3> QED  BY <1>8, <1>9, <1>10, <2>2, <3>2, Constants
  <2> QED  BY <2>1, <2>2
<1>12. im'[Hot] = x
  BY <1>7, <1>8, <1>11, NoWrap
<1> QED  BY <1>3, <1>7, <1>8, <1>10, <1>12 DEF x, b

\* To the second sum of column Hot.
LEMMA MulPart ==
    ASSUME Typed, Summing, MulRow, Split(Hot)
    PROVE  /\ im'[Hot] = im[Hot]
           /\ part' = part + bin(row) * encTable[row][Hot - 1]
           /\ part' \in Nat /\ part' <= TailMax(row + 1)
           /\ path = "full" /\ row >= HeadWords
<1> DEFINE s == 0 - ColumnMax(Hot, HeadWords)
           b == bin(row)
           x == part + b * encTable[row][Hot - 1]
<1>0. Hot \in 1..(Limbs - 1) /\ Hot # 0 /\ Hot \in 0..(Limbs - 1) /\ HeadWords \in 0..Words
  BY Constants
<1>1. ColumnMax(Hot, HeadWords) \in Nat /\ s \in Int
  BY <1>0, ColumnNat
<1>2. row \in 0..(Words - 1) /\ row + 1 \in HeadWords..Words /\ row + 1 \in 0..Words
  BY Constants DEF Typed, Summing, MulRow, Split
<1>3. path = "full" /\ row >= HeadWords
  BY DEF Split
<1>4. part \in Nat /\ part <= ColumnMax(Hot, row) + s
  <2>1. part \in Nat /\ part <= TailMax(row)
    BY <1>3 DEF Typed, Summing, MulRow, PartMax
  <2>2. ColumnMax(Hot, row) \in Nat
    BY <1>0, <1>2, ColumnNat, Constants
  <2> QED  BY <1>1, <2>1, <2>2 DEF TailMax
<1>5. b \in 0..(WordBase - 1)
  BY <1>2, WordRange DEF Typed
<1>6. part' = uint64(x) /\ im'[Hot] = im[Hot]
  BY <1>0 DEF MulRow
<1> HIDE DEF s, b
<1>7. x \in Nat /\ x <= ColumnMax(Hot, row + 1) + s
  BY <1>0, <1>1, <1>2, <1>4, <1>5, ColumnAdd
<1>8. ColumnMax(Hot, row + 1) \in Nat
  BY <1>0, <1>2, ColumnNat
<1> HIDE DEF x
<1>9. x <= TailMax(row + 1)
  BY <1>1, <1>7, <1>8 DEF s, TailMax
<1>10. TailMax(row + 1) \in Nat /\ R1div + TailMax(row + 1) + CarryMax < Wrap
  BY <1>2, HotFits
<1>11. x < Wrap
  BY <1>7, <1>9, <1>10, Constants
<1>12. part' = x
  BY <1>6, <1>7, <1>11, NoWrap
<1> QED  BY <1>3, <1>6, <1>7, <1>9, <1>12 DEF x, b

\* A row adds its word, with the word's weight, to what the columns are worth.
LEMMA MulValue ==
    ASSUME Typed, Summing, MulRow
    PROVE  Value(im', Limbs, R1div) + part' * Weight(Hot)
             = Value(im, Limbs, R1div) + part * Weight(Hot) + bin(row) * Pow(WordBase, Words - 1 - row)
<1> DEFINE b == bin(row)
           t == [k \in 0..(Limbs - 1) |-> IF k = 0 THEN 0 ELSE encTable[row][k - 1]]
           h == [k \in 0..(Limbs - 1) |-> im[k] + b * t[k]]
           u == Pow(WordBase, Words - 1 - row)
           w == Weight(Hot)
           e == encTable[row][Hot - 1]
<1>0. Hot \in 1..(Limbs - 1) /\ Hot # 0 /\ Hot \in 0..(Limbs - 1)
  BY Constants
<1>1. row \in 0..(Words - 1) /\ Words - 1 - row \in Nat
  BY Constants DEF Typed, Summing, MulRow
<1>2. b \in Int
  BY <1>1, WordRange, Constants DEF Typed
<1>3. /\ t[0] = 0 /\ \A k \in 1..(Limbs - 1) : t[k] = encTable[row][k - 1]
      /\ e \in Int /\ t[Hot] = e
  <2>1. t[0] = 0 /\ \A k \in 1..(Limbs - 1) : t[k] = encTable[row][k - 1]
    BY Constants
  <2>2. e \in Nat
    BY <1>0, <1>1, TableNat
  <2> QED  BY <1>0, <2>1, <2>2
<1>4. \A k \in 0..(Limbs - 1) : t[k] \in Int
  BY <1>1, TableNat, Constants
<1> HIDE DEF t, b, u, w, e
<1>5. /\ \A k \in 0..(Limbs - 1) : im[k] \in Int
      /\ \A k \in 0..(Limbs - 1) : h[k] = im[k] + b * t[k]
      /\ \A k \in 0..(Limbs - 1) : h[k] \in Int
  BY <1>2, <1>4 DEF Typed
<1>6. im[Hot] \in Int /\ h[Hot] = im[Hot] + b * e
  BY <1>0, <1>3, <1>5
<1> HIDE DEF h
<1>7. Value(t, Limbs, R1div) = u
  BY <1>1, <1>3, RowValue DEF u
<1>8. Value(h, Limbs, R1div) = Value(im, Limbs, R1div) + b * u
  <2>1. Limbs \in Nat /\ R1div \in Int
    BY Constants
  <2>2. Value(h, Limbs, R1div) = Value(im, Limbs, R1div) + b * Value(t, Limbs, R1div)
    BY <1>2, <1>4, <1>5, <2>1, ValueLinear
  <2> QED  BY <1>7, <2>2
<1>9. /\ Value(im, Limbs, R1div) \in Int /\ Value(h, Limbs, R1div) \in Int
      /\ u \in Int /\ w \in Int /\ part \in Int
  <2>1. Limbs \in Nat /\ R1div \in Int /\ WordBase \in Int
    BY Constants
  <2>2. Value(im, Limbs, R1div) \in Int /\ Value(h, Limbs, R1div) \in Int
    BY <1>5, <2>1, ValueInt
  <2>3. u \in Int
    BY <1>1, <2>1, PowInt DEF u
  <2>4. w \in Int
    BY <1>0, WeightFacts DEF w
  <2> QED  BY <2>2, <2>3, <2>4 DEF Typed
<1>10. \A k \in 0..(Limbs - 1) : k # Hot => im'[k] = h[k]
  <2> SUFFICES ASSUME NEW k \in 0..(Limbs - 1), k # Hot PROVE im'[k] = h[k]
    OBVIOUS
  <2>1. CASE k = 0
    <3>1. im'[0] = im[0]
      BY <2>1 DEF MulRow
    <3> QED  BY <1>2, <1>3, <1>5, <2>1, <3>1
  <2>2. CASE k # 0
    <3>1. k \in 1..(Limbs - 1)
      BY <2>2, Constants
    <3>2. im'[k] = im[k] + bin(row) * encTable[row][k - 1]
      BY <3>1, MulColumn
    <3> QED  BY <1>3, <1>5, <3>1, <3>2 DEF b
  <2> QED  BY <2>1, <2>2
<1>11. CASE ~Split(Hot)
  <2>1. im'[Hot] = h[Hot] /\ part' = part
    BY <1>6, <1>11, MulHot DEF b, e
  <2>2. \A k \in 0..(Limbs - 1) : h[k] \in Int /\ im'[k] = h[k]
    BY <1>5, <1>10, <2>1
  <2>3. Value(im', Limbs, R1div) = Value(h, Limbs, R1div)
    <3>1. Limbs \in Nat /\ R1div \in Int
      BY Constants
    <3> QED  BY <2>2, <3>1, ValueEqual
  <2>4. \A x, y, z \in Int : (x + y) + z = x + z + y
    OBVIOUS
  <2>5. b * u \in Int /\ part * w \in Int
    BY <1>2, <1>9
  <2> QED  BY <1>8, <1>9, <2>1, <2>3, <2>4, <2>5 DEF b, u, w
<1>12. CASE Split(Hot)
  <2>1. im'[Hot] = im[Hot] /\ part' = part + b * e
    BY <1>12, MulPart DEF b, e
  <2>2. Value(im', Limbs, R1div) = Value(h, Limbs, R1div) + (im'[Hot] - h[Hot]) * w
    <3>1. Limbs \in Nat /\ R1div \in Int /\ im'[Hot] \in Int
      BY <1>6, <2>1, Constants
    <3>2. w = Pow(R1div, Limbs - 1 - Hot)
      BY DEF w, Weight
    <3>3. Value(im', Limbs, R1div) = Value(h, Limbs, R1div) + (im'[Hot] - h[Hot]) * Pow(R1div, Limbs - 1 - Hot)
      BY <1>0, <1>5, <1>10, <3>1, ValueChange
    <3> QED  BY <3>2, <3>3
  <2>3. im'[Hot] - h[Hot] = 0 - b * e
    BY <1>2, <1>3, <1>6, <2>1
  <2>4. \A x, y, p, z \in Int : (x + y) + (0 - z) * w + (p + z) * w = x + p * w + y
    BY <1>9
  <2>5. b * u \in Int /\ b * e \in Int
    BY <1>2, <1>3, <1>9
  <2> QED  BY <1>8, <1>9, <2>1, <2>2, <2>3, <2>4, <2>5 DEF b, u, w
<1> QED  BY <1>11, <1>12

\* The value of the columns is a number.
LEMMA LimbsNat ==
    ASSUME NEW a \in [0..(Limbs - 1) -> Nat]
    PROVE  Value(a, Limbs, R1div) \in Nat
<1>1. Limbs \in Nat /\ R1div \in Nat /\ \A k \in 0..(Limbs - 1) : a[k] \in Nat
  BY Constants
<1> QED  BY <1>1, ValueNat

\* Limbs and the second sum of column Hot are worth an integer.
LEMMA WorthInt ==
    ASSUME NEW a \in [0..(Limbs - 1) -> Nat], NEW p \in Nat
    PROVE  Value(a, Limbs, R1div) + p * Weight(Hot) \in Int
<1>1. Hot \in 0..(Limbs - 1)
  BY Constants
<1>2. Value(a, Limbs, R1div) \in Nat
  BY LimbsNat
<1>3. Weight(Hot) \in Int
  BY <1>1, WeightFacts
<1> QED  BY <1>2, <1>3

\* What the limbs and all that is in flight are worth.
Worth ==
    Value(im, Limbs, R1div) + part * Weight(Hot) + carry * Weight(i) + lowCarry * Weight(Half - 1)

\* MulRow keeps the invariant.
LEMMA MulRowStep == Inv /\ MulRow => Inv'
<1> SUFFICES ASSUME Inv, MulRow PROVE Inv'
  OBVIOUS
<1>0. Typed /\ Summing
  BY DEF Inv
<1>1. /\ pc = "matmul" /\ row \in 0..(Words - 1) /\ row' = row + 1 /\ row' \in 0..Words
      /\ src' = src /\ path' = path /\ i' = i /\ carry' = carry /\ lowCarry' = lowCarry /\ out' = out
      /\ carry = 0 /\ lowCarry = 0 /\ i = Limbs - 1 /\ src \in Inputs /\ path \in Paths
      /\ pc' \in {"matmul", "reduce", "carry"} /\ im[0] = 0
      /\ (pc' = "carry") <=> (row' = Words)
      /\ (pc' = "reduce") => (row' = HeadWords /\ path # "full")
      /\ (pc' = "matmul" /\ row' = HeadWords) => (path = "full")
  BY <1>0, Constants DEF Typed, Summing, MulRow
<1>2. im' \in [0..(Limbs - 1) -> Nat] /\ im'[0] = 0
  <2>1. DOMAIN im' = 0..(Limbs - 1) /\ im' = [k \in 0..(Limbs - 1) |-> im'[k]]
    BY DEF MulRow
  <2>2. im'[0] = im[0]
    BY Constants DEF MulRow
  <2>3. im'[Hot] \in Nat
    <3>1. im[Hot] \in Nat
      BY <1>0, Constants DEF Typed
    <3> QED  BY <1>0, <3>1, MulHot, MulPart
  <2>4. \A k \in 0..(Limbs - 1) : im'[k] \in Nat
    <3>1. \A k \in 1..(Limbs - 1) : k # Hot => im'[k] \in Nat
      BY <1>0, MulColumn
    <3>2. \A k \in 0..(Limbs - 1) : k = 0 \/ k \in 1..(Limbs - 1)
      BY Constants
    <3> QED  BY <1>1, <2>2, <2>3, <3>1, <3>2
  <2> QED  BY <1>1, <2>1, <2>2, <2>4
<1>3. part' \in Nat
  <2>1. part \in Nat
    BY <1>0 DEF Typed
  <2> QED  BY <1>0, <2>1, MulHot, MulPart
<1>4. Typed'
  BY <1>0, <1>1, <1>2, <1>3 DEF Typed
<1>5. \A k \in 1..(Limbs - 1) : k # Hot =>
        im'[k] <= ColumnMax(k, row + 1) + (IF k = Hot - 1 /\ Reduced THEN CarryMax ELSE 0)
  BY <1>0, MulColumn
<1>6. /\ Split(Hot) <=> (path = "full" /\ row >= HeadWords)
      /\ Reduced <=> (path # "full" /\ row >= HeadWords)
  BY <1>1 DEF Split, Reduced
<1>7. pc' = "matmul" => (Reduced' <=> Reduced)
  BY <1>1, Constants DEF Reduced
<1>8. ColumnMax(Hot, HeadWords) \in Nat /\ TailMax(HeadWords) = 0
  <2>1. Hot \in 1..(Limbs - 1) /\ HeadWords \in 0..Words
    BY Constants
  <2>2. ColumnMax(Hot, HeadWords) \in Nat
    BY <2>1, ColumnNat
  <2> QED  BY <2>2 DEF TailMax
<1>9. part' <= IF path = "full" /\ row + 1 >= HeadWords THEN TailMax(row + 1) ELSE 0
  <2>1. CASE Split(Hot)
    <3>1. part' <= TailMax(row + 1) /\ row + 1 >= HeadWords
      BY <1>0, <1>1, <1>6, <2>1, MulPart, Constants
    <3> QED  BY <1>6, <2>1, <3>1
  <2>2. CASE ~Split(Hot)
    <3>1. part' = part /\ part <= 0
      BY <1>0, <1>1, <1>6, <2>2, MulHot DEF Summing, PartMax
    <3>2. row + 1 >= HeadWords /\ path = "full" => row + 1 = HeadWords
      BY <1>1, <1>6, <2>2, Constants
    <3> QED  BY <1>8, <3>1, <3>2
  <2> QED  BY <2>1, <2>2
<1>10. Summing'
  <2> SUFFICES ASSUME pc' \in {"matmul", "reduce"} PROVE Summing'
    BY DEF Summing
  <2>1. row' < Words
    BY <1>1, Constants
  <2>2. ASSUME NEW k \in 1..(Limbs - 1), k # Hot
        PROVE  im'[k] <= ColumnMax(k, row') + (IF k = Hot - 1 /\ Reduced' THEN CarryMax ELSE 0)
    <3>1. pc' = "reduce" => ~Reduced
      BY <1>1, <1>6
    <3>2. pc' = "reduce" => ~Reduced'
      BY DEF Reduced
    <3>3. Reduced' <=> Reduced
      BY <1>7, <3>1, <3>2
    <3> QED  BY <1>1, <1>5, <2>2, <3>3
  <2>3. im'[Hot] <= HotMax'
    <3>1. CASE Split(Hot)
      <4>1. im'[Hot] = im[Hot] /\ path = "full" /\ row >= HeadWords
        BY <1>0, <3>1, MulPart
      <4>2. im[Hot] <= ColumnMax(Hot, HeadWords)
        BY <1>0, <1>1, <4>1, Constants DEF Summing, HotMax, Reduced
      <4>3. HotMax' = ColumnMax(Hot, HeadWords)
        BY <1>1, <4>1, Constants DEF HotMax, Reduced
      <4> QED  BY <4>1, <4>2, <4>3
    <3>2. CASE ~Split(Hot)
      <4>1. /\ im'[Hot] <= IF Reduced THEN R1div + TailMax(row + 1) ELSE ColumnMax(Hot, row + 1)
            /\ Reduced \/ row < HeadWords
        BY <1>0, <3>2, MulHot
      <4>2. CASE Reduced
        <5>1. pc' = "matmul" /\ Reduced'
          BY <1>1, <1>6, <1>7, <4>2, Constants
        <5> QED  BY <1>1, <4>1, <4>2, <5>1 DEF HotMax
      <4>3. CASE ~Reduced
        <5>1. row < HeadWords /\ ~Reduced'
          BY <1>1, <1>7, <4>1, <4>3 DEF Reduced
        <5>2. (IF row + 1 < HeadWords THEN row + 1 ELSE HeadWords) = row + 1
          BY <1>1, <5>1, Constants
        <5> QED  BY <1>1, <4>1, <4>3, <5>1, <5>2 DEF HotMax
      <4> QED  BY <4>2, <4>3
    <3> QED  BY <3>1, <3>2
  <2>4. part' <= PartMax'
    BY <1>1, <1>9 DEF PartMax
  <2> QED  BY <1>1, <1>2, <2>1, <2>2, <2>3, <2>4 DEF Summing
<1>11. Carrying'
  <2> SUFFICES ASSUME pc' = "carry" PROVE Carrying'
    BY DEF Carrying
  <2>1. row + 1 = Words /\ row' = Words
    BY <1>1
  <2>2. ASSUME NEW k \in 1..(Limbs - 1), k # Hot
        PROVE  im'[k] <= ColumnMax(k, Words) + (IF k = Hot - 1 /\ path # "full" THEN CarryMax ELSE 0)
    <3>1. im'[k] <= ColumnMax(k, Words) + (IF k = Hot - 1 /\ Reduced THEN CarryMax ELSE 0)
      BY <1>5, <2>1, <2>2
    <3>2. ColumnMax(k, Words) \in Nat /\ im'[k] \in Nat
      <4>1. Words \in 0..Words /\ k \in 0..(Limbs - 1)
        BY Constants
      <4> QED  BY <1>2, <4>1, ColumnNat
    <3> QED  BY <1>6, <3>1, <3>2, Constants
  <2>3. TailMax(Words) \in Nat /\ R1div + TailMax(Words) + CarryMax < Wrap
    <3>1. Words \in HeadWords..Words
      BY Constants
    <3> QED  BY <3>1, HotFits
  <2>4. im'[Hot] \in Nat
    BY <1>2, Constants
  <2>5. im'[Hot] + CarryMax < Wrap
    <3>1. CASE Split(Hot)
      <4>1. im'[Hot] = im[Hot] /\ path = "full" /\ row >= HeadWords
        BY <1>0, <3>1, MulPart
      <4>2. im[Hot] <= ColumnMax(Hot, HeadWords)
        BY <1>0, <1>1, <4>1, Constants DEF Summing, HotMax, Reduced
      <4>3. ColumnMax(Hot, HeadWords) + CarryMax < Wrap
        BY ColumnsAssumption
      <4> QED  BY <1>8, <2>4, <4>1, <4>2, <4>3, Constants
    <3>2. CASE ~Split(Hot)
      <4>1. /\ im'[Hot] <= IF Reduced THEN R1div + TailMax(row + 1) ELSE ColumnMax(Hot, row + 1)
            /\ Reduced \/ row < HeadWords
        BY <1>0, <3>2, MulHot
      <4>2. CASE Reduced
        BY <2>1, <2>3, <2>4, <4>1, <4>2, Constants
      <4>3. CASE ~Reduced
        <5>1. Words = HeadWords
          BY <1>1, <2>1, <4>1, <4>3, Constants
        <5>2. ColumnMax(Hot, Words) + CarryMax < Wrap
          BY <5>1, ColumnsAssumption
        <5> QED  BY <1>8, <2>1, <2>4, <4>1, <4>3, <5>1, <5>2, Constants
      <4> QED  BY <4>2, <4>3
    <3> QED  BY <3>1, <3>2
  <2>6. part' + R1div < Wrap /\ (part' # 0 => path = "full")
    <3>1. part' <= IF path = "full" THEN TailMax(Words) ELSE 0
      BY <1>9, <2>1, Constants
    <3>2. part' <= TailMax(Words) /\ (path # "full" => part' <= 0)
      BY <1>3, <2>3, <3>1
    <3>3. part' + R1div < Wrap
      <4>1. \A p, t, r, c, w \in Nat : p <= t /\ r + t + c < w => p + r < w
        OBVIOUS
      <4>2. R1div \in Nat /\ CarryMax \in Nat /\ Wrap \in Nat
        BY Constants
      <4> QED  BY <1>3, <2>3, <3>2, <4>1, <4>2
    <3> QED  BY <1>3, <3>2, <3>3
  <2>7. Pow(R1div, 2) \in Nat
    BY Constants, PowPos
  <2>8. Limbs - 1 >= Hot /\ (Limbs - 1) + 1 > Limbs - 1
    BY Constants
  <2> QED  BY <1>1, <1>2, <2>1, <2>2, <2>5, <2>6, <2>7, <2>8, Constants DEF Carrying
<1>12. Finishing'
  BY <1>1 DEF Finishing
<1>13. ValuePreserved'
  <2>1. Worth = Consumed /\ Worth' = Consumed' => ValuePreserved'
    BY <1>1 DEF ValuePreserved, Worth, Weight
  <2>2. Worth = Consumed
    BY <1>1 DEF Inv, ValuePreserved, Worth
  <2>3. Consumed' = Consumed + bin(row) * Pow(WordBase, Words - 1 - row)
    BY <1>1, ConsumedStep
  <2> DEFINE x == Value(im, Limbs, R1div) + part * Weight(Hot)
             y == Value(im', Limbs, R1div) + part' * Weight(Hot)
             z == bin(row) * Pow(WordBase, Words - 1 - row)
  <2>4. y = x + z
    BY <1>0, MulValue
  <2>5. Worth = x + 0 * Weight(i) + 0 * Weight(Half - 1) /\ Worth' = y + 0 * Weight(i) + 0 * Weight(Half - 1)
    BY <1>1 DEF Worth, Weight
  <2>6. Weight(i) \in Int /\ Weight(Half - 1) \in Int
    <3>1. i \in 0..(Limbs - 1) /\ Half - 1 \in 0..(Limbs - 1)
      BY <1>1, Constants
    <3> QED  BY <3>1, WeightFacts
  <2>7. x \in Int /\ y \in Int
    BY <1>0, <1>2, <1>3, WorthInt DEF Typed
  <2> HIDE DEF x, y, z
  <2>8. Worth = x /\ Worth' = y
    BY <2>5, <2>6, <2>7
  <2> QED  BY <2>1, <2>2, <2>3, <2>4, <2>8 DEF z
<1>14. Rendered' /\ ResultCorrect'
  BY <1>1 DEF Inv, Rendered, ResultCorrect
<1> QED  BY <1>4, <1>10, <1>11, <1>12, <1>13, <1>14 DEF Inv

-----------------------------------------------------------------------------
(* Carries *)

\* A limb that is replaced changes the value with its weight.
LEMMA LimbChange ==
    ASSUME NEW a, NEW b, NEW p \in 0..(Limbs - 1),
           \A k \in 0..(Limbs - 1) : a[k] \in Nat,
           \A k \in 0..(Limbs - 1) : k # p => b[k] = a[k],
           b[p] \in Nat
    PROVE  Value(b, Limbs, R1div) = Value(a, Limbs, R1div) + (b[p] - a[p]) * Weight(p)
<1>1. Limbs \in Nat /\ R1div \in Int
  BY Constants
<1>2. \A k \in 0..(Limbs - 1) : a[k] \in Int
  OBVIOUS
<1>3. b[p] \in Int
  OBVIOUS
<1>4. Value(b, Limbs, R1div) = Value(a, Limbs, R1div) + (b[p] - a[p]) * Pow(R1div, Limbs - 1 - p)
  BY <1>1, <1>2, <1>3, ValueChange
<1> QED  BY <1>4 DEF Weight

\* A uint64 divided by R1div leaves a limb and a carry.
Carries(x, q, r) ==
    x \in Nat /\ q \in Nat /\ r \in Nat /\ r < R1div /\ x = q * R1div + r

\* Quotient and remainder by R1div are such a carry and limb, and the carry out of
\* a uint64 is at most CarryMax.
LEMMA CarryDiv ==
    ASSUME NEW x \in Nat
    PROVE  /\ Carries(x, x \div R1div, x % R1div)
           /\ x < Wrap => x \div R1div <= CarryMax
<1>1. /\ x \div R1div \in Nat /\ x % R1div \in Nat /\ x % R1div < R1div
      /\ x = (x \div R1div) * R1div + (x % R1div)
  BY Constants, DivMod, DivNat
<1>2. ASSUME x < Wrap PROVE x \div R1div <= CarryMax
  <2> DEFINE q == x \div R1div
             c == (Wrap - 1) \div R1div
             s == (Wrap - 1) % R1div
  <2>1. Wrap - 1 \in Int /\ c \in Int /\ s \in 0..(R1div - 1) /\ Wrap - 1 = c * R1div + s
    BY Constants, DivMod
  <2>2. q * R1div <= x /\ q \in Nat
    BY <1>1, Constants
  <2> HIDE DEF q, c, s
  <2>3. ASSUME c + 1 <= q PROVE FALSE
    <3>1. (c + 1) * R1div <= q * R1div
      <4>1. (q - (c + 1)) * R1div >= 0 /\ (q - (c + 1)) * R1div = q * R1div - (c + 1) * R1div
        BY <2>1, <2>2, <2>3, Constants
      <4> QED  BY <2>1, <2>2, <4>1, Constants
    <3>2. (c + 1) * R1div = c * R1div + R1div
      BY <2>1, Constants
    <3> QED  BY <1>2, <2>1, <2>2, <3>1, <3>2, Constants
  <2> QED  BY <2>1, <2>2, <2>3 DEF q, c, CarryMax
<1> QED  BY <1>1, <1>2 DEF Carries

\* Limbs that differ in limb p at most.
SameBut(a, b, p) ==
    /\ p \in 1..(Limbs - 1)
    /\ \A k \in 0..(Limbs - 1) : a[k] \in Nat
    /\ \A k \in 0..(Limbs - 1) : k # p => b[k] = a[k]

\* A limb and the carry into it, once reduced, are worth what they were.
LEMMA CarryWorth ==
    ASSUME NEW a, NEW b, NEW p, NEW x, NEW q, SameBut(a, b, p), Carries(x, q, b[p])
    PROVE  Value(b, Limbs, R1div) + q * Weight(p - 1)
             = Value(a, Limbs, R1div) + (x - a[p]) * Weight(p)
<1> DEFINE v0 == Value(a, Limbs, R1div)
           v1 == Value(b, Limbs, R1div)
           w == Weight(p)
           r == b[p]
<1>0. /\ p \in 1..(Limbs - 1)
      /\ \A k \in 0..(Limbs - 1) : a[k] \in Nat
      /\ \A k \in 0..(Limbs - 1) : k # p => b[k] = a[k]
  BY DEF SameBut
<1>1. p \in 0..(Limbs - 1) /\ a[p] \in Int /\ r \in Nat /\ q \in Int /\ x = q * R1div + r
  BY <1>0, Constants DEF Carries
<1>2. v1 = v0 + (r - a[p]) * w
  BY <1>0, <1>1, LimbChange
<1>3. Weight(p - 1) = w * R1div /\ w \in Int /\ R1div \in Int
  BY <1>0, <1>1, WeightFacts, Constants
<1>4. v0 \in Int
  <2>1. Limbs \in Nat /\ R1div \in Int /\ \A k \in 0..(Limbs - 1) : a[k] \in Int
    BY <1>0, Constants
  <2> QED  BY <2>1, ValueInt
<1> HIDE DEF v0, v1, w, r
<1>5. \A d, R, W \in Int : (v0 + (r - d) * W) + q * (W * R) = v0 + ((q * R + r) - d) * W
  BY <1>1, <1>4
<1>6. (v0 + (r - a[p]) * w) + q * (w * R1div) = v0 + ((q * R1div + r) - a[p]) * w
  BY <1>1, <1>3, <1>5, Zenon
<1> QED  BY <1>1, <1>2, <1>3, <1>6 DEF v0, v1, w

\* The mini-reduction keeps the invariant: column Hot - 1 has room for the carry.
LEMMA MiniReductionStep == Inv /\ MiniReduction => Inv'
<1> SUFFICES ASSUME Inv, MiniReduction PROVE Inv'
  OBVIOUS
<1> DEFINE q == im[Hot] \div R1div
           r == im[Hot] % R1div
           b == [im EXCEPT ![Hot] = r]
           x == im[Hot - 1] + q
           y == im[Hot]
<1>1. /\ pc = "reduce" /\ pc' = "matmul" /\ path # "full"
      /\ src' = src /\ path' = path /\ row' = row /\ part' = part /\ i' = i
      /\ carry' = carry /\ lowCarry' = lowCarry /\ out' = out
      /\ carry = 0 /\ lowCarry = 0 /\ i = Limbs - 1 /\ row = HeadWords /\ row < Words
      /\ im[0] = 0 /\ im \in [0..(Limbs - 1) -> Nat]
      /\ part \in Nat /\ part <= 0 /\ src \in Inputs /\ path \in Paths /\ row \in 0..Words
  BY Constants DEF Inv, Typed, Summing, MiniReduction, PartMax
<1>2. /\ Hot \in 1..(Limbs - 1) /\ Hot \in 0..(Limbs - 1) /\ Hot - 1 # Hot
      /\ Hot - 1 \in 1..(Limbs - 1) /\ Hot - 1 \in 0..(Limbs - 1) /\ Hot - 1 # 0 /\ Hot # 0
      /\ HeadWords \in 0..Words /\ HeadWords \in 0..HeadWords
  BY Constants
<1>3. im[Hot] \in Nat /\ im[Hot - 1] \in Nat
  BY <1>1, <1>2
<1>4. im[Hot] <= ColumnMax(Hot, HeadWords) /\ im[Hot - 1] <= ColumnMax(Hot - 1, row)
  <2>1. ~Reduced /\ ~(row < HeadWords)
    BY <1>1, Constants DEF Reduced
  <2>2. im[Hot] <= HotMax
    BY <1>1 DEF Inv, Summing
  <2>3. im[Hot - 1] <= ColumnMax(Hot - 1, row) + 0
    BY <1>1, <1>2, <2>1 DEF Inv, Summing
  <2>4. ColumnMax(Hot - 1, row) \in Nat
    BY <1>1, <1>2, ColumnNat
  <2> QED  BY <1>3, <2>1, <2>2, <2>3, <2>4 DEF HotMax
<1>5. im[Hot] < Wrap
  <2>1. ColumnMax(Hot, HeadWords) + CarryMax < Wrap /\ ColumnMax(Hot, HeadWords) \in Nat
    BY <1>2, ColumnsAssumption, ColumnNat
  <2> QED  BY <1>3, <1>4, <2>1, Constants
<1>6. Carries(im[Hot], q, r) /\ q \in Nat /\ r \in Nat /\ r < R1div /\ q <= CarryMax
  BY <1>3, <1>5, CarryDiv DEF Carries
<1> HIDE DEF q, r
<1>7. x \in Nat /\ x <= ColumnMax(Hot - 1, row) + CarryMax /\ x < Wrap
  <2>1. ColumnMax(Hot - 1, row) + CarryMax < Wrap
    BY <1>1, <1>2, ColumnFits
  <2>2. ColumnMax(Hot - 1, row) \in Nat
    BY <1>1, <1>2, ColumnNat
  <2> QED  BY <1>3, <1>4, <1>6, <2>1, <2>2, Constants
<1>8. im' = [b EXCEPT ![Hot - 1] = x]
  <2>1. uint64(x) = x
    BY <1>7, NoWrap
  <2>2. im' = [im EXCEPT ![Hot - 1] = uint64(x), ![Hot] = r]
    BY DEF MiniReduction, q, r
  <2>3. im' = [im EXCEPT ![Hot - 1] = x, ![Hot] = r]
    BY <2>1, <2>2
  <2> QED  BY <1>1, <1>2, <2>3
<1>9. b \in [0..(Limbs - 1) -> Nat] /\ b[Hot - 1] = im[Hot - 1]
  BY <1>1, <1>2, <1>6
<1>10. /\ im' \in [0..(Limbs - 1) -> Nat] /\ im'[0] = 0
       /\ im'[Hot] = r /\ im'[Hot - 1] = x
       /\ \A k \in 0..(Limbs - 1) : k \notin {Hot, Hot - 1} => im'[k] = im[k]
  <2> HIDE DEF x
  <2> QED  BY <1>1, <1>2, <1>6, <1>7, <1>8
<1>11. Typed'
  BY <1>1, <1>10 DEF Inv, Typed
<1>12. Summing'
  <2>1. Reduced' /\ ~Reduced
    BY <1>1, Constants DEF Reduced
  <2>2. ASSUME NEW k \in 1..(Limbs - 1), k # Hot
        PROVE  im'[k] <= ColumnMax(k, row') + (IF k = Hot - 1 /\ Reduced' THEN CarryMax ELSE 0)
    <3>1. CASE k = Hot - 1
      BY <1>1, <1>7, <1>10, <2>1, <3>1
    <3>2. CASE k # Hot - 1
      <4>1. im'[k] = im[k]
        BY <1>10, <2>2, <3>2
      <4>2. im[k] <= ColumnMax(k, row) + 0
        BY <1>1, <2>1, <2>2, <3>2 DEF Inv, Summing
      <4> QED  BY <1>1, <3>2, <4>1, <4>2
    <3> QED  BY <3>1, <3>2
  <2>3. im'[Hot] <= HotMax'
    <3>1. TailMax(HeadWords) = 0
      <4>1. ColumnMax(Hot, HeadWords) \in Nat
        BY <1>2, ColumnNat
      <4> QED  BY <4>1 DEF TailMax
    <3>2. HotMax' = R1div + TailMax(HeadWords)
      BY <1>1, <2>1 DEF HotMax
    <3> QED  BY <1>6, <1>10, <3>1, <3>2, Constants
  <2>4. part' <= PartMax'
    BY <1>1 DEF PartMax
  <2> QED  BY <1>1, <1>10, <2>2, <2>3, <2>4 DEF Summing
<1>13. Carrying' /\ Finishing'
  BY <1>1 DEF Carrying, Finishing
<1>14. Value(im', Limbs, R1div) = Value(im, Limbs, R1div)
  <2>1. Value(b, Limbs, R1div) + q * Weight(Hot - 1)
          = Value(im, Limbs, R1div) + (y - im[Hot]) * Weight(Hot)
    <3>1. /\ \A k \in 0..(Limbs - 1) : im[k] \in Nat
          /\ \A k \in 0..(Limbs - 1) : k # Hot => b[k] = im[k]
          /\ b[Hot] = r
      BY <1>1, <1>2
    <3>2. Carries(y, q, b[Hot])
      BY <1>6, <3>1
    <3>3. SameBut(im, b, Hot)
      BY <1>2, <3>1 DEF SameBut
    <3> HIDE DEF b, y
    <3> QED  BY <3>2, <3>3, CarryWorth
  <2>2. Value(im', Limbs, R1div) = Value(b, Limbs, R1div) + (x - b[Hot - 1]) * Weight(Hot - 1)
    <3>1. /\ \A k \in 0..(Limbs - 1) : b[k] \in Nat
          /\ \A k \in 0..(Limbs - 1) : k # Hot - 1 => im'[k] = b[k]
          /\ im'[Hot - 1] \in Nat
      BY <1>1, <1>2, <1>6, <1>10
    <3> HIDE DEF b, x
    <3>2. Value(im', Limbs, R1div) = Value(b, Limbs, R1div) + (im'[Hot - 1] - b[Hot - 1]) * Weight(Hot - 1)
      BY <1>2, <3>1, LimbChange
    <3> QED  BY <1>10, <3>2
  <2>3. x - b[Hot - 1] = q
    BY <1>3, <1>6, <1>9
  <2>4. Weight(Hot) \in Int /\ Weight(Hot - 1) \in Int
    BY <1>2, WeightFacts
  <2>5. Value(im, Limbs, R1div) \in Int
    BY <1>1, LimbsNat
  <2>6. \A u, w, d \in Int : u + (d - d) * w = u
    OBVIOUS
  <2> QED  BY <1>3, <2>1, <2>2, <2>3, <2>4, <2>5, <2>6
<1>15. ValuePreserved'
  <2>1. Consumed' = Consumed
    BY <1>1 DEF Consumed, bin
  <2> QED  BY <1>1, <1>14, <2>1 DEF Inv, ValuePreserved, Weight
<1>16. Rendered' /\ ResultCorrect'
  BY <1>1 DEF Inv, Rendered, ResultCorrect
<1> QED  BY <1>11, <1>12, <1>13, <1>15, <1>16 DEF Inv

\* The sum of a column and the carry into it does not wrap.
LEMMA CarryIn ==
    ASSUME Typed, Carrying, pc = "carry", i \in 1..(Limbs - 1)
    PROVE  v = im[i] + carry /\ v \in Nat /\ v < Wrap
<1>1. im[i] \in Nat /\ carry \in Nat
  BY Constants DEF Typed
<1>2. im[i] + carry < Wrap
  <2>1. CASE i = Hot
    <3>1. im[Hot] + CarryMax < Wrap /\ carry <= CarryMax
      BY <2>1, Constants DEF Carrying
    <3> QED  BY <1>1, <2>1, <3>1, Constants
  <2>2. CASE i = Hot - 1
    <3>1. i # Hot /\ i \in 1..i
      BY <2>2, Constants
    <3>2. im[i] <= ColumnMax(i, Words) + (IF path # "full" THEN CarryMax ELSE 0)
      BY <2>2, <3>1 DEF Carrying
    <3>3. carry <= IF path = "full" THEN 2 * CarryMax ELSE CarryMax
      BY <2>2 DEF Carrying
    <3>4. ColumnMax(i, Words) + 2 * CarryMax < Wrap
      BY <2>2, ColumnsAssumption
    <3>5. ColumnMax(i, Words) \in Nat
      <4>1. Words \in 0..Words
        BY Constants
      <4> QED  BY <4>1, ColumnNat
    <3> QED  BY <1>1, <3>2, <3>3, <3>4, <3>5, Constants
  <2>3. CASE i # Hot /\ i # Hot - 1
    <3>1. im[i] <= ColumnMax(i, Words) + 0 /\ carry <= CarryMax
      BY <2>3, Constants DEF Carrying
    <3>2. ColumnMax(i, Words) + CarryMax < Wrap
      BY <2>3, ColumnsAssumption
    <3>3. ColumnMax(i, Words) \in Nat
      <4>1. Words \in 0..Words
        BY Constants
      <4> QED  BY <4>1, ColumnNat
    <3> QED  BY <1>1, <3>1, <3>2, <3>3, Constants
  <2> QED  BY <2>1, <2>2, <2>3
<1>3. im[i] + carry \in Nat
  BY <1>1
<1> QED  BY <1>2, <1>3, NoWrap DEF v

\* The serial chain keeps the invariant.
LEMMA CarryStepStep == Inv /\ CarryStep => Inv'
<1> SUFFICES ASSUME Inv, CarryStep PROVE Inv'
  OBVIOUS
<1> DEFINE x == v
           q == v \div R1div
           r == v % R1div
<1>1. /\ pc = "carry" /\ pc' = "carry" /\ i \in 1..(Limbs - 1) /\ i \in 0..(Limbs - 1)
      /\ i' = i - 1 /\ i' \in 0..(Limbs - 1)
      /\ path = "full" => i < Half
      /\ src' = src /\ path' = path /\ row' = row /\ part' = part /\ lowCarry' = lowCarry /\ out' = out
      /\ im' = [im EXCEPT ![i] = r] /\ carry' = q
      /\ im \in [0..(Limbs - 1) -> Nat] /\ carry \in Nat /\ part \in Nat /\ lowCarry \in Nat
  BY Constants DEF Inv, Typed, CarryStep
<1>2. x = im[i] + carry /\ x \in Nat /\ x < Wrap
  BY <1>1, CarryIn DEF Inv
<1>3. Carries(x, q, r) /\ q \in Nat /\ r \in Nat /\ r < R1div /\ q <= CarryMax
  BY <1>2, CarryDiv DEF Carries
<1> HIDE DEF x, q, r
<1>4. /\ im' \in [0..(Limbs - 1) -> Nat] /\ im'[i] = r
      /\ \A k \in 0..(Limbs - 1) : k # i => im'[k] = im[k]
  BY <1>1, <1>3
<1>5. part = 0
  <2>1. part # 0 => path = "full" /\ i >= Hot
    BY <1>1 DEF Inv, Carrying
  <2>2. path = "full" => Half < Hot
    BY HalfFacts, Constants DEF Inv, Typed
  <2> QED  BY <1>1, <2>1, <2>2, Constants
<1>6. Typed'
  BY <1>1, <1>3, <1>4 DEF Inv, Typed
<1>7. Summing' /\ Finishing'
  BY <1>1 DEF Summing, Finishing
<1>8. Carrying'
  <2>1. im'[0] = 0
    <3>1. 0 \in 0..(Limbs - 1) /\ 0 # i
      BY <1>1, Constants
    <3> QED  BY <1>1, <1>4, <3>1 DEF Inv, Carrying
  <2>2. ASSUME NEW k \in (i' + 1)..(Limbs - 1) PROVE im'[k] < R1div
    <3>1. k = i \/ (k # i /\ k \in (i + 1)..(Limbs - 1) /\ k \in 0..(Limbs - 1))
      BY <1>1, Constants
    <3>2. \A y \in (i + 1)..(Limbs - 1) : im[y] < R1div
      BY <1>1 DEF Inv, Carrying
    <3> QED  BY <1>3, <1>4, <3>1, <3>2
  <2>3. ASSUME NEW k \in 1..i', k # Hot
        PROVE  im'[k] <= ColumnMax(k, Words) + (IF k = Hot - 1 /\ path # "full" THEN CarryMax ELSE 0)
    <3>1. k \in 1..i /\ k # i /\ k \in 0..(Limbs - 1)
      BY <1>1, Constants
    <3> QED  BY <1>1, <1>4, <2>3, <3>1 DEF Inv, Carrying
  <2>4. Hot <= i' => im'[Hot] + CarryMax < Wrap
    <3> SUFFICES ASSUME Hot <= i' PROVE im'[Hot] + CarryMax < Wrap
      OBVIOUS
    <3>1. Hot <= i /\ Hot # i /\ Hot \in 0..(Limbs - 1)
      BY <1>1, Constants
    <3> QED  BY <1>1, <1>4, <3>1 DEF Inv, Carrying
  <2>5. carry' <= IF i' = Hot - 1 /\ path' = "full" THEN 2 * CarryMax ELSE CarryMax
    BY <1>1, <1>3, Constants
  <2>6. lowCarry' # 0 => path' = "full" /\ i' < Half
    BY <1>1, Constants DEF Inv, Carrying
  <2>7. part' # 0 => path' = "full" /\ i' >= Hot
    BY <1>1, <1>5
  <2>8. row' = Words /\ part' + R1div < Wrap /\ lowCarry' <= Pow(R1div, 2)
    BY <1>1 DEF Inv, Carrying
  <2> QED  BY <1>1, <2>1, <2>2, <2>3, <2>4, <2>5, <2>6, <2>7, <2>8 DEF Carrying
<1>9. ValuePreserved'
  <2>1. Value(im', Limbs, R1div) + q * Weight(i - 1) = Value(im, Limbs, R1div) + (x - im[i]) * Weight(i)
    <3>1. \A k \in 0..(Limbs - 1) : im[k] \in Nat
      BY <1>1
    <3>2. Carries(x, q, im'[i])
      BY <1>3, <1>4
    <3>3. i \in 1..(Limbs - 1) /\ \A k \in 0..(Limbs - 1) : k # i => im'[k] = im[k]
      BY <1>1, <1>4
    <3>4. SameBut(im, im', i)
      BY <3>1, <3>3 DEF SameBut
    <3> QED  BY <3>2, <3>4, CarryWorth
  <2>2. x - im[i] = carry
    <3>1. im[i] \in Nat
      BY <1>1
    <3> QED  BY <1>1, <1>2, <3>1
  <2>3. Consumed' = Consumed
    BY <1>1 DEF Consumed, bin
  <2>4. Value(im, Limbs, R1div) + part * Weight(Hot) + carry * Weight(i) + lowCarry * Weight(Half - 1) = Consumed
    BY <1>1 DEF Inv, ValuePreserved
  <2>5. /\ Weight(Hot) \in Int /\ Weight(i) \in Int /\ Weight(i - 1) \in Int /\ Weight(Half - 1) \in Int
    <3>1. Hot \in 0..(Limbs - 1) /\ i - 1 \in 0..(Limbs - 1) /\ Half - 1 \in 0..(Limbs - 1)
      BY <1>1, Constants
    <3> QED  BY <1>1, <3>1, WeightFacts
  <2>6. Value(im, Limbs, R1div) \in Int /\ Value(im', Limbs, R1div) \in Int
    <3>1. im \in [0..(Limbs - 1) -> Nat] /\ im' \in [0..(Limbs - 1) -> Nat]
      BY <1>1, <1>4
    <3>2. Value(im, Limbs, R1div) \in Nat /\ Value(im', Limbs, R1div) \in Nat
      BY <3>1, LimbsNat, Zenon
    <3> QED  BY <3>2
  <2>7. q * Weight(i - 1) \in Int /\ carry * Weight(i) \in Int /\ lowCarry * Weight(Half - 1) \in Int /\ part * Weight(Hot) \in Int
    BY <1>1, <1>3, <2>5
  <2>8. \A a, b, c, d, e, f, g \in Int : a + b = c + d /\ c + e + d + f = g => a + e + b + f = g
    OBVIOUS
  <2>9. Consumed \in Int
    BY <2>4, <2>6, <2>7
  <2>10. Value(im', Limbs, R1div) + part * Weight(Hot) + q * Weight(i - 1) + lowCarry * Weight(Half - 1) = Consumed
    BY <2>1, <2>2, <2>4, <2>6, <2>7, <2>8, <2>9
  <2> QED  BY <1>1, <2>3, <2>10 DEF ValuePreserved, Weight
<1>10. Rendered' /\ ResultCorrect'
  BY <1>1 DEF Inv, Rendered, ResultCorrect
<1> QED  BY <1>6, <1>7, <1>8, <1>9, <1>10 DEF Inv

\* Below R1div^2 if the sum is below R1div^3: what the low half hands on.
LEMMA CarrySquare ==
    ASSUME NEW x, NEW q, NEW r, Carries(x, q, r), x < Pow(R1div, 3)
    PROVE  q <= Pow(R1div, 2)
<1> DEFINE s == Pow(R1div, 2)
<1>1. Pow(R1div, 2 + 1) = Pow(R1div, 2) * R1div /\ s \in Nat
  BY Constants, PowStep, PowPos
<1>2. x \in Nat /\ q \in Nat /\ r \in Nat /\ x = q * R1div + r /\ x < s * R1div
  <2>1. 2 + 1 = 3
    OBVIOUS
  <2> QED  BY <1>1, <2>1 DEF Carries
<1> HIDE DEF s
<1>3. ASSUME s + 1 <= q PROVE FALSE
  <2>1. (q - (s + 1)) * R1div >= 0 /\ (q - (s + 1)) * R1div = q * R1div - s * R1div - R1div
    BY <1>1, <1>2, <1>3, Constants
  <2>2. q * R1div \in Int /\ s * R1div \in Int
    BY <1>1, <1>2, Constants
  <2> QED  BY <1>2, <2>1, <2>2, Constants
<1>4. q <= s
  BY <1>1, <1>2, <1>3
<1> QED  BY <1>4 DEF s

\* Two sums of a limb, reduced one after the other.
LEMMA CarryTwice ==
    ASSUME NEW a, NEW b, NEW p, NEW x, NEW q, NEW r, NEW y, NEW u,
           SameBut(a, b, p), Carries(x, q, r), Carries(y, u, b[p])
    PROVE  Value(b, Limbs, R1div) + (q + u) * Weight(p - 1)
             = Value(a, Limbs, R1div) + (x - a[p]) * Weight(p) + (y - r) * Weight(p)
<1> DEFINE m == [k \in 0..(Limbs - 1) |-> IF k = p THEN r ELSE a[k]]
           v0 == Value(a, Limbs, R1div)
           v1 == Value(m, Limbs, R1div)
           v2 == Value(b, Limbs, R1div)
           w == Weight(p)
           z == Weight(p - 1)
<1>0. /\ p \in 1..(Limbs - 1)
      /\ \A k \in 0..(Limbs - 1) : a[k] \in Nat
      /\ \A k \in 0..(Limbs - 1) : k # p => b[k] = a[k]
  BY DEF SameBut
<1>1. x \in Int /\ q \in Int /\ y \in Int /\ u \in Int /\ r \in Nat /\ b[p] \in Nat
  BY DEF Carries
<1>2. p \in 0..(Limbs - 1) /\ p - 1 \in 0..(Limbs - 1) /\ a[p] \in Int /\ Limbs \in Nat /\ R1div \in Int
  BY <1>0, Constants
<1>3. /\ m[p] = r
      /\ \A k \in 0..(Limbs - 1) : m[k] \in Nat
      /\ \A k \in 0..(Limbs - 1) : k # p => m[k] = a[k]
      /\ \A k \in 0..(Limbs - 1) : k # p => b[k] = m[k]
  BY <1>0, <1>1, <1>2
<1> HIDE DEF m
<1>4. Carries(x, q, m[p]) /\ SameBut(a, m, p) /\ SameBut(m, b, p)
  BY <1>0, <1>3 DEF SameBut
<1>5. v1 + q * z = v0 + (x - a[p]) * w
  BY <1>4, CarryWorth
<1>6. v2 + u * z = v1 + (y - m[p]) * w
  BY <1>4, CarryWorth
<1>7. v0 \in Int /\ v1 \in Int /\ v2 \in Int
  <2>1. /\ \A k \in 0..(Limbs - 1) : a[k] \in Int
        /\ \A k \in 0..(Limbs - 1) : b[k] \in Int
        /\ \A k \in 0..(Limbs - 1) : m[k] \in Int
    BY <1>0, <1>1, <1>3
  <2> QED  BY <1>2, <2>1, ValueInt
<1>8. w \in Int /\ z \in Int
  BY <1>2, WeightFacts
<1> HIDE DEF v0, v1, v2, w, z
<1>9. (q + u) * z = q * z + u * z
  BY <1>1, <1>8
<1>10. q * z \in Int /\ u * z \in Int /\ (x - a[p]) * w \in Int /\ (y - r) * w \in Int
  BY <1>1, <1>2, <1>8
<1>11. v2 + (q + u) * z = v0 + (x - a[p]) * w + (y - r) * w
  BY <1>3, <1>5, <1>6, <1>7, <1>9, <1>10
<1> QED  BY <1>11 DEF v0, v2, w, z

\* The chain of the low half keeps the invariant: neither sum of column Hot is
\* lost, and the carry out of the half is at most two limbs long.
LEMMA LowCarryStepStep == Inv /\ LowCarryStep => Inv'
<1> SUFFICES ASSUME Inv, LowCarryStep PROVE Inv'
  OBVIOUS
<1> DEFINE x == v
           q == x \div R1div
           r == x % R1div
           y == r + part
           w == IF i = Hot THEN y ELSE x
           t == w % R1div
           u == y \div R1div
           c == IF i = Hot THEN q + u ELSE q
<1>0. Half \in 3..(Limbs - 3) /\ Half < Hot
  BY HalfFacts, Constants DEF Inv, Typed, LowCarryStep
<1>1. /\ pc = "carry" /\ pc' = "carry" /\ path = "full" /\ i >= Half
      /\ i \in 1..(Limbs - 1) /\ i \in 0..(Limbs - 1) /\ i' = i - 1 /\ i' \in 0..(Limbs - 1)
      /\ src' = src /\ path' = path /\ row' = row /\ out' = out
      /\ im \in [0..(Limbs - 1) -> Nat] /\ carry \in Nat /\ part \in Nat /\ lowCarry \in Nat
  BY <1>0, Constants DEF Inv, Typed, LowCarryStep
<1>2. x = im[i] + carry /\ x \in Nat /\ x < Wrap
  BY <1>1, CarryIn DEF Inv
<1> HIDE DEF x
<1>3. Carries(x, q, r) /\ q \in Nat /\ r \in Nat /\ r < R1div /\ q <= CarryMax
  BY <1>2, CarryDiv DEF Carries
<1>4. y \in Nat /\ y < Wrap
  <2>1. part + R1div < Wrap
    BY <1>1 DEF Inv, Carrying
  <2> HIDE DEF r
  <2> QED  BY <1>1, <1>3, <2>1, Constants
<1>5. Carries(y, u, y % R1div) /\ u \in Nat /\ u <= CarryMax
  <2> HIDE DEF y
  <2> QED  BY <1>4, CarryDiv DEF Carries
<1>6. /\ im' = [im EXCEPT ![i] = t]
      /\ part' = (IF i = Hot THEN 0 ELSE part)
      /\ carry' = (IF i = Half THEN 0 ELSE c)
      /\ lowCarry' = (IF i = Half THEN c ELSE 0)
  <2>1. uint64((v % R1div) + part) = y
    <3>1. uint64(y) = y
      <4> HIDE DEF y
      <4> QED  BY <1>4, NoWrap
    <3> QED  BY <3>1 DEF x
  <2> QED  BY <2>1 DEF LowCarryStep, x
<1>7. t \in Nat /\ t < R1div
  <2>1. t = (IF i = Hot THEN y % R1div ELSE r)
    OBVIOUS
  <2>2. y % R1div \in Nat /\ y % R1div < R1div
    BY <1>5 DEF Carries
  <2> HIDE DEF t
  <2> QED  BY <1>3, <2>1, <2>2
<1>8. c \in Nat /\ c <= 2 * CarryMax /\ (i # Hot => c <= CarryMax)
  <2> HIDE DEF q, u
  <2> QED  BY <1>3, <1>5, Constants
<1> HIDE DEF t, c
<1>9. /\ im' \in [0..(Limbs - 1) -> Nat] /\ im'[i] = t
      /\ \A k \in 0..(Limbs - 1) : k # i => im'[k] = im[k]
  BY <1>1, <1>6, <1>7
<1>10. part' \in Nat /\ carry' \in Nat /\ lowCarry' \in Nat
  BY <1>1, <1>6, <1>8
<1>11. lowCarry = 0 /\ row = Words /\ im[0] = 0
  <2>1. ~(i < Half) /\ (lowCarry # 0 => i < Half)
    BY <1>0, <1>1 DEF Inv, Carrying
  <2> QED  BY <1>1, <2>1 DEF Inv, Carrying
<1>12. Typed'
  BY <1>1, <1>9, <1>10 DEF Inv, Typed
<1>13. Summing' /\ Finishing'
  BY <1>1 DEF Summing, Finishing
<1>14. Carrying'
  <2>1. im'[0] = 0
    <3>1. 0 \in 0..(Limbs - 1) /\ 0 # i
      BY <1>1, Constants
    <3> QED  BY <1>9, <1>11, <3>1
  <2>2. ASSUME NEW k \in (i' + 1)..(Limbs - 1) PROVE im'[k] < R1div
    <3>1. k = i \/ (k # i /\ k \in (i + 1)..(Limbs - 1) /\ k \in 0..(Limbs - 1))
      BY <1>1, Constants
    <3>2. \A z \in (i + 1)..(Limbs - 1) : im[z] < R1div
      BY <1>1 DEF Inv, Carrying
    <3> QED  BY <1>7, <1>9, <3>1, <3>2
  <2>3. ASSUME NEW k \in 1..i', k # Hot
        PROVE  im'[k] <= ColumnMax(k, Words) + (IF k = Hot - 1 /\ path # "full" THEN CarryMax ELSE 0)
    <3>1. k \in 1..i /\ k # i /\ k \in 0..(Limbs - 1)
      BY <1>1, Constants
    <3> QED  BY <1>1, <1>9, <2>3, <3>1 DEF Inv, Carrying
  <2>4. Hot <= i' => im'[Hot] + CarryMax < Wrap
    <3> SUFFICES ASSUME Hot <= i' PROVE im'[Hot] + CarryMax < Wrap
      OBVIOUS
    <3>1. Hot <= i /\ Hot # i /\ Hot \in 0..(Limbs - 1)
      BY <1>1, Constants
    <3> QED  BY <1>1, <1>9, <3>1 DEF Inv, Carrying
  <2>5. carry' <= IF i' = Hot - 1 /\ path' = "full" THEN 2 * CarryMax ELSE CarryMax
    <3>1. i' = Hot - 1 <=> i = Hot
      BY <1>1, Constants
    <3> QED  BY <1>1, <1>6, <1>8, <1>10, <3>1, Constants
  <2>6. lowCarry' # 0 => path' = "full" /\ i' < Half
    BY <1>0, <1>1, <1>6
  <2>7. part' # 0 => path' = "full" /\ i' >= Hot
    <3>1. part # 0 => i >= Hot
      BY <1>1 DEF Inv, Carrying
    <3> QED  BY <1>1, <1>6, <3>1, Constants
  <2>8. part' + R1div < Wrap
    <3>1. part + R1div < Wrap
      BY <1>1 DEF Inv, Carrying
    <3> QED  BY <1>1, <1>6, <3>1, Constants
  <2>9. lowCarry' <= Pow(R1div, 2)
    <3>1. Pow(R1div, 2) \in Nat
      BY Constants, PowPos
    <3>2. ASSUME i = Half PROVE c <= Pow(R1div, 2)
      <4>1. i # Hot /\ i \in 1..i /\ Half \in 1..(Limbs - 1) /\ Words \in 0..Words
        BY <1>0, <1>1, <3>2, Constants
      <4>2. c = q
        BY <4>1 DEF c
      <4>3. im[i] <= ColumnMax(i, Words) + 0 /\ carry <= 2 * CarryMax
        BY <1>1, <4>1, Constants DEF Inv, Carrying
      <4>4. ColumnMax(i, Words) + 2 * CarryMax < Pow(R1div, 3)
        BY <1>1, <3>2, ColumnsAssumption DEF Inv, Typed
      <4>5. ColumnMax(i, Words) \in Nat
        BY <3>2, <4>1, ColumnNat
      <4>6. Pow(R1div, 3) \in Nat
        BY Constants, PowPos
      <4>7. im[i] \in Nat
        BY <1>1
      <4>8. x < Pow(R1div, 3)
        BY <1>1, <1>2, <4>3, <4>4, <4>5, <4>6, <4>7, Constants, SMTT(30)
      <4> HIDE DEF q, r
      <4>9. q <= Pow(R1div, 2)
        BY <1>3, <4>8, CarrySquare
      <4> QED  BY <4>2, <4>9
    <3> QED  BY <1>6, <3>1, <3>2
  <2> QED  BY <1>1, <1>11, <2>1, <2>2, <2>3, <2>4, <2>5, <2>6, <2>7, <2>8, <2>9 DEF Carrying
<1>15. ValuePreserved'
  <2> DEFINE a == im
             b == im'
             p == i
             val0 == Value(a, Limbs, R1div)
             val1 == Value(b, Limbs, R1div)
  <2>1. /\ \A k \in 0..(Limbs - 1) : a[k] \in Nat
        /\ p \in 1..(Limbs - 1)
        /\ \A k \in 0..(Limbs - 1) : k # p => b[k] = a[k]
        /\ b[p] = t
        /\ SameBut(a, b, p)
    BY <1>1, <1>9 DEF SameBut
  <2>2. a[p] \in Nat /\ x - a[p] = carry
    BY <1>1, <1>2
  <2>3. part # 0 /\ i # Hot => i > Hot
    BY <1>1, Constants DEF Inv, Carrying
  <2> HIDE DEF a, b, p
  <2>4. val1 + c * Weight(p - 1) + part' * Weight(Hot) = val0 + carry * Weight(p) + part * Weight(Hot)
    <3>1. CASE i = Hot
      <4> HIDE DEF q, r, u, y
      <4>1. Carries(y, u, b[p])
        BY <1>5, <2>1, <3>1 DEF t
      <4>2. val1 + (q + u) * Weight(p - 1) = val0 + (x - a[p]) * Weight(p) + (y - r) * Weight(p)
        <5>1. SameBut(a, b, p) /\ Carries(x, q, r) /\ Carries(y, u, b[p])
          BY <1>3, <2>1, <4>1
        <5> QED  BY <5>1, CarryTwice, SMTT(30)
      <4>3. y - r = part
        BY <1>1, <1>3 DEF y
      <4>4. c = q + u /\ part' = 0 /\ p = Hot
        BY <1>6, <3>1 DEF c, p
      <4>5. Weight(Hot) \in Int /\ val1 + (q + u) * Weight(p - 1) \in Int
        <5>1. Hot \in 0..(Limbs - 1)
          BY Constants
        <5>2. Weight(Hot) \in Int
          BY <5>1, WeightFacts
        <5>3. Limbs \in Nat /\ R1div \in Int /\ \A k \in 0..(Limbs - 1) : a[k] \in Int
          BY <2>1, Constants
        <5>4. val0 \in Int
          BY <5>3, ValueInt
        <5> QED  BY <1>1, <2>2, <4>2, <4>3, <4>4, <5>2, <5>4
      <4>6. \A e, f \in Int : e + 0 * f = e
        OBVIOUS
      <4> QED  BY <2>2, <4>2, <4>3, <4>4, <4>5, <4>6
    <3>2. CASE i # Hot
      <4>1. c = q /\ part' = part
        BY <1>6, <3>2 DEF c
      <4>2. t = r
        BY <3>2 DEF t
      <4> HIDE DEF q, r
      <4>3. Carries(x, q, b[p])
        BY <1>3, <2>1, <4>2
      <4>4. val1 + q * Weight(p - 1) = val0 + (x - a[p]) * Weight(p)
        BY <2>1, <4>3, CarryWorth
      <4> QED  BY <2>2, <4>1, <4>4
    <3> QED  BY <3>1, <3>2
  <2>5. /\ Weight(Hot) \in Int /\ Weight(i) \in Int /\ Weight(i - 1) \in Int /\ Weight(Half - 1) \in Int
    <3>1. Hot \in 0..(Limbs - 1) /\ i - 1 \in 0..(Limbs - 1) /\ Half - 1 \in 0..(Limbs - 1)
      BY <1>1, Constants
    <3> QED  BY <1>1, <3>1, WeightFacts
  <2>6. val0 \in Int /\ val1 \in Int
    <3>1. Limbs \in Nat /\ R1div \in Int /\ (\A k \in 0..(Limbs - 1) : a[k] \in Int) /\ (\A k \in 0..(Limbs - 1) : b[k] \in Int)
      BY <1>7, <2>1, Constants
    <3> QED  BY <3>1, ValueInt
  <2>7. Consumed' = Consumed
    BY <1>1 DEF Consumed, bin
  <2>8. val0 + part * Weight(Hot) + carry * Weight(i) + lowCarry * Weight(Half - 1) = Consumed
    BY <1>1 DEF Inv, ValuePreserved, a
  <2>9. val1 + part' * Weight(Hot) + carry' * Weight(i') + lowCarry' * Weight(Half - 1) = Consumed
    <3>1. val1 + c * Weight(i - 1) + part' * Weight(Hot) = val0 + carry * Weight(i) + part * Weight(Hot)
      BY <2>4 DEF p
    <3>2. carry' * Weight(i') + lowCarry' * Weight(Half - 1) = c * Weight(i - 1)
      <4>1. c * Weight(i - 1) \in Int
        BY <1>8, <2>5
      <4>2. CASE i = Half
        <5>1. Weight(i') = Weight(Half - 1) /\ Weight(i - 1) = Weight(Half - 1)
          BY <1>1, <4>2
        <5> QED  BY <1>6, <1>8, <2>5, <4>1, <4>2, <5>1
      <4>3. CASE i # Half
        <5>1. Weight(i') = Weight(i - 1)
          BY <1>1
        <5> QED  BY <1>6, <1>8, <2>5, <4>1, <4>3, <5>1
      <4> QED  BY <4>2, <4>3
    <3>3. lowCarry * Weight(Half - 1) = 0
      BY <1>11, <2>5
    <3>4. /\ part' * Weight(Hot) \in Int /\ part * Weight(Hot) \in Int /\ carry * Weight(i) \in Int
          /\ carry' * Weight(i') \in Int /\ lowCarry' * Weight(Half - 1) \in Int /\ c * Weight(i - 1) \in Int
      <4>1. Weight(i') \in Int
        BY <1>1, <2>5
      <4>2. \A e, f \in Int : e * f \in Int
        OBVIOUS
      <4>3. {part, part', carry, carry', lowCarry', c} \subseteq Int
        BY <1>1, <1>8, <1>10
      <4> QED  BY <2>5, <4>1, <4>2, <4>3
    <3> HIDE DEF val0, val1
    <3>5. \A e, f, g, h, j, k, l, m \in Int :
            e + f + g = h + j + k /\ l + m = f => e + g + l + m = h + k + j + 0
      OBVIOUS
    <3>6. val1 + part' * Weight(Hot) + carry' * Weight(i') + lowCarry' * Weight(Half - 1)
            = val0 + part * Weight(Hot) + carry * Weight(i) + 0
      BY <2>6, <3>1, <3>2, <3>4, <3>5
    <3> QED  BY <2>8, <3>3, <3>6
  <2> QED  BY <1>1, <2>7, <2>9 DEF ValuePreserved, Weight, b
<1>16. Rendered' /\ ResultCorrect'
  BY <1>1 DEF Inv, Rendered, ResultCorrect
<1> QED  BY <1>12, <1>13, <1>14, <1>15, <1>16 DEF Inv

\* A number that fits the limbs has a first limb below R1div.
LEMMA TopLimb ==
    ASSUME NEW a, \A k \in 0..(Limbs - 1) : a[k] \in Nat,
           Value(a, Limbs, R1div) < Pow(R1div, Limbs)
    PROVE  a[0] < R1div
<1> DEFINE w == Pow(R1div, Limbs - 1)
           val == Value(a, Limbs, R1div)
<1>1. /\ Limbs \in Nat /\ R1div \in Nat \ {0} /\ 0 \in 0..(Limbs - 1) /\ Limbs - 1 - 0 = Limbs - 1
      /\ Limbs - 1 \in Nat /\ (Limbs - 1) + 1 = Limbs /\ R1div \in Nat /\ R1div \in Int
  BY Constants
<1>2. a[0] * w <= val
  <2>1. a[0] * Pow(R1div, Limbs - 1 - 0) <= Value(a, Limbs, R1div)
    BY <1>1, ValueFloor
  <2> QED  BY <1>1, <2>1
<1>3. w \in Nat \ {0} /\ val \in Nat /\ a[0] \in Nat
  BY <1>1, PowPos, ValueNat
<1>4. Pow(R1div, Limbs) = w * R1div
  <2>1. Pow(R1div, (Limbs - 1) + 1) = Pow(R1div, Limbs - 1) * R1div
    BY <1>1, PowStep
  <2> QED  BY <1>1, <2>1
<1>5. val < w * R1div
  BY <1>4
<1> HIDE DEF w, val
<1>6. ASSUME a[0] >= R1div PROVE FALSE
  <2>1. (a[0] - R1div) * w >= 0 /\ (a[0] - R1div) * w = a[0] * w - w * R1div
    BY <1>1, <1>3, <1>6
  <2>2. a[0] * w \in Int /\ w * R1div \in Int
    BY <1>1, <1>3
  <2> QED  BY <1>2, <1>3, <1>5, <2>1, <2>2
<1> QED  BY <1>1, <1>3, <1>6

\* What is left of the sum when the carries are in the limbs.
LEMMA WorthFits ==
    ASSUME Typed, ValuePreserved, pc # "done"
    PROVE  /\ Consumed \in Nat /\ Consumed < Pow(R1div, Limbs)
           /\ Value(im, Limbs, R1div) + carry * Weight(i) <= Consumed
           /\ part = 0 /\ lowCarry = 0 => Value(im, Limbs, R1div) + carry * Weight(i) = Consumed
<1>1. Consumed \in Nat /\ Consumed < Pow(R1div, Limbs)
  BY ConsumedRange DEF Typed
<1>2. Value(im, Limbs, R1div) + part * Weight(Hot) + carry * Weight(i) + lowCarry * Weight(Half - 1) = Consumed
  BY DEF ValuePreserved
<1>3. Weight(Hot) \in Nat /\ Weight(i) \in Nat /\ Weight(Half - 1) \in Nat
  <2>1. Hot \in 0..(Limbs - 1) /\ i \in 0..(Limbs - 1) /\ Half - 1 \in 0..(Limbs - 1)
    BY Constants DEF Typed
  <2> QED  BY <2>1, WeightFacts
<1>4. Value(im, Limbs, R1div) \in Nat
  BY LimbsNat DEF Typed
<1>5. part \in Nat /\ carry \in Nat /\ lowCarry \in Nat
  BY DEF Typed
<1>6. \A a, b \in Nat : a * b \in Nat /\ (a = 0 => a * b = 0)
  OBVIOUS
<1>7. /\ part * Weight(Hot) \in Nat /\ (part = 0 => part * Weight(Hot) = 0)
      /\ lowCarry * Weight(Half - 1) \in Nat /\ (lowCarry = 0 => lowCarry * Weight(Half - 1) = 0)
      /\ carry * Weight(i) \in Nat
  BY <1>3, <1>5, <1>6
<1>8. \A a, b, c, d, e \in Nat : a + b + c + d = e => /\ a + c <= e
                                                      /\ b = 0 /\ d = 0 => a + c = e
  OBVIOUS
<1> QED  BY <1>1, <1>2, <1>4, <1>7, <1>8

\* The last carry becomes the first limb, which no division reduces: it is below
\* R1div because the whole input fits the limbs.
LEMMA CarryEndStep == Inv /\ CarryEnd => Inv'
<1> SUFFICES ASSUME Inv, CarryEnd PROVE Inv'
  OBVIOUS
<1>1. /\ pc = "carry" /\ i = 0 /\ i' = i /\ carry' = 0
      /\ pc' = (IF path = "full" THEN "patch" ELSE "render")
      /\ src' = src /\ path' = path /\ row' = row /\ part' = part /\ lowCarry' = lowCarry /\ out' = out
      /\ im \in [0..(Limbs - 1) -> Nat] /\ carry \in Nat /\ part \in Nat /\ lowCarry \in Nat
      /\ im[0] = 0 /\ row = Words /\ src \in Inputs /\ path \in Paths
      /\ im' = [im EXCEPT ![0] = v]
  BY DEF Inv, Typed, Carrying, CarryEnd
<1>2. 0 \in 0..(Limbs - 1) /\ 0 < Hot - 1 /\ 0 < Hot /\ Half \in 1..(Limbs - 1)
  BY Constants
<1>3. v = carry
  <2>1. carry <= CarryMax
    BY <1>1, <1>2 DEF Inv, Carrying
  <2>2. CarryMax < Wrap
    <3>1. ColumnMax(Hot, HeadWords) + CarryMax < Wrap
      BY ColumnsAssumption
    <3>2. Hot \in 1..(Limbs - 1) /\ HeadWords \in 0..Words
      BY Constants
    <3>3. ColumnMax(Hot, HeadWords) \in Nat
      BY <3>2, ColumnNat
    <3> QED  BY <3>1, <3>3, Constants
  <2>3. carry < Wrap
    BY <1>1, <2>1, <2>2, Constants
  <2>4. v = uint64(0 + carry) /\ 0 + carry = carry
    BY <1>1 DEF v
  <2> QED  BY <1>1, <2>3, <2>4, NoWrap
<1>4. /\ im' \in [0..(Limbs - 1) -> Nat] /\ im'[0] = carry
      /\ \A k \in 0..(Limbs - 1) : k # 0 => im'[k] = im[k]
  BY <1>1, <1>2, <1>3
<1>5. part = 0 /\ (path # "full" => lowCarry = 0)
  <2>1. /\ part # 0 => i >= Hot
        /\ lowCarry # 0 => path = "full"
    BY <1>1 DEF Inv, Carrying
  <2> QED  BY <1>1, <2>1, Constants
<1>6. Value(im', Limbs, R1div) = Value(im, Limbs, R1div) + carry * Weight(0)
  <2>1. /\ \A k \in 0..(Limbs - 1) : im[k] \in Nat
        /\ im'[0] \in Nat /\ im'[0] - im[0] = carry
    BY <1>1, <1>4
  <2> DEFINE b == im'
             p == 0
  <2>2. /\ p \in 0..(Limbs - 1)
        /\ \A k \in 0..(Limbs - 1) : k # p => b[k] = im[k]
        /\ b[p] \in Nat
    BY <1>2, <1>4, <2>1
  <2> HIDE DEF b, p
  <2>3. Value(b, Limbs, R1div) = Value(im, Limbs, R1div) + (b[p] - im[p]) * Weight(p)
    BY <2>1, <2>2, LimbChange
  <2> QED  BY <2>1, <2>3 DEF b, p
<1>7. /\ Consumed \in Nat /\ Consumed < Pow(R1div, Limbs)
      /\ Value(im, Limbs, R1div) + carry * Weight(i) <= Consumed
  BY <1>1, WorthFits DEF Inv
<1>8. Value(im', Limbs, R1div) < Pow(R1div, Limbs) /\ Value(im', Limbs, R1div) \in Nat
  <2>1. Value(im', Limbs, R1div) \in Nat
    <3>1. im' \in [0..(Limbs - 1) -> Nat]
      BY <1>4
    <3> QED  BY <3>1, LimbsNat, Zenon
  <2>2. Pow(R1div, Limbs) \in Nat
    BY Constants, PowPos
  <2>3. Value(im', Limbs, R1div) <= Consumed
    BY <1>1, <1>6, <1>7
  <2> QED  BY <1>7, <2>1, <2>2, <2>3
<1>9. im'[0] < R1div
  <2> DEFINE b == im'
  <2>1. \A k \in 0..(Limbs - 1) : b[k] \in Nat
    BY <1>4
  <2>2. Value(b, Limbs, R1div) < Pow(R1div, Limbs)
    BY <1>8
  <2> HIDE DEF b
  <2>3. b[0] < R1div
    BY <2>1, <2>2, TopLimb
  <2> QED  BY <2>3 DEF b
<1>10. Typed'
  BY <1>1, <1>4, Constants DEF Inv, Typed
<1>11. Summing' /\ Carrying'
  BY <1>1 DEF Summing, Carrying
<1>12. Finishing'
  <2>1. ASSUME NEW k \in 0..(Limbs - 1) PROVE im'[k] < R1div
    <3>1. k = 0 \/ k \in 1..(Limbs - 1)
      BY Constants
    <3>2. \A y \in (0 + 1)..(Limbs - 1) : im[y] < R1div
      BY <1>1 DEF Inv, Carrying
    <3>3. k \in 1..(Limbs - 1) => im[k] < R1div /\ im'[k] = im[k]
      BY <1>4, <3>2, Constants
    <3> QED  BY <1>9, <3>1, <3>3
  <2>2. lowCarry <= Pow(R1div, 2)
    BY <1>1 DEF Inv, Carrying
  <2> QED  BY <1>1, <1>5, <2>1, <2>2 DEF Finishing
<1>13. ValuePreserved'
  <2>1. Consumed' = Consumed
    BY <1>1 DEF Consumed, bin
  <2>2. Value(im, Limbs, R1div) + part * Weight(Hot) + carry * Weight(0) + lowCarry * Weight(Half - 1) = Consumed
    BY <1>1 DEF Inv, ValuePreserved
  <2>3. Weight(Hot) \in Int /\ Weight(0) \in Int /\ Weight(Half - 1) \in Int
    <3>1. Hot \in 0..(Limbs - 1) /\ Half - 1 \in 0..(Limbs - 1)
      BY Constants
    <3> QED  BY <1>2, <3>1, WeightFacts
  <2>4. Value(im, Limbs, R1div) \in Int
    BY <1>1, LimbsNat
  <2>5. \A e, f \in Int : e * f \in Int
    OBVIOUS
  <2>6. {part, carry, lowCarry} \subseteq Int
    BY <1>1
  <2>7. part * Weight(Hot) \in Int /\ carry * Weight(0) \in Int /\ lowCarry * Weight(Half - 1) \in Int
    BY <2>3, <2>5, <2>6
  <2>8. 0 * Weight(0) = 0
    BY <2>3
  <2>9. \A a, b, c, d \in Int : (a + c) + b + 0 + d = a + b + c + d
    OBVIOUS
  <2>10. Value(im', Limbs, R1div) + part * Weight(Hot) + 0 * Weight(0) + lowCarry * Weight(Half - 1) = Consumed
    BY <1>6, <2>2, <2>4, <2>7, <2>8, <2>9
  <2> QED  BY <1>1, <2>1, <2>10 DEF ValuePreserved, Weight
<1>14. Rendered' /\ ResultCorrect'
  BY <1>1 DEF Inv, Rendered, ResultCorrect
<1> QED  BY <1>10, <1>11, <1>12, <1>13, <1>14 DEF Inv

\* The carry of the low half goes into two limbs of the high half and leaves at
\* most one for the limbs before them.
LEMMA PatchStep == Inv /\ Patch => Inv'
<1> SUFFICES ASSUME Inv, Patch PROVE Inv'
  OBVIOUS
<1> DEFINE h == Half - 1
           g == Half - 2
           x == im[h] + lowCarry
           q == x \div R1div
           r == x % R1div
           y == im[g] + q
           u == y \div R1div
           t == y % R1div
           b == [im EXCEPT ![h] = r]
<1>1. /\ pc = "patch" /\ path = "full" /\ carry = 0 /\ i = 0 /\ part = 0 /\ row = Words
      /\ im \in [0..(Limbs - 1) -> Nat] /\ lowCarry \in Nat /\ lowCarry <= Pow(R1div, 2)
      /\ \A k \in 0..(Limbs - 1) : im[k] < R1div
      /\ src' = src /\ path' = path /\ row' = row /\ part' = part /\ out' = out /\ lowCarry' = 0
      /\ "full" \in Paths /\ src \in Inputs
  BY DEF Inv, Typed, Finishing, Patch
<1>2. /\ h \in 1..(Limbs - 1) /\ h \in 0..(Limbs - 1) /\ g \in 1..(Limbs - 1) /\ g \in 0..(Limbs - 1)
      /\ g # h /\ h - 1 = g /\ g - 1 = Half - 3 /\ Half - 3 \in 0..(Limbs - 1) /\ Half - 3 <= Half - 3
  BY <1>1, HalfFacts, Constants
<1> DEFINE s == Pow(R1div, 2)
<1>3. s \in Nat /\ s = R1div * R1div /\ s + R1div <= Wrap
  <2>1. Pow(R1div, 0) = 1 /\ Pow(R1div, 0 + 1) = Pow(R1div, 0) * R1div /\ Pow(R1div, 1 + 1) = Pow(R1div, 1) * R1div
    BY Constants, PowZero, PowStep
  <2>2. 0 + 1 = 1 /\ 1 + 1 = 2 /\ 1 * R1div = R1div
    BY Constants
  <2>3. Pow(R1div, 2) + R1div <= Wrap
    BY <1>1, ColumnsAssumption
  <2>4. Pow(R1div, 2) = R1div * R1div
    BY <2>1, <2>2
  <2> QED  BY <2>3, <2>4, Constants
<1>4. im[h] \in Nat /\ im[g] \in Nat /\ im[h] < R1div /\ im[g] < R1div /\ lowCarry <= s
  BY <1>1, <1>2
<1> HIDE DEF s
<1>5. x \in Nat /\ x < Wrap /\ x < s + R1div
  BY <1>1, <1>3, <1>4, Constants
<1> HIDE DEF x
<1>6. Carries(x, q, r) /\ q \in Nat /\ r \in Nat /\ r < R1div
  BY <1>5, CarryDiv DEF Carries
<1>7. q <= R1div
  <2> HIDE DEF q, r
  <2>1. q * R1div <= x /\ x = q * R1div + r
    BY <1>6, Constants DEF Carries
  <2>2. ASSUME q >= R1div + 1 PROVE FALSE
    <3>1. (q - (R1div + 1)) * R1div >= 0 /\ (q - (R1div + 1)) * R1div = q * R1div - R1div * R1div - R1div
      BY <1>6, <2>2, Constants
    <3>2. q * R1div \in Int /\ R1div * R1div \in Int
      BY <1>6, Constants
    <3> QED  BY <1>3, <1>5, <2>1, <3>1, <3>2, Constants
  <2> QED  BY <1>6, <2>2, Constants
<1> HIDE DEF q, r
<1>8. y \in Nat /\ y < 2 * R1div /\ y < Wrap
  <2>1. y \in Nat /\ y < 2 * R1div
    BY <1>4, <1>6, <1>7, Constants
  <2>2. y < Wrap
    <3>1. R1div = 1 \/ R1div >= 2
      BY Constants
    <3>2. R1div * R1div >= R1div
      BY Constants
    <3> HIDE DEF y
    <3> QED  BY <1>3, <2>1, <3>2, Constants
  <2> QED  BY <2>1, <2>2
<1> HIDE DEF y
<1>9. Carries(y, u, t) /\ u \in Nat /\ t \in Nat /\ t < R1div /\ y = u * R1div + t
  BY <1>8, CarryDiv DEF Carries
<1>10. u <= 1
  <2> HIDE DEF u, t
  <2>1. ASSUME u >= 2 PROVE FALSE
    <3>1. u * R1div >= 2 * R1div
      <4>1. (u - 2) * R1div >= 0 /\ (u - 2) * R1div = u * R1div - 2 * R1div
        BY <1>9, <2>1, Constants
      <4>2. u * R1div \in Int
        BY <1>9, Constants
      <4> QED  BY <4>1, <4>2, Constants
    <3>2. u * R1div \in Int
      BY <1>9, Constants
    <3> QED  BY <1>8, <1>9, <3>1, <3>2, Constants
  <2> QED  BY <1>9, <2>1
<1>11. /\ im' = [im EXCEPT ![h] = r, ![g] = t]
       /\ carry' = u
       /\ i' = (IF u # 0 THEN Half - 3 ELSE i)
       /\ pc' = (IF u # 0 THEN "ripple" ELSE "render")
  <2>1. uint64(im[Half - 1] + lowCarry) = x
    BY <1>5, NoWrap DEF x
  <2>2. uint64(im[Half - 2] + x \div R1div) = y
    BY <1>8, NoWrap DEF y, q
  <2> QED  BY <2>1, <2>2 DEF Patch, q, r
<1> HIDE DEF u, t, h, g
<1>12. /\ im' \in [0..(Limbs - 1) -> Nat] /\ im'[h] = r /\ im'[g] = t
       /\ \A k \in 0..(Limbs - 1) : k \notin {h, g} => im'[k] = im[k]
       /\ b[h] = r /\ SameBut(im, b, h) /\ SameBut(b, im', g) /\ b[g] = im[g]
  BY <1>1, <1>2, <1>6, <1>9, <1>11 DEF SameBut
<1> HIDE DEF b
<1>13. i' \in 0..(Limbs - 1)
  BY <1>1, <1>2, <1>11, Constants
<1>14. Typed'
  BY <1>1, <1>9, <1>11, <1>12, <1>13 DEF Inv, Typed
<1>15. Summing' /\ Carrying'
  BY <1>11 DEF Summing, Carrying
<1>16. Finishing'
  <2>1. \A k \in 0..(Limbs - 1) : im'[k] < R1div
    BY <1>1, <1>6, <1>9, <1>12
  <2>2. pc' = "ripple" => carry' <= 1 /\ i' <= Half - 3
    BY <1>2, <1>10, <1>11
  <2>3. pc' = "render" => carry' = 0
    BY <1>11
  <2>4. pc' \in {"ripple", "render"}
    BY <1>11
  <2> QED  BY <1>1, <2>1, <2>2, <2>3, <2>4 DEF Finishing
<1>17. ValuePreserved'
  <2> DEFINE v0 == Value(im, Limbs, R1div)
             v1 == Value(b, Limbs, R1div)
             v2 == Value(im', Limbs, R1div)
             wh == Weight(h)
             wg == Weight(g)
             wf == Weight(Half - 3)
  <2>1. v1 + q * wg = v0 + (x - im[h]) * wh
    <3>1. SameBut(im, b, h) /\ Carries(x, q, b[h])
      BY <1>6, <1>12
    <3>2. Value(b, Limbs, R1div) + q * Weight(h - 1) = Value(im, Limbs, R1div) + (x - im[h]) * Weight(h)
      BY <3>1, CarryWorth
    <3> QED  BY <1>2, <3>2
  <2>2. v2 + u * wf = v1 + (y - b[g]) * wg
    <3>1. SameBut(b, im', g) /\ Carries(y, u, im'[g])
      BY <1>9, <1>12
    <3>2. Value(im', Limbs, R1div) + u * Weight(g - 1) = Value(b, Limbs, R1div) + (y - b[g]) * Weight(g)
      BY <3>1, CarryWorth
    <3> QED  BY <1>2, <3>2
  <2>3. x - im[h] = lowCarry /\ y - b[g] = q
    BY <1>1, <1>4, <1>6, <1>12 DEF x, y
  <2>4. Consumed' = Consumed
    BY <1>1 DEF Consumed, bin
  <2>5. v0 + part * Weight(Hot) + carry * Weight(i) + lowCarry * Weight(Half - 1) = Consumed
    BY <1>1 DEF Inv, ValuePreserved
  <2>6. /\ Weight(Hot) \in Int /\ Weight(0) \in Int /\ wh \in Int /\ wg \in Int /\ wf \in Int
        /\ Weight(i') \in Int
    <3>1. Hot \in 0..(Limbs - 1) /\ 0 \in 0..(Limbs - 1)
      BY Constants
    <3> QED  BY <1>2, <1>13, <3>1, WeightFacts
  <2>7. v0 \in Int /\ v2 \in Int /\ v1 \in Int
    <3>1. v0 \in Nat
      BY <1>1, LimbsNat
    <3>2. im' \in [0..(Limbs - 1) -> Nat]
      BY <1>12
    <3>3. v2 \in Nat
      BY <3>2, LimbsNat, Zenon
    <3>4. Limbs \in Nat /\ R1div \in Int /\ \A k \in 0..(Limbs - 1) : b[k] \in Int
      BY <1>12, Constants DEF SameBut
    <3>5. v1 \in Int
      BY <3>4, ValueInt
    <3> QED  BY <3>1, <3>3, <3>5
  <2>8. Weight(Half - 1) = wh
    BY DEF h
  <2>9. carry' * Weight(i') = u * wf
    <3>1. CASE u = 0
      BY <1>11, <2>6, <3>1
    <3>2. CASE u # 0
      BY <1>11, <3>2
    <3> QED  BY <3>1, <3>2
  <2> HIDE DEF v0, v1, v2, wh, wg, wf
  <2>10. /\ q * wg \in Int /\ u * wf \in Int /\ lowCarry * wh \in Int
         /\ 0 * Weight(Hot) = 0 /\ 0 * Weight(0) = 0 /\ 0 * wh = 0
    BY <1>1, <1>6, <1>9, <2>6
  <2>11. v0 + 0 + 0 + lowCarry * wh = Consumed
    BY <1>1, <2>5, <2>8, <2>10
  <2>12. \A a, c, d, e, f, m \in Int : a + c = d + e /\ f + m = a + c => f + 0 + m + 0 = d + 0 + 0 + e
    OBVIOUS
  <2>13. v2 + 0 + u * wf + 0 = Consumed
    BY <2>1, <2>2, <2>3, <2>7, <2>10, <2>11, <2>12
  <2>14. v2 + part' * Weight(Hot) + carry' * Weight(i') + lowCarry' * Weight(Half - 1) = Consumed
    BY <1>1, <2>8, <2>9, <2>10, <2>13
  <2> QED  BY <2>4, <2>14 DEF ValuePreserved, Weight, v2
<1>18. Rendered' /\ ResultCorrect'
  BY <1>1, <1>11 DEF Inv, Rendered, ResultCorrect
<1> QED  BY <1>14, <1>15, <1>16, <1>17, <1>18 DEF Inv

\* A carry of one runs up the limbs before the patched ones; it never leaves the
\* first limb, because the whole input fits the limbs.
LEMMA RippleStep == Inv /\ Ripple => Inv'
<1> SUFFICES ASSUME Inv, Ripple PROVE Inv'
  OBVIOUS
<1> DEFINE x == im[i] + carry
<1>1. /\ pc = "ripple" /\ path = "full" /\ carry <= 1 /\ carry \in Nat /\ part = 0 /\ row = Words
      /\ im \in [0..(Limbs - 1) -> Nat] /\ i \in 0..(Limbs - 1) /\ i <= Half - 3
      /\ \A k \in 0..(Limbs - 1) : im[k] < R1div
      /\ src' = src /\ path' = path /\ row' = row /\ part' = part /\ out' = out
      /\ lowCarry = 0 /\ lowCarry' = lowCarry
      /\ i' = (IF i = 0 THEN 0 ELSE i - 1)
      /\ pc' = (IF i = 0 THEN "render" ELSE "ripple")
      /\ "full" \in Paths /\ src \in Inputs
  BY DEF Inv, Typed, Finishing, Ripple
<1>2. x \in Nat /\ x <= R1div /\ x < Wrap
  <2>1. im[i] \in Nat /\ im[i] < R1div
    BY <1>1
  <2>2. x \in Nat /\ x <= R1div
    BY <1>1, <2>1, Constants
  <2>3. Pow(R1div, 2) + R1div <= Wrap
    BY <1>1, ColumnsAssumption
  <2>4. Pow(R1div, 2) \in Nat \ {0}
    BY Constants, PowPos
  <2> HIDE DEF x
  <2> QED  BY <2>2, <2>3, <2>4, Constants
<1>3. v = x
  BY <1>2, NoWrap DEF v
<1> HIDE DEF x
<1>4. /\ im' = [im EXCEPT ![i] = IF x < R1div THEN x ELSE x - R1div]
      /\ carry' = (IF x < R1div THEN 0 ELSE 1)
  BY <1>3 DEF Ripple
<1>5. /\ im' \in [0..(Limbs - 1) -> Nat] /\ im'[i] = (IF x < R1div THEN x ELSE x - R1div)
      /\ \A k \in 0..(Limbs - 1) : k # i => im'[k] = im[k]
      /\ im'[i] < R1div /\ carry' \in Nat /\ carry' <= 1
      /\ x = carry' * R1div + im'[i]
  <2>1. (IF x < R1div THEN x ELSE x - R1div) \in Nat /\ (IF x < R1div THEN x ELSE x - R1div) < R1div
    BY <1>2, Constants
  <2>2. x = carry' * R1div + (IF x < R1div THEN x ELSE x - R1div)
    BY <1>2, <1>4, Constants
  <2>3. im'[i] = (IF x < R1div THEN x ELSE x - R1div)
    BY <1>1, <1>4
  <2>4. carry' \in Nat /\ carry' <= 1
    BY <1>4
  <2> QED  BY <1>1, <1>4, <2>1, <2>2, <2>3, <2>4
<1>6. i' \in 0..(Limbs - 1) /\ i' <= Half - 3
  BY <1>1, Constants, HalfFacts
<1>7. Typed'
  BY <1>1, <1>5, <1>6 DEF Inv, Typed
<1>8. Summing' /\ Carrying'
  BY <1>1 DEF Summing, Carrying
<1>9. /\ Consumed \in Nat /\ Consumed < Pow(R1div, Limbs)
      /\ Value(im, Limbs, R1div) + carry * Weight(i) = Consumed
  BY <1>1, WorthFits DEF Inv
<1> DEFINE b == im'
           v0 == Value(im, Limbs, R1div)
           v1 == Value(b, Limbs, R1div)
<1>10. \A k \in 0..(Limbs - 1) : im[k] \in Nat
  BY <1>1
<1>11. \A k \in 0..(Limbs - 1) : b[k] \in Nat
  BY <1>5
<1>12. v0 \in Nat /\ v1 \in Nat
  <2>1. Limbs \in Nat /\ R1div \in Nat
    BY Constants
  <2> HIDE DEF b
  <2> QED  BY <1>10, <1>11, <2>1, ValueNat
<1>13. \A k \in 0..(Limbs - 1) : Weight(k) \in Nat
  BY WeightFacts
<1>14. carry' * Weight(i') + v1 = Consumed /\ (i = 0 => carry' = 0)
  <2>1. CASE i = 0
    <3> DEFINE c == [im EXCEPT ![0] = x]
               p == 0
    <3>1. /\ p \in 0..(Limbs - 1) /\ c[p] = x
          /\ \A k \in 0..(Limbs - 1) : k # p => c[k] = im[k]
      BY <1>1, <2>1
    <3>2. \A k \in 0..(Limbs - 1) : c[k] \in Nat
      BY <1>2, <1>10, <3>1
    <3> HIDE DEF c, p
    <3>3. Value(c, Limbs, R1div) = v0 + (c[p] - im[p]) * Weight(p)
      BY <1>10, <3>1, <3>2, LimbChange
    <3>4. c[p] - im[p] = carry /\ p = i
      BY <1>1, <2>1, <3>1 DEF x, p
    <3>5. Value(c, Limbs, R1div) = Consumed
      BY <1>9, <3>3, <3>4
    <3>6. c[0] < R1div
      BY <1>9, <3>2, <3>5, TopLimb
    <3>7. x < R1div
      BY <3>1, <3>6 DEF p
    <3>8. carry' = 0 /\ im' = c
      BY <1>4, <2>1, <3>7 DEF c
    <3>9. 0 * Weight(i') = 0
      BY <1>6, <1>13
    <3> QED  BY <1>12, <3>5, <3>8, <3>9
  <2>2. CASE i # 0
    <3>1. i \in 1..(Limbs - 1) /\ i' = i - 1
      BY <1>1, <2>2, Constants
    <3>2. SameBut(im, b, i) /\ Carries(x, carry', b[i])
      BY <1>2, <1>5, <1>10, <3>1 DEF SameBut, Carries
    <3>3. x - im[i] = carry
      BY <1>1, <1>10 DEF x
    <3> HIDE DEF b
    <3>4. v1 + carry' * Weight(i - 1) = v0 + (x - im[i]) * Weight(i)
      <4> DEFINE q == carry'
                 p == i
      <4>1. SameBut(im, b, p) /\ Carries(x, q, b[p])
        BY <3>2
      <4> HIDE DEF q, p
      <4>2. Value(b, Limbs, R1div) + q * Weight(p - 1) = Value(im, Limbs, R1div) + (x - im[p]) * Weight(p)
        BY <4>1, CarryWorth
      <4> QED  BY <4>2 DEF q, p
    <3>5. v1 + carry' * Weight(i') = Consumed
      BY <1>9, <3>1, <3>3, <3>4
    <3>6. \A e, f \in Int : e * f \in Int
      OBVIOUS
    <3>7. carry' \in Int /\ Weight(i') \in Int
      BY <1>5, <1>6, <1>13
    <3>8. carry' * Weight(i') \in Int
      BY <3>6, <3>7
    <3>9. \A e, f \in Int : e + f = f + e
      OBVIOUS
    <3> HIDE DEF v1
    <3> QED  BY <1>12, <2>2, <3>5, <3>8, <3>9
  <2> QED  BY <2>1, <2>2
<1>15. Finishing'
  <2>1. \A k \in 0..(Limbs - 1) : im'[k] < R1div
    BY <1>1, <1>5
  <2>2. pc' = "render" => carry' = 0
    BY <1>1, <1>14
  <2>3. pc' \in {"ripple", "render"}
    BY <1>1
  <2> QED  BY <1>1, <1>5, <1>6, <2>1, <2>2, <2>3 DEF Finishing
<1>16. ValuePreserved'
  <2>1. Consumed' = Consumed
    BY <1>1 DEF Consumed, bin
  <2>2. Weight(Hot) \in Nat /\ Weight(Half - 1) \in Nat /\ Weight(i') \in Nat
    <3>1. Hot \in 0..(Limbs - 1) /\ Half - 1 \in 0..(Limbs - 1)
      BY Constants
    <3> QED  BY <1>6, <1>13, <3>1
  <2>3. 0 * Weight(Hot) = 0 /\ 0 * Weight(Half - 1) = 0 /\ carry' * Weight(i') \in Int
    <3>1. \A e, f \in Nat : e * f \in Int /\ 0 * f = 0
      OBVIOUS
    <3> QED  BY <1>5, <2>2, <3>1
  <2>4. \A e, f, g \in Int : e + f = g => f + 0 + e + 0 = g
    OBVIOUS
  <2>5. v1 + 0 * Weight(Hot) + carry' * Weight(i') + 0 * Weight(Half - 1) = Consumed
    <3> HIDE DEF v1
    <3> QED  BY <1>9, <1>12, <1>14, <2>3, <2>4
  <2> QED  BY <1>1, <2>1, <2>5 DEF ValuePreserved, Weight, v1, b
<1>17. Rendered' /\ ResultCorrect'
  BY <1>1 DEF Inv, Rendered, ResultCorrect
<1> QED  BY <1>7, <1>8, <1>15, <1>16, <1>17 DEF Inv

-----------------------------------------------------------------------------
(* Rendering *)

\* The digits of the raw form, the number it stands for, its leading zeros.
rawDigit(x) == Digit(im[x \div LimbDigits], x % LimbDigits, LimbDigits, Base)
rawDigits == [x \in 0..(Raw - 1) |-> rawDigit(x)]
rawZeros == LeadingZeros(rawDigits, Raw, 0)
number == Value(src, Bytes, ByteBase)

\* All limbs are reduced and make up the input.
Ready ==
    /\ src \in Inputs
    /\ \A k \in 0..(Limbs - 1) : im[k] \in Nat /\ im[k] < R1div
    /\ Value(im, Limbs, R1div) = number

\* The lengths of the input and of the raw form.
LEMMA Sizes ==
    /\ Base \in Nat \ {0, 1} /\ Base \in Nat \ {0} /\ ByteBase \in Nat \ {0} /\ Base <= ByteBase
    /\ LimbDigits \in Nat \ {0} /\ WordBytes \in Nat \ {0}
    /\ Bytes \in Nat \ {0} /\ Raw \in Nat \ {0} /\ EncodedMaxLen \in 2..Raw
    /\ Raw = Limbs * LimbDigits /\ Bytes = Words * WordBytes
<1>1. /\ Base \in Nat \ {0, 1} /\ ByteBase \in Nat \ {0} /\ Base <= ByteBase
      /\ LimbDigits \in Nat \ {0} /\ WordBytes \in Nat \ {0} /\ Words \in Nat \ {0}
      /\ EncodedMaxLen \in Nat /\ EncodedMaxLen >= 2
  BY RadixAssumption
<1>2. \A a, b \in Nat \ {0} : a * b \in Nat \ {0}
  OBVIOUS
<1>3. Limbs \in Nat \ {0}
  BY Constants
<1>4. Bytes \in Nat \ {0} /\ Raw \in Nat \ {0}
  BY <1>1, <1>2, <1>3 DEF Bytes, Raw
<1>5. EncodedMaxLen <= Raw
  BY LengthAssumption
<1> QED  BY <1>1, <1>4, <1>5 DEF Bytes, Raw

\* Place x of the raw form is a digit of a limb.
LEMMA Place ==
    ASSUME NEW j \in 0..(Limbs - 1), NEW b \in 0..(LimbDigits - 1)
    PROVE  /\ j * LimbDigits + b \in 0..(Raw - 1)
           /\ (j * LimbDigits + b) \div LimbDigits = j
           /\ (j * LimbDigits + b) % LimbDigits = b
<1> DEFINE x == j * LimbDigits + b
<1>1. x \in Int /\ j \in Int /\ LimbDigits \in Nat \ {0}
  BY Sizes, Constants
<1>2. x \div LimbDigits = j /\ x % LimbDigits = b
  BY <1>1, DivModUnique
<1>3. /\ (Limbs - 1 - j) * LimbDigits >= 0
      /\ (Limbs - 1 - j) * LimbDigits = Limbs * LimbDigits - LimbDigits - j * LimbDigits
      /\ j * LimbDigits \in Nat /\ Limbs * LimbDigits \in Nat
  BY Sizes, Constants
<1> QED  BY <1>1, <1>2, <1>3, Sizes

\* Conversely, every place is one.
LEMMA PlaceOf ==
    ASSUME NEW x \in 0..(Raw - 1)
    PROVE  /\ x \div LimbDigits \in 0..(Limbs - 1) /\ x % LimbDigits \in 0..(LimbDigits - 1)
           /\ x = (x \div LimbDigits) * LimbDigits + (x % LimbDigits)
<1> DEFINE q == x \div LimbDigits
           r == x % LimbDigits
<1>0. x \in Nat /\ x \in Int /\ LimbDigits \in Nat \ {0}
  BY Sizes
<1>1. q \in Nat /\ r \in 0..(LimbDigits - 1) /\ x = q * LimbDigits + r
  BY <1>0, DivMod, DivNat
<1> HIDE DEF q, r
<1>2. ASSUME q >= Limbs PROVE FALSE
  <2>1. (q - Limbs) * LimbDigits >= 0 /\ (q - Limbs) * LimbDigits = q * LimbDigits - Limbs * LimbDigits
    BY <1>1, <1>2, Sizes, Constants
  <2>2. q * LimbDigits \in Int /\ Limbs * LimbDigits \in Int
    BY <1>1, Sizes, Constants
  <2> QED  BY <1>1, <2>1, <2>2, Sizes
<1> QED  BY <1>1, <1>2, Constants DEF q, r

\* A raw digit is a digit.
LEMMA RawDigitRange ==
    ASSUME Ready, NEW x \in 0..(Raw - 1)
    PROVE  rawDigit(x) \in 0..(Base - 1) /\ rawDigits[x] = rawDigit(x)
<1>1. x \div LimbDigits \in 0..(Limbs - 1) /\ x % LimbDigits \in 0..(LimbDigits - 1)
  BY PlaceOf
<1>2. im[x \div LimbDigits] \in Nat
  BY <1>1 DEF Ready
<1>3. Digit(im[x \div LimbDigits], x % LimbDigits, LimbDigits, Base) \in 0..(Base - 1)
  BY <1>1, <1>2, Sizes, DigitRange
<1> QED  BY <1>3 DEF rawDigit, rawDigits

\* The raw form stands for the limbs, hence for the input.
LEMMA RawValue ==
    ASSUME Ready
    PROVE  Value(rawDigits, Raw, Base) = number
<1> DEFINE H(j) == [b \in 0..(LimbDigits - 1) |-> rawDigits[j * LimbDigits + b]]
<1>1. ASSUME NEW j \in 0..(Limbs - 1)
      PROVE  im[j] = Value(H(j), LimbDigits, Base)
  <2>1. ASSUME NEW b \in 0..(LimbDigits - 1)
        PROVE  H(j)[b] = Digit(im[j], b, LimbDigits, Base)
    <3>1. /\ j * LimbDigits + b \in 0..(Raw - 1)
          /\ (j * LimbDigits + b) \div LimbDigits = j
          /\ (j * LimbDigits + b) % LimbDigits = b
      BY Place
    <3>2. H(j)[b] = rawDigits[j * LimbDigits + b]
      OBVIOUS
    <3>3. rawDigits[j * LimbDigits + b] = rawDigit(j * LimbDigits + b)
      BY <3>1, RawDigitRange
    <3> QED  BY <3>1, <3>2, <3>3 DEF rawDigit
  <2>2. im[j] \in Nat /\ im[j] < Pow(Base, LimbDigits)
    BY DEF Ready, R1div
  <2> HIDE DEF H
  <2>3. Value(H(j), LimbDigits, Base) = im[j]
    BY <2>1, <2>2, Sizes, ValueDigits
  <2> QED  BY <2>3
<1>2. \A x \in 0..(Limbs * LimbDigits - 1) : rawDigits[x] \in Int
  BY RawDigitRange, Sizes
<1>3. Base \in Int /\ LimbDigits \in Nat /\ Limbs \in Nat
  BY Sizes, Constants
<1>4. \A j \in 0..(Limbs - 1) :
        im[j] = Value([b \in 0..(LimbDigits - 1) |-> rawDigits[j * LimbDigits + b]], LimbDigits, Base)
  BY <1>1
<1>5. Value(im, Limbs, Pow(Base, LimbDigits)) = Value(rawDigits, Limbs * LimbDigits, Base)
  BY <1>2, <1>3, <1>4, ValueGroup, ZenonT(60)
<1> QED  BY <1>5, Sizes DEF Ready, R1div

\* All words read make the input.
LEMMA ConsumedAll ==
    ASSUME src \in Inputs, row = Words
    PROVE  Consumed = number
<1> DEFINE f == [j \in 0..(Words - 1) |-> IF j < row THEN bin(j) ELSE 0]
<1>1. src \in [0..(Bytes - 1) -> 0..(ByteBase - 1)]
  BY RadixAssumption
<1>2. \A x \in 0..(Words * WordBytes - 1) : src[x] \in Int
  BY <1>1, Sizes
<1>3. \A j \in 0..(Words - 1) :
        f[j] = Value([b \in 0..(WordBytes - 1) |-> src[j * WordBytes + b]], WordBytes, ByteBase)
  BY Constants DEF bin
<1>4. ByteBase \in Int /\ WordBytes \in Nat /\ Words \in Nat
  BY Sizes, Constants
<1> HIDE DEF f
<1>5. Value(f, Words, Pow(ByteBase, WordBytes)) = Value(src, Words * WordBytes, ByteBase)
  BY <1>2, <1>3, <1>4, ValueGroup, ZenonT(60)
<1> QED  BY <1>5, Sizes DEF Consumed, f, WordBase, number

\* What holds when a result is rendered.
LEMMA RenderReady ==
    ASSUME Inv, pc = "render"
    PROVE  Ready
<1>1. /\ src \in Inputs /\ row = Words /\ im \in [0..(Limbs - 1) -> Nat]
      /\ \A k \in 0..(Limbs - 1) : im[k] < R1div
      /\ part = 0 /\ carry = 0 /\ lowCarry = 0 /\ i \in 0..(Limbs - 1)
  BY DEF Inv, Typed, Finishing
<1>2. Value(im, Limbs, R1div) + carry * Weight(i) = Consumed
  BY <1>1, WorthFits DEF Inv
<1>3. Value(im, Limbs, R1div) \in Nat /\ Weight(i) \in Nat
  BY <1>1, LimbsNat, WeightFacts
<1>4. Value(im, Limbs, R1div) = Consumed
  BY <1>1, <1>2, <1>3
<1> QED  BY <1>1, <1>4, ConsumedAll DEF Ready

\* The first quotient of a limb, which is not masked, is its first digit.
LEMMA FirstDigit ==
    ASSUME NEW x \in Nat, x < R1div
    PROVE  x \div Pow(Base, LimbDigits - 1) = Digit(x, 0, LimbDigits, Base)
<1> DEFINE w == Pow(Base, LimbDigits - 1)
           q == x \div w
<1>1. LimbDigits - 1 \in Nat /\ (LimbDigits - 1) + 1 = LimbDigits /\ LimbDigits - 1 - 0 = LimbDigits - 1
  BY Sizes
<1>2. w \in Nat \ {0}
  BY <1>1, Sizes, PowPos
<1>3. R1div = w * Base
  <2>1. Pow(Base, (LimbDigits - 1) + 1) = Pow(Base, LimbDigits - 1) * Base
    BY <1>1, Sizes, PowStep
  <2> QED  BY <1>1, <2>1 DEF R1div
<1> HIDE DEF w
<1>4. q \in Nat /\ x % w \in 0..(w - 1) /\ x = q * w + (x % w)
  <2>1. x \in Int
    OBVIOUS
  <2> QED  BY <1>2, <2>1, DivMod, DivNat
<1> HIDE DEF q
<1>5. q < Base
  <2>1. ASSUME q >= Base PROVE FALSE
    <3>1. (q - Base) * w >= 0 /\ (q - Base) * w = q * w - w * Base
      BY <1>2, <1>4, <2>1, Sizes
    <3>2. q * w \in Int /\ w * Base \in Int /\ x % w \in Nat
      BY <1>2, <1>4, Sizes
    <3>3. x < w * Base
      BY <1>3
    <3> HIDE DEF q
    <3> QED  BY <1>4, <3>1, <3>2, <3>3
  <2> QED  BY <1>4, <2>1, Sizes
<1>6. q % Base = q
  BY <1>4, <1>5, Sizes, DivNat
<1>7. Digit(x, 0, LimbDigits, Base) = q % Base
  BY <1>1 DEF Digit, q, w
<1> QED  BY <1>6, <1>7 DEF q, w

\* The characters of a limb are those of its digits.
LEMMA LimbChars ==
    ASSUME NEW x \in Nat, x < R1div
    PROVE  /\ extractChars5(x) \in [1..LimbDigits -> STRING]
           /\ \A k \in 1..LimbDigits :
                extractChars5(x)[k] = base58Chars[Digit(x, k - 1, LimbDigits, Base)]
<1>1. ASSUME NEW k \in 1..LimbDigits
      PROVE  extractChars5(x)[k] = base58Chars[Digit(x, k - 1, LimbDigits, Base)]
  <2>1. CASE k = 1
    <3>1. k - 1 = 0
      BY <2>1
    <3>2. extractChars5(x)[k] = base58Chars[x \div Pow(Base, LimbDigits - 1)]
      BY <2>1 DEF extractChars5
    <3> QED  BY <3>1, <3>2, FirstDigit
  <2>2. CASE k # 1
    BY <2>2 DEF extractChars5
  <2> QED  BY <2>1, <2>2
<1>2. ASSUME NEW k \in 1..LimbDigits
      PROVE  extractChars5(x)[k] \in STRING
  <2>1. k - 1 \in 0..(LimbDigits - 1)
    BY Sizes
  <2>2. Digit(x, k - 1, LimbDigits, Base) \in 0..(Base - 1)
    BY <2>1, Sizes, DigitRange
  <2> QED  BY <1>1, <2>2, RadixAssumption
<1>3. extractChars5(x) = [k \in 1..LimbDigits |-> extractChars5(x)[k]]
  BY DEF extractChars5
<1> QED  BY <1>1, <1>2, <1>3

\* The characters from limb n on are those of the raw digits from there.
LEMMA RawChars ==
    ASSUME Ready, NEW n \in 0..Limbs
    PROVE  /\ Len(extractChars(n)) = LimbDigits * (Limbs - n)
           /\ LimbDigits * (Limbs - n) \in Nat
           /\ n * LimbDigits + LimbDigits * (Limbs - n) = Raw
           /\ extractChars(n) \in Seq(STRING)
           /\ \A x \in 0..(LimbDigits * (Limbs - n) - 1) :
                extractChars(n)[x + 1] = base58Chars[rawDigit(n * LimbDigits + x)]
<1> DEFINE m == LimbDigits * (Limbs - n)
           C(x) == extractChars5(im[n + (x \div LimbDigits)])[(x % LimbDigits) + 1]
<1>1. m \in Nat /\ n * LimbDigits + m = Raw /\ n * LimbDigits \in Nat
  BY Sizes, Constants
<1>2. ASSUME NEW x \in 0..(m - 1)
      PROVE  C(x) = base58Chars[rawDigit(n * LimbDigits + x)] /\ C(x) \in STRING
  <2> DEFINE q == x \div LimbDigits
             r == x % LimbDigits
             y == n * LimbDigits + x
  <2>1. x \in Nat /\ x \in Int /\ LimbDigits \in Nat \ {0}
    BY <1>1, Sizes
  <2>2. q \in Nat /\ r \in 0..(LimbDigits - 1) /\ x = q * LimbDigits + r
    BY <2>1, DivMod, DivNat
  <2>3. y \in 0..(Raw - 1)
    BY <1>1, <2>1
  <2> HIDE DEF q, r
  <2>4. y = (n + q) * LimbDigits + r /\ n + q \in Int /\ y \in Int
    BY <2>1, <2>2
  <2> HIDE DEF y
  <2>5. y \div LimbDigits = n + q /\ y % LimbDigits = r
    BY <2>1, <2>2, <2>4, DivModUnique
  <2>6. n + q \in 0..(Limbs - 1)
    BY <2>3, <2>5, PlaceOf
  <2>7. im[n + q] \in Nat /\ im[n + q] < R1div
    BY <2>6 DEF Ready
  <2>8. r + 1 \in 1..LimbDigits /\ (r + 1) - 1 = r
    BY <2>1, <2>2
  <2>9. /\ extractChars5(im[n + q]) \in [1..LimbDigits -> STRING]
        /\ extractChars5(im[n + q])[r + 1] = base58Chars[Digit(im[n + q], r, LimbDigits, Base)]
    BY <2>7, <2>8, LimbChars
  <2>10. rawDigit(y) = Digit(im[n + q], r, LimbDigits, Base)
    BY <2>5 DEF rawDigit
  <2>11. C(x) = extractChars5(im[n + q])[r + 1]
    BY DEF q, r
  <2> QED  BY <2>8, <2>9, <2>10, <2>11 DEF y
<1>3. extractChars(n) = [x \in 1..m |-> C(x - 1)]
  BY DEF extractChars
<1> HIDE DEF C
<1>4. \A x \in 0..(m - 1) : extractChars(n)[x + 1] = C(x)
  <2> HIDE DEF m
  <2> SUFFICES ASSUME NEW x \in 0..(m - 1) PROVE extractChars(n)[x + 1] = C(x)
    OBVIOUS
  <2>1. x + 1 \in 1..m /\ (x + 1) - 1 = x
    BY <1>1
  <2> QED  BY <1>3, <2>1
<1>5. extractChars(n) \in Seq(STRING) /\ Len(extractChars(n)) = m
  <2> HIDE DEF m
  <2>1. \A x \in 1..m : C(x - 1) \in STRING
    <3> SUFFICES ASSUME NEW x \in 1..m PROVE C(x - 1) \in STRING
      OBVIOUS
    <3>1. x - 1 \in 0..(m - 1)
      BY <1>1
    <3> QED  BY <1>2, <3>1
  <2>2. extractChars(n) \in [1..m -> STRING]
    BY <1>3, <2>1
  <2> QED  BY <1>1, <1>3, <2>2
<1> QED  BY <1>1, <1>2, <1>4, <1>5

\* The raw form: all characters of all limbs.
LEMMA RawAll ==
    ASSUME Ready
    PROVE  /\ extractChars(0) \in Seq(STRING) /\ Len(extractChars(0)) = Raw
           /\ \A x \in 0..(Raw - 1) : extractChars(0)[x + 1] = base58Chars[rawDigit(x)]
<1>1. 0 \in 0..Limbs /\ 0 * LimbDigits = 0 /\ \A a \in Int : 0 + a = a
  BY Constants, Sizes
<1>2. LimbDigits * (Limbs - 0) = Raw
  BY Constants, Sizes
<1>3. /\ Len(extractChars(0)) = LimbDigits * (Limbs - 0)
      /\ extractChars(0) \in Seq(STRING)
      /\ \A x \in 0..(LimbDigits * (Limbs - 0) - 1) :
           extractChars(0)[x + 1] = base58Chars[rawDigit(0 * LimbDigits + x)]
  BY <1>1, RawChars
<1>4. \A x \in 0..(Raw - 1) : 0 * LimbDigits + x = x
  BY <1>1, Sizes
<1> QED  BY <1>2, <1>3, <1>4

\* What makes a string the encoding of the input: leading ones, then digits of the
\* same number, the first of them not zero.
LEMMA Encodes ==
    ASSUME src \in Inputs, NEW s, NEW m \in Nat, NEW g,
           Len(s) = inZeros + m,
           \A k \in 1..inZeros : s[k] = base58Chars[0],
           \A k \in 0..(m - 1) : g[k] \in 0..(Base - 1),
           \A k \in 0..(m - 1) : s[inZeros + 1 + k] = base58Chars[g[k]],
           m > 0 => g[0] # 0,
           Value(g, m, Base) = number
    PROVE  /\ IsEncoding(s, src, Bytes, ByteBase, base58Chars, Base)
           /\ \A k \in 1..Len(s) : \E d \in 0..(Base - 1) : s[k] = base58Chars[d]
<1> DEFINE z == inZeros
           d == [k \in 0..(m - 1) |-> DigitOf(s[z + 1 + k], base58Chars)]
<1>1. z \in Nat /\ z = LeadingZeros(src, Bytes, 0)
  <2>1. Bytes \in Nat
    BY Sizes
  <2>2. LeadingZeros(src, Bytes, 0) \in 0..Bytes
    BY <2>1, LeadingZerosDef
  <2> QED  BY <2>1, <2>2 DEF inZeros
<1>2. \A x, y \in 0..(Base - 1) : base58Chars[x] = base58Chars[y] => x = y
  BY RadixAssumption
<1>3. DOMAIN base58Chars = 0..(Base - 1)
  BY RadixAssumption
<1>4. \A k \in 0..(m - 1) : d[k] = g[k]
  <2> SUFFICES ASSUME NEW k \in 0..(m - 1) PROVE DigitOf(base58Chars[g[k]], base58Chars) = g[k]
    OBVIOUS
  <2>1. g[k] \in DOMAIN base58Chars
    BY <1>3
  <2>2. DigitOf(base58Chars[g[k]], base58Chars) \in DOMAIN base58Chars
        /\ base58Chars[DigitOf(base58Chars[g[k]], base58Chars)] = base58Chars[g[k]]
    BY <2>1 DEF DigitOf
  <2> QED  BY <1>2, <1>3, <2>2
<1>5. \A k \in 0..(m - 1) : g[k] \in Int /\ d[k] = g[k]
  BY <1>4, Sizes
<1> HIDE DEF d, z
<1>6. Value(d, m, Base) = number
  BY <1>5, Sizes, ValueEqual
<1>7. ASSUME NEW k \in (z + 1)..Len(s)
      PROVE  \E x \in 0..(Base - 1) : s[k] = base58Chars[x]
  <2>1. k - z - 1 \in 0..(m - 1) /\ z + 1 + (k - z - 1) = k
    BY <1>1 DEF z
  <2>2. s[z + 1 + (k - z - 1)] = base58Chars[g[k - z - 1]] /\ g[k - z - 1] \in 0..(Base - 1)
    BY <2>1 DEF z
  <2> QED  BY <2>1, <2>2
<1>8. 0 \in 0..(Base - 1)
  BY Sizes
<1>9. \A k \in 1..z : s[k] = base58Chars[0]
  BY DEF z
<1>10. m > 0 => s[z + 1] # base58Chars[0]
  <2> SUFFICES ASSUME m > 0 PROVE s[z + 1] # base58Chars[0]
    OBVIOUS
  <2>1. 0 \in 0..(m - 1) /\ z + 1 + 0 = z + 1
    BY <1>1
  <2>2. s[z + 1 + 0] = base58Chars[g[0]] /\ g[0] \in 0..(Base - 1)
    BY <2>1 DEF z
  <2> QED  BY <1>2, <1>8, <2>1, <2>2
<1>11. Len(s) - z = m
  BY <1>1 DEF z
<1>12. IsEncoding(s, src, Bytes, ByteBase, base58Chars, Base)
  BY <1>1, <1>6, <1>7, <1>9, <1>10, <1>11 DEF IsEncoding, d, number
<1>13. ASSUME NEW k \in 1..Len(s) PROVE \E x \in 0..(Base - 1) : s[k] = base58Chars[x]
  <2>1. k \in 1..z \/ k \in (z + 1)..Len(s)
    BY <1>1 DEF z
  <2> QED  BY <1>7, <1>8, <1>9, <2>1
<1> QED  BY <1>12, <1>13

\* One zero character at least is there for each leading zero byte; the digits
\* after the zeros are the number.
LEMMA ZerosFit ==
    ASSUME Ready
    PROVE  /\ inZeros \in 0..Bytes /\ rawZeros \in 0..Raw /\ inZeros <= rawZeros
           /\ \A k \in 0..(rawZeros - 1) : rawDigits[k] = 0
           /\ rawZeros < Raw => rawDigits[rawZeros] # 0
<1> DEFINE z == inZeros
           y == rawZeros
           g == [k \in 0..(Raw - y - 1) |-> rawDigits[y + k]]
           f == [k \in 0..(Bytes - z - 1) |-> src[z + k]]
<1>1. /\ z \in 0..Bytes /\ \A k \in 0..(z - 1) : src[k] = 0
  <2>1. Bytes \in Nat
    BY Sizes
  <2> QED  BY <2>1, LeadingZerosDef DEF inZeros
<1>2. /\ y \in 0..Raw /\ \A k \in 0..(y - 1) : rawDigits[k] = 0
      /\ y < Raw => rawDigits[y] # 0
  <2>1. Raw \in Nat
    BY Sizes
  <2> QED  BY <2>1, LeadingZerosDef DEF rawZeros
<1> HIDE DEF z, y
<1>3. number < Pow(ByteBase, Bytes - z) /\ number \in Nat
  <2>1. src \in [0..(Bytes - 1) -> 0..(ByteBase - 1)]
    BY RadixAssumption DEF Ready
  <2>2. \A k \in 0..(Bytes - 1) : src[k] \in Int
    BY <2>1, Sizes
  <2>3. /\ \A k \in 0..(Bytes - z - 1) : f[k] = src[z + k]
        /\ \A k \in 0..(Bytes - z - 1) : f[k] \in 0..(ByteBase - 1)
        /\ Bytes - z \in Nat /\ ByteBase \in Int /\ Bytes \in Nat
    BY <1>1, <2>1, Sizes, SMTT(30)
  <2> HIDE DEF f
  <2>4. Value(f, Bytes - z, ByteBase) = Value(src, Bytes, ByteBase)
    BY <1>1, <2>2, <2>3, ValueSkip
  <2>5. Value(f, Bytes - z, ByteBase) \in 0..(Pow(ByteBase, Bytes - z) - 1)
    BY <2>3, Sizes, ValueBound
  <2>6. Pow(ByteBase, Bytes - z) \in Nat
    BY <2>3, Sizes, PowPos
  <2> QED  BY <2>4, <2>5, <2>6 DEF number
<1>4. ASSUME y < Raw PROVE Pow(Base, Raw - y - 1) <= number
  <2>1. \A k \in 0..(Raw - 1) : rawDigits[k] \in 0..(Base - 1)
    BY RawDigitRange
  <2>2. \A k \in 0..(Raw - 1) : rawDigits[k] \in Int
    BY <2>1, Sizes
  <2>3. /\ \A k \in 0..(Raw - y - 1) : g[k] = rawDigits[y + k]
        /\ \A k \in 0..(Raw - y - 1) : g[k] \in 0..(Base - 1)
        /\ Raw - y \in Nat \ {0} /\ Base \in Int /\ Raw \in Nat
    BY <1>2, <1>4, <2>1, Sizes
  <2>4. g[0] >= 1
    <3>1. 0 \in 0..(Raw - y - 1) /\ y + 0 = y
      BY <1>2, <1>4, Sizes
    <3>2. g[0] = rawDigits[y] /\ g[0] \in Nat
      BY <2>3, <3>1, Sizes
    <3> QED  BY <1>2, <1>4, <3>2
  <2> HIDE DEF g
  <2>5. Value(g, Raw - y, Base) = Value(rawDigits, Raw, Base)
    BY <1>2, <2>2, <2>3, ValueSkip
  <2>6. Pow(Base, Raw - y - 1) <= Value(g, Raw - y, Base)
    BY <2>3, <2>4, Sizes, ValueLower
  <2> QED  BY <2>5, <2>6, RawValue
<1>5. Pow(ByteBase, Bytes) <= Pow(Base, Raw)
  <2>1. Pow(Base, EncodedMaxLen) <= Pow(Base, Raw)
    BY Sizes, PowMonotone
  <2>2. EncodedMaxLen \in Nat
    BY Sizes
  <2>3. Pow(ByteBase, Bytes) \in Nat /\ Pow(Base, EncodedMaxLen) \in Nat /\ Pow(Base, Raw) \in Nat
    BY <2>2, Sizes, PowPos
  <2> QED  BY <2>1, <2>3, LengthAssumption
<1>6. z <= Raw
  <2>1. Pow(Base, Bytes) <= Pow(ByteBase, Bytes)
    BY Sizes, PowBase
  <2>2. Pow(Base, Bytes) \in Nat /\ Pow(ByteBase, Bytes) \in Nat /\ Pow(Base, Raw) \in Nat
    BY Sizes, PowPos
  <2>3. Pow(Base, Bytes) <= Pow(Base, Raw)
    BY <1>5, <2>1, <2>2
  <2>4. Bytes <= Raw
    BY <2>3, Sizes, PowOrder
  <2> QED  BY <1>1, <2>4, Sizes
<1>7. Pow(ByteBase, Bytes - z) <= Pow(Base, Raw - z)
  <2> DEFINE a == Pow(ByteBase, Bytes - z)
             b == Pow(ByteBase, z)
             c == Pow(Base, Raw - z)
             e == Pow(Base, z)
  <2>1. Bytes - z \in Nat /\ z \in Nat /\ Raw - z \in Nat /\ (Bytes - z) + z = Bytes /\ (Raw - z) + z = Raw
    BY <1>1, <1>6, Sizes
  <2>2. a \in Nat \ {0} /\ b \in Nat \ {0} /\ c \in Nat \ {0} /\ e \in Nat \ {0}
    BY <2>1, Sizes, PowPos
  <2>3. Pow(ByteBase, (Bytes - z) + z) = a * b /\ Pow(Base, (Raw - z) + z) = c * e
    <3> DEFINE p == Bytes - z
               q == Raw - z
    <3>1. p \in Nat /\ q \in Nat /\ z \in Nat /\ ByteBase \in Int /\ Base \in Int
      BY <2>1, Sizes
    <3> HIDE DEF p, q
    <3>2. Pow(ByteBase, p + z) = Pow(ByteBase, p) * Pow(ByteBase, z)
      BY <3>1, PowAdd
    <3>3. Pow(Base, q + z) = Pow(Base, q) * Pow(Base, z)
      BY <3>1, PowAdd
    <3> QED  BY <3>2, <3>3 DEF p, q
  <2>4. e <= b
    BY <2>1, Sizes, PowBase
  <2>5. a * b <= c * e
    BY <1>5, <2>1, <2>3
  <2> HIDE DEF a, b, c, e
  <2>6. ASSUME a > c PROVE FALSE
    <3>1. (a - c) * e > 0 /\ (a - c) * e = a * e - c * e
      BY <2>2, <2>6
    <3>2. a * (b - e) >= 0 /\ a * (b - e) = a * b - a * e
      BY <2>2, <2>4
    <3>3. a * e \in Int /\ c * e \in Int /\ a * b \in Int
      BY <2>2
    <3> QED  BY <2>5, <3>1, <3>2, <3>3
  <2> QED  BY <2>2, <2>6 DEF a, c
<1>8. z <= y
  <2>1. ASSUME y < z PROVE FALSE
    <3>1. y < Raw /\ Raw - z \in Nat /\ Raw - y - 1 \in Nat /\ Raw - z <= Raw - y - 1 /\ Bytes - z \in Nat
      BY <1>1, <1>2, <1>6, <2>1, Sizes
    <3>2. Pow(Base, Raw - z) <= Pow(Base, Raw - y - 1)
      BY <3>1, Sizes, PowMonotone
    <3>3. /\ Pow(Base, Raw - z) \in Nat /\ Pow(Base, Raw - y - 1) \in Nat
          /\ Pow(ByteBase, Bytes - z) \in Nat
      BY <3>1, Sizes, PowPos
    <3> QED  BY <1>3, <1>4, <1>7, <3>1, <3>2, <3>3
  <2> QED  BY <1>1, <1>2, <2>1, Sizes
<1> QED  BY <1>1, <1>2, <1>8 DEF z, y

\* What follows the zeros: the digits of the number, the first of them not zero.
restDigits == [k \in 0..(Raw - rawZeros - 1) |-> rawDigits[rawZeros + k]]

\* They are digits, they are worth the number, and they begin with no zero.
LEMMA RestFacts ==
    ASSUME Ready
    PROVE  /\ Raw - rawZeros \in Nat
           /\ \A k \in 0..(Raw - rawZeros - 1) : restDigits[k] \in 0..(Base - 1)
           /\ \A k \in 0..(Raw - rawZeros - 1) : restDigits[k] = rawDigit(rawZeros + k)
           /\ Raw - rawZeros > 0 => restDigits[0] # 0
           /\ Value(restDigits, Raw - rawZeros, Base) = number
<1> DEFINE y == rawZeros
<1>1. /\ y \in 0..Raw /\ \A k \in 0..(y - 1) : rawDigits[k] = 0
      /\ y < Raw => rawDigits[y] # 0
  BY ZerosFit
<1> HIDE DEF y
<1>2. restDigits = [k \in 0..(Raw - y - 1) |-> rawDigits[y + k]]
  BY DEF restDigits, y
<1>3. Raw - y \in Nat /\ Raw \in Nat /\ Base \in Int
  BY <1>1, Sizes
<1>4. ASSUME NEW k \in 0..(Raw - y - 1)
      PROVE  /\ restDigits[k] = rawDigits[y + k] /\ restDigits[k] \in 0..(Base - 1)
             /\ restDigits[k] = rawDigit(y + k)
  <2>1. y + k \in 0..(Raw - 1)
    BY <1>1, <1>3
  <2>2. rawDigit(y + k) \in 0..(Base - 1) /\ rawDigits[y + k] = rawDigit(y + k)
    BY <2>1, RawDigitRange
  <2> QED  BY <1>2, <2>2
<1>5. ASSUME Raw - y > 0 PROVE restDigits[0] # 0
  <2>1. 0 \in 0..(Raw - y - 1) /\ y + 0 = y /\ y < Raw
    BY <1>1, <1>3, <1>5
  <2> QED  BY <1>1, <1>4, <2>1
<1>6. \A k \in 0..(Raw - 1) : rawDigits[k] \in Int
  BY RawDigitRange, Sizes
<1>7. Value(restDigits, Raw - y, Base) = Value(rawDigits, Raw, Base)
  BY <1>1, <1>3, <1>4, <1>6, ValueSkip
<1> QED  BY <1>3, <1>4, <1>5, <1>7, RawValue DEF y

\* The raw form without its surplus zeros is the encoding.
LEMMA WindowEncodes ==
    ASSUME Ready, NEW skip, skip = rawZeros - inZeros
    PROVE  /\ IsEncoding(Window(extractChars(0), skip), src, Bytes, ByteBase, base58Chars, Base)
           /\ Window(extractChars(0), skip) \in Seq(STRING)
           /\ \A k \in 1..Len(Window(extractChars(0), skip)) :
                \E d \in 0..(Base - 1) : Window(extractChars(0), skip)[k] = base58Chars[d]
<1> DEFINE raw == extractChars(0)
           s == Window(raw, skip)
           z == inZeros
           y == rawZeros
           m == Raw - y
<1>1. /\ z \in 0..Bytes /\ y \in 0..Raw /\ z <= y
      /\ \A k \in 0..(y - 1) : rawDigits[k] = 0
  BY ZerosFit
<1>2. /\ raw \in Seq(STRING) /\ Len(raw) = Raw
      /\ \A x \in 0..(Raw - 1) : raw[x + 1] = base58Chars[rawDigit(x)]
  BY RawAll
<1> HIDE DEF raw, z, y
<1>3. skip = y - z /\ skip \in Nat /\ skip <= Raw /\ Raw \in Nat
  BY <1>1, Sizes DEF y, z
<1>4. /\ s \in Seq(STRING) /\ Len(s) = Raw - skip
      /\ \A k \in 1..(Raw - skip) : s[k] = raw[skip + k]
  BY <1>2, <1>3 DEF Window
<1>5. Len(s) = z + m /\ m \in Nat
  BY <1>1, <1>3, <1>4, Sizes, SMTT(30)
<1>6. \A x \in 0..(Raw - 1) : rawDigits[x] = rawDigit(x)
  BY RawDigitRange
<1> HIDE DEF s
<1>7. ASSUME NEW k \in 1..z PROVE s[k] = base58Chars[0]
  <2>1. /\ k \in 1..(Raw - skip) /\ skip + k - 1 \in 0..(Raw - 1) /\ skip + k - 1 \in 0..(y - 1)
        /\ (skip + k - 1) + 1 = skip + k
    BY <1>1, <1>3, <1>5
  <2>2. raw[(skip + k - 1) + 1] = base58Chars[rawDigit(skip + k - 1)]
    BY <1>2, <2>1
  <2>3. rawDigit(skip + k - 1) = 0
    BY <1>1, <1>6, <2>1
  <2> QED  BY <1>4, <2>1, <2>2, <2>3
<1>8. ASSUME NEW k \in 0..(m - 1) PROVE s[z + 1 + k] = base58Chars[restDigits[k]]
  <2>1. /\ z + 1 + k \in 1..(Raw - skip) /\ y + k \in 0..(Raw - 1)
        /\ skip + (z + 1 + k) = (y + k) + 1
    BY <1>1, <1>3, <1>5
  <2>2. s[z + 1 + k] = raw[(y + k) + 1]
    BY <1>4, <2>1
  <2>3. raw[(y + k) + 1] = base58Chars[rawDigit(y + k)]
    BY <1>2, <2>1
  <2>4. restDigits[k] = rawDigit(y + k)
    BY RestFacts DEF y
  <2> QED  BY <2>2, <2>3, <2>4
<1>9. /\ \A k \in 0..(m - 1) : restDigits[k] \in 0..(Base - 1)
      /\ m > 0 => restDigits[0] # 0
      /\ Value(restDigits, m, Base) = number
  BY RestFacts DEF y
<1> HIDE DEF m
<1>10. src \in Inputs
  BY DEF Ready
<1>11. /\ IsEncoding(s, src, Bytes, ByteBase, base58Chars, Base)
       /\ \A k \in 1..Len(s) : \E d \in 0..(Base - 1) : s[k] = base58Chars[d]
  BY <1>5, <1>7, <1>8, <1>9, <1>10, Encodes DEF z
<1> QED  BY <1>4, <1>11 DEF s, raw

\* The scan of the raw characters counts the leading zero digits.
LEMMA ScanCounts ==
    ASSUME Ready
    PROVE  rawLeading0s(extractChars(0)) = rawZeros
<1> DEFINE raw == extractChars(0)
           f == [k \in 0..(Raw - 1) |-> raw[k + 1]]
           y == rawZeros
<1>1. /\ y \in 0..Raw /\ \A k \in 0..(y - 1) : rawDigits[k] = 0
      /\ y < Raw => rawDigits[y] # 0
  BY ZerosFit
<1>2. \A x \in 0..(Raw - 1) : raw[x + 1] = base58Chars[rawDigit(x)]
  BY RawAll
<1>3. \A x \in 0..(Raw - 1) : rawDigits[x] = rawDigit(x) /\ rawDigit(x) \in 0..(Base - 1)
  BY RawDigitRange
<1>4. Raw \in Nat /\ 0 \in 0..(Base - 1)
  BY Sizes
<1> HIDE DEF y, raw
<1>5. ASSUME NEW k \in 0..(y - 1) PROVE f[k] = base58Chars[0]
  <2>1. k \in 0..(Raw - 1)
    BY <1>1, <1>4
  <2> QED  BY <1>1, <1>2, <1>3, <2>1
<1>6. ASSUME y < Raw PROVE f[y] # base58Chars[0]
  <2>1. y \in 0..(Raw - 1)
    BY <1>1, <1>4, <1>6
  <2>2. f[y] = base58Chars[rawDigit(y)] /\ rawDigit(y) # 0 /\ rawDigit(y) \in 0..(Base - 1)
    BY <1>1, <1>2, <1>3, <1>6, <2>1
  <2> QED  BY <1>4, <2>2, RadixAssumption
<1> HIDE DEF f
<1>7. LeadingZeros(f, Raw, base58Chars[0]) = y
  BY <1>1, <1>4, <1>5, <1>6, LeadingZerosUnique
<1> QED  BY <1>7 DEF rawLeading0s, f, raw, y

\* Without a leading zero byte the result is EncodedMaxLen characters long, or one
\* less: the one digit the kernels look at decides which.
LEMMA FastCounts ==
    ASSUME Ready
    PROVE  FastSkip(extractChars(0)) = rawZeros - inZeros
<1> DEFINE raw == extractChars(0)
           y == rawZeros
           m == Raw - y
           s == Raw - EncodedMaxLen
<1>1. CASE src[0] = 0
  BY <1>1, ScanCounts DEF FastSkip, ScanSkip
<1>2. CASE src[0] # 0
  <2>1. inZeros = 0
    <3>1. 0 \in 0..Bytes /\ Bytes \in Nat /\ \A k \in 0..(0 - 1) : src[k] = 0
      BY Sizes
    <3>2. LeadingZeros(src, Bytes, 0) = 0
      BY <1>2, <3>1, LeadingZerosUnique
    <3> QED  BY <3>2 DEF inZeros
  <2>2. /\ y \in 0..Raw /\ \A k \in 0..(y - 1) : rawDigits[k] = 0
        /\ y < Raw => rawDigits[y] # 0
    BY ZerosFit
  <2>3. Pow(ByteBase, Bytes - 1) <= number /\ number < Pow(ByteBase, Bytes) /\ number \in Nat
    <3>1. src \in [0..(Bytes - 1) -> 0..(ByteBase - 1)]
      BY RadixAssumption DEF Ready
    <3>2. \A k \in 0..(Bytes - 1) : src[k] \in 0..(ByteBase - 1)
      BY <3>1
    <3>3. src[0] >= 1
      <4>1. src[0] \in Nat
        BY <3>2, Sizes
      <4> QED  BY <1>2, <4>1
    <3>4. Pow(ByteBase, Bytes - 1) <= Value(src, Bytes, ByteBase)
      BY <3>2, <3>3, Sizes, ValueLower
    <3>5. Value(src, Bytes, ByteBase) \in 0..(Pow(ByteBase, Bytes) - 1)
      BY <3>2, Sizes, ValueBound
    <3>6. Pow(ByteBase, Bytes) \in Nat
      BY Sizes, PowPos
    <3> QED  BY <3>4, <3>5, <3>6 DEF number
  <2>4. /\ m \in Nat
        /\ \A k \in 0..(m - 1) : restDigits[k] \in 0..(Base - 1)
        /\ m > 0 => restDigits[0] # 0
        /\ Value(restDigits, m, Base) = number
    BY RestFacts
  <2> HIDE DEF y, m
  <2>5. number < Pow(Base, m) /\ (m > 0 => Pow(Base, m - 1) <= number)
    <3>1. Value(restDigits, m, Base) \in 0..(Pow(Base, m) - 1)
      BY <2>4, Sizes, ValueBound
    <3>2. Pow(Base, m) \in Nat
      BY <2>4, Sizes, PowPos
    <3>3. ASSUME m > 0 PROVE Pow(Base, m - 1) <= number
      <4>1. m \in Nat \ {0} /\ restDigits[0] >= 1
        <5>1. restDigits[0] \in Nat
          BY <2>4, <3>3, Sizes
        <5> QED  BY <2>4, <3>3, <5>1
      <4>2. Pow(Base, m - 1) <= Value(restDigits, m, Base)
        BY <2>4, <4>1, Sizes, ValueLower
      <4> QED  BY <2>4, <4>2
    <3> QED  BY <2>4, <3>1, <3>2, <3>3
  <2>6. EncodedMaxLen \in Nat /\ EncodedMaxLen - 2 \in Nat /\ Bytes - 1 \in Nat
    BY Sizes
  <2>7. EncodedMaxLen - 2 < m
    <3>1. Pow(Base, EncodedMaxLen - 2) \in Nat /\ Pow(Base, m) \in Nat /\ Pow(ByteBase, Bytes - 1) \in Nat
      BY <2>4, <2>6, Sizes, PowPos
    <3>2. Pow(Base, EncodedMaxLen - 2) < Pow(Base, m)
      BY <2>3, <2>5, <3>1, LengthAssumption
    <3> DEFINE e == EncodedMaxLen - 2
    <3>3. e \in Nat /\ Pow(Base, e) < Pow(Base, m)
      BY <2>6, <3>2
    <3> HIDE DEF e
    <3>4. e < m
      BY <2>4, <3>3, Sizes, PowOrder
    <3> QED  BY <3>4 DEF e
  <2>8. m <= EncodedMaxLen
    <3>1. m > 0 /\ m - 1 \in Nat
      BY <2>4, <2>6, <2>7
    <3>2. Pow(Base, EncodedMaxLen) \in Nat /\ Pow(Base, m - 1) \in Nat /\ Pow(ByteBase, Bytes) \in Nat
      BY <2>6, <3>1, Sizes, PowPos
    <3>3. Pow(Base, m - 1) < Pow(Base, EncodedMaxLen)
      BY <2>3, <2>5, <3>1, <3>2, LengthAssumption
    <3> DEFINE e == m - 1
    <3>4. e \in Nat /\ Pow(Base, e) < Pow(Base, EncodedMaxLen)
      BY <3>1, <3>3
    <3> HIDE DEF e
    <3>5. e < EncodedMaxLen
      BY <2>6, <3>4, Sizes, PowOrder
    <3> QED  BY <2>4, <2>6, <3>5 DEF e
  <2>9. y = s \/ y = s + 1
    BY <2>2, <2>6, <2>7, <2>8, Sizes DEF m
  <2>10. s \in 0..(Raw - 1)
    BY Sizes
  <2>11. raw[s + 1] = base58Chars[rawDigit(s)] /\ rawDigits[s] = rawDigit(s) /\ rawDigit(s) \in 0..(Base - 1)
    BY <2>10, RawAll, RawDigitRange
  <2>12. (raw[s + 1] = base58Chars[0]) <=> rawDigits[s] = 0
    <3>1. 0 \in 0..(Base - 1)
      BY Sizes
    <3> QED  BY <2>11, <3>1, RadixAssumption
  <2>13. (rawDigits[s] = 0) <=> y = s + 1
    <3>1. CASE y = s
      BY <2>2, <2>10, <3>1, Sizes
    <3>2. CASE y = s + 1
      BY <2>2, <2>10, <3>2, Sizes
    <3> QED  BY <2>9, <3>1, <3>2
  <2>14. FastSkip(raw) = IF raw[s + 1] = base58Chars[0] THEN s + 1 ELSE s
    BY <1>2 DEF FastSkip
  <2>15. FastSkip(raw) = y
    BY <2>9, <2>12, <2>13, <2>14
  <2>16. y - 0 = y
    BY <2>2, Sizes
  <2> QED  BY <2>1, <2>15, <2>16 DEF y
<1> QED  BY <1>1, <1>2

\* digitCount5 is the number of digits of its argument.
LEMMA DigitCount ==
    ASSUME NEW x \in Nat, x < R1div, x # 0
    PROVE  /\ digitCount5(x) \in 1..LimbDigits
           /\ x < Pow(Base, digitCount5(x))
           /\ x >= Pow(Base, digitCount5(x) - 1)
<1> DEFINE S == {c \in Nat : x < Pow(Base, c)}
           P(c) == x < Pow(Base, c) /\ (c > 0 => x >= Pow(Base, c - 1))
<1>1. LimbDigits \in S /\ S \subseteq Nat /\ S # {}
  BY Sizes DEF R1div
<1>2. PICK c \in S : \A k \in S : c <= k
  <2> HIDE DEF S
  <2> QED  BY <1>1, LeastNumber
<1>3. c \in 0..LimbDigits /\ P(c)
  <2>1. c \in Nat /\ c <= LimbDigits /\ x < Pow(Base, c)
    BY <1>1, <1>2
  <2>2. ASSUME c > 0 PROVE x >= Pow(Base, c - 1)
    <3>1. c - 1 \in Nat /\ ~(c <= c - 1)
      BY <2>1, <2>2
    <3>2. c - 1 \notin S
      BY <1>2, <3>1
    <3>3. Pow(Base, c - 1) \in Nat
      BY <3>1, Sizes, PowPos
    <3> QED  BY <3>1, <3>2, <3>3
  <2> QED  BY <2>1, <2>2, Sizes
<1> DEFINE d == digitCount5(x)
<1>4. d \in 0..LimbDigits /\ P(d)
  <2>1. d = CHOOSE e \in 0..LimbDigits : P(e)
    BY DEF digitCount5
  <2> HIDE DEF P, d
  <2> QED  BY <1>3, <2>1
<1> HIDE DEF d
<1>5. d # 0
  <2>1. Pow(Base, 0) = 1
    BY Sizes, PowZero
  <2> QED  BY <1>4, <2>1
<1>6. d \in 1..LimbDigits
  BY <1>4, <1>5, Sizes
<1> QED  BY <1>4, <1>6 DEF d

\* The first limb that is not zero and the number of its digits give the number of
\* leading zeros of the raw form.
LEMMA LengthCounts ==
    ASSUME Ready, iz # Limbs
    PROVE  /\ iz \in 0..(Limbs - 1) /\ dc \in 1..LimbDigits
           /\ rawZeros = iz * LimbDigits + (LimbDigits - dc)
<1> DEFINE x == im[iz]
           d == dc
           n == iz
           p == n * LimbDigits + (LimbDigits - d)
<1>1. /\ n \in 0..(Limbs - 1) /\ im[n] # 0
      /\ \A k \in 0..(n - 1) : im[k] = 0
  <2>1. Limbs \in Nat
    BY Constants
  <2>2. /\ LeadingZeros(im, Limbs, 0) \in 0..Limbs
        /\ \A k \in 0..(LeadingZeros(im, Limbs, 0) - 1) : im[k] = 0
        /\ LeadingZeros(im, Limbs, 0) < Limbs => im[LeadingZeros(im, Limbs, 0)] # 0
    BY <2>1, LeadingZerosDef
  <2>3. iz \in 0..Limbs /\ iz < Limbs
    BY <2>1, <2>2 DEF iz
  <2> QED  BY <2>1, <2>2, <2>3 DEF iz
<1>2. x \in Nat /\ x < R1div /\ x # 0
  BY <1>1 DEF Ready
<1>3. d \in 1..LimbDigits /\ x < Pow(Base, d) /\ x >= Pow(Base, d - 1)
  <2> HIDE DEF x
  <2>1. d = digitCount5(x)
    BY DEF dc, x
  <2> QED  BY <1>2, <2>1, DigitCount
<1> HIDE DEF d, n
<1>4. LimbDigits - d \in 0..(LimbDigits - 1) /\ LimbDigits - 1 - (LimbDigits - d) = d - 1
  BY <1>3, Sizes
<1>5. p \in 0..(Raw - 1) /\ rawDigit(p) = Digit(im[n], LimbDigits - d, LimbDigits, Base)
  <2>1. /\ p \in 0..(Raw - 1) /\ p \div LimbDigits = n /\ p % LimbDigits = LimbDigits - d
    BY <1>1, <1>4, Place
  <2> QED  BY <2>1 DEF rawDigit
<1>6. rawDigit(p) # 0
  <2> DEFINE w == Pow(Base, d - 1)
             q == x \div w
  <2>1. d - 1 \in Nat /\ (d - 1) + 1 = d
    BY <1>3, Sizes
  <2>2. w \in Nat \ {0} /\ Pow(Base, d) = w * Base
    <3>1. Pow(Base, (d - 1) + 1) = Pow(Base, d - 1) * Base
      BY <2>1, Sizes, PowStep
    <3> QED  BY <2>1, <3>1, Sizes, PowPos
  <2>3. x < w * Base /\ x >= w
    BY <1>3, <2>2
  <2> HIDE DEF w, x
  <2>4. q \in Nat /\ x % w \in 0..(w - 1) /\ x = q * w + (x % w)
    <3>1. x \in Int
      BY <1>2
    <3> QED  BY <1>2, <2>2, <3>1, DivMod, DivNat
  <2> HIDE DEF q
  <2>5. q # 0
    BY <2>2, <2>3, <2>4
  <2>6. q < Base
    <3>1. ASSUME q >= Base PROVE FALSE
      <4>1. (q - Base) * w >= 0 /\ (q - Base) * w = q * w - w * Base
        BY <2>2, <2>4, <3>1, Sizes
      <4>2. q * w \in Int /\ w * Base \in Int /\ x % w \in Nat
        BY <2>2, <2>4, Sizes
      <4> QED  BY <1>2, <2>3, <2>4, <4>1, <4>2
    <3> QED  BY <2>4, <3>1, Sizes
  <2>7. q % Base = q
    BY <2>4, <2>6, Sizes, DivNat
  <2>8. rawDigit(p) = q % Base
    BY <1>4, <1>5 DEF Digit, q, w, x, n
  <2> QED  BY <2>5, <2>7, <2>8
<1>7. ASSUME NEW k \in 0..(p - 1) PROVE rawDigits[k] = 0
  <2> DEFINE j == k \div LimbDigits
             b == k % LimbDigits
  <2>1. k \in 0..(Raw - 1)
    BY <1>5, Sizes
  <2>2. j \in 0..(Limbs - 1) /\ b \in 0..(LimbDigits - 1) /\ k = j * LimbDigits + b
    BY <2>1, PlaceOf
  <2>3. rawDigits[k] = Digit(im[j], b, LimbDigits, Base)
    BY <2>1, RawDigitRange DEF rawDigit
  <2>4. LimbDigits - 1 - b \in Nat
    BY <2>2, Sizes
  <2> DEFINE w == Pow(Base, LimbDigits - 1 - b)
  <2>5. w \in Nat \ {0}
    BY <2>4, Sizes, PowPos
  <2> HIDE DEF j, b
  <2>6. im[j] < w
    <3>1. j < n \/ (j = n /\ b < LimbDigits - d)
      <4>1. ASSUME j > n PROVE FALSE
        <5>1. (j - n - 1) * LimbDigits >= 0 /\ (j - n - 1) * LimbDigits = j * LimbDigits - n * LimbDigits - LimbDigits
          BY <1>1, <2>2, <4>1, Sizes, Constants
        <5>2. j * LimbDigits \in Int /\ n * LimbDigits \in Int
          BY <1>1, <2>2, Sizes, Constants
        <5> QED  BY <1>3, <2>2, <5>1, <5>2, Sizes
      <4>2. ASSUME j = n, b >= LimbDigits - d PROVE FALSE
        <5>1. n * LimbDigits \in Int /\ k = n * LimbDigits + b
          BY <1>1, <2>2, <4>2, Sizes, Constants
        <5> QED  BY <1>3, <2>2, <4>2, <5>1, Sizes
      <4> QED  BY <1>1, <1>3, <2>2, <4>1, <4>2, Sizes, Constants
    <3>2. CASE j < n
      <4>1. im[j] = 0
        BY <1>1, <2>2, <3>2
      <4> HIDE DEF w
      <4> QED  BY <2>5, <4>1
    <3>3. CASE j = n /\ b < LimbDigits - d
      <4>1. d <= LimbDigits - 1 - b /\ d \in Nat
        BY <1>3, <2>2, <3>3, Sizes
      <4>2. Pow(Base, d) <= w
        BY <2>4, <4>1, Sizes, PowMonotone
      <4>3. Pow(Base, d) \in Nat
        BY <4>1, Sizes, PowPos
      <4>4. im[j] \in Nat /\ im[j] < Pow(Base, d)
        BY <1>2, <1>3, <3>3 DEF n
      <4> HIDE DEF w
      <4> QED  BY <2>5, <4>2, <4>3, <4>4
    <3> QED  BY <3>1, <3>2, <3>3
  <2>7. im[j] \div w = 0
    <3>1. im[j] \in Nat
      BY <2>2 DEF Ready
    <3> HIDE DEF w
    <3> QED  BY <2>5, <2>6, <3>1, DivNat
  <2>8. 0 % Base = 0
    BY Sizes, DivNat
  <2> QED  BY <2>3, <2>7, <2>8 DEF Digit
<1>8. rawDigits[p] # 0 /\ p \in 0..Raw /\ Raw \in Nat
  BY <1>5, <1>6, RawDigitRange, Sizes
<1> HIDE DEF p
<1>9. LeadingZeros(rawDigits, Raw, 0) = p
  BY <1>7, <1>8, LeadingZerosUnique
<1> QED  BY <1>1, <1>3, <1>9 DEF rawZeros, p, n, d

\* A result is right: it encodes the input, in characters of the alphabet.
Correct(s) ==
    /\ IsEncoding(s, src, Bytes, ByteBase, base58Chars, Base)
    /\ s \in Seq(STRING)
    /\ \A k \in 1..Len(s) : \E d \in 0..(Base - 1) : s[k] = base58Chars[d]

\* When every limb is zero, one character per leading zero byte is all there is.
LEMMA ZeroEncodes ==
    ASSUME Ready, iz = Limbs
    PROVE  Correct(Ones(inZeros))
<1> DEFINE s == Ones(inZeros)
           g == [k \in 0..(0 - 1) |-> 0]
           z == inZeros
<1>1. z \in Nat
  BY ZerosFit, Sizes
<1>2. number = 0
  <2>1. Limbs \in Nat /\ R1div \in Int
    BY Constants
  <2>2. LeadingZeros(im, Limbs, 0) = Limbs
    BY DEF iz
  <2>3. \A k \in 0..(Limbs - 1) : im[k] = 0
    BY <2>1, <2>2, LeadingZerosDef
  <2>4. Value(im, Limbs, R1div) = 0
    BY <2>1, <2>3, ValueZeros
  <2> QED  BY <2>4 DEF Ready
<1>3. Value(g, 0, Base) = number
  BY <1>2, Sizes, ValueZero
<1>4. base58Chars[0] \in STRING
  <2>1. 0 \in 0..(Base - 1)
    BY Sizes
  <2> QED  BY <2>1, RadixAssumption
<1>5. s \in Seq(STRING) /\ Len(s) = z /\ \A k \in 1..z : s[k] = base58Chars[0]
  <2> HIDE DEF z
  <2>1. s = [k \in 1..z |-> base58Chars[0]]
    BY DEF Ones, z
  <2> HIDE DEF s
  <2> QED  BY <1>1, <1>4, <2>1
<1>6. src \in Inputs /\ 0 \in Nat /\ z + 0 = z /\ 0..(0 - 1) = {}
  BY <1>1 DEF Ready
<1> HIDE DEF s, g
<1>7. /\ IsEncoding(s, src, Bytes, ByteBase, base58Chars, Base)
      /\ \A k \in 1..Len(s) : \E d \in 0..(Base - 1) : s[k] = base58Chars[d]
  <2> DEFINE m == 0
  <2>1. /\ m \in Nat /\ Len(s) = inZeros + m /\ ~(m > 0) /\ Value(g, m, Base) = number
        /\ \A k \in 0..(m - 1) : g[k] \in 0..(Base - 1)
        /\ \A k \in 0..(m - 1) : s[inZeros + 1 + k] = base58Chars[g[k]]
        /\ \A k \in 1..inZeros : s[k] = base58Chars[0]
    BY <1>3, <1>5, <1>6
  <2> HIDE DEF m
  <2> QED  BY <1>6, <2>1, Encodes
<1> QED  BY <1>5, <1>7 DEF Correct, s

\* The length that is computed from the limbs is that of the result.
LEMMA OutLen ==
    ASSUME Ready, iz # Limbs
    PROVE  Raw - outLen = rawZeros - inZeros
<1>1. /\ iz \in 0..(Limbs - 1) /\ dc \in 1..LimbDigits
      /\ rawZeros = iz * LimbDigits + (LimbDigits - dc)
  BY LengthCounts
<1>2. inZeros \in Nat
  BY ZerosFit, Sizes
<1>3. outLen = inZeros + dc + LimbDigits * (Limbs - 1 - iz)
  BY DEF outLen
<1> DEFINE n == iz
           d == dc
           z == inZeros
<1> HIDE DEF n, d, z
<1>4. /\ n \in Nat /\ d \in Nat /\ z \in Nat /\ Limbs \in Nat /\ LimbDigits \in Nat
      /\ Raw = Limbs * LimbDigits
  BY <1>1, <1>2, Constants, Sizes DEF n, d, z
<1>5. \A a, b, c, e, f \in Nat :
        a * b - (c + e + b * (a - 1 - f)) = (f * b + (b - e)) - c
  OBVIOUS
<1>6. Limbs * LimbDigits - (z + d + LimbDigits * (Limbs - 1 - n)) = (n * LimbDigits + (LimbDigits - d)) - z
  BY <1>4, <1>5
<1> QED  BY <1>1, <1>3, <1>4, <1>6 DEF n, d, z

\* Where the elements of two sequences are in their concatenation.
LEMMA Concat ==
    ASSUME NEW a \in Seq(STRING), NEW b \in Seq(STRING), NEW m, NEW n, m = Len(a), n = Len(b)
    PROVE  /\ a \o b \in Seq(STRING) /\ Len(a \o b) = m + n
           /\ \A k \in 1..m : (a \o b)[k] = a[k]
           /\ \A k \in 1..n : (a \o b)[m + k] = b[k]
<1>1. Len(a) \in Nat /\ Len(b) \in Nat /\ a \o b \in Seq(STRING) /\ Len(a \o b) = Len(a) + Len(b)
  OBVIOUS
<1>2. ASSUME NEW k \in 1..Len(a) PROVE (a \o b)[k] = a[k]
  BY <1>1
<1>3. ASSUME NEW k \in 1..Len(b) PROVE (a \o b)[Len(a) + k] = b[k]
  BY <1>1
<1> QED  BY <1>1, <1>2, <1>3

\* encode64WriteGeneric puts the same characters there, limb by limb.
LEMMA WriteEncodes ==
    ASSUME Ready
    PROVE  Correct(WriteOut)
<1>1. CASE iz = Limbs
  <2> DEFINE s == Ones(inZeros)
  <2>1. Correct(s) /\ s \in Seq(STRING)
    BY <1>1, ZeroEncodes DEF Correct
  <2>2. WriteOut = s \o <<>>
    BY <1>1 DEF WriteOut
  <2> HIDE DEF s
  <2>3. s \o <<>> = s
    BY <2>1
  <2> QED  BY <2>1, <2>2, <2>3
<1>2. CASE iz # Limbs
  <2> DEFINE z == inZeros
             n == iz
             d == dc
             e == extractChars5(im[n])
             a == Ones(z)
             b == SubSeq(e, LimbDigits - d + 1, LimbDigits)
             c == extractChars(n + 1)
             r == LimbDigits * (Limbs - (n + 1))
             y == rawZeros
             m == Raw - y
             s == WriteOut
  <2>1. n \in 0..(Limbs - 1) /\ d \in 1..LimbDigits /\ y = n * LimbDigits + (LimbDigits - d)
    BY <1>2, LengthCounts
  <2>2. z \in Nat
    BY ZerosFit, Sizes
  <2>3. s = a \o (b \o c)
    BY <1>2 DEF WriteOut
  <2>4. im[n] \in Nat /\ im[n] < R1div /\ n + 1 \in 0..Limbs
    BY <2>1, Constants DEF Ready
  <2>5. /\ e \in Seq(STRING) /\ Len(e) = LimbDigits
        /\ \A k \in 1..LimbDigits : e[k] = base58Chars[Digit(im[n], k - 1, LimbDigits, Base)]
    <3>1. /\ e \in [1..LimbDigits -> STRING]
          /\ \A k \in 1..LimbDigits : e[k] = base58Chars[Digit(im[n], k - 1, LimbDigits, Base)]
      BY <2>4, LimbChars
    <3>2. LimbDigits \in Nat
      BY Sizes
    <3> HIDE DEF e
    <3> QED  BY <3>1, <3>2
  <2>6. /\ Len(c) = r /\ r \in Nat /\ c \in Seq(STRING)
        /\ (n + 1) * LimbDigits + r = Raw
        /\ \A k \in 0..(r - 1) : c[k + 1] = base58Chars[rawDigit((n + 1) * LimbDigits + k)]
    BY <2>4, RawChars
  <2>7. a \in Seq(STRING) /\ Len(a) = z /\ \A k \in 1..z : a[k] = base58Chars[0]
    <3>1. base58Chars[0] \in STRING
      <4>1. 0 \in 0..(Base - 1)
        BY Sizes
      <4> QED  BY <4>1, RadixAssumption
    <3> HIDE DEF z
    <3>2. a = [k \in 1..z |-> base58Chars[0]]
      BY DEF Ones
    <3> HIDE DEF a
    <3> QED  BY <2>2, <3>1, <3>2
  <2> HIDE DEF z, n, d, e, a, c, r, y
  <2>8. LimbDigits - d + 1 \in 1..LimbDigits /\ LimbDigits \in Nat /\ d \in Nat /\ d >= 1
    BY <2>1, Sizes
  <2>9. b \in Seq(STRING) /\ Len(b) = d /\ \A k \in 1..d : b[k] = e[LimbDigits - d + k]
    BY <2>5, <2>8
  <2> HIDE DEF b
  <2>10. /\ s \in Seq(STRING) /\ Len(s) = z + d + r
         /\ \A k \in 1..z : s[k] = a[k]
         /\ \A k \in 1..d : s[z + k] = b[k]
         /\ \A k \in 1..r : s[z + d + k] = c[k]
    <3> DEFINE bc == b \o c
    <3>1. /\ bc \in Seq(STRING) /\ Len(bc) = d + r
          /\ \A k \in 1..d : bc[k] = b[k]
          /\ \A k \in 1..r : bc[d + k] = c[k]
      BY <2>6, <2>9, Concat
    <3> HIDE DEF bc
    <3>2. s = a \o bc
      BY <2>3 DEF bc
    <3> HIDE DEF s
    <3>3. /\ s \in Seq(STRING) /\ Len(s) = z + (d + r)
          /\ \A k \in 1..z : s[k] = a[k]
          /\ \A k \in 1..(d + r) : s[z + k] = bc[k]
      <4> DEFINE x == d + r
      <4>1. x \in Nat /\ Len(bc) = x
        BY <2>6, <2>8, <3>1
      <4> HIDE DEF x
      <4>2. /\ s \in Seq(STRING) /\ Len(s) = z + x
            /\ \A k \in 1..z : s[k] = a[k]
            /\ \A k \in 1..x : s[z + k] = bc[k]
        BY <2>7, <3>1, <3>2, <4>1, Concat
      <4> QED  BY <4>2 DEF x
    <3>4. ASSUME NEW k \in 1..r PROVE s[z + d + k] = c[k]
      <4>1. d + k \in 1..(d + r) /\ z + (d + k) = z + d + k
        BY <2>2, <2>6, <2>8
      <4> QED  BY <3>1, <3>3, <4>1
    <3>5. ASSUME NEW k \in 1..d PROVE s[z + k] = b[k]
      <4>1. k \in 1..(d + r)
        BY <2>6, <2>8
      <4> QED  BY <3>1, <3>3, <4>1
    <3>6. z + (d + r) = z + d + r
      BY <2>2, <2>6, <2>8
    <3> QED  BY <3>3, <3>4, <3>5, <3>6
  <2> HIDE DEF s
  <2>11. m = d + r /\ m \in Nat
    <3>1. n * LimbDigits \in Nat /\ (n + 1) * LimbDigits = n * LimbDigits + LimbDigits
      BY <2>1, <2>8, Constants
    <3> QED  BY <2>1, <2>6, <2>8, <3>1
  <2> HIDE DEF m
  <2>12. /\ \A k \in 0..(m - 1) : restDigits[k] \in 0..(Base - 1)
         /\ \A k \in 0..(m - 1) : restDigits[k] = rawDigit(y + k)
         /\ m > 0 => restDigits[0] # 0
         /\ Value(restDigits, m, Base) = number
    BY RestFacts DEF m, y
  <2>13. ASSUME NEW k \in 0..(m - 1) PROVE s[z + 1 + k] = base58Chars[restDigits[k]]
    <3>1. CASE k < d
      <4>1. k + 1 \in 1..d /\ z + (k + 1) = z + 1 + k
        BY <2>2, <2>8, <3>1
      <4>2. s[z + 1 + k] = e[LimbDigits - d + (k + 1)]
        BY <2>9, <2>10, <4>1
      <4>3. /\ LimbDigits - d + (k + 1) \in 1..LimbDigits
            /\ (LimbDigits - d + (k + 1)) - 1 = LimbDigits - d + k
            /\ LimbDigits - d + k \in 0..(LimbDigits - 1)
        BY <2>8, <2>1, <3>1
      <4>4. s[z + 1 + k] = base58Chars[Digit(im[n], LimbDigits - d + k, LimbDigits, Base)]
        BY <2>5, <4>2, <4>3
      <4>5. y + k = n * LimbDigits + (LimbDigits - d + k)
        <5>1. n * LimbDigits \in Int
          BY <2>1, <2>8, Constants
        <5> QED  BY <2>1, <2>8, <5>1
      <4>6. rawDigit(y + k) = Digit(im[n], LimbDigits - d + k, LimbDigits, Base)
        <5>1. /\ (y + k) \div LimbDigits = n
              /\ (y + k) % LimbDigits = LimbDigits - d + k
          BY <2>1, <4>3, <4>5, Place
        <5> QED  BY <5>1 DEF rawDigit
      <4> QED  BY <2>12, <4>4, <4>6
    <3>2. CASE k >= d
      <4>1. k - d + 1 \in 1..r /\ z + d + (k - d + 1) = z + 1 + k /\ k - d \in 0..(r - 1)
        BY <2>2, <2>6, <2>8, <2>11, <3>2
      <4>2. s[z + 1 + k] = c[k - d + 1]
        BY <2>10, <4>1
      <4>3. c[k - d + 1] = base58Chars[rawDigit((n + 1) * LimbDigits + (k - d))]
        BY <2>6, <4>1
      <4>4. (n + 1) * LimbDigits + (k - d) = y + k
        <5>1. n * LimbDigits \in Int /\ (n + 1) * LimbDigits = n * LimbDigits + LimbDigits
          BY <2>1, <2>8, Constants
        <5> QED  BY <2>1, <2>8, <5>1
      <4> QED  BY <2>12, <4>2, <4>3, <4>4
    <3> QED  BY <2>8, <2>11, <3>1, <3>2
  <2>14. Len(s) = z + m /\ \A k \in 1..z : s[k] = base58Chars[0]
    <3>1. Len(s) = z + m
      BY <2>2, <2>6, <2>8, <2>10, <2>11
    <3> QED  BY <2>7, <2>10, <3>1
  <2>15. src \in Inputs
    BY DEF Ready
  <2>16. /\ IsEncoding(s, src, Bytes, ByteBase, base58Chars, Base)
         /\ \A k \in 1..Len(s) : \E x \in 0..(Base - 1) : s[k] = base58Chars[x]
    BY <2>11, <2>12, <2>13, <2>14, <2>15, Encodes DEF z
  <2> QED  BY <2>10, <2>16 DEF Correct, s
<1> QED  BY <1>1, <1>2

\* Every path renders the encoding of its input.
LEMMA RenderStep == Inv /\ Render => Inv'
<1> SUFFICES ASSUME Inv, Render PROVE Inv'
  OBVIOUS
<1> DEFINE raw == extractChars(0)
<1>1. /\ pc = "render" /\ pc' = "done"
      /\ src' = src /\ path' = path /\ row' = row /\ im' = im /\ part' = part /\ i' = i
      /\ carry' = carry /\ lowCarry' = lowCarry /\ path \in Paths
  BY DEF Inv, Typed, Render
<1>2. Ready
  BY <1>1, RenderReady
<1>3. path \in {"raw", "render", "write", "append", "full"}
  BY <1>1, RadixAssumption
<1>4. \A skip : skip = rawZeros - inZeros => Correct(Window(raw, skip))
  BY <1>2, WindowEncodes DEF Correct
<1>5. Correct(out')
  <2>1. CASE path = "raw"
    <3>1. out' = Window(raw, ScanSkip(raw))
      BY <2>1 DEF Render
    <3>2. ScanSkip(raw) = rawZeros - inZeros
      BY <1>2, ScanCounts DEF ScanSkip
    <3> QED  BY <1>4, <3>1, <3>2
  <2>2. CASE path \in {"append", "full"}
    <3>1. out' = Window(raw, FastSkip(raw))
      BY <2>2 DEF Render
    <3>2. FastSkip(raw) = rawZeros - inZeros
      BY <1>2, FastCounts
    <3> QED  BY <1>4, <3>1, <3>2
  <2>3. CASE path = "render"
    <3>1. out' = RenderOut(raw)
      BY <2>3 DEF Render
    <3>2. CASE iz = Limbs
      <4>1. RenderOut(raw) = Ones(inZeros)
        BY <3>2 DEF RenderOut, outLen
      <4> QED  BY <1>2, <3>1, <3>2, <4>1, ZeroEncodes
    <3>3. CASE iz # Limbs
      <4>1. RenderOut(raw) = Window(raw, Raw - outLen)
        BY <3>3 DEF RenderOut
      <4>2. Raw - outLen = rawZeros - inZeros
        BY <1>2, <3>3, OutLen
      <4> QED  BY <1>4, <3>1, <4>1, <4>2
    <3> QED  BY <3>2, <3>3
  <2>4. CASE path = "write"
    <3>1. out' = WriteOut
      BY <2>4 DEF Render
    <3> QED  BY <1>2, <3>1, WriteEncodes
  <2> QED  BY <1>3, <2>1, <2>2, <2>3, <2>4
<1>6. Typed'
  BY <1>1 DEF Inv, Typed
<1>7. Summing' /\ Carrying' /\ ValuePreserved'
  BY <1>1 DEF Summing, Carrying, ValuePreserved
<1>8. Finishing'
  BY <1>1 DEF Inv, Finishing
<1>9. Rendered'
  <2> DEFINE s == out'
  <2>1. Correct(s)
    BY <1>5
  <2> HIDE DEF s
  <2>2. DOMAIN s = 1..Len(s)
    BY <2>1 DEF Correct
  <2>3. \A k \in DOMAIN s : \E d \in 0..(Base - 1) : s[k] = base58Chars[d]
    BY <2>1, <2>2 DEF Correct
  <2> QED  BY <2>3 DEF Rendered, s
<1>10. ResultCorrect'
  BY <1>1, <1>5 DEF ResultCorrect, Correct
<1> QED  BY <1>6, <1>7, <1>8, <1>9, <1>10 DEF Inv

\* Nothing is summed yet.
LEMMA InitInv == Init => Inv
<1> SUFFICES ASSUME Init PROVE Inv
  OBVIOUS
<1>1. /\ src \in Inputs /\ path \in Paths /\ pc = "matmul" /\ row = 0 /\ part = 0
      /\ im = [k \in 0..(Limbs - 1) |-> 0]
      /\ i = Limbs - 1 /\ carry = 0 /\ lowCarry = 0 /\ out = <<>>
  BY DEF Init
<1>2. Typed
  BY <1>1, Constants DEF Typed
<1>3. /\ \A k \in 0..(Limbs - 1) : im[k] = 0
      /\ 0 \in 0..(Limbs - 1) /\ Hot \in 0..(Limbs - 1)
  BY <1>1, Constants
<1>4. Summing
  <2>1. ~Reduced /\ PartMax = 0 /\ HotMax = 0
    BY <1>1, Constants, ColumnNone DEF Reduced, PartMax, HotMax
  <2>2. ASSUME NEW k \in 1..(Limbs - 1), k # Hot
        PROVE  im[k] <= ColumnMax(k, row) + (IF k = Hot - 1 /\ Reduced THEN CarryMax ELSE 0)
    <3>1. im[k] = 0 /\ ColumnMax(k, row) = 0
      BY <1>1, <1>3, Constants, ColumnNone
    <3> QED  BY <2>1, <3>1
  <2>3. row < Words
    BY <1>1, Constants
  <2>4. im[Hot] <= HotMax /\ part <= PartMax /\ im[0] = 0
    BY <1>1, <1>3, <2>1
  <2> QED  BY <1>1, <2>2, <2>3, <2>4 DEF Summing
<1>5. Carrying /\ Finishing /\ ResultCorrect
  BY <1>1 DEF Carrying, Finishing, ResultCorrect
<1>6. Rendered
  BY <1>1 DEF Rendered
<1>7. ValuePreserved
  <2>1. Value(im, Limbs, R1div) = 0
    BY <1>3, Constants, ValueZeros
  <2> DEFINE f == [j \in 0..(Words - 1) |-> IF j < row THEN bin(j) ELSE 0]
  <2>2. \A j \in 0..(Words - 1) : f[j] = 0
    BY <1>1, Constants
  <2>3. Words \in Nat /\ WordBase \in Int
    BY Constants
  <2> HIDE DEF f
  <2>4. Value(f, Words, WordBase) = 0
    BY <2>2, <2>3, ValueZeros
  <2>5. Consumed = 0
    BY <2>4 DEF Consumed, f
  <2>6. Weight(Hot) \in Nat /\ Weight(i) \in Nat /\ Weight(Half - 1) \in Nat
    <3>1. i \in 0..(Limbs - 1) /\ Half - 1 \in 0..(Limbs - 1)
      BY <1>1, Constants
    <3> QED  BY <1>3, <3>1, WeightFacts
  <2> QED  BY <1>1, <2>1, <2>5, <2>6 DEF ValuePreserved
<1> QED  BY <1>2, <1>4, <1>5, <1>6, <1>7 DEF Inv

-----------------------------------------------------------------------------
(* The theorems *)

\* The invariant is inductive: it holds initially and every action keeps it.
THEOREM Invariance == Spec => []Inv
<1>1. Inv /\ UNCHANGED vars => Inv'
  <2> SUFFICES ASSUME Inv, UNCHANGED vars PROVE Inv'
    OBVIOUS
  <2>1. /\ src' = src /\ path' = path /\ pc' = pc /\ row' = row /\ im' = im /\ part' = part
        /\ i' = i /\ carry' = carry /\ lowCarry' = lowCarry /\ out' = out
    BY DEF vars
  <2>2. Typed'
    BY <2>1 DEF Inv, Typed
  <2>3. Summing'
    BY <2>1 DEF Inv, Summing, Reduced, HotMax, PartMax
  <2>4. Carrying' /\ Finishing'
    BY <2>1 DEF Inv, Carrying, Finishing
  <2>5. Rendered' /\ ResultCorrect'
    BY <2>1 DEF Inv, Rendered, ResultCorrect
  <2>6. ValuePreserved'
    BY <2>1 DEF Inv, ValuePreserved, Consumed, bin, Weight
  <2> QED  BY <2>2, <2>3, <2>4, <2>5, <2>6 DEF Inv
<1>2. Inv /\ [Next]_vars => Inv'
  BY <1>1, MulRowStep, MiniReductionStep, CarryStepStep, LowCarryStepStep, CarryEndStep,
     PatchStep, RippleStep, RenderStep DEF Next, Terminated
<1> QED  BY InitInv, <1>2, PTL DEF Spec

\* No column sum and no carry of encodeMatMul or of the carry chains ever wraps
\* around: at every step they make up the value of the words read.
THEOREM ValueAlwaysPreserved == Spec => []ValuePreserved
<1>1. Inv => ValuePreserved
  BY DEF Inv
<1> QED  BY Invariance, <1>1, PTL

\* Every limb that extractChars5 is given is below R1div, the first one, which no
\* division reduces, included.
THEOREM LimbsAlwaysReduced == Spec => []LimbsReduced
<1>1. Inv => LimbsReduced
  BY DEF Inv, Finishing, LimbsReduced
<1> QED  BY Invariance, <1>1, PTL

\* Every path of Encode32 and Encode64 returns the base58 form of its input.
THEOREM ResultAlwaysCorrect == Spec => []ResultCorrect
<1>1. Inv => ResultCorrect
  BY DEF Inv
<1> QED  BY Invariance, <1>1, PTL

\* The bounds of the invariant are below Wrap: every column is a uint64.
LEMMA ColumnsAreWords ==
    ASSUME Inv
    PROVE  /\ \A k \in 0..(Limbs - 1) : im[k] < Wrap
           /\ part < Wrap
<1>1. /\ im \in [0..(Limbs - 1) -> Nat] /\ row \in 0..Words /\ part \in Nat /\ i \in 0..(Limbs - 1)
      /\ pc \in {"matmul", "reduce", "carry", "patch", "ripple", "render", "done"}
  BY DEF Inv, Typed
<1>2. R1div < Wrap /\ 0 < Wrap
  <2>1. Words \in HeadWords..Words
    BY Constants
  <2>2. TailMax(Words) \in Nat /\ R1div + TailMax(Words) + CarryMax < Wrap
    BY <2>1, HotFits
  <2> QED  BY <2>2, Constants
<1>3. CASE pc \in {"matmul", "reduce"}
  <2>1. /\ im[0] = 0
        /\ \A k \in 1..(Limbs - 1) : k # Hot =>
             im[k] <= ColumnMax(k, row) + (IF k = Hot - 1 /\ Reduced THEN CarryMax ELSE 0)
        /\ im[Hot] <= HotMax /\ part <= PartMax
    BY <1>3 DEF Inv, Summing
  <2>2. im[Hot] < Wrap
    <3>0. im[Hot] \in Nat
      BY <1>1, Constants
    <3>1. CASE Reduced
      <4>1. row \in HeadWords..Words
        BY <1>1, <3>1, Constants DEF Reduced
      <4>2. HotMax = R1div + TailMax(row)
        BY <3>1 DEF HotMax
      <4>3. TailMax(row) \in Nat /\ R1div + TailMax(row) + CarryMax < Wrap
        BY <4>1, HotFits
      <4> QED  BY <2>1, <3>0, <4>2, <4>3, Constants
    <3>2. CASE ~Reduced
      <4> DEFINE r == IF row < HeadWords THEN row ELSE HeadWords
      <4>1. r \in 0..HeadWords /\ r \in 0..Words /\ Hot \in 1..(Limbs - 1)
        BY <1>1, Constants
      <4>2. HotMax = ColumnMax(Hot, r)
        BY <3>2 DEF HotMax
      <4> HIDE DEF r
      <4>3. ColumnMax(Hot, r) + CarryMax < Wrap /\ ColumnMax(Hot, r) \in Nat
        BY <4>1, HotFits, ColumnNat
      <4> QED  BY <2>1, <3>0, <4>2, <4>3, Constants
    <3> QED  BY <3>1, <3>2
  <2>3. ASSUME NEW k \in 1..(Limbs - 1), k # Hot PROVE im[k] < Wrap
    <3>1. ColumnMax(k, row) + (IF k = Hot - 1 THEN CarryMax ELSE 0) < Wrap /\ ColumnMax(k, row) \in Nat
      BY <1>1, <2>3, ColumnFits, ColumnNat
    <3>2. im[k] <= ColumnMax(k, row) + (IF k = Hot - 1 /\ Reduced THEN CarryMax ELSE 0)
      BY <2>1, <2>3
    <3>3. im[k] \in Nat
      BY <1>1, Constants
    <3> QED  BY <3>1, <3>2, <3>3, Constants
  <2>4. part < Wrap
    <3>1. CASE path = "full" /\ row >= HeadWords
      <4>1. row \in HeadWords..Words
        BY <1>1, <3>1, Constants
      <4>2. PartMax = TailMax(row)
        BY <3>1 DEF PartMax
      <4>3. TailMax(row) \in Nat /\ R1div + TailMax(row) + CarryMax < Wrap
        BY <4>1, HotFits
      <4> QED  BY <1>1, <2>1, <4>2, <4>3, Constants
    <3>2. CASE ~(path = "full" /\ row >= HeadWords)
      BY <1>1, <1>2, <2>1, <3>2 DEF PartMax
    <3> QED  BY <3>1, <3>2
  <2>5. ASSUME NEW k \in 0..(Limbs - 1) PROVE im[k] < Wrap
    <3>1. k = 0 \/ k = Hot \/ (k \in 1..(Limbs - 1) /\ k # Hot)
      BY Constants
    <3> QED  BY <1>2, <2>1, <2>2, <2>3, <3>1
  <2> QED  BY <2>4, <2>5
<1>4. CASE pc = "carry"
  <2>1. /\ im[0] = 0
        /\ \A k \in (i + 1)..(Limbs - 1) : im[k] < R1div
        /\ \A k \in 1..i : k # Hot =>
             im[k] <= ColumnMax(k, Words) + (IF k = Hot - 1 /\ path # "full" THEN CarryMax ELSE 0)
        /\ Hot <= i => im[Hot] + CarryMax < Wrap
        /\ part + R1div < Wrap
    BY <1>4 DEF Inv, Carrying
  <2>2. ASSUME NEW k \in 0..(Limbs - 1) PROVE im[k] < Wrap
    <3>0. im[k] \in Nat
      BY <1>1
    <3>1. k = 0 \/ k \in (i + 1)..(Limbs - 1) \/ (k = Hot /\ Hot <= i) \/ (k \in 1..i /\ k # Hot)
      BY <1>1, Constants
    <3>2. CASE k \in (i + 1)..(Limbs - 1)
      BY <1>2, <2>1, <3>0, <3>2, Constants
    <3>3. CASE k = Hot /\ Hot <= i
      BY <2>1, <3>0, <3>3, Constants
    <3>4. CASE k \in 1..i /\ k # Hot
      <4>1. k \in 1..(Limbs - 1) /\ Words \in 0..Words
        BY <1>1, <3>4, Constants
      <4>2. ColumnMax(k, Words) + (IF k = Hot - 1 THEN CarryMax ELSE 0) < Wrap /\ ColumnMax(k, Words) \in Nat
        BY <3>4, <4>1, ColumnFits, ColumnNat
      <4>3. im[k] <= ColumnMax(k, Words) + (IF k = Hot - 1 /\ path # "full" THEN CarryMax ELSE 0)
        BY <2>1, <3>4
      <4> QED  BY <3>0, <4>2, <4>3, Constants
    <3> QED  BY <1>2, <2>1, <3>1, <3>2, <3>3, <3>4
  <2>3. part < Wrap
    BY <1>1, <2>1, Constants
  <2> QED  BY <2>2, <2>3
<1>5. CASE pc \in {"patch", "ripple", "render", "done"}
  <2>1. part = 0 /\ \A k \in 0..(Limbs - 1) : im[k] < R1div
    BY <1>5 DEF Inv, Finishing
  <2>2. ASSUME NEW k \in 0..(Limbs - 1) PROVE im[k] < Wrap
    <3>1. im[k] \in Nat /\ im[k] < R1div
      BY <1>1, <2>1
    <3> QED  BY <1>2, <3>1, Constants
  <2> QED  BY <1>2, <2>1, <2>2
<1> QED  BY <1>1, <1>3, <1>4, <1>5

\* The type invariant: the columns and the second sum of column Hot are uint64
\* values, and only characters of the alphabet are returned.
THEOREM TypesAlwaysOK == Spec => []TypeOK
<1>1. Inv => TypeOK
  <2> SUFFICES ASSUME Inv PROVE TypeOK
    OBVIOUS
  <2>1. /\ src \in Inputs /\ path \in Paths
        /\ pc \in {"matmul", "reduce", "carry", "patch", "ripple", "render", "done"}
        /\ row \in 0..Words /\ im \in [0..(Limbs - 1) -> Nat] /\ i \in 0..(Limbs - 1)
        /\ part \in Nat /\ carry \in Nat /\ lowCarry \in Nat
    BY DEF Inv, Typed
  <2>2. src \in [0..(Bytes - 1) -> 0..(ByteBase - 1)]
    BY <2>1, RadixAssumption
  <2>3. DOMAIN im = 0..(Limbs - 1)
    BY <2>1
  <2>4. \A k \in DOMAIN im : im[k] \in 0..(Wrap - 1)
    <3>1. \A k \in 0..(Limbs - 1) : im[k] < Wrap /\ im[k] \in Nat
      BY <2>1, ColumnsAreWords
    <3> QED  BY <2>3, <3>1, Constants
  <2>5. part \in 0..(Wrap - 1)
    BY <2>1, ColumnsAreWords, Constants
  <2>6. \A k \in DOMAIN out : \E d \in 0..(Base - 1) : out[k] = base58Chars[d]
    BY DEF Inv, Rendered
  <2> QED  BY <2>1, <2>2, <2>3, <2>4, <2>5, <2>6 DEF TypeOK
<1> QED  BY Invariance, <1>1, PTL

-----------------------------------------------------------------------------
(* The quotients of the code                                               *)
(*                                                                         *)
(* The model divides; the kernels multiply by a rounded reciprocal and     *)
(* shift.  With the numbers of the code the two agree over the whole range *)
(* of the dividends: every uint64 in the carry chains, every element below *)
(* 58^5 where digits are extracted.                                        *)
(*                                                                         *)
(* The prover folds literals in machine integers.  Numbers of 2^62 and     *)
(* more are therefore kept symbolic in Two32, which is expanded only in    *)
(* steps whose literals stay small.                                        *)

Two32  == 65536 * 65536
Two64  == Two32 * Two32
Limb58 == 656356768         \* 58^5

\* 0x68b2c7ad1a016ab5: high64(v * M) >> 28; and 0xD1658F5A3402D56A, its double,
\* with a shift by 29.  MULQ leaves the high word of a product of 128 bits.
carryMagic        == 1756546989 * Two32 + 436300469
carryQuotient(x)  == ((x * carryMagic) \div Two64) \div 268435456
reduceQuotient(x) == ((x * (2 * carryMagic)) \div Two64) \div 536870912

\* (x * m) >> s, the product being kept in 64 bits: shift is 2^s.
MulShift64(x, m, shift) == ((x * m) % Two64) \div shift

\* digitsToChars16FastRegs and I2R; RENDER5; digitsToChars36 and its callers.
b58div58(x)   == MulShift64(x, 2369637129, 32 * Two32)
b58div3364(x) == MulShift64(x \div 4, 1307386003, 256 * Two32)
render3364(x) == MulShift64(x \div 2, 2614772005, 1024 * Two32)
b58m4(x)      == MulShift64(x, 795935355, 2097152 * Two32)
b58m3(x)      == MulShift64(x, 11270569, 512 * Two32)
b58m2(x)      == MulShift64(x, 1276745, Two32)
b58m1(x)      == MulShift64(x, 74051161, Two32)

\* The word sizes are positive.
LEMMA WordSizes ==
    /\ Two32 \in Nat \ {0} /\ Two64 \in Nat \ {0}
    /\ Two64 = Two32 * Two32
<1>1. Two32 \in Nat \ {0}
  BY SMT DEF Two32
<1> QED  BY <1>1, SMT DEF Two64

\* The powers of 58 the kernels divide by; the last is R1div.
LEMMA FiftyEight ==
    /\ Pow(58, 1) = 58 /\ Pow(58, 2) = 3364 /\ Pow(58, 3) = 195112
    /\ Pow(58, 4) = 11316496 /\ Pow(58, 5) = Limb58
<1>1. /\ Pow(58, 0) = 1
      /\ Pow(58, 0 + 1) = Pow(58, 0) * 58 /\ Pow(58, 1 + 1) = Pow(58, 1) * 58
      /\ Pow(58, 2 + 1) = Pow(58, 2) * 58 /\ Pow(58, 3 + 1) = Pow(58, 3) * 58
      /\ Pow(58, 4 + 1) = Pow(58, 4) * 58
  BY PowZero, PowStep
<1>2. 0 + 1 = 1 /\ 1 + 1 = 2 /\ 2 + 1 = 3 /\ 3 + 1 = 4 /\ 4 + 1 = 5
  OBVIOUS
<1>3. Pow(58, 1) = 58 /\ Pow(58, 2) = 3364
  BY <1>1, <1>2, SMT
<1>4. Pow(58, 3) = 195112 /\ Pow(58, 4) = 11316496
  BY <1>1, <1>2, <1>3, SMT
<1>5. Pow(58, 5) = Limb58
  BY <1>1, <1>2, <1>4, SMT DEF Limb58
<1> QED  BY <1>3, <1>4, <1>5, SMT

\* m is the reciprocal of d rounded up by e, over s; the product of m and of any
\* dividend below limit, k times d, stays below top * 2^32.
RoundedUp(d, s, m, e, k, top, limit) ==
    /\ d \in Nat \ {0} /\ s \in Nat \ {0} /\ m \in Nat /\ e \in Nat /\ k \in Nat
    /\ top \in Nat /\ top < Two32 /\ limit = k * d
    /\ m * d = s + e /\ k * e < m /\ k * d * m <= top * Two32

\* A product that fits its 64 bits, with a reciprocal that is close enough.
LEMMA MulShiftExact ==
    ASSUME NEW d, NEW s, NEW m, NEW e, NEW k, NEW top, NEW limit,
           RoundedUp(d, s, m, e, k, top, limit), NEW x \in Nat, x < limit
    PROVE  MulShift64(x, m, s) = x \div d
<1>0. /\ d \in Nat \ {0} /\ s \in Nat \ {0} /\ m \in Nat /\ e \in Nat /\ k \in Nat
      /\ top \in Nat /\ top < Two32 /\ x < k * d
      /\ m * d = s + e /\ k * e < m /\ k * d * m <= top * Two32
  BY DEF RoundedUp
<1> DEFINE y == k * d
           z == x * m
           w == Two64
           t == Two32
<1>1. y \in Nat /\ x < y /\ w \in Nat \ {0} /\ y * m <= top * t /\ t \in Nat /\ w = t * t /\ top < t
  BY <1>0, WordSizes, SMT
<1> HIDE DEF y, w, t
<1>2. z \in Nat /\ (m # 0 => z < y * m) /\ y * m \in Int
  <2>1. (y - x) * m >= 0 /\ (y - x) * m = y * m - x * m /\ x * m \in Nat /\ y * m \in Int
    BY <1>0, <1>1, SMT
  <2>2. m # 0 => (y - x) * m > 0
    BY <1>0, <1>1, SMT
  <2> QED  BY <2>1, <2>2, SMT
<1>3. m # 0
  <2>1. k * e >= 0 /\ k * e \in Int
    BY <1>0, SMT
  <2> QED  BY <1>0, <2>1, SMT
<1>4. top * t <= w
  <2>1. (t - top) * t >= 0 /\ (t - top) * t = t * t - top * t /\ top * t \in Int /\ t * t \in Int
    BY <1>0, <1>1, SMT
  <2> QED  BY <1>1, <2>1, SMT
<1>5. z < w
  <2> DEFINE a == y * m
             b == top * t
  <2>1. a \in Int /\ b \in Int /\ a <= b /\ b <= w /\ z < a
    BY <1>0, <1>1, <1>2, <1>3, <1>4, SMT
  <2> HIDE DEF a, b, z
  <2> QED  BY <1>1, <1>2, <2>1, SMT
<1>6. z % w = z
  <2> HIDE DEF z
  <2> QED  BY <1>1, <1>2, <1>5, DivNat
<1>7. z \div s = x \div d
  BY <1>0, Reciprocal, SMT
<1> QED  BY <1>6, <1>7 DEF MulShift64, z, w

\* The reciprocal of the carry chains: its product with 58^5 exceeds 2^92 by less
\* than what 7 * 2^32 quotients could notice.
LEMMA CarryMagic ==
    /\ carryMagic \in Nat
    /\ carryMagic * Limb58 = Two64 * 268435456 + 182790688
    /\ 7 * Two32 * 182790688 < carryMagic
    /\ Two64 <= 7 * Two32 * Limb58
<1> DEFINE t == Two32
           d == Limb58
           c == 66675424
<1>1. /\ t \in Nat \ {0} /\ Two64 = t * t /\ d \in Nat
  BY WordSizes, SMT DEF Limb58
<1>2. /\ 436300469 * d = 182790688 + c * t
      /\ 1756546989 * d = 268435456 * t - c
  BY SMT DEF Two32, Limb58
<1>3. t <= 7 * d
  BY SMT DEF Two32, Limb58
<1> HIDE DEF t, d
<1>4. carryMagic = 1756546989 * t + 436300469
  BY SMT DEF carryMagic, t
<1>5. carryMagic \in Nat
  BY <1>1, <1>4, SMT
<1>6. carryMagic * d = t * t * 268435456 + 182790688
  <2> DEFINE a == 1756546989
             b == 436300469
             p == 268435456
             e == 182790688
  <2>1. a \in Int /\ b \in Int /\ c \in Int /\ p \in Int /\ e \in Int
    BY SMT
  <2>2. b * d = e + c * t /\ a * d = p * t - c /\ carryMagic = a * t + b
    BY <1>2, <1>4, SMT
  <2> HIDE DEF a, b, c, p, e
  <2>3. (a * t + b) * d = (a * d) * t + b * d
    BY <1>1, <2>1, SMT
  <2>4. (p * t - c) * t = t * t * p - c * t
    BY <1>1, <2>1, SMT
  <2>5. c * t \in Int /\ t * t * p \in Int
    BY <1>1, <2>1, SMT
  <2>6. carryMagic * d = t * t * p + e
    BY <2>1, <2>2, <2>3, <2>4, <2>5, SMT
  <2> QED  BY <2>6, SMT DEF p, e
<1>7. 7 * t * 182790688 < carryMagic
  BY <1>1, <1>4, SMT
<1>8. t * t <= 7 * t * d
  <2>1. t * (7 * d - t) >= 0 /\ t * (7 * d - t) = 7 * t * d - t * t
    BY <1>1, <1>3, SMT
  <2>2. t * t \in Int /\ 7 * t * d \in Int
    BY <1>1, SMT
  <2> QED  BY <2>1, <2>2, SMT
<1> QED  BY <1>1, <1>5, <1>6, <1>7, <1>8, SMT DEF t, d

\* The quotient of the carry chains of encode32AppendAVX2 and of the full kernels,
\* taken from the high word of a product, is exact for every uint64: no column
\* sum makes the rounded reciprocal carry one unit too many.
THEOREM CarryQuotientExact ==
    \A x \in 0..(Two64 - 1) :
        carryQuotient(x) = x \div Pow(58, 5) /\ reduceQuotient(x) = x \div Pow(58, 5)
<1> DEFINE w == Two64
           d == Limb58
           m == carryMagic
           f == 268435456
           g == 536870912
           e == 182790688
           h == 365581376
           k == 7 * Two32
           n == 2 * m
           s == w * f
           t == w * g
<1>1. /\ w \in Nat \ {0} /\ d \in Nat \ {0} /\ m \in Nat /\ f \in Nat \ {0} /\ e \in Nat /\ k \in Nat
      /\ m * d = s + e /\ k * e < m /\ w <= k * d
  <2>1. f \in Nat \ {0} /\ e \in Nat /\ d \in Nat \ {0}
    BY SMT DEF Limb58
  <2>2. m * d = w * f + e /\ k * e < m /\ w <= k * d
    BY CarryMagic, SMT
  <2>3. w \in Nat \ {0} /\ m \in Nat /\ k \in Nat
    BY CarryMagic, WordSizes, SMT
  <2> QED  BY <2>1, <2>2, <2>3, SMT
<1>2. g = 2 * f /\ h = 2 * e
  BY SMT
<1> SUFFICES ASSUME NEW x \in 0..(w - 1)
             PROVE  carryQuotient(x) = x \div d /\ reduceQuotient(x) = x \div d
  BY FiftyEight
<1> HIDE DEF w, d, m, f, g, e, h, k
<1>3. x \in Nat /\ x < k * d
  <2>1. k * d \in Int
    BY <1>1
  <2> QED  BY <1>1, <2>1
<1>4. g \in Nat \ {0} /\ h \in Nat /\ n \in Nat /\ s \in Nat \ {0} /\ t \in Nat \ {0} /\ t = 2 * s
  <2>1. g \in Nat \ {0} /\ h \in Nat /\ n \in Nat
    BY <1>1, <1>2
  <2>2. s \in Nat \ {0} /\ t = 2 * s
    BY <1>1, <1>2
  <2> QED  BY <2>1, <2>2
<1>5. n * d = t + h /\ k * h < n
  <2>1. \A a, b, c \in Int : (2 * a) * b = 2 * (a * b) /\ c * (2 * a) = 2 * (c * a)
    OBVIOUS
  <2>2. n * d = 2 * (m * d) /\ k * h = 2 * (k * e)
    BY <1>1, <1>2, <2>1
  <2>3. k * e \in Int
    BY <1>1
  <2> HIDE DEF s, t, n
  <2>4. n * d = t + h
    BY <1>1, <1>2, <1>4, <2>2
  <2>5. k * h < n
    BY <1>1, <2>2, <2>3 DEF n
  <2> QED  BY <2>4, <2>5
<1> HIDE DEF s, t, n
<1>6. (x * m) \div s = x \div d
  BY <1>1, <1>3, <1>4, Reciprocal
<1>7. (x * n) \div t = x \div d
  BY <1>1, <1>3, <1>4, <1>5, Reciprocal
<1>8. x * m \in Nat /\ x * n \in Nat
  BY <1>1, <1>3, <1>4
<1>9. ((x * m) \div w) \div f = (x * m) \div (w * f)
  <2> DEFINE a == x * m
  <2>1. a \in Nat
    BY <1>8
  <2> HIDE DEF a
  <2>2. (a \div w) \div f = a \div (w * f)
    BY <1>1, <2>1, DivDiv
  <2> QED  BY <2>2 DEF a
<1>10. ((x * n) \div w) \div g = (x * n) \div (w * g)
  <2> DEFINE a == x * n
  <2>1. a \in Nat
    BY <1>8
  <2> HIDE DEF a
  <2>2. (a \div w) \div g = a \div (w * g)
    BY <1>1, <1>4, <2>1, DivDiv
  <2> QED  BY <2>2 DEF a
<1>11. carryQuotient(x) = ((x * m) \div w) \div f /\ reduceQuotient(x) = ((x * n) \div w) \div g
  BY SMT DEF carryQuotient, reduceQuotient, w, m, n, f, g
<1>12. carryQuotient(x) = x \div d
  BY <1>6, <1>9, <1>11 DEF s
<1>13. reduceQuotient(x) = x \div d
  BY <1>7, <1>10, <1>11 DEF t
<1> QED  BY <1>12, <1>13

\* The reciprocals of the digit kernels are close enough for every element.
LEMMA DigitQuotients ==
    ASSUME NEW x \in Nat
    PROVE  /\ x < Limb58 => /\ b58div58(x) = x \div 58
                            /\ b58div3364(x) = x \div 3364
                            /\ render3364(x) = x \div 3364
                            /\ b58m4(x) = x \div 11316496
           /\ x < 11316496 => b58m3(x) = x \div 195112
           /\ x < 195112 => b58m2(x) = x \div 3364
           /\ x < 3364 => b58m1(x) = x \div 58
<1> DEFINE top == 400000000
<1>1. x < Limb58 => b58div58(x) = x \div 58
  <2> DEFINE d == 58
             s == 32 * Two32
             m == 2369637129
             limit == 656356768
  <2>1. RoundedUp(d, s, m, 10, 11316496, top, limit)
    BY SMT DEF RoundedUp, Two32
  <2>2. x < Limb58 => x < limit
    BY SMT DEF Limb58
  <2> HIDE DEF d, s, m, limit
  <2>3. x < Limb58 => MulShift64(x, m, s) = x \div d
    BY <2>1, <2>2, MulShiftExact, SMT
  <2> QED  BY <2>3, SMT DEF b58div58, d, s, m
<1>2. x < Limb58 => b58div3364(x) = x \div 3364
  <2> DEFINE d == 841
             s == 256 * Two32
             m == 1307386003
             limit == 164089192
  <2>1. RoundedUp(d, s, m, 747, 195112, top, limit)
    BY SMT DEF RoundedUp, Two32
  <2> DEFINE y == x \div 4
  <2>2. y \in Nat /\ (x < Limb58 => y < limit)
    BY SMT DEF Limb58
  <2>3. (x \div 4) \div 841 = x \div 3364
    <3>1. 4 \in Nat \ {0} /\ 841 \in Nat \ {0} /\ 4 * 841 = 3364
      BY SMT
    <3> QED  BY <3>1, DivDiv, SMT
  <2> HIDE DEF d, s, m, limit, y
  <2>4. x < Limb58 => MulShift64(y, m, s) = y \div d
    BY <2>1, <2>2, MulShiftExact, SMT
  <2> QED  BY <2>3, <2>4, SMT DEF b58div3364, d, s, m, y
<1>3. x < Limb58 => render3364(x) = x \div 3364
  <2> DEFINE d == 1682
             s == 1024 * Two32
             m == 2614772005
             limit == 328178384
  <2>1. RoundedUp(d, s, m, 1306, 195112, top, limit)
    BY SMT DEF RoundedUp, Two32
  <2> DEFINE y == x \div 2
  <2>2. y \in Nat /\ (x < Limb58 => y < limit)
    BY SMT DEF Limb58
  <2>3. (x \div 2) \div 1682 = x \div 3364
    <3>1. 2 \in Nat \ {0} /\ 1682 \in Nat \ {0} /\ 2 * 1682 = 3364
      BY SMT
    <3> QED  BY <3>1, DivDiv, SMT
  <2> HIDE DEF d, s, m, limit, y
  <2>4. x < Limb58 => MulShift64(y, m, s) = y \div d
    BY <2>1, <2>2, MulShiftExact, SMT
  <2> QED  BY <2>3, <2>4, SMT DEF render3364, d, s, m, y
<1>4. x < Limb58 => b58m4(x) = x \div 11316496
  <2> DEFINE d == 11316496
             s == 2097152 * Two32
             m == 795935355
             limit == 656356768
  <2>1. RoundedUp(d, s, m, 6375088, 58, top, limit)
    BY SMT DEF RoundedUp, Two32
  <2>2. x < Limb58 => x < limit
    BY SMT DEF Limb58
  <2> HIDE DEF d, s, m, limit
  <2>3. x < Limb58 => MulShift64(x, m, s) = x \div d
    BY <2>1, <2>2, MulShiftExact, SMT
  <2> QED  BY <2>3, SMT DEF b58m4, d, s, m
<1>5. x < 11316496 => b58m3(x) = x \div 195112
  <2> DEFINE d == 195112
             s == 512 * Two32
             m == 11270569
             limit == 11316496
  <2>1. RoundedUp(d, s, m, 3176, 58, top, limit)
    BY SMT DEF RoundedUp, Two32
  <2>2. x < 11316496 => x < limit
    BY SMT DEF Limb58
  <2> HIDE DEF d, s, m, limit
  <2>3. x < 11316496 => MulShift64(x, m, s) = x \div d
    BY <2>1, <2>2, MulShiftExact, SMT
  <2> QED  BY <2>3, SMT DEF b58m3, d, s, m
<1>6. x < 195112 => b58m2(x) = x \div 3364
  <2> DEFINE d == 3364
             s == Two32
             m == 1276745
             limit == 195112
  <2>1. RoundedUp(d, s, m, 2884, 58, top, limit)
    BY SMT DEF RoundedUp, Two32
  <2>2. x < 195112 => x < limit
    BY SMT DEF Limb58
  <2> HIDE DEF d, s, m, limit
  <2>3. x < 195112 => MulShift64(x, m, s) = x \div d
    BY <2>1, <2>2, MulShiftExact, SMT
  <2> QED  BY <2>3, SMT DEF b58m2, d, s, m
<1>7. x < 3364 => b58m1(x) = x \div 58
  <2> DEFINE d == 58
             s == Two32
             m == 74051161
             limit == 3364
  <2>1. RoundedUp(d, s, m, 42, 58, top, limit)
    BY SMT DEF RoundedUp, Two32
  <2>2. x < 3364 => x < limit
    BY SMT DEF Limb58
  <2> HIDE DEF d, s, m, limit
  <2>3. x < 3364 => MulShift64(x, m, s) = x \div d
    BY <2>1, <2>2, MulShiftExact, SMT
  <2> QED  BY <2>3, SMT DEF b58m1, d, s, m
<1> QED  BY <1>1, <1>2, <1>3, <1>4, <1>5, <1>6, <1>7, SMT

\* The quotients from which the vector kernels and RENDER5 take the digits of an
\* element are exact for every element they can be given, and no product leaves
\* its 64 bits.
THEOREM DigitQuotientsExact ==
    /\ \A x \in 0..(Pow(58, 5) - 1) :
         /\ b58div58(x) = x \div 58
         /\ b58div3364(x) = x \div Pow(58, 2) /\ render3364(x) = x \div Pow(58, 2)
         /\ b58m4(x) = x \div Pow(58, 4)
    /\ \A x \in 0..(Pow(58, 4) - 1) : b58m3(x) = x \div Pow(58, 3)
    /\ \A x \in 0..(Pow(58, 3) - 1) : b58m2(x) = x \div Pow(58, 2)
    /\ \A x \in 0..(Pow(58, 2) - 1) : b58m1(x) = x \div 58
<1>1. ASSUME NEW n \in Nat, NEW x \in 0..(n - 1) PROVE x \in Nat /\ x < n
  OBVIOUS
<1>2. /\ Pow(58, 5) \in Nat /\ Pow(58, 4) \in Nat /\ Pow(58, 3) \in Nat /\ Pow(58, 2) \in Nat
  BY FiftyEight, SMT DEF Limb58
<1>3. ASSUME NEW x \in 0..(Pow(58, 5) - 1)
      PROVE  /\ b58div58(x) = x \div 58
             /\ b58div3364(x) = x \div Pow(58, 2) /\ render3364(x) = x \div Pow(58, 2)
             /\ b58m4(x) = x \div Pow(58, 4)
  BY <1>1, <1>2, FiftyEight, DigitQuotients, SMT
<1>4. ASSUME NEW x \in 0..(Pow(58, 4) - 1) PROVE b58m3(x) = x \div Pow(58, 3)
  BY <1>1, <1>2, FiftyEight, DigitQuotients, SMT
<1>5. ASSUME NEW x \in 0..(Pow(58, 3) - 1) PROVE b58m2(x) = x \div Pow(58, 2)
  BY <1>1, <1>2, FiftyEight, DigitQuotients, SMT
<1>6. ASSUME NEW x \in 0..(Pow(58, 2) - 1) PROVE b58m1(x) = x \div 58
  BY <1>1, <1>2, FiftyEight, DigitQuotients, SMT
<1> QED  BY <1>3, <1>4, <1>5, <1>6, SMT
=============================================================================
