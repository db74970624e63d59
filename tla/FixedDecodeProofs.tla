------------------------- MODULE FixedDecodeProofs -------------------------
(***************************************************************************)
(* The fixed-size decoders are correct for all radices, all numbers of     *)
(* limbs and words and all strings: no column sum and no carry wraps       *)
(* around (ValuePreserved), every path gives every string its verdict and  *)
(* the right bytes (OutcomeExact), and what is accepted is an encoding     *)
(* (AcceptsOnlyEncodings).                                                 *)
(*                                                                         *)
(* The string, padded on the left to Raw digits, determines the limbs the  *)
(* readers must arrive at, group by group or at once; the columns are then *)
(* bounded as in the encoder, and the two forms of the carry chain keep    *)
(* one sum: what is stored, what waits and what is carried.                *)
(***************************************************************************)
EXTENDS FixedDecode, RadixProofs

-----------------------------------------------------------------------------
(* The string as a number of Raw digits *)

padLen == Raw - n
padded == [k \in 0..(Raw - 1) |-> IF k < padLen THEN 0 ELSE InverseFull(encoded[k - padLen + 1])]
limb(j) == Value([d \in 0..(LimbDigits - 1) |-> padded[LimbDigits * j + d]], LimbDigits, Base)
limbs  == [j \in 0..(Limbs - 1) |-> limb(j)]

AllValid == \A k \in 1..n : IsChar(encoded[k])

\* The value of the bytes of word k in dst.
word(k) == Value([b \in 0..(WordBytes - 1) |-> dst[k * WordBytes + b]], WordBytes, ByteBase)

\* What the fused chain has stored, and the columns that wait.
mixed == [k \in 0..(Words - 1) |-> IF k > i THEN word(k) ELSE bin[k]]

-----------------------------------------------------------------------------
(* The inductive invariant *)

Typed ==
    /\ encoded \in Inputs /\ useAVX2 \in BOOLEAN /\ bad \in BOOLEAN
    /\ pc \in {"start", "chars", "matmul", "carry", "overflow", "validate", "done"}
    /\ pos \in 0..n
    /\ im \in [0..(Limbs - 1) -> 0..(Wrap - 1)]
    /\ row \in 0..Limbs
    /\ bin \in [0..(Words - 1) -> 0..(Wrap - 1)]
    /\ i \in 0..(Words - 1)
    /\ carry \in 0..(Wrap - 1)
    /\ dst \in [0..(Bytes - 1) -> 0..(ByteBase - 1) \cup {Old}]
    /\ err \in {"none", "nil", "ErrInvalidLength", "ErrInvalidChar",
                "ErrValueTooLarge", "ErrLeadingZeros"}

\* Before the columns are summed nothing but the limbs has changed.
Fresh ==
    pc \in {"start", "chars"} =>
        /\ row = 0 /\ i = Words - 1 /\ carry = 0
        /\ \A k \in 0..(Words - 1) : bin[k] = 0

\* While groups are read: the limbs that end at or before pos are there.
Reading ==
    /\ pc = "start" => pos = 0 /\ bad = FALSE /\ \A j \in 0..(Limbs - 1) : im[j] = 0
    /\ pc = "chars" =>
        /\ bad <=> \E k \in 1..pos : ~IsChar(encoded[k])
        /\ pos # 0 => \E t \in Nat : padLen + pos = LimbDigits * t
        /\ \A j \in 0..(Limbs - 1) :
             im[j] = IF LimbDigits * (j + 1) <= padLen + pos THEN limb(j) ELSE 0

\* From then on the limbs are those of a valid string.
Loaded ==
    /\ pc \in {"chars", "matmul", "carry", "overflow", "validate"} => n \in 1..Raw
    /\ pc \in {"matmul", "carry", "overflow", "validate"} =>
         AllValid /\ \A j \in 0..(Limbs - 1) : im[j] = limb(j)

Summing ==
    pc = "matmul" =>
        /\ row < Limbs /\ i = Words - 1 /\ carry = 0
        /\ \A k \in 0..(Words - 1) : bin[k] <= ColumnMax(k, row)
        /\ Value(bin, Words, WordBase) = Consumed

\* Words behind i are done, columns up to i wait.
Carrying ==
    pc = "carry" =>
        /\ row = Limbs
        /\ ~fused => /\ carry <= CarryMax
                     /\ \A k \in 0..i : bin[k] <= ColumnMax(k, Limbs)
                     /\ \A k \in (i + 1)..(Words - 1) : bin[k] < WordBase
                     /\ Value(bin, Words, WordBase) + carry * Weight(i) = StringValue
        /\ fused  => /\ carry <= 1
                     /\ \A k \in 0..(Bytes - 1) : k \div WordBytes > i => dst[k] \in Int
                     /\ Value(mixed, Words, WordBase) + (carry + above) * Weight(i) = StringValue

\* The fused chain has stored all words; what is left is above them.
Overflowing ==
    pc = "overflow" =>
        /\ fused /\ carry <= 1
        /\ \A k \in 0..(Bytes - 1) : dst[k] \in Int
        /\ Value(dst, Bytes, ByteBase) + (high(bin[0]) + carry) * Pow(WordBase, Words) = StringValue

Validating ==
    pc = "validate" =>
        /\ \A k \in 0..(Bytes - 1) : dst[k] \in Int
        /\ Value(dst, Bytes, ByteBase) = StringValue

Inv ==
    /\ Typed /\ Fresh /\ Reading /\ Loaded
    /\ Summing /\ Carrying /\ Overflowing /\ Validating /\ OutcomeExact

-----------------------------------------------------------------------------
(* Constants *)

\* Radices and sizes are positive numbers.
LEMMA Constants ==
    /\ Base \in Nat \ {0} /\ Base > 1 /\ ByteBase \in Nat \ {0} /\ ByteBase > 1
    /\ LimbDigits \in Nat \ {0} /\ WordBytes \in Nat \ {0}
    /\ R1div \in Nat \ {0} /\ WordBase \in Nat \ {0} /\ Wrap \in Nat \ {0}
    /\ Words \in Nat \ {0} /\ Words > 1 /\ Limbs \in Nat \ {0}
    /\ CarryMax \in Nat
<1>1. /\ Base \in Nat \ {0} /\ ByteBase \in Nat \ {0} /\ LimbDigits \in Nat \ {0} /\ WordBytes \in Nat \ {0}
      /\ Wrap \in Nat \ {0} /\ Words \in Nat \ {0} /\ Limbs \in Nat \ {0}
  BY RadixAssumption
<1>2. R1div \in Nat \ {0} /\ WordBase \in Nat \ {0}
  BY <1>1, PowPos DEF R1div, WordBase
<1>3. CarryMax \in Nat
  <2>1. Wrap - 1 \in Nat
    BY <1>1
  <2> QED  BY <1>2, <2>1, DivNat DEF CarryMax
<1> QED  BY <1>1, <1>2, <1>3, RadixAssumption

\* The lengths in digits and bytes.
LEMMA Sizes ==
    /\ Raw \in Nat \ {0} /\ Raw = Limbs * LimbDigits
    /\ Bytes \in Nat \ {0} /\ Bytes = Words * WordBytes
BY Constants DEF Raw, Bytes

\* A uint64 that does not overflow.
LEMMA NoWrap ==
    ASSUME NEW x \in Nat, x < Wrap
    PROVE  uint64(x) = x
BY Constants, DivNat DEF uint64

\* Table entries are natural numbers.
LEMMA TableNat ==
    ASSUME NEW j \in 0..(Limbs - 1), NEW k \in 0..(Words - 1)
    PROVE  decTable[j][k] \in Nat
<1>1. decTable[j][k] = Digit(Pow(R1div, Limbs - 1 - j), k, Words, WordBase)
  BY DEF decTable
<1>2. Limbs - 1 - j \in Nat
  BY Constants
<1>3. Pow(R1div, Limbs - 1 - j) \in Nat
  BY <1>2, Constants, PowPos
<1>4. Digit(Pow(R1div, Limbs - 1 - j), k, Words, WordBase) \in 0..(WordBase - 1)
  BY <1>3, Constants, DigitRange
<1> QED  BY <1>1, <1>4, Constants

\* A row of the table, read in base WordBase, is the weight of its limb.
LEMMA RowValue ==
    ASSUME NEW j \in 0..(Limbs - 1), NEW t, \A k \in 0..(Words - 1) : t[k] = decTable[j][k]
    PROVE  Value(t, Words, WordBase) = Pow(R1div, Limbs - 1 - j)
<1> DEFINE x == Pow(R1div, Limbs - 1 - j)
<1>1. Limbs - 1 - j \in Nat /\ Limbs - 1 \in Nat /\ Limbs - 1 - j <= Limbs - 1
  BY Constants
<1>2. x \in Nat /\ x < Pow(WordBase, Words)
  <2>1. x \in Nat /\ Pow(R1div, Limbs - 1) \in Nat
    BY <1>1, Constants, PowPos
  <2>2. x <= Pow(R1div, Limbs - 1)
    BY <1>1, Constants, PowMonotone
  <2>3. Pow(WordBase, Words) \in Nat
    BY Constants, PowPos
  <2> QED  BY <2>1, <2>2, <2>3, LengthAssumption
<1>3. \A k \in 0..(Words - 1) : t[k] = Digit(x, k, Words, WordBase)
  BY DEF decTable
<1> HIDE DEF x
<1>4. Value(t, Words, WordBase) = x
  BY <1>2, <1>3, Constants, ValueDigits
<1> QED  BY <1>4 DEF x

\* The largest column sum grows by the largest product.
LEMMA ColumnStep ==
    ASSUME NEW k \in 0..(Words - 1), NEW r \in 0..(Limbs - 1)
    PROVE  /\ ColumnMax(k, r) \in Nat /\ ColumnMax(k, r + 1) \in Nat
           /\ ColumnMax(k, r + 1) = ColumnMax(k, r) + (R1div - 1) * decTable[r][k]
<1> DEFINE f == [j \in 0..(Limbs - 1) |-> (R1div - 1) * decTable[j][k]]
<1>1. \A j \in 0..(Limbs - 1) : f[j] \in Nat
  <2> SUFFICES ASSUME NEW j \in 0..(Limbs - 1) PROVE f[j] \in Nat
    OBVIOUS
  <2>1. decTable[j][k] \in Nat
    BY TableNat
  <2>2. \A e \in Nat : (R1div - 1) * e \in Nat
    BY Constants
  <2> QED  BY <2>1, <2>2
<1>2. f[r] = (R1div - 1) * decTable[r][k]
  OBVIOUS
<1>3. \A m \in Nat : ColumnMax(k, m) = Value(f, m, 1)
  BY DEF ColumnMax
<1> HIDE DEF f
<1>4. /\ r \in Nat /\ r + 1 \in Nat
      /\ \A j \in 0..(r - 1) : f[j] \in Nat
      /\ \A j \in 0..((r + 1) - 1) : f[j] \in Nat
      /\ \A j \in 0..r : f[j] \in Int
  BY <1>1, Constants
<1>5. Value(f, r, 1) \in Nat /\ Value(f, r + 1, 1) \in Nat
  BY <1>4, ValueNat
<1>6. Value(f, r + 1, 1) = Value(f, r, 1) * 1 + f[r]
  BY <1>4, ValueStep
<1>7. f[r] \in Nat
  BY <1>1
<1>8. ColumnMax(k, r) = Value(f, r, 1) /\ ColumnMax(k, r + 1) = Value(f, r + 1, 1)
  BY <1>3, <1>4
<1> QED  BY <1>2, <1>5, <1>6, <1>7, <1>8

\* No rows, no sum.
LEMMA ColumnNone == ASSUME NEW k PROVE ColumnMax(k, 0) = 0
BY ValueZero DEF ColumnMax

\* Column sums are natural numbers.
LEMMA ColumnNat ==
    ASSUME NEW k \in 0..(Words - 1), NEW r \in 0..Limbs
    PROVE  ColumnMax(k, r) \in Nat
<1>1. CASE r = 0
  BY <1>1, ColumnNone
<1>2. CASE r # 0
  <2>1. r - 1 \in 0..(Limbs - 1) /\ (r - 1) + 1 = r
    BY <1>2, Constants
  <2>2. ColumnMax(k, (r - 1) + 1) \in Nat
    BY <2>1, ColumnStep
  <2> QED  BY <2>1, <2>2
<1> QED  BY <1>1, <1>2

\* More rows make the largest sum of a column no smaller.
LEMMA ColumnMono ==
    ASSUME NEW k \in 0..(Words - 1), NEW r \in 0..Limbs
    PROVE  ColumnMax(k, r) <= ColumnMax(k, Limbs)
<1> DEFINE S == {d \in Nat : r + d <= Limbs => ColumnMax(k, r) <= ColumnMax(k, r + d)}
<1>1. 0 \in S
  <2>1. r + 0 = r /\ ColumnMax(k, r) \in Nat
    BY ColumnNat
  <2> QED  BY <2>1
<1>2. \A d \in Nat : d \in S => d + 1 \in S
  <2> SUFFICES ASSUME NEW d \in Nat, d \in S, r + (d + 1) <= Limbs
               PROVE  ColumnMax(k, r) <= ColumnMax(k, r + (d + 1))
    OBVIOUS
  <2>1. r + d \in 0..(Limbs - 1) /\ r + (d + 1) = (r + d) + 1 /\ r + d <= Limbs
    BY Constants
  <2>2. ColumnMax(k, r) <= ColumnMax(k, r + d)
    BY <2>1
  <2> HIDE DEF S
  <2>3. /\ ColumnMax(k, r + d) \in Nat
        /\ ColumnMax(k, (r + d) + 1) = ColumnMax(k, r + d) + (R1div - 1) * decTable[r + d][k]
    BY <2>1, ColumnStep
  <2>4. decTable[r + d][k] \in Nat
    BY <2>1, TableNat
  <2>5. \A e \in Nat : (R1div - 1) * e \in Nat
    BY Constants
  <2>6. (R1div - 1) * decTable[r + d][k] \in Nat
    BY <2>4, <2>5
  <2>7. ColumnMax(k, r) \in Nat
    BY ColumnNat
  <2> QED  BY <2>1, <2>2, <2>3, <2>6, <2>7
<1> HIDE DEF S
<1>3. Limbs - r \in Nat /\ r + (Limbs - r) = Limbs
  BY Constants
<1>4. Limbs - r \in S
  BY <1>1, <1>2, <1>3, NatInduct
<1> QED  BY <1>3, <1>4, Constants DEF S

\* One more row keeps a column within its bound, and the bound fits a uint64.
LEMMA ColumnAdd ==
    ASSUME NEW k \in 0..(Words - 1), NEW r \in 0..(Limbs - 1), NEW b \in 0..(R1div - 1),
           NEW a \in Nat, a <= ColumnMax(k, r)
    PROVE  /\ a + b * decTable[r][k] \in Nat
           /\ a + b * decTable[r][k] <= ColumnMax(k, r + 1)
           /\ a + b * decTable[r][k] < Wrap
<1> DEFINE t == decTable[r][k]
<1>1. t \in Nat
  BY TableNat
<1>2. /\ ColumnMax(k, r) \in Nat /\ ColumnMax(k, r + 1) \in Nat
      /\ ColumnMax(k, r + 1) = ColumnMax(k, r) + (R1div - 1) * t
  BY ColumnStep
<1> HIDE DEF t
<1>3. b * t \in Nat /\ b * t <= (R1div - 1) * t /\ (R1div - 1) * t \in Nat
  <2>1. (R1div - 1 - b) * t >= 0 /\ (R1div - 1 - b) * t = (R1div - 1) * t - b * t
    BY <1>1, Constants
  <2>2. b * t \in Nat /\ (R1div - 1) * t \in Nat
    BY <1>1, Constants
  <2> QED  BY <2>1, <2>2
<1>4. a + b * t \in Nat /\ a + b * t <= ColumnMax(k, r + 1)
  BY <1>2, <1>3
<1>5. ColumnMax(k, r + 1) < Wrap
  <2>1. r + 1 \in 0..Limbs /\ Limbs \in 0..Limbs
    BY Constants
  <2>2. ColumnMax(k, r + 1) <= ColumnMax(k, Limbs) /\ ColumnMax(k, Limbs) \in Nat
    BY <2>1, ColumnMono, ColumnNat
  <2>3. ColumnMax(k, Limbs) + CarryMax < Wrap
    BY ColumnsAssumption
  <2> QED  BY <1>2, <2>2, <2>3, Constants
<1>6. a + b * t < Wrap
  <2> DEFINE x == a + b * t
  <2>1. x \in Nat /\ x <= ColumnMax(k, r + 1)
    BY <1>4
  <2> HIDE DEF x
  <2>2. x < Wrap
    BY <1>2, <1>5, <2>1, Constants
  <2> QED  BY <2>2 DEF x
<1> QED  BY <1>4, <1>6 DEF t

-----------------------------------------------------------------------------
(* The string *)

\* A string is a finite sequence, and its characters have digits.
LEMMA StringFacts ==
    ASSUME encoded \in Inputs
    PROVE  n \in Nat
BY RadixAssumption DEF n

\* The digit of a character is below Base, that of any other byte is Base.
LEMMA DigitFacts ==
    ASSUME NEW c
    PROVE  /\ InverseFull(c) \in 0..Base
           /\ IsChar(c) => /\ InverseFull(c) = DigitOf(c, base58Chars)
                           /\ DigitOf(c, base58Chars) \in 0..(Base - 1)
                           /\ base58Chars[DigitOf(c, base58Chars)] = c
<1>1. DOMAIN base58Chars = 0..(Base - 1)
  BY RadixAssumption
<1>2. ASSUME IsChar(c)
      PROVE  /\ InverseFull(c) = DigitOf(c, base58Chars)
             /\ DigitOf(c, base58Chars) \in 0..(Base - 1)
             /\ base58Chars[DigitOf(c, base58Chars)] = c
  BY <1>1, <1>2 DEF IsChar, InverseFull, DigitOf
<1>3. ~IsChar(c) => InverseFull(c) = Base
  BY DEF InverseFull
<1> QED  BY <1>2, <1>3, Constants

\* The zero character, and only it, has digit 0.
LEMMA ZeroDigit ==
    ASSUME NEW c, IsChar(c)
    PROVE  (DigitOf(c, base58Chars) = 0) <=> (c = base58Chars[0])
<1>1. 0 \in 0..(Base - 1)
  BY Constants
<1>2. DigitOf(c, base58Chars) \in 0..(Base - 1) /\ base58Chars[DigitOf(c, base58Chars)] = c
  BY DigitFacts
<1> QED  BY <1>1, <1>2, RadixAssumption

\* What belongs to the string stays the same with the string.
LEMMA SameString ==
    ASSUME encoded' = encoded
    PROVE  /\ n' = n /\ padLen' = padLen /\ padded' = padded /\ limbs' = limbs
           /\ \A j : limb(j)' = limb(j)
           /\ AllValid' = AllValid /\ StringValue' = StringValue /\ Verdict' = Verdict
           /\ ValueAsBytes' = ValueAsBytes /\ inLeading1s' = inLeading1s
<1>1. n' = n /\ padLen' = padLen /\ AllValid' = AllValid
  BY DEF n, padLen, AllValid, IsChar
<1>2. padded' = padded
  BY <1>1 DEF padded, InverseFull, IsChar, DigitOf
<1>3. limbs' = limbs /\ \A j : limb(j)' = limb(j)
  BY <1>2 DEF limbs, limb
<1>4. StringValue' = StringValue
  BY <1>1 DEF StringValue, Digits, DigitOf
<1>5. inLeading1s' = inLeading1s
  BY <1>1 DEF inLeading1s
<1>6. ValueAsBytes' = ValueAsBytes
  BY <1>4 DEF ValueAsBytes
<1>7. Verdict' = Verdict
  BY <1>1, <1>4, <1>5, <1>6 DEF Verdict, IsChar
<1> QED  BY <1>1, <1>2, <1>3, <1>4, <1>5, <1>6, <1>7

\* The digits of the padded string.
LEMMA PaddedFacts ==
    ASSUME encoded \in Inputs, n <= Raw, NEW k \in 0..(Raw - 1)
    PROVE  /\ padded[k] \in 0..Base
           /\ k < padLen => padded[k] = 0
           /\ k >= padLen => /\ k - padLen + 1 \in 1..n
                             /\ padded[k] = InverseFull(encoded[k - padLen + 1])
           /\ AllValid => padded[k] \in 0..(Base - 1)
<1>1. n \in Nat /\ Raw \in Nat /\ padLen = Raw - n
  BY StringFacts, Sizes DEF padLen
<1>2. padded[k] = IF k < padLen THEN 0 ELSE InverseFull(encoded[k - padLen + 1])
  BY DEF padded
<1>3. k >= padLen => k - padLen + 1 \in 1..n
  BY <1>1
<1>4. AllValid /\ k >= padLen => InverseFull(encoded[k - padLen + 1]) \in 0..(Base - 1)
  <2> SUFFICES ASSUME AllValid, k >= padLen PROVE InverseFull(encoded[k - padLen + 1]) \in 0..(Base - 1)
    OBVIOUS
  <2>1. IsChar(encoded[k - padLen + 1])
    BY <1>3 DEF AllValid
  <2> QED  BY <2>1, DigitFacts
<1>5. padLen \in Int /\ k \in Int
  BY <1>1
<1>6. InverseFull(encoded[k - padLen + 1]) \in 0..Base
  BY DigitFacts
<1>7. k < padLen \/ k >= padLen
  BY <1>5
<1> QED  BY <1>2, <1>3, <1>4, <1>6, <1>7, <1>5, Constants

\* The place of a digit of limb j.
LEMMA LimbPlace ==
    ASSUME NEW j \in 0..(Limbs - 1), NEW d \in 0..(LimbDigits - 1)
    PROVE  LimbDigits * j + d \in 0..(Raw - 1)
<1>1. /\ (Limbs - 1 - j) * LimbDigits >= 0
      /\ (Limbs - 1 - j) * LimbDigits = Limbs * LimbDigits - LimbDigits - LimbDigits * j
      /\ LimbDigits * j \in Nat /\ Limbs * LimbDigits \in Nat
  BY Constants
<1> QED  BY <1>1, Constants, Sizes

\* A limb fits a uint64, whatever the characters; that of a valid string is below
\* R1div; one that lies in the padding is zero.
LEMMA LimbFacts ==
    ASSUME encoded \in Inputs, n <= Raw, NEW j \in 0..(Limbs - 1)
    PROVE  /\ limb(j) \in 0..(Wrap - 1)
           /\ AllValid => limb(j) \in 0..(R1div - 1)
           /\ LimbDigits * (j + 1) <= padLen => limb(j) = 0
<1> DEFINE f == [d \in 0..(LimbDigits - 1) |-> padded[LimbDigits * j + d]]
<1>1. ASSUME NEW d \in 0..(LimbDigits - 1)
      PROVE  /\ f[d] = padded[LimbDigits * j + d] /\ f[d] \in 0..Base
             /\ AllValid => f[d] \in 0..(Base - 1)
             /\ LimbDigits * (j + 1) <= padLen => f[d] = 0
  <2>1. LimbDigits * j + d \in 0..(Raw - 1)
    BY LimbPlace
  <2>2. f[d] = padded[LimbDigits * j + d]
    OBVIOUS
  <2>3. ASSUME LimbDigits * (j + 1) <= padLen PROVE LimbDigits * j + d < padLen
    <3>1. LimbDigits * (j + 1) = LimbDigits * j + LimbDigits /\ LimbDigits * j \in Int
      BY Constants
    <3>2. padLen \in Int
      BY StringFacts, Sizes DEF padLen
    <3> QED  BY <2>3, <3>1, <3>2, Constants
  <2> HIDE DEF f
  <2> QED  BY <2>1, <2>2, <2>3, PaddedFacts
<1>2. limb(j) = Value(f, LimbDigits, Base)
  BY DEF limb
<1> HIDE DEF f
<1>3. limb(j) \in 0..(Wrap - 1)
  <2>1. Base \in Nat \ {0, 1} /\ LimbDigits \in Nat
    BY Constants
  <2>2. limb(j) \in Nat /\ limb(j) < 2 * R1div
    BY <1>1, <1>2, <2>1, ValueLoose DEF R1div
  <2>3. 2 * R1div <= Wrap
    BY LengthAssumption
  <2> QED  BY <2>2, <2>3, Constants
<1>4. ASSUME AllValid PROVE limb(j) \in 0..(R1div - 1)
  <2>1. \A d \in 0..(LimbDigits - 1) : f[d] \in 0..(Base - 1)
    BY <1>1, <1>4
  <2> QED  BY <1>2, <2>1, ValueBound, Constants DEF R1div
<1>5. ASSUME LimbDigits * (j + 1) <= padLen PROVE limb(j) = 0
  <2>1. \A d \in 0..(LimbDigits - 1) : f[d] = 0
    BY <1>1, <1>5
  <2> QED  BY <1>2, <2>1, ValueZeros, Constants
<1> QED  BY <1>3, <1>4, <1>5

\* The limbs of a valid string are worth what the string is.
LEMMA LimbsValue ==
    ASSUME encoded \in Inputs, n <= Raw, AllValid, NEW a, \A j \in 0..(Limbs - 1) : a[j] = limb(j)
    PROVE  Value(a, Limbs, R1div) = StringValue /\ StringValue \in Nat
<1>0. n \in Nat /\ padLen = Raw - n /\ padLen \in 0..Raw /\ Raw - padLen = n /\ Raw = Limbs * LimbDigits /\ Raw \in Nat
  BY StringFacts, Sizes DEF padLen
<1>1. \A k \in 0..(Raw - 1) : padded[k] \in Int
  BY PaddedFacts, Constants
<1>2. Value(a, Limbs, R1div) = Value(padded, Limbs * LimbDigits, Base)
  <2>1. \A k \in 0..(Limbs * LimbDigits - 1) : padded[k] \in Int
    BY <1>0, <1>1
  <2>2. ASSUME NEW j \in 0..(Limbs - 1)
        PROVE  a[j] = Value([b \in 0..(LimbDigits - 1) |-> padded[j * LimbDigits + b]], LimbDigits, Base)
    <3>1. LimbDigits * j = j * LimbDigits
      BY Constants
    <3> QED  BY <3>1 DEF limb
  <2>3. Base \in Int /\ LimbDigits \in Nat /\ Limbs \in Nat
    BY Constants
  <2>4. Value(a, Limbs, Pow(Base, LimbDigits)) = Value(padded, Limbs * LimbDigits, Base)
    BY <2>1, <2>2, <2>3, ValueGroup, ZenonT(60)
  <2> QED  BY <2>4 DEF R1div
<1>3. ASSUME NEW k \in 0..(n - 1)
      PROVE  Digits[k] = padded[padLen + k] /\ Digits[k] \in 0..(Base - 1)
  <2>1. padLen + k \in 0..(Raw - 1) /\ padLen + k >= padLen /\ (padLen + k) - padLen + 1 = k + 1
    BY <1>0
  <2>2. padded[padLen + k] = InverseFull(encoded[k + 1]) /\ k + 1 \in 1..n
    BY <2>1, PaddedFacts
  <2>3. IsChar(encoded[k + 1])
    BY <2>2 DEF AllValid
  <2>4. Digits[k] = DigitOf(encoded[k + 1], base58Chars)
    BY DEF Digits
  <2> QED  BY <2>2, <2>3, <2>4, DigitFacts
<1>4. \A k \in 0..(padLen - 1) : padded[k] = 0
  <2> SUFFICES ASSUME NEW k \in 0..(padLen - 1) PROVE padded[k] = 0
    OBVIOUS
  <2>1. k \in 0..(Raw - 1) /\ k < padLen
    BY <1>0
  <2> QED  BY <2>1, PaddedFacts
<1>5. Value(Digits, Raw - padLen, Base) = Value(padded, Raw, Base)
  <2>1. \A k \in 0..(Raw - padLen - 1) : Digits[k] = padded[padLen + k]
    BY <1>0, <1>3
  <2>2. Base \in Int /\ Raw \in Nat /\ padLen \in 0..Raw
    BY <1>0, Constants
  <2> QED  BY <1>1, <1>4, <2>1, <2>2, ValueSkip
<1>6. StringValue = Value(Digits, n, Base)
  BY DEF StringValue
<1>7. Value(Digits, n, Base) \in Nat
  <2>1. \A k \in 0..(n - 1) : Digits[k] \in 0..(Base - 1)
    BY <1>3
  <2>2. Value(Digits, n, Base) \in 0..(Pow(Base, n) - 1)
    BY <1>0, <2>1, ValueBound, Constants
  <2> QED  BY <2>2
<1> QED  BY <1>0, <1>2, <1>5, <1>6, <1>7

-----------------------------------------------------------------------------
(* Reading the characters *)

\* Multiples of a positive number are ordered as their factors.
LEMMA Multiples ==
    ASSUME NEW l \in Nat \ {0}, NEW a \in Int, NEW b \in Int
    PROVE  /\ l * a <= l * b <=> a <= b
           /\ l * a < l * b <=> a < b
<1>1. l * a \in Int /\ l * b \in Int /\ l * (b - a) = l * b - l * a
  OBVIOUS
<1>2. a < b => l * (b - a) >= l
  <2> DEFINE c == b - a - 1
  <2>1. a < b => c \in Nat /\ b - a = c + 1
    OBVIOUS
  <2> HIDE DEF c
  <2>2. c \in Nat => l * (c + 1) = l * c + l /\ l * c \in Nat
    OBVIOUS
  <2> QED  BY <2>1, <2>2
<1>3. b < a => l * (a - b) >= l /\ l * (a - b) = l * a - l * b
  <2> DEFINE c == a - b - 1
  <2>1. b < a => c \in Nat /\ a - b = c + 1
    OBVIOUS
  <2> HIDE DEF c
  <2>2. c \in Nat => l * (c + 1) = l * c + l /\ l * c \in Nat
    OBVIOUS
  <2>3. l * (a - b) = l * a - l * b
    OBVIOUS
  <2> QED  BY <2>1, <2>2, <2>3
<1>4. a = b => l * a = l * b
  OBVIOUS
<1> QED  BY <1>1, <1>2, <1>3, <1>4

\* The first group takes what the string has beyond whole limbs.
LEMMA HeadFacts ==
    ASSUME encoded \in Inputs, n \in 1..Raw
    PROVE  /\ headLen \in 1..LimbDigits /\ headLen <= n
           /\ headIndex \in 0..(Limbs - 1)
           /\ padLen = LimbDigits * headIndex + (LimbDigits - headLen)
<1> DEFINE l == LimbDigits
           q == n \div l
           r == n % l
           c == (n + l - 1) \div l
<1>1. l \in Nat \ {0} /\ n \in Nat /\ n \in Int /\ n >= 1 /\ n <= Limbs * l /\ Limbs \in Nat
  BY Constants, Sizes
<1>2. q \in Nat /\ r \in 0..(l - 1) /\ n = q * l + r
  BY <1>1, DivMod, DivNat
<1>3. headLen = IF r = 0 THEN l ELSE r
  BY DEF headLen
<1>4. headIndex = Limbs - c /\ padLen = Limbs * l - n
  BY Sizes DEF headIndex, padLen
<1> HIDE DEF l, q, r, c
<1>5. c = (IF r = 0 THEN q ELSE q + 1)
  <2>1. CASE r = 0
    <3>1. n + l - 1 = q * l + (l - 1) /\ l - 1 \in 0..(l - 1) /\ n + l - 1 \in Int /\ q \in Int
      BY <1>1, <1>2, <2>1
    <3>2. (n + l - 1) \div l = q
      BY <1>1, <3>1, DivModUnique
    <3> QED  BY <2>1, <3>2 DEF c
  <2>2. CASE r # 0
    <3>1. n + l - 1 = (q + 1) * l + (r - 1)
      <4>1. (q + 1) * l = q * l + l /\ q * l \in Int
        BY <1>1, <1>2
      <4> QED  BY <1>1, <1>2, <4>1
    <3>2. r - 1 \in 0..(l - 1) /\ n + l - 1 \in Int /\ q + 1 \in Int
      BY <1>1, <1>2, <2>2
    <3>3. (n + l - 1) \div l = q + 1
      BY <1>1, <3>1, <3>2, DivModUnique
    <3> QED  BY <2>2, <3>3 DEF c
  <2> QED  BY <2>1, <2>2
<1>6. n = l * (c - 1) + headLen /\ c \in Nat /\ headLen \in 1..l
  <2>1. CASE r = 0
    <3>1. l * (q - 1) + l = q * l
      BY <1>1, <1>2
    <3> QED  BY <1>1, <1>2, <1>3, <1>5, <2>1, <3>1
  <2>2. CASE r # 0
    <3>1. l * ((q + 1) - 1) = q * l
      BY <1>1, <1>2
    <3> QED  BY <1>1, <1>2, <1>3, <1>5, <2>2, <3>1
  <2> QED  BY <2>1, <2>2
<1>7. c >= 1
  <2>1. q = 0 => r # 0
    BY <1>1, <1>2
  <2> QED  BY <1>2, <1>5, <2>1
<1>8. c - 1 < Limbs
  <2>1. l * (c - 1) \in Int /\ l * Limbs \in Int /\ Limbs * l = l * Limbs
    BY <1>1, <1>6
  <2>2. l * (c - 1) < l * Limbs
    BY <1>1, <1>6, <2>1
  <2> QED  BY <1>1, <1>6, <2>2, Multiples
<1>9. padLen = l * (Limbs - c) + (l - headLen)
  <2>1. l * (Limbs - c) = Limbs * l - l * c /\ l * (c - 1) = l * c - l /\ l * c \in Int /\ Limbs * l \in Int
    BY <1>1, <1>6
  <2> QED  BY <1>1, <1>4, <1>6, <2>1
<1>10. l * (c - 1) \in Nat
  BY <1>1, <1>6, <1>7
<1> QED  BY <1>1, <1>4, <1>6, <1>7, <1>8, <1>9, <1>10 DEF l

\* The group at pos: its length, the limb it makes and where it ends.
count == IF pos = 0 THEN headLen ELSE LimbDigits
gi    == IF pos = 0 THEN headIndex ELSE headIndex + 1 + (pos - headLen) \div LimbDigits

\* A group ends where its limb ends.
LEMMA GroupPlace ==
    ASSUME encoded \in Inputs, n \in 1..Raw, pos \in 0..n, pos < n,
           pos # 0 => \E t \in Nat : padLen + pos = LimbDigits * t
    PROVE  /\ count \in 1..LimbDigits /\ pos + count <= n
           /\ gi \in 0..(Limbs - 1)
           /\ padLen + pos = LimbDigits * gi + (LimbDigits - count)
           /\ count # LimbDigits => pos = 0
<1> DEFINE l == LimbDigits
<1>1. /\ l \in Nat \ {0} /\ n \in Nat /\ padLen = Limbs * l - n /\ Limbs \in Nat /\ Limbs * l \in Int /\ Limbs * l = l * Limbs
  BY Constants, Sizes DEF padLen
<1>2. /\ headLen \in 1..l /\ headLen <= n /\ headIndex \in 0..(Limbs - 1)
      /\ padLen = l * headIndex + (l - headLen)
  BY HeadFacts
<1> HIDE DEF l
<1>3. CASE pos = 0
  <2>1. count = headLen /\ gi = headIndex /\ padLen + pos = padLen
    BY <1>1, <1>3 DEF count, gi
  <2> QED  BY <1>1, <1>2, <1>3, <2>1 DEF l
<1>4. CASE pos # 0
  <2>1. PICK t \in Nat : padLen + pos = l * t
    BY <1>4 DEF l
  <2>2. count = l /\ gi = headIndex + 1 + ((pos - headLen) \div l)
    BY <1>4 DEF count, gi, l
  <2>3. (pos - headLen) \div l = t - headIndex - 1
    <3>1. pos - headLen = (t - headIndex - 1) * l + 0
      <4>1. (t - headIndex - 1) * l = l * t - l * headIndex - l /\ l * t \in Int /\ l * headIndex \in Int
        BY <1>1, <1>2, <2>1
      <4> QED  BY <1>1, <1>2, <2>1, <4>1
    <3>2. pos - headLen \in Int /\ t - headIndex - 1 \in Int /\ 0 \in 0..(l - 1)
      BY <1>1, <1>2, <2>1
    <3> QED  BY <1>1, <3>1, <3>2, DivModUnique
  <2>4. gi = t
    BY <1>2, <2>1, <2>2, <2>3
  <2>5. t < Limbs
    <3>1. l * t < l * Limbs
      BY <1>1, <2>1
    <3> QED  BY <1>1, <2>1, <3>1, Multiples
  <2>6. l * (t + 1) <= l * Limbs /\ l * (t + 1) = l * t + l /\ l * t \in Int
    <3>1. t + 1 <= Limbs /\ t + 1 \in Int
      BY <1>1, <2>1, <2>5
    <3>2. l * (t + 1) <= l * Limbs
      BY <1>1, <3>1, Multiples
    <3> QED  BY <1>1, <2>1, <3>2
  <2>7. pos + l <= n
    BY <1>1, <2>1, <2>6
  <2>8. padLen + pos = l * gi + (l - count)
    <3>1. l - count = 0 /\ l * gi = l * t
      BY <1>1, <2>2, <2>4
    <3> QED  BY <2>1, <2>6, <3>1
  <2>9. gi \in 0..(Limbs - 1)
    BY <1>1, <2>1, <2>4, <2>5
  <2>10. count \in 1..l /\ pos + count <= n /\ count = l
    BY <1>1, <2>2, <2>7
  <2> QED  BY <2>8, <2>9, <2>10 DEF l
<1> QED  BY <1>3, <1>4

\* Its value is the limb's.
LEMMA GroupValue ==
    ASSUME encoded \in Inputs, n \in 1..Raw, pos \in 0..n, pos < n,
           pos # 0 => \E t \in Nat : padLen + pos = LimbDigits * t
    PROVE  Group(pos, count) = limb(gi)
<1> DEFINE D == [d \in 0..(LimbDigits - 1) |-> padded[LimbDigits * gi + d]]
           f == [k \in 0..(count - 1) |-> InverseFull(encoded[pos + 1 + k])]
           z == LimbDigits - count
<1>1. /\ count \in 1..LimbDigits /\ pos + count <= n /\ gi \in 0..(Limbs - 1)
      /\ padLen + pos = LimbDigits * gi + (LimbDigits - count)
      /\ count # LimbDigits => pos = 0
  BY GroupPlace
<1>2. /\ n \in Nat /\ n <= Raw /\ padLen \in Nat /\ LimbDigits \in Nat /\ pos \in Nat
      /\ z \in 0..LimbDigits /\ LimbDigits - z = count /\ LimbDigits * gi \in Int
  BY <1>1, Constants, Sizes DEF padLen
<1>3. ASSUME NEW d \in 0..(LimbDigits - 1)
      PROVE  D[d] \in Int /\ (d < z => D[d] = 0)
  <2>1. LimbDigits * gi + d \in 0..(Raw - 1)
    BY <1>1, LimbPlace
  <2>2. D[d] = padded[LimbDigits * gi + d]
    OBVIOUS
  <2>3. d < z => LimbDigits * gi + d < padLen
    BY <1>1, <1>2
  <2> HIDE DEF D
  <2>4. padded[LimbDigits * gi + d] \in 0..Base
    BY <1>2, <2>1, PaddedFacts
  <2>5. d < z => padded[LimbDigits * gi + d] = 0
    BY <1>2, <2>1, <2>3, PaddedFacts
  <2> QED  BY <2>2, <2>4, <2>5, Constants
<1>4. ASSUME NEW k \in 0..(count - 1) PROVE f[k] = D[z + k]
  <2>1. z + k \in 0..(LimbDigits - 1)
    BY <1>1, <1>2
  <2>2. LimbDigits * gi + (z + k) \in 0..(Raw - 1)
    BY <1>1, <2>1, LimbPlace
  <2>3. LimbDigits * gi + (z + k) = padLen + pos + k /\ padLen + pos + k >= padLen
        /\ (padLen + pos + k) - padLen + 1 = pos + 1 + k
    BY <1>1, <1>2
  <2>4. padded[LimbDigits * gi + (z + k)] = InverseFull(encoded[pos + 1 + k])
    BY <1>2, <2>2, <2>3, PaddedFacts
  <2>5. D[z + k] = padded[LimbDigits * gi + (z + k)]
    BY <2>1
  <2> QED  BY <2>4, <2>5
<1>5. Group(pos, count) = Value(f, count, Base) /\ limb(gi) = Value(D, LimbDigits, Base)
  BY DEF Group, limb
<1> HIDE DEF D, f, z
<1>6. Value(f, LimbDigits - z, Base) = Value(D, LimbDigits, Base)
  <2>1. \A k \in 0..(z - 1) : D[k] = 0
    BY <1>2, <1>3
  <2>2. \A k \in 0..(LimbDigits - z - 1) : f[k] = D[z + k]
    BY <1>2, <1>4
  <2>3. Base \in Int
    BY Constants
  <2> QED  BY <1>2, <1>3, <2>1, <2>2, <2>3, ValueSkip
<1> QED  BY <1>2, <1>5, <1>6

-----------------------------------------------------------------------------
(* The steps *)

\* The path depends on the string and the flag only.
LEMMA SamePath ==
    ASSUME encoded' = encoded, useAVX2' = useAVX2
    PROVE  fused' = fused
BY SameString DEF fused

\* Initial states satisfy the invariant.
LEMMA InitInv == Init => Inv
<1> SUFFICES ASSUME Init PROVE Inv
  OBVIOUS
<1>1. encoded \in Inputs /\ n \in Nat
  BY StringFacts DEF Init
<1>2. Typed
  <2>1. pos \in 0..n /\ row \in 0..Limbs /\ i \in 0..(Words - 1) /\ carry \in 0..(Wrap - 1)
    BY <1>1, Constants DEF Init
  <2>2. im \in [0..(Limbs - 1) -> 0..(Wrap - 1)] /\ bin \in [0..(Words - 1) -> 0..(Wrap - 1)]
    BY Constants DEF Init
  <2>3. dst \in [0..(Bytes - 1) -> 0..(ByteBase - 1) \cup {Old}]
    BY DEF Init
  <2> QED  BY <1>1, <2>1, <2>2, <2>3 DEF Init, Typed
<1>3. Fresh /\ Reading /\ Loaded
  BY DEF Init, Fresh, Reading, Loaded
<1>4. Summing /\ Carrying /\ Overflowing /\ Validating /\ OutcomeExact
  BY DEF Init, Summing, Carrying, Overflowing, Validating, OutcomeExact
<1> QED  BY <1>2, <1>3, <1>4 DEF Inv

\* Lengths that no encoding has are refused; otherwise no limb is complete yet but
\* those in the padding, which are zero.
LEMMA CheckLengthStep == ASSUME Inv, CheckLength PROVE Inv'
<1>1. /\ encoded \in Inputs /\ n \in Nat /\ pc = "start" /\ pos = 0 /\ bad = FALSE
      /\ \A j \in 0..(Limbs - 1) : im[j] = 0
  BY StringFacts DEF Inv, Typed, Reading, CheckLength
<1>2. UNCHANGED <<encoded, useAVX2, pos, bad, im, row, bin, i, carry, dst>>
  BY DEF CheckLength
<1>3. n' = n /\ padLen' = padLen /\ Verdict' = Verdict /\ \A j : limb(j)' = limb(j)
  BY <1>2, SameString
<1>4. CASE n = 0 \/ n > Raw
  <2>1. pc' = "done" /\ err' = "ErrInvalidLength"
    BY <1>1, <1>4 DEF CheckLength, Return
  <2>2. Verdict = "ErrInvalidLength"
    BY <1>4 DEF Verdict
  <2>3. OutcomeExact'
    BY <1>3, <2>1, <2>2 DEF OutcomeExact
  <2>4. Typed'
    BY <1>2, <1>3, <2>1 DEF Inv, Typed
  <2> QED  BY <2>1, <2>3, <2>4
           DEF Inv, Fresh, Reading, Loaded, Summing, Carrying, Overflowing, Validating
<1>5. CASE ~(n = 0 \/ n > Raw)
  <2>1. pc' = "chars" /\ err' = err
    BY <1>1, <1>5 DEF CheckLength
  <2>2. n \in 1..Raw /\ padLen + pos = padLen
    BY <1>1, <1>5, Sizes DEF padLen
  <2>3. Typed'
    BY <1>2, <1>3, <2>1 DEF Inv, Typed
  <2>4. \A j \in 0..(Limbs - 1) :
           im[j] = IF LimbDigits * (j + 1) <= padLen + pos THEN limb(j) ELSE 0
    BY <1>1, <2>2, LimbFacts
  <2>5. Reading'
    <3>1. \A j \in 0..(Limbs - 1) :
             im'[j] = IF LimbDigits * (j + 1) <= padLen' + pos' THEN limb(j)' ELSE 0
      BY <1>2, <1>3, <2>4
    <3>2. bad' <=> \E k \in 1..pos' : ~IsChar(encoded[k])'
      BY <1>1, <1>2
    <3> QED  BY <1>1, <1>2, <2>1, <3>1, <3>2 DEF Reading
  <2>6. Fresh'
    BY <1>1, <1>2 DEF Inv, Fresh
  <2>7. Loaded'
    BY <1>3, <2>1, <2>2 DEF Loaded
  <2> QED  BY <2>1, <2>3, <2>5, <2>6, <2>7
           DEF Inv, Summing, Carrying, Overflowing, Validating, OutcomeExact
<1> QED  BY <1>4, <1>5

\* A group of characters completes one limb.
LEMMA ReadGroupStep == ASSUME Inv, ReadGroup PROVE Inv'
<1>1. /\ encoded \in Inputs /\ n \in Nat /\ n \in 1..Raw /\ pc = "chars" /\ pos \in 0..n /\ pos < n
      /\ bad <=> \E k \in 1..pos : ~IsChar(encoded[k])
      /\ pos # 0 => \E t \in Nat : padLen + pos = LimbDigits * t
      /\ \A j \in 0..(Limbs - 1) : im[j] = IF LimbDigits * (j + 1) <= padLen + pos THEN limb(j) ELSE 0
      /\ im \in [0..(Limbs - 1) -> 0..(Wrap - 1)]
  BY StringFacts DEF Inv, Typed, Reading, Loaded, ReadGroup
<1>2. /\ UNCHANGED <<encoded, useAVX2, pc, row, bin, i, carry, dst, err>>
      /\ im' = [im EXCEPT ![gi] = Group(pos, count)]
      /\ bad' = (bad \/ \E k \in 1..count : ~IsChar(encoded[pos + k]))
      /\ pos' = pos + count
  BY DEF ReadGroup, count, gi
<1>3. n' = n /\ padLen' = padLen /\ Verdict' = Verdict /\ \A j : limb(j)' = limb(j)
  BY <1>2, SameString
<1>4. /\ count \in 1..LimbDigits /\ pos + count <= n /\ gi \in 0..(Limbs - 1)
      /\ padLen + pos = LimbDigits * gi + (LimbDigits - count)
      /\ count # LimbDigits => pos = 0
  BY <1>1, GroupPlace
<1>5. Group(pos, count) = limb(gi) /\ limb(gi) \in 0..(Wrap - 1)
  BY <1>1, <1>4, GroupValue, LimbFacts
<1>6. padLen \in Nat /\ LimbDigits \in Nat \ {0} /\ LimbDigits * gi \in Nat /\ LimbDigits * (gi + 1) = LimbDigits * gi + LimbDigits
  BY <1>1, <1>4, Constants, Sizes DEF padLen
<1>7. padLen + pos' = LimbDigits * (gi + 1) /\ gi + 1 \in Nat
  BY <1>1, <1>2, <1>4, <1>6
<1>8. pos' \in 0..n
  BY <1>1, <1>2, <1>4, Constants
<1>9. ASSUME NEW j \in 0..(Limbs - 1)
      PROVE  im'[j] = IF LimbDigits * (j + 1) <= padLen + pos' THEN limb(j) ELSE 0
  <2>0. /\ j \in Int /\ LimbDigits * (j + 1) = LimbDigits * j + LimbDigits /\ LimbDigits * j \in Int
        /\ gi \in Int /\ gi + 1 \in Int /\ j + 1 \in Int
    BY <1>4, <1>6
  <2>1. LimbDigits * (j + 1) <= padLen + pos' <=> j <= gi
    <3>1. LimbDigits * (j + 1) <= LimbDigits * (gi + 1) <=> j + 1 <= gi + 1
      BY <1>6, <2>0, Multiples
    <3> QED  BY <1>7, <2>0, <3>1
  <2>2. CASE j = gi
    BY <1>1, <1>2, <1>5, <2>0, <2>1, <2>2
  <2>3. CASE j < gi
    <3>1. LimbDigits * (j + 1) <= LimbDigits * gi
      <4>1. j + 1 <= gi
        BY <2>0, <2>3
      <4> QED  BY <1>6, <2>0, <4>1, Multiples
    <3>2. LimbDigits * (j + 1) <= padLen + pos
      BY <1>4, <1>6, <2>0, <3>1
    <3>3. im[j] = limb(j) /\ im'[j] = im[j]
      BY <1>1, <1>2, <2>0, <2>3, <3>2
    <3> QED  BY <2>0, <2>1, <2>3, <3>3
  <2>4. CASE j > gi
    <3>1. LimbDigits * (gi + 1) < LimbDigits * (j + 1)
      <4>1. gi + 1 < j + 1
        BY <2>0, <2>4
      <4> QED  BY <1>6, <2>0, <4>1, Multiples
    <3>2. ~(LimbDigits * (j + 1) <= padLen + pos)
      BY <1>4, <1>6, <2>0, <3>1
    <3>3. im[j] = 0 /\ im'[j] = im[j]
      BY <1>1, <1>2, <2>0, <2>4, <3>2
    <3> QED  BY <2>0, <2>1, <2>4, <3>3
  <2> QED  BY <2>0, <2>2, <2>3, <2>4
<1>10. bad' <=> \E k \in 1..pos' : ~IsChar(encoded[k])
  <2>1. ASSUME NEW k \in 1..count, ~IsChar(encoded[pos + k])
        PROVE  \E m \in 1..pos' : ~IsChar(encoded[m])
    <3>1. pos + k \in 1..pos'
      BY <1>1, <1>2, <1>4
    <3> QED  BY <2>1, <3>1
  <2>2. ASSUME NEW k \in 1..pos, ~IsChar(encoded[k])
        PROVE  \E m \in 1..pos' : ~IsChar(encoded[m])
    <3>1. k \in 1..pos'
      BY <1>1, <1>2, <1>4
    <3> QED  BY <2>2, <3>1
  <2>3. ASSUME NEW m \in 1..pos', ~IsChar(encoded[m])
        PROVE  (\E k \in 1..pos : ~IsChar(encoded[k])) \/ \E k \in 1..count : ~IsChar(encoded[pos + k])
    <3>1. CASE m <= pos
      <4>1. m \in 1..pos
        BY <1>1, <1>2, <1>4, <3>1
      <4> QED  BY <2>3, <4>1
    <3>2. CASE m > pos
      <4>1. m - pos \in 1..count /\ pos + (m - pos) = m
        BY <1>1, <1>2, <1>4, <3>2
      <4> QED  BY <2>3, <4>1
    <3> QED  BY <1>1, <1>2, <1>4, <3>1, <3>2
  <2> QED  BY <1>1, <1>2, <2>1, <2>2, <2>3
<1>11. Typed'
  <2>1. im' \in [0..(Limbs - 1) -> 0..(Wrap - 1)]
    BY <1>1, <1>2, <1>5
  <2>2. bad' \in BOOLEAN
    BY <1>2 DEF Inv, Typed
  <2> QED  BY <1>2, <1>3, <1>8, <2>1, <2>2 DEF Inv, Typed
<1>12. Reading'
  <2>1. bad' <=> \E k \in 1..pos' : ~IsChar(encoded[k])'
    BY <1>2, <1>10 DEF IsChar
  <2>2. \E t \in Nat : padLen' + pos' = LimbDigits * t
    BY <1>3, <1>7
  <2>3. \A j \in 0..(Limbs - 1) :
           im'[j] = IF LimbDigits * (j + 1) <= padLen' + pos' THEN limb(j)' ELSE 0
    BY <1>3, <1>9
  <2> QED  BY <1>1, <1>2, <2>1, <2>2, <2>3 DEF Reading
<1>13. Fresh' /\ Loaded'
  BY <1>1, <1>2, <1>3 DEF Inv, Fresh, Loaded
<1> QED  BY <1>1, <1>2, <1>11, <1>12, <1>13
         DEF Inv, Summing, Carrying, Overflowing, Validating, OutcomeExact

\* The fused kernels make all limbs at once, from the padded string.
LEMMA ReadFusedStep == ASSUME Inv, ReadFused PROVE Inv'
<1>1. /\ encoded \in Inputs /\ n \in Nat /\ n \in 1..Raw /\ pc = "chars" /\ n <= Raw
  BY StringFacts, Sizes DEF Inv, Typed, Loaded, ReadFused
<1>2. /\ UNCHANGED <<encoded, useAVX2, pc, row, bin, i, carry, dst, err>>
      /\ im' = limbs
      /\ bad' = (\E k \in 1..n : ~IsChar(encoded[k]))
      /\ pos' = n
  <2>1. padded = [k \in 0..(Raw - 1) |->
                    IF k < Raw - n THEN 0 ELSE InverseFull(encoded[k - (Raw - n) + 1])]
    BY DEF padded, padLen
  <2> QED  BY <2>1 DEF ReadFused, limbs, limb
<1>3. n' = n /\ padLen' = padLen /\ Verdict' = Verdict /\ \A j : limb(j)' = limb(j)
  BY <1>2, SameString
<1>4. padLen + pos' = LimbDigits * Limbs /\ Limbs \in Nat
  BY <1>1, <1>2, Sizes, Constants DEF padLen
<1>5. ASSUME NEW j \in 0..(Limbs - 1)
      PROVE  im'[j] = IF LimbDigits * (j + 1) <= padLen + pos' THEN limb(j) ELSE 0
  <2>1. j + 1 <= Limbs /\ j + 1 \in Int /\ Limbs \in Int
    BY Constants
  <2>2. LimbDigits * (j + 1) <= LimbDigits * Limbs
    BY <2>1, Constants, Multiples
  <2>3. im'[j] = limb(j)
    BY <1>2 DEF limbs
  <2> QED  BY <1>4, <2>2, <2>3
<1>6. Typed'
  <2>1. im' \in [0..(Limbs - 1) -> 0..(Wrap - 1)]
    BY <1>1, <1>2, LimbFacts DEF limbs
  <2>2. bad' \in BOOLEAN /\ pos' \in 0..n
    BY <1>1, <1>2
  <2> QED  BY <1>2, <1>3, <2>1, <2>2 DEF Inv, Typed
<1>7. Reading'
  <2>1. bad' <=> \E k \in 1..pos' : ~IsChar(encoded[k])'
    BY <1>2 DEF IsChar
  <2>2. \E t \in Nat : padLen' + pos' = LimbDigits * t
    BY <1>3, <1>4
  <2>3. \A j \in 0..(Limbs - 1) :
           im'[j] = IF LimbDigits * (j + 1) <= padLen' + pos' THEN limb(j)' ELSE 0
    BY <1>3, <1>5
  <2> QED  BY <1>1, <1>2, <2>1, <2>2, <2>3 DEF Reading
<1>8. Fresh' /\ Loaded'
  BY <1>1, <1>2, <1>3 DEF Inv, Fresh, Loaded
<1> QED  BY <1>1, <1>2, <1>6, <1>7, <1>8
         DEF Inv, Summing, Carrying, Overflowing, Validating, OutcomeExact

\* When all characters are read, bad says whether all are valid and every limb is there.
LEMMA CheckCharsStep == ASSUME Inv, CheckChars PROVE Inv'
<1>1. /\ encoded \in Inputs /\ n \in Nat /\ n \in 1..Raw /\ pc = "chars" /\ pos = n
      /\ bad <=> \E k \in 1..n : ~IsChar(encoded[k])
      /\ \A j \in 0..(Limbs - 1) : im[j] = IF LimbDigits * (j + 1) <= padLen + pos THEN limb(j) ELSE 0
      /\ row = 0 /\ i = Words - 1 /\ carry = 0 /\ \A k \in 0..(Words - 1) : bin[k] = 0
  BY StringFacts DEF Inv, Typed, Reading, Loaded, Fresh, CheckChars
<1>2. UNCHANGED <<encoded, useAVX2, pos, bad, im, row, bin, i, carry, dst>>
  BY DEF CheckChars
<1>3. n' = n /\ Verdict' = Verdict /\ AllValid' = AllValid /\ \A j : limb(j)' = limb(j)
  BY <1>2, SameString
<1>4. CASE bad
  <2>1. pc' = "done" /\ err' = "ErrInvalidChar"
    BY <1>1, <1>4 DEF CheckChars, Return
  <2>2. Verdict = "ErrInvalidChar"
    <3>1. ~(n = 0 \/ n > Raw)
      BY <1>1, Sizes
    <3> QED  BY <1>1, <1>4, <3>1 DEF Verdict
  <2>3. OutcomeExact'
    BY <1>3, <2>1, <2>2 DEF OutcomeExact
  <2>4. Typed'
    BY <1>2, <1>3, <2>1 DEF Inv, Typed
  <2> QED  BY <2>1, <2>3, <2>4
           DEF Inv, Fresh, Reading, Loaded, Summing, Carrying, Overflowing, Validating
<1>5. CASE ~bad
  <2>1. pc' = "matmul" /\ err' = err
    BY <1>1, <1>5 DEF CheckChars
  <2>2. AllValid
    BY <1>1, <1>5 DEF AllValid
  <2>3. padLen + pos = LimbDigits * Limbs
    BY <1>1, Sizes, Constants DEF padLen
  <2>4. ASSUME NEW j \in 0..(Limbs - 1) PROVE im[j] = limb(j)
    <3>1. j + 1 <= Limbs /\ j + 1 \in Int /\ Limbs \in Int
      BY Constants
    <3>2. LimbDigits * (j + 1) <= LimbDigits * Limbs
      BY <3>1, Constants, Multiples
    <3> QED  BY <1>1, <2>3, <3>2
  <2>5. Typed'
    BY <1>2, <1>3, <2>1 DEF Inv, Typed
  <2>6. Loaded'
    BY <1>1, <1>2, <1>3, <2>1, <2>2, <2>4 DEF Loaded
  <2>7. Summing'
    <3>1. \A k \in 0..(Words - 1) : bin'[k] <= ColumnMax(k, row)'
      <4> SUFFICES ASSUME NEW k \in 0..(Words - 1) PROVE bin'[k] <= ColumnMax(k, row)'
        OBVIOUS
      <4>1. bin'[k] = 0 /\ row' = 0
        BY <1>1, <1>2
      <4>2. ColumnMax(k, row)' = 0
        BY <4>1, ValueZero DEF ColumnMax
      <4> QED  BY <4>1, <4>2
    <3>2. Value(bin, Words, WordBase)' = 0
      <4>1. Value(bin', Words, WordBase) = 0
        BY <1>1, <1>2, ValueZeros, Constants
      <4> QED  BY <4>1
    <3>3. Consumed' = 0
      <4> DEFINE f == [j \in 0..(Limbs - 1) |-> IF j < row' THEN im'[j] ELSE 0]
      <4>1. \A j \in 0..(Limbs - 1) : f[j] = 0
        BY <1>1, <1>2
      <4> HIDE DEF f
      <4>2. Value(f, Limbs, R1div) = 0
        BY <4>1, ValueZeros, Constants
      <4> QED  BY <4>2 DEF f, Consumed
    <3>4. row' < Limbs /\ i' = Words - 1 /\ carry' = 0
      BY <1>1, <1>2, Constants
    <3> QED  BY <3>1, <3>2, <3>3, <3>4 DEF Summing
  <2> QED  BY <2>1, <2>5, <2>6, <2>7
           DEF Inv, Fresh, Reading, Carrying, Overflowing, Validating, OutcomeExact
<1> QED  BY <1>4, <1>5

\* The place of a byte: its word and its position in it.
LEMMA BytePlace ==
    ASSUME NEW b \in 0..(Bytes - 1)
    PROVE  /\ b \div WordBytes \in 0..(Words - 1) /\ b % WordBytes \in 0..(WordBytes - 1)
           /\ b = (b \div WordBytes) * WordBytes + (b % WordBytes)
<1> DEFINE q == b \div WordBytes
           r == b % WordBytes
<1>1. b \in Int /\ b \in Nat /\ WordBytes \in Nat \ {0}
  BY Constants
<1>2. q \in Nat /\ r \in 0..(WordBytes - 1) /\ b = q * WordBytes + r
  BY <1>1, DivMod, DivNat
<1> HIDE DEF q, r
<1>3. q < Words
  <2>1. WordBytes * q = q * WordBytes /\ WordBytes * Words = Bytes /\ WordBytes * q \in Int /\ Bytes \in Int
    BY <1>1, <1>2, Constants, Sizes
  <2>2. WordBytes * q < WordBytes * Words
    BY <1>1, <1>2, <2>1
  <2>3. q \in Int /\ Words \in Int
    BY <1>2, Constants
  <2> QED  BY <1>1, <2>2, <2>3, Multiples
<1>4. q \in 0..(Words - 1)
  BY <1>2, <1>3, Constants
<1> QED  BY <1>2, <1>4 DEF q, r

\* And back.
LEMMA WordPlace ==
    ASSUME NEW k \in 0..(Words - 1), NEW c \in 0..(WordBytes - 1)
    PROVE  /\ k * WordBytes + c \in 0..(Bytes - 1)
           /\ (k * WordBytes + c) \div WordBytes = k
           /\ (k * WordBytes + c) % WordBytes = c
<1>1. /\ (Words - 1 - k) * WordBytes >= 0
      /\ (Words - 1 - k) * WordBytes = Words * WordBytes - WordBytes - k * WordBytes
      /\ k * WordBytes \in Nat /\ Words * WordBytes \in Nat
  BY Constants
<1>2. k * WordBytes + c \in 0..(Bytes - 1)
  BY <1>1, Constants, Sizes
<1>3. k * WordBytes + c \in Int /\ k \in Int /\ WordBytes \in Nat \ {0}
  BY <1>1, Constants
<1> QED  BY <1>2, <1>3, DivModUnique

\* One more limb is multiplied: the columns stay within their bounds, so nothing
\* wraps, and grow by the limb's weight.
LEMMA MulRowStep == ASSUME Inv, MulRow PROVE Inv'
<1>1. /\ encoded \in Inputs /\ n \in Nat /\ n \in 1..Raw /\ n <= Raw /\ pc = "matmul" /\ AllValid
      /\ row \in 0..(Limbs - 1) /\ i = Words - 1 /\ carry = 0
      /\ bin \in [0..(Words - 1) -> 0..(Wrap - 1)]
      /\ \A j \in 0..(Limbs - 1) : im[j] = limb(j)
      /\ \A k \in 0..(Words - 1) : bin[k] <= ColumnMax(k, row)
      /\ Value(bin, Words, WordBase) = Consumed
  BY StringFacts, Sizes, Constants, SMTT(30) DEF Inv, Typed, Loaded, Summing, MulRow
<1>2. /\ UNCHANGED <<encoded, useAVX2, pos, bad, im, i, carry, dst, err>>
      /\ bin' = [k \in 0..(Words - 1) |-> uint64(bin[k] + im[row] * decTable[row][k])]
      /\ row' = row + 1
      /\ pc' = IF row' = Limbs THEN "carry" ELSE "matmul"
  BY DEF MulRow
<1>3. /\ n' = n /\ AllValid' = AllValid /\ \A j : limb(j)' = limb(j)
      /\ StringValue' = StringValue /\ fused' = fused
  BY <1>2, SameString, SamePath
<1>4. im[row] \in 0..(R1div - 1) /\ im[row] \in Int
  BY <1>1, LimbFacts, Constants
<1>5. ASSUME NEW k \in 0..(Words - 1)
      PROVE  /\ bin[k] \in Nat /\ decTable[row][k] \in Nat
             /\ bin'[k] = bin[k] + im[row] * decTable[row][k]
             /\ bin'[k] \in 0..(Wrap - 1) /\ bin'[k] <= ColumnMax(k, row + 1)
  <2>1. bin[k] \in Nat /\ bin[k] <= ColumnMax(k, row) /\ decTable[row][k] \in Nat
    BY <1>1, TableNat, Constants
  <2> DEFINE x == bin[k] + im[row] * decTable[row][k]
  <2>2. x \in Nat /\ x <= ColumnMax(k, row + 1) /\ x < Wrap
    BY <1>1, <1>4, <2>1, ColumnAdd
  <2>3. bin'[k] = uint64(x)
    BY <1>2
  <2> HIDE DEF x
  <2>4. bin'[k] = x /\ x \in 0..(Wrap - 1)
    BY <2>2, <2>3, NoWrap, Constants
  <2> QED  BY <2>1, <2>2, <2>4 DEF x
<1>6. Value(bin', Words, WordBase) = Consumed'
  <2> DEFINE f == [j \in 0..(Limbs - 1) |-> IF j < row THEN im[j] ELSE 0]
             g == [j \in 0..(Limbs - 1) |-> IF j < row' THEN im'[j] ELSE 0]
             w == Pow(R1div, Limbs - 1 - row)
  <2>1. Value(bin', Words, WordBase)
          = Value(bin, Words, WordBase) + im[row] * Value(decTable[row], Words, WordBase)
    <3> DEFINE a == bin
               h == bin'
               t == decTable[row]
               c == im[row]
    <3>1. \A k \in 0..(Words - 1) : a[k] \in Int
      BY <1>5
    <3>2. \A k \in 0..(Words - 1) : t[k] \in Int
      BY <1>5
    <3>3. \A k \in 0..(Words - 1) : h[k] = a[k] + c * t[k]
      BY <1>5
    <3>4. Words \in Nat /\ WordBase \in Int /\ c \in Int
      BY <1>4, Constants
    <3> HIDE DEF a, h, t, c
    <3>5. Value(h, Words, WordBase) = Value(a, Words, WordBase) + c * Value(t, Words, WordBase)
      BY <3>1, <3>2, <3>3, <3>4, ValueLinear
    <3> QED  BY <3>5 DEF a, h, t, c
  <2>2. Value(decTable[row], Words, WordBase) = w
    BY <1>1, RowValue
  <2>3. /\ \A j \in 0..(Limbs - 1) : f[j] \in Int
        /\ \A j \in 0..(Limbs - 1) : j # row => g[j] = f[j]
        /\ f[row] = 0 /\ g[row] = im[row]
    <3>1. \A j \in 0..(Limbs - 1) : im[j] \in Int
      BY <1>1, LimbFacts, Constants
    <3>2. \A j \in 0..(Limbs - 1) : j # row => (j < row + 1 <=> j < row)
      BY <1>1
    <3> QED  BY <1>1, <1>2, <3>1, <3>2
  <2>4. Consumed = Value(f, Limbs, R1div) /\ Consumed' = Value(g, Limbs, R1div)
    BY DEF Consumed
  <2> HIDE DEF f, g
  <2>5. Value(g, Limbs, R1div) = Value(f, Limbs, R1div) + (g[row] - f[row]) * w
    <3>1. g[row] \in Int /\ Limbs \in Nat /\ R1div \in Int
      BY <1>4, <2>3, Constants
    <3> QED  BY <1>1, <2>3, <3>1, ValueChange, SMTT(30)
  <2>6. g[row] - f[row] = im[row]
    BY <1>4, <2>3
  <2> HIDE DEF w
  <2> QED  BY <1>1, <2>1, <2>2, <2>4, <2>5, <2>6
<1>7. Typed'
  <2>1. bin' \in [0..(Words - 1) -> 0..(Wrap - 1)]
    BY <1>2, <1>5
  <2>2. row' \in 0..Limbs
    BY <1>1, <1>2, Constants
  <2> QED  BY <1>2, <1>3, <2>1, <2>2 DEF Inv, Typed
<1>8. Loaded'
  BY <1>1, <1>2, <1>3 DEF Loaded
<1>9. \A k \in 0..(Words - 1) : ColumnMax(k, row)' = ColumnMax(k, row + 1)
  BY <1>2 DEF ColumnMax
<1>10. CASE row' = Limbs
  <2>1. pc' = "carry" /\ row + 1 = Limbs
    BY <1>2, <1>10
  <2>2. Consumed' = StringValue /\ StringValue \in Nat
    <3> DEFINE g == [j \in 0..(Limbs - 1) |-> IF j < row' THEN im'[j] ELSE 0]
    <3>1. \A j \in 0..(Limbs - 1) : g[j] = limb(j)
      BY <1>1, <1>2, <1>10, Constants
    <3>2. Consumed' = Value(g, Limbs, R1div)
      BY DEF Consumed
    <3> HIDE DEF g
    <3> QED  BY <1>1, <3>1, <3>2, LimbsValue
  <2>3. Weight(i)' = 1
    <3>1. Words - 1 - (Words - 1) = 0
      BY Constants
    <3>2. Weight(i)' = Pow(WordBase, 0)
      BY <1>1, <1>2, <3>1 DEF Weight
    <3> QED  BY <3>2, PowZero, Constants
  <2>4. Value(bin, Words, WordBase)' = StringValue
    BY <1>6, <2>2
  <2>5. ASSUME ~fused
        PROVE  /\ carry' <= CarryMax
               /\ \A k \in 0..(i') : bin'[k] <= ColumnMax(k, Limbs)'
               /\ \A k \in ((i') + 1)..(Words - 1) : bin'[k] < WordBase
               /\ Value(bin, Words, WordBase)' + carry' * Weight(i)' = StringValue
    <3>1. carry' <= CarryMax
      BY <1>1, <1>2, Constants
    <3>2. \A k \in 0..(Words - 1) : bin'[k] <= ColumnMax(k, Limbs)
      BY <1>5, <2>1
    <3>3. \A k \in 0..(Words - 1) : ColumnMax(k, Limbs)' = ColumnMax(k, Limbs)
      BY DEF ColumnMax
    <3>4. i' = Words - 1 /\ ~ \E k : k \in (i' + 1)..(Words - 1)
      BY <1>1, <1>2, Constants
    <3>5. StringValue + carry' * Weight(i)' = StringValue
      BY <1>1, <1>2, <2>2, <2>3
    <3> QED  BY <2>4, <3>1, <3>2, <3>3, <3>4, <3>5
  <2>6. ASSUME fused
        PROVE  /\ carry' <= 1
               /\ \A k \in 0..(Bytes - 1) : k \div WordBytes > i' => dst'[k] \in Int
               /\ Value(mixed, Words, WordBase)' + (carry' + above') * Weight(i)' = StringValue
    <3>1. carry' <= 1 /\ carry' = 0 /\ above' = 0
      BY <1>1, <1>2 DEF above
    <3>2. \A k \in 0..(Bytes - 1) : ~(k \div WordBytes > i')
      <4> SUFFICES ASSUME NEW k \in 0..(Bytes - 1) PROVE ~(k \div WordBytes > i')
        OBVIOUS
      <4>1. k \div WordBytes \in 0..(Words - 1)
        BY BytePlace
      <4> QED  BY <1>1, <1>2, <4>1, Constants
    <3>3. Value(mixed, Words, WordBase)' = Value(bin', Words, WordBase)
      <4>1. \A k \in 0..(Words - 1) : mixed'[k] = bin'[k] /\ bin'[k] \in Int
        <5> SUFFICES ASSUME NEW k \in 0..(Words - 1) PROVE mixed'[k] = bin'[k] /\ bin'[k] \in Int
          OBVIOUS
        <5>1. ~(k > i')
          BY <1>1, <1>2, Constants
        <5>2. mixed'[k] = IF k > i' THEN word(k)' ELSE bin'[k]
          BY DEF mixed
        <5>3. bin'[k] \in Int
          BY <1>5, Constants
        <5> QED  BY <5>1, <5>2, <5>3
      <4>2. Value(mixed', Words, WordBase) = Value(bin', Words, WordBase)
        BY <4>1, ValueEqual, Constants
      <4> QED  BY <4>2
    <3>4. StringValue + (carry' + above') * Weight(i)' = StringValue
      BY <2>2, <2>3, <3>1
    <3> QED  BY <2>4, <3>1, <3>2, <3>3, <3>4
  <2>7. Carrying'
    BY <1>3, <1>10, <2>1, <2>5, <2>6 DEF Carrying
  <2> QED  BY <1>7, <1>8, <2>1, <2>7
           DEF Inv, Fresh, Reading, Summing, Overflowing, Validating, OutcomeExact
<1>11. CASE row' # Limbs
  <2>1. pc' = "matmul"
    BY <1>2, <1>11
  <2>2. row' < Limbs /\ i' = Words - 1 /\ carry' = 0
    BY <1>1, <1>2, <1>11, Constants
  <2>3. \A k \in 0..(Words - 1) : bin'[k] <= ColumnMax(k, row)'
    BY <1>5, <1>9
  <2>4. Summing'
    BY <1>6, <2>2, <2>3 DEF Summing
  <2> QED  BY <1>7, <1>8, <2>1, <2>4
           DEF Inv, Fresh, Reading, Carrying, Overflowing, Validating, OutcomeExact
<1> QED  BY <1>10, <1>11

-----------------------------------------------------------------------------
(* Words and bytes *)

\* Quotients are ordered as what is divided.
LEMMA DivMonotone ==
    ASSUME NEW a \in Nat, NEW b \in Nat, a <= b, NEW c \in Nat \ {0}
    PROVE  a \div c <= b \div c
<1> DEFINE p == a \div c
           q == b \div c
           r == a % c
           s == b % c
<1>1. p \in Nat /\ q \in Nat /\ r \in 0..(c - 1) /\ s \in 0..(c - 1) /\ a = p * c + r /\ b = q * c + s
  <2>1. a \in Int /\ b \in Int
    OBVIOUS
  <2>2. p \in Nat /\ q \in Nat
    BY DivNat
  <2>3. r \in 0..(c - 1) /\ a = p * c + r
    BY <2>1, DivMod
  <2>4. s \in 0..(c - 1) /\ b = q * c + s
    BY <2>1, DivMod
  <2> QED  BY <2>2, <2>3, <2>4
<1> HIDE DEF p, q, r, s
<1>2. ASSUME q < p PROVE FALSE
  <2>1. q + 1 <= p /\ q + 1 \in Int /\ p \in Int
    BY <1>1, <1>2
  <2>2. c * (q + 1) <= c * p
    BY <2>1, Multiples
  <2>3. c * (q + 1) = q * c + c /\ c * p = p * c /\ q * c \in Int /\ p * c \in Int
    BY <1>1
  <2> QED  BY <1>1, <2>2, <2>3
<1>3. p <= q
  BY <1>1, <1>2
<1> QED  BY <1>3 DEF p, q

\* A word is a number below WordBase; what a uint64 has above it fits a word too.
LEMMA Halves ==
    ASSUME NEW x \in 0..(Wrap - 1)
    PROVE  /\ low(x) \in 0..(WordBase - 1) /\ high(x) \in Nat
           /\ x = high(x) * WordBase + low(x)
           /\ high(x) <= CarryMax /\ high(x) <= WordBase - 1
<1>1. x \in Nat /\ x \in Int /\ WordBase \in Nat \ {0} /\ Wrap - 1 \in Nat /\ x <= Wrap - 1
  BY Constants
<1>2. low(x) \in 0..(WordBase - 1) /\ high(x) \in Nat /\ x = high(x) * WordBase + low(x)
  BY <1>1, DivMod, DivNat DEF low, high
<1>3. high(x) <= CarryMax
  <2>1. x \div WordBase <= (Wrap - 1) \div WordBase
    BY <1>1, DivMonotone
  <2> QED  BY <2>1 DEF high, CarryMax
<1>4. high(x) <= WordBase - 1
  <2> DEFINE h == high(x)
  <2> HIDE DEF h
  <2>1. h \in Int /\ h * WordBase \in Int /\ WordBase * h = h * WordBase /\ WordBase * WordBase \in Int
    BY <1>1, <1>2 DEF h
  <2>2. h * WordBase <= x
    BY <1>1, <1>2, <2>1 DEF h
  <2>3. x < WordBase * WordBase
    <3> DEFINE P == WordBase * WordBase
    <3>1. Wrap <= P /\ P \in Int
      BY <2>1, LengthAssumption
    <3> HIDE DEF P
    <3>2. x < P
      BY <3>1, Constants
    <3> QED  BY <3>2 DEF P
  <2>4. WordBase * h < WordBase * WordBase
    BY <1>1, <2>1, <2>2, <2>3
  <2>5. h < WordBase
    BY <1>1, <2>1, <2>4, Multiples
  <2> QED  BY <1>1, <2>1, <2>5 DEF h
<1> QED  BY <1>2, <1>3, <1>4

\* Storing a word changes its bytes to the digits of its value, and no others.
LEMMA PutWordFacts ==
    ASSUME NEW d \in [0..(Bytes - 1) -> 0..(ByteBase - 1) \cup {Old}],
           NEW k \in 0..(Words - 1), NEW w \in 0..(WordBase - 1)
    PROVE  /\ PutWord(d, k, w) \in [0..(Bytes - 1) -> 0..(ByteBase - 1) \cup {Old}]
           /\ \A b \in 0..(Bytes - 1) :
                IF b \div WordBytes = k THEN PutWord(d, k, w)[b] \in Int ELSE PutWord(d, k, w)[b] = d[b]
           /\ \A c \in 0..(WordBytes - 1) :
                PutWord(d, k, w)[k * WordBytes + c] = Digit(w, c, WordBytes, ByteBase)
           /\ \A j \in 0..(Words - 1), c \in 0..(WordBytes - 1) :
                j # k => PutWord(d, k, w)[j * WordBytes + c] = d[j * WordBytes + c]
<1>1. ASSUME NEW b \in 0..(Bytes - 1) PROVE Digit(w, b % WordBytes, WordBytes, ByteBase) \in 0..(ByteBase - 1)
  <2>1. b % WordBytes \in 0..(WordBytes - 1)
    BY BytePlace
  <2>2. w \in Nat
    BY Constants
  <2> QED  BY <2>1, <2>2, DigitRange, Constants
<1>2. PutWord(d, k, w) \in [0..(Bytes - 1) -> 0..(ByteBase - 1) \cup {Old}]
  BY <1>1 DEF PutWord
<1>3. \A b \in 0..(Bytes - 1) :
         IF b \div WordBytes = k THEN PutWord(d, k, w)[b] \in Int ELSE PutWord(d, k, w)[b] = d[b]
  <2> SUFFICES ASSUME NEW b \in 0..(Bytes - 1)
               PROVE  IF b \div WordBytes = k THEN PutWord(d, k, w)[b] \in Int ELSE PutWord(d, k, w)[b] = d[b]
    OBVIOUS
  <2>1. PutWord(d, k, w)[b] = IF b \div WordBytes = k THEN Digit(w, b % WordBytes, WordBytes, ByteBase) ELSE d[b]
    BY DEF PutWord
  <2>2. Digit(w, b % WordBytes, WordBytes, ByteBase) \in Int
    BY <1>1, Constants
  <2> QED  BY <2>1, <2>2
<1>4. ASSUME NEW c \in 0..(WordBytes - 1)
      PROVE  PutWord(d, k, w)[k * WordBytes + c] = Digit(w, c, WordBytes, ByteBase)
  <2> DEFINE b == k * WordBytes + c
  <2>1. b \in 0..(Bytes - 1) /\ b \div WordBytes = k /\ b % WordBytes = c
    BY WordPlace
  <2> HIDE DEF b
  <2>2. PutWord(d, k, w)[b] = Digit(w, c, WordBytes, ByteBase)
    BY <2>1 DEF PutWord
  <2> QED  BY <2>2 DEF b
<1>5. ASSUME NEW j \in 0..(Words - 1), NEW c \in 0..(WordBytes - 1), j # k
      PROVE  PutWord(d, k, w)[j * WordBytes + c] = d[j * WordBytes + c]
  <2> DEFINE b == j * WordBytes + c
  <2>1. b \in 0..(Bytes - 1) /\ b \div WordBytes = j
    BY WordPlace
  <2> HIDE DEF b
  <2>2. PutWord(d, k, w)[b] = d[b]
    BY <1>5, <2>1 DEF PutWord
  <2> QED  BY <2>2 DEF b
<1> QED  BY <1>2, <1>3, <1>4, <1>5

\* The digits of a word, read again, are the word.
LEMMA WordValue ==
    ASSUME NEW w \in 0..(WordBase - 1), NEW f,
           \A c \in 0..(WordBytes - 1) : f[c] = Digit(w, c, WordBytes, ByteBase)
    PROVE  Value(f, WordBytes, ByteBase) = w
<1>1. w \in Nat /\ w < Pow(ByteBase, WordBytes)
  BY Constants DEF WordBase
<1> QED  BY <1>1, ValueDigits, Constants

\* Bytes, and the words they make.
LEMMA BytesValue ==
    ASSUME NEW d, NEW g, \A b \in 0..(Bytes - 1) : d[b] \in Int,
           \A k \in 0..(Words - 1) :
             g[k] = Value([b \in 0..(WordBytes - 1) |-> d[k * WordBytes + b]], WordBytes, ByteBase)
    PROVE  Value(g, Words, WordBase) = Value(d, Bytes, ByteBase)
<1>1. \A b \in 0..(Words * WordBytes - 1) : d[b] \in Int
  BY Sizes
<1>2. ByteBase \in Int /\ WordBytes \in Nat /\ Words \in Nat
  BY Constants
<1>3. Value(g, Words, Pow(ByteBase, WordBytes)) = Value(d, Words * WordBytes, ByteBase)
  BY <1>1, <1>2, ValueGroup, ZenonT(60)
<1> QED  BY <1>3 DEF WordBase, Bytes

\* Weights grow by WordBase from the back to the front.
LEMMA WeightFacts ==
    ASSUME NEW k \in 0..(Words - 1)
    PROVE  /\ Weight(k) \in Nat \ {0}
           /\ Pow(WordBase, Words - k) = Weight(k) * WordBase
           /\ k >= 1 => Weight(k - 1) = Weight(k) * WordBase
<1>1. Words - 1 - k \in Nat /\ (Words - 1 - k) + 1 = Words - k /\ Words - 1 - (k - 1) = Words - k
  BY Constants
<1>2. Weight(k) \in Nat \ {0}
  BY <1>1, PowPos, Constants DEF Weight
<1>3. Pow(WordBase, (Words - 1 - k) + 1) = Pow(WordBase, Words - 1 - k) * WordBase
  BY <1>1, PowStep, Constants
<1> QED  BY <1>1, <1>2, <1>3 DEF Weight

-----------------------------------------------------------------------------
(* Carries *)

\* What holds of the serial chain at word i: its sum fits a uint64.
LEMMA SerialFacts ==
    ASSUME Inv, pc = "carry", ~fused
    PROVE  /\ i \in 0..(Words - 1) /\ bin \in [0..(Words - 1) -> 0..(Wrap - 1)]
           /\ bin[i] \in Nat /\ carry \in Nat
           /\ v = bin[i] + carry /\ v \in 0..(Wrap - 1)
           /\ n \in 1..Raw /\ n \in Nat /\ n <= Raw /\ encoded \in Inputs
           /\ AllValid /\ StringValue \in Nat
<1>1. /\ i \in 0..(Words - 1) /\ bin \in [0..(Words - 1) -> 0..(Wrap - 1)] /\ carry \in Nat
      /\ carry <= CarryMax /\ bin[i] <= ColumnMax(i, Limbs) /\ encoded \in Inputs
      /\ n \in 1..Raw /\ AllValid /\ \A j \in 0..(Limbs - 1) : im[j] = limb(j)
  <2>1. /\ i \in 0..(Words - 1) /\ carry \in 0..(Wrap - 1) /\ encoded \in Inputs
        /\ bin \in [0..(Words - 1) -> 0..(Wrap - 1)]
    BY DEF Inv, Typed
  <2>2. i \in 0..i
    BY <2>1, Constants
  <2>3. carry <= CarryMax /\ bin[i] <= ColumnMax(i, Limbs)
    BY <2>2 DEF Inv, Carrying
  <2> QED  BY <2>1, <2>3, Constants DEF Inv, Loaded
<1>2. bin[i] \in Nat
  BY <1>1, Constants
<1>3. ColumnMax(i, Limbs) + CarryMax < Wrap /\ ColumnMax(i, Limbs) \in Nat
  <2>1. Limbs \in 0..Limbs
    BY Constants
  <2> QED  BY <1>1, <2>1, ColumnsAssumption, ColumnNat
<1>4. bin[i] + carry \in Nat /\ bin[i] + carry < Wrap
  BY <1>1, <1>2, <1>3, Constants
<1>5. v = bin[i] + carry
  BY <1>4, NoWrap DEF v
<1>6. v \in 0..(Wrap - 1)
  BY <1>4, <1>5, Constants
<1>7. n \in Nat /\ n <= Raw
  BY <1>1, Sizes
<1>8. StringValue \in Nat
  BY <1>1, <1>7, LimbsValue
<1> QED  BY <1>1, <1>2, <1>5, <1>6, <1>7, <1>8

\* A word is split off and the rest carried: the sum stays the same.
LEMMA CarryStepStep == ASSUME Inv, CarryStep PROVE Inv'
<1>1. /\ pc = "carry" /\ ~fused /\ i >= 1
      /\ bin' = [bin EXCEPT ![i] = low(v)] /\ carry' = high(v)
      /\ dst' = IF useAVX2 THEN PutWord(dst, i, low(v)) ELSE dst
      /\ i' = i - 1
      /\ UNCHANGED <<encoded, useAVX2, pc, pos, bad, im, row, err>>
  BY DEF CarryStep, low, high
<1>2. /\ i \in 0..(Words - 1) /\ bin \in [0..(Words - 1) -> 0..(Wrap - 1)]
      /\ bin[i] \in Nat /\ carry \in Nat /\ v = bin[i] + carry /\ v \in 0..(Wrap - 1)
      /\ StringValue \in Nat
  BY <1>1, SerialFacts
<1>3. /\ n' = n /\ AllValid' = AllValid /\ \A j : limb(j)' = limb(j)
      /\ StringValue' = StringValue /\ fused' = fused
  BY <1>1, SameString, SamePath
<1>4. /\ low(v) \in 0..(WordBase - 1) /\ high(v) \in Nat /\ v = high(v) * WordBase + low(v)
      /\ high(v) <= CarryMax
  BY <1>2, Halves
<1>5. /\ row = Limbs /\ \A k \in 0..i : bin[k] <= ColumnMax(k, Limbs)
      /\ \A k \in (i + 1)..(Words - 1) : bin[k] < WordBase
      /\ Value(bin, Words, WordBase) + carry * Weight(i) = StringValue
  BY <1>1 DEF Inv, Carrying
<1>6. low(v) \in 0..(Wrap - 1) /\ carry' \in 0..(Wrap - 1)
  <2>1. low(v) <= v /\ high(v) <= v
    <3> DEFINE h == high(v)
    <3>1. h * WordBase >= h /\ h * WordBase \in Nat
      <4>1. h \in Nat
        BY <1>4
      <4> HIDE DEF h
      <4>2. h * (WordBase - 1) \in Nat /\ h * (WordBase - 1) = h * WordBase - h
        BY <4>1, Constants
      <4> QED  BY <4>1, <4>2, Constants
    <3> QED  BY <1>2, <1>4, <3>1, Constants, SMTT(30)
  <2> QED  BY <1>1, <1>2, <1>4, <2>1, Constants
<1>7. Typed'
  <2>1. bin' \in [0..(Words - 1) -> 0..(Wrap - 1)]
    BY <1>1, <1>2, <1>6
  <2>2. i' \in 0..(Words - 1)
    BY <1>1, <1>2, Constants
  <2>3. dst \in [0..(Bytes - 1) -> 0..(ByteBase - 1) \cup {Old}]
    BY DEF Inv, Typed
  <2>4. dst' \in [0..(Bytes - 1) -> 0..(ByteBase - 1) \cup {Old}]
    BY <1>1, <1>2, <1>4, <2>3, PutWordFacts
  <2> QED  BY <1>1, <1>3, <1>6, <2>1, <2>2, <2>4 DEF Inv, Typed
<1>8. Value(bin', Words, WordBase) + carry' * Weight(i - 1) = StringValue
  <2> DEFINE w == Weight(i)
             q == high(v)
             r == low(v)
             x == bin[i]
             A == Value(bin, Words, WordBase)
             B == Value(bin', Words, WordBase)
  <2>1. w \in Nat \ {0} /\ Weight(i - 1) = w * WordBase
    BY <1>1, <1>2, WeightFacts
  <2>2. B = A + (r - x) * w
    <3>1. \A k \in 0..(Words - 1) : bin[k] \in Int
      BY <1>2, Constants
    <3>2. \A k \in 0..(Words - 1) : k # i => bin'[k] = bin[k]
      BY <1>1, <1>2
    <3>3. bin'[i] = r /\ bin'[i] \in Int
      BY <1>1, <1>2, <1>4
    <3>4. WordBase \in Int /\ Words \in Nat
      BY Constants
    <3>5. i \in 0..(Words - 1) /\ bin'[i] \in Int
      BY <1>2, <3>3
    <3>6. Value(bin', Words, WordBase) = Value(bin, Words, WordBase) + (bin'[i] - bin[i]) * Pow(WordBase, Words - 1 - i)
      BY <3>1, <3>2, <3>4, <3>5, ValueChange
    <3> QED  BY <3>3, <3>6 DEF Weight
  <2>3. A \in Int
    BY <1>2, ValueInt, Constants
  <2>4. q \in Int /\ r \in Int /\ x \in Int /\ x + carry = q * WordBase + r /\ A + carry * w = StringValue
    BY <1>2, <1>4, <1>5
  <2>5. WordBase \in Int /\ carry \in Int /\ w \in Int
    BY <1>2, <2>1, Constants
  <2>6. carry' * Weight(i - 1) = q * (w * WordBase)
    BY <1>1, <2>1
  <2> HIDE DEF w, q, r, x, A, B
  <2>7. B + q * (w * WordBase) = A + carry * w
    <3>1. (r - x) * w + q * (w * WordBase) = (r - x + q * WordBase) * w
      BY <2>4, <2>5
    <3>2. r - x + q * WordBase = carry
      <4>1. q * WordBase \in Int
        BY <2>4, <2>5
      <4> QED  BY <2>4, <2>5, <4>1
    <3>3. (r - x) * w \in Int /\ q * (w * WordBase) \in Int
      BY <2>4, <2>5
    <3> QED  BY <2>2, <2>3, <3>1, <3>2, <3>3
  <2>8. B + carry' * Weight(i - 1) = StringValue
    BY <2>4, <2>6, <2>7
  <2> QED  BY <2>8 DEF B
<1>9. Carrying'
  <2>1. carry' <= CarryMax
    BY <1>1, <1>4
  <2>2. \A k \in 0..(i') : bin'[k] <= ColumnMax(k, Limbs)'
    <3> SUFFICES ASSUME NEW k \in 0..(i - 1) PROVE bin'[k] <= ColumnMax(k, Limbs)'
      BY <1>1
    <3>1. k \in 0..i /\ k # i /\ k \in 0..(Words - 1)
      BY <1>2, Constants
    <3>2. ColumnMax(k, Limbs)' = ColumnMax(k, Limbs)
      BY DEF ColumnMax
    <3> QED  BY <1>1, <1>2, <1>5, <3>1, <3>2
  <2>3. \A k \in (i' + 1)..(Words - 1) : bin'[k] < WordBase
    <3> SUFFICES ASSUME NEW k \in ((i - 1) + 1)..(Words - 1) PROVE bin'[k] < WordBase
      BY <1>1
    <3>1. CASE k = i
      BY <1>1, <1>2, <1>4, <3>1, Constants
    <3>2. CASE k # i
      <4>1. k \in (i + 1)..(Words - 1) /\ k \in 0..(Words - 1)
        BY <1>2, <3>2, Constants
      <4> QED  BY <1>1, <1>2, <1>5, <3>2, <4>1
    <3> QED  BY <3>1, <3>2
  <2>4. Value(bin, Words, WordBase)' + carry' * Weight(i)' = StringValue'
    <3>1. Weight(i)' = Weight(i - 1)
      BY <1>1 DEF Weight
    <3> QED  BY <1>3, <1>8, <3>1
  <2> QED  BY <1>1, <1>3, <1>5, <2>1, <2>2, <2>3, <2>4 DEF Carrying
<1>10. Loaded'
  BY <1>1, <1>3 DEF Inv, Loaded
<1> QED  BY <1>1, <1>7, <1>9, <1>10
         DEF Inv, Fresh, Reading, Summing, Overflowing, Validating, OutcomeExact

\* A number too large for the words is at least their range.
LEMMA TooLarge ==
    ASSUME encoded \in Inputs, n \in 1..Raw, AllValid
    PROVE  /\ StringValue >= Pow(WordBase, Words) => Verdict = "ErrValueTooLarge"
           /\ StringValue < Pow(WordBase, Words) =>
                Verdict = IF inLeading1s # LeadingZeros(ValueAsBytes, Bytes, 0)
                          THEN "ErrLeadingZeros" ELSE "nil"
<1>1. ~(n = 0 \/ n > Raw)
  BY Sizes
<1>2. ~ \E k \in 1..n : ~IsChar(encoded[k])
  BY DEF AllValid
<1>3. StringValue \in Int /\ Pow(WordBase, Words) \in Int
  <2>1. n <= Raw /\ \A j \in 0..(Limbs - 1) : limbs[j] = limb(j)
    BY Sizes DEF limbs
  <2>2. StringValue \in Nat
    BY <2>1, LimbsValue
  <2>3. Pow(WordBase, Words) \in Int
    BY PowInt, Constants
  <2> QED  BY <2>2, <2>3
<1> QED  BY <1>1, <1>2, <1>3 DEF Verdict

\* The first word takes the last carry; it overflows exactly if the value does.
LEMMA CarryEndStep == ASSUME Inv, CarryEnd PROVE Inv'
<1>1. /\ pc = "carry" /\ ~fused /\ i = 0 /\ bin' = [bin EXCEPT ![0] = v] /\ carry' = 0
      /\ UNCHANGED <<encoded, useAVX2, pos, bad, im, row, i>>
  BY DEF CarryEnd
<1>2. /\ i \in 0..(Words - 1) /\ bin \in [0..(Words - 1) -> 0..(Wrap - 1)]
      /\ bin[0] \in Nat /\ carry \in Nat /\ v = bin[0] + carry /\ v \in 0..(Wrap - 1)
      /\ StringValue \in Nat /\ n \in 1..Raw /\ encoded \in Inputs /\ AllValid
  BY <1>1, SerialFacts
<1>3. /\ n' = n /\ AllValid' = AllValid /\ \A j : limb(j)' = limb(j)
      /\ StringValue' = StringValue /\ fused' = fused /\ Verdict' = Verdict
  BY <1>1, SameString, SamePath
<1>4. bin' \in [0..(Words - 1) -> 0..(Wrap - 1)] /\ bin'[0] = v
  BY <1>1, <1>2
<1>5. Value(bin', Words, WordBase) = StringValue
  <2> DEFINE w == Weight(0)
             A == Value(bin, Words, WordBase)
  <2>1. Value(bin', Words, WordBase) = A + (bin'[0] - bin[0]) * w
    <3>1. \A k \in 0..(Words - 1) : bin[k] \in Int
      BY <1>2, Constants
    <3>2. \A k \in 0..(Words - 1) : k # 0 => bin'[k] = bin[k]
      BY <1>1, <1>2
    <3>3. bin'[0] \in Int /\ 0 \in 0..(Words - 1)
      BY <1>1, <1>2, <1>4, Constants
    <3>4. WordBase \in Int /\ Words \in Nat
      BY Constants
    <3>5. Value(bin', Words, WordBase) = Value(bin, Words, WordBase) + (bin'[0] - bin[0]) * Pow(WordBase, Words - 1 - 0)
      BY <3>1, <3>2, <3>3, <3>4, ValueChange
    <3> QED  BY <3>5 DEF Weight
  <2>2. A + carry * w = StringValue
    BY <1>1 DEF Inv, Carrying
  <2>3. bin'[0] - bin[0] = carry
    BY <1>2, <1>4
  <2> QED  BY <2>1, <2>2, <2>3
<1>6. dst \in [0..(Bytes - 1) -> 0..(ByteBase - 1) \cup {Old}]
  BY DEF Inv, Typed
<1>7. CASE v >= WordBase
  <2>1. /\ pc' = "done" /\ err' = "ErrValueTooLarge"
        /\ dst' = IF useAVX2 THEN PutWord(dst, 0, low(v)) ELSE dst
    BY <1>1, <1>7 DEF CarryEnd, Return, low
  <2>2. dst' \in [0..(Bytes - 1) -> 0..(ByteBase - 1) \cup {Old}]
    <3>1. low(v) \in 0..(WordBase - 1) /\ 0 \in 0..(Words - 1)
      BY <1>2, Halves, Constants
    <3> QED  BY <1>6, <2>1, <3>1, PutWordFacts
  <2>3. StringValue >= Pow(WordBase, Words)
    <3> DEFINE P == Pow(WordBase, Words - 1)
    <3>1. bin'[0] * Pow(WordBase, Words - 1 - 0) <= Value(bin', Words, WordBase)
      <4>1. \A k \in 0..(Words - 1) : bin'[k] \in Nat
        BY <1>4, Constants
      <4>2. 0 \in 0..(Words - 1) /\ WordBase \in Nat /\ Words \in Nat
        BY Constants
      <4> QED  BY <4>1, <4>2, ValueFloor
    <3>2. Words - 1 - 0 = Words - 1 /\ Words - 1 \in Nat /\ (Words - 1) + 1 = Words
      BY Constants
    <3>3. Pow(WordBase, (Words - 1) + 1) = P * WordBase /\ P \in Nat
      BY <3>2, PowStep, PowPos, Constants
    <3>4. v * P <= StringValue /\ Pow(WordBase, Words) = P * WordBase
      BY <1>4, <1>5, <3>1, <3>2, <3>3
    <3> HIDE DEF P
    <3>5. v * P >= P * WordBase
      <4>1. v - WordBase \in Nat /\ v \in Nat
        BY <1>2, <1>7, Constants
      <4>2. (v - WordBase) * P \in Nat /\ (v - WordBase) * P = v * P - P * WordBase /\ v * P \in Int /\ P * WordBase \in Int
        BY <3>3, <4>1, Constants
      <4> QED  BY <4>2
    <3>6. v * P \in Int /\ P * WordBase \in Int
      BY <1>2, <3>3, Constants
    <3> QED  BY <1>2, <3>4, <3>5, <3>6
  <2>4. Verdict = "ErrValueTooLarge"
    BY <1>2, <2>3, TooLarge
  <2>5. OutcomeExact'
    BY <1>3, <2>1, <2>4 DEF OutcomeExact
  <2>6. Typed'
    <3>1. carry' \in 0..(Wrap - 1)
      BY <1>1, Constants
    <3> QED  BY <1>1, <1>3, <1>4, <2>1, <2>2, <3>1 DEF Inv, Typed
  <2> QED  BY <2>1, <2>5, <2>6
           DEF Inv, Fresh, Reading, Loaded, Summing, Carrying, Overflowing, Validating
<1>8. CASE ~(v >= WordBase)
  <2>1. /\ pc' = "validate" /\ err' = err
        /\ dst' = [b \in 0..(Bytes - 1) |->
                     Digit(bin'[b \div WordBytes], b % WordBytes, WordBytes, ByteBase)]
    BY <1>1, <1>8 DEF CarryEnd
  <2>2. ASSUME NEW k \in 0..(Words - 1) PROVE bin'[k] \in 0..(WordBase - 1)
    <3>1. CASE k = 0
      BY <1>2, <1>4, <1>8, <3>1, Constants
    <3>2. CASE k # 0
      <4>1. k \in (0 + 1)..(Words - 1)
        BY <3>2
      <4>2. bin[k] < WordBase
        BY <1>1, <4>1 DEF Inv, Carrying
      <4>3. bin'[k] = bin[k] /\ bin[k] \in Nat
        BY <1>1, <1>2, <3>2, Constants
      <4> QED  BY <4>2, <4>3, Constants
    <3> QED  BY <3>1, <3>2
  <2>3. ASSUME NEW b \in 0..(Bytes - 1) PROVE dst'[b] \in 0..(ByteBase - 1)
    <3>1. b \div WordBytes \in 0..(Words - 1) /\ b % WordBytes \in 0..(WordBytes - 1)
      BY BytePlace
    <3>2. bin'[b \div WordBytes] \in Nat
      BY <2>2, <3>1, Constants
    <3>3. Digit(bin'[b \div WordBytes], b % WordBytes, WordBytes, ByteBase) \in 0..(ByteBase - 1)
      BY <3>1, <3>2, DigitRange, Constants
    <3> QED  BY <2>1, <3>3
  <2>4. dst' \in [0..(Bytes - 1) -> 0..(ByteBase - 1) \cup {Old}]
    BY <2>1, <2>3
  <2>5. Value(bin', Words, WordBase) = Value(dst', Bytes, ByteBase)
    <3>1. ASSUME NEW k \in 0..(Words - 1)
          PROVE  bin'[k] = Value([b \in 0..(WordBytes - 1) |-> dst'[k * WordBytes + b]], WordBytes, ByteBase)
      <4> DEFINE f == [b \in 0..(WordBytes - 1) |-> dst'[k * WordBytes + b]]
      <4>1. ASSUME NEW c \in 0..(WordBytes - 1) PROVE f[c] = Digit(bin'[k], c, WordBytes, ByteBase)
        <5> DEFINE b == k * WordBytes + c
        <5>1. b \in 0..(Bytes - 1) /\ b \div WordBytes = k /\ b % WordBytes = c
          BY WordPlace
        <5>2. f[c] = dst'[b]
          OBVIOUS
        <5> HIDE DEF b, f
        <5> QED  BY <2>1, <5>1, <5>2
      <4> HIDE DEF f
      <4>2. Value(f, WordBytes, ByteBase) = bin'[k]
        BY <2>2, <4>1, WordValue
      <4> QED  BY <4>2 DEF f
    <3>2. \A b \in 0..(Bytes - 1) : dst'[b] \in Int
      BY <2>3, Constants
    <3> QED  BY <3>1, <3>2, BytesValue
  <2>6. Validating'
    <3>1. \A k \in 0..(Bytes - 1) : dst'[k] \in Int
      BY <2>3, Constants
    <3> QED  BY <1>3, <1>5, <2>5, <3>1 DEF Validating
  <2>7. Typed'
    <3>1. carry' \in 0..(Wrap - 1)
      BY <1>1, Constants
    <3> QED  BY <1>1, <1>3, <1>4, <2>1, <2>4, <3>1 DEF Inv, Typed
  <2>8. Loaded'
    BY <1>1, <1>2, <1>3, <2>1 DEF Inv, Loaded
  <2> QED  BY <2>1, <2>6, <2>7, <2>8
           DEF Inv, Fresh, Reading, Summing, Carrying, Overflowing, OutcomeExact
<1> QED  BY <1>7, <1>8

\* A byte that was written is a byte.
LEMMA WrittenByte ==
    ASSUME NEW d \in [0..(Bytes - 1) -> 0..(ByteBase - 1) \cup {Old}],
           NEW b \in 0..(Bytes - 1), d[b] \in Int
    PROVE  d[b] \in 0..(ByteBase - 1)
BY RadixAssumption

\* One word of the fused chain: the low half of its column, the high half of the one
\* behind and the flag make a word and a flag, and its own high half waits.
LEMMA FusedCarryStepStep == ASSUME Inv, FusedCarryStep PROVE Inv'
<1> DEFINE s == low(bin[i]) + above + carry
           g == [k \in 0..(Words - 1) |-> IF k > i - 1 THEN word(k)' ELSE bin[k]]
<1>1. /\ pc = "carry" /\ fused /\ dst' = PutWord(dst, i, low(s)) /\ carry' = high(s)
      /\ i' = IF i = 0 THEN 0 ELSE i - 1
      /\ pc' = IF i = 0 THEN "overflow" ELSE "carry"
      /\ UNCHANGED <<encoded, useAVX2, pos, bad, im, row, bin, err>>
  BY DEF FusedCarryStep
<1>2. /\ i \in 0..(Words - 1) /\ bin \in [0..(Words - 1) -> 0..(Wrap - 1)] /\ carry \in Nat /\ carry <= 1
      /\ row = Limbs /\ dst \in [0..(Bytes - 1) -> 0..(ByteBase - 1) \cup {Old}]
      /\ \A k \in 0..(Bytes - 1) : k \div WordBytes > i => dst[k] \in Int
      /\ Value(mixed, Words, WordBase) + (carry + above) * Weight(i) = StringValue
  <2>1. carry \in Nat
    BY Constants DEF Inv, Typed
  <2> QED  BY <1>1, <2>1 DEF Inv, Typed, Carrying
<1>3. /\ n' = n /\ AllValid' = AllValid /\ \A j : limb(j)' = limb(j)
      /\ StringValue' = StringValue /\ fused' = fused /\ Verdict' = Verdict
  BY <1>1, SameString, SamePath
<1>4. /\ low(bin[i]) \in 0..(WordBase - 1) /\ high(bin[i]) \in Nat
      /\ bin[i] = high(bin[i]) * WordBase + low(bin[i])
  BY <1>2, Halves
<1>5. above \in 0..(WordBase - 1)
  <2>1. CASE i = Words - 1
    BY <2>1, Constants DEF above
  <2>2. CASE i # Words - 1
    <3>1. i + 1 \in 0..(Words - 1)
      BY <1>2, <2>2, Constants
    <3>2. high(bin[i + 1]) \in Nat /\ high(bin[i + 1]) <= WordBase - 1
      BY <1>2, <3>1, Halves
    <3> QED  BY <2>2, <3>2, Constants DEF above
  <2> QED  BY <2>1, <2>2
<1>6. s \in Nat /\ s < 2 * WordBase
  <2>1. low(bin[i]) \in 0..(WordBase - 1) /\ above \in 0..(WordBase - 1) /\ carry \in 0..1
    BY <1>2, <1>4, <1>5
  <2>2. WordBase \in Nat
    BY Constants
  <2> QED  BY <2>1, <2>2
<1> HIDE DEF s
<1>7. low(s) \in 0..(WordBase - 1) /\ high(s) \in Nat /\ s = high(s) * WordBase + low(s)
  <2>1. s \in Int /\ WordBase \in Nat \ {0}
    BY <1>6, Constants
  <2> QED  BY <1>6, <2>1, DivMod, DivNat DEF low, high
<1>8. high(s) <= 1
  <2> DEFINE h == high(s)
  <2>1. h \in Int /\ WordBase * h = h * WordBase /\ h * WordBase <= s /\ WordBase * 2 = 2 * WordBase /\ h * WordBase \in Int
    BY <1>6, <1>7, Constants
  <2> HIDE DEF h
  <2>2. WordBase * h < WordBase * 2
    BY <1>6, <2>1, Constants
  <2>3. h < 2
    BY <2>1, <2>2, Constants, Multiples
  <2> QED  BY <2>1, <2>3 DEF h
<1>9. /\ dst' \in [0..(Bytes - 1) -> 0..(ByteBase - 1) \cup {Old}]
      /\ \A b \in 0..(Bytes - 1) : IF b \div WordBytes = i THEN dst'[b] \in Int ELSE dst'[b] = dst[b]
      /\ \A c \in 0..(WordBytes - 1) :
           dst'[i * WordBytes + c] = Digit(low(s), c, WordBytes, ByteBase)
      /\ \A j \in 0..(Words - 1), c \in 0..(WordBytes - 1) :
           j # i => dst'[j * WordBytes + c] = dst[j * WordBytes + c]
  <2> DEFINE x == low(s)
             d == PutWord(dst, i, x)
  <2>1. /\ x \in 0..(WordBase - 1) /\ i \in 0..(Words - 1)
        /\ dst \in [0..(Bytes - 1) -> 0..(ByteBase - 1) \cup {Old}]
    BY <1>2, <1>7
  <2> HIDE DEF x
  <2>2. /\ d \in [0..(Bytes - 1) -> 0..(ByteBase - 1) \cup {Old}]
        /\ \A b \in 0..(Bytes - 1) : IF b \div WordBytes = i THEN d[b] \in Int ELSE d[b] = dst[b]
        /\ \A c \in 0..(WordBytes - 1) : d[i * WordBytes + c] = Digit(x, c, WordBytes, ByteBase)
        /\ \A j \in 0..(Words - 1), c \in 0..(WordBytes - 1) :
             j # i => d[j * WordBytes + c] = dst[j * WordBytes + c]
    BY <2>1, PutWordFacts
  <2>3. dst' = d
    BY <1>1 DEF x
  <2> HIDE DEF d
  <2> QED  BY <2>2, <2>3 DEF x
<1>10. \A b \in 0..(Bytes - 1) : b \div WordBytes > i - 1 => dst'[b] \in Int
  <2> SUFFICES ASSUME NEW b \in 0..(Bytes - 1), b \div WordBytes > i - 1 PROVE dst'[b] \in Int
    OBVIOUS
  <2>1. b \div WordBytes \in 0..(Words - 1)
    BY BytePlace
  <2>2. b \div WordBytes = i \/ b \div WordBytes > i
    BY <1>2, <2>1
  <2> QED  BY <1>2, <1>9, <2>2
<1>11. ASSUME NEW k \in 0..(Words - 1)
       PROVE  /\ k = i => word(k)' = low(s)
              /\ k > i => word(k)' = word(k) /\ word(k) \in Int
  <2> DEFINE f == [b \in 0..(WordBytes - 1) |-> dst'[k * WordBytes + b]]
             e == [b \in 0..(WordBytes - 1) |-> dst[k * WordBytes + b]]
  <2>1. word(k)' = Value(f, WordBytes, ByteBase) /\ word(k) = Value(e, WordBytes, ByteBase)
    BY DEF word
  <2>2. ASSUME k = i PROVE Value(f, WordBytes, ByteBase) = low(s)
    <3>1. \A c \in 0..(WordBytes - 1) : f[c] = Digit(low(s), c, WordBytes, ByteBase)
      BY <1>9, <2>2
    <3> HIDE DEF f
    <3> QED  BY <1>7, <3>1, WordValue
  <2>3. ASSUME k > i
        PROVE  /\ Value(f, WordBytes, ByteBase) = Value(e, WordBytes, ByteBase)
               /\ Value(e, WordBytes, ByteBase) \in Int
    <3>1. ASSUME NEW c \in 0..(WordBytes - 1) PROVE f[c] = e[c] /\ e[c] \in Int
      <4>1. k # i
        BY <1>2, <2>3
      <4>2. dst'[k * WordBytes + c] = dst[k * WordBytes + c]
        BY <1>9, <4>1
      <4>3. k * WordBytes + c \in 0..(Bytes - 1) /\ (k * WordBytes + c) \div WordBytes = k
        BY WordPlace
      <4>4. dst[k * WordBytes + c] \in Int
        BY <1>2, <2>3, <4>3
      <4> QED  BY <4>2, <4>4
    <3>2. WordBytes \in Nat /\ ByteBase \in Int
      BY Constants
    <3> HIDE DEF e, f
    <3> QED  BY <3>1, <3>2, ValueEqual, ValueInt
  <2> QED  BY <2>1, <2>2, <2>3
<1>12. Value(g, Words, WordBase) = Value(mixed, Words, WordBase) + (low(s) - bin[i]) * Weight(i)
       /\ Value(mixed, Words, WordBase) \in Int
  <2>1. ASSUME NEW k \in 0..(Words - 1)
        PROVE  /\ mixed[k] \in Int
               /\ k # i => g[k] = mixed[k]
               /\ k = i => g[k] = low(s) /\ mixed[k] = bin[k]
    <3>1. /\ mixed[k] = IF k > i THEN word(k) ELSE bin[k]
          /\ g[k] = IF k > i - 1 THEN word(k)' ELSE bin[k]
      BY DEF mixed
    <3>2. bin[k] \in Int
      BY <1>2, Constants
    <3>3. i \in Int /\ k \in Int
      BY <1>2
    <3>4. (k > i - 1 <=> k = i \/ k > i) /\ ~(i > i)
      BY <3>3
    <3> QED  BY <1>11, <3>1, <3>2, <3>4
  <2> HIDE DEF g
  <2>2. \A k \in 0..(Words - 1) : mixed[k] \in Int
    BY <2>1
  <2>3. \A k \in 0..(Words - 1) : k # i => g[k] = mixed[k]
    BY <2>1
  <2>4. g[i] = low(s) /\ mixed[i] = bin[i] /\ g[i] \in Int
    <3>1. \A k \in 0..(Words - 1) : k = i => g[k] = low(s) /\ mixed[k] = bin[k]
      BY <2>1
    <3>2. i \in 0..(Words - 1) /\ low(s) \in Int
      BY <1>2, <1>7, Constants
    <3> QED  BY <3>1, <3>2
  <2>5. i \in 0..(Words - 1) /\ Words \in Nat /\ WordBase \in Int /\ g[i] \in Int
    BY <1>2, <2>4, Constants
  <2>6. Value(g, Words, WordBase)
          = Value(mixed, Words, WordBase) + (g[i] - mixed[i]) * Pow(WordBase, Words - 1 - i)
    BY <2>2, <2>3, <2>5, ValueChange
  <2>7. Value(mixed, Words, WordBase) \in Int
    BY <2>2, <2>5, ValueInt
  <2> QED  BY <2>4, <2>6, <2>7 DEF Weight
<1> HIDE DEF g
<1>13. Value(g, Words, WordBase) + (high(s) + high(bin[i])) * Pow(WordBase, Words - i) = StringValue
  <2> DEFINE w == Weight(i)
             G == Value(g, Words, WordBase)
             M == Value(mixed, Words, WordBase)
             hs == high(s)
             ls == low(s)
             hb == high(bin[i])
             lb == low(bin[i])
             x == bin[i]
             W == WordBase
  <2>1. w \in Int /\ Pow(WordBase, Words - i) = w * W
    BY <1>2, WeightFacts
  <2>2. G = M + (ls - x) * w /\ M \in Int
    BY <1>12
  <2>3. M + (carry + above) * w = StringValue
    BY <1>2
  <2>4. s = hs * W + ls /\ x = hb * W + lb /\ s = lb + above + carry
    BY <1>4, <1>7 DEF s
  <2>5. hs \in Int /\ ls \in Int /\ hb \in Int /\ lb \in Int /\ W \in Int /\ above \in Int /\ carry \in Int /\ x \in Int
    BY <1>2, <1>4, <1>5, <1>7, Constants
  <2> HIDE DEF w, G, M, hs, ls, hb, lb, x, W
  <2>6. G + (hs + hb) * (w * W) = StringValue
    <3>1. hs * W \in Int /\ hb * W \in Int
      BY <2>5
    <3>2. ls - x + (hs * W + hb * W) = carry + above
      BY <2>4, <2>5, <3>1
    <3>3. (ls - x) * w + (hs + hb) * (w * W) = (ls - x + (hs * W + hb * W)) * w
      BY <2>1, <2>5
    <3>4. (ls - x) * w \in Int /\ (hs + hb) * (w * W) \in Int
      BY <2>1, <2>5
    <3> QED  BY <2>2, <2>3, <3>2, <3>3, <3>4
  <2>7. G + (hs + hb) * Pow(WordBase, Words - i) = StringValue
    BY <2>1, <2>6
  <2> QED  BY <2>7 DEF G, hs, hb, x
<1>14. Typed'
  <2>1. i' \in 0..(Words - 1)
    BY <1>1, <1>2, Constants
  <2>2. carry' \in 0..(Wrap - 1)
    <3>1. 1 <= Wrap - 1
      BY Constants, LengthAssumption
    <3> QED  BY <1>1, <1>7, <1>8, <3>1, Constants
  <2>3. pc' \in {"start", "chars", "matmul", "carry", "overflow", "validate", "done"}
    BY <1>1
  <2> QED  BY <1>1, <1>3, <1>9, <2>1, <2>2, <2>3 DEF Inv, Typed
<1>15. Loaded'
  BY <1>1, <1>3 DEF Inv, Loaded
<1>16. CASE i # 0
  <2>1. i' = i - 1 /\ pc' = "carry" /\ i >= 1 /\ i' + 1 = i
    BY <1>1, <1>2, <1>16
  <2>2. Value(mixed, Words, WordBase)' = Value(g, Words, WordBase)
    <3>1. mixed' = g
      BY <1>1, <2>1 DEF mixed, g
    <3> QED  BY <3>1
  <2>3. above' = high(bin[i])
    <3>1. i' # Words - 1
      BY <1>2, <2>1
    <3> QED  BY <1>1, <2>1, <3>1 DEF above, high
  <2>4. Weight(i)' = Pow(WordBase, Words - i)
    <3>1. Words - 1 - i' = Words - i
      BY <1>2, <2>1, Constants
    <3> QED  BY <3>1 DEF Weight
  <2>5. Value(mixed, Words, WordBase)' + (carry' + above') * Weight(i)' = StringValue'
    BY <1>1, <1>3, <1>13, <2>2, <2>3, <2>4
  <2>6. \A k \in 0..(Bytes - 1) : k \div WordBytes > i' => dst'[k] \in Int
    BY <1>10, <2>1
  <2>7. Carrying'
    BY <1>1, <1>2, <1>3, <1>8, <2>5, <2>6 DEF Carrying
  <2> QED  BY <1>14, <1>15, <2>1, <2>7
           DEF Inv, Fresh, Reading, Summing, Overflowing, Validating, OutcomeExact
<1>17. CASE i = 0
  <2>1. pc' = "overflow"
    BY <1>1, <1>17
  <2>2. \A k \in 0..(Bytes - 1) : dst'[k] \in Int
    <3> SUFFICES ASSUME NEW k \in 0..(Bytes - 1) PROVE dst'[k] \in Int
      OBVIOUS
    <3>1. k \div WordBytes \in 0..(Words - 1)
      BY BytePlace
    <3>2. k \div WordBytes > i - 1
      BY <1>17, <3>1, Constants
    <3> QED  BY <1>10, <3>2
  <2>3. Value(g, Words, WordBase) = Value(dst', Bytes, ByteBase)
    <3>1. ASSUME NEW k \in 0..(Words - 1)
          PROVE  g[k] = Value([b \in 0..(WordBytes - 1) |-> dst'[k * WordBytes + b]], WordBytes, ByteBase)
      <4>1. k > i - 1
        BY <1>17, Constants
      <4> QED  BY <4>1 DEF g, word
    <3> QED  BY <2>2, <3>1, BytesValue
  <2>4. Words - i = Words
    BY <1>17, Constants
  <2>5. Value(dst, Bytes, ByteBase)' + (high(bin[0])' + carry') * Pow(WordBase, Words) = StringValue'
    <3>1. high(bin[0])' = high(bin[i])
      BY <1>1, <1>17 DEF high
    <3>2. carry' = high(s) /\ high(bin[i]) + carry' = high(s) + high(bin[i])
      BY <1>1, <1>4, <1>7
    <3> QED  BY <1>3, <1>13, <2>3, <2>4, <3>1, <3>2
  <2>6. Overflowing'
    BY <1>1, <1>3, <1>8, <2>2, <2>5 DEF Overflowing
  <2> QED  BY <1>14, <1>15, <2>1, <2>6
           DEF Inv, Fresh, Reading, Summing, Carrying, Validating, OutcomeExact
<1> QED  BY <1>16, <1>17

\* The overflow test looks at 32 bits, and these are all there is: a string of Raw
\* digits is worth less than one word more than the result has.
LEMMA FusedOverflowStep == ASSUME Inv, FusedOverflow PROVE Inv'
<1> DEFINE x == high(bin[0]) + carry
           P == Pow(WordBase, Words)
           D == Value(dst, Bytes, ByteBase)
<1>1. /\ pc = "overflow" /\ UNCHANGED <<encoded, useAVX2, pos, bad, im, row, bin, i, carry, dst>>
      /\ IF low(x) # 0 THEN Return("ErrValueTooLarge") ELSE pc' = "validate" /\ UNCHANGED err
  BY DEF FusedOverflow
<1>2. /\ encoded \in Inputs /\ n \in 1..Raw /\ AllValid /\ carry \in Nat
      /\ \A j \in 0..(Limbs - 1) : im[j] = limb(j)
      /\ bin \in [0..(Words - 1) -> 0..(Wrap - 1)]
      /\ \A k \in 0..(Bytes - 1) : dst[k] \in Int
      /\ dst \in [0..(Bytes - 1) -> 0..(ByteBase - 1) \cup {Old}]
      /\ D + x * P = StringValue
  <2>1. carry \in Nat
    BY Constants DEF Inv, Typed
  <2> QED  BY <1>1, <2>1 DEF Inv, Typed, Loaded, Overflowing
<1>3. n' = n /\ AllValid' = AllValid /\ StringValue' = StringValue /\ Verdict' = Verdict
      /\ \A j : limb(j)' = limb(j)
  BY <1>1, SameString
<1>4. StringValue \in Nat /\ StringValue < Pow(WordBase, Words + 1)
  <2>1. n <= Raw
    BY <1>2, Sizes
  <2>2. StringValue \in Nat /\ Value(im, Limbs, R1div) = StringValue
    BY <1>2, <2>1, LimbsValue
  <2>3. \A j \in 0..(Limbs - 1) : im[j] \in 0..(R1div - 1)
    BY <1>2, <2>1, LimbFacts
  <2>4. Value(im, Limbs, R1div) \in 0..(Pow(R1div, Limbs) - 1)
    BY <2>3, ValueBound, Constants
  <2>5. Pow(R1div, Limbs) \in Int /\ Pow(WordBase, Words + 1) \in Int
    BY PowInt, Constants
  <2>6. Pow(R1div, Limbs) <= Pow(WordBase, Words + 1)
    BY LengthAssumption
  <2> QED  BY <2>2, <2>4, <2>5, <2>6
<1>5. P \in Nat \ {0} /\ Pow(WordBase, Words + 1) = P * WordBase
  BY PowPos, PowStep, Constants
<1>6. x \in Nat
  <2>1. 0 \in 0..(Words - 1)
    BY Constants
  <2>2. high(bin[0]) \in Nat
    BY <1>2, <2>1, Halves
  <2> QED  BY <1>2, <2>2
<1>7. D \in Nat
  <2>1. \A k \in 0..(Bytes - 1) : dst[k] \in 0..(ByteBase - 1)
    BY <1>2, WrittenByte
  <2>2. \A k \in 0..(Bytes - 1) : dst[k] \in Nat
    BY <2>1, Constants
  <2> QED  BY <2>2, ValueNat, Constants, Sizes
<1>8. (Value(dst, Bytes, ByteBase))' = D
  BY <1>1
<1> HIDE DEF x, P, D
<1>9. low(x) = x
  <2>1. x * P <= StringValue /\ x * P \in Int /\ P * x = x * P
    BY <1>2, <1>4, <1>5, <1>6, <1>7
  <2>2. P * x < P * WordBase
    <3> DEFINE y == P * x
               z == P * WordBase
    <3>1. y <= StringValue /\ StringValue < z /\ y \in Int /\ z \in Int
      BY <1>4, <1>5, <2>1, Constants
    <3> HIDE DEF y, z
    <3>2. y < z
      BY <1>4, <3>1
    <3> QED  BY <3>2 DEF y, z
  <2>3. x < WordBase
    <3>1. x \in Int /\ WordBase \in Int
      BY <1>6, Constants
    <3> QED  BY <1>5, <2>2, <3>1, Multiples
  <2> QED  BY <1>6, <2>3, DivNat, Constants DEF low
<1>10. CASE x # 0
  <2>1. pc' = "done" /\ err' = "ErrValueTooLarge"
    BY <1>1, <1>9, <1>10 DEF Return
  <2>2. StringValue >= P
    <3>1. x - 1 \in Nat
      BY <1>6, <1>10
    <3>2. (x - 1) * P \in Nat /\ x * P = (x - 1) * P + P
      BY <1>5, <1>6, <3>1
    <3> QED  BY <1>2, <1>5, <1>7, <3>2
  <2>3. Verdict = "ErrValueTooLarge"
    BY <1>2, <2>2, TooLarge DEF P
  <2>4. OutcomeExact'
    BY <1>3, <2>1, <2>3 DEF OutcomeExact
  <2>5. Typed'
    BY <1>1, <1>3, <2>1 DEF Inv, Typed
  <2> QED  BY <2>1, <2>4, <2>5
           DEF Inv, Fresh, Reading, Loaded, Summing, Carrying, Overflowing, Validating
<1>11. CASE x = 0
  <2>1. pc' = "validate" /\ err' = err
    BY <1>1, <1>9, <1>11
  <2>2. D = StringValue
    <3>1. x * P = 0
      BY <1>5, <1>11
    <3> QED  BY <1>2, <1>7, <3>1
  <2>3. Validating'
    BY <1>1, <1>2, <1>3, <1>8, <2>2 DEF Validating
  <2>4. Typed'
    BY <1>1, <1>3, <2>1 DEF Inv, Typed
  <2>5. Loaded'
    BY <1>1, <1>2, <1>3, <2>1 DEF Loaded
  <2> QED  BY <2>1, <2>3, <2>4, <2>5
           DEF Inv, Fresh, Reading, Summing, Carrying, Overflowing, OutcomeExact
<1> QED  BY <1>10, <1>11

\* The bytes are those of the value, so counting their zeros decides; the fused
\* kernels skip the count only where both counts are zero.
LEMMA ValidateStep == ASSUME Inv, Validate PROVE Inv'
<1>1. /\ pc = "validate" /\ pc' = "done"
      /\ err' = IF fused /\ encoded[1] # base58Chars[0] /\ dst[0] # 0 THEN "nil" ELSE validateLeadingZeros
      /\ UNCHANGED <<encoded, useAVX2, pos, bad, im, row, bin, i, carry, dst>>
  BY DEF Validate, Return
<1>2. /\ encoded \in Inputs /\ n \in 1..Raw /\ AllValid
      /\ \A k \in 0..(Bytes - 1) : dst[k] \in Int
      /\ dst \in [0..(Bytes - 1) -> 0..(ByteBase - 1) \cup {Old}]
      /\ Value(dst, Bytes, ByteBase) = StringValue
  BY <1>1 DEF Inv, Typed, Loaded, Validating
<1>3. n' = n /\ Verdict' = Verdict /\ ValueAsBytes' = ValueAsBytes
  BY <1>1, SameString
<1>4. \A k \in 0..(Bytes - 1) : dst[k] \in 0..(ByteBase - 1)
  BY <1>2, WrittenByte
<1>5. dst = ValueAsBytes
  <2>1. \A k \in 0..(Bytes - 1) : dst[k] = Digit(Value(dst, Bytes, ByteBase), k, Bytes, ByteBase)
    BY <1>4, DigitsUnique, Constants, Sizes
  <2>2. \A k \in 0..(Bytes - 1) : dst[k] = ValueAsBytes[k]
    BY <1>2, <2>1 DEF ValueAsBytes
  <2> QED  BY <1>2, <2>2 DEF ValueAsBytes
<1>6. StringValue < Pow(WordBase, Words)
  <2>1. Value(dst, Bytes, ByteBase) \in 0..(Pow(ByteBase, Bytes) - 1)
    BY <1>4, ValueBound, Constants, Sizes
  <2>2. Pow(Pow(ByteBase, WordBytes), Words) = Pow(ByteBase, Words * WordBytes)
    BY PowPow, Constants
  <2>3. Pow(ByteBase, Bytes) = Pow(WordBase, Words) /\ Pow(ByteBase, Bytes) \in Int
    BY <2>2, PowInt, Constants, Sizes DEF WordBase, Bytes
  <2> QED  BY <1>2, <2>1, <2>3
<1>7. Verdict = IF inLeading1s # outLeading0s THEN "ErrLeadingZeros" ELSE "nil"
  BY <1>2, <1>5, <1>6, TooLarge DEF outLeading0s
<1>8. encoded[1] # base58Chars[0] /\ dst[0] # 0 => inLeading1s = 0 /\ outLeading0s = 0
  <2> SUFFICES ASSUME encoded[1] # base58Chars[0], dst[0] # 0
               PROVE  inLeading1s = 0 /\ outLeading0s = 0
    OBVIOUS
  <2>1. outLeading0s = 0
    <3>1. Bytes \in Nat /\ 0 \in 0..Bytes
      BY Sizes
    <3> QED  BY <3>1, LeadingZerosUnique DEF outLeading0s
  <2>2. inLeading1s = 0
    <3> DEFINE f == [k \in 0..(n - 1) |-> encoded[k + 1]]
    <3>1. n \in Nat /\ 0 \in 0..n /\ 0 \in 0..(n - 1) /\ 0 + 1 = 1
      BY <1>2, Sizes
    <3>2. f[0] # base58Chars[0]
      BY <3>1
    <3> HIDE DEF f
    <3>3. LeadingZeros(f, n, base58Chars[0]) = 0
      BY <3>1, <3>2, LeadingZerosUnique
    <3> QED  BY <3>3 DEF f, inLeading1s
  <2> QED  BY <2>1, <2>2
<1>9. err' = Verdict
  BY <1>1, <1>7, <1>8 DEF validateLeadingZeros
<1>10. OutcomeExact'
  BY <1>1, <1>3, <1>5, <1>9 DEF OutcomeExact
<1>11. Typed'
  <2>1. err' \in {"nil", "ErrLeadingZeros"}
    BY <1>1 DEF validateLeadingZeros
  <2> QED  BY <1>1, <1>3, <2>1 DEF Inv, Typed
<1> QED  BY <1>1, <1>10, <1>11
         DEF Inv, Fresh, Reading, Loaded, Summing, Carrying, Overflowing, Validating

-----------------------------------------------------------------------------
(* Encodings *)

\* The zero characters in front do not count.
LEMMA SkipOnes ==
    ASSUME encoded \in Inputs, AllValid, NEW z \in 0..n,
           \A k \in 1..z : encoded[k] = base58Chars[0],
           NEW d, \A k \in 0..(n - z - 1) : d[k] = DigitOf(encoded[z + 1 + k], base58Chars)
    PROVE  Value(d, n - z, Base) = StringValue
<1>0. n \in Nat
  BY StringFacts
<1>1. ASSUME NEW k \in 0..(n - 1)
      PROVE  /\ Digits[k] = DigitOf(encoded[k + 1], base58Chars) /\ Digits[k] \in Int
             /\ k < z => Digits[k] = 0
  <2>1. k + 1 \in 1..n
    BY <1>0
  <2>2. IsChar(encoded[k + 1])
    BY <2>1 DEF AllValid
  <2>3. Digits[k] = DigitOf(encoded[k + 1], base58Chars)
    BY DEF Digits
  <2>4. DigitOf(encoded[k + 1], base58Chars) \in Int
    BY <2>2, DigitFacts, Constants
  <2>5. k < z => k + 1 \in 1..z
    BY <1>0
  <2>6. k < z => encoded[k + 1] = base58Chars[0]
    BY <2>5
  <2>7. encoded[k + 1] = base58Chars[0] => DigitOf(encoded[k + 1], base58Chars) = 0
    BY <2>2, ZeroDigit
  <2> QED  BY <2>3, <2>4, <2>6, <2>7
<1>2. ASSUME NEW k \in 0..(n - z - 1) PROVE d[k] = Digits[z + k]
  <2>1. z + k \in 0..(n - 1) /\ (z + k) + 1 = z + 1 + k
    BY <1>0
  <2>2. Digits[z + k] = DigitOf(encoded[(z + k) + 1], base58Chars)
    BY <1>1, <2>1
  <2> QED  BY <2>1, <2>2
<1>3. \A k \in 0..(n - 1) : Digits[k] \in Int
  BY <1>1
<1>4. \A k \in 0..(z - 1) : Digits[k] = 0
  <2> SUFFICES ASSUME NEW k \in 0..(z - 1) PROVE Digits[k] = 0
    OBVIOUS
  <2>1. k \in 0..(n - 1) /\ k < z
    BY <1>0
  <2> QED  BY <1>1, <2>1
<1>5. Base \in Int /\ n \in Nat /\ z \in 0..n
  BY <1>0, Constants
<1>6. Value(d, n - z, Base) = Value(Digits, n, Base)
  BY <1>2, <1>3, <1>4, <1>5, ValueSkip
<1> QED  BY <1>6 DEF StringValue

\* The range of the result, in bytes and in words.
LEMMA Range == Pow(ByteBase, Bytes) = Pow(WordBase, Words) /\ Pow(WordBase, Words) \in Nat \ {0}
<1>1. Pow(Pow(ByteBase, WordBytes), Words) = Pow(ByteBase, Words * WordBytes)
  BY PowPow, Constants
<1> QED  BY <1>1, PowPos, Constants, Sizes DEF WordBase, Bytes

\* Zero bytes in front leave less for the others.
LEMMA ZerosBound ==
    ASSUME NEW b \in [0..(Bytes - 1) -> 0..(ByteBase - 1)], NEW z \in 0..Bytes,
           \A k \in 0..(z - 1) : b[k] = 0
    PROVE  Value(b, Bytes, ByteBase) \in 0..(Pow(ByteBase, Bytes - z) - 1)
<1> DEFINE g == [k \in 0..(Bytes - z - 1) |-> b[z + k]]
<1>1. Bytes \in Nat /\ Bytes - z \in Nat /\ ByteBase \in Nat \ {0} /\ ByteBase \in Int
  BY Sizes, Constants
<1>2. ASSUME NEW k \in 0..(Bytes - z - 1) PROVE g[k] = b[z + k] /\ g[k] \in 0..(ByteBase - 1)
  <2>1. z + k \in 0..(Bytes - 1)
    BY <1>1
  <2> QED  BY <2>1
<1> HIDE DEF g
<1>3. Value(g, Bytes - z, ByteBase) = Value(b, Bytes, ByteBase)
  <2>1. \A k \in 0..(Bytes - 1) : b[k] \in Int
    BY Constants
  <2>2. \A k \in 0..(Bytes - z - 1) : g[k] = b[z + k]
    BY <1>2
  <2>3. \A k \in 0..(z - 1) : b[k] = 0
    OBVIOUS
  <2>4. ByteBase \in Int /\ Bytes \in Nat /\ z \in 0..Bytes
    BY <1>1
  <2> QED  BY <2>1, <2>2, <2>3, <2>4, ValueSkip
<1>4. Value(g, Bytes - z, ByteBase) \in 0..(Pow(ByteBase, Bytes - z) - 1)
  BY <1>1, <1>2, ValueBound
<1> QED  BY <1>3, <1>4

\* An encoding of Bytes bytes has at least one character and at most Raw.
LEMMA EncodingLength ==
    ASSUME NEW b \in [0..(Bytes - 1) -> 0..(ByteBase - 1)], NEW m \in Nat, NEW d, NEW z \in 0..Bytes,
           \A k \in 0..(z - 1) : b[k] = 0, z < Bytes => b[z] # 0,
           \A k \in 0..(m - 1) : d[k] \in 0..(Base - 1), m > 0 => d[0] >= 1,
           Value(d, m, Base) = Value(b, Bytes, ByteBase)
    PROVE  z + m \in 1..Raw
<1>1. Bytes \in Nat \ {0} /\ Raw \in Nat /\ z \in Nat /\ Bytes - z \in Nat /\ z + (Bytes - z) = Bytes
  BY Sizes
<1>2. z + m >= 1
  <2> SUFFICES ASSUME z + m < 1 PROVE FALSE
    BY <1>1
  <2>1. z = 0 /\ m = 0
    BY <1>1
  <2>2. Value(d, m, Base) = 0
    BY <2>1, ValueZero, Constants
  <2>3. b[0] >= 1 /\ \A k \in 0..(Bytes - 1) : b[k] \in 0..(ByteBase - 1)
    <3>1. 0 \in 0..(Bytes - 1) /\ b[0] # 0
      BY <1>1, <2>1
    <3> QED  BY <3>1, Constants
  <2>4. Pow(ByteBase, Bytes - 1) <= Value(b, Bytes, ByteBase)
    BY <1>1, <2>3, ValueLower, Constants
  <2>5. Pow(ByteBase, Bytes - 1) \in Nat \ {0}
    <3>1. Bytes - 1 \in Nat
      BY <1>1
    <3> QED  BY <3>1, PowPos, Constants
  <2> QED  BY <2>2, <2>4, <2>5
<1>3. Pow(ByteBase, Bytes) < Pow(Base, Raw)
  <2>1. Pow(Pow(Base, LimbDigits), Limbs) = Pow(Base, Limbs * LimbDigits)
    BY PowPow, Constants
  <2>2. Pow(R1div, Limbs) = Pow(Base, Raw)
    BY <2>1 DEF R1div, Raw
  <2>3. Pow(WordBase, Words) < Pow(R1div, Limbs)
    BY LengthAssumption
  <2> QED  BY <2>2, <2>3, Range
<1>4. \A e \in Nat : Pow(Base, e) \in Nat \ {0} /\ Pow(ByteBase, e) \in Nat \ {0} /\ Pow(Base, e) <= Pow(ByteBase, e)
  <2>1. Base \in Nat /\ ByteBase \in Nat /\ Base <= ByteBase
    BY Constants, RadixAssumption
  <2> QED  BY <2>1, PowPos, PowBase, Constants
<1>5. ASSUME NEW e \in Nat, Pow(Base, e) <= Pow(ByteBase, Bytes) PROVE e < Raw
  <2>1. Pow(Base, e) < Pow(Base, Raw)
    <3>1. Pow(Base, e) \in Int /\ Pow(Base, Raw) \in Int /\ Pow(ByteBase, Bytes) \in Int
      <4>1. Raw \in Nat /\ Bytes \in Nat /\ e \in Nat
        BY <1>1, <1>5
      <4>2. \A x \in Nat \ {0} : x \in Int
        OBVIOUS
      <4>3. Pow(Base, e) \in Nat \ {0}
        BY <4>1, <1>4
      <4>4. Pow(Base, Raw) \in Nat \ {0}
        BY <4>1, <1>4
      <4>5. Pow(ByteBase, Bytes) \in Nat \ {0}
        BY <4>1, <1>4
      <4> QED  BY <4>2, <4>3, <4>4, <4>5
    <3> QED  BY <1>3, <1>5, <3>1
  <2>2. Base \in Nat \ {0, 1}
    BY Constants
  <2> QED  BY <1>1, <2>1, <2>2, PowOrder
<1>6. CASE m = 0
  <2>1. Pow(Base, z) <= Pow(ByteBase, Bytes)
    <3>1. z \in Nat /\ Bytes \in Nat /\ z <= Bytes /\ ByteBase \in Nat \ {0}
      BY <1>1, Constants
    <3>2. Pow(Base, z) <= Pow(ByteBase, z)
      BY <1>4, <3>1
    <3>3. Pow(ByteBase, z) <= Pow(ByteBase, Bytes)
      BY <3>1, PowMonotone
    <3>4. Pow(Base, z) \in Nat \ {0} /\ Pow(ByteBase, z) \in Nat \ {0}
      BY <1>4, <3>1
    <3>5. Pow(ByteBase, Bytes) \in Nat \ {0}
      BY <1>4, <3>1
    <3> QED  BY <3>2, <3>3, <3>4, <3>5
  <2> QED  BY <1>1, <1>2, <1>5, <1>6, <2>1
<1>7. CASE m # 0
  <2> DEFINE p == Pow(Base, z)
             q == Pow(ByteBase, z)
             x == Pow(Base, m - 1)
             y == Pow(ByteBase, Bytes - z)
  <2>1. m - 1 \in Nat /\ m \in Nat \ {0} /\ z + (m - 1) \in Nat
    BY <1>1, <1>7
  <2>2. p \in Nat /\ q \in Nat /\ x \in Nat /\ y \in Nat /\ p <= q
    BY <1>1, <1>4, <2>1
  <2>3. x <= Value(d, m, Base)
    <3>1. \A k \in 0..(m - 1) : d[k] \in 0..(Base - 1)
      OBVIOUS
    <3>2. d[0] >= 1 /\ Base \in Nat \ {0} /\ m \in Nat \ {0}
      BY <2>1, Constants
    <3> QED  BY <3>1, <3>2, ValueLower
  <2>4. Value(b, Bytes, ByteBase) \in 0..(y - 1)
    BY ZerosBound
  <2>5. Pow(Base, z + (m - 1)) = p * x /\ Pow(ByteBase, z + (Bytes - z)) = q * y
    <3>1. Pow(Base, z + (m - 1)) = p * x
      BY <1>1, <2>1, PowAdd, Constants
    <3>2. Pow(ByteBase, z + (Bytes - z)) = q * y
      BY <1>1, PowAdd, Constants
    <3> QED  BY <3>1, <3>2
  <2> HIDE DEF p, q, x, y
  <2>6. x <= y
    BY <2>2, <2>3, <2>4
  <2>7. p * x <= q * y
    <3>1. (q - p) * x >= 0 /\ (q - p) * x = q * x - p * x
      BY <2>2
    <3>2. q * (y - x) >= 0 /\ q * (y - x) = q * y - q * x
      BY <2>2, <2>6
    <3>3. p * x \in Int /\ q * x \in Int /\ q * y \in Int
      BY <2>2
    <3> QED  BY <3>1, <3>2, <3>3
  <2>8. Pow(Base, z + (m - 1)) <= Pow(ByteBase, Bytes)
    BY <1>1, <2>5, <2>7
  <2>9. z + (m - 1) < Raw
    BY <1>5, <2>1, <2>8
  <2> QED  BY <1>1, <1>2, <2>1, <2>9
<1> QED  BY <1>6, <1>7

\* The verdict on an encoding, and its value.
LEMMA EncodingVerdict ==
    ASSUME encoded \in Inputs, NEW b \in [0..(Bytes - 1) -> 0..(ByteBase - 1)],
           IsEncoding(encoded, b, Bytes, ByteBase, base58Chars, Base)
    PROVE  Verdict = "nil" /\ ValueAsBytes = b
<1> DEFINE f == [k \in 0..(n - 1) |-> encoded[k + 1]]
           z == LeadingZeros(b, Bytes, 0)
           m == Len(encoded) - z
           d == [k \in 0..(m - 1) |-> DigitOf(encoded[z + 1 + k], base58Chars)]
<1>1. /\ m >= 0
      /\ \A k \in 1..z : encoded[k] = base58Chars[0]
      /\ \A k \in (z + 1)..Len(encoded) : \E x \in 0..(Base - 1) : encoded[k] = base58Chars[x]
      /\ m > 0 => encoded[z + 1] # base58Chars[0]
      /\ Value(d, m, Base) = Value(b, Bytes, ByteBase)
  BY DEF IsEncoding
<1>2. /\ z \in 0..Bytes /\ \A k \in 0..(z - 1) : b[k] = 0
      /\ z < Bytes => b[z] # 0
  BY LeadingZerosDef, Sizes
<1>3. n \in Nat /\ Len(encoded) = n /\ m = n - z
  BY StringFacts DEF n
<1> HIDE DEF z
<1>4. m \in Nat /\ z \in 0..n /\ n - z = m /\ z + m = n /\ z \in Nat
  BY <1>1, <1>2, <1>3, Sizes
<1>5. AllValid
  <2> SUFFICES ASSUME NEW k \in 1..n PROVE IsChar(encoded[k])
    BY DEF AllValid
  <2>1. CASE k <= z
    <3>1. k \in 1..z /\ 0 \in 0..(Base - 1)
      BY <1>4, <2>1, Constants
    <3> QED  BY <1>1, <3>1 DEF IsChar
  <2>2. CASE k > z
    <3>1. k \in (z + 1)..Len(encoded)
      BY <1>3, <1>4, <2>2
    <3> QED  BY <1>1, <3>1 DEF IsChar
  <2> QED  BY <1>4, <2>1, <2>2
<1>6. ASSUME NEW k \in 0..(m - 1)
      PROVE  /\ d[k] = DigitOf(encoded[z + 1 + k], base58Chars) /\ d[k] \in 0..(Base - 1)
             /\ IsChar(encoded[z + 1 + k])
  <2>1. z + 1 + k \in 1..n
    BY <1>4
  <2>2. IsChar(encoded[z + 1 + k])
    BY <1>5, <2>1 DEF AllValid
  <2>3. d[k] = DigitOf(encoded[z + 1 + k], base58Chars)
    OBVIOUS
  <2> QED  BY <2>2, <2>3, DigitFacts
<1>7. m > 0 => d[0] >= 1
  <2> SUFFICES ASSUME m > 0 PROVE d[0] >= 1
    OBVIOUS
  <2>1. 0 \in 0..(m - 1) /\ z + 1 + 0 = z + 1
    BY <1>4
  <2>2. d[0] = DigitOf(encoded[z + 1], base58Chars) /\ d[0] \in 0..(Base - 1) /\ IsChar(encoded[z + 1])
    BY <1>6, <2>1
  <2>3. d[0] # 0
    BY <1>1, <2>2, ZeroDigit
  <2> QED  BY <2>2, <2>3, Constants
<1> HIDE DEF d, m
<1>8. n \in 1..Raw
  <2>1. z + m \in 1..Raw
    BY <1>1, <1>2, <1>4, <1>6, <1>7, EncodingLength
  <2> QED  BY <1>4, <2>1
<1>9. StringValue = Value(b, Bytes, ByteBase)
  <2>1. \A k \in 0..(n - z - 1) : d[k] = DigitOf(encoded[z + 1 + k], base58Chars)
    BY <1>4, <1>6
  <2>2. Value(d, n - z, Base) = StringValue
    BY <1>1, <1>4, <1>5, <2>1, SkipOnes
  <2> QED  BY <1>1, <1>4, <2>2
<1>10. StringValue < Pow(WordBase, Words)
  <2>1. Value(b, Bytes, ByteBase) \in 0..(Pow(ByteBase, Bytes) - 1)
    BY ValueBound, Constants, Sizes
  <2> QED  BY <1>9, <2>1, Range
<1>11. ValueAsBytes = b
  <2>1. \A k \in 0..(Bytes - 1) : b[k] = Digit(Value(b, Bytes, ByteBase), k, Bytes, ByteBase)
    BY DigitsUnique, Constants, Sizes
  <2> QED  BY <1>9, <2>1 DEF ValueAsBytes
<1>12. inLeading1s = z
  <2>1. \A k \in 0..(z - 1) : f[k] = base58Chars[0]
    <3> SUFFICES ASSUME NEW k \in 0..(z - 1) PROVE f[k] = base58Chars[0]
      OBVIOUS
    <3>1. k + 1 \in 1..z /\ k \in 0..(n - 1)
      BY <1>4
    <3> QED  BY <1>1, <3>1
  <2>2. z < n => f[z] # base58Chars[0]
    <3> SUFFICES ASSUME z < n PROVE f[z] # base58Chars[0]
      OBVIOUS
    <3>1. z \in 0..(n - 1) /\ m > 0
      BY <1>4
    <3> QED  BY <1>1, <3>1
  <2>3. inLeading1s = LeadingZeros(f, n, base58Chars[0])
    BY DEF inLeading1s
  <2> HIDE DEF f
  <2> QED  BY <1>3, <1>4, <2>1, <2>2, <2>3, LeadingZerosUnique
<1>13. Verdict = "nil"
  <2>1. inLeading1s = LeadingZeros(ValueAsBytes, Bytes, 0)
    BY <1>11, <1>12 DEF z
  <2> QED  BY <1>5, <1>8, <1>10, <2>1, TooLarge
<1> QED  BY <1>11, <1>13

-----------------------------------------------------------------------------
(* Theorems *)

\* The invariant does not depend on anything but the variables.
LEMMA StutterStep == ASSUME Inv, UNCHANGED vars PROVE Inv'
<1>1. UNCHANGED <<encoded, useAVX2, pc, pos, bad, im, row, bin, i, carry, dst, err>>
  BY DEF vars
<1>2. /\ n' = n /\ padLen' = padLen /\ AllValid' = AllValid /\ \A j : limb(j)' = limb(j)
      /\ StringValue' = StringValue /\ fused' = fused /\ Verdict' = Verdict
      /\ ValueAsBytes' = ValueAsBytes
  BY <1>1, SameString, SamePath
<1>3. Typed' /\ Fresh' /\ Loaded' /\ Validating' /\ OutcomeExact'
  BY <1>1, <1>2 DEF Inv, Typed, Fresh, Loaded, Validating, OutcomeExact
<1>4. Reading'
  BY <1>1, <1>2 DEF Inv, Reading, IsChar
<1>5. Summing' /\ Carrying' /\ Overflowing'
  <2>1. Consumed' = Consumed /\ Weight(i)' = Weight(i) /\ above' = above /\ mixed' = mixed /\ high(bin[0])' = high(bin[0])
    BY <1>1 DEF Consumed, Weight, above, mixed, word, high
  <2>2. \A k \in 0..(Words - 1) : ColumnMax(k, row)' = ColumnMax(k, row) /\ ColumnMax(k, Limbs)' = ColumnMax(k, Limbs)
    BY <1>1 DEF ColumnMax
  <2>3. \A k \in 0..i : ColumnMax(k, Limbs)' = ColumnMax(k, Limbs)
    BY DEF ColumnMax
  <2> QED  BY <1>1, <1>2, <2>1, <2>2, <2>3 DEF Inv, Summing, Carrying, Overflowing
<1> QED  BY <1>3, <1>4, <1>5 DEF Inv

\* The invariant holds in every state of every decoding: on the portable, the
\* assembly and the fused path, for strings of any length and contents.
THEOREM Invariance == Spec => []Inv
<1>1. Init => Inv
  BY InitInv
<1>2. Inv /\ [Next]_vars => Inv'
  <2> SUFFICES ASSUME Inv, [Next]_vars PROVE Inv'
    OBVIOUS
  <2>1. CASE CheckLength    BY <2>1, CheckLengthStep
  <2>2. CASE ReadGroup      BY <2>2, ReadGroupStep
  <2>3. CASE ReadFused      BY <2>3, ReadFusedStep
  <2>4. CASE CheckChars     BY <2>4, CheckCharsStep
  <2>5. CASE MulRow         BY <2>5, MulRowStep
  <2>6. CASE CarryStep      BY <2>6, CarryStepStep
  <2>7. CASE CarryEnd       BY <2>7, CarryEndStep
  <2>8. CASE FusedCarryStep BY <2>8, FusedCarryStepStep
  <2>9. CASE FusedOverflow  BY <2>9, FusedOverflowStep
  <2>10. CASE Validate      BY <2>10, ValidateStep
  <2>11. CASE Terminated \/ UNCHANGED vars
    BY <2>11, StutterStep DEF Terminated
  <2> QED  BY <2>1, <2>2, <2>3, <2>4, <2>5, <2>6, <2>7, <2>8, <2>9, <2>10, <2>11 DEF Next
<1> QED  BY <1>1, <1>2, PTL DEF Spec

\* Variables have their types: columns and carries are uint64 values, loop variables
\* stay in range.
THEOREM TypesAlwaysOK == Spec => []TypeOK
<1>1. Inv => TypeOK
  BY DEF Inv, Typed, TypeOK
<1> QED  BY <1>1, Invariance, PTL

\* Multiplication and carrying lose nothing: the columns of decodeMatMul.., and the words
\* and the carry of decode..Write, are worth exactly the limbs, for all radices.
THEOREM ValueAlwaysPreserved == Spec => []ValuePreserved
<1>1. Inv => ValuePreserved
  <2> SUFFICES ASSUME Inv, pc = "matmul" \/ (pc = "carry" /\ ~fused)
               PROVE  Value(bin, Words, WordBase) + carry * Weight(i) = Consumed
    BY DEF ValuePreserved
  <2>1. i \in 0..(Words - 1) /\ Weight(i) \in Int
    <3>1. i \in 0..(Words - 1)
      BY DEF Inv, Typed
    <3> QED  BY <3>1, WeightFacts
  <2>2. CASE pc = "matmul"
    <3>1. carry = 0 /\ Value(bin, Words, WordBase) = Consumed
      BY <2>2 DEF Inv, Summing
    <3>2. Value(bin, Words, WordBase) \in Int
      <4>1. \A k \in 0..(Words - 1) : bin[k] \in Int
        BY Constants DEF Inv, Typed
      <4> QED  BY <4>1, ValueInt, Constants
    <3>3. carry * Weight(i) = 0
      BY <2>1, <3>1
    <3> QED  BY <3>1, <3>2, <3>3
  <2>3. CASE pc = "carry" /\ ~fused
    <3>1. /\ row = Limbs /\ Value(bin, Words, WordBase) + carry * Weight(i) = StringValue
          /\ encoded \in Inputs /\ n \in 1..Raw /\ AllValid /\ \A j \in 0..(Limbs - 1) : im[j] = limb(j)
      BY <2>3 DEF Inv, Typed, Carrying, Loaded
    <3>2. Consumed = StringValue
      <4> DEFINE f == [j \in 0..(Limbs - 1) |-> IF j < row THEN im[j] ELSE 0]
      <4>1. \A j \in 0..(Limbs - 1) : f[j] = limb(j)
        BY <3>1, Constants
      <4>2. Consumed = Value(f, Limbs, R1div)
        BY DEF Consumed
      <4>3. n <= Raw
        BY <3>1, Sizes
      <4> HIDE DEF f
      <4> QED  BY <3>1, <4>1, <4>2, <4>3, LimbsValue
    <3> QED  BY <3>1, <3>2
  <2> QED  BY <2>2, <2>3
<1> QED  BY <1>1, Invariance, PTL

\* Every path gives every string the same verdict, and an accepted string's bytes are
\* its value: Decode32 and Decode64 with and without the kernels agree.
THEOREM OutcomeAlwaysExact == Spec => []OutcomeExact
<1>1. Inv => OutcomeExact
  BY DEF Inv
<1> QED  BY <1>1, Invariance, PTL

\* What is accepted is THE encoding of the result: one '1' per zero byte, then digits
\* of the value without a leading zero.
THEOREM OnlyEncodingsAccepted == Spec => []AcceptsOnlyEncodings
<1>1. Inv => AcceptsOnlyEncodings
  <2> SUFFICES ASSUME Inv, pc = "done", err = "nil"
               PROVE  IsEncoding(encoded, dst, Bytes, ByteBase, base58Chars, Base)
    BY DEF AcceptsOnlyEncodings
  <2> DEFINE f == [k \in 0..(n - 1) |-> encoded[k + 1]]
             z == LeadingZeros(dst, Bytes, 0)
             m == Len(encoded) - z
             d == [k \in 0..(m - 1) |-> DigitOf(encoded[z + 1 + k], base58Chars)]
  <2>1. Verdict = "nil" /\ dst = ValueAsBytes /\ encoded \in Inputs
    BY DEF Inv, Typed, OutcomeExact
  <2>2. n \in Nat /\ n <= Raw /\ n # 0
    <3>1. ~(n = 0 \/ n > Raw)
      BY <2>1 DEF Verdict
    <3> QED  BY <2>1, <3>1, StringFacts, Sizes
  <2>3. /\ AllValid /\ ~(StringValue >= Pow(WordBase, Words))
        /\ inLeading1s = LeadingZeros(ValueAsBytes, Bytes, 0)
    BY <2>1 DEF Verdict, AllValid
  <2>4. /\ z \in 0..n
        /\ \A k \in 0..(z - 1) : f[k] = base58Chars[0]
        /\ z < n => f[z] # base58Chars[0]
    <3>1. z = LeadingZeros(f, n, base58Chars[0])
      BY <2>1, <2>3 DEF inLeading1s
    <3> HIDE DEF f, z
    <3> QED  BY <2>2, <3>1, LeadingZerosDef
  <2>5. m = n - z /\ m \in Nat
    BY <2>2, <2>4 DEF n
  <2>6. \A k \in 1..z : encoded[k] = base58Chars[0]
    <3> SUFFICES ASSUME NEW k \in 1..z PROVE encoded[k] = base58Chars[0]
      OBVIOUS
    <3> HIDE DEF z
    <3>1. k - 1 \in 0..(z - 1) /\ k - 1 \in 0..(n - 1) /\ (k - 1) + 1 = k
      BY <2>2, <2>4
    <3>2. f[k - 1] = encoded[k]
      BY <3>1
    <3> QED  BY <2>4, <3>1, <3>2
  <2>7. \A k \in (z + 1)..Len(encoded) : \E x \in 0..(Base - 1) : encoded[k] = base58Chars[x]
    <3> HIDE DEF z
    <3> SUFFICES ASSUME NEW k \in (z + 1)..Len(encoded)
                 PROVE  \E x \in 0..(Base - 1) : encoded[k] = base58Chars[x]
      OBVIOUS
    <3>1. k \in 1..n
      BY <2>2, <2>4 DEF n
    <3> QED  BY <2>3, <3>1 DEF AllValid, IsChar
  <2>8. m > 0 => encoded[z + 1] # base58Chars[0]
    <3> HIDE DEF z, m
    <3> SUFFICES ASSUME m > 0 PROVE encoded[z + 1] # base58Chars[0]
      OBVIOUS
    <3>1. z \in 0..(n - 1) /\ z < n
      BY <2>2, <2>4, <2>5
    <3>2. f[z] = encoded[z + 1]
      BY <3>1
    <3> QED  BY <2>4, <3>1, <3>2
  <2>9. Value(d, m, Base) = StringValue
    <3>1. ASSUME NEW k \in 0..(n - z - 1) PROVE d[k] = DigitOf(encoded[z + 1 + k], base58Chars)
      <4>1. k \in 0..(m - 1)
        BY <2>5
      <4> QED  BY <4>1
    <3> HIDE DEF z, d, m
    <3>2. Value(d, n - z, Base) = StringValue
      BY <2>1, <2>3, <2>4, <2>6, <3>1, SkipOnes
    <3> QED  BY <2>5, <3>2
  <2>10. Value(dst, Bytes, ByteBase) = StringValue
    <3>1. StringValue \in Nat
      <4>1. \A j \in 0..(Limbs - 1) : limbs[j] = limb(j)
        BY DEF limbs
      <4> QED  BY <2>1, <2>2, <2>3, <4>1, LimbsValue
    <3>2. StringValue < Pow(ByteBase, Bytes)
      BY <2>3, <3>1, Range
    <3>3. \A k \in 0..(Bytes - 1) : dst[k] = Digit(StringValue, k, Bytes, ByteBase)
      BY <2>1 DEF ValueAsBytes
    <3> QED  BY <3>1, <3>2, <3>3, ValueDigits, Constants, Sizes
  <2>11. /\ m >= 0
         /\ Value(d, m, Base) = Value(dst, Bytes, ByteBase)
    BY <2>5, <2>9, <2>10
  <2> QED  BY <2>6, <2>7, <2>8, <2>11 DEF IsEncoding
<1> QED  BY <1>1, Invariance, PTL

\* Conversely, every encoding is accepted, and decoded to what it encodes: whatever the
\* encoders return for an input, Decode32 and Decode64 return the input.
THEOREM EveryEncodingAccepted ==
    ASSUME NEW b \in [0..(Bytes - 1) -> 0..(ByteBase - 1)]
    PROVE  Spec => [](pc = "done" /\ IsEncoding(encoded, b, Bytes, ByteBase, base58Chars, Base)
                        => err = "nil" /\ dst = b)
<1> DEFINE Accepted == pc = "done" /\ IsEncoding(encoded, b, Bytes, ByteBase, base58Chars, Base)
                         => err = "nil" /\ dst = b
<1>1. Inv => Accepted
  <2> SUFFICES ASSUME Inv, pc = "done", IsEncoding(encoded, b, Bytes, ByteBase, base58Chars, Base)
               PROVE  err = "nil" /\ dst = b
    OBVIOUS
  <2>1. encoded \in Inputs
    BY DEF Inv, Typed
  <2>2. Verdict = "nil" /\ ValueAsBytes = b
    BY <2>1, EncodingVerdict
  <2> QED  BY <2>2 DEF Inv, OutcomeExact
<1> HIDE DEF Accepted
<1>2. Spec => []Accepted
  BY <1>1, Invariance, PTL
<1> QED  BY <1>2 DEF Accepted
=============================================================================
