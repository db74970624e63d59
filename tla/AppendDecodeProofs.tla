------------------------- MODULE AppendDecodeProofs -------------------------
(***************************************************************************)
(* AppendDecode is right for every string, every buffer and all constants  *)
(* that satisfy its assumptions: the result, who owns the array it is in,  *)
(* what is left of the caller's bytes, and that the estimates of sizes are *)
(* no smaller than what they estimate.                                     *)
(*                                                                         *)
(* The limbs are described by the number they make: limb j is digit j, in  *)
(* base LimbBase, of the value of the characters read.  Multiplying by a   *)
(* power of the base and adding a group keeps that (CarryFacts), and bytes *)
(* are digits of digits (ByteAtFacts).  The bytes written are therefore    *)
(* those of the value, whichever way it was computed.                      *)
(***************************************************************************)
EXTENDS AppendDecode, RadixProofs

-----------------------------------------------------------------------------
(* The inductive invariant *)

\* Leading '1's, the value of the string, and how many bytes it decodes to.
Ones  == LeadingZeros([k \in 0..(encLen - 1) |-> encoded[k + 1]], encLen, One)
X     == ValueOf(1, encLen)
Total == IF Ones = encLen THEN Ones ELSE Ones + byteLen(X)

\* Byte k of the result.
Out(k) == IF k < Ones THEN 0 ELSE Digit(X, k - Ones, Total - Ones, ByteBase)

\* The arrays: the caller's is never longer or shorter, nor are his bytes changed.
Shape ==
    /\ mem = [a \in {"dst", "new"} |-> mem[a]]
    /\ DOMAIN mem["dst"] = 0..(in.dst.cap - 1)
    /\ \A x \in 0..(start - 1) : mem["dst"][x] = Kept
    /\ \A a \in {"dst", "new"} : \A x \in DOMAIN mem[a] : mem[a][x] \in Cell
    /\ cur \in [arr : {"dst", "new"}, len : Nat, cap : Nat]
    /\ cur.len <= cur.cap

\* The slice starts with the caller's bytes, and is the caller's array while it fits.
Live ==
    /\ DOMAIN mem[cur.arr] = 0..(cur.cap - 1)
    /\ \A x \in 0..(start - 1) : mem[cur.arr][x] = Kept
    /\ start <= cur.len
    /\ cur.arr = "dst" => cur.cap = in.dst.cap
    /\ cur.arr = "dst" <=> cur.len <= in.dst.cap

\* Nothing was written yet.
Fresh ==
    /\ \A x \in start..(in.dst.cap - 1) : mem["dst"][x] = Dirty
    /\ cur = [arr |-> "dst", len |-> start, cap |-> in.dst.cap]

\* The first m bytes behind the caller's.
Written(m) == \A k \in 0..(m - 1) : mem[cur.arr][start + k] = Out(k)

\* The value of the characters folded in, and its digits.
Folded == ValueOf(zeros + 1, pos)

Folding ==
    /\ pos \in 0..n
    /\ pos = 0 \/ \E q \in 0..n : n - pos = q * GroupChars
    /\ \A k \in 1..(zeros + pos) : IsChar(encoded[k])
    /\ limbs = [j \in 0..(numLimbs - 1) |-> (Folded \div Pow(LimbBase, j)) % LimbBase]
    /\ top \in 0..numLimbs
    /\ Folded < Pow(LimbBase, top)
    /\ top > 0 => Pow(LimbBase, top - 1) <= Folded

Refused(f) == AllChars => Total # Sizes[f]

Final ==
    IF AllChars
    THEN /\ err = "nil" /\ Live /\ cur.len = start + Total /\ Written(Total)
         /\ zeros < encLen => (route = "fixed" <=> \E f \in 1..2 : Total = Sizes[f])
    ELSE err = "ErrInvalidChar"

Typed ==
    /\ in \in Inputs
    /\ pc \in {"begin", "zeros", "fixed1", "fixed2", "variable", "fold", "prefix", "bytes", "done"}
    /\ zeros \in 0..encLen /\ pos \in 0..encLen /\ top \in Nat
    /\ \A j \in DOMAIN limbs : limbs[j] \in 0..(LimbBase - 1)
    /\ route \in {"none", "empty", "zeros", "fixed", "variable", "large"}
    /\ err \in {"none", "nil", "ErrInvalidChar"}

Phase ==
    /\ pc # "begin" => zeros = Ones
    /\ pc # "done" => route = "none" /\ err = "none"
    /\ err = "ErrInvalidChar" => \A x \in start..(in.dst.cap - 1) : mem["dst"][x] = Dirty
    /\ pc \in {"begin", "fixed1", "fixed2", "variable", "fold"} => Fresh
    /\ pc \in {"begin", "fixed1", "fixed2", "variable"} => pos = 0 /\ top = 0
    /\ pc \in {"fixed1", "fixed2", "variable", "fold", "prefix", "bytes"} => zeros < encLen
    /\ pc = "zeros" => zeros = encLen /\ pos <= zeros /\ Live /\ cur.len = start + pos /\ Written(pos)
    /\ pc \in {"fixed2", "variable", "fold", "prefix", "bytes"} => Refused(1)
    /\ pc \in {"variable", "fold", "prefix", "bytes"} => Refused(2)
    /\ pc \in {"fold", "prefix", "bytes"} => Folding
    /\ pc \in {"prefix", "bytes"} => pos = n /\ Live /\ cur.len = start + Total
    /\ pc = "bytes" => Written(zeros)
    /\ pc = "done" => Final

Inv == Typed /\ Shape /\ Phase

-----------------------------------------------------------------------------
(* The constants and the arguments *)

LEMMA Constants ==
    /\ Base \in Nat \ {0, 1} /\ ByteBase \in Nat \ {0, 1} /\ Base <= ByteBase
    /\ Base \in Nat \ {0} /\ ByteBase \in Nat \ {0} /\ Base \in Int /\ ByteBase \in Int
    /\ LimbBytes \in Nat \ {0} /\ GroupChars \in Nat \ {0}
    /\ SizeNum \in Nat \ {0} /\ SizeDen \in Nat \ {0} /\ LargeThreshold \in Nat \ {0}
    /\ GrowBound \in Nat
    /\ LimbBase \in Nat \ {0, 1} /\ LimbBase \in Nat \ {0} /\ LimbBase \in Int
<1>1. /\ Base \in Nat \ {0} /\ ByteBase \in Nat \ {0} /\ LimbBytes \in Nat \ {0}
      /\ GroupChars \in Nat \ {0} /\ SizeNum \in Nat \ {0} /\ SizeDen \in Nat \ {0}
      /\ LargeThreshold \in Nat \ {0} /\ Base > 1 /\ ByteBase >= Base /\ GrowBound \in Nat
  BY SizesAssumption
<1>2. ByteBase \in Nat \ {0, 1} /\ LimbBytes \in Nat
  BY <1>1
<1>3. LimbBytes < LimbBase
  BY <1>2, PowExponent DEF LimbBase
<1>4. LimbBase \in Nat \ {0}
  BY <1>1, <1>2, PowPos DEF LimbBase
<1> QED  BY <1>1, <1>2, <1>3, <1>4

LEMMA InputFacts ==
    ASSUME in \in Inputs
    PROVE  /\ encoded \in Seq(STRING) /\ encLen \in Nat
           /\ start \in Nat /\ in.dst.cap \in Nat /\ start <= in.dst.cap
BY InputsAssumption DEF encoded, encLen, start

LEMMA ArraysDistinct == "dst" # "new"
OBVIOUS

-----------------------------------------------------------------------------
(* byteLen *)

\* The number of bytes of x: a number of exactly that many.
LEMMA ByteLenFacts ==
    ASSUME NEW x \in Nat \ {0}
    PROVE  /\ byteLen(x) \in Nat \ {0}
           /\ x < Pow(ByteBase, byteLen(x)) /\ Pow(ByteBase, byteLen(x) - 1) <= x
<1> DEFINE S == {k \in Nat : x < Pow(ByteBase, k)}
<1>1. x \in S
  BY PowExponent, Constants
<1>2. PICK m \in S : \A k \in S : m <= k
  <2>1. S \subseteq Nat /\ S # {}
    BY <1>1
  <2> HIDE DEF S
  <2> QED  BY <2>1, LeastNumber
<1>3. m \in Nat /\ m <= x /\ x < Pow(ByteBase, m)
  BY <1>1, <1>2
<1>4. m # 0
  <2>1. Pow(ByteBase, 0) = 1
    BY PowZero, Constants
  <2> QED  BY <1>3, <2>1
<1>5. m - 1 \in Nat /\ ~(m <= m - 1)
  BY <1>3, <1>4
<1>6. ~(m - 1 \in S)
  BY <1>2, <1>5
<1>7. Pow(ByteBase, m - 1) \in Int
  BY <1>5, PowInt, Constants
<1>8. Pow(ByteBase, m - 1) <= x
  BY <1>5, <1>6, <1>7
<1>9. m \in 1..(x + 1)
  BY <1>3, <1>4
<1> HIDE DEF S
<1>10. /\ byteLen(x) \in 1..(x + 1)
       /\ x < Pow(ByteBase, byteLen(x)) /\ x >= Pow(ByteBase, byteLen(x) - 1)
  <2> DEFINE P(k) == x < Pow(ByteBase, k) /\ x >= Pow(ByteBase, k - 1)
  <2>1. P(m)
    BY <1>3, <1>7, <1>8
  <2> HIDE DEF P
  <2>2. \E k \in 1..(x + 1) : P(k)
    BY <1>9, <2>1
  <2>3. byteLen(x) = CHOOSE k \in 1..(x + 1) : P(k)
    BY DEF byteLen, P
  <2>4. byteLen(x) \in 1..(x + 1) /\ P(byteLen(x))
    BY <2>2, <2>3, Zenon
  <2> QED  BY <2>4 DEF P
<1>11. Pow(ByteBase, byteLen(x) - 1) \in Int
  <2>1. byteLen(x) - 1 \in Nat
    BY <1>10
  <2> QED  BY <2>1, PowInt, Constants
<1> QED  BY <1>10, <1>11

\* How byteLen compares with m follows from how x compares with the powers.
LEMMA ByteLenBounds ==
    ASSUME NEW x \in Nat \ {0}, NEW m \in Nat
    PROVE  /\ x < Pow(ByteBase, m) => byteLen(x) <= m
           /\ Pow(ByteBase, m) <= x => m < byteLen(x)
<1> DEFINE b == byteLen(x)
           c == b - 1
<1>1. b \in Nat /\ c \in Nat /\ x < Pow(ByteBase, b) /\ Pow(ByteBase, c) <= x
  BY ByteLenFacts
<1> HIDE DEF b, c
<1>2. Pow(ByteBase, b) \in Int /\ Pow(ByteBase, c) \in Int
  BY <1>1, PowInt, Constants
<1>3. Pow(ByteBase, m) \in Int
  BY PowInt, Constants
<1>4. ASSUME x < Pow(ByteBase, m) PROVE b <= m
  <2>1. Pow(ByteBase, c) < Pow(ByteBase, m)
    BY <1>1, <1>2, <1>3, <1>4
  <2>2. c < m
    BY <1>1, <2>1, PowOrder, Constants
  <2> QED  BY <1>1, <2>2 DEF c
<1>5. ASSUME Pow(ByteBase, m) <= x PROVE m < b
  <2>1. Pow(ByteBase, m) < Pow(ByteBase, b)
    BY <1>1, <1>2, <1>3, <1>5
  <2> QED  BY <1>1, <2>1, PowOrder, Constants
<1> QED  BY <1>4, <1>5 DEF b

\* x has m bytes.
LEMMA ByteLenIs ==
    ASSUME NEW x \in Nat \ {0}, NEW m \in Nat, Pow(ByteBase, m) <= x, x < Pow(ByteBase, m + 1)
    PROVE  byteLen(x) = m + 1
<1>1. m + 1 \in Nat /\ byteLen(x) \in Nat
  BY ByteLenFacts
<1>2. byteLen(x) <= m + 1
  BY <1>1, ByteLenBounds
<1>3. m < byteLen(x)
  BY ByteLenBounds
<1> QED  BY <1>1, <1>2, <1>3

-----------------------------------------------------------------------------
(* The string *)

\* The digit of a character; that of '1', and only that, is zero.
LEMMA CharFacts ==
    ASSUME NEW c, IsChar(c)
    PROVE  /\ DigitOf(c, base58Chars) \in 0..(Base - 1)
           /\ c = One => DigitOf(c, base58Chars) = 0
           /\ c # One => DigitOf(c, base58Chars) >= 1
<1>1. DOMAIN base58Chars = 0..(Base - 1) /\ 0 \in 0..(Base - 1)
  BY SizesAssumption, Constants
<1>2. DigitOf(c, base58Chars) \in 0..(Base - 1) /\ base58Chars[DigitOf(c, base58Chars)] = c
  BY <1>1 DEF IsChar, DigitOf
<1>3. c = One => DigitOf(c, base58Chars) = 0
  BY <1>1, <1>2, SizesAssumption DEF One
<1>4. c # One => DigitOf(c, base58Chars) # 0
  BY <1>2 DEF One
<1>5. \A d \in 0..(Base - 1) : d # 0 => d >= 1
  BY Constants
<1> QED  BY <1>2, <1>3, <1>4, <1>5

LEMMA OneIsChar == IsChar(One)
<1>1. 0 \in 0..(Base - 1)
  BY Constants
<1> QED  BY <1>1 DEF IsChar, One

LEMMA OnesFacts ==
    ASSUME in \in Inputs
    PROVE  /\ Ones \in 0..encLen /\ Ones \in Nat
           /\ \A k \in 1..Ones : encoded[k] = One /\ IsChar(encoded[k])
           /\ Ones < encLen => encoded[Ones + 1] # One
<1> DEFINE f == [k \in 0..(encLen - 1) |-> encoded[k + 1]]
<1>1. encLen \in Nat
  BY InputFacts
<1>2. Ones = LeadingZeros(f, encLen, One)
  BY DEF Ones
<1> HIDE DEF f
<1>3. Ones \in 0..encLen /\ (\A k \in 0..(Ones - 1) : f[k] = One) /\ (Ones < encLen => f[Ones] # One)
  BY <1>1, <1>2, LeadingZerosDef
<1>4. Ones \in Nat
  BY <1>1, <1>3
<1>5. ASSUME NEW k \in 1..Ones PROVE encoded[k] = One
  <2>1. k - 1 \in 0..(Ones - 1) /\ k - 1 \in 0..(encLen - 1) /\ (k - 1) + 1 = k
    BY <1>1, <1>3, <1>4
  <2>2. f[k - 1] = encoded[(k - 1) + 1]
    BY <2>1 DEF f
  <2> QED  BY <1>3, <2>1, <2>2
<1>6. Ones < encLen => encoded[Ones + 1] # One
  <2> SUFFICES ASSUME Ones < encLen PROVE encoded[Ones + 1] # One
    OBVIOUS
  <2>1. Ones \in 0..(encLen - 1)
    BY <1>1, <1>3
  <2> QED  BY <1>3, <2>1 DEF f
<1> QED  BY <1>3, <1>4, <1>5, <1>6, OneIsChar

-----------------------------------------------------------------------------
(* The value of a run of characters *)

Valid(from, count) == \A k \in from..(from + count - 1) : IsChar(encoded[k])

\* Its digits.
LEMMA RunDigits ==
    ASSUME NEW from \in Nat, NEW count \in Nat, Valid(from, count), NEW k \in 0..(count - 1)
    PROVE  DigitOf(encoded[from + k], base58Chars) \in 0..(Base - 1)
<1>1. from + k \in from..(from + count - 1)
  OBVIOUS
<1>2. IsChar(encoded[from + k])
  BY <1>1 DEF Valid
<1> QED  BY <1>2, CharFacts

LEMMA ValueOfBound ==
    ASSUME NEW from \in Nat, NEW count \in Nat, Valid(from, count)
    PROVE  ValueOf(from, count) \in 0..(Pow(Base, count) - 1) /\ ValueOf(from, count) \in Nat
<1> DEFINE f == [k \in 0..(count - 1) |-> DigitOf(encoded[from + k], base58Chars)]
<1>1. \A k \in 0..(count - 1) : f[k] \in 0..(Base - 1)
  BY RunDigits
<1>2. ValueOf(from, count) = Value(f, count, Base)
  BY DEF ValueOf
<1> HIDE DEF f
<1>3. Base \in Nat \ {0}
  BY Constants
<1>4. Value(f, count, Base) \in 0..(Pow(Base, count) - 1)
  BY <1>1, <1>3, ValueBound
<1> QED  BY <1>2, <1>4

LEMMA ValueOfLower ==
    ASSUME NEW from \in Nat, NEW count \in Nat \ {0}, Valid(from, count), encoded[from] # One
    PROVE  Pow(Base, count - 1) <= ValueOf(from, count) /\ ValueOf(from, count) \in Nat \ {0}
<1> DEFINE f == [k \in 0..(count - 1) |-> DigitOf(encoded[from + k], base58Chars)]
<1>1. \A k \in 0..(count - 1) : f[k] \in 0..(Base - 1)
  BY RunDigits
<1>2. f[0] >= 1
  <2>1. 0 \in 0..(count - 1) /\ from + 0 = from /\ from \in from..(from + count - 1)
    OBVIOUS
  <2>2. IsChar(encoded[from])
    BY <2>1 DEF Valid
  <2>3. DigitOf(encoded[from], base58Chars) >= 1
    BY <2>2, CharFacts
  <2> QED  BY <2>1, <2>3
<1>3. ValueOf(from, count) = Value(f, count, Base)
  BY DEF ValueOf
<1> HIDE DEF f
<1>4. Base \in Nat \ {0} /\ count \in Nat \ {0}
  BY Constants
<1>5. Pow(Base, count - 1) <= Value(f, count, Base)
  BY <1>1, <1>2, <1>4, ValueLower
<1>6. Pow(Base, count - 1) \in Nat \ {0}
  <2>1. count - 1 \in Nat
    OBVIOUS
  <2> QED  BY <1>4, <2>1, PowPos
<1>7. ValueOf(from, count) \in Nat
  BY ValueOfBound
<1> QED  BY <1>3, <1>5, <1>6, <1>7

LEMMA ValueOfJoin ==
    ASSUME NEW from \in Nat, NEW a \in Nat, NEW b \in Nat, Valid(from, a + b)
    PROVE  ValueOf(from, a + b) = ValueOf(from, a) * Pow(Base, b) + ValueOf(from + a, b)
<1> DEFINE f == [k \in 0..((a + b) - 1) |-> DigitOf(encoded[from + k], base58Chars)]
           g == [k \in 0..(a - 1) |-> DigitOf(encoded[from + k], base58Chars)]
           h == [k \in 0..(b - 1) |-> DigitOf(encoded[(from + a) + k], base58Chars)]
<1>1. \A k \in 0..(a + b - 1) : f[k] \in Int
  <2> SUFFICES ASSUME NEW k \in 0..(a + b - 1) PROVE f[k] \in Int
    OBVIOUS
  <2>1. k \in 0..((a + b) - 1) /\ a + b \in Nat
    OBVIOUS
  <2>2. DigitOf(encoded[from + k], base58Chars) \in 0..(Base - 1)
    BY <2>1, RunDigits
  <2> QED  BY <2>1, <2>2, Constants
<1>2. \A k \in 0..(b - 1) : h[k] = f[a + k]
  <2> SUFFICES ASSUME NEW k \in 0..(b - 1) PROVE h[k] = f[a + k]
    OBVIOUS
  <2>1. a + k \in 0..((a + b) - 1) /\ from + (a + k) = (from + a) + k
    OBVIOUS
  <2> QED  BY <2>1
<1>3. \A k \in 0..(a - 1) : f[k] \in Int /\ g[k] = f[k]
  <2> SUFFICES ASSUME NEW k \in 0..(a - 1) PROVE f[k] \in Int /\ g[k] = f[k]
    OBVIOUS
  <2>1. k \in 0..((a + b) - 1) /\ k \in 0..(a + b - 1)
    OBVIOUS
  <2> QED  BY <1>1, <2>1
<1>4. /\ ValueOf(from, a + b) = Value(f, a + b, Base) /\ ValueOf(from, a) = Value(g, a, Base)
      /\ ValueOf(from + a, b) = Value(h, b, Base)
  BY DEF ValueOf
<1> HIDE DEF f, g, h
<1>5. Base \in Int
  BY Constants
<1>6. Value(f, a + b, Base) = Value(f, a, Base) * Pow(Base, b) + Value(h, b, Base)
  BY <1>1, <1>2, <1>5, ValueJoin
<1>7. Value(g, a, Base) = Value(f, a, Base)
  BY <1>3, <1>5, ValueEqual
<1> QED  BY <1>4, <1>6, <1>7

LEMMA ValueOfOnes ==
    ASSUME NEW from \in Nat, NEW count \in Nat,
           \A k \in from..(from + count - 1) : encoded[k] = One
    PROVE  ValueOf(from, count) = 0
<1> DEFINE f == [k \in 0..(count - 1) |-> DigitOf(encoded[from + k], base58Chars)]
<1>1. ASSUME NEW k \in 0..(count - 1) PROVE f[k] = 0
  <2>1. from + k \in from..(from + count - 1)
    OBVIOUS
  <2>2. DigitOf(encoded[from + k], base58Chars) = 0
    BY <2>1, OneIsChar, CharFacts
  <2> QED  BY <2>2
<1>2. ValueOf(from, count) = Value(f, count, Base)
  BY DEF ValueOf
<1> HIDE DEF f
<1>3. Base \in Int
  BY Constants
<1> QED  BY <1>1, <1>2, <1>3, ValueZeros

\* The ones in front do not count.
LEMMA WholeValue ==
    ASSUME in \in Inputs, AllChars
    PROVE  /\ X = ValueOf(Ones + 1, encLen - Ones) /\ X \in Nat
           /\ X < Pow(Base, encLen - Ones)
           /\ Ones < encLen => X \in Nat \ {0} /\ Pow(Base, (encLen - Ones) - 1) <= X
<1> DEFINE m == encLen - Ones
<1>1. encLen \in Nat /\ Ones \in Nat /\ m \in Nat /\ Ones + m = encLen
  BY InputFacts, OnesFacts
<1>2. Valid(1, encLen) /\ Valid(1, Ones + m) /\ Valid(Ones + 1, m)
  BY <1>1 DEF Valid, AllChars
<1>3. \A k \in 1..(1 + Ones - 1) : encoded[k] = One
  BY <1>1, OnesFacts
<1>4. Ones < encLen => m \in Nat \ {0} /\ encoded[Ones + 1] # One
  BY <1>1, OnesFacts
<1> HIDE DEF m
<1>5. ValueOf(1, Ones + m) = ValueOf(1, Ones) * Pow(Base, m) + ValueOf(1 + Ones, m)
  BY <1>1, <1>2, ValueOfJoin
<1>6. ValueOf(1, Ones) = 0
  BY <1>1, <1>3, ValueOfOnes
<1>7. 1 + Ones = Ones + 1 /\ Ones + 1 \in Nat
  BY <1>1
<1>8. ValueOf(Ones + 1, m) \in 0..(Pow(Base, m) - 1) /\ ValueOf(Ones + 1, m) \in Nat
  BY <1>1, <1>2, <1>7, ValueOfBound
<1>9. Pow(Base, m) \in Int
  BY <1>1, PowInt, Constants
<1>10. X = ValueOf(Ones + 1, m)
  <2>1. 0 * Pow(Base, m) = 0
    BY <1>9
  <2> QED  BY <1>1, <1>5, <1>6, <1>7, <1>8, <2>1 DEF X
<1>11. Ones < encLen => ValueOf(Ones + 1, m) \in Nat \ {0} /\ Pow(Base, m - 1) <= ValueOf(Ones + 1, m)
  BY <1>2, <1>4, <1>7, ValueOfLower
<1> QED  BY <1>8, <1>9, <1>10, <1>11 DEF m

-----------------------------------------------------------------------------
(* The result *)

LEMMA TotalFacts ==
    ASSUME in \in Inputs, AllChars
    PROVE  /\ Total \in Nat /\ Ones <= Total
           /\ Ones < encLen => /\ Total - Ones = byteLen(X) /\ byteLen(X) \in Nat \ {0}
                               /\ X < Pow(ByteBase, Total - Ones)
           /\ ~(Ones < encLen) => Total = Ones
<1>1. Ones \in Nat /\ encLen \in Nat /\ Ones <= encLen
  BY InputFacts, OnesFacts
<1>2. CASE Ones < encLen
  <2>1. X \in Nat \ {0}
    BY <1>2, WholeValue
  <2>2. byteLen(X) \in Nat \ {0} /\ X < Pow(ByteBase, byteLen(X))
    BY <2>1, ByteLenFacts
  <2>3. Total = Ones + byteLen(X)
    BY <1>1, <1>2 DEF Total
  <2>4. Total - Ones = byteLen(X) /\ Total \in Nat /\ Ones <= Total
    BY <1>1, <2>2, <2>3
  <2> QED  BY <1>2, <2>2, <2>4
<1>3. CASE ~(Ones < encLen)
  BY <1>1, <1>3 DEF Total
<1> QED  BY <1>2, <1>3

\* Every byte of the result is one.
LEMMA OutFacts ==
    ASSUME in \in Inputs, AllChars, NEW k \in 0..(Total - 1)
    PROVE  Out(k) \in 0..(ByteBase - 1)
<1>1. Total \in Nat /\ Ones \in Nat /\ Ones <= Total /\ X \in Nat /\ ByteBase \in Nat \ {0}
  BY TotalFacts, OnesFacts, WholeValue, Constants
<1>2. CASE k < Ones
  BY <1>1, <1>2 DEF Out
<1>3. CASE ~(k < Ones)
  <2>1. Total - Ones \in Nat /\ k - Ones \in 0..(Total - Ones - 1)
    BY <1>1, <1>3
  <2>2. Digit(X, k - Ones, Total - Ones, ByteBase) \in 0..(ByteBase - 1)
    BY <1>1, <2>1, DigitRange
  <2> QED  BY <1>3, <2>2 DEF Out
<1> QED  BY <1>2, <1>3

LEMMA FunctionIsSeq ==
    ASSUME NEW m \in Nat, NEW S, NEW f \in [1..m -> S]
    PROVE  f \in Seq(S) /\ Len(f) = m
OBVIOUS

LEMMA ConcatFacts ==
    ASSUME NEW S, NEW s \in Seq(S), NEW t \in Seq(S)
    PROVE  Len(s \o t) = Len(s) + Len(t)
OBVIOUS

LEMMA BytesOfFacts ==
    ASSUME NEW x \in Nat, NEW m \in Nat
    PROVE  /\ BytesOf(x, m) \in Seq(0..(ByteBase - 1)) /\ Len(BytesOf(x, m)) = m
           /\ \A k \in 1..m : BytesOf(x, m)[k] = Digit(x, k - 1, m, ByteBase)
<1>1. ASSUME NEW k \in 1..m PROVE Digit(x, k - 1, m, ByteBase) \in 0..(ByteBase - 1)
  <2>1. k - 1 \in 0..(m - 1) /\ ByteBase \in Nat \ {0}
    BY Constants
  <2> QED  BY <2>1, DigitRange
<1>2. BytesOf(x, m) \in [1..m -> 0..(ByteBase - 1)]
  BY <1>1 DEF BytesOf
<1>3. BytesOf(x, m) \in Seq(0..(ByteBase - 1)) /\ Len(BytesOf(x, m)) = m
  BY <1>2, FunctionIsSeq
<1> QED  BY <1>3 DEF BytesOf

\* What the specification of the result and Out say is the same.
LEMMA ExpectedFacts ==
    ASSUME in \in Inputs, AllChars
    PROVE  Len(Expected) = Total /\ \A k \in 1..Total : Expected[k] = Out(k - 1)
<1> DEFINE s == [k \in 1..Ones |-> 0]
           b == BytesOf(X, byteLen(X))
           t == IF Ones = encLen THEN <<>> ELSE b
           d == Total - Ones
<1>1. Ones \in Nat /\ encLen \in Nat /\ Ones <= encLen /\ Total \in Nat /\ Ones <= Total /\ X \in Nat
  BY InputFacts, OnesFacts, TotalFacts, WholeValue
<1>2. Expected = s \o t
  BY DEF Expected, Ones, X
<1>3. s \in Seq(Nat) /\ Len(s) = Ones /\ \A k \in 1..Ones : s[k] = 0
  <2>1. s \in [1..Ones -> Nat]
    OBVIOUS
  <2>2. s \in Seq(Nat)
    BY <1>1, <2>1
  <2> QED  BY <1>1, <2>2
<1>4. t \in Seq(Nat) /\ Len(t) = d /\ \A k \in 1..d : t[k] = Digit(X, k - 1, d, ByteBase)
  <2>1. CASE Ones = encLen
    <3>1. d = 0
      BY <1>1, <2>1, TotalFacts
    <3> QED  BY <2>1, <3>1
  <2>2. CASE Ones # encLen
    <3>1. d = byteLen(X) /\ d \in Nat
      BY <1>1, <2>2, TotalFacts
    <3>2. b \in Seq(0..(ByteBase - 1)) /\ Len(b) = d /\ \A k \in 1..d : b[k] = Digit(X, k - 1, d, ByteBase)
      BY <1>1, <3>1, BytesOfFacts, ZenonT(60)
    <3> HIDE DEF b
    <3>3. b \in Seq(Nat)
      BY <3>2, Constants
    <3> QED  BY <2>2, <3>2, <3>3
  <2> QED  BY <2>1, <2>2
<1> HIDE DEF s, t
<1>5. Len(Expected) = Ones + d
  <2>1. Len(s \o t) = Len(s) + Len(t)
    BY <1>3, <1>4, ConcatFacts
  <2> QED  BY <1>2, <1>3, <1>4, <2>1
<1>6. Len(Expected) = Total
  BY <1>1, <1>5
<1>7. ASSUME NEW k \in 1..Total PROVE Expected[k] = Out(k - 1)
  <2>1. CASE k <= Ones
    <3>1. k \in 1..Ones /\ k - 1 < Ones
      BY <1>1, <2>1
    <3>2. (s \o t)[k] = s[k]
      BY <1>3, <1>4, <3>1
    <3> QED  BY <1>2, <1>3, <3>1, <3>2 DEF Out
  <2>2. CASE ~(k <= Ones)
    <3>1. k - Ones \in 1..d /\ ~(k - 1 < Ones) /\ (k - 1) - Ones = (k - Ones) - 1
      BY <1>1, <2>2
    <3>2. (s \o t)[k] = t[k - Ones]
      BY <1>1, <1>3, <1>4, <2>2, <3>1
    <3> QED  BY <1>2, <1>4, <3>1, <3>2 DEF Out
  <2> QED  BY <2>1, <2>2
<1> QED  BY <1>6, <1>7

-----------------------------------------------------------------------------
(* The estimates *)

\* m characters are worth less than maxBytes bytes can hold.
LEMMA EstimateHolds ==
    ASSUME NEW m \in Nat
    PROVE  /\ ((m * SizeNum) \div SizeDen) + 1 \in Nat
           /\ Pow(Base, m) <= Pow(ByteBase, ((m * SizeNum) \div SizeDen) + 1)
<1> DEFINE y == m * SizeNum
           q == y \div SizeDen
           r == y % SizeDen
           b == q + 1
           c == b * SizeDen
<1>1. y \in Nat
  BY Constants
<1>2. q \in Nat /\ r \in 0..(SizeDen - 1) /\ y = q * SizeDen + r
  <2>1. y \in Int /\ SizeDen \in Nat \ {0}
    BY <1>1, Constants
  <2> HIDE DEF y
  <2> QED  BY <1>1, <2>1, DivMod, DivNat
<1> HIDE DEF q, r, y
<1>3. b \in Nat /\ c \in Nat /\ y <= c
  <2>1. c = q * SizeDen + SizeDen /\ q * SizeDen \in Nat
    BY <1>2, Constants
  <2> QED  BY <1>2, <2>1, Constants
<1> HIDE DEF b, c
<1>4. Base \in Nat /\ Base \in Int /\ ByteBase \in Nat \ {0} /\ ByteBase \in Int
        /\ SizeDen \in Nat \ {0} /\ SizeDen \in Nat /\ SizeNum \in Nat
  BY Constants
<1>5. Pow(Pow(Base, SizeDen), m) = Pow(Base, m * SizeDen)
  BY <1>4, PowPow
<1>6. Pow(Pow(ByteBase, SizeNum), m) = Pow(ByteBase, m * SizeNum)
  BY <1>4, PowPow
<1>7. Pow(Pow(Base, m), SizeDen) = Pow(Base, SizeDen * m)
  BY <1>4, PowPow
<1>8. Pow(Pow(ByteBase, b), SizeDen) = Pow(ByteBase, SizeDen * b)
  BY <1>3, <1>4, PowPow
<1>9. Pow(Base, SizeDen) \in Nat /\ Pow(ByteBase, SizeNum) \in Nat
  BY <1>4, PowPos, Constants
<1>10. Pow(Pow(Base, SizeDen), m) <= Pow(Pow(ByteBase, SizeNum), m)
  BY <1>9, PowBase, EstimateAssumption
<1>11. Pow(ByteBase, y) <= Pow(ByteBase, c)
  BY <1>1, <1>3, <1>4, PowMonotone
<1>12. SizeDen * m = m * SizeDen /\ SizeDen * b = c /\ SizeDen * m \in Nat
  BY <1>3, <1>4 DEF c
<1>13. Pow(Base, SizeDen * m) \in Int /\ Pow(ByteBase, y) \in Int /\ Pow(ByteBase, c) \in Int
  BY <1>1, <1>3, <1>4, <1>12, PowInt
<1>14. Pow(Pow(Base, m), SizeDen) <= Pow(Pow(ByteBase, b), SizeDen)
  BY <1>5, <1>6, <1>7, <1>8, <1>10, <1>11, <1>12, <1>13 DEF y
<1>15. Pow(Base, m) \in Nat /\ Pow(ByteBase, b) \in Nat
  BY <1>3, <1>4, PowPos, Constants
<1>16. Pow(Base, m) <= Pow(ByteBase, b)
  BY <1>4, <1>14, <1>15, PowRoot
<1> QED  BY <1>3, <1>16 DEF b, q, y

\* The limbs can hold the value of all characters.
LEMMA LimbCount ==
    ASSUME n \in Nat
    PROVE  numLimbs \in Nat /\ Pow(Base, n) <= Pow(LimbBase, numLimbs)
<1> DEFINE y == maxBytes + LimbBytes - 1
           q == y \div LimbBytes
           r == y % LimbBytes
           e == q * LimbBytes
<1>1. maxBytes \in Nat /\ Pow(Base, n) <= Pow(ByteBase, maxBytes)
  BY EstimateHolds DEF maxBytes
<1>2. y \in Nat /\ y \in Int
  BY <1>1, Constants
<1>3. q \in Nat /\ r \in 0..(LimbBytes - 1) /\ y = q * LimbBytes + r
  <2> HIDE DEF y
  <2> QED  BY <1>2, DivMod, DivNat, Constants
<1>4. q = numLimbs
  BY DEF numLimbs
<1> HIDE DEF q, r
<1>5. e \in Nat /\ maxBytes <= e
  <2>1. e \in Nat
    BY <1>3, Constants
  <2> QED  BY <1>1, <1>3, <2>1, Constants
<1>6. LimbBytes \in Nat /\ ByteBase \in Int /\ ByteBase \in Nat \ {0}
  BY Constants
<1>7. Pow(LimbBase, q) = Pow(ByteBase, q * LimbBytes)
  BY <1>3, <1>6, PowPow DEF LimbBase
<1>8. Pow(ByteBase, maxBytes) <= Pow(ByteBase, e)
  <2> HIDE DEF e
  <2> QED  BY <1>1, <1>5, <1>6, PowMonotone
<1>9. Pow(Base, n) \in Int /\ Pow(ByteBase, maxBytes) \in Int
  BY <1>1, <1>6, PowInt, Constants
<1>10. Pow(ByteBase, e) \in Int
  <2> HIDE DEF e
  <2> QED  BY <1>5, <1>6, PowInt
<1> QED  BY <1>1, <1>3, <1>4, <1>7, <1>8, <1>9, <1>10

-----------------------------------------------------------------------------
(* The fixed-size attempts *)

\* Decode32 and Decode64 accept what decodes to their size.
LEMMA FixedAcceptsFacts ==
    ASSUME in \in Inputs, zeros = Ones, Ones < encLen, NEW s \in Nat
    PROVE  FixedAccepts(s) <=> AllChars /\ Total = s
<1> SUFFICES ASSUME AllChars
             PROVE  (X < Pow(ByteBase, s) /\ s - byteLen(X) = zeros) <=> Total = s
  BY DEF FixedAccepts, X
<1>1. Total - Ones = byteLen(X) /\ byteLen(X) \in Nat /\ Total \in Nat /\ Ones \in Nat
  BY TotalFacts, OnesFacts
<1>2. s - byteLen(X) = zeros <=> Total = s
  BY <1>1
<1>3. X < Pow(ByteBase, Total)
  <2>1. X \in Nat \ {0} /\ X < Pow(ByteBase, byteLen(X))
    BY WholeValue, ByteLenFacts
  <2>2. byteLen(X) <= Total /\ ByteBase \in Nat \ {0}
    BY <1>1, Constants
  <2>3. Pow(ByteBase, byteLen(X)) <= Pow(ByteBase, Total)
    BY <1>1, <2>2, PowMonotone
  <2>4. Pow(ByteBase, byteLen(X)) \in Int /\ Pow(ByteBase, Total) \in Int
    BY <1>1, PowInt, Constants
  <2> QED  BY <2>1, <2>3, <2>4
<1> QED  BY <1>2, <1>3

\* They are asked about every string that does.
LEMMA PlausibleFacts ==
    ASSUME in \in Inputs, zeros = Ones, Ones < encLen, AllChars, NEW f \in 1..2, Total = Sizes[f]
    PROVE  Plausible(f)
<1> DEFINE k == encLen - zeros
           j == k - 1
           b == byteLen(X)
           c == b - 1
           M == MaxLens[f]
<1>1. /\ encLen \in Nat /\ Ones \in Nat /\ k \in Nat \ {0} /\ k \in Nat /\ j \in Nat /\ Ones + k = encLen
      /\ Total \in Nat /\ b \in Nat \ {0} /\ b \in Nat /\ c \in Nat /\ Total = Ones + b
  <2>1. encLen \in Nat /\ Ones \in Nat
    BY InputFacts, OnesFacts
  <2>2. Total \in Nat /\ Total - Ones = b /\ b \in Nat \ {0}
    BY TotalFacts
  <2> HIDE DEF b
  <2> QED  BY <2>1, <2>2
<1>2. X \in Nat \ {0} /\ X < Pow(Base, k) /\ Pow(Base, j) <= X
  BY WholeValue
<1>3. X < Pow(ByteBase, b) /\ Pow(ByteBase, c) <= X
  BY <1>2, ByteLenFacts
<1> HIDE DEF k, j, b, c
<1>4. \A e \in Nat : /\ Pow(Base, e) \in Nat \ {0} /\ Pow(ByteBase, e) \in Nat \ {0}
                     /\ Pow(Base, e) <= Pow(ByteBase, e)
  <2>1. Base \in Nat /\ ByteBase \in Nat /\ Base <= ByteBase
    BY Constants
  <2> QED  BY <2>1, PowPos, PowBase, Constants
<1>5. b <= k
  <2>1. Pow(Base, k) \in Nat /\ Pow(ByteBase, k) \in Nat /\ Pow(Base, k) <= Pow(ByteBase, k)
    BY <1>1, <1>4
  <2>2. X < Pow(ByteBase, k)
    BY <1>2, <2>1
  <2> QED  BY <1>1, <1>2, <2>2, ByteLenBounds DEF b
<1>6. decMinBytes(k) <= b
  <2> DEFINE x == Pow(Base, j)
  <2>1. x \in Nat \ {0} /\ x <= X
    BY <1>1, <1>2, <1>4
  <2>2. Pow(ByteBase, b) \in Nat
    BY <1>1, <1>4
  <2>3. x < Pow(ByteBase, b)
    BY <1>2, <1>3, <2>1, <2>2
  <2>4. decMinBytes(k) = byteLen(x)
    BY DEF decMinBytes, j
  <2> HIDE DEF x
  <2>5. byteLen(x) <= b
    BY <1>1, <2>1, <2>3, ByteLenBounds
  <2> QED  BY <2>4, <2>5
<1>7. b <= decMaxBytes(k)
  <2> DEFINE x == Pow(Base, k) - 1
  <2>0. Pow(Base, k) \in Nat
    BY <1>1, <1>4
  <2>1. x \in Nat \ {0} /\ X <= x
    BY <1>2, <2>0
  <2>2. Pow(ByteBase, c) \in Nat
    BY <1>1, <1>4
  <2>3. Pow(ByteBase, c) <= x
    BY <1>2, <1>3, <2>1, <2>2
  <2>4. decMaxBytes(k) = byteLen(x)
    BY DEF decMaxBytes
  <2> HIDE DEF x
  <2>5. c < byteLen(x) /\ byteLen(x) \in Nat
    BY <1>1, <2>1, <2>3, ByteLenBounds, ByteLenFacts
  <2> QED  BY <1>1, <2>4, <2>5 DEF c
<1>8. encLen <= M
  <2> DEFINE p == Pow(Base, Ones)
             P == Pow(ByteBase, Ones)
             u == Pow(Base, j)
             v == Pow(ByteBase, b)
  <2>1. p \in Nat /\ P \in Nat \ {0} /\ u \in Nat /\ v \in Nat /\ p <= P /\ u < v
    <3>1. p \in Nat /\ P \in Nat \ {0} /\ p <= P
      BY <1>1, <1>4
    <3>2. u \in Nat /\ v \in Nat
      BY <1>1, <1>4
    <3> QED  BY <1>2, <1>3, <3>1, <3>2
  <2>2. Pow(Base, Ones + j) = p * u
    BY <1>1, PowAdd, Constants
  <2>3. Pow(ByteBase, Ones + b) = P * v
    BY <1>1, PowAdd, Constants
  <2> HIDE DEF p, P, u, v
  <2>4. p * u < P * v
    <3>1. (P - p) * u >= 0 /\ (P - p) * u = P * u - p * u
      BY <2>1
    <3>2. P * (v - u) > 0 /\ P * (v - u) = P * v - P * u
      BY <2>1
    <3>3. p * u \in Int /\ P * u \in Int /\ P * v \in Int
      BY <2>1
    <3> QED  BY <3>1, <3>2, <3>3
  <2>5. Pow(ByteBase, Total) <= Pow(Base, M) /\ M \in Nat
    BY MaxLensAssumption
  <2>6. Pow(Base, M) \in Int /\ p * u \in Int /\ P * v \in Int
    BY <2>1, <2>5, PowInt, Constants
  <2>7. Pow(Base, Ones + j) < Pow(Base, M)
    BY <1>1, <2>2, <2>3, <2>4, <2>5, <2>6
  <2>8. Ones + j \in Nat /\ Base \in Nat \ {0, 1}
    BY <1>1, Constants
  <2>9. Ones + j < M
    BY <2>5, <2>7, <2>8, PowOrder
  <2> QED  BY <1>1, <2>5, <2>9 DEF j
<1>9. encLen >= Sizes[f] /\ Sizes[f] - zeros = b
  BY <1>1, <1>5
<1> QED  BY <1>6, <1>7, <1>8, <1>9 DEF Plausible, k

\* The bytes they give are those of the result.
LEMMA FixedBytes ==
    ASSUME in \in Inputs, AllChars, Ones < encLen
    PROVE  /\ BytesOf(X, Total) \in Seq(0..(ByteBase - 1)) /\ Len(BytesOf(X, Total)) = Total
           /\ \A k \in 0..(Total - 1) : BytesOf(X, Total)[k + 1] = Out(k)
<1>1. /\ Total \in Nat /\ Ones \in Nat /\ Ones <= Total /\ X \in Nat
      /\ X < Pow(ByteBase, Total - Ones)
  BY TotalFacts, OnesFacts, WholeValue
<1>2. /\ BytesOf(X, Total) \in Seq(0..(ByteBase - 1)) /\ Len(BytesOf(X, Total)) = Total
      /\ \A k \in 1..Total : BytesOf(X, Total)[k] = Digit(X, k - 1, Total, ByteBase)
  BY <1>1, BytesOfFacts
<1>3. ASSUME NEW k \in 0..(Total - 1) PROVE BytesOf(X, Total)[k + 1] = Out(k)
  <2>1. k + 1 \in 1..Total /\ (k + 1) - 1 = k
    BY <1>1
  <2>2. BytesOf(X, Total)[k + 1] = Digit(X, k, Total, ByteBase)
    BY <1>2, <2>1
  <2>3. CASE k < Ones
    <3> DEFINE e == Total - 1 - k
               d == Total - Ones
    <3>1. e \in Nat /\ d \in Nat /\ d <= e /\ ByteBase \in Nat \ {0}
      BY <1>1, <2>3, Constants
    <3>2. Digit(X, k, Total, ByteBase) = (X \div Pow(ByteBase, e)) % ByteBase
      BY DEF Digit
    <3>3. X < Pow(ByteBase, d)
      BY <1>1
    <3> HIDE DEF e, d
    <3>4. Pow(ByteBase, d) <= Pow(ByteBase, e)
      BY <3>1, PowMonotone
    <3>5. Pow(ByteBase, d) \in Nat \ {0} /\ Pow(ByteBase, e) \in Nat \ {0}
      BY <3>1, PowPos
    <3>6. X < Pow(ByteBase, e)
      BY <1>1, <3>3, <3>4, <3>5
    <3>7. X \div Pow(ByteBase, e) = 0
      BY <1>1, <3>5, <3>6, DivNat
    <3>8. 0 % ByteBase = 0
      BY <3>1
    <3> QED  BY <2>2, <2>3, <3>2, <3>7, <3>8 DEF Out
  <2>4. CASE ~(k < Ones)
    <3>1. Total - 1 - k = (Total - Ones) - 1 - (k - Ones)
      BY <1>1
    <3>2. Digit(X, k, Total, ByteBase) = Digit(X, k - Ones, Total - Ones, ByteBase)
      BY <3>1 DEF Digit
    <3> QED  BY <2>2, <2>4, <3>2 DEF Out
  <2> QED  BY <2>3, <2>4
<1> QED  BY <1>2, <1>3

-----------------------------------------------------------------------------
(* Folding in a group *)

P58 == Pow(Base, GroupChars)

\* The carry into limb j is what the limbs below it, times 58^20 plus the group, leave
\* above them; none exceeds two words.
LEMMA CarryFacts ==
    ASSUME NEW x \in Nat, NEW g \in Nat, g < LimbBase * LimbBase, top \in Nat,
           \A j \in 0..(top - 1) : limbs[j] = (x \div Pow(LimbBase, j)) % LimbBase
    PROVE  \A j \in 0..top :
             /\ CarryInto(g)[j] = CarryOver(x, P58, g, Pow(LimbBase, j))
             /\ CarryInto(g)[j] \in Nat /\ CarryInto(g)[j] < LimbBase * LimbBase
<1> DEFINE LL == LimbBase * LimbBase
           H(j) == CarryOver(x, P58, g, Pow(LimbBase, j))
           h == [j \in 0..top |-> H(j)]
           Step(f) == [j \in 0..top |->
                         IF j = 0 THEN g
                         ELSE ((limbs[j - 1] * P58 + f[j - 1]) \div LimbBase) % LL]
           c == CarryInto(g)
           S == {j \in Nat : j <= top => c[j] = h[j]}
<1>1. P58 \in Nat /\ P58 < LL /\ LL \in Nat \ {0} /\ LimbBase \in Nat \ {0} /\ LimbBase \in Int
  <2>1. P58 \in Nat
    BY PowPos, Constants DEF P58
  <2> QED  BY <2>1, SizesAssumption, Constants DEF P58
<1>2. ASSUME NEW j \in Nat PROVE Pow(LimbBase, j) \in Nat \ {0}
  BY <1>1, PowPos
<1>3. ASSUME NEW j \in Nat PROVE H(j) \in Nat /\ H(j) < LL
  <2> DEFINE q == Pow(LimbBase, j)
             r == x % q
             y == r * P58 + g
  <2>1. q \in Nat \ {0}
    BY <1>2
  <2>2. r \in 0..(q - 1)
    <3>1. x \in Int
      OBVIOUS
    <3> HIDE DEF q
    <3> QED  BY <2>1, <3>1, DivMod
  <2> HIDE DEF q, r
  <2>3. y \in Nat
    BY <1>1, <2>2
  <2>4. y < LL * q
    <3> HIDE DEF LL
    <3>1. r * P58 <= r * (LL - 1) /\ r * (LL - 1) <= (q - 1) * (LL - 1)
      <4>1. r * (LL - 1 - P58) >= 0 /\ r * (LL - 1 - P58) = r * (LL - 1) - r * P58
        BY <1>1, <2>1, <2>2
      <4>2. (q - 1 - r) * (LL - 1) >= 0 /\ (q - 1 - r) * (LL - 1) = (q - 1) * (LL - 1) - r * (LL - 1)
        BY <1>1, <2>1, <2>2
      <4>3. r * P58 \in Int /\ r * (LL - 1) \in Int /\ (q - 1) * (LL - 1) \in Int
        BY <1>1, <2>1, <2>2
      <4> QED  BY <4>1, <4>2, <4>3
    <3>2. (q - 1) * (LL - 1) = LL * q - q - LL + 1 /\ LL * q \in Int
      BY <1>1, <2>1
    <3>3. r * P58 \in Int /\ r * (LL - 1) \in Int
      BY <1>1, <2>1, <2>2
    <3>4. g < LL
      BY DEF LL
    <3> QED  BY <1>1, <2>1, <3>1, <3>2, <3>3, <3>4
  <2> HIDE DEF y, LL
  <2>5. y \div q \in Nat
    BY <2>1, <2>3, DivNat
  <2>6. ~(LL <= y \div q)
    <3>1. LL \in Int /\ LL * q \in Int
      BY <1>1, <2>1
    <3>2. LL <= y \div q <=> LL * q <= y
      BY <2>1, <2>3, <3>1, DivOrder
    <3> QED  BY <2>3, <2>4, <3>1, <3>2
  <2>7. H(j) = y \div q
    BY DEF y, r, q, CarryOver
  <2> QED  BY <1>1, <2>5, <2>6, <2>7
<1>4. h[0] = g
  <2>1. Pow(LimbBase, 0) = 1
    BY <1>1, PowZero
  <2>2. x % 1 = 0 /\ 0 * P58 + g = g /\ g \div 1 = g
    BY <1>1
  <2> QED  BY <2>1, <2>2 DEF CarryOver
<1>5. ASSUME NEW j \in 0..top, j # 0
      PROVE  h[j] = ((limbs[j - 1] * P58 + h[j - 1]) \div LimbBase) % LL
  <2> DEFINE i == j - 1
             q == Pow(LimbBase, i)
             l == (x \div q) % LimbBase
  <2>1. i \in Nat /\ i \in 0..top /\ i \in 0..(top - 1) /\ j = i + 1 /\ j \in Nat
    BY <1>5
  <2>2. Pow(LimbBase, j) = q * LimbBase /\ q \in Nat \ {0}
    BY <1>1, <1>2, <2>1, PowStep
  <2>3. limbs[i] = l
    BY <2>1
  <2>4. h[i] = CarryOver(x, P58, g, q) /\ h[j] = CarryOver(x, P58, g, q * LimbBase)
    BY <2>1, <2>2
  <2>5. H(j) \in Nat /\ H(j) < LL
    BY <1>3, <2>1
  <2>6. h[j] \in Nat /\ h[j] < LL
    BY <2>5
  <2> HIDE DEF H, h, q, LL
  <2>7. P58 \in Nat /\ LimbBase \in Nat \ {0} /\ q \in Nat \ {0}
    BY <1>1, <2>2
  <2>8. (limbs[i] * P58 + h[i]) \div LimbBase = h[j]
    <3> DEFINE s == limbs[i] * P58 + h[i]
    <3>1. CarryLink(x, P58, g, q, LimbBase, limbs[i], s)
      BY <2>3, <2>4, <2>7 DEF CarryLink
    <3> HIDE DEF s
    <3>2. s \div LimbBase = CarryOver(x, P58, g, q * LimbBase)
      BY <3>1, CarryNext
    <3> QED  BY <2>4, <3>2 DEF s
  <2>9. h[j] % LL = h[j]
    BY <1>1, <2>6, DivNat
  <2> QED  BY <2>8, <2>9
<1>6. h = Step(h)
  <2> DEFINE s == Step(h)
  <2>1. ASSUME NEW j \in 0..top PROVE h[j] = s[j]
    BY <1>4, <1>5
  <2>2. DOMAIN h = 0..top /\ DOMAIN s = 0..top
    OBVIOUS
  <2>3. h = [j \in 0..top |-> h[j]] /\ s = [j \in 0..top |-> s[j]]
    OBVIOUS
  <2> HIDE DEF h, s
  <2>4. h = s
    BY <2>1, <2>3
  <2> QED  BY <2>4 DEF s
<1> HIDE DEF h, H
<1>7. c = CHOOSE f : f = Step(f)
  BY DEF CarryInto, P58
<1> HIDE DEF Step, c
<1>8. c = Step(c)
  BY <1>6, <1>7, Zenon
<1>9. 0 \in S
  BY <1>4, <1>8 DEF Step
<1>10. ASSUME NEW j \in Nat, j \in S PROVE j + 1 \in S
  <2> SUFFICES ASSUME j + 1 <= top PROVE c[j + 1] = h[j + 1]
    OBVIOUS
  <2>1. j + 1 \in 0..top /\ j + 1 # 0 /\ (j + 1) - 1 = j /\ j <= top
    OBVIOUS
  <2>2. c[j + 1] = ((limbs[j] * P58 + c[j]) \div LimbBase) % LL
    BY <1>8, <2>1 DEF Step
  <2>3. h[j + 1] = ((limbs[j] * P58 + h[j]) \div LimbBase) % LL
    BY <1>5, <2>1
  <2>4. c[j] = h[j]
    BY <1>10, <2>1
  <2> QED  BY <2>2, <2>3, <2>4
<1> HIDE DEF S
<1>11. \A j \in Nat : j \in S
  BY <1>9, <1>10, NatInduct
<1>12. ASSUME NEW j \in 0..top PROVE c[j] = H(j) /\ H(j) \in Nat /\ H(j) < LL
  <2>1. j \in Nat /\ j <= top
    OBVIOUS
  <2>2. c[j] = h[j]
    BY <1>11, <2>1 DEF S
  <2> QED  BY <1>3, <2>1, <2>2 DEF h
<1> QED  BY <1>12 DEF c, H

\* Digits above a number are zero.
LEMMA HighDigit ==
    ASSUME NEW y \in Nat, NEW m \in Nat, NEW j \in Nat, y < Pow(LimbBase, m), m <= j
    PROVE  (y \div Pow(LimbBase, j)) % LimbBase = 0
<1>1. LimbBase \in Nat \ {0}
  BY Constants
<1>2. Pow(LimbBase, m) <= Pow(LimbBase, j)
  BY <1>1, PowMonotone
<1>3. Pow(LimbBase, m) \in Nat \ {0} /\ Pow(LimbBase, j) \in Nat \ {0}
  BY <1>1, PowPos
<1>4. y < Pow(LimbBase, j)
  BY <1>2, <1>3
<1>5. y \div Pow(LimbBase, j) = 0
  BY <1>3, <1>4, DivNat
<1>6. 0 % LimbBase = 0
  BY <1>1
<1> QED  BY <1>5, <1>6

\* The last carry is what the product T has above t limbs.
LastCarry(T, t, last, more) ==
    /\ T \in Nat /\ t \in Nat
    /\ last = T \div Pow(LimbBase, t) /\ last < LimbBase * LimbBase
    /\ more = IF last \div LimbBase # 0 THEN 2 ELSE IF last # 0 THEN 1 ELSE 0

\* It takes no, one or two more limbs: exactly those that the product needs.
LEMMA MoreLimbs ==
    ASSUME NEW T, NEW t, NEW last, NEW more, LastCarry(T, t, last, more)
    PROVE  /\ more \in 0..2 /\ T < Pow(LimbBase, t + more)
           /\ more > 0 => Pow(LimbBase, t + more - 1) <= T
<1> DEFINE L == LimbBase
           Q == Pow(LimbBase, t)
           R == L * Q
           U == L * R
<1> USE DEF LastCarry
<1>1. L \in Nat \ {0} /\ L \in Int /\ Q \in Nat \ {0}
  BY PowPos, Constants
<1>2. last \in Nat
  BY <1>1, DivNat
<1>3. Pow(LimbBase, t + 1) = R /\ Pow(LimbBase, t + 2) = U
  <2>1. Pow(LimbBase, t + 1) = Q * L
    BY <1>1, PowStep
  <2>2. t + 1 \in Nat /\ (t + 1) + 1 = t + 2
    OBVIOUS
  <2>3. Pow(LimbBase, t + 2) = Pow(LimbBase, t + 1) * L
    BY <1>1, <2>2, PowStep
  <2> QED  BY <1>1, <2>1, <2>3
<1>4. \A m \in Int : m <= last <=> m * Q <= T
  BY <1>1, DivOrder
<1>5. 1 <= last \div L <=> 1 * L <= last
  BY <1>1, <1>2, DivOrder
<1>6. last \div L \in Nat
  BY <1>1, <1>2, DivNat
<1> DEFINE d == last \div L
           V == L * L
<1>7. /\ V \in Int /\ 1 * Q = Q /\ V * Q = U /\ 1 * L = L /\ R \in Int /\ U \in Int
  BY <1>1
<1>8. (1 <= last <=> Q <= T) /\ (L <= last <=> R <= T) /\ (V <= last <=> U <= T)
  BY <1>1, <1>4, <1>7
<1>9. (1 <= d <=> L <= last) /\ d \in Nat /\ last < V
  BY <1>1, <1>5, <1>6
<1>10. more = IF d # 0 THEN 2 ELSE IF last # 0 THEN 1 ELSE 0
  OBVIOUS
<1> HIDE DEF d, L, Q, R, U, V
<1>11. CASE more = 0
  <2>1. T < Q
    BY <1>1, <1>2, <1>8, <1>9, <1>10, <1>11
  <2>2. t + more = t
    BY <1>11
  <2> QED  BY <1>11, <2>1, <2>2 DEF Q
<1>12. CASE more = 1
  <2>1. last # 0 /\ d = 0
    BY <1>10, <1>12
  <2>2. Q <= T /\ T < R
    BY <1>1, <1>2, <1>7, <1>8, <1>9, <2>1
  <2>3. t + more = t + 1 /\ t + more - 1 = t
    BY <1>12
  <2> QED  BY <1>3, <1>12, <2>2, <2>3 DEF Q
<1>13. CASE more = 2
  <2>1. d # 0
    BY <1>10, <1>13
  <2>2. R <= T /\ T < U
    BY <1>1, <1>2, <1>7, <1>8, <1>9, <2>1
  <2>3. t + more = t + 2 /\ t + more - 1 = t + 1
    BY <1>13
  <2> QED  BY <1>3, <1>13, <2>2, <2>3
<1> QED  BY <1>10, <1>11, <1>12, <1>13

\* One group more: the limbs are the digits of the product plus the group.
Multiplied(x, g, N, T, c, last, more, h) ==
    /\ x \in Nat /\ g \in Nat /\ g < LimbBase * LimbBase
    /\ N \in Nat /\ top \in 0..N /\ x < Pow(LimbBase, top)
    /\ top > 0 => Pow(LimbBase, top - 1) <= x
    /\ limbs = [j \in 0..(N - 1) |-> (x \div Pow(LimbBase, j)) % LimbBase]
    /\ T = x * P58 + g /\ T < Pow(LimbBase, N)
    /\ c = CarryInto(g) /\ last = c[top]
    /\ more = IF last \div LimbBase # 0 THEN 2 ELSE IF last # 0 THEN 1 ELSE 0
    /\ h = [j \in DOMAIN limbs \cup top..(top + more - 1) |->
              IF j < top THEN (limbs[j] * P58 + c[j]) % LimbBase
              ELSE IF j = top /\ more > 0 THEN last % LimbBase
              ELSE IF j = top + 1 /\ more > 1 THEN last \div LimbBase
              ELSE limbs[j]]

LEMMA FoldFacts ==
    ASSUME NEW x, NEW g, NEW N, NEW T, NEW c, NEW last, NEW more, NEW h,
           Multiplied(x, g, N, T, c, last, more, h)
    PROVE  /\ top + more \in 0..N /\ more \in 0..2 /\ T < Pow(LimbBase, top + more)
           /\ top + more > 0 => Pow(LimbBase, top + more - 1) <= T
           /\ h = [j \in 0..(N - 1) |-> (T \div Pow(LimbBase, j)) % LimbBase]
<1> SUFFICES
      ASSUME x \in Nat, g \in Nat, g < LimbBase * LimbBase,
             N \in Nat, top \in 0..N, x < Pow(LimbBase, top),
             top > 0 => Pow(LimbBase, top - 1) <= x,
             limbs = [j \in 0..(N - 1) |-> (x \div Pow(LimbBase, j)) % LimbBase],
             T = x * P58 + g, T < Pow(LimbBase, N),
             c = CarryInto(g), last = c[top],
             more = IF last \div LimbBase # 0 THEN 2 ELSE IF last # 0 THEN 1 ELSE 0
      PROVE  /\ top + more \in 0..N /\ more \in 0..2 /\ T < Pow(LimbBase, top + more)
             /\ top + more > 0 => Pow(LimbBase, top + more - 1) <= T
             /\ [j \in DOMAIN limbs \cup top..(top + more - 1) |->
                   IF j < top THEN (limbs[j] * P58 + c[j]) % LimbBase
                   ELSE IF j = top /\ more > 0 THEN last % LimbBase
                   ELSE IF j = top + 1 /\ more > 1 THEN last \div LimbBase
                   ELSE limbs[j]]
                  = [j \in 0..(N - 1) |-> (T \div Pow(LimbBase, j)) % LimbBase]
  BY DEF Multiplied
<1> DEFINE L == LimbBase
           Q(j) == Pow(LimbBase, j)
<1>1. L \in Nat \ {0} /\ L \in Nat \ {0, 1} /\ L \in Int /\ top \in Nat /\ P58 \in Nat \ {0} /\ P58 \in Nat
  BY PowPos, Constants DEF P58
<1>2. ASSUME NEW j \in Nat PROVE Q(j) \in Nat \ {0}
  BY <1>1, PowPos
<1>3. T \in Nat /\ x <= T
  <2>1. x * P58 \in Nat /\ x <= x * P58
    <3>1. x * (P58 - 1) >= 0 /\ x * (P58 - 1) = x * P58 - x
      BY <1>1
    <3> QED  BY <1>1, <3>1
  <2> QED  BY <2>1
<1>4. \A j \in 0..top : /\ c[j] = CarryOver(x, P58, g, Q(j))
                        /\ c[j] \in Nat /\ c[j] < LimbBase * LimbBase
  <2>1. \A j \in 0..(top - 1) : limbs[j] = (x \div Pow(LimbBase, j)) % LimbBase
    BY <1>1
  <2> QED  BY <1>1, <2>1, CarryFacts
<1>5. last = T \div Q(top) /\ last \in Nat /\ last < LimbBase * LimbBase
  <2>1. top \in 0..top
    BY <1>1
  <2>2. x % Q(top) = x
    <3>1. Q(top) \in Nat \ {0}
      BY <1>1, <1>2
    <3> QED  BY <3>1, DivNat
  <2>3. CarryOver(x, P58, g, Q(top)) = T \div Q(top)
    BY <2>2 DEF CarryOver
  <2> QED  BY <1>4, <2>1, <2>3
<1>6. /\ more \in 0..2 /\ T < Q(top + more)
      /\ more > 0 => Q(top + more - 1) <= T
  <2>1. T \in Nat /\ top \in Nat /\ last = T \div Pow(LimbBase, top) /\ last < LimbBase * LimbBase
    BY <1>1, <1>3, <1>5
  <2>2. more = IF last \div LimbBase # 0 THEN 2 ELSE IF last # 0 THEN 1 ELSE 0
    OBVIOUS
  <2>3. LastCarry(T, top, last, more)
    BY <2>1, <2>2 DEF LastCarry
  <2> QED  BY <2>3, MoreLimbs
<1>7. top + more > 0 => Q(top + more - 1) <= T
  <2>1. CASE more > 0
    BY <1>6, <2>1
  <2>2. CASE ~(more > 0)
    <3>1. more = 0 /\ top + more = top
      BY <1>1, <1>6, <2>2
    <3> SUFFICES ASSUME top > 0 PROVE Q(top - 1) <= T
      BY <3>1
    <3>2. Q(top - 1) \in Nat /\ Q(top - 1) <= x
      <4>1. top - 1 \in Nat
        BY <1>1
      <4> QED  BY <1>2, <4>1
    <3> QED  BY <1>3, <3>2
  <2> QED  BY <2>1, <2>2
<1>8. top + more \in 0..N
  <2>1. CASE top + more = 0
    BY <2>1
  <2>2. CASE top + more # 0
    <3> DEFINE e == top + more - 1
    <3>1. e \in Nat /\ top + more > 0
      BY <1>1, <1>6, <2>2
    <3>2. Q(e) <= T /\ Q(e) \in Nat /\ Q(N) \in Nat /\ T < Q(N)
      BY <1>2, <1>7, <3>1
    <3> HIDE DEF e
    <3>3. Pow(LimbBase, e) < Pow(LimbBase, N)
      BY <1>3, <3>2
    <3>4. LimbBase \in Nat \ {0, 1}
      BY <1>1
    <3>5. e < N
      BY <3>1, <3>3, <3>4, PowOrder
    <3> QED  BY <1>1, <1>6, <3>1, <3>5 DEF e
  <2> QED  BY <2>1, <2>2
<1>9. DOMAIN limbs \cup top..(top + more - 1) = 0..(N - 1)
  <2>1. DOMAIN limbs = 0..(N - 1)
    OBVIOUS
  <2>2. top..(top + more - 1) \subseteq 0..(N - 1)
    BY <1>1, <1>6, <1>8
  <2> QED  BY <2>1, <2>2
<1>10. ASSUME NEW j \in 0..(N - 1)
       PROVE  (IF j < top THEN (limbs[j] * P58 + c[j]) % LimbBase
               ELSE IF j = top /\ more > 0 THEN last % LimbBase
               ELSE IF j = top + 1 /\ more > 1 THEN last \div LimbBase
               ELSE limbs[j]) = (T \div Q(j)) % LimbBase
  <2>1. j \in Nat /\ limbs[j] = (x \div Q(j)) % LimbBase
    OBVIOUS
  <2>2. CASE j < top
    <3> DEFINE s == limbs[j] * P58 + c[j]
    <3>1. Q(j) \in Nat \ {0} /\ c[j] = CarryOver(x, P58, g, Q(j))
      <4>1. j \in 0..top
        BY <1>1, <2>1, <2>2
      <4>2. c[j] = CarryOver(x, P58, g, Q(j))
        BY <1>4, <4>1
      <4> QED  BY <1>2, <2>1, <4>2
    <3>2. CarryLink(x, P58, g, Q(j), LimbBase, limbs[j], s)
      BY <1>1, <2>1, <3>1 DEF CarryLink
    <3> HIDE DEF s
    <3>3. s % LimbBase = ((x * P58 + g) \div Q(j)) % LimbBase
      BY <3>2, CarryNext
    <3> QED  BY <2>2, <3>3 DEF s
  <2>3. CASE j = top /\ more > 0
    <3>1. ~(j < top)
      BY <1>1, <2>3
    <3>2. last % LimbBase = (T \div Q(j)) % LimbBase
      BY <1>5, <2>3
    <3> QED  BY <2>3, <3>1, <3>2
  <2>4. CASE j = top + 1 /\ more > 1
    <3> DEFINE d == last \div LimbBase
    <3>1. ~(j < top) /\ j # top
      BY <1>1, <2>4
    <3>2. Q(j) = Q(top) * LimbBase /\ Q(top) \in Nat \ {0}
      BY <1>1, <1>2, <2>4, PowStep
    <3>3. (T \div Q(top)) \div LimbBase = T \div (Q(top) * LimbBase)
      <4> HIDE DEF Q
      <4> QED  BY <1>1, <1>3, <3>2, DivDiv
    <3>4. d = T \div Q(j)
      BY <1>5, <3>2, <3>3
    <3>5. d \in Nat /\ ~(LimbBase <= d)
      <4>1. d \in Nat
        BY <1>1, <1>5, DivNat
      <4>2. LimbBase <= d <=> LimbBase * LimbBase <= last
        BY <1>1, <1>5, DivOrder
      <4>3. LimbBase * LimbBase \in Int
        BY <1>1
      <4> QED  BY <1>5, <4>1, <4>2, <4>3
    <3> HIDE DEF d
    <3>6. d < LimbBase
      BY <1>1, <3>5
    <3>7. d % LimbBase = d
      BY <1>1, <3>5, <3>6, DivNat
    <3> QED  BY <2>4, <3>1, <3>4, <3>7 DEF d
  <2>5. CASE ~(j < top) /\ ~(j = top /\ more > 0) /\ ~(j = top + 1 /\ more > 1)
    <3>1. top <= j /\ top + more <= j /\ top + more \in Nat
      BY <1>1, <1>6, <2>1, <2>5
    <3>2. (x \div Pow(LimbBase, j)) % LimbBase = 0
      BY <1>1, <2>1, <3>1, HighDigit
    <3>3. (T \div Pow(LimbBase, j)) % LimbBase = 0
      BY <1>3, <1>6, <2>1, <3>1, HighDigit
    <3> QED  BY <2>1, <2>5, <3>2, <3>3
  <2> QED  BY <2>2, <2>3, <2>4, <2>5
<1> HIDE DEF Q
<1> QED  BY <1>6, <1>7, <1>8, <1>9, <1>10 DEF Q

-----------------------------------------------------------------------------
(* From limbs to bytes *)

\* Byte y of the limbs is byte y of the number they make.
LEMMA ByteAtFacts ==
    ASSUME NEW x \in Nat, NEW y \in Nat, NEW N \in Nat, y \div LimbBytes \in 0..(N - 1),
           limbs = [j \in 0..(N - 1) |-> (x \div Pow(LimbBase, j)) % LimbBase]
    PROVE  ByteAt(y) = (x \div Pow(ByteBase, y)) % ByteBase
<1> DEFINE j == y \div LimbBytes
           i == y % LimbBytes
           k == LimbBytes - 1 - i
           q == Pow(LimbBase, j)
           a == Pow(ByteBase, i)
           b == ByteBase
           c == Pow(ByteBase, k)
           w == x \div q
           e == j * LimbBytes
<1>1. j \in Nat /\ i \in 0..(LimbBytes - 1) /\ y = j * LimbBytes + i
  <2>1. y \in Int /\ LimbBytes \in Nat \ {0}
    BY Constants
  <2> QED  BY <2>1, DivMod, DivNat
<1>2. ByteAt(y) = (((x \div q) % LimbBase) \div a) % b
  BY DEF ByteAt
<1> HIDE DEF i, j
<1>3. i \in Nat /\ k \in Nat /\ LimbBytes = (i + 1) + k /\ i + 1 \in Nat /\ e \in Nat /\ LimbBytes \in Nat
  BY <1>1, Constants
<1>4. b \in Nat \ {0} /\ b \in Int /\ LimbBase \in Nat \ {0}
  BY Constants
<1> HIDE DEF k, e
<1>5. LimbBase = a * b * c
  <2>1. Pow(ByteBase, (i + 1) + k) = Pow(ByteBase, i + 1) * c
    BY <1>3, <1>4, PowAdd
  <2>2. Pow(ByteBase, i + 1) = a * b
    BY <1>3, <1>4, PowStep
  <2> QED  BY <1>3, <2>1, <2>2 DEF LimbBase
<1>6. a \in Nat \ {0} /\ c \in Nat \ {0} /\ q \in Nat \ {0}
  BY <1>1, <1>3, <1>4, PowPos
<1>7. w \in Nat
  <2> HIDE DEF q
  <2> QED  BY <1>6, DivNat
<1>8. q * a = Pow(ByteBase, y)
  <2>1. q = Pow(ByteBase, j * LimbBytes)
    BY <1>1, <1>3, <1>4, PowPow DEF LimbBase
  <2>2. Pow(ByteBase, e + i) = Pow(ByteBase, e) * Pow(ByteBase, i)
    BY <1>3, <1>4, PowAdd
  <2> QED  BY <1>1, <2>1, <2>2 DEF e
<1> HIDE DEF a, b, c, q, w
<1>9. ((w % LimbBase) \div a) % b = (w \div a) % b
  <2>1. DigitSplit(w, LimbBase, a, b, c)
    BY <1>4, <1>5, <1>6, <1>7 DEF DigitSplit
  <2> QED  BY <2>1, ModDigit
<1>10. (x \div q) \div a = x \div (q * a)
  BY <1>6, DivDiv
<1> QED  BY <1>2, <1>5, <1>8, <1>9, <1>10 DEF w, b

\* The bytes of the limbs, counted from the top limb, are those of the number.
LEMMA PayloadFacts ==
    ASSUME NEW x \in Nat \ {0}, NEW N \in Nat, top \in 1..N,
           limbs = [j \in 0..(N - 1) |-> (x \div Pow(LimbBase, j)) % LimbBase],
           x < Pow(LimbBase, top), Pow(LimbBase, top - 1) <= x
    PROVE  /\ payload = byteLen(x)
           /\ \A y \in 0..(payload - 1) : y \div LimbBytes \in 0..(N - 1)
<1> DEFINE t == top - 1
           q == Pow(LimbBase, t)
           l == x \div q
           b == byteLen(l)
           d == b - 1
           e == t * LimbBytes
<1>1. t \in Nat /\ top = t + 1 /\ t \in 0..(N - 1) /\ top \in Nat
  OBVIOUS
<1>2. LimbBase \in Nat \ {0} /\ LimbBase \in Int /\ ByteBase \in Nat \ {0} /\ ByteBase \in Int /\ LimbBytes \in Nat \ {0} /\ LimbBytes \in Nat
  BY Constants
<1>3. limbs[top - 1] = (x \div q) % LimbBase
  BY <1>1
<1>4. q \in Nat \ {0} /\ Pow(LimbBase, top) = q * LimbBase /\ q <= x
  BY <1>1, <1>2, PowPos, PowStep
<1>5. payload = e + byteLen(limbs[top - 1])
  BY DEF payload, topBytes
<1> HIDE DEF t
<1>6. e \in Nat /\ q = Pow(ByteBase, e)
  <2>1. q = Pow(ByteBase, t * LimbBytes)
    BY <1>1, <1>2, PowPow DEF LimbBase
  <2> QED  BY <1>1, <1>2, <2>1
<1> HIDE DEF q, e
<1>7. \A m \in Int : m <= l <=> m * q <= x
  BY <1>4, DivOrder
<1>8. l \in Nat \ {0} /\ l < LimbBase
  <2>1. l \in Nat
    BY <1>4, DivNat
  <2>2. 1 <= l
    <3>1. 1 * q <= x
      BY <1>4
    <3> QED  BY <1>7, <3>1
  <2>3. ~(LimbBase <= l)
    <3>1. LimbBase * q = q * LimbBase /\ LimbBase * q \in Int
      BY <1>2, <1>4
    <3>2. ~(LimbBase * q <= x)
      BY <1>4, <3>1
    <3> QED  BY <1>2, <1>7, <3>2
  <2> QED  BY <1>2, <2>1, <2>2, <2>3
<1> HIDE DEF l
<1>9. limbs[top - 1] = l
  <2>1. l % LimbBase = l
    BY <1>2, <1>8, DivNat
  <2> QED  BY <1>3, <2>1 DEF l
<1>10. b \in Nat \ {0} /\ l < Pow(ByteBase, b) /\ Pow(ByteBase, d) <= l /\ b <= LimbBytes
  <2>1. b \in Nat \ {0} /\ l < Pow(ByteBase, b) /\ Pow(ByteBase, d) <= l
    BY <1>8, ByteLenFacts
  <2>2. l < Pow(ByteBase, LimbBytes)
    BY <1>8 DEF LimbBase
  <2>3. b <= LimbBytes
    BY <1>2, <1>8, <2>2, ByteLenBounds
  <2> QED  BY <2>1, <2>3
<1>11. payload = e + b
  BY <1>5, <1>9
<1> HIDE DEF b
<1>12. d \in Nat /\ b = d + 1 /\ b \in Nat /\ e + d \in Nat /\ e + b = (e + d) + 1
  BY <1>6, <1>10
<1> HIDE DEF d
<1>13. Pow(ByteBase, e + d) <= x
  <2>1. Pow(ByteBase, e + d) = q * Pow(ByteBase, d)
    BY <1>2, <1>6, <1>12, PowAdd
  <2>2. Pow(ByteBase, d) \in Int
    BY <1>2, <1>12, PowInt
  <2>3. Pow(ByteBase, d) * q <= x
    BY <1>7, <1>10, <2>2
  <2>4. Pow(ByteBase, d) * q = q * Pow(ByteBase, d)
    BY <1>4, <2>2
  <2> QED  BY <2>1, <2>3, <2>4
<1>14. x < Pow(ByteBase, (e + d) + 1)
  <2>1. Pow(ByteBase, e + b) = q * Pow(ByteBase, b)
    BY <1>2, <1>6, <1>12, PowAdd
  <2>2. Pow(ByteBase, b) \in Int
    BY <1>2, <1>12, PowInt
  <2>3. ~(Pow(ByteBase, b) <= l)
    BY <1>8, <1>10, <2>2
  <2>4. ~(Pow(ByteBase, b) * q <= x)
    BY <1>7, <2>2, <2>3
  <2>5. Pow(ByteBase, b) * q = q * Pow(ByteBase, b) /\ Pow(ByteBase, b) * q \in Int
    BY <1>4, <2>2
  <2> QED  BY <1>12, <2>1, <2>4, <2>5
<1>15. byteLen(x) = (e + d) + 1
  BY <1>12, <1>13, <1>14, ByteLenIs
<1>16. ASSUME NEW y \in 0..(payload - 1) PROVE y \div LimbBytes \in 0..(N - 1)
  <2>1. y \in Nat /\ y < e + b
    BY <1>6, <1>11, <1>12
  <2>2. top * LimbBytes = e + LimbBytes /\ top * LimbBytes \in Int
    BY <1>1, <1>2 DEF e
  <2>3. ~(top * LimbBytes <= y)
    BY <1>2, <1>6, <1>10, <1>12, <2>1, <2>2
  <2>4. top <= y \div LimbBytes <=> top * LimbBytes <= y
    <3>1. top \in Int
      BY <1>1
    <3> QED  BY <1>2, <2>1, <3>1, DivOrder
  <2>5. y \div LimbBytes \in Nat
    BY <1>2, <2>1, DivNat
  <2> QED  BY <1>1, <2>3, <2>4, <2>5
<1> QED  BY <1>11, <1>12, <1>15, <1>16

-----------------------------------------------------------------------------
(* Slices *)

\* The array a becomes f, and the slice its first total cells.
Stored(a, f, total, c) ==
    /\ mem' = [mem EXCEPT ![a] = f]
    /\ cur' = [arr |-> a, len |-> total, cap |-> c]

\* The array a result of total bytes goes to, and its capacity.
Room(a, total, c) ==
    \/ cur.cap >= total /\ a = cur.arr /\ c = cur.cap
    \/ cur.cap < total /\ a = "new" /\ c >= total

\* What it may hold: bytes behind the caller's.
Holds(f, c) ==
    /\ DOMAIN f = 0..(c - 1)
    /\ \A x \in 0..(c - 1) : f[x] \in Cell
    /\ \A x \in 0..(start - 1) : f[x] = Kept

\* Every way of extending the slice comes down to this.
LEMMA StoreFacts ==
    ASSUME in \in Inputs, in' = in, Shape, Live,
           NEW a, NEW f, NEW total \in Nat, NEW c \in Nat,
           cur.len <= total, Room(a, total, c), Holds(f, c), Stored(a, f, total, c)
    PROVE  Shape' /\ Live' /\ mem'[cur'.arr] = f /\ cur'.len = total
<1>1. start \in Nat /\ in.dst.cap \in Nat /\ start' = start /\ start <= in.dst.cap
  <2>1. start' = start
    BY DEF start
  <2> QED  BY <2>1, InputFacts
<1>2. cur.arr \in {"dst", "new"} /\ cur.len \in Nat /\ cur.cap \in Nat /\ cur.len <= cur.cap
  BY DEF Shape
<1>3. a \in {"dst", "new"} /\ total <= c
  BY <1>2 DEF Room
<1>4. /\ a = "dst" => c = in.dst.cap
      /\ a = "dst" <=> total <= in.dst.cap
  BY <1>1, <1>2, ArraysDistinct DEF Room, Live
<1>5. cur'.arr = a /\ cur'.len = total /\ cur'.cap = c
      /\ cur' \in [arr : {"dst", "new"}, len : Nat, cap : Nat]
  BY <1>3 DEF Stored
<1>6. DOMAIN mem = {"dst", "new"}
  BY DEF Shape
<1>7. mem' = [x \in {"dst", "new"} |-> IF x = a THEN f ELSE mem[x]]
  BY <1>3, <1>6 DEF Stored
<1>8. mem'[a] = f /\ \A x \in {"dst", "new"} : x # a => mem'[x] = mem[x]
  BY <1>3, <1>7
<1>9. mem' = [x \in {"dst", "new"} |-> mem'[x]]
  BY <1>7
<1>10. DOMAIN mem'["dst"] = 0..(in.dst.cap - 1)
  <2>1. CASE a = "dst"
    BY <1>4, <1>8, <2>1 DEF Holds
  <2>2. CASE a # "dst"
    BY <1>8, <2>2 DEF Shape
  <2> QED  BY <2>1, <2>2
<1>11. \A x \in 0..(start - 1) : mem'["dst"][x] = Kept
  <2>1. CASE a = "dst"
    BY <1>8, <2>1 DEF Holds
  <2>2. CASE a # "dst"
    BY <1>8, <2>2 DEF Shape
  <2> QED  BY <2>1, <2>2
<1>12. ASSUME NEW b \in {"dst", "new"}, NEW x \in DOMAIN mem'[b] PROVE mem'[b][x] \in Cell
  <2>1. CASE b = a
    BY <1>8, <1>12, <2>1 DEF Holds
  <2>2. CASE b # a
    BY <1>8, <1>12, <2>2 DEF Shape
  <2> QED  BY <2>1, <2>2
<1>13. start <= total
  BY <1>1, <1>2 DEF Live
<1>14. Shape'
  <2>1. Cell' = Cell
    BY DEF Cell
  <2> QED  BY <1>1, <1>3, <1>5, <1>9, <1>10, <1>11, <1>12, <2>1 DEF Shape
<1>15. DOMAIN mem'[a] = 0..(c - 1) /\ \A x \in 0..(start - 1) : mem'[a][x] = Kept
  BY <1>8 DEF Holds
<1>16. Live'
  BY <1>1, <1>4, <1>5, <1>13, <1>15 DEF Live
<1> QED  BY <1>5, <1>8, <1>14, <1>16

\* The cells of a larger array with the slice's contents.
LEMMA GrownFacts ==
    ASSUME in \in Inputs, Shape, Live, NEW c \in Nat, cur.len <= c
    PROVE  /\ Holds(Grown(c), c)
           /\ \A x \in 0..(cur.len - 1) : Grown(c)[x] = mem[cur.arr][x]
<1>1. cur.arr \in {"dst", "new"} /\ cur.len \in Nat /\ cur.cap \in Nat /\ cur.len <= cur.cap
  BY DEF Shape
<1>2. start \in Nat /\ start <= cur.len
  BY InputFacts DEF Live
<1>3. DOMAIN Grown(c) = 0..(c - 1)
  BY DEF Grown
<1>4. ASSUME NEW x \in 0..(cur.len - 1)
      PROVE  Grown(c)[x] = mem[cur.arr][x] /\ x \in DOMAIN mem[cur.arr]
  <2>1. x \in 0..(c - 1) /\ x < cur.len /\ x \in 0..(cur.cap - 1)
    BY <1>1
  <2> QED  BY <2>1 DEF Grown, Live
<1>5. ASSUME NEW x \in 0..(c - 1) PROVE Grown(c)[x] \in Cell
  <2>1. CASE x < cur.len
    <3>1. x \in 0..(cur.len - 1)
      BY <1>1, <2>1
    <3> QED  BY <1>1, <1>4, <3>1 DEF Shape
  <2>2. CASE ~(x < cur.len)
    <3>1. Grown(c)[x] = 0
      BY <2>2 DEF Grown
    <3>2. 0 \in 0..(ByteBase - 1)
      BY Constants
    <3> QED  BY <3>1, <3>2 DEF Cell
  <2> QED  BY <2>1, <2>2
<1>6. ASSUME NEW x \in 0..(start - 1) PROVE Grown(c)[x] = Kept
  <2>1. x \in 0..(cur.len - 1)
    BY <1>1, <1>2
  <2> QED  BY <1>4, <2>1 DEF Live
<1> QED  BY <1>3, <1>4, <1>5, <1>6 DEF Holds

\* The slice's own array.
LEMMA ArrayFacts ==
    ASSUME in \in Inputs, Shape, Live
    PROVE  Holds(mem[cur.arr], cur.cap)
<1>1. cur.arr \in {"dst", "new"}
  BY DEF Shape
<1> QED  BY <1>1 DEF Holds, Shape, Live

\* An array with cells from lo up to hi replaced.
LEMMA PutFacts ==
    ASSUME in \in Inputs, NEW f, NEW h, NEW c \in Nat, Holds(f, c), NEW lo \in Nat, NEW hi \in Nat,
           start <= lo, start <= c, DOMAIN h = DOMAIN f,
           \A x \in 0..(c - 1) : IF x >= lo /\ x < hi THEN h[x] \in Cell ELSE h[x] = f[x]
    PROVE  Holds(h, c)
<1>1. start \in Nat /\ DOMAIN h = 0..(c - 1)
  BY InputFacts DEF Holds
<1>2. \A x \in 0..(c - 1) : h[x] \in Cell
  BY DEF Holds
<1>3. ASSUME NEW x \in 0..(start - 1) PROVE h[x] = Kept
  <2>1. f[x] = Kept
    BY DEF Holds
  <2>2. ~(x >= lo) /\ x \in 0..(c - 1)
    BY <1>1
  <2> QED  BY <2>1, <2>2
<1> QED  BY <1>1, <1>2, <1>3 DEF Holds

LEMMA SeqElements ==
    ASSUME NEW S, NEW s \in Seq(S)
    PROVE  Len(s) \in Nat /\ \A k \in 1..Len(s) : s[k] \in S
OBVIOUS

\* append: the old cells, then the new bytes.
LEMMA AppendFacts ==
    ASSUME in \in Inputs, in' = in, Shape, Live,
           NEW bs \in Seq(0..(ByteBase - 1)), AppendBytes(bs)
    PROVE  /\ Shape' /\ Live' /\ cur'.len = cur.len + Len(bs)
           /\ \A x \in 0..(cur.len - 1) : mem'[cur'.arr][x] = mem[cur.arr][x]
           /\ \A k \in 1..Len(bs) : mem'[cur'.arr][cur.len + k - 1] = bs[k]
<1> DEFINE total == cur.len + Len(bs)
           Put(a) == [x \in DOMAIN a |->
                        IF x >= cur.len /\ x < total THEN bs[x - cur.len + 1] ELSE a[x]]
<1>1. /\ cur \in [arr : {"dst", "new"}, len : Nat, cap : Nat]
      /\ cur.arr \in {"dst", "new"} /\ cur.len \in Nat /\ cur.cap \in Nat /\ cur.len <= cur.cap
  BY DEF Shape
<1>2. start \in Nat /\ start <= cur.len
  BY InputFacts DEF Live
<1>3. Len(bs) \in Nat /\ total \in Nat /\ cur.len <= total
  BY <1>1
<1>4. ASSUME NEW x \in Nat, x >= cur.len, x < total PROVE bs[x - cur.len + 1] \in Cell
  <2>1. \A k \in 1..Len(bs) : bs[k] \in 0..(ByteBase - 1)
    BY SeqElements
  <2>2. x - cur.len + 1 \in 1..Len(bs)
    BY <1>1, <1>3, <1>4
  <2>3. bs[x - cur.len + 1] \in 0..(ByteBase - 1)
    BY <2>1, <2>2
  <2> QED  BY <2>3 DEF Cell
<1>5. ASSUME NEW f, NEW c \in Nat, Holds(f, c), total <= c,
             \A x \in 0..(cur.len - 1) : f[x] = mem[cur.arr][x]
      PROVE  /\ Holds(Put(f), c)
             /\ \A x \in 0..(cur.len - 1) : Put(f)[x] = mem[cur.arr][x]
             /\ \A k \in 1..Len(bs) : Put(f)[cur.len + k - 1] = bs[k]
  <2>0. DOMAIN f = 0..(c - 1) /\ start <= c
    BY <1>1, <1>2, <1>3, <1>5 DEF Holds
  <2>1. \A x \in 0..(c - 1) :
          IF x >= cur.len /\ x < total THEN Put(f)[x] \in Cell ELSE Put(f)[x] = f[x]
    <3> SUFFICES ASSUME NEW x \in 0..(c - 1)
                 PROVE  IF x >= cur.len /\ x < total THEN Put(f)[x] \in Cell ELSE Put(f)[x] = f[x]
      OBVIOUS
    <3>1. CASE x >= cur.len /\ x < total
      <4>1. Put(f)[x] = bs[x - cur.len + 1]
        BY <2>0, <3>1
      <4> QED  BY <1>4, <3>1, <4>1
    <3>2. CASE ~(x >= cur.len /\ x < total)
      BY <2>0, <3>2
    <3> QED  BY <3>1, <3>2
  <2>2. Holds(Put(f), c)
    <3>1. DOMAIN Put(f) = DOMAIN f
      OBVIOUS
    <3> HIDE DEF total, Put
    <3> QED  BY <1>1, <1>2, <1>3, <1>5, <2>0, <2>1, <3>1, PutFacts
  <2>3. ASSUME NEW x \in 0..(cur.len - 1) PROVE Put(f)[x] = mem[cur.arr][x]
    <3>1. x \in DOMAIN f /\ ~(x >= cur.len)
      BY <1>1, <1>3, <1>5, <2>0
    <3> QED  BY <1>5, <3>1
  <2>4. ASSUME NEW k \in 1..Len(bs) PROVE Put(f)[cur.len + k - 1] = bs[k]
    <3>1. /\ cur.len + k - 1 \in DOMAIN f /\ cur.len + k - 1 >= cur.len /\ cur.len + k - 1 < total
          /\ (cur.len + k - 1) - cur.len + 1 = k
      BY <1>1, <1>3, <1>5, <2>0
    <3> QED  BY <3>1
  <2> QED  BY <2>2, <2>3, <2>4
<1>6. ASSUME NEW a, NEW f, NEW c \in Nat, Holds(f, c), total <= c, Room(a, total, c),
             \A x \in 0..(cur.len - 1) : f[x] = mem[cur.arr][x], Stored(a, Put(f), total, c)
      PROVE  /\ Shape' /\ Live' /\ cur'.len = total
             /\ \A x \in 0..(cur.len - 1) : mem'[cur'.arr][x] = mem[cur.arr][x]
             /\ \A k \in 1..Len(bs) : mem'[cur'.arr][cur.len + k - 1] = bs[k]
  <2>1. /\ Holds(Put(f), c)
        /\ \A x \in 0..(cur.len - 1) : Put(f)[x] = mem[cur.arr][x]
        /\ \A k \in 1..Len(bs) : Put(f)[cur.len + k - 1] = bs[k]
    BY <1>5, <1>6
  <2> HIDE DEF Put, total
  <2>2. Shape' /\ Live' /\ mem'[cur'.arr] = Put(f) /\ cur'.len = total
    BY <1>3, <1>6, <2>1, StoreFacts
  <2> QED  BY <2>1, <2>2
<1>7. CASE cur.cap >= total
  <2>1. mem' = [mem EXCEPT ![cur.arr] = Put(mem[cur.arr])] /\ cur' = [cur EXCEPT !.len = total]
    BY <1>7 DEF AppendBytes
  <2>2. [cur EXCEPT !.len = total] = [arr |-> cur.arr, len |-> total, cap |-> cur.cap]
    BY <1>1
  <2>3. Stored(cur.arr, Put(mem[cur.arr]), total, cur.cap)
    BY <2>1, <2>2 DEF Stored
  <2>4. Holds(mem[cur.arr], cur.cap)
    BY ArrayFacts
  <2>5. Room(cur.arr, total, cur.cap) /\ total <= cur.cap
    BY <1>1, <1>3, <1>7 DEF Room
  <2> HIDE DEF Put, total
  <2> QED  BY <1>1, <1>6, <2>3, <2>4, <2>5 DEF total
<1>8. CASE ~(cur.cap >= total)
  <2>1. PICK c \in total..(total + GrowBound) :
          /\ mem' = [mem EXCEPT !["new"] = Put(Grown(c))]
          /\ cur' = [arr |-> "new", len |-> total, cap |-> c]
    BY <1>8 DEF AppendBytes
  <2>2. c \in Nat /\ total <= c /\ cur.len <= c
    BY <1>1, <1>3, Constants
  <2>3. Stored("new", Put(Grown(c)), total, c)
    BY <2>1 DEF Stored
  <2>4. Holds(Grown(c), c) /\ \A x \in 0..(cur.len - 1) : Grown(c)[x] = mem[cur.arr][x]
    BY <2>2, GrownFacts
  <2>5. Room("new", total, c)
    BY <1>1, <1>3, <1>8, <2>2 DEF Room
  <2> HIDE DEF Put, total
  <2> QED  BY <1>6, <2>2, <2>3, <2>4, <2>5 DEF total
<1> QED  BY <1>7, <1>8

\* Resize: the old cells, and others whose contents are not known.
LEMMA ResizeFacts ==
    ASSUME in \in Inputs, in' = in, Shape, Live, NEW total \in Nat, cur.len <= total, Resize(total)
    PROVE  /\ Shape' /\ Live' /\ cur'.len = total
           /\ \A x \in 0..(cur.len - 1) : mem'[cur'.arr][x] = mem[cur.arr][x]
<1>1. /\ cur \in [arr : {"dst", "new"}, len : Nat, cap : Nat]
      /\ cur.arr \in {"dst", "new"} /\ cur.len \in Nat /\ cur.cap \in Nat /\ cur.len <= cur.cap
      /\ mem = [a \in {"dst", "new"} |-> mem[a]]
  BY DEF Shape
<1>2. CASE cur.cap < total
  <2>1. Stored("new", Grown(total), total, total)
    BY <1>2 DEF Resize, Stored
  <2>2. Holds(Grown(total), total) /\ \A x \in 0..(cur.len - 1) : Grown(total)[x] = mem[cur.arr][x]
    BY GrownFacts
  <2>3. Room("new", total, total)
    BY <1>2 DEF Room
  <2>4. Shape' /\ Live' /\ mem'[cur'.arr] = Grown(total) /\ cur'.len = total
    BY <2>1, <2>2, <2>3, StoreFacts
  <2> QED  BY <2>2, <2>4
<1>3. CASE ~(cur.cap < total)
  <2>1. mem' = mem /\ cur' = [cur EXCEPT !.len = total]
    BY <1>3 DEF Resize
  <2>2. [cur EXCEPT !.len = total] = [arr |-> cur.arr, len |-> total, cap |-> cur.cap]
    BY <1>1
  <2>3. mem = [mem EXCEPT ![cur.arr] = mem[cur.arr]]
    BY <1>1
  <2>4. Stored(cur.arr, mem[cur.arr], total, cur.cap)
    BY <2>1, <2>2, <2>3 DEF Stored
  <2>5. Holds(mem[cur.arr], cur.cap)
    BY ArrayFacts
  <2>6. Room(cur.arr, total, cur.cap)
    BY <1>1, <1>3 DEF Room
  <2>7. Shape' /\ Live' /\ mem'[cur'.arr] = mem[cur.arr] /\ cur'.len = total
    BY <1>1, <2>4, <2>5, <2>6, StoreFacts
  <2> QED  BY <2>7
<1> QED  BY <1>2, <1>3

-----------------------------------------------------------------------------
(* What a step leaves alone *)

\* Everything that is said of the string stays as it is while the string does.
LEMMA SameString ==
    ASSUME in' = in
    PROVE  /\ encoded' = encoded /\ encLen' = encLen /\ start' = start
           /\ Ones' = Ones /\ X' = X /\ Total' = Total /\ (AllChars' <=> AllChars)
           /\ \A k : Out(k)' = Out(k)
           /\ \A f : Refused(f)' <=> Refused(f)
           /\ \A from, count : ValueOf(from, count)' = ValueOf(from, count)
<1>1. encoded' = encoded /\ encLen' = encLen /\ start' = start
  BY DEF encoded, encLen, start
<1>2. \A from, count : ValueOf(from, count)' = ValueOf(from, count)
  BY <1>1 DEF ValueOf
<1>3. Ones' = Ones
  BY <1>1 DEF Ones, One
<1>4. X' = X
  BY <1>1, <1>2 DEF X
<1>5. Total' = Total
  BY <1>1, <1>3, <1>4 DEF Total, byteLen
<1>6. AllChars' <=> AllChars
  BY <1>1 DEF AllChars, IsChar
<1>7. \A k : Out(k)' = Out(k)
  BY <1>3, <1>4, <1>5 DEF Out
<1>8. \A f : Refused(f)' <=> Refused(f)
  BY <1>5, <1>6 DEF Refused
<1> QED  BY <1>1, <1>2, <1>3, <1>4, <1>5, <1>6, <1>7, <1>8

LEMMA SameBuffer ==
    ASSUME in' = in, mem' = mem, cur' = cur
    PROVE  /\ (Shape' <=> Shape) /\ (Live' <=> Live) /\ (Fresh' <=> Fresh)
           /\ \A m : Written(m)' <=> Written(m)
<1>1. start' = start /\ \A k : Out(k)' = Out(k)
  BY SameString
<1>2. Shape' <=> Shape
  BY <1>1 DEF Shape, Cell
<1>3. Live' <=> Live
  BY <1>1 DEF Live
<1>4. Fresh' <=> Fresh
  BY <1>1 DEF Fresh
<1>5. \A m : Written(m)' <=> Written(m)
  BY <1>1 DEF Written
<1> QED  BY <1>2, <1>3, <1>4, <1>5

LEMMA SameCounts ==
    ASSUME in' = in, zeros' = zeros
    PROVE  n' = n /\ numLimbs' = numLimbs
<1>1. n' = n
  BY SameString DEF n
<1> QED  BY <1>1 DEF numLimbs, maxBytes

\* The untouched buffer is a slice like any other.
LEMMA FreshFacts ==
    ASSUME in \in Inputs, Shape, Fresh
    PROVE  Live /\ cur.len = start
<1>1. start \in Nat /\ in.dst.cap \in Nat /\ start <= in.dst.cap
  BY InputFacts
<1>2. cur.arr = "dst" /\ cur.len = start /\ cur.cap = in.dst.cap
  BY DEF Fresh
<1> QED  BY <1>1, <1>2 DEF Live, Shape

-----------------------------------------------------------------------------
(* The beginning *)

LEMMA InitInv == Init => Inv
<1> SUFFICES ASSUME Init PROVE Inv
  OBVIOUS
<1>1. /\ start \in Nat /\ in.dst.cap \in Nat /\ start <= in.dst.cap /\ start = in.dst.len
      /\ encLen \in Nat /\ in \in Inputs
  BY InputFacts DEF Init, start
<1>2. Typed
  BY <1>1 DEF Typed, Init
<1> DEFINE f == [x \in 0..(in.dst.cap - 1) |-> IF x < in.dst.len THEN Kept ELSE Dirty]
<1>3. mem = [dst |-> f, new |-> <<>>]
  BY DEF Init
<1>4. mem["dst"] = f /\ mem["new"] = <<>> /\ DOMAIN mem["new"] = {}
  <2>1. mem.dst = f /\ mem.new = <<>>
    BY <1>3
  <2>2. DOMAIN mem.new = {}
    BY <2>1
  <2> QED  BY <2>1, <2>2
<1>5. mem = [a \in {"dst", "new"} |-> mem[a]]
  BY <1>3
<1>6. \A x \in 0..(start - 1) : mem["dst"][x] = Kept
  BY <1>1, <1>4
<1>7. \A x \in start..(in.dst.cap - 1) : mem["dst"][x] = Dirty
  BY <1>1, <1>4
<1>8. \A a \in {"dst", "new"} : \A x \in DOMAIN mem[a] : mem[a][x] \in Cell
  <2>1. \A x \in DOMAIN f : f[x] \in {Kept, Dirty}
    OBVIOUS
  <2> HIDE DEF f
  <2> QED  BY <1>4, <2>1 DEF Cell
<1>9. cur = [arr |-> "dst", len |-> start, cap |-> in.dst.cap]
  BY <1>1 DEF Init
<1>10. Shape
  <2>1. DOMAIN mem["dst"] = 0..(in.dst.cap - 1)
    BY <1>4
  <2>2. cur \in [arr : {"dst", "new"}, len : Nat, cap : Nat] /\ cur.len <= cur.cap
    BY <1>1, <1>9
  <2> QED  BY <1>5, <1>6, <1>8, <2>1, <2>2 DEF Shape
<1>11. Fresh
  BY <1>7, <1>9 DEF Fresh
<1>12. Phase
  BY <1>11 DEF Phase, Init
<1> QED  BY <1>2, <1>10, <1>12 DEF Inv

-----------------------------------------------------------------------------
(* The steps *)

\* The empty string: nothing is appended.
LEMMA EmptyFacts ==
    ASSUME in \in Inputs, encLen = 0
    PROVE  AllChars /\ Total = 0 /\ Ones = 0
<1>1. Ones = 0
  BY OnesFacts
<1> QED  BY <1>1 DEF AllChars, Total

LEMMA BeginInv == Inv /\ Begin => Inv'
<1> SUFFICES ASSUME Inv, Begin PROVE Inv'
  OBVIOUS
<1>1. in \in Inputs /\ in' = in /\ mem' = mem /\ cur' = cur /\ pos' = pos /\ top' = top /\ limbs' = limbs
  BY DEF Inv, Typed, Begin
<1>2. pc = "begin" /\ Fresh /\ Shape /\ pos = 0 /\ top = 0 /\ route = "none" /\ err = "none"
  BY DEF Inv, Phase, Begin
<1>3. zeros' = Ones /\ Ones \in 0..encLen
  BY <1>1, OnesFacts DEF Begin, Ones
<1>4. Shape' /\ Fresh' /\ encLen' = encLen /\ Ones' = Ones /\ start' = start /\ Total' = Total
      /\ (AllChars' <=> AllChars)
  BY <1>1, <1>2, SameBuffer, SameString
<1>5. CASE encLen = 0
  <2>1. pc' = "done" /\ route' = "empty" /\ err' = "nil"
    BY <1>5 DEF Begin, Return
  <2>2. Typed'
    BY <1>1, <1>3, <1>4, <2>1 DEF Inv, Typed
  <2>3. AllChars /\ Total = 0
    BY <1>1, <1>5, EmptyFacts
  <2>4. Live' /\ cur'.len = start'
    <3>1. Live /\ cur.len = start
      BY <1>1, <1>2, FreshFacts
    <3> QED  BY <1>1, <1>4, <3>1, SameBuffer
  <2>5. Written(0)'
    BY DEF Written
  <2>6. Final'
    <3>1. start' \in Nat /\ cur'.len = start' + 0
      BY <1>1, <1>4, <2>4, InputFacts
    <3>2. ~(zeros' < encLen')
      BY <1>3, <1>4, <1>5
    <3> QED  BY <1>4, <2>1, <2>3, <2>4, <2>5, <3>1, <3>2 DEF Final
  <2>7. Phase'
    BY <1>3, <1>4, <2>1, <2>6 DEF Phase
  <2> QED  BY <1>4, <2>2, <2>7 DEF Inv
<1>6. CASE encLen # 0
  <2>1. pc' = (IF Ones = encLen THEN "zeros" ELSE "fixed1") /\ route' = "none" /\ err' = "none"
    BY <1>2, <1>3, <1>6 DEF Begin
  <2>2. Typed'
    BY <1>1, <1>3, <1>4, <2>1 DEF Inv, Typed
  <2>3. CASE Ones = encLen
    <3>1. pc' = "zeros"
      BY <2>1, <2>3
    <3>2. Live' /\ cur'.len = start' + pos'
      <4>1. Live /\ cur.len = start /\ start \in Nat
        BY <1>1, <1>2, FreshFacts, InputFacts
      <4>2. Live'
        BY <1>1, <4>1, SameBuffer
      <4> QED  BY <1>1, <1>2, <1>4, <4>1, <4>2
    <3>3. Written(pos)'
      BY <1>1, <1>2 DEF Written
    <3>4. pos' <= zeros' /\ zeros' = encLen'
      BY <1>1, <1>2, <1>3, <1>4, <2>3
    <3>5. Phase'
      BY <1>3, <1>4, <2>1, <3>1, <3>2, <3>3, <3>4 DEF Phase
    <3> QED  BY <1>4, <2>2, <3>5 DEF Inv
  <2>4. CASE Ones # encLen
    <3>1. pc' = "fixed1"
      BY <2>1, <2>4
    <3>2. encLen \in Nat /\ Ones \in 0..encLen
      BY <1>1, <1>3, InputFacts
    <3>3. zeros' < encLen'
      BY <1>3, <1>4, <2>4, <3>2
    <3>4. Phase'
      BY <1>1, <1>2, <1>3, <1>4, <2>1, <3>1, <3>3 DEF Phase
    <3> QED  BY <1>4, <2>2, <3>4 DEF Inv
  <2> QED  BY <2>3, <2>4
<1> QED  BY <1>5, <1>6

\* A string of '1's is valid, and decodes to as many zeros.
LEMMA AllOnes ==
    ASSUME in \in Inputs, Ones = encLen
    PROVE  AllChars /\ Total = encLen /\ \A k \in 0..(encLen - 1) : Out(k) = 0
<1>1. \A k \in 1..Ones : IsChar(encoded[k])
  BY OnesFacts
<1>2. \A k \in 0..(encLen - 1) : k < Ones
  BY InputFacts
<1> QED  BY <1>1, <1>2 DEF AllChars, Total, Out

LEMMA AppendZeroInv == Inv /\ AppendZero => Inv'
<1> SUFFICES ASSUME Inv, AppendZero PROVE Inv'
  OBVIOUS
<1>1. /\ in \in Inputs /\ in' = in /\ zeros' = zeros /\ pos' = pos + 1 /\ top' = top /\ limbs' = limbs
      /\ pc' = pc /\ route' = route /\ err' = err /\ pos < zeros /\ AppendBytes(<<0>>)
  BY DEF Inv, Typed, AppendZero
<1>2. /\ pc = "zeros" /\ zeros = encLen /\ zeros = Ones /\ Shape /\ Live /\ cur.len = start + pos
      /\ Written(pos) /\ route = "none" /\ err = "none"
  BY DEF Inv, Phase, AppendZero
<1>3. encLen \in Nat /\ start \in Nat /\ pos \in Nat /\ cur.len \in Nat
  <2>1. encLen \in Nat /\ start \in Nat
    BY <1>1, InputFacts
  <2>2. pos \in 0..encLen
    BY DEF Inv, Typed
  <2> QED  BY <1>2, <2>1, <2>2
<1>4. <<0>> \in Seq(0..(ByteBase - 1)) /\ Len(<<0>>) = 1 /\ <<0>>[1] = 0
  <2>1. 0 \in 0..(ByteBase - 1)
    BY Constants
  <2> QED  BY <2>1
<1>5. /\ Shape' /\ Live' /\ cur'.len = cur.len + 1
      /\ \A x \in 0..(cur.len - 1) : mem'[cur'.arr][x] = mem[cur.arr][x]
      /\ \A k \in 1..1 : mem'[cur'.arr][cur.len + k - 1] = <<0>>[k]
  BY <1>1, <1>2, <1>4, AppendFacts
<1>6. /\ encLen' = encLen /\ start' = start /\ Ones' = Ones /\ (\A k : Out(k)' = Out(k))
  BY <1>1, SameString
<1>7. Written(pos)'
  <2> SUFFICES ASSUME NEW k \in 0..pos PROVE mem'[cur'.arr][start + k] = Out(k)
    BY <1>1, <1>3, <1>6 DEF Written
  <2>1. CASE k = pos
    <3>1. start + k = cur.len + 1 - 1 /\ 1 \in 1..1
      BY <1>2, <1>3, <2>1
    <3>2. mem'[cur'.arr][start + k] = 0
      BY <1>4, <1>5, <3>1
    <3>3. k \in 0..(encLen - 1)
      BY <1>1, <1>2, <1>3, <2>1
    <3> QED  BY <1>1, <1>2, <3>2, <3>3, AllOnes
  <2>2. CASE k # pos
    <3>1. k \in 0..(pos - 1) /\ start + k \in 0..(cur.len - 1)
      BY <1>2, <1>3, <2>2
    <3> QED  BY <1>2, <1>5, <3>1 DEF Written
  <2> QED  BY <2>1, <2>2
<1>8. cur'.len = start' + pos' /\ pos' \in 0..encLen' /\ pos' <= zeros'
  <2>1. pos' = pos + 1 /\ pos < encLen /\ zeros' = encLen' /\ encLen' = encLen /\ start' = start
    BY <1>1, <1>2, <1>6
  <2>2. cur'.len = (start + pos) + 1
    BY <1>2, <1>5
  <2>3. pos + 1 \in 0..encLen /\ pos + 1 <= encLen /\ (start + pos) + 1 = start + (pos + 1)
    BY <1>3, <2>1
  <2> QED  BY <2>1, <2>2, <2>3
<1>9. Typed'
  BY <1>1, <1>6, <1>8 DEF Inv, Typed
<1>10. Phase'
  BY <1>1, <1>2, <1>5, <1>6, <1>7, <1>8 DEF Phase
<1> QED  BY <1>5, <1>9, <1>10 DEF Inv

LEMMA ZerosDoneInv == Inv /\ ZerosDone => Inv'
<1> SUFFICES ASSUME Inv, ZerosDone PROVE Inv'
  OBVIOUS
<1>1. /\ in \in Inputs /\ in' = in /\ zeros' = zeros /\ mem' = mem /\ cur' = cur /\ pos' = pos
      /\ top' = top /\ limbs' = limbs /\ pc' = "done" /\ route' = "zeros" /\ err' = "nil" /\ pos = zeros
  BY DEF Inv, Typed, ZerosDone, Return
<1>2. /\ zeros = encLen /\ zeros = Ones /\ Shape /\ Live /\ cur.len = start + pos /\ Written(pos)
  BY DEF Inv, Phase, ZerosDone
<1>3. AllChars /\ Total = pos
  BY <1>1, <1>2, AllOnes
<1>4. /\ Shape' /\ Live' /\ Written(Total)'
  <2>1. Shape' /\ Live' /\ Written(pos)'
    BY <1>1, <1>2, SameBuffer
  <2>2. Total' = pos'
    BY <1>1, <1>3, SameString
  <2> QED  BY <2>1, <2>2
<1>5. /\ encLen' = encLen /\ start' = start /\ Ones' = Ones /\ Total' = Total /\ (AllChars' <=> AllChars)
  BY <1>1, SameString
<1>6. ~(zeros' < encLen')
  <2>1. encLen \in Nat
    BY <1>1, InputFacts
  <2>2. zeros' = encLen'
    BY <1>1, <1>2, <1>5
  <2> QED  BY <1>5, <2>1, <2>2
<1>7. Final'
  BY <1>1, <1>2, <1>3, <1>4, <1>5, <1>6 DEF Final
<1>8. Typed'
  BY <1>1, <1>5 DEF Inv, Typed
<1>9. Phase'
  BY <1>1, <1>2, <1>5, <1>7 DEF Phase
<1> QED  BY <1>4, <1>8, <1>9 DEF Inv

LEMMA TryFixedInv == \A f \in 1..2 : Inv /\ TryFixed(f) => Inv'
<1> SUFFICES ASSUME NEW f \in 1..2, Inv, TryFixed(f) PROVE Inv'
  OBVIOUS
<1>1. /\ in \in Inputs /\ in' = in /\ zeros' = zeros /\ pos' = pos /\ top' = top /\ limbs' = limbs
  BY DEF Inv, Typed, TryFixed
<1>2. pc = (IF f = 1 THEN "fixed1" ELSE "fixed2")
  BY DEF TryFixed
<1>3. /\ zeros = Ones /\ zeros < encLen /\ Ones < encLen /\ Shape /\ Fresh /\ pos = 0 /\ top = 0
      /\ route = "none" /\ err = "none" /\ (f # 1 => Refused(1))
  BY <1>2 DEF Inv, Phase
<1>4. Live /\ cur.len = start /\ start \in Nat
  BY <1>1, <1>3, FreshFacts, InputFacts
<1>5. /\ encLen' = encLen /\ start' = start /\ Ones' = Ones /\ Total' = Total /\ (AllChars' <=> AllChars)
      /\ (\A k : Out(k)' = Out(k)) /\ (\A g : Refused(g)' <=> Refused(g))
  BY <1>1, SameString
<1>6. FixedAccepts(Sizes[f]) <=> AllChars /\ Total = Sizes[f]
  <2>1. Sizes[f] \in Nat
    BY MaxLensAssumption
  <2> QED  BY <1>1, <1>3, <2>1, FixedAcceptsFacts
<1>7. CASE Plausible(f) /\ FixedAccepts(Sizes[f])
  <2>1. /\ AppendBytes(BytesOf(X, Total)) /\ pc' = "done" /\ route' = "fixed" /\ err' = "nil"
        /\ AllChars /\ Total = Sizes[f]
    BY <1>6, <1>7 DEF TryFixed, Return, X
  <2>2. /\ BytesOf(X, Total) \in Seq(0..(ByteBase - 1)) /\ Len(BytesOf(X, Total)) = Total
        /\ \A k \in 0..(Total - 1) : BytesOf(X, Total)[k + 1] = Out(k)
    BY <1>1, <1>3, <2>1, FixedBytes
  <2> DEFINE bs == BytesOf(X, Total)
  <2> HIDE DEF bs
  <2>3. /\ Shape' /\ Live' /\ cur'.len = cur.len + Len(bs)
        /\ \A k \in 1..Len(bs) : mem'[cur'.arr][cur.len + k - 1] = bs[k]
    BY <1>1, <1>3, <1>4, <2>1, <2>2, AppendFacts DEF bs
  <2>4. Total \in Nat
    BY <1>1, <2>1, TotalFacts
  <2>5. Written(Total)'
    <3> SUFFICES ASSUME NEW k \in 0..(Total - 1) PROVE mem'[cur'.arr][start + k] = Out(k)
      BY <1>5 DEF Written
    <3>1. k + 1 \in 1..Total /\ cur.len + (k + 1) - 1 = start + k
      BY <1>4, <2>4
    <3>2. mem'[cur'.arr][cur.len + (k + 1) - 1] = bs[k + 1]
      BY <2>2, <2>3, <3>1 DEF bs
    <3> QED  BY <2>2, <3>1, <3>2 DEF bs
  <2>6. Final'
    <3>1. cur'.len = start' + Total'
      BY <1>4, <1>5, <2>2, <2>3 DEF bs
    <3>2. \E g \in 1..2 : Total' = Sizes[g]
      BY <1>5, <2>1
    <3> QED  BY <1>5, <2>1, <2>3, <2>5, <3>1, <3>2 DEF Final
  <2>7. Typed'
    BY <1>1, <1>5, <2>1 DEF Inv, Typed
  <2>8. Phase'
    BY <1>1, <1>3, <1>5, <2>1, <2>6 DEF Phase
  <2> QED  BY <2>3, <2>7, <2>8 DEF Inv
<1>8. CASE ~(Plausible(f) /\ FixedAccepts(Sizes[f]))
  <2>1. pc' = (IF f = 1 THEN "fixed2" ELSE "variable") /\ mem' = mem /\ cur' = cur /\ route' = route /\ err' = err
    BY <1>8 DEF TryFixed
  <2>2. Refused(f)
    <3> SUFFICES ASSUME AllChars, Total = Sizes[f] PROVE FALSE
      BY DEF Refused
    <3>1. Plausible(f)
      BY <1>1, <1>3, PlausibleFacts
    <3> QED  BY <1>6, <1>8, <3>1
  <2>3. Shape' /\ Fresh'
    BY <1>1, <1>3, <2>1, SameBuffer
  <2>4. Typed'
    BY <1>1, <1>5, <2>1 DEF Inv, Typed
  <2>5. Phase'
    <3>1. CASE f = 1
      BY <1>1, <1>3, <1>5, <2>1, <2>2, <2>3, <3>1 DEF Phase
    <3>2. CASE f = 2
      BY <1>1, <1>3, <1>5, <2>1, <2>2, <2>3, <3>2 DEF Phase
    <3> QED  BY <3>1, <3>2
  <2> QED  BY <2>3, <2>4, <2>5 DEF Inv
<1> QED  BY <1>7, <1>8

LEMMA CountFacts ==
    ASSUME in \in Inputs, zeros = Ones, zeros < encLen
    PROVE  /\ n \in Nat \ {0} /\ zeros \in Nat /\ encLen \in Nat /\ zeros + n = encLen
           /\ numLimbs \in Nat
<1>1. encLen \in Nat /\ zeros \in Nat
  BY InputFacts, OnesFacts
<1>2. n \in Nat \ {0} /\ zeros + n = encLen
  BY <1>1 DEF n
<1> QED  BY <1>1, <1>2, LimbCount

\* Nothing is read yet, and the number so far is zero.
LEMMA BeginVariableInv == Inv /\ BeginVariable => Inv'
<1> SUFFICES ASSUME Inv, BeginVariable PROVE Inv'
  OBVIOUS
<1>1. /\ in \in Inputs /\ in' = in /\ zeros' = zeros /\ mem' = mem /\ cur' = cur /\ pos' = pos /\ top' = top
      /\ pc' = "fold" /\ route' = route /\ err' = err
      /\ limbs' = [j \in 0..(numLimbs - 1) |-> 0]
  BY DEF Inv, Typed, BeginVariable
<1>2. /\ zeros = Ones /\ zeros < encLen /\ Shape /\ Fresh /\ pos = 0 /\ top = 0
      /\ route = "none" /\ err = "none" /\ Refused(1) /\ Refused(2)
  BY DEF Inv, Phase, BeginVariable
<1>3. /\ encLen' = encLen /\ Ones' = Ones /\ encoded' = encoded
      /\ (\A g : Refused(g)' <=> Refused(g))
      /\ n' = n /\ numLimbs' = numLimbs /\ Shape' /\ Fresh'
  BY <1>1, <1>2, SameString, SameCounts, SameBuffer
<1>4. n \in Nat \ {0} /\ zeros \in Nat /\ numLimbs \in Nat
  BY <1>1, <1>2, CountFacts
<1>5. Folded' = 0
  <2>1. Folded' = ValueOf(zeros + 1, 0)
    BY <1>1, <1>2, <1>3 DEF Folded, ValueOf
  <2>2. \A k \in (zeros + 1)..(zeros + 1 + 0 - 1) : encoded[k] = One
    BY <1>4
  <2>3. zeros + 1 \in Nat /\ 0 \in Nat
    BY <1>4
  <2> QED  BY <2>1, <2>2, <2>3, ValueOfOnes
<1>6. \A j \in 0..(numLimbs - 1) : (0 \div Pow(LimbBase, j)) % LimbBase = 0
  <2> SUFFICES ASSUME NEW j \in 0..(numLimbs - 1) PROVE (0 \div Pow(LimbBase, j)) % LimbBase = 0
    OBVIOUS
  <2>1. j \in Nat /\ 0 \in Nat /\ LimbBase \in Nat \ {0} /\ 0 < LimbBase
    BY <1>4, Constants
  <2>2. Pow(LimbBase, j) \in Nat \ {0}
    BY <2>1, PowPos
  <2>3. 0 \div Pow(LimbBase, j) = 0
    BY <2>1, <2>2, DivNat
  <2>4. 0 % LimbBase = 0
    BY <2>1, DivNat
  <2> QED  BY <2>3, <2>4
<1>7. Folding'
  <2>1. pos' \in 0..n' /\ pos' = 0 /\ top' = 0 /\ top' \in 0..numLimbs' /\ zeros' + pos' = Ones
    BY <1>1, <1>2, <1>3, <1>4
  <2>2. \A k \in 1..(zeros' + pos') : IsChar(encoded'[k])
    BY <1>1, <1>3, <2>1, OnesFacts
  <2>3. limbs' = [j \in 0..(numLimbs' - 1) |-> (Folded' \div Pow(LimbBase, j)) % LimbBase]
    BY <1>1, <1>3, <1>5, <1>6
  <2>4. Folded' < Pow(LimbBase, top')
    <3>1. Pow(LimbBase, 0) = 1
      BY Constants, PowZero
    <3> QED  BY <1>5, <2>1, <3>1
  <2>5. LimbBase' = LimbBase /\ GroupChars' = GroupChars /\ (\A c : IsChar(c)' <=> IsChar(c))
    BY DEF LimbBase, IsChar
  <2>6. ~(top' > 0)
    BY <2>1
  <2> QED  BY <2>1, <2>2, <2>3, <2>4, <2>5, <2>6 DEF Folding, LimbBase, IsChar
<1>8. Typed'
  <2>1. \A j \in DOMAIN limbs' : limbs'[j] \in 0..(LimbBase - 1)
    BY <1>1, Constants
  <2>2. LimbBase' = LimbBase
    BY DEF LimbBase
  <2> QED  BY <1>1, <1>3, <2>1, <2>2 DEF Inv, Typed
<1>9. Phase'
  BY <1>1, <1>2, <1>3, <1>7 DEF Phase
<1> QED  BY <1>3, <1>8, <1>9 DEF Inv

\* The first group takes what the later ones, all full, leave over.
LEMMA GroupFacts ==
    ASSUME n \in Nat, Folding, pos < n
    PROVE  /\ groupLen \in 1..GroupChars /\ pos \in Nat /\ pos + groupLen \in 0..n
           /\ pos # 0 => groupLen = GroupChars
           /\ \E q \in 0..n : n - (pos + groupLen) = q * GroupChars
<1>1. GroupChars \in Nat \ {0} /\ n \in Int
  BY Constants
<1>2. pos \in Nat
  BY DEF Folding
<1>3. ASSUME NEW q \in Nat, NEW m \in Nat, m <= n, m = q * GroupChars
      PROVE  q \in 0..n
  <2>1. q <= q * GroupChars
    BY <1>1
  <2> QED  BY <1>3, <2>1
<1>4. CASE pos = 0
  <2> DEFINE r == n % GroupChars
             d == n \div GroupChars
  <2>1. r \in 0..(GroupChars - 1) /\ n = d * GroupChars + r
    BY <1>1, DivMod
  <2>2. d \in Nat
    BY <1>1, DivNat
  <2>3. groupLen = IF r # 0 THEN r ELSE GroupChars
    BY <1>4 DEF groupLen
  <2> HIDE DEF r, d
  <2>4. d * GroupChars \in Nat
    BY <1>1, <2>2
  <2>5. CASE r # 0
    <3>1. groupLen = r /\ r \in 1..GroupChars /\ r <= n /\ n - r = d * GroupChars /\ n - r \in Nat /\ n - r <= n
      BY <1>1, <2>1, <2>3, <2>4, <2>5
    <3>2. d \in 0..n
      BY <1>3, <2>2, <3>1
    <3>3. pos + groupLen = r /\ r \in 0..n
      BY <1>4, <3>1
    <3> QED  BY <1>2, <1>4, <3>1, <3>2, <3>3
  <2>6. CASE r = 0
    <3>1. groupLen = GroupChars /\ n = d * GroupChars
      BY <2>1, <2>3, <2>4, <2>6
    <3>2. d # 0
      <4>1. n # 0
        BY <1>4
      <4> QED  BY <1>1, <3>1, <4>1
    <3> DEFINE e == d - 1
    <3>3. e \in Nat /\ n = e * GroupChars + GroupChars /\ e * GroupChars \in Nat
      BY <1>1, <2>2, <3>1, <3>2
    <3> HIDE DEF e
    <3>4. n - GroupChars = e * GroupChars /\ n - GroupChars \in Nat /\ n - GroupChars <= n /\ GroupChars \in 0..n
      BY <1>1, <3>3
    <3>5. e \in 0..n
      BY <1>3, <3>3, <3>4
    <3>6. pos + groupLen = GroupChars /\ GroupChars \in 1..GroupChars
      BY <1>1, <1>4, <3>1
    <3> QED  BY <1>2, <1>4, <3>1, <3>4, <3>5, <3>6
  <2> QED  BY <2>5, <2>6
<1>5. CASE pos # 0
  <2>1. PICK q \in 0..n : n - pos = q * GroupChars
    BY <1>5 DEF Folding
  <2>2. groupLen = GroupChars
    BY <1>5 DEF groupLen
  <2>3. q # 0
    <3>1. n - pos # 0
      BY <1>2
    <3> QED  BY <1>1, <2>1, <3>1
  <2> DEFINE e == q - 1
  <2>4. e \in Nat /\ n - pos = e * GroupChars + GroupChars /\ e * GroupChars \in Nat /\ e \in 0..n
    BY <1>1, <2>1, <2>3
  <2> HIDE DEF e
  <2>5. n - (pos + GroupChars) = e * GroupChars /\ pos + GroupChars \in 0..n
    BY <1>1, <1>2, <2>4
  <2>6. GroupChars \in 1..GroupChars
    BY <1>1
  <2> QED  BY <1>2, <2>2, <2>4, <2>5, <2>6
<1> QED  BY <1>4, <1>5

\* A group: a number of its characters, added to 58^20 times the number before.
LEMMA GroupValue ==
    ASSUME in \in Inputs, zeros = Ones, zeros < encLen, Folding, pos < n, ~GroupBad,
           NEW g, g = ValueOf(zeros + pos + 1, groupLen)
    PROVE  /\ Folded \in Nat /\ g \in Nat /\ g < LimbBase * LimbBase
           /\ ValueOf(zeros + 1, pos + groupLen) = Folded * P58 + g
           /\ Folded * P58 + g < Pow(LimbBase, numLimbs)
           /\ \A k \in 1..(zeros + (pos + groupLen)) : IsChar(encoded[k])
<1>1. n \in Nat /\ zeros \in Nat /\ encLen \in Nat /\ zeros + n = encLen /\ numLimbs \in Nat
  BY CountFacts
<1>2. /\ groupLen \in 1..GroupChars /\ pos \in Nat /\ pos + groupLen \in 0..n
      /\ pos # 0 => groupLen = GroupChars
  BY <1>1, GroupFacts
<1>3. GroupChars \in Nat /\ groupLen \in Nat /\ pos + groupLen \in Nat /\ zeros + 1 \in Nat
      /\ (zeros + 1) + pos = zeros + pos + 1 /\ zeros + pos + 1 \in Nat
  BY <1>1, <1>2, Constants
<1>4. ASSUME NEW k \in 1..(zeros + (pos + groupLen)) PROVE IsChar(encoded[k])
  <2>1. CASE k <= zeros + pos
    <3>1. k \in 1..(zeros + pos)
      BY <1>1, <1>2, <1>3, <2>1
    <3> QED  BY <3>1 DEF Folding
  <2>2. CASE ~(k <= zeros + pos)
    <3>1. k - (zeros + pos) \in 1..groupLen /\ zeros + pos + (k - (zeros + pos)) = k
      BY <1>1, <1>2, <1>3, <2>2
    <3> QED  BY <3>1 DEF GroupBad
  <2> QED  BY <2>1, <2>2
<1>5. Valid(zeros + 1, pos + groupLen)
  <2>1. \A k \in (zeros + 1)..(zeros + 1 + (pos + groupLen) - 1) : k \in 1..(zeros + (pos + groupLen))
    BY <1>1, <1>3
  <2> QED  BY <1>4, <2>1 DEF Valid
<1>6. Valid(zeros + 1, pos)
  <2>1. \A k \in (zeros + 1)..(zeros + 1 + pos - 1) : k \in 1..(zeros + (pos + groupLen))
    BY <1>1, <1>2, <1>3
  <2> QED  BY <1>4, <2>1 DEF Valid
<1>7. Valid(zeros + pos + 1, groupLen)
  <2>1. \A k \in (zeros + pos + 1)..(zeros + pos + 1 + groupLen - 1) : k \in 1..(zeros + (pos + groupLen))
    BY <1>1, <1>2, <1>3
  <2> QED  BY <1>4, <2>1 DEF Valid
<1>8. Folded \in Nat /\ Folded < Pow(Base, pos)
  <2>1. Folded \in 0..(Pow(Base, pos) - 1) /\ Folded \in Nat
    BY <1>2, <1>3, <1>6, ValueOfBound DEF Folded
  <2>2. Pow(Base, pos) \in Int
    BY <1>2, PowInt, Constants
  <2> QED  BY <2>1, <2>2
<1>9. g \in Nat /\ g < Pow(Base, groupLen)
  <2>1. g \in 0..(Pow(Base, groupLen) - 1) /\ g \in Nat
    BY <1>3, <1>7, ValueOfBound
  <2>2. Pow(Base, groupLen) \in Int
    BY <1>3, PowInt, Constants
  <2> QED  BY <2>1, <2>2
<1>10. g < LimbBase * LimbBase
  <2>1. Pow(Base, groupLen) <= Pow(Base, GroupChars)
    <3>1. groupLen <= GroupChars
      BY <1>2, <1>3
    <3> QED  BY <1>3, <3>1, PowMonotone, Constants
  <2>2. Pow(Base, GroupChars) < LimbBase * LimbBase
    BY SizesAssumption
  <2>3. Pow(Base, groupLen) \in Int /\ Pow(Base, GroupChars) \in Int
    BY <1>3, PowInt, Constants
  <2>4. LimbBase * LimbBase \in Int
    BY Constants
  <2> QED  BY <1>9, <2>1, <2>2, <2>3, <2>4
<1>11. ValueOf(zeros + 1, pos + groupLen) = Folded * Pow(Base, groupLen) + g
  <2>1. ValueOf(zeros + 1, pos + groupLen)
          = ValueOf(zeros + 1, pos) * Pow(Base, groupLen) + ValueOf((zeros + 1) + pos, groupLen)
    BY <1>2, <1>3, <1>5, ValueOfJoin
  <2> QED  BY <1>3, <2>1 DEF Folded
<1>12. Folded * Pow(Base, groupLen) = Folded * P58
  <2>1. Pow(Base, groupLen) \in Int /\ P58 \in Int
    BY <1>3, PowInt, Constants DEF P58
  <2>2. CASE pos = 0
    <3>1. Pow(Base, 0) = 1
      BY Constants, PowZero
    <3>2. Folded = 0
      BY <1>8, <2>2, <3>1
    <3> QED  BY <2>1, <3>2
  <2>3. CASE pos # 0
    BY <1>2, <2>3 DEF P58
  <2> QED  BY <2>2, <2>3
<1>13. ValueOf(zeros + 1, pos + groupLen) < Pow(LimbBase, numLimbs)
  <2> DEFINE m == pos + groupLen
  <2>1. ValueOf(zeros + 1, m) \in 0..(Pow(Base, m) - 1)
    BY <1>3, <1>5, ValueOfBound
  <2>2. Pow(Base, m) <= Pow(Base, n)
    <3>1. m \in Nat /\ m <= n
      BY <1>1, <1>2, <1>3
    <3> HIDE DEF m
    <3> QED  BY <1>1, <3>1, PowMonotone, Constants
  <2>3. Pow(Base, n) <= Pow(LimbBase, numLimbs)
    BY <1>1, LimbCount
  <2>4. Pow(Base, m) \in Int /\ Pow(Base, n) \in Int /\ Pow(LimbBase, numLimbs) \in Int
    BY <1>1, <1>3, PowInt, Constants
  <2> HIDE DEF m
  <2>5. ValueOf(zeros + 1, m) < Pow(LimbBase, numLimbs)
    BY <2>1, <2>2, <2>3, <2>4
  <2> QED  BY <2>5 DEF m
<1> QED  BY <1>4, <1>8, <1>9, <1>10, <1>11, <1>12, <1>13

LEMMA FoldGroupInv == Inv /\ FoldGroup => Inv'
<1> SUFFICES ASSUME Inv, FoldGroup PROVE Inv'
  OBVIOUS
<1> DEFINE g == ValueOf(zeros + pos + 1, groupLen)
           c == CarryInto(g)
           last == c[top]
           more == IF last \div LimbBase # 0 THEN 2 ELSE IF last # 0 THEN 1 ELSE 0
           x == Folded
           T == x * P58 + g
<1>1. /\ in \in Inputs /\ in' = in /\ zeros' = zeros /\ mem' = mem /\ cur' = cur /\ pc' = pc
      /\ route' = route /\ err' = err
  BY DEF Inv, Typed, FoldGroup
<1>2. pc = "fold" /\ pos < n /\ ~GroupBad /\ top' = top + more /\ pos' = pos + groupLen
      /\ limbs' = [j \in DOMAIN limbs \cup top..(top + more - 1) |->
                     IF j < top THEN (limbs[j] * P58 + c[j]) % LimbBase
                     ELSE IF j = top /\ more > 0 THEN last % LimbBase
                     ELSE IF j = top + 1 /\ more > 1 THEN last \div LimbBase
                     ELSE limbs[j]]
  BY DEF FoldGroup, P58
<1>3. /\ zeros = Ones /\ zeros < encLen /\ Shape /\ Fresh /\ Folding
      /\ route = "none" /\ err = "none" /\ Refused(1) /\ Refused(2)
  BY <1>2 DEF Inv, Phase
<1>4. /\ encLen' = encLen /\ Ones' = Ones /\ encoded' = encoded
      /\ (\A f : Refused(f)' <=> Refused(f))
      /\ n' = n /\ numLimbs' = numLimbs /\ Shape' /\ Fresh'
  BY <1>1, <1>3, SameString, SameCounts, SameBuffer
<1>5. n \in Nat /\ zeros \in Nat /\ numLimbs \in Nat /\ encLen \in Nat /\ zeros + n = encLen
  BY <1>1, <1>3, CountFacts
<1>6. /\ groupLen \in 1..GroupChars /\ pos \in Nat /\ pos + groupLen \in 0..n
      /\ \E q \in 0..n : n - (pos + groupLen) = q * GroupChars
  BY <1>2, <1>3, <1>5, GroupFacts
<1>7. /\ x \in Nat /\ g \in Nat /\ g < LimbBase * LimbBase
      /\ ValueOf(zeros + 1, pos + groupLen) = T
      /\ T < Pow(LimbBase, numLimbs)
      /\ \A k \in 1..(zeros + (pos + groupLen)) : IsChar(encoded[k])
  BY <1>1, <1>2, <1>3, GroupValue
<1>8. /\ top \in 0..numLimbs /\ x < Pow(LimbBase, top) /\ (top > 0 => Pow(LimbBase, top - 1) <= x)
      /\ limbs = [j \in 0..(numLimbs - 1) |-> (x \div Pow(LimbBase, j)) % LimbBase]
  BY <1>3 DEF Folding
<1>9. /\ top + more \in 0..numLimbs /\ more \in 0..2 /\ T < Pow(LimbBase, top + more)
      /\ top + more > 0 => Pow(LimbBase, top + more - 1) <= T
      /\ limbs' = [j \in 0..(numLimbs - 1) |-> (T \div Pow(LimbBase, j)) % LimbBase]
  <2> DEFINE N == numLimbs
             h == [j \in DOMAIN limbs \cup top..(top + more - 1) |->
                     IF j < top THEN (limbs[j] * P58 + c[j]) % LimbBase
                     ELSE IF j = top /\ more > 0 THEN last % LimbBase
                     ELSE IF j = top + 1 /\ more > 1 THEN last \div LimbBase
                     ELSE limbs[j]]
  <2>1. Multiplied(x, g, N, T, c, last, more, h)
    <3>1. /\ N \in Nat /\ T = x * P58 + g /\ c = CarryInto(g) /\ last = c[top]
          /\ more = IF last \div LimbBase # 0 THEN 2 ELSE IF last # 0 THEN 1 ELSE 0
          /\ h = [j \in DOMAIN limbs \cup top..(top + more - 1) |->
                    IF j < top THEN (limbs[j] * P58 + c[j]) % LimbBase
                    ELSE IF j = top /\ more > 0 THEN last % LimbBase
                    ELSE IF j = top + 1 /\ more > 1 THEN last \div LimbBase
                    ELSE limbs[j]]
      BY <1>5
    <3>2. /\ top \in 0..N /\ x < Pow(LimbBase, top) /\ (top > 0 => Pow(LimbBase, top - 1) <= x)
          /\ limbs = [j \in 0..(N - 1) |-> (x \div Pow(LimbBase, j)) % LimbBase]
      BY <1>8
    <3>3. x \in Nat /\ g \in Nat /\ g < LimbBase * LimbBase /\ T < Pow(LimbBase, N)
      BY <1>7
    <3> HIDE DEF N, T, x, g, c, last, more, h
    <3> QED  BY <3>1, <3>2, <3>3, Zenon DEF Multiplied
  <2>2. limbs' = h
    BY <1>2
  <2> HIDE DEF N, T, x, g, c, last, more, h
  <2>3. /\ top + more \in 0..N /\ more \in 0..2 /\ T < Pow(LimbBase, top + more)
        /\ top + more > 0 => Pow(LimbBase, top + more - 1) <= T
        /\ h = [j \in 0..(N - 1) |-> (T \div Pow(LimbBase, j)) % LimbBase]
    BY <2>1, FoldFacts
  <2> QED  BY <2>2, <2>3 DEF N
<1>10. Folded' = T
  <2>1. Folded' = ValueOf(zeros + 1, pos + groupLen)
    BY <1>1, <1>2, <1>4 DEF Folded, ValueOf
  <2> QED  BY <1>7, <2>1
<1>11. T \in Nat
  <2>1. P58 \in Nat
    BY Constants, PowPos DEF P58
  <2> HIDE DEF x, g
  <2> QED  BY <1>7, <2>1
<1> HIDE DEF T, x, g, c, last, more
<1>12. Folding'
  <2>1. pos' \in 0..n' /\ (\E q \in 0..n' : n' - pos' = q * GroupChars)
    BY <1>2, <1>4, <1>6
  <2>2. \A k \in 1..(zeros' + pos') : IsChar(encoded'[k])
    BY <1>1, <1>2, <1>4, <1>7
  <2>3. limbs' = [j \in 0..(numLimbs' - 1) |-> (Folded' \div Pow(LimbBase, j)) % LimbBase]
    BY <1>4, <1>9, <1>10
  <2>4. top' \in 0..numLimbs' /\ Folded' < Pow(LimbBase, top')
        /\ (top' > 0 => Pow(LimbBase, top' - 1) <= Folded')
    <3> DEFINE u == top + more
    <3>1. top' = u /\ Folded' = T /\ numLimbs' = numLimbs
      BY <1>2, <1>4, <1>10
    <3>2. u \in 0..numLimbs /\ T < Pow(LimbBase, u)
      BY <1>9
    <3>3. u > 0 => Pow(LimbBase, u - 1) <= T
      <4>1. u - 1 = top + more - 1
        BY <1>5, <1>8, <1>9
      <4> QED  BY <1>9, <4>1
    <3> HIDE DEF u
    <3> QED  BY <3>1, <3>2, <3>3
  <2> QED  BY <2>1, <2>2, <2>3, <2>4 DEF Folding, LimbBase, IsChar
<1>13. Typed'
  <2>1. \A j \in DOMAIN limbs' : limbs'[j] \in 0..(LimbBase - 1)
    <3> SUFFICES ASSUME NEW j \in 0..(numLimbs - 1)
                 PROVE  (T \div Pow(LimbBase, j)) % LimbBase \in 0..(LimbBase - 1)
      BY <1>9
    <3>1. j \in Nat /\ LimbBase \in Nat \ {0}
      BY <1>5, Constants
    <3>2. Pow(LimbBase, j) \in Nat \ {0}
      BY <3>1, PowPos
    <3>3. T \div Pow(LimbBase, j) \in Nat
      BY <1>11, <3>2, DivNat
    <3>4. T \div Pow(LimbBase, j) \in Int
      BY <3>3
    <3> QED  BY <3>1, <3>4, DivMod
  <2>2. LimbBase' = LimbBase
    BY DEF LimbBase
  <2>3. top' \in Nat /\ pos' \in 0..encLen'
    BY <1>2, <1>4, <1>5, <1>6, <1>9
  <2> QED  BY <1>1, <1>4, <2>1, <2>2, <2>3 DEF Inv, Typed
<1>14. Phase'
  BY <1>1, <1>2, <1>3, <1>4, <1>12 DEF Phase
<1> QED  BY <1>4, <1>13, <1>14 DEF Inv

\* A nil slice, and an error.
LEMMA RejectGroupInv == Inv /\ RejectGroup => Inv'
<1> SUFFICES ASSUME Inv, RejectGroup PROVE Inv'
  OBVIOUS
<1>1. /\ in \in Inputs /\ in' = in /\ zeros' = zeros /\ mem' = mem /\ pos' = pos /\ limbs' = limbs
      /\ top' = top /\ cur' = [arr |-> "new", len |-> 0, cap |-> 0] /\ pc' = "done"
      /\ route' = "variable" /\ err' = "ErrInvalidChar" /\ pc = "fold" /\ pos < n /\ GroupBad
  BY DEF Inv, Typed, RejectGroup, Return
<1>2. /\ zeros = Ones /\ zeros < encLen /\ Shape /\ Fresh /\ Folding
  BY <1>1 DEF Inv, Phase
<1>3. /\ encLen' = encLen /\ start' = start /\ Ones' = Ones /\ (AllChars' <=> AllChars)
  BY <1>1, SameString
<1>4. n \in Nat /\ zeros \in Nat /\ encLen \in Nat /\ zeros + n = encLen
  BY <1>1, <1>2, CountFacts
<1>5. groupLen \in Nat /\ pos \in Nat /\ pos + groupLen \in 0..n
  <2>1. groupLen \in 1..GroupChars /\ pos \in Nat /\ pos + groupLen \in 0..n
    BY <1>1, <1>2, <1>4, GroupFacts
  <2> QED  BY <2>1, Constants
<1>6. ~AllChars
  <2>1. PICK k \in 1..groupLen : ~IsChar(encoded[zeros + pos + k])
    BY <1>1 DEF GroupBad
  <2>2. zeros + pos + k \in 1..encLen
    BY <1>4, <1>5
  <2> QED  BY <2>1, <2>2 DEF AllChars
<1>7. Shape'
  <2>1. cur' \in [arr : {"dst", "new"}, len : Nat, cap : Nat] /\ cur'.len <= cur'.cap
    BY <1>1
  <2> QED  BY <1>1, <1>2, <1>3, <2>1 DEF Shape, Cell
<1>8. Typed'
  BY <1>1, <1>3 DEF Inv, Typed
<1>9. Phase'
  <2>1. \A x \in start'..(in'.dst.cap - 1) : mem'["dst"][x] = Dirty
    BY <1>1, <1>2, <1>3 DEF Fresh
  <2>2. Final'
    BY <1>1, <1>3, <1>6 DEF Final
  <2> QED  BY <1>1, <1>2, <1>3, <2>1, <2>2 DEF Phase
<1> QED  BY <1>7, <1>8, <1>9 DEF Inv

\* Folding says nothing of the buffer.
LEMMA SameFolding ==
    ASSUME in' = in, zeros' = zeros, pos' = pos, limbs' = limbs, top' = top
    PROVE  Folding' <=> Folding
<1>1. n' = n /\ numLimbs' = numLimbs /\ encoded' = encoded
  BY SameCounts, SameString
<1>2. Folded' = Folded
  BY <1>1 DEF Folded, ValueOf
<1> QED  BY <1>1, <1>2 DEF Folding, LimbBase, IsChar

\* All characters are read: the limbs are the value, and their bytes its bytes.
LEMMA AtEnd ==
    ASSUME in \in Inputs, zeros = Ones, zeros < encLen, Folding, pos = n
    PROVE  /\ AllChars /\ payload \in Nat /\ zeros + payload = Total
           /\ \A y \in 0..(payload - 1) : ByteAt(y) = (X \div Pow(ByteBase, y)) % ByteBase
<1>1. n \in Nat /\ zeros \in Nat /\ encLen \in Nat /\ zeros + n = encLen /\ numLimbs \in Nat /\ n = encLen - Ones
  BY CountFacts DEF n
<1>2. AllChars
  <2>1. zeros + pos = encLen
    BY <1>1
  <2> QED  BY <2>1 DEF Folding, AllChars
<1>3. X \in Nat \ {0} /\ X = Folded
  <2>1. X = ValueOf(Ones + 1, encLen - Ones) /\ X \in Nat \ {0}
    BY <1>2, WholeValue
  <2> QED  BY <1>1, <2>1 DEF Folded
<1>4. /\ top \in 0..numLimbs /\ X < Pow(LimbBase, top) /\ (top > 0 => Pow(LimbBase, top - 1) <= X)
      /\ limbs = [j \in 0..(numLimbs - 1) |-> (X \div Pow(LimbBase, j)) % LimbBase]
  BY <1>3 DEF Folding
<1>5. top \in 1..numLimbs
  <2>1. Pow(LimbBase, 0) = 1
    BY Constants, PowZero
  <2>2. top # 0
    BY <1>3, <1>4, <2>1
  <2> QED  BY <1>1, <1>4, <2>2
<1> DEFINE N == numLimbs
           x == X
<1>6. /\ x \in Nat \ {0} /\ N \in Nat /\ top \in 1..N
      /\ limbs = [j \in 0..(N - 1) |-> (x \div Pow(LimbBase, j)) % LimbBase]
      /\ x < Pow(LimbBase, top) /\ Pow(LimbBase, top - 1) <= x
  BY <1>1, <1>3, <1>4, <1>5
<1> HIDE DEF N, x
<1>7. payload = byteLen(x) /\ \A y \in 0..(payload - 1) : y \div LimbBytes \in 0..(N - 1)
  BY <1>6, PayloadFacts
<1>8. byteLen(x) \in Nat /\ Total - Ones = byteLen(x) /\ Total \in Nat
  BY <1>2, TotalFacts DEF x
<1>9. payload \in Nat /\ zeros + payload = Total
  BY <1>1, <1>7, <1>8
<1>10. ASSUME NEW y \in 0..(payload - 1) PROVE ByteAt(y) = (x \div Pow(ByteBase, y)) % ByteBase
  <2>1. y \in Nat /\ x \in Nat /\ y \div LimbBytes \in 0..(N - 1)
    BY <1>6, <1>7, <1>9
  <2> QED  BY <1>6, <2>1, ByteAtFacts
<1> QED  BY <1>2, <1>9, <1>10 DEF x

LEMMA AllocInv == Inv /\ Alloc => Inv'
<1> SUFFICES ASSUME Inv, Alloc PROVE Inv'
  OBVIOUS
<1>1. /\ in \in Inputs /\ in' = in /\ zeros' = zeros /\ pos' = pos /\ limbs' = limbs /\ top' = top
      /\ route' = route /\ err' = err /\ pc = "fold" /\ pc' = "prefix" /\ pos = n
      /\ Resize(start + zeros + payload)
  BY DEF Inv, Typed, Alloc
<1>2. /\ zeros = Ones /\ zeros < encLen /\ Shape /\ Fresh /\ Folding
      /\ route = "none" /\ err = "none" /\ Refused(1) /\ Refused(2)
  BY <1>1 DEF Inv, Phase
<1>3. /\ encLen' = encLen /\ start' = start /\ Ones' = Ones /\ Total' = Total
      /\ (\A f : Refused(f)' <=> Refused(f)) /\ n' = n /\ Folding'
  BY <1>1, <1>2, SameString, SameCounts, SameFolding
<1>4. AllChars /\ payload \in Nat /\ zeros + payload = Total
  BY <1>1, <1>2, AtEnd
<1>5. start \in Nat /\ zeros \in Nat /\ Live /\ cur.len = start
  BY <1>1, <1>2, InputFacts, CountFacts, FreshFacts
<1>6. start + zeros + payload = start + Total /\ start + Total \in Nat /\ cur.len <= start + Total
  BY <1>4, <1>5
<1>7. Shape' /\ Live' /\ cur'.len = start + Total
  <2> DEFINE t == start + Total
  <2>1. t \in Nat /\ cur.len <= t /\ Resize(t)
    BY <1>1, <1>6
  <2> HIDE DEF t
  <2>2. Shape' /\ Live' /\ cur'.len = t
    BY <1>1, <1>2, <1>5, <2>1, ResizeFacts
  <2> QED  BY <2>2 DEF t
<1>8. Typed'
  <2>1. LimbBase' = LimbBase
    BY DEF LimbBase
  <2> QED  BY <1>1, <1>3, <2>1 DEF Inv, Typed
<1>9. Phase'
  BY <1>1, <1>2, <1>3, <1>7 DEF Phase
<1> QED  BY <1>7, <1>8, <1>9 DEF Inv

\* Cells of the slice's array are replaced, from lo up to hi, and the slice stays.
LEMMA OverwriteFacts ==
    ASSUME in \in Inputs, in' = in, Shape, Live, cur' = cur, NEW h, NEW lo \in Nat, NEW hi \in Nat,
           start <= lo, mem' = [mem EXCEPT ![cur.arr] = h], DOMAIN h = DOMAIN mem[cur.arr],
           \A x \in 0..(cur.cap - 1) :
             IF x >= lo /\ x < hi THEN h[x] \in Cell ELSE h[x] = mem[cur.arr][x]
    PROVE  Shape' /\ Live' /\ mem'[cur'.arr] = h
<1>1. /\ cur \in [arr : {"dst", "new"}, len : Nat, cap : Nat]
      /\ cur.arr \in {"dst", "new"} /\ cur.len \in Nat /\ cur.cap \in Nat /\ cur.len <= cur.cap
  BY DEF Shape
<1>2. start \in Nat /\ start <= cur.len
  BY InputFacts DEF Live
<1>3. Holds(h, cur.cap)
  <2>1. start <= cur.cap
    BY <1>1, <1>2
  <2> DEFINE f == mem[cur.arr]
             c == cur.cap
  <2>2. /\ c \in Nat /\ Holds(f, c) /\ start <= c /\ DOMAIN h = DOMAIN f
        /\ \A x \in 0..(c - 1) : IF x >= lo /\ x < hi THEN h[x] \in Cell ELSE h[x] = f[x]
    BY <1>1, <2>1, ArrayFacts
  <2> HIDE DEF f, c
  <2>3. Holds(h, c)
    BY <2>2, PutFacts
  <2> QED  BY <2>3 DEF c
<1>4. cur = [arr |-> cur.arr, len |-> cur.len, cap |-> cur.cap]
  BY <1>1
<1>5. Stored(cur.arr, h, cur.len, cur.cap) /\ Room(cur.arr, cur.len, cur.cap)
  BY <1>1, <1>4 DEF Stored, Room
<1> QED  BY <1>1, <1>3, <1>5, StoreFacts

LEMMA WritePrefixInv == Inv /\ WritePrefix => Inv'
<1> SUFFICES ASSUME Inv, WritePrefix PROVE Inv'
  OBVIOUS
<1> DEFINE h == [x \in DOMAIN mem[cur.arr] |->
                   IF x >= start /\ x < start + zeros THEN 0 ELSE mem[cur.arr][x]]
<1>1. /\ in \in Inputs /\ in' = in /\ zeros' = zeros /\ cur' = cur /\ pos' = pos /\ limbs' = limbs
      /\ top' = top /\ route' = route /\ err' = err /\ pc = "prefix" /\ pc' = "bytes"
      /\ mem' = [mem EXCEPT ![cur.arr] = h]
  BY DEF Inv, Typed, WritePrefix
<1>2. /\ zeros = Ones /\ zeros < encLen /\ Shape /\ Live /\ Folding /\ pos = n
      /\ cur.len = start + Total /\ route = "none" /\ err = "none" /\ Refused(1) /\ Refused(2)
  BY <1>1 DEF Inv, Phase
<1>3. /\ encLen' = encLen /\ start' = start /\ Ones' = Ones /\ Total' = Total
      /\ (\A k : Out(k)' = Out(k))
      /\ (\A f : Refused(f)' <=> Refused(f)) /\ n' = n /\ Folding'
  BY <1>1, <1>2, SameString, SameCounts, SameFolding
<1>4. AllChars /\ payload \in Nat /\ zeros + payload = Total
  BY <1>1, <1>2, AtEnd
<1>5. start \in Nat /\ zeros \in Nat /\ cur.len \in Nat /\ cur.cap \in Nat /\ cur.len <= cur.cap
      /\ DOMAIN mem[cur.arr] = 0..(cur.cap - 1)
  BY <1>1, <1>2, InputFacts, CountFacts DEF Shape, Live
<1>6. \A x \in 0..(cur.cap - 1) :
        IF x >= start /\ x < start + zeros THEN h[x] \in Cell ELSE h[x] = mem[cur.arr][x]
  <2>1. 0 \in Cell
    BY Constants DEF Cell
  <2> QED  BY <1>5, <2>1
<1>7. Shape' /\ Live' /\ mem'[cur'.arr] = h
  <2> DEFINE lo == start
             hi == start + zeros
  <2>1. lo \in Nat /\ hi \in Nat /\ start <= lo /\ DOMAIN h = DOMAIN mem[cur.arr]
    BY <1>5
  <2>2. \A x \in 0..(cur.cap - 1) :
          IF x >= lo /\ x < hi THEN h[x] \in Cell ELSE h[x] = mem[cur.arr][x]
    BY <1>6
  <2> HIDE DEF lo, hi, h
  <2> QED  BY <1>1, <1>2, <2>1, <2>2, OverwriteFacts
<1>8. Written(zeros)'
  <2> SUFFICES ASSUME NEW k \in 0..(zeros - 1) PROVE h[start + k] = Out(k)
    BY <1>1, <1>3, <1>7 DEF Written
  <2>1. start + k \in 0..(cur.cap - 1) /\ start + k >= start /\ start + k < start + zeros /\ k < zeros
    BY <1>2, <1>4, <1>5
  <2>2. h[start + k] = 0
    BY <1>5, <2>1
  <2> QED  BY <1>2, <2>1, <2>2 DEF Out
<1>9. Typed'
  <2>1. LimbBase' = LimbBase
    BY DEF LimbBase
  <2> QED  BY <1>1, <1>3, <2>1 DEF Inv, Typed
<1>10. Phase'
  <2>1. cur'.len = start' + Total' /\ pos' = n'
    BY <1>1, <1>2, <1>3
  <2> HIDE DEF h
  <2> QED  BY <1>1, <1>2, <1>3, <1>7, <1>8, <2>1 DEF Phase
<1> QED  BY <1>7, <1>9, <1>10 DEF Inv

\* What the last byte is to the limbs the first is to the value.
LEMMA WriteBytesInv == Inv /\ WriteBytes => Inv'
<1> SUFFICES ASSUME Inv, WriteBytes PROVE Inv'
  OBVIOUS
<1> DEFINE h == [x \in DOMAIN mem[cur.arr] |->
                   IF x >= cur.len - payload /\ x < cur.len THEN ByteAt(cur.len - 1 - x)
                   ELSE mem[cur.arr][x]]
<1>1. /\ in \in Inputs /\ in' = in /\ zeros' = zeros /\ cur' = cur /\ pos' = pos /\ limbs' = limbs
      /\ top' = top /\ route' = "variable" /\ err' = "nil" /\ pc = "bytes" /\ pc' = "done"
      /\ mem' = [mem EXCEPT ![cur.arr] = h]
  BY DEF Inv, Typed, WriteBytes, Return
<1>2. /\ zeros = Ones /\ zeros < encLen /\ Ones < encLen /\ Shape /\ Live /\ Folding /\ pos = n
      /\ cur.len = start + Total /\ Written(zeros) /\ Refused(1) /\ Refused(2)
  BY <1>1 DEF Inv, Phase
<1>3. /\ encLen' = encLen /\ start' = start /\ Ones' = Ones /\ Total' = Total
      /\ (AllChars' <=> AllChars) /\ (\A k : Out(k)' = Out(k))
  BY <1>1, SameString
<1>4. /\ AllChars /\ payload \in Nat /\ zeros + payload = Total
      /\ \A y \in 0..(payload - 1) : ByteAt(y) = (X \div Pow(ByteBase, y)) % ByteBase
  BY <1>1, <1>2, AtEnd
<1>5. start \in Nat /\ zeros \in Nat /\ cur.len \in Nat /\ cur.cap \in Nat /\ cur.len <= cur.cap
      /\ DOMAIN mem[cur.arr] = 0..(cur.cap - 1) /\ Total \in Nat
  <2>1. start \in Nat /\ zeros \in Nat /\ cur.len \in Nat /\ cur.cap \in Nat /\ cur.len <= cur.cap
        /\ DOMAIN mem[cur.arr] = 0..(cur.cap - 1)
    BY <1>1, <1>2, InputFacts, CountFacts DEF Shape, Live
  <2> QED  BY <1>4, <2>1
<1>6. cur.len - payload = start + zeros
  BY <1>2, <1>4, <1>5
<1>7. ASSUME NEW k \in zeros..(Total - 1)
      PROVE  ByteAt(cur.len - 1 - (start + k)) = Out(k) /\ Out(k) \in Cell
  <2>1. cur.len - 1 - (start + k) = Total - 1 - k /\ Total - 1 - k \in 0..(payload - 1)
    BY <1>2, <1>4, <1>5
  <2>2. ByteAt(Total - 1 - k) = (X \div Pow(ByteBase, Total - 1 - k)) % ByteBase
    BY <1>4, <2>1
  <2>3. ~(k < Ones) /\ (Total - Ones) - 1 - (k - Ones) = Total - 1 - k /\ k \in 0..(Total - 1)
    BY <1>2, <1>4, <1>5
  <2>4. Out(k) = (X \div Pow(ByteBase, Total - 1 - k)) % ByteBase
    BY <2>3 DEF Out, Digit
  <2>5. Out(k) \in 0..(ByteBase - 1)
    BY <1>1, <1>4, <2>3, OutFacts
  <2> QED  BY <2>1, <2>2, <2>4, <2>5 DEF Cell
<1>8. ASSUME NEW x \in 0..(cur.cap - 1)
      PROVE  IF x >= start + zeros /\ x < cur.len
             THEN h[x] = Out(x - start) /\ h[x] \in Cell ELSE h[x] = mem[cur.arr][x]
  <2>1. h[x] = IF x >= start + zeros /\ x < cur.len THEN ByteAt(cur.len - 1 - x) ELSE mem[cur.arr][x]
    BY <1>5, <1>6
  <2>2. CASE x >= start + zeros /\ x < cur.len
    <3>1. x - start \in zeros..(Total - 1) /\ start + (x - start) = x
      BY <1>2, <1>5, <2>2
    <3> QED  BY <1>7, <2>1, <2>2, <3>1
  <2>3. CASE ~(x >= start + zeros /\ x < cur.len)
    BY <2>1, <2>3
  <2> QED  BY <2>2, <2>3
<1>9. Shape' /\ Live' /\ mem'[cur'.arr] = h
  <2> DEFINE lo == start + zeros
             hi == cur.len
  <2>1. lo \in Nat /\ hi \in Nat /\ start <= lo /\ DOMAIN h = DOMAIN mem[cur.arr]
    BY <1>5
  <2>2. \A x \in 0..(cur.cap - 1) :
          IF x >= lo /\ x < hi THEN h[x] \in Cell ELSE h[x] = mem[cur.arr][x]
    BY <1>8
  <2> HIDE DEF lo, hi, h
  <2> QED  BY <1>1, <1>2, <2>1, <2>2, OverwriteFacts
<1> HIDE DEF h
<1>10. Written(Total)'
  <2> SUFFICES ASSUME NEW k \in 0..(Total - 1) PROVE h[start + k] = Out(k)
    BY <1>3, <1>9 DEF Written
  <2>1. start + k \in 0..(cur.cap - 1) /\ start + k < cur.len /\ (start + k) - start = k
    BY <1>2, <1>5
  <2>2. CASE k < zeros
    <3>1. ~(start + k >= start + zeros) /\ k \in 0..(zeros - 1)
      BY <1>5, <2>2
    <3>2. h[start + k] = mem[cur.arr][start + k]
      BY <1>8, <2>1, <3>1
    <3> QED  BY <1>2, <3>1, <3>2 DEF Written
  <2>3. CASE ~(k < zeros)
    <3>1. start + k >= start + zeros
      BY <1>5, <2>3
    <3> QED  BY <1>8, <2>1, <3>1
  <2> QED  BY <2>2, <2>3
<1>11. Final'
  <2>1. cur'.len = start' + Total'
    BY <1>1, <1>2, <1>3
  <2>2. ~(\E f \in 1..2 : Total = Sizes[f])
    <3>1. Total # Sizes[1] /\ Total # Sizes[2]
      BY <1>2, <1>4 DEF Refused
    <3>2. \A f \in 1..2 : f = 1 \/ f = 2
      OBVIOUS
    <3> QED  BY <3>1, <3>2
  <2> QED  BY <1>1, <1>3, <1>4, <1>9, <1>10, <2>1, <2>2 DEF Final
<1>12. Typed'
  <2>1. LimbBase' = LimbBase
    BY DEF LimbBase
  <2> QED  BY <1>1, <1>3, <2>1 DEF Inv, Typed
<1>13. Phase'
  BY <1>1, <1>2, <1>3, <1>11 DEF Phase
<1> QED  BY <1>9, <1>12, <1>13 DEF Inv

\* math/big: the same bytes at once, or nothing when a character is not one.
LEMMA LargeInv == Inv /\ Large => Inv'
<1> SUFFICES ASSUME Inv, Large PROVE Inv'
  OBVIOUS
<1>1. /\ in \in Inputs /\ in' = in /\ zeros' = zeros /\ pos' = pos /\ limbs' = limbs /\ top' = top
      /\ pc = "variable"
  BY DEF Inv, Typed, Large
<1>2. /\ zeros = Ones /\ zeros < encLen /\ Ones < encLen /\ Shape /\ Fresh /\ Refused(1) /\ Refused(2)
  BY <1>1 DEF Inv, Phase
<1>3. /\ encLen' = encLen /\ start' = start /\ Ones' = Ones /\ Total' = Total
      /\ (AllChars' <=> AllChars) /\ (\A k : Out(k)' = Out(k))
  BY <1>1, SameString
<1>4. /\ start \in Nat /\ zeros \in Nat /\ n = encLen - Ones /\ Live /\ cur.len = start
      /\ cur.cap \in Nat /\ cur.len <= cur.cap
  BY <1>1, <1>2, InputFacts, CountFacts, FreshFacts DEF n, Shape
<1>5. LimbBase' = LimbBase
  BY DEF LimbBase
<1>6. CASE ~AllChars
  <2>1. /\ cur' = [arr |-> "new", len |-> 0, cap |-> 0] /\ pc' = "done" /\ route' = "large"
        /\ err' = "ErrInvalidChar" /\ mem' = mem
    BY <1>6 DEF Large, Return
  <2>2. Shape'
    <3>1. cur' \in [arr : {"dst", "new"}, len : Nat, cap : Nat] /\ cur'.len <= cur'.cap
      BY <2>1
    <3> QED  BY <1>1, <1>2, <1>3, <2>1, <3>1 DEF Shape, Cell
  <2>3. Typed'
    BY <1>1, <1>3, <1>5, <2>1 DEF Inv, Typed
  <2>4. \A x \in start'..(in'.dst.cap - 1) : mem'["dst"][x] = Dirty
    BY <1>1, <1>2, <1>3, <2>1 DEF Fresh
  <2>5. Final'
    BY <1>3, <1>6, <2>1 DEF Final
  <2>6. Phase'
    BY <1>1, <1>2, <1>3, <2>1, <2>4, <2>5 DEF Phase
  <2> QED  BY <2>2, <2>3, <2>6 DEF Inv
<1>7. CASE AllChars
  <2> DEFINE bs == BytesOf(X, byteLen(X))
             total == start + zeros + Len(bs)
             f == IF cur.cap < total THEN Grown(total) ELSE mem[cur.arr]
             a == IF cur.cap < total THEN "new" ELSE cur.arr
             c == IF cur.cap < total THEN total ELSE cur.cap
             h == [x \in DOMAIN f |->
                     IF x >= start /\ x < start + zeros THEN 0
                     ELSE IF x >= start + zeros /\ x < total THEN bs[x - start - zeros + 1]
                     ELSE f[x]]
  <2>1. X = ValueOf(zeros + 1, n) /\ X \in Nat
    BY <1>1, <1>2, <1>4, <1>7, WholeValue
  <2>2. mem' = [mem EXCEPT ![a] = h] /\ cur' = [arr |-> a, len |-> total, cap |-> c]
        /\ pc' = "done" /\ route' = "large" /\ err' = "nil"
    BY <1>7, <2>1 DEF Large, Return
  <2>3. Total \in Nat /\ Total - Ones = byteLen(X) /\ byteLen(X) \in Nat
    BY <1>1, <1>2, <1>7, TotalFacts
  <2>4. Len(bs) = byteLen(X) /\ \A k \in 1..byteLen(X) : bs[k] = Digit(X, k - 1, byteLen(X), ByteBase)
    BY <2>1, <2>3, BytesOfFacts
  <2> HIDE DEF bs
  <2>5. total = start + Total /\ total \in Nat /\ cur.len <= total /\ start + zeros <= total /\ start <= total
    BY <1>2, <1>4, <2>3, <2>4
  <2> HIDE DEF total
  <2>6. c \in Nat /\ total <= c /\ Room(a, total, c)
    BY <1>4, <2>5 DEF Room
  <2>7. Holds(f, c)
    <3>1. CASE cur.cap < total
      <4>1. Holds(Grown(total), total)
        BY <1>1, <1>2, <1>4, <2>5, GrownFacts
      <4> QED  BY <3>1, <4>1
    <3>2. CASE ~(cur.cap < total)
      <4>1. Holds(mem[cur.arr], cur.cap)
        BY <1>1, <1>2, <1>4, ArrayFacts
      <4> QED  BY <3>2, <4>1
    <3> QED  BY <3>1, <3>2
  <2> HIDE DEF a, c, f
  <2>8. ASSUME NEW k \in 0..(Total - 1)
        PROVE  h[start + k] = Out(k) /\ Out(k) \in Cell
    <3>1. start + k \in DOMAIN f /\ start + k >= start /\ start + k < total
      <4>1. DOMAIN f = 0..(c - 1)
        BY <2>7 DEF Holds
      <4> QED  BY <1>4, <2>3, <2>5, <2>6, <4>1
    <3>2. Out(k) \in Cell
      BY <1>1, <1>7, OutFacts DEF Cell
    <3>3. CASE k < zeros
      <4>1. start + k < start + zeros
        BY <1>4, <3>3
      <4>2. h[start + k] = 0
        BY <3>1, <4>1
      <4> QED  BY <1>2, <3>2, <3>3, <4>2 DEF Out
    <3>4. CASE ~(k < zeros)
      <4>1. ~(start + k < start + zeros) /\ start + k >= start + zeros
        BY <1>4, <3>4
      <4>2. h[start + k] = bs[(start + k) - start - zeros + 1]
        BY <3>1, <4>1
      <4>3. (start + k) - start - zeros + 1 = (k - Ones) + 1 /\ (k - Ones) + 1 \in 1..byteLen(X)
            /\ ((k - Ones) + 1) - 1 = k - Ones
        BY <1>2, <1>4, <2>3, <3>4
      <4>4. bs[(k - Ones) + 1] = Digit(X, k - Ones, byteLen(X), ByteBase)
        BY <2>4, <4>3
      <4>5. Out(k) = Digit(X, k - Ones, byteLen(X), ByteBase)
        BY <1>2, <2>3, <3>4 DEF Out
      <4> QED  BY <3>2, <4>2, <4>3, <4>4, <4>5
    <3> QED  BY <3>3, <3>4
  <2>9. \A x \in 0..(c - 1) : IF x >= start /\ x < total THEN h[x] \in Cell ELSE h[x] = f[x]
    <3> SUFFICES ASSUME NEW x \in 0..(c - 1)
                 PROVE  IF x >= start /\ x < total THEN h[x] \in Cell ELSE h[x] = f[x]
      OBVIOUS
    <3>1. CASE x >= start /\ x < total
      <4>1. x - start \in 0..(Total - 1) /\ start + (x - start) = x
        BY <1>4, <2>3, <2>5, <3>1
      <4>2. h[x] \in Cell
        <5> HIDE DEF h
        <5> QED  BY <2>8, <4>1
      <4> QED  BY <3>1, <4>2
    <3>2. CASE ~(x >= start /\ x < total)
      <4>1. x \in DOMAIN f
        BY <2>7 DEF Holds
      <4>2. ~(x >= start /\ x < start + zeros) /\ ~(x >= start + zeros /\ x < total)
        BY <1>4, <2>3, <2>5, <3>2
      <4>3. h[x] = f[x]
        BY <4>1, <4>2
      <4> QED  BY <3>2, <4>3
    <3> QED  BY <3>1, <3>2
  <2>10. DOMAIN h = DOMAIN f
    OBVIOUS
  <2> HIDE DEF h
  <2>11. Holds(h, c)
    <3>1. start <= start /\ start <= c
      BY <1>4, <2>5, <2>6
    <3> QED  BY <1>1, <1>4, <2>5, <2>6, <2>7, <2>9, <2>10, <3>1, PutFacts
  <2>12. Shape' /\ Live' /\ mem'[cur'.arr] = h /\ cur'.len = total
    <3>1. Stored(a, h, total, c)
      BY <2>2 DEF Stored
    <3> QED  BY <1>1, <1>2, <1>4, <2>5, <2>6, <2>11, <3>1, StoreFacts
  <2>13. Written(Total)'
    BY <1>3, <2>8, <2>12 DEF Written
  <2>14. Final'
    <3>1. cur'.len = start' + Total'
      BY <1>3, <2>5, <2>12
    <3>2. ~(\E g \in 1..2 : Total = Sizes[g])
      <4>1. Total # Sizes[1] /\ Total # Sizes[2]
        BY <1>2, <1>7 DEF Refused
      <4>2. \A g \in 1..2 : g = 1 \/ g = 2
        OBVIOUS
      <4> QED  BY <4>1, <4>2
    <3> QED  BY <1>3, <1>7, <2>2, <2>12, <2>13, <3>1, <3>2 DEF Final
  <2>15. Typed'
    BY <1>1, <1>3, <1>5, <2>2 DEF Inv, Typed
  <2>16. Phase'
    BY <1>1, <1>2, <1>3, <2>2, <2>14 DEF Phase
  <2> QED  BY <2>12, <2>15, <2>16 DEF Inv
<1> QED  BY <1>6, <1>7

LEMMA StutterInv == Inv /\ UNCHANGED vars => Inv'
<1> SUFFICES ASSUME Inv, UNCHANGED vars PROVE Inv'
  OBVIOUS
<1>1. /\ in' = in /\ pc' = pc /\ zeros' = zeros /\ mem' = mem /\ cur' = cur /\ pos' = pos
      /\ limbs' = limbs /\ top' = top /\ route' = route /\ err' = err
  BY DEF vars
<1>2. /\ encLen' = encLen /\ start' = start /\ Ones' = Ones /\ Total' = Total
      /\ (AllChars' <=> AllChars) /\ (\A f : Refused(f)' <=> Refused(f))
  BY <1>1, SameString
<1>3. (Shape' <=> Shape) /\ (Live' <=> Live) /\ (Fresh' <=> Fresh) /\ (Folding' <=> Folding) /\ n' = n
  BY <1>1, SameBuffer, SameFolding, SameCounts
<1>4. (Written(pos)' <=> Written(pos)) /\ (Written(zeros)' <=> Written(zeros))
      /\ (Written(Total)' <=> Written(Total))
  <2>1. \A k : Out(k)' = Out(k)
    BY <1>1, SameString
  <2> QED  BY <1>1, <1>2, <2>1 DEF Written
<1>5. Final' <=> Final
  BY <1>1, <1>2, <1>3, <1>4 DEF Final
<1>6. Typed'
  BY <1>1, <1>2 DEF Inv, Typed, LimbBase
<1>7. Phase'
  BY <1>1, <1>2, <1>3, <1>4, <1>5 DEF Inv, Phase
<1> QED  BY <1>3, <1>6, <1>7 DEF Inv

-----------------------------------------------------------------------------
(* The theorems *)

\* The inductive invariant: the limbs are the digits of the value read, and what
\* has been written behind the caller's bytes is a prefix of the result.
THEOREM Invariance == Spec => []Inv
<1>1. Inv /\ [Next]_vars => Inv'
  <2> SUFFICES ASSUME Inv, [Next]_vars PROVE Inv'
    OBVIOUS
  <2>1. CASE Begin  BY <2>1, BeginInv
  <2>2. CASE AppendZero  BY <2>2, AppendZeroInv
  <2>3. CASE ZerosDone  BY <2>3, ZerosDoneInv
  <2>4. CASE \E f \in 1..2 : TryFixed(f)  BY <2>4, TryFixedInv
  <2>5. CASE BeginVariable  BY <2>5, BeginVariableInv
  <2>6. CASE FoldGroup  BY <2>6, FoldGroupInv
  <2>7. CASE RejectGroup  BY <2>7, RejectGroupInv
  <2>8. CASE Alloc  BY <2>8, AllocInv
  <2>9. CASE WritePrefix  BY <2>9, WritePrefixInv
  <2>10. CASE WriteBytes  BY <2>10, WriteBytesInv
  <2>11. CASE Large  BY <2>11, LargeInv
  <2>12. CASE Terminated  BY <2>12, StutterInv DEF Terminated
  <2>13. CASE UNCHANGED vars  BY <2>13, StutterInv
  <2> QED
    BY <2>1, <2>2, <2>3, <2>4, <2>5, <2>6, <2>7, <2>8, <2>9, <2>10, <2>11, <2>12, <2>13 DEF Next
<1> QED  BY <1>1, InitInv, PTL DEF Spec

\* Variables have their types: above all, the slice stays within its capacity,
\* cells hold bytes, limbs are single words, and the caller's array its length.
THEOREM TypesAlwaysOK == Spec => []TypeOK
<1>1. Inv => TypeOK
  <2> SUFFICES ASSUME Inv PROVE TypeOK
    OBVIOUS
  <2>1. Typed /\ Shape
    BY DEF Inv
  <2>2. cur.arr \in {"dst", "new"} /\ cur.len \in 0..cur.cap
    BY <2>1 DEF Shape
  <2> QED  BY <2>1, <2>2 DEF TypeOK, Typed, Shape
<1> QED  BY <1>1, Invariance, PTL

\* Whichever route a string takes (appendZeros, Decode32 or Decode64, the limbs of
\* appendDecodeVariable, math/big), the slice returned is the caller's bytes and
\* then the decoding, for every string; and exactly the strings with a character
\* outside the alphabet are refused.
THEOREM DecodedExactly == Spec => []ResultExact
<1>1. Inv => ResultExact
  <2> SUFFICES ASSUME Inv, pc = "done"
               PROVE  IF AllChars
                      THEN /\ err = "nil"
                           /\ cur.len = start + Len(Expected)
                           /\ \A x \in 0..(cur.len - 1) :
                                mem[cur.arr][x] = IF x < start THEN Kept ELSE Expected[x - start + 1]
                      ELSE err = "ErrInvalidChar"
    BY DEF ResultExact
  <2>1. Final /\ in \in Inputs
    BY DEF Inv, Phase, Typed
  <2>2. CASE ~AllChars
    BY <2>1, <2>2 DEF Final
  <2>3. CASE AllChars
    <3>1. err = "nil" /\ Live /\ cur.len = start + Total /\ Written(Total)
      BY <2>1, <2>3 DEF Final
    <3>2. Len(Expected) = Total /\ \A k \in 1..Total : Expected[k] = Out(k - 1)
      BY <2>1, <2>3, ExpectedFacts
    <3>3. start \in Nat /\ Total \in Nat
      BY <2>1, <2>3, InputFacts, TotalFacts
    <3>4. ASSUME NEW x \in 0..(cur.len - 1)
          PROVE  mem[cur.arr][x] = IF x < start THEN Kept ELSE Expected[x - start + 1]
      <4>1. CASE x < start
        <5>1. x \in 0..(start - 1)
          BY <3>3, <4>1
        <5> QED  BY <3>1, <4>1, <5>1 DEF Live
      <4>2. CASE ~(x < start)
        <5>1. /\ x - start \in 0..(Total - 1) /\ start + (x - start) = x
              /\ x - start + 1 \in 1..Total /\ (x - start + 1) - 1 = x - start
          BY <3>1, <3>3, <4>2
        <5>2. mem[cur.arr][start + (x - start)] = Out(x - start)
          BY <3>1, <5>1 DEF Written
        <5>3. Expected[x - start + 1] = Out(x - start)
          BY <3>2, <5>1
        <5> QED  BY <4>2, <5>1, <5>2, <5>3
      <4> QED  BY <4>1, <4>2
    <3> QED  BY <2>3, <3>1, <3>2, <3>4
  <2> QED  BY <2>2, <2>3
<1> QED  BY <1>1, Invariance, PTL

\* At no moment are the caller's bytes touched, and a refused string leaves his
\* spare capacity alone as well: nothing is stored before the last check.
THEOREM CallerBufferAlwaysKept == Spec => []CallerBufferKept
<1>1. Inv => CallerBufferKept
  BY DEF Inv, Shape, Phase, CallerBufferKept
<1> QED  BY <1>1, Invariance, PTL

\* A new array is allocated if and only if the caller's cannot hold the result.
THEOREM AllocatesOnlyWhenFull == Spec => []ReusesCapacity
<1>1. Inv => ReusesCapacity
  <2> SUFFICES ASSUME Inv, pc = "done", err = "nil"
               PROVE  cur.arr = "dst" <=> start + Len(Expected) <= in.dst.cap
    BY DEF ReusesCapacity
  <2>1. Final /\ in \in Inputs
    BY DEF Inv, Phase, Typed
  <2>2. AllChars
    BY <2>1 DEF Final
  <2>3. Live /\ cur.len = start + Total
    BY <2>1, <2>2 DEF Final
  <2>4. Len(Expected) = Total
    BY <2>1, <2>2, ExpectedFacts
  <2> QED  BY <2>3, <2>4 DEF Live
<1> QED  BY <1>1, Invariance, PTL

\* The limb array that appendDecodeVariable sizes with a rational bound of
\* log 58 / log 256 is never too short, and its limbs make the value read so far:
\* no carry is lost, whatever the length of the string.
THEOREM LimbsAlwaysSuffice == Spec => []LimbsSuffice
<1>1. Inv => LimbsSuffice
  <2> SUFFICES ASSUME Inv, pc \in {"fold", "prefix", "bytes"}
               PROVE  /\ top <= numLimbs
                      /\ Value([j \in 0..(top - 1) |-> limbs[top - 1 - j]], top, LimbBase)
                           = ValueOf(zeros + 1, pos)
    BY DEF LimbsSuffice
  <2>1. Folding /\ in \in Inputs /\ zeros = Ones /\ zeros < encLen
    BY DEF Inv, Phase, Typed
  <2>2. n \in Nat /\ zeros \in Nat /\ numLimbs \in Nat
    BY <2>1, CountFacts
  <2>3. pos \in Nat /\ zeros + 1 \in Nat /\ top \in Nat /\ top <= numLimbs
    BY <2>1, <2>2 DEF Folding
  <2>4. Folded \in Nat
    <3>1. \A k \in (zeros + 1)..(zeros + 1 + pos - 1) : k \in 1..(zeros + pos)
      BY <2>2, <2>3
    <3>2. Valid(zeros + 1, pos)
      BY <2>1, <3>1 DEF Valid, Folding
    <3> QED  BY <2>3, <3>2, ValueOfBound DEF Folded
  <2> DEFINE f == [j \in 0..(top - 1) |-> limbs[top - 1 - j]]
  <2>5. ASSUME NEW k \in 0..(top - 1) PROVE f[k] = Digit(Folded, k, top, LimbBase)
    <3>1. top - 1 - k \in 0..(numLimbs - 1)
      BY <2>2, <2>3
    <3>2. limbs[top - 1 - k] = (Folded \div Pow(LimbBase, top - 1 - k)) % LimbBase
      BY <2>1, <3>1 DEF Folding
    <3> QED  BY <3>2 DEF Digit
  <2>6. Folded < Pow(LimbBase, top)
    BY <2>1 DEF Folding
  <2> HIDE DEF f
  <2>7. Value(f, top, LimbBase) = Folded
    BY <2>3, <2>4, <2>5, <2>6, ValueDigits, Constants
  <2> QED  BY <2>3, <2>7 DEF f, Folded
<1> QED  BY <1>1, Invariance, PTL

\* A string takes the fixed-size decoder if and only if it decodes to one of its
\* sizes: the byte counts and lengths tested up front never turn such a string away.
THEOREM FixedSizesAlwaysFast == Spec => []FixedSizesTakeFastPath
<1>1. Inv => FixedSizesTakeFastPath
  <2> SUFFICES ASSUME Inv, pc = "done", err = "nil", zeros < encLen
               PROVE  route = "fixed" <=> \E f \in 1..2 : Len(Expected) = Sizes[f]
    BY DEF FixedSizesTakeFastPath
  <2>1. Final /\ in \in Inputs
    BY DEF Inv, Phase, Typed
  <2>2. AllChars
    BY <2>1 DEF Final
  <2>3. route = "fixed" <=> \E f \in 1..2 : Total = Sizes[f]
    BY <2>1, <2>2 DEF Final
  <2>4. Len(Expected) = Total
    BY <2>1, <2>2, ExpectedFacts
  <2> QED  BY <2>3, <2>4
<1> QED  BY <1>1, Invariance, PTL

-----------------------------------------------------------------------------
(* The constants of the code *)

\* 58^m is at most c times 256^e.
Below(m, c, e) == m \in Nat /\ c \in Nat /\ e \in Nat /\ Pow(58, m) <= c * Pow(256, e)

LEMMA BelowAdd ==
    ASSUME NEW m, NEW c, NEW e, Below(m, c, e), NEW k, NEW d, NEW f, Below(k, d, f)
    PROVE  Below(m + k, c * d, e + f)
<1> DEFINE a == Pow(58, m)
           b == Pow(58, k)
           p == Pow(256, e)
           q == Pow(256, f)
<1>1. /\ m \in Nat /\ c \in Nat /\ e \in Nat /\ a <= c * p
      /\ k \in Nat /\ d \in Nat /\ f \in Nat /\ b <= d * q
  BY DEF Below
<1>2. Pow(58, m + k) = a * b
  BY <1>1, PowAdd
<1>3. Pow(256, e + f) = p * q
  BY <1>1, PowAdd
<1>4. a \in Nat /\ b \in Nat /\ p \in Nat /\ q \in Nat
  BY <1>1, PowPos
<1>5. m + k \in Nat /\ c * d \in Nat /\ e + f \in Nat
  BY <1>1
<1> HIDE DEF a, b, p, q
<1>6. a * b <= (c * p) * (d * q)
  <2> DEFINE u == c * p
             v == d * q
  <2>1. u \in Nat /\ v \in Nat /\ a <= u /\ b <= v
    BY <1>1, <1>4
  <2> HIDE DEF u, v
  <2>2. a * b <= u * v
    BY <1>4, <2>1
  <2> QED  BY <2>2 DEF u, v
<1>7. (c * p) * (d * q) = (c * d) * (p * q)
  BY <1>1, <1>4
<1> QED  BY <1>2, <1>3, <1>5, <1>6, <1>7 DEF Below

\* Rounding the factor up to a multiple of a power of 256.
LEMMA BelowRound ==
    ASSUME NEW m, NEW c, NEW e, Below(m, c, e), NEW d \in Nat, NEW k \in Nat, c <= d * Pow(256, k)
    PROVE  Below(m, d, e + k)
<1> DEFINE p == Pow(256, e)
           q == Pow(256, k)
           a == Pow(58, m)
<1>1. m \in Nat /\ c \in Nat /\ e \in Nat /\ a <= c * p
  BY DEF Below
<1>2. Pow(256, e + k) = p * q
  BY <1>1, PowAdd
<1>3. a \in Nat /\ p \in Nat /\ q \in Nat /\ c <= d * q
  BY <1>1, PowPos
<1> HIDE DEF a, p, q
<1>4. c * p <= (d * q) * p /\ (d * q) * p = d * (p * q)
  <2> DEFINE u == d * q
  <2>1. u \in Nat /\ c <= u
    BY <1>3
  <2>2. u * p = d * (p * q)
    BY <1>3
  <2> HIDE DEF u
  <2>3. c * p <= u * p
    BY <1>1, <1>3, <2>1
  <2> QED  BY <2>2, <2>3 DEF u
<1>5. c * p \in Nat /\ d * (p * q) \in Nat
  BY <1>1, <1>3
<1>6. e + k \in Nat /\ a <= d * (p * q)
  BY <1>1, <1>3, <1>4, <1>5
<1> QED  BY <1>1, <1>2, <1>6 DEF Below, a

LEMMA SmallPowers ==
    /\ Pow(58, 0) = 1 /\ Pow(58, 1) = 58 /\ Pow(58, 6) = 38068692544 /\ Pow(58, 10) = 430804206899405824
    /\ Pow(256, 0) = 1 /\ Pow(256, 2) = 65536 /\ Pow(256, 5) = 1099511627776
    /\ Pow(256, 6) = 281474976710656 /\ Pow(256, 7) = 72057594037927936
<1>1. Pow(58, 0) = 1 /\ Pow(256, 0) = 1
  BY PowZero
<1>2. \A k \in Nat : Pow(58, k + 1) = Pow(58, k) * 58 /\ Pow(256, k + 1) = Pow(256, k) * 256
  BY PowStep
<1>3. Pow(58, 1) = 58 /\ Pow(256, 1) = 256
  BY <1>1, <1>2, SMT
<1>4. Pow(58, 2) = 3364 /\ Pow(256, 2) = 65536
  BY <1>2, <1>3, SMT
<1>5. Pow(58, 3) = 195112 /\ Pow(256, 3) = 16777216
  BY <1>2, <1>4, SMT
<1>6. Pow(58, 4) = 11316496 /\ Pow(256, 4) = 4294967296
  BY <1>2, <1>5, SMT
<1>7. Pow(58, 5) = 656356768 /\ Pow(256, 5) = 1099511627776
  BY <1>2, <1>6, SMT
<1>8. Pow(58, 6) = 38068692544 /\ Pow(256, 6) = 281474976710656
  BY <1>2, <1>7, SMT
<1>9. Pow(58, 7) = 2207984167552 /\ Pow(256, 7) = 72057594037927936
  BY <1>2, <1>8, SMT
<1>10. Pow(58, 8) = 128063081718016
  BY <1>2, <1>9, SMT
<1>11. Pow(58, 9) = 7427658739644928
  BY <1>2, <1>10, SMT
<1>12. Pow(58, 10) = 430804206899405824
  BY <1>2, <1>11, SMT
<1> QED  BY <1>1, <1>3, <1>4, <1>7, <1>8, <1>9, <1>12, SMT

\* 58^71 is a little less than 256^52.
LEMMA Below71 == Below(71, 1, 52)
<1>1. Below(1, 58, 0) /\ Below(10, 1531, 6)
  BY SmallPowers, SMT DEF Below
<1>2. Below(20, 2343961, 12)
  <2>1. Below(10 + 10, 1531 * 1531, 6 + 6)
    BY <1>1, BelowAdd, SMT
  <2> QED  BY <2>1, SMT
<1>3. Below(30, 3588604291, 18)
  <2>1. Below(20 + 10, 2343961 * 1531, 12 + 6)
    BY <1>1, <1>2, BelowAdd, SMT
  <2> QED  BY <2>1, SMT
<1>4. Below(30, 54758, 20)
  <2>1. 3588604291 <= 54758 * Pow(256, 2)
    BY SmallPowers, SMT
  <2>2. Below(30, 54758, 18 + 2)
    BY <1>3, <2>1, BelowRound, SMT
  <2> QED  BY <2>2, SMT
<1>5. Below(60, 2998438564, 40)
  <2>1. Below(30 + 30, 54758 * 54758, 20 + 20)
    BY <1>4, BelowAdd, SMT
  <2> QED  BY <2>1, SMT
<1>6. Below(70, 4590609441484, 46)
  <2>1. Below(60 + 10, 2998438564 * 1531, 40 + 6)
    BY <1>1, <1>5, BelowAdd, SMT
  <2> QED  BY <2>1, SMT
<1>7. Below(71, 266255347606072, 46)
  <2>1. Below(70 + 1, 4590609441484 * 58, 46 + 0)
    BY <1>1, <1>6, BelowAdd, SMT
  <2> QED  BY <2>1, SMT
<1>8. 266255347606072 <= 1 * Pow(256, 6)
  BY SmallPowers, SMT
<1>9. Below(71, 1, 46 + 6)
  BY <1>7, <1>8, BelowRound, SMT
<1> QED  BY <1>9, SMT

\* The rational by which appendDecodeVariable sizes its limbs, the lengths up to
\* which it tries the fixed decoders, and the twenty characters it folds in at a
\* time: for the constants of the code, the assumptions about them hold.
THEOREM ConstantsOfTheCode ==
    /\ Pow(58, 1000) <= Pow(256, 733)
    /\ Pow(256, 32) <= Pow(58, 44)
    /\ Pow(256, 64) <= Pow(58, 88)
    /\ Pow(58, 20) < Pow(256, 8) * Pow(256, 8)
<1>1. Pow(58, 1000) <= Pow(256, 733)
  <2>1. Below(142, 1, 104)
    <3>1. Below(71 + 71, 1 * 1, 52 + 52)
      BY Below71, BelowAdd
    <3> QED  BY <3>1
  <2>2. Below(284, 1, 208)
    <3>1. Below(142 + 142, 1 * 1, 104 + 104)
      BY <2>1, BelowAdd
    <3> QED  BY <3>1
  <2>3. Below(568, 1, 416)
    <3>1. Below(284 + 284, 1 * 1, 208 + 208)
      BY <2>2, BelowAdd
    <3> QED  BY <3>1
  <2>4. Below(852, 1, 624)
    <3>1. Below(568 + 284, 1 * 1, 416 + 208)
      BY <2>2, <2>3, BelowAdd
    <3> QED  BY <3>1
  <2>5. Below(994, 1, 728)
    <3>1. Below(852 + 142, 1 * 1, 624 + 104)
      BY <2>1, <2>4, BelowAdd
    <3> QED  BY <3>1
  <2>6. Below(6, 1, 5)
    BY SmallPowers DEF Below
  <2>7. Below(1000, 1, 733)
    <3>1. Below(994 + 6, 1 * 1, 728 + 5)
      BY <2>5, <2>6, BelowAdd
    <3> QED  BY <3>1
  <2>8. Pow(256, 733) \in Int
    BY PowInt
  <2> QED  BY <2>7, <2>8 DEF Below
<1> DEFINE b == Pow(256, 8)
           s == Pow(58, 11)
           t == Pow(58, 10)
<1>2. /\ b \in Nat /\ s \in Nat /\ t \in Nat /\ b <= s /\ t < b
  <2> DEFINE v == Pow(256, 7)
  <2>1. Pow(256, 7 + 1) = v * 256 /\ Pow(58, 10 + 1) = t * 58
    BY PowStep
  <2>2. b = v * 256 /\ s = t * 58
    BY <2>1
  <2>3. b \in Nat /\ s \in Nat /\ t \in Nat /\ v \in Nat
    BY PowPos
  <2>4. 5 * v <= t /\ t < 8 * v
    BY SmallPowers, SMT
  <2> HIDE DEF v, b, s, t
  <2> QED  BY <2>2, <2>3, <2>4
<1>3. Pow(256, 32) = Pow(b, 4) /\ Pow(58, 44) = Pow(s, 4)
  <2>1. Pow(Pow(256, 8), 4) = Pow(256, 4 * 8) /\ Pow(Pow(58, 11), 4) = Pow(58, 4 * 11)
    BY PowPow
  <2> QED  BY <2>1
<1>4. Pow(256, 64) = Pow(b, 8) /\ Pow(58, 88) = Pow(s, 8)
  <2>1. Pow(Pow(256, 8), 8) = Pow(256, 8 * 8) /\ Pow(Pow(58, 11), 8) = Pow(58, 8 * 11)
    BY PowPow
  <2> QED  BY <2>1
<1>5. Pow(58, 20) = t * t
  <2>1. Pow(58, 10 + 10) = Pow(58, 10) * Pow(58, 10)
    BY PowAdd
  <2> QED  BY <2>1
<1> HIDE DEF b, s, t
<1>6. Pow(b, 4) <= Pow(s, 4) /\ Pow(b, 8) <= Pow(s, 8)
  BY <1>2, PowBase
<1>7. t * t < b * b
  BY <1>2
<1> QED  BY <1>1, <1>3, <1>4, <1>5, <1>6, <1>7 DEF b
=============================================================================
