---------------------------- MODULE FixedDecode ----------------------------
(***************************************************************************)
(* Decode32 and Decode64 (decode.go, decode_fixed_amd64.go and kernels).   *)
(* The characters, grouped from the end, make Limbs digits in base R1div;  *)
(* these are multiplied by a table of limb weights in base WordBase, the   *)
(* columns summed in uint64; carries make words, whose bytes are the       *)
(* result.  A string is accepted only if it is THE encoding of the result. *)
(*                                                                         *)
(* The code: Base 58, LimbDigits 5, ByteBase 256, WordBytes 4, Wrap 2^64;  *)
(* 9 limbs and 8 words, or 18 and 16.                                      *)
(*                                                                         *)
(* Paths through the code:                                                 *)
(*   "slow"    decode32Generic / decode64Generic with decode..WriteSlow    *)
(*   "avx2"    the same with the assembly decode32Write / decode64Write;   *)
(*             the fused kernels from FusedMin characters on               *)
(***************************************************************************)
EXTENDS Radix

CONSTANTS
    Base, LimbDigits, ByteBase, WordBytes, Wrap,
    Words,              \* binarySz
    Limbs,              \* intermediateSz
    base58Chars,
    Inputs,             \* the strings that are decoded
    Old                 \* what dst holds where nothing was written

R1div    == Pow(Base, LimbDigits)
WordBase == Pow(ByteBase, WordBytes)
Bytes    == Words * WordBytes
Raw      == Limbs * LimbDigits
FusedMin == Bytes               \* n >= 32, n >= 64

ASSUME RadixAssumption ==
    /\ {Base, LimbDigits, ByteBase, WordBytes, Wrap, Words, Limbs} \subseteq Nat \ {0}
    /\ Base > 1 /\ ByteBase >= Base
    /\ Words > 1
    /\ FusedMin > LimbDigits
    /\ base58Chars \in [0..(Base - 1) -> STRING]
    /\ \A d, e \in 0..(Base - 1) : base58Chars[d] = base58Chars[e] => d = e
    /\ Old \notin Int
    /\ \A s \in Inputs : s \in Seq(STRING)

\* A row of the table fits the words; a value of Limbs limbs need not, but is less
\* than one word longer.  A limb, even one with invalid digits, fits a uint64.
ASSUME LengthAssumption ==
    /\ Pow(R1div, Limbs - 1) < Pow(WordBase, Words)
    /\ Pow(WordBase, Words) < Pow(R1div, Limbs)
    /\ Pow(R1div, Limbs) <= Pow(WordBase, Words + 1)
    /\ 2 * R1div <= Wrap /\ Wrap <= WordBase * WordBase

\* R1div^(Limbs-1-j) = sum over k of decTable[j][k] * WordBase^(Words-1-k)
decTable == [j \in 0..(Limbs - 1) |-> [k \in 0..(Words - 1) |->
                Digit(Pow(R1div, Limbs - 1 - j), k, Words, WordBase)]]

\* The largest sum of the first rows of column k (a number in base 1 is the sum
\* of its digits), and the largest carry out of a uint64.
ColumnMax(k, rows) ==
    Value([j \in 0..(Limbs - 1) |-> (R1div - 1) * decTable[j][k]], rows, 1)
CarryMax == (Wrap - 1) \div WordBase

\* Every column sum fits a uint64, with the carry that is added to it.
ASSUME ColumnsAssumption ==
    \A k \in 0..(Words - 1) : ColumnMax(k, Limbs) + CarryMax < Wrap

VARIABLES
    encoded,
    useAVX2,
    pc,
    pos,            \* characters consumed
    bad,            \* whether one of them is no base58 character
    im,             \* intermediate
    row,            \* limbs multiplied so far
    bin,            \* column sums, then words
    i,              \* the word the carry chain is at
    carry,          \* into word i
    dst,
    err

vars == <<encoded, useAVX2, pc, pos, bad, im, row, bin, i, carry, dst, err>>

n     == Len(encoded)
fused == useAVX2 /\ n >= FusedMin

Init ==
    /\ encoded \in Inputs
    /\ useAVX2 \in BOOLEAN
    /\ pc = "start"
    /\ pos = 0
    /\ bad = FALSE
    /\ im = [k \in 0..(Limbs - 1) |-> 0]
    /\ row = 0
    /\ bin = [k \in 0..(Words - 1) |-> 0]
    /\ i = Words - 1
    /\ carry = 0
    /\ dst = [k \in 0..(Bytes - 1) |-> Old]
    /\ err = "none"

uint64(x) == x % Wrap

Return(e) == err' = e /\ pc' = "done"

-----------------------------------------------------------------------------
(* Characters to limbs *)

CheckLength ==
    /\ pc = "start"
    /\ IF n = 0 \/ n > Raw THEN Return("ErrInvalidLength")
       ELSE pc' = "chars" /\ UNCHANGED err
    /\ UNCHANGED <<encoded, useAVX2, pos, bad, im, row, bin, i, carry, dst>>

IsChar(c) == \E d \in 0..(Base - 1) : base58Chars[d] = c

\* base58InverseFull: an invalid character has a digit as well, larger than any.
InverseFull(c) == IF IsChar(c) THEN DigitOf(c, base58Chars) ELSE Base

\* The value of count characters from offset from on.
Group(from, count) ==
    Value([k \in 0..(count - 1) |-> InverseFull(encoded[from + 1 + k])], count, Base)

\* The first group takes the remainder, so that the others align with the end.
headLen == IF n % LimbDigits = 0 THEN LimbDigits ELSE n % LimbDigits

\* Index of the first group: intermediateSz - (encLen+4)/5.
headIndex == Limbs - ((n + LimbDigits - 1) \div LimbDigits)

ReadGroup ==
    LET count == IF pos = 0 THEN headLen ELSE LimbDigits
        gi    == IF pos = 0 THEN headIndex ELSE headIndex + 1 + (pos - headLen) \div LimbDigits
    IN  /\ pc = "chars"
        /\ ~fused
        /\ pos < n
        /\ im' = [im EXCEPT ![gi] = Group(pos, count)]
        /\ bad' = (bad \/ \E k \in 1..count : ~IsChar(encoded[pos + k]))
        /\ pos' = pos + count
        /\ UNCHANGED <<encoded, useAVX2, pc, row, bin, i, carry, dst, err>>

\* FUSED_C2D and FUSED_HORNER: all characters at once, left-padded to Raw digits.
ReadFused ==
    LET pad == Raw - n
        digits == [k \in 0..(Raw - 1) |->
                     IF k < pad THEN 0 ELSE InverseFull(encoded[k - pad + 1])]
    IN  /\ pc = "chars"
        /\ fused
        /\ pos = 0
        /\ im' = [k \in 0..(Limbs - 1) |->
                    Value([d \in 0..(LimbDigits - 1) |-> digits[LimbDigits * k + d]], LimbDigits, Base)]
        /\ bad' = (\E k \in 1..n : ~IsChar(encoded[k]))
        /\ pos' = n
        /\ UNCHANGED <<encoded, useAVX2, pc, row, bin, i, carry, dst, err>>

CheckChars ==
    /\ pc = "chars"
    /\ pos = n
    /\ IF bad THEN Return("ErrInvalidChar") ELSE pc' = "matmul" /\ UNCHANGED err
    /\ UNCHANGED <<encoded, useAVX2, pos, bad, im, row, bin, i, carry, dst>>

-----------------------------------------------------------------------------
(* decodeMatMul32 / decodeMatMul64 *)

\* Mutant: the last row is left out.
MulRow_NoLast ==
    /\ pc = "matmul"
    /\ bin' = [k \in 0..(Words - 1) |-> uint64(bin[k] + im[row] * decTable[row][k])]
    /\ row' = row + 1
    /\ pc' = IF row' = Limbs - 1 THEN "carry" ELSE "matmul"
    /\ UNCHANGED <<encoded, useAVX2, pos, bad, im, i, carry, dst, err>>

MulRow ==
    /\ pc = "matmul"
    /\ bin' = [k \in 0..(Words - 1) |-> uint64(bin[k] + im[row] * decTable[row][k])]
    /\ row' = row + 1
    /\ pc' = IF row' = Limbs THEN "carry" ELSE "matmul"
    /\ UNCHANGED <<encoded, useAVX2, pos, bad, im, i, carry, dst, err>>

-----------------------------------------------------------------------------
(* Carries and bytes *)

\* binary.BigEndian.PutUint32 of word k, as decoded to d.
PutWord(d, k, w) ==
    [b \in 0..(Bytes - 1) |->
        IF b \div WordBytes = k THEN Digit(w, b % WordBytes, WordBytes, ByteBase) ELSE d[b]]

v == uint64(bin[i] + carry)

\* Mutants: the loop also runs for the first word; the upper half is dropped.
CarryStep_OffByOne ==
    /\ pc = "carry"
    /\ ~fused
    /\ bin' = [bin EXCEPT ![i] = v % WordBase]
    /\ carry' = v \div WordBase
    /\ dst' = IF useAVX2 THEN PutWord(dst, i, v % WordBase) ELSE dst
    /\ i' = i - 1
    /\ UNCHANGED <<encoded, useAVX2, pc, pos, bad, im, row, err>>

CarryStep_NoCarry ==
    /\ pc = "carry"
    /\ ~fused
    /\ i >= 1
    /\ bin' = [bin EXCEPT ![i] = v % WordBase]
    /\ carry' = 0
    /\ dst' = IF useAVX2 THEN PutWord(dst, i, v % WordBase) ELSE dst
    /\ i' = i - 1
    /\ UNCHANGED <<encoded, useAVX2, pc, pos, bad, im, row, err>>

\* decode32WriteSlow: words first, bytes only if they fit.  decode32Write: the
\* bytes of every word at once.
CarryStep ==
    /\ pc = "carry"
    /\ ~fused
    /\ i >= 1
    /\ bin' = [bin EXCEPT ![i] = v % WordBase]
    /\ carry' = v \div WordBase
    /\ dst' = IF useAVX2 THEN PutWord(dst, i, v % WordBase) ELSE dst
    /\ i' = i - 1
    /\ UNCHANGED <<encoded, useAVX2, pc, pos, bad, im, row, err>>

\* Mutant: the value may exceed the first word.
CarryEnd_NoCheck ==
    /\ pc = "carry"
    /\ ~fused
    /\ i = 0
    /\ bin' = [bin EXCEPT ![0] = v % WordBase]
    /\ carry' = 0
    /\ dst' = [b \in 0..(Bytes - 1) |->
                 Digit(bin'[b \div WordBytes], b % WordBytes, WordBytes, ByteBase)]
    /\ pc' = "validate" /\ UNCHANGED err
    /\ UNCHANGED <<encoded, useAVX2, pos, bad, im, row, i>>

CarryEnd ==
    /\ pc = "carry"
    /\ ~fused
    /\ i = 0
    /\ bin' = [bin EXCEPT ![0] = v]
    /\ carry' = 0
    /\ IF v >= WordBase
       THEN /\ dst' = IF useAVX2 THEN PutWord(dst, 0, v % WordBase) ELSE dst
            /\ Return("ErrValueTooLarge")
       ELSE /\ dst' = [b \in 0..(Bytes - 1) |->
                         Digit(bin'[b \div WordBytes], b % WordBytes, WordBytes, ByteBase)]
            /\ pc' = "validate" /\ UNCHANGED err
    /\ UNCHANGED <<encoded, useAVX2, pos, bad, im, row, i>>

low(x)  == x % WordBase
high(x) == x \div WordBase

\* What the ADCL chain adds to word i beside its low half and the carry flag.
above == IF i = Words - 1 THEN 0 ELSE high(bin[i + 1])

\* The fused kernels: word i is the low half of its column, the high half of
\* the column behind it and a carry flag; its bytes are stored at once.
FusedCarryStep ==
    LET s == low(bin[i]) + above + carry
    IN  /\ pc = "carry"
        /\ fused
        /\ dst' = PutWord(dst, i, low(s))
        /\ carry' = high(s)
        /\ i' = IF i = 0 THEN 0 ELSE i - 1
        /\ pc' = IF i = 0 THEN "overflow" ELSE "carry"
        /\ UNCHANGED <<encoded, useAVX2, pos, bad, im, row, bin, err>>

\* MOVL 68(SP), AX; ADCL $0, AX; JNZ fusedTooLarge32 - a 32-bit sum.
FusedOverflow ==
    /\ pc = "overflow"
    /\ IF low(high(bin[0]) + carry) # 0 THEN Return("ErrValueTooLarge")
       ELSE pc' = "validate" /\ UNCHANGED err
    /\ UNCHANGED <<encoded, useAVX2, pos, bad, im, row, bin, i, carry, dst>>

-----------------------------------------------------------------------------
inLeading1s  == LeadingZeros([k \in 0..(n - 1) |-> encoded[k + 1]], n, base58Chars[0])
outLeading0s == LeadingZeros(dst, Bytes, 0)

\* Mutant: accepts any string without a leading '1'.
validateLeadingZeros_OneSided ==
    IF encoded[1] = base58Chars[0] /\ inLeading1s # outLeading0s THEN "ErrLeadingZeros" ELSE "nil"

validateLeadingZeros == IF inLeading1s # outLeading0s THEN "ErrLeadingZeros" ELSE "nil"

\* The fused kernels only ask for the count when there is something to count.
Validate ==
    /\ pc = "validate"
    /\ IF fused /\ encoded[1] # base58Chars[0] /\ dst[0] # 0
       THEN Return("nil")
       ELSE Return(validateLeadingZeros)
    /\ UNCHANGED <<encoded, useAVX2, pos, bad, im, row, bin, i, carry, dst>>

Terminated == pc = "done" /\ UNCHANGED vars

Next ==
    \/ CheckLength \/ ReadGroup \/ ReadFused \/ CheckChars
    \/ MulRow \/ CarryStep \/ CarryEnd \/ FusedCarryStep \/ FusedOverflow
    \/ Validate \/ Terminated

Spec == Init /\ [][Next]_vars

-----------------------------------------------------------------------------
(* Properties *)

\* Columns are uint64 values, loop variables stay in their ranges, dst holds bytes
\* or what it held before.
TypeOK ==
    /\ useAVX2 \in BOOLEAN /\ bad \in BOOLEAN
    /\ pc \in {"start", "chars", "matmul", "carry", "overflow", "validate", "done"}
    /\ pos \in 0..n
    /\ DOMAIN im = 0..(Limbs - 1) /\ \A k \in DOMAIN im : im[k] \in 0..(Wrap - 1)
    /\ row \in 0..Limbs
    /\ DOMAIN bin = 0..(Words - 1) /\ \A k \in DOMAIN bin : bin[k] \in 0..(Wrap - 1)
    /\ i \in 0..(Words - 1)
    /\ carry \in 0..(Wrap - 1)
    /\ dst \in [0..(Bytes - 1) -> 0..(ByteBase - 1) \cup {Old}]
    /\ err \in {"none", "nil", "ErrInvalidLength", "ErrInvalidChar",
                "ErrValueTooLarge", "ErrLeadingZeros"}

Weight(k) == Pow(WordBase, Words - 1 - k)

\* The value of the limbs multiplied so far.
Consumed == Value([j \in 0..(Limbs - 1) |-> IF j < row THEN im[j] ELSE 0], Limbs, R1div)

\* The column sums, and the words and the carry they are turned into, are worth
\* exactly the limbs multiplied so far: no column of products wraps around a
\* uint64, although the sums come close to it.
ValuePreserved ==
    pc = "matmul" \/ (pc = "carry" /\ ~fused) =>
        Value(bin, Words, WordBase) + carry * Weight(i) = Consumed

Digits       == [k \in 0..(n - 1) |-> DigitOf(encoded[k + 1], base58Chars)]
StringValue  == Value(Digits, n, Base)
ValueAsBytes == [b \in 0..(Bytes - 1) |-> Digit(StringValue, b, Bytes, ByteBase)]

\* What a decoder has to say of the string, in the order the code documents.
Verdict ==
    IF n = 0 \/ n > Raw THEN "ErrInvalidLength"
    ELSE IF \E k \in 1..n : ~IsChar(encoded[k]) THEN "ErrInvalidChar"
    ELSE IF StringValue >= Pow(WordBase, Words) THEN "ErrValueTooLarge"
    ELSE IF inLeading1s # LeadingZeros(ValueAsBytes, Bytes, 0) THEN "ErrLeadingZeros"
    ELSE "nil"

\* Every path gives every string the same verdict, and the result of an accepted
\* string is its value, in every byte.
OutcomeExact ==
    pc = "done" => /\ err = Verdict
                   /\ err = "nil" => dst = ValueAsBytes

\* The strings accepted are exactly the encodings: decoding inverts encoding,
\* and no two strings decode to the same bytes.
AcceptsOnlyEncodings ==
    pc = "done" /\ err = "nil" => IsEncoding(encoded, dst, Bytes, ByteBase, base58Chars, Base)
=============================================================================
