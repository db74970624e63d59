---------------------------- MODULE FixedEncode ----------------------------
(***************************************************************************)
(* The encoders of 32-byte and 64-byte inputs (encode.go, matmul*.go, the  *)
(* AVX2 kernels).  The input, read as Words big-endian words, is multiplied *)
(* by a table of word weights in base R1div = Base^LimbDigits; the columns *)
(* are summed in uint64 without any carry; one pass of carries makes every *)
(* element a limb below R1div; limbs are rendered as LimbDigits characters *)
(* each, and the raw form loses its surplus leading zeros.                 *)
(*                                                                         *)
(* The radices are constants (the code: Base 58, LimbDigits 5, ByteBase    *)
(* 256, WordBytes 4, Wrap 2^64; 8 words and 9 limbs, or 16 and 18).  A     *)
(* run takes small ones with the same relations between them: which column *)
(* overflows Wrap, how long a result can be, what a limb can carry.        *)
(*                                                                         *)
(* Paths through the code:                                                 *)
(*   "raw"     encodeRaw32, encodeRaw64, encode64DirectAVX2                *)
(*   "render"  encode32Render; encode64Parts with the AVX2 encode64Write   *)
(*   "write"   encode64Parts with encode64WriteGeneric                     *)
(*   "append"  encode32AppendAVX2                                          *)
(*   "full"    encode64FullAVX2, ...FullAppendAVX2, ...FullOwnedAVX2       *)
(***************************************************************************)
EXTENDS Radix

CONSTANTS
    Base, LimbDigits, ByteBase, WordBytes, Wrap,
    Words,          \* binarySz
    HeadWords,      \* words summed before the mini-reduction; Words: there is none
    Limbs,          \* intermediateSz
    EncodedMaxLen,
    base58Chars,
    Inputs,
    Paths

R1div    == Pow(Base, LimbDigits)
WordBase == Pow(ByteBase, WordBytes)
Bytes    == Words * WordBytes
Raw      == Limbs * LimbDigits
Hot      == Limbs - 2       \* the column that does not fit a uint64
Half     == Limbs \div 2    \* where the "full" path cuts the carry chain

ASSUME RadixAssumption ==
    /\ {Base, LimbDigits, ByteBase, WordBytes, Wrap, Words} \subseteq Nat \ {0}
    /\ Base > 1 /\ ByteBase >= Base
    /\ Limbs \in Nat \ 0..3
    /\ EncodedMaxLen \in Nat \ 0..1
    /\ "full" \in Paths => Limbs > 5
    /\ HeadWords \in 1..Words
    /\ Paths \subseteq {"raw", "render", "write", "append", "full"}
    /\ base58Chars \in [0..(Base - 1) -> STRING]
    /\ \A d, e \in 0..(Base - 1) : base58Chars[d] = base58Chars[e] => d = e
    /\ \A s \in Inputs : s \in [0..(Bytes - 1) -> 0..(ByteBase - 1)]

\* Every input fits the limbs.  With a first byte that is not zero, its length
\* is EncodedMaxLen or one less: what the kernels without a scan rely on.
ASSUME LengthAssumption ==
    /\ Pow(WordBase, Words - 1) < Pow(R1div, Limbs - 1)
    /\ Pow(ByteBase, Bytes) <= Pow(Base, EncodedMaxLen)
    /\ EncodedMaxLen <= Raw
    /\ Pow(Base, EncodedMaxLen - 2) <= Pow(ByteBase, Bytes - 1)

\* WordBase^(Words-1-j) = sum over k of encTable[j][k] * R1div^(Limbs-2-k)
encTable == [j \in 0..(Words - 1) |-> [k \in 0..(Limbs - 2) |->
                Digit(Pow(WordBase, Words - 1 - j), k, Limbs - 1, R1div)]]

\* The largest sum of the first rows of column k (a number in base 1 is the sum
\* of its digits), and the largest carry out of a uint64.
ColumnMax(k, rows) ==
    Value([j \in 0..(Words - 1) |-> (WordBase - 1) * encTable[j][k - 1]], rows, 1)
CarryMax == (Wrap - 1) \div R1div

\* Which sums fit a uint64: of every column but Hot the whole one; of Hot those
\* of the first HeadWords rows and of the others; each with the carries it gets.
\* What the second of two halves is handed fits two limbs.
ASSUME ColumnsAssumption ==
    /\ \A k \in 1..(Limbs - 1) : k # Hot => ColumnMax(k, Words) + CarryMax < Wrap
    /\ ColumnMax(Hot - 1, Words) + 2 * CarryMax < Wrap
    /\ ColumnMax(Hot, HeadWords) + CarryMax < Wrap
    /\ ColumnMax(Hot, Words) - ColumnMax(Hot, HeadWords) + R1div + CarryMax < Wrap
    /\ "full" \in Paths => /\ ColumnMax(Half, Words) + 2 * CarryMax < Pow(R1div, 3)
                           /\ Pow(R1div, 2) + R1div <= Wrap

VARIABLES
    src,
    path,
    pc,
    row,            \* words multiplied so far
    im,             \* intermediate
    part,           \* "full": what the words from HeadWords on add to column Hot
    i,              \* the limb the carry chain is at
    carry,          \* into limb i
    lowCarry,       \* "full": carry out of the low half, kept for the patch
    out

vars == <<src, path, pc, row, im, part, i, carry, lowCarry, out>>

Init ==
    /\ src \in Inputs
    /\ path \in Paths
    /\ pc = "matmul"
    /\ row = 0
    /\ im = [k \in 0..(Limbs - 1) |-> 0]
    /\ part = 0
    /\ i = Limbs - 1
    /\ carry = 0 /\ lowCarry = 0
    /\ out = <<>>

uint64(x) == x % Wrap

-----------------------------------------------------------------------------
(* encodeMatMul32 / encodeMatMul64 *)

\* binary.BigEndian.Uint32
bin(j) == Value([b \in 0..(WordBytes - 1) |-> src[j * WordBytes + b]], WordBytes, ByteBase)

\* Whether the product of this row goes to the second sum of column Hot.
Split(k) == path = "full" /\ row >= HeadWords /\ k = Hot

\* One row: b * uint64(row[k]) added to intermediate[k+1] for every column.
MulRow ==
    LET b == bin(row)
    IN  /\ pc = "matmul"
        /\ im' = [k \in 0..(Limbs - 1) |->
                    IF k = 0 \/ Split(k) THEN im[k]
                    ELSE uint64(im[k] + b * encTable[row][k - 1])]
        /\ part' = IF Split(Hot) THEN uint64(part + b * encTable[row][Hot - 1]) ELSE part
        /\ row' = row + 1
        /\ pc' = IF row' = Words THEN "carry"
                 ELSE IF row' = HeadWords /\ path # "full" THEN "reduce"
                 ELSE "matmul"
        /\ UNCHANGED <<src, path, i, carry, lowCarry, out>>

\* Mutant: column Hot is not reduced before the low words are added.
MiniReduction_None ==
    /\ pc = "reduce"
    /\ pc' = "matmul"
    /\ UNCHANGED <<src, path, row, im, part, i, carry, lowCarry, out>>

\* intermediate[Sz-3] += intermediate[Sz-2] / r1div; intermediate[Sz-2] %= r1div
MiniReduction ==
    /\ pc = "reduce"
    /\ im' = [im EXCEPT ![Hot - 1] = uint64(@ + im[Hot] \div R1div),
                        ![Hot]     = @ % R1div]
    /\ pc' = "matmul"
    /\ UNCHANGED <<src, path, row, part, i, carry, lowCarry, out>>

-----------------------------------------------------------------------------
(* Carry propagation *)

v == uint64(im[i] + carry)

\* Mutant: the loop also runs for the first limb.
CarryStep_OffByOne ==
    /\ pc = "carry"
    /\ i >= 0
    /\ path = "full" => i < Half
    /\ im' = [im EXCEPT ![i] = v % R1div]
    /\ carry' = v \div R1div
    /\ i' = i - 1
    /\ UNCHANGED <<src, path, pc, row, part, lowCarry, out>>

\* The serial chain; of the "full" path, the chain of the high half.
CarryStep ==
    /\ pc = "carry"
    /\ i >= 1
    /\ path = "full" => i < Half
    /\ im' = [im EXCEPT ![i] = v % R1div]
    /\ carry' = v \div R1div
    /\ i' = i - 1
    /\ UNCHANGED <<src, path, pc, row, part, lowCarry, out>>

\* The chain of the low half.  The two sums of column Hot are reduced one after
\* the other.  The carry out of the half is kept: the high half starts without.
LowCarryStep ==
    LET w == IF i = Hot THEN uint64((v % R1div) + part) ELSE v
        q == IF i = Hot THEN v \div R1div + w \div R1div ELSE v \div R1div
    IN  /\ pc = "carry"
        /\ path = "full"
        /\ i >= Half
        /\ im' = [im EXCEPT ![i] = w % R1div]
        /\ part' = IF i = Hot THEN 0 ELSE part
        /\ carry' = IF i = Half THEN 0 ELSE q
        /\ lowCarry' = IF i = Half THEN q ELSE 0
        /\ i' = i - 1
        /\ UNCHANGED <<src, path, pc, row, out>>

\* The first limb takes the last carry as it is.
CarryEnd ==
    /\ pc = "carry"
    /\ i = 0
    /\ im' = [im EXCEPT ![0] = v]
    /\ carry' = 0
    /\ pc' = IF path = "full" THEN "patch" ELSE "render"
    /\ UNCHANGED <<src, path, row, part, i, lowCarry, out>>

\* The carry of the low half goes into the last two limbs of the high half.
Patch ==
    LET x == uint64(im[Half - 1] + lowCarry)
        y == uint64(im[Half - 2] + x \div R1div)
    IN  /\ pc = "patch"
        /\ im' = [im EXCEPT ![Half - 1] = x % R1div, ![Half - 2] = y % R1div]
        /\ carry' = y \div R1div
        /\ lowCarry' = 0
        /\ i' = IF carry' # 0 THEN Half - 3 ELSE i
        /\ pc' = IF carry' # 0 THEN "ripple" ELSE "render"
        /\ UNCHANGED <<src, path, row, part, out>>

\* Mutant: a limb that reaches R1div keeps its value.
Ripple_NoSub ==
    /\ pc = "ripple"
    /\ im' = [im EXCEPT ![i] = v]
    /\ carry' = 0
    /\ i' = IF i = 0 THEN 0 ELSE i - 1
    /\ pc' = IF i = 0 THEN "render" ELSE "ripple"
    /\ UNCHANGED <<src, path, row, part, lowCarry, out>>

\* ripple64: a carry of one runs up the remaining limbs, by compare and subtract.
Ripple ==
    /\ pc = "ripple"
    /\ im' = [im EXCEPT ![i] = IF v < R1div THEN v ELSE v - R1div]
    /\ carry' = IF v < R1div THEN 0 ELSE 1
    /\ i' = IF i = 0 THEN 0 ELSE i - 1
    /\ pc' = IF i = 0 THEN "render" ELSE "ripple"
    /\ UNCHANGED <<src, path, row, part, lowCarry, out>>

-----------------------------------------------------------------------------
(* Rendering *)

\* extractChars5: the first character comes from a quotient that is not masked.
extractChars5(x) ==
    [k \in 1..LimbDigits |->
        base58Chars[IF k = 1 THEN x \div Pow(Base, LimbDigits - 1)
                    ELSE Digit(x, k - 1, LimbDigits, Base)]]

digitCount5(x) ==
    CHOOSE c \in 0..LimbDigits : x < Pow(Base, c) /\ (c > 0 => x >= Pow(Base, c - 1))

\* The characters of the limbs from n on.
extractChars(n) ==
    [x \in 1..(LimbDigits * (Limbs - n)) |->
        extractChars5(im[n + ((x - 1) \div LimbDigits)])[((x - 1) % LimbDigits) + 1]]

Ones(n)  == [k \in 1..n |-> base58Chars[0]]
inZeros  == LeadingZeros(src, Bytes, 0)
rawLeading0s(raw) == LeadingZeros([k \in 0..(Raw - 1) |-> raw[k + 1]], Raw, base58Chars[0])

\* raw[skip:]
Window(raw, skip) == SubSeq(raw, skip + 1, Raw)

\* Mutant: all leading zeros of the raw form go.
ScanSkip_All(raw) == rawLeading0s(raw)

\* Leading zero digits beyond one per leading zero byte.
ScanSkip(raw) == rawLeading0s(raw) - inZeros

\* Mutant: takes every result for one of the maximal length.
FastSkip_Fixed(raw) == Raw - EncodedMaxLen

\* Without a leading zero byte one digit tells the two possible lengths apart.
FastSkip(raw) ==
    LET s == Raw - EncodedMaxLen
    IN  IF src[0] = 0 THEN ScanSkip(raw)
        ELSE IF raw[s + 1] = base58Chars[0] THEN s + 1
        ELSE s

\* The first limb that is not zero, its digits, and the length they make.
iz     == LeadingZeros(im, Limbs, 0)
dc     == digitCount5(im[iz])
outLen == IF iz = Limbs THEN inZeros ELSE inZeros + dc + LimbDigits * (Limbs - 1 - iz)

\* encode32Render and its callers: for the all-zero input nothing is copied
\* and the caller pads.
RenderOut(raw) == IF iz = Limbs THEN Ones(outLen) ELSE Window(raw, Raw - outLen)

\* encode64WriteGeneric: every limb directly at its final position.
WriteOut ==
    Ones(inZeros) \o
    IF iz = Limbs THEN <<>>
    ELSE SubSeq(extractChars5(im[iz]), LimbDigits - dc + 1, LimbDigits) \o extractChars(iz + 1)

Render ==
    LET raw == extractChars(0)
    IN  /\ pc = "render"
        /\ out' = CASE path = "raw"                -> Window(raw, ScanSkip(raw))
                    [] path \in {"append", "full"} -> Window(raw, FastSkip(raw))
                    [] path = "render"             -> RenderOut(raw)
                    [] path = "write"              -> WriteOut
        /\ pc' = "done"
        /\ UNCHANGED <<src, path, row, im, part, i, carry, lowCarry>>

Terminated == pc = "done" /\ UNCHANGED vars

Next ==
    \/ MulRow \/ MiniReduction
    \/ CarryStep \/ LowCarryStep \/ CarryEnd \/ Patch \/ Ripple
    \/ Render \/ Terminated

Spec == Init /\ [][Next]_vars

-----------------------------------------------------------------------------
(* Properties *)

\* Columns are uint64 values, loop variables stay in their ranges, every character
\* that is returned is one of the alphabet.
TypeOK ==
    /\ src \in [0..(Bytes - 1) -> 0..(ByteBase - 1)] /\ path \in Paths
    /\ pc \in {"matmul", "reduce", "carry", "patch", "ripple", "render", "done"}
    /\ row \in 0..Words
    /\ DOMAIN im = 0..(Limbs - 1)
    /\ \A k \in DOMAIN im : im[k] \in 0..(Wrap - 1)
    /\ part \in 0..(Wrap - 1)
    /\ i \in 0..(Limbs - 1)
    /\ carry \in Nat /\ lowCarry \in Nat
    /\ \A k \in DOMAIN out : \E d \in 0..(Base - 1) : out[k] = base58Chars[d]

Weight(k) == Pow(R1div, Limbs - 1 - k)

\* The value of the words multiplied so far.
Consumed == Value([j \in 0..(Words - 1) |-> IF j < row THEN bin(j) ELSE 0], Words, WordBase)

\* At every step the limbs, the second sum of column Hot and the carries in
\* flight make up exactly the value of the words read: no column ever wraps
\* around (the reason for the mini-reduction and for the second sum), and no
\* carry is lost where the "full" kernel cuts its chain in two.
ValuePreserved ==
    pc # "done" =>
        Value(im, Limbs, R1div) + part * Weight(Hot) + carry * Weight(i)
            + lowCarry * Weight(Half - 1) = Consumed

\* What is rendered is below R1div in every limb, the first one included, which
\* no division reduces: extractChars5 indexes its tables with it.
LimbsReduced == pc = "render" => \A k \in 0..(Limbs - 1) : im[k] < R1div

\* Every path returns the one base58 form of its input, whatever its leading
\* zeros: the fixed skip, the scan and the computed length agree.
ResultCorrect ==
    pc = "done" => IsEncoding(out, src, Bytes, ByteBase, base58Chars, Base)
=============================================================================
