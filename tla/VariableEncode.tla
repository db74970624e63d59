--------------------------- MODULE VariableEncode ---------------------------
(***************************************************************************)
(* Encode of inputs that are neither 32 nor 64 bytes long (encode.go,      *)
(* encode_block*.go, large.go).  Leading zero bytes are stripped; by the   *)
(* number of bytes that remain, encodeTail picks one of five generators,   *)
(* each of which leaves its characters at the right end of a buffer of an  *)
(* estimated size:                                                         *)
(*   small        one word, divided again and again                        *)
(*   smallMatrix  the bottom-right corner of the 32-byte table             *)
(*   matrix       padded to 64 bytes, the fixed-size kernels               *)
(*   block        a little-endian bignum in base R1div: a head by Horner   *)
(*                steps, then block after block by state * 2^512 + block   *)
(*   large        math/big                                                 *)
(*                                                                         *)
(* The fixed-size kernels are used by their contract, which FixedEncode    *)
(* checks.  The radices are constants as there (the code: Base 58,         *)
(* LimbDigits 5, ByteBase 256, WordBytes 4, Wrap 2^64).                    *)
(***************************************************************************)
EXTENDS Radix, FiniteSets

CONSTANTS
    Base, LimbDigits, ByteBase, WordBytes, Wrap,
    SmallBytes, HalfBytes, BlockBytes,  \* 8, 32, 64
    HalfLimbs, BlockLimbs,              \* intermediateSz32, intermediateSz64
    UnrolledWords,                      \* the width with unrolled code: 4
    SeedTail,                           \* 16
    CombaMin,                           \* 96
    LargeBytes,                         \* largeEncodeThreshold
    SizeNum, SizeDen, SizeRound,        \* 138, 100, 20
    base58Chars,
    Inputs

R1div    == Base ^ LimbDigits
WordBase == ByteBase ^ WordBytes

ASSUME RadixAssumption ==
    /\ {Base, LimbDigits, ByteBase, WordBytes, SmallBytes, SeedTail, SizeDen} \subseteq Nat \ {0}
    /\ Base > 1 /\ ByteBase > 1 /\ ByteBase <= R1div /\ Wrap > WordBase
    /\ SmallBytes < HalfBytes /\ HalfBytes < BlockBytes /\ BlockBytes < LargeBytes
    /\ HalfBytes % WordBytes = 0 /\ BlockBytes % WordBytes = 0
    /\ BlockBytes <= 2 * HalfBytes /\ SeedTail < HalfBytes
    /\ ByteBase ^ SmallBytes <= Wrap
    /\ ByteBase ^ HalfBytes <= R1div ^ HalfLimbs
    /\ ByteBase ^ BlockBytes <= R1div ^ BlockLimbs
    /\ CombaMin >= BlockLimbs
    /\ SizeRound % LimbDigits = 0
    /\ base58Chars \in [0..(Base - 1) -> STRING]
    /\ \A d, e \in 0..(Base - 1) : base58Chars[d] = base58Chars[e] => d = e

\* Encode sends the empty input and the two fixed sizes elsewhere.
ASSUME InputsAssumption ==
    \A s \in Inputs : /\ Len(s) \notin {0, HalfBytes, BlockBytes}
                      /\ \A k \in 1..Len(s) : s[k] \in 0..(ByteBase - 1)

VARIABLES
    src,
    useAVX2,
    pc,
    zcount,         \* leading zero bytes
    out, p,         \* the buffer, and the index of its first character
    v,              \* small: what is left to divide
    pos,            \* bytes behind the zeros that are consumed
    stop,           \* block: the Horner steps end here, whole blocks follow
    digits, count,  \* the number so far, least significant limb first
    tmp             \* column sums

vars == <<src, useAVX2, pc, zcount, out, p, v, pos, stop, digits, count, tmp>>

Blank == ""         \* a byte of a fresh array

Zeros(n) == [k \in 0..(n - 1) |-> 0]

Init ==
    /\ src \in Inputs
    /\ useAVX2 \in BOOLEAN
    /\ pc = "begin"
    /\ zcount = 0
    /\ out = <<>> /\ p = 0
    /\ v = 0 /\ pos = 0 /\ stop = 0
    /\ digits = <<>> /\ count = 0
    /\ tmp = <<>>

uint64(x) == x % Wrap

-----------------------------------------------------------------------------
(* Numbers *)

nz == Len(src) - zcount

\* The value of n bytes from offset from on, behind the zeros.
BytesValue(from, n) == Value([k \in 0..(n - 1) |-> src[zcount + from + k + 1]], n, ByteBase)

\* The value of n limbs or columns, least significant first.
LimbsValue(d, n) == Value([k \in 0..(n - 1) |-> d[n - 1 - k]], n, R1div)

LimbsOf(x, n) == [k \in 0..(n - 1) |-> Digit(x, n - 1 - k, n, R1div)]

\* for count > 1 && digits[count-1] == 0 { count-- }
Trimmed(d, n) == CHOOSE c \in 1..n : /\ c > 1 => d[c - 1] # 0
                                     /\ \A k \in c..(n - 1) : d[k] = 0

\* The number of digits of x, none for zero.  No number has more than its bytes
\* with a limb each.
DigitLen(x, base) ==
    CHOOSE m \in 0..(nz * LimbDigits) :
        IF m = 0 THEN x = 0 ELSE x \div base ^ (m - 1) \in 1..(base - 1)

\* Stores d[0..n-1] at the beginning of array a, even where a has no cell.
Put(a, d, n) == [k \in DOMAIN a \cup 0..(n - 1) |-> IF k < n THEN d[k] ELSE a[k]]

-----------------------------------------------------------------------------
(* encodeVariable and encodeTail *)

encodeVariableSize(n) ==
    LET maxDigits == (n * SizeNum) \div SizeDen + 1
    IN  ((maxDigits + SizeRound - 1) \div SizeRound) * SizeRound

encodeTail(n) ==
    IF n >= LargeBytes THEN "large"
    ELSE IF n <= SmallBytes THEN "small"
    ELSE IF n <= HalfBytes THEN "smallMatrix"
    ELSE IF n <= BlockBytes THEN "matrix"
    ELSE "block"

Begin ==
    LET z == LeadingZeros([k \in 0..(Len(src) - 1) |-> src[k + 1]], Len(src), 0)
        n == Len(src) - z
    IN  /\ pc = "begin"
        /\ zcount' = z
        /\ IF n = 0
           THEN /\ out' = [x \in 0..(z - 1) |-> base58Chars[0]]
                /\ pc' = "done"
                /\ UNCHANGED p
           ELSE /\ out' = [x \in 0..(z + encodeVariableSize(n) - 1) |-> Blank]
                /\ p' = z + encodeVariableSize(n)
                /\ pc' = encodeTail(n)
        /\ UNCHANGED <<src, useAVX2, v, pos, stop, digits, count, tmp>>

\* Writes the last m digits of x in front of index at.
Chars(at, m, x) ==
    [y \in DOMAIN out \cup (at - m)..(at - 1) |->
        IF y >= at - m /\ y < at THEN base58Chars[Digit(x, y - (at - m), m, Base)] ELSE out[y]]

\* for range zcount { p--; out[p] = '1' }
WriteOnes ==
    /\ pc = "ones"
    /\ out' = Chars(p, zcount, 0)
    /\ p' = p - zcount
    /\ pc' = "done"
    /\ UNCHANGED <<src, useAVX2, zcount, v, pos, stop, digits, count, tmp>>

-----------------------------------------------------------------------------
(* encodeSmallTail *)

BeginSmall ==
    /\ pc = "small"
    /\ pos = 0
    /\ v' = uint64(BytesValue(0, nz))
    /\ pos' = nz
    /\ UNCHANGED <<src, useAVX2, pc, zcount, out, p, stop, digits, count, tmp>>

SmallGroup ==
    /\ pc = "small"
    /\ pos = nz
    /\ v >= R1div
    /\ out' = Chars(p, LimbDigits, v % R1div)
    /\ p' = p - LimbDigits
    /\ v' = v \div R1div
    /\ UNCHANGED <<src, useAVX2, pc, zcount, pos, stop, digits, count, tmp>>

SmallRest ==
    /\ pc = "small"
    /\ pos = nz
    /\ v < R1div
    /\ out' = Chars(p, DigitLen(v, Base), v)
    /\ p' = p - DigitLen(v, Base)
    /\ v' = 0
    /\ pc' = "ones"
    /\ UNCHANGED <<src, useAVX2, zcount, pos, stop, digits, count, tmp>>

-----------------------------------------------------------------------------
(* encodeSmallMatrixTail, encodeSmallMatrix4Tail *)

words == (nz + WordBytes - 1) \div WordBytes

\* Word j: the first one takes the bytes that are left over.
word(j) ==
    LET first == nz - WordBytes * (words - 1)
    IN  IF j = 0 THEN BytesValue(0, first) ELSE BytesValue(first + WordBytes * (j - 1), WordBytes)

\* Column col of the sub-matrix of encTable32 that belongs to so many words.
acc(col) ==
    IF col = 0 THEN 0
    ELSE uint64(Value([j \in 0..(words - 1) |->
                  word(j) * Digit(WordBase ^ (words - 1 - j), col - 1, words, R1div)], words, 1))

\* Each column with what the one behind it carries.
carried == LET c[k \in 0..words] ==
                 IF k = 0 THEN acc(words) ELSE uint64(acc(words - k) + c[k - 1] \div R1div)
           IN  c

\* The unrolled code looks at the top limb only.
SmallMatrix ==
    LET d == [k \in 0..words |-> IF k < words THEN carried[k] % R1div ELSE carried[k]]
    IN  /\ pc = "smallMatrix"
        /\ digits' = Put(Zeros(HalfLimbs), d, words + 1)
        /\ count' = IF words # UnrolledWords THEN Trimmed(d, words + 1)
                    ELSE IF d[words] = 0 THEN words ELSE words + 1
        /\ pos' = nz
        /\ pc' = "render"
        /\ UNCHANGED <<src, useAVX2, zcount, out, p, v, stop, tmp>>

-----------------------------------------------------------------------------
(* encodeMatrixTail *)

\* encodePaddedFixedTail: the padded value is encoded with a '1' per byte of
\* padding, which is dropped again.
PaddedTail ==
    LET x == BytesValue(0, nz)
        m == DigitLen(x, Base)
    IN  /\ pc = "matrix"
        /\ useAVX2
        /\ out' = Chars(p, m, x)
        /\ p' = p - m
        /\ pos' = nz
        /\ pc' = "ones"
        /\ UNCHANGED <<src, useAVX2, zcount, v, stop, digits, count, tmp>>

MatrixTail ==
    LET n == IF nz <= HalfBytes THEN HalfLimbs ELSE BlockLimbs
        d == LimbsOf(BytesValue(0, nz), n)
    IN  /\ pc = "matrix"
        /\ ~useAVX2
        /\ digits' = Put(Zeros(BlockLimbs), d, n)
        /\ count' = Trimmed(d, n)
        /\ pos' = nz
        /\ pc' = "render"
        /\ UNCHANGED <<src, useAVX2, zcount, out, p, v, stop, tmp>>

-----------------------------------------------------------------------------
(* encodeBlockTail *)

\* Mutant: the limbs of the head are rounded down.
need_Down == (nz \div BlockBytes) * BlockLimbs
                + (((nz % BlockBytes) * SizeNum) \div SizeDen) \div LimbDigits

\* Limbs of the scratch arrays.
need == (nz \div BlockBytes) * BlockLimbs
          + (((nz % BlockBytes) * SizeNum) \div SizeDen + LimbDigits) \div LimbDigits

head == nz % BlockBytes

\* Mutant: one block and a longer tail are seeded from the block as well.
SeedFromHead_Never == nz >= 2 * BlockBytes

\* Whether the bytes in front of the whole blocks come first.
SeedFromHead == nz >= 2 * BlockBytes \/ head >= SeedTail

\* encodeBlock32 / encodeBlock64 of the n bytes at pos, as the whole number.
Seed(from, n, limbs) ==
    LET d == LimbsOf(BytesValue(from, n), limbs)
    IN  /\ digits' = Put(IF pc = "block" THEN Zeros(need) ELSE digits, d, limbs)
        /\ count' = Trimmed(d, limbs)
        /\ pos' = from + n

BeginBlock ==
    /\ pc = "block"
    /\ tmp' = Zeros(need)
    /\ IF SeedFromHead /\ head # 0
       THEN /\ digits' = Zeros(need) /\ count' = 1
            /\ UNCHANGED pos
       ELSE Seed(0, BlockBytes, BlockLimbs)
    /\ stop' = IF ~SeedFromHead THEN nz ELSE IF head = 0 THEN BlockBytes ELSE head
    /\ pc' = "horner"
    /\ UNCHANGED <<src, useAVX2, zcount, out, p, v>>

\* A long head starts with 32 bytes through the matrix.
SeedHalf ==
    /\ pc = "horner"
    /\ stop - pos >= HalfBytes
    /\ Seed(pos, HalfBytes, HalfLimbs)
    /\ UNCHANGED <<src, useAVX2, pc, zcount, out, p, v, stop, tmp>>

chunkLen == IF stop - pos < WordBytes THEN stop - pos ELSE WordBytes

\* digits = digits * 2^(8*chunkLen) + chunk
encodeHornerStep ==
    LET chunk == BytesValue(pos, chunkLen)
        c[k \in 0..count] ==
            IF k = 0 THEN chunk
            ELSE uint64(digits[k - 1] * ByteBase ^ chunkLen + c[k - 1]) \div R1div
        more == DigitLen(c[count], R1div)
        d == [k \in 0..(count + more - 1) |->
                IF k < count THEN uint64(digits[k] * ByteBase ^ chunkLen + c[k]) % R1div
                ELSE LimbsOf(c[count], more)[k - count]]
    IN  /\ pc = "horner"
        /\ pos < stop /\ stop - pos < HalfBytes
        /\ digits' = Put(digits, d, count + more)
        /\ count' = count + more
        /\ pos' = pos + chunkLen
        /\ UNCHANGED <<src, useAVX2, pc, zcount, out, p, v, stop, tmp>>

HornerDone ==
    /\ pc = "horner"
    /\ pos = stop
    /\ pc' = IF stop < nz THEN "absorb" ELSE "render"
    /\ UNCHANGED <<src, useAVX2, zcount, out, p, v, pos, stop, digits, count, tmp>>

-----------------------------------------------------------------------------
(* encodeAbsorbBlocks: digits * 2^512 + block *)

pow2_512_base58_5 == LimbsOf(ByteBase ^ BlockBytes, BlockLimbs)

columns == count + BlockLimbs

\* The sum over k in from..to of digits[k] times the weight column - k.
Dot(d, column, from, to) ==
    Value([k \in 0..(to - from) |-> d[from + k] * pow2_512_base58_5[column - from - k]],
          to - from + 1, 1)

Least(x, y) == IF x < y THEN x ELSE y
Most(x, y)  == IF x > y THEN x ELSE y

\* The first columns cells of tmp become those of col, plus the digits of the block.
Sums(col) ==
    LET b == LimbsOf(BytesValue(pos, BlockBytes), BlockLimbs)
    IN  /\ tmp' = [c \in DOMAIN tmp \cup 0..(columns - 1) |->
                     IF c >= columns THEN tmp[c]
                     ELSE uint64(uint64(col[c]) + IF c < Trimmed(b, BlockLimbs) THEN b[c] ELSE 0)]
        /\ pos' = pos + BlockBytes
        /\ pc' = "reduce"
        /\ UNCHANGED <<src, useAVX2, zcount, out, p, v, stop, count>>

\* Every column is the same dot product: zero limbs are kept in front of the
\* digits, and the limbs behind them are cleared.
ConvolveAVX2 ==
    LET d == [k \in (1 - BlockLimbs)..(columns - 1) |->
                IF k >= 0 /\ k < count THEN digits[k] ELSE 0]
        col == [c \in 0..(columns - 1) |-> Dot(d, c, c - BlockLimbs + 1, c)]
    IN  /\ pc = "absorb"
        /\ useAVX2
        /\ digits' = Put(digits, d, columns)
        /\ Sums(col)

\* Row by row into cleared columns.
ConvolveRows ==
    LET col == [c \in 0..(columns - 1) |->
                  Dot(digits, c, Most(0, c - BlockLimbs + 1), Least(c, count - 1))]
    IN  /\ pc = "absorb"
        /\ ~useAVX2 /\ count < CombaMin
        /\ Sums(col)
        /\ UNCHANGED digits

\* Column by column: rising edge, full windows, falling edge.
ConvolveColumns ==
    LET col == [c \in 0..(columns - 1) |->
                  IF c < BlockLimbs - 1 THEN Dot(digits, c, 0, c)
                  ELSE IF c < count THEN Dot(digits, c, c - BlockLimbs + 1, c)
                  ELSE Dot(digits, c, c - BlockLimbs + 1, count - 1)]
    IN  /\ pc = "absorb"
        /\ ~useAVX2 /\ count >= CombaMin
        /\ Sums(col)
        /\ UNCHANGED digits

\* The carry out of the last column is dropped.
encodeReduceColumns ==
    LET c[k \in 0..columns] == IF k = 0 THEN 0 ELSE uint64(tmp[k - 1] + c[k - 1]) \div R1div
        d == [k \in 0..(columns - 1) |-> uint64(tmp[k] + c[k]) % R1div]
    IN  /\ pc = "reduce"
        /\ digits' = Put(digits, d, columns)
        /\ count' = Trimmed(d, columns)
        /\ pc' = IF pos < nz THEN "absorb" ELSE "render"
        /\ UNCHANGED <<src, useAVX2, zcount, out, p, v, pos, stop, tmp>>

-----------------------------------------------------------------------------
\* Mutant: the padding of the top limb stays.
SkipOnes_None(o, from) == from

\* for out[p] == '1' { p++ }
SkipOnes(o, from) ==
    from + LeadingZeros([k \in 0..(p - from - 1) |-> o[from + k]], p - from, base58Chars[0])

\* encodeDigits5Tail: all limbs from the right end, then leading '1's are skipped.
RenderTail ==
    LET from == p - LimbDigits * count
        o    == [y \in DOMAIN out \cup from..(p - 1) |->
                   IF y >= from /\ y < p
                   THEN LET z == p - 1 - y
                        IN  base58Chars[(digits[z \div LimbDigits] \div Base ^ (z % LimbDigits)) % Base]
                   ELSE out[y]]
    IN  /\ pc = "render"
        /\ out' = o
        /\ p' = SkipOnes(o, from)
        /\ pc' = "ones"
        /\ UNCHANGED <<src, useAVX2, zcount, v, pos, stop, digits, count, tmp>>

\* encodeLargeTail: math/big appends its digits at the front of the buffer; they
\* are translated there and then copied to its end.
LargeTail ==
    LET x == BytesValue(0, nz)
        m == DigitLen(x, Base)
        digit(k) == base58Chars[Digit(x, k, m, Base)]
    IN  /\ pc = "large"
        /\ out' = [y \in DOMAIN out \cup (p - m)..(m - 1) |->
                     IF y >= p - m THEN digit(y - (p - m)) ELSE IF y < m THEN digit(y) ELSE out[y]]
        /\ p' = p - m
        /\ pos' = nz
        /\ pc' = "ones"
        /\ UNCHANGED <<src, useAVX2, zcount, v, stop, digits, count, tmp>>

Terminated == pc = "done" /\ UNCHANGED vars

Next ==
    \/ Begin
    \/ BeginSmall \/ SmallGroup \/ SmallRest
    \/ SmallMatrix \/ PaddedTail \/ MatrixTail
    \/ BeginBlock \/ SeedHalf \/ encodeHornerStep \/ HornerDone
    \/ ConvolveAVX2 \/ ConvolveRows \/ ConvolveColumns \/ encodeReduceColumns
    \/ RenderTail \/ LargeTail \/ WriteOnes
    \/ Terminated

Spec == Init /\ [][Next]_vars

-----------------------------------------------------------------------------
(* Properties *)

\* The digits, or the column sums between a product and its reduction, are worth
\* exactly the bytes consumed: no column of a product and no Horner step wraps
\* around a uint64, no sum of an earlier block is left in a column, and the
\* carry that encodeReduceColumns drops is zero.
ValuePreserved ==
    /\ pc \in {"horner", "absorb", "render"} =>
         LimbsValue(digits, count) = BytesValue(0, pos)
    /\ pc = "reduce" => LimbsValue(tmp, columns) = BytesValue(0, pos)

\* The limbs of each scratch array.
Scratch == CASE nz <= HalfBytes -> HalfLimbs
             [] nz > HalfBytes /\ nz <= BlockBytes -> BlockLimbs
             [] OTHER -> need

\* All stores stay in arrays sized by rational estimates: every limb a head can
\* have and the columns of every product, transient zeros included, lie in the
\* scratch; whole limbs of characters, surplus zeros included, lie in the buffer.
StoresInBounds ==
    /\ p >= 0
    /\ \A y \in DOMAIN out : y >= 0 /\ (pc # "done" => y < zcount + encodeVariableSize(nz))
    /\ pc \in {"horner", "absorb", "reduce", "render", "ones"} =>
         \A k \in DOMAIN digits \cup DOMAIN tmp : k < Scratch

\* Whatever the route, the result is the one base58 form of the input: the five
\* generators agree at every length where one takes over from another.
ResultExact ==
    pc = "done" =>
        LET n == Len(src)
            s == [k \in 1..(Cardinality(DOMAIN out) - p) |-> out[p + k - 1]]
        IN  IsEncoding(s, [k \in 0..(n - 1) |-> src[k + 1]], n, ByteBase, base58Chars, Base)
=============================================================================
