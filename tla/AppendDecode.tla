---------------------------- MODULE AppendDecode ----------------------------
(***************************************************************************)
(* Decode and AppendDecode (decode.go, large.go): strings of any length,   *)
(* decoded behind the contents of a caller's buffer.  Strings whose length *)
(* fits a 32- or 64-byte value are first tried with Decode32 / Decode64,   *)
(* which may refuse them; everything else goes through the limb decoder,   *)
(* or through math/big when it is very long.  Decode is AppendDecode to a  *)
(* nil slice.                                                              *)
(*                                                                         *)
(* Decode32 and Decode64 are taken at their word: FixedDecode shows that   *)
(* they accept exactly the encodings of Size bytes.  The buffer is real: a *)
(* slice has a length, a capacity and an array, whose cells behind the     *)
(* length are Dirty from earlier use.                                      *)
(***************************************************************************)
EXTENDS Radix

CONSTANTS
    Base, ByteBase,     \* 58, 256
    base58Chars,
    Sizes,              \* <<32, 64>>
    MaxLens,            \* <<EncodedMaxLen32, EncodedMaxLen64>>
    LimbBytes,          \* bytes per limb: 8
    GroupChars,         \* characters folded in at a time: 20
    SizeNum, SizeDen,   \* bytes per character, rounded up: 733, 1000
    LargeThreshold,     \* largeDecodeThreshold
    Inputs,             \* pairs of a slice [len, cap] and a string
    Kept, Dirty,        \* what the array holds, below and above the length
    GrowBound           \* bounds the capacity that append picks

LimbBase == Pow(ByteBase, LimbBytes)

ASSUME SizesAssumption ==
    /\ {Base, ByteBase, LimbBytes, GroupChars, SizeNum, SizeDen, LargeThreshold} \subseteq Nat \ {0}
    /\ Base > 1 /\ ByteBase >= Base
    /\ Pow(Base, GroupChars) < LimbBase * LimbBase
    /\ base58Chars \in [0..(Base - 1) -> STRING]
    /\ \A d, e \in 0..(Base - 1) : base58Chars[d] = base58Chars[e] => d = e
    /\ Kept \notin Nat /\ Dirty \notin Nat
    /\ GrowBound \in Nat

\* The rational is large enough for a value of SizeDen characters.
ASSUME EstimateAssumption == Pow(Base, SizeDen) <= Pow(ByteBase, SizeNum)

\* EncodedMaxLen32 and EncodedMaxLen64 are long enough for every 32 or 64 bytes.
ASSUME MaxLensAssumption ==
    \A f \in 1..2 : /\ Sizes[f] \in Nat /\ MaxLens[f] \in Nat
                    /\ Pow(ByteBase, Sizes[f]) <= Pow(Base, MaxLens[f])

ASSUME InputsAssumption ==
    \A x \in Inputs : /\ x.encoded \in Seq(STRING)
                      /\ x.dst.len \in Nat /\ x.dst.cap \in Nat /\ x.dst.len <= x.dst.cap

VARIABLES
    in,             \* the arguments
    pc,
    zeros,          \* leading '1's
    mem,            \* mem["dst"]: the caller's array; mem["new"]: one we allocated
    cur,            \* the slice dst, as it is reassigned
    pos,            \* characters behind the zeros that are folded in
    limbs, top,     \* the value so far, least significant limb first
    route,          \* what produced the result
    err

vars == <<in, pc, zeros, mem, cur, pos, limbs, top, route, err>>

encoded == in.encoded
encLen  == Len(encoded)
start   == in.dst.len

Init ==
    /\ in \in Inputs
    /\ pc = "begin"
    /\ zeros = 0
    /\ mem = [dst |-> [x \in 0..(in.dst.cap - 1) |-> IF x < in.dst.len THEN Kept ELSE Dirty],
              new |-> <<>>]
    /\ cur = [arr |-> "dst", len |-> in.dst.len, cap |-> in.dst.cap]
    /\ pos = 0
    /\ limbs = <<>> /\ top = 0
    /\ route = "none"
    /\ err = "none"

-----------------------------------------------------------------------------
(* Slices *)

\* A fresh array of capacity c that starts with the first cur.len cells of dst.
Grown(c) == [x \in 0..(c - 1) |-> IF x < cur.len THEN mem[cur.arr][x] ELSE 0]

\* append(dst, bs...): in place when it fits, else in a new array, of which the
\* runtime chooses the capacity.
AppendBytes(bs) ==
    LET total == cur.len + Len(bs)
        Put(a) == [x \in DOMAIN a |->
                     IF x >= cur.len /\ x < total THEN bs[x - cur.len + 1] ELSE a[x]]
    IN  IF cur.cap >= total
        THEN /\ mem' = [mem EXCEPT ![cur.arr] = Put(@)]
             /\ cur' = [cur EXCEPT !.len = total]
        ELSE \E c \in total..(total + GrowBound) :
               /\ mem' = [mem EXCEPT !["new"] = Put(Grown(c))]
               /\ cur' = [arr |-> "new", len |-> total, cap |-> c]

\* Mutants: the capacity is not looked at; room for exactly the result is not
\* taken for enough.
Resize_NoCheck(total) ==
    /\ cur' = [cur EXCEPT !.len = total]
    /\ UNCHANGED mem

Resize_Strict(total) ==
    IF cur.cap <= total
    THEN /\ mem' = [mem EXCEPT !["new"] = Grown(total)]
         /\ cur' = [arr |-> "new", len |-> total, cap |-> total]
    ELSE /\ cur' = [cur EXCEPT !.len = total]
         /\ UNCHANGED mem

\* if cap(dst) < total { grown := make([]byte, total); copy } else { dst[:total] }
Resize(total) ==
    IF cur.cap < total
    THEN /\ mem' = [mem EXCEPT !["new"] = Grown(total)]
         /\ cur' = [arr |-> "new", len |-> total, cap |-> total]
    ELSE /\ cur' = [cur EXCEPT !.len = total]
         /\ UNCHANGED mem

Return(r, e) == pc' = "done" /\ route' = r /\ err' = e

-----------------------------------------------------------------------------
(* Dispatch *)

One == base58Chars[0]

Begin ==
    /\ pc = "begin"
    /\ zeros' = LeadingZeros([k \in 0..(encLen - 1) |-> encoded[k + 1]], encLen, One)
    /\ IF encLen = 0 THEN Return("empty", "nil")
       ELSE /\ pc' = IF zeros' = encLen THEN "zeros" ELSE "fixed1"
            /\ UNCHANGED <<route, err>>
    /\ UNCHANGED <<in, mem, cur, pos, limbs, top>>

\* for range zeros { dst = append(dst, 0) }
AppendZero ==
    /\ pc = "zeros"
    /\ pos < zeros
    /\ AppendBytes(<<0>>)
    /\ pos' = pos + 1
    /\ UNCHANGED <<in, pc, zeros, limbs, top, route, err>>

ZerosDone ==
    /\ pc = "zeros"
    /\ pos = zeros
    /\ Return("zeros", "nil")
    /\ UNCHANGED <<in, zeros, mem, cur, pos, limbs, top>>

\* The bytes of x > 0 without leading zeros.
byteLen(x) == CHOOSE m \in 1..(x + 1) : x < Pow(ByteBase, m) /\ x >= Pow(ByteBase, m - 1)

\* Mutant: one byte short.
decMaxBytes_Short(k) == byteLen(Pow(Base, k) - 1) - 1

decMinBytes(k) == byteLen(Pow(Base, k - 1))
decMaxBytes(k) == byteLen(Pow(Base, k) - 1)

IsChar(c) == \E d \in 0..(Base - 1) : base58Chars[d] = c
AllChars  == \A k \in 1..encLen : IsChar(encoded[k])

\* The value of a run of characters.
ValueOf(from, count) ==
    Value([k \in 0..(count - 1) |-> DigitOf(encoded[from + k], base58Chars)], count, Base)

BytesOf(x, m) == [k \in 1..m |-> Digit(x, k - 1, m, ByteBase)]

\* Decode32 / Decode64, see FixedDecode: the bytes, or nothing.
FixedAccepts(size) ==
    /\ AllChars
    /\ LET x == ValueOf(1, encLen)
       IN  x < Pow(ByteBase, size) /\ size - byteLen(x) = zeros

\* The lengths and the byte counts that a value of this size can have.
Plausible(f) ==
    LET k    == encLen - zeros
        need == Sizes[f] - zeros
    IN  /\ encLen >= Sizes[f] /\ encLen <= MaxLens[f]
        /\ need >= decMinBytes(k) /\ need <= decMaxBytes(k)

\* The attempt decodes into a temporary: a refusal leaves nothing behind.
TryFixed(f) ==
    /\ pc = IF f = 1 THEN "fixed1" ELSE "fixed2"
    /\ IF Plausible(f) /\ FixedAccepts(Sizes[f])
       THEN /\ AppendBytes(BytesOf(ValueOf(1, encLen), Sizes[f]))
            /\ Return("fixed", "nil")
       ELSE /\ pc' = IF f = 1 THEN "fixed2" ELSE "variable"
            /\ UNCHANGED <<mem, cur, route, err>>
    /\ UNCHANGED <<in, zeros, pos, limbs, top>>

-----------------------------------------------------------------------------
(* appendDecodeVariable *)

n == encLen - zeros

\* Mutant: the estimate is not rounded up.
maxBytes_Down == (n * SizeNum) \div SizeDen

maxBytes == ((n * SizeNum) \div SizeDen) + 1
numLimbs == (maxBytes + LimbBytes - 1) \div LimbBytes

\* Mutant: the zero prefix is written before the characters are validated.
BeginVariable_PrefixFirst ==
    /\ pc = "variable"
    /\ n < LargeThreshold
    /\ limbs' = [j \in 0..(numLimbs - 1) |-> 0]
    /\ mem' = [mem EXCEPT !["dst"] =
                 [x \in DOMAIN @ |-> IF x >= start /\ x < start + zeros THEN 0 ELSE @[x]]]
    /\ pc' = "fold"
    /\ UNCHANGED <<in, zeros, cur, pos, top, route, err>>

BeginVariable ==
    /\ pc = "variable"
    /\ n < LargeThreshold
    /\ limbs' = [j \in 0..(numLimbs - 1) |-> 0]
    /\ pc' = "fold"
    /\ UNCHANGED <<in, zeros, mem, cur, pos, top, route, err>>

groupLen == IF pos = 0 /\ n % GroupChars # 0 THEN n % GroupChars ELSE GroupChars

GroupBad == \E k \in 1..groupLen : ~IsChar(encoded[zeros + pos + k])

\* The carry into limb j while every active limb is multiplied by 58^20 and the
\* group g is added: two words, of which the upper one must not wrap.
CarryInto(g) ==
    LET c[j \in 0..top] ==
          IF j = 0 THEN g
          ELSE ((limbs[j - 1] * Pow(Base, GroupChars) + c[j - 1]) \div LimbBase) % (LimbBase * LimbBase)
    IN  c

\* One group of characters: work = work * 58^20 + g.
FoldGroup ==
    LET c    == CarryInto(ValueOf(zeros + pos + 1, groupLen))
        last == c[top]
        more == IF last \div LimbBase # 0 THEN 2 ELSE IF last # 0 THEN 1 ELSE 0
    IN  /\ pc = "fold"
        /\ pos < n
        /\ ~GroupBad
        /\ limbs' = [j \in DOMAIN limbs \cup top..(top + more - 1) |->
                       IF j < top THEN (limbs[j] * Pow(Base, GroupChars) + c[j]) % LimbBase
                       ELSE IF j = top /\ more > 0 THEN last % LimbBase
                       ELSE IF j = top + 1 /\ more > 1 THEN last \div LimbBase
                       ELSE limbs[j]]
        /\ top' = top + more
        /\ pos' = pos + groupLen
        /\ UNCHANGED <<in, pc, zeros, mem, cur, route, err>>

\* Returns a nil slice.
RejectGroup ==
    /\ pc = "fold"
    /\ pos < n
    /\ GroupBad
    /\ cur' = [arr |-> "new", len |-> 0, cap |-> 0]
    /\ Return("variable", "ErrInvalidChar")
    /\ UNCHANGED <<in, zeros, mem, pos, limbs, top>>

topBytes == byteLen(limbs[top - 1])
payload  == (top - 1) * LimbBytes + topBytes

Alloc ==
    /\ pc = "fold"
    /\ pos = n
    /\ Resize(start + zeros + payload)
    /\ pc' = "prefix"
    /\ UNCHANGED <<in, zeros, pos, limbs, top, route, err>>

\* Mutant: leaves the prefix to a buffer that is taken for zeroed.
WritePrefix_Skip ==
    /\ pc = "prefix"
    /\ pc' = "bytes"
    /\ UNCHANGED <<in, zeros, mem, cur, pos, limbs, top, route, err>>

\* The zeros prefix must be explicit: reused capacity may hold old data.
WritePrefix ==
    /\ pc = "prefix"
    /\ mem' = [mem EXCEPT ![cur.arr] =
                 [x \in DOMAIN @ |-> IF x >= start /\ x < start + zeros THEN 0 ELSE @[x]]]
    /\ pc' = "bytes"
    /\ UNCHANGED <<in, zeros, cur, pos, limbs, top, route, err>>

\* From the last byte backwards: whole limbs, then what the top limb needs.
ByteAt(y) == (limbs[y \div LimbBytes] \div Pow(ByteBase, y % LimbBytes)) % ByteBase

WriteBytes ==
    /\ pc = "bytes"
    /\ mem' = [mem EXCEPT ![cur.arr] =
                 [x \in DOMAIN @ |->
                    IF x >= cur.len - payload /\ x < cur.len THEN ByteAt(cur.len - 1 - x)
                    ELSE @[x]]]
    /\ Return("variable", "nil")
    /\ UNCHANGED <<in, zeros, cur, pos, limbs, top>>

-----------------------------------------------------------------------------
\* appendDecodeLarge: all characters are validated first; then the value, by
\* math/big, is written with FillBytes behind a prefix cleared when it is reused.
Large ==
    /\ pc = "variable"
    /\ n >= LargeThreshold
    /\ IF AllChars
       THEN LET bs    == BytesOf(ValueOf(zeros + 1, n), byteLen(ValueOf(zeros + 1, n)))
                total == start + zeros + Len(bs)
                arr   == IF cur.cap < total THEN Grown(total) ELSE mem[cur.arr]
                a     == IF cur.cap < total THEN "new" ELSE cur.arr
            IN  /\ mem' = [mem EXCEPT ![a] = [x \in DOMAIN arr |->
                             IF x >= start /\ x < start + zeros THEN 0
                             ELSE IF x >= start + zeros /\ x < total THEN bs[x - start - zeros + 1]
                             ELSE arr[x]]]
                /\ cur' = [arr |-> a, len |-> total,
                           cap |-> IF cur.cap < total THEN total ELSE cur.cap]
                /\ Return("large", "nil")
       ELSE /\ cur' = [arr |-> "new", len |-> 0, cap |-> 0]
            /\ Return("large", "ErrInvalidChar")
            /\ UNCHANGED mem
    /\ UNCHANGED <<in, zeros, pos, limbs, top>>

Terminated == pc = "done" /\ UNCHANGED vars

Next ==
    \/ Begin \/ AppendZero \/ ZerosDone
    \/ \E f \in 1..2 : TryFixed(f)
    \/ BeginVariable \/ FoldGroup \/ RejectGroup \/ Alloc \/ WritePrefix \/ WriteBytes
    \/ Large
    \/ Terminated

Spec == Init /\ [][Next]_vars

-----------------------------------------------------------------------------
(* Properties *)

Cell == 0..(ByteBase - 1) \cup {Kept, Dirty}

\* The slice never exceeds its capacity, cells hold bytes or what they held before,
\* limbs are uint64 values.
TypeOK ==
    /\ pc \in {"begin", "zeros", "fixed1", "fixed2", "variable", "fold", "prefix", "bytes", "done"}
    /\ zeros \in 0..encLen
    /\ \A a \in {"dst", "new"} : \A x \in DOMAIN mem[a] : mem[a][x] \in Cell
    /\ cur.arr \in {"dst", "new"}
    /\ cur.len \in 0..cur.cap
    /\ DOMAIN mem["dst"] = 0..(in.dst.cap - 1)
    /\ pos \in 0..encLen
    /\ \A j \in DOMAIN limbs : limbs[j] \in 0..(LimbBase - 1)
    /\ top \in Nat
    /\ route \in {"none", "empty", "zeros", "fixed", "variable", "large"}
    /\ err \in {"none", "nil", "ErrInvalidChar"}

\* What decoding must append: a zero byte per leading '1', then the value in as
\* few bytes as it has.
Expected ==
    LET z == LeadingZeros([k \in 0..(encLen - 1) |-> encoded[k + 1]], encLen, One)
        x == ValueOf(1, encLen)
    IN  [k \in 1..z |-> 0] \o IF z = encLen THEN <<>> ELSE BytesOf(x, byteLen(x))

\* Whichever route a string takes, the result is the old contents followed by
\* its decoding, with nothing of the buffer's earlier use in it; and a string is
\* refused exactly when it has a character outside the alphabet.
ResultExact ==
    pc = "done" =>
        IF AllChars
        THEN /\ err = "nil"
             /\ cur.len = start + Len(Expected)
             /\ \A x \in 0..(cur.len - 1) :
                  mem[cur.arr][x] = IF x < start THEN Kept ELSE Expected[x - start + 1]
        ELSE err = "ErrInvalidChar"

\* At no moment does the call touch what the caller's slice already holds, and a
\* refused string leaves the spare capacity behind it as it was too: nothing is
\* written before the last character has been looked at.
CallerBufferKept ==
    /\ \A x \in 0..(start - 1) : mem["dst"][x] = Kept
    /\ err = "ErrInvalidChar" => \A x \in start..(in.dst.cap - 1) : mem["dst"][x] = Dirty

\* A buffer with room for the result is used; one without is not written behind
\* its capacity but replaced.
ReusesCapacity ==
    pc = "done" /\ err = "nil" =>
        (cur.arr = "dst" <=> start + Len(Expected) <= in.dst.cap)

\* The limb array, sized by a rational estimate of log 58 / log 256, holds every
\* value on its way: no store falls behind it, and no carry exceeds two words.
LimbsSuffice ==
    pc \in {"fold", "prefix", "bytes"} =>
        /\ top <= numLimbs
        /\ pos > 0 => Value([j \in 0..(top - 1) |-> limbs[top - 1 - j]], top, LimbBase)
                        = ValueOf(zeros + 1, pos)

\* The byte counts checked up front are exact enough: a string that decodes to
\* one of the two fixed sizes is decoded by the fixed-size decoder.
FixedSizesTakeFastPath ==
    pc = "done" /\ err = "nil" /\ zeros < encLen =>
        (route = "fixed" <=> \E f \in 1..2 : Len(Expected) = Sizes[f])
=============================================================================
