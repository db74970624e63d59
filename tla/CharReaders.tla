---------------------------- MODULE CharReaders ----------------------------
(***************************************************************************)
(* How Decode32 and Decode64 turn characters into base-58^5 elements, with *)
(* the constants of the code: the front ends of decode32Generic and        *)
(* decode64Generic (decode.go) and of the four fused AVX2 kernels          *)
(* (decode_fused_amd64.s).  FixedDecode takes over from here and knows     *)
(* only what ElementsExact and RefusesExactly say.                         *)
(*                                                                         *)
(* A fused kernel loads the string in chunks of 16 bytes that overlap,     *)
(* classifies every byte by its two nibbles, moves the digits of each      *)
(* 128-bit lane into place and folds three groups of five per lane.        *)
(***************************************************************************)
EXTENDS Alphabet

CONSTANTS Inputs        \* records of size (32 or 64) and str

ASSUME InputsAssumption ==
    \A x \in Inputs : /\ x.size \in {32, 64}
                      /\ Len(x.str) \in 1..(IF x.size = 32 THEN 45 ELSE 90)
                      /\ \A k \in 1..Len(x.str) : x.str[k] \in Byte

VARIABLES
    size, str,
    useAVX2,
    pc,
    loads,      \* the offsets loaded, one per lane
    lanes,      \* the 16 bytes of each lane
    im,         \* the elements
    status      \* 0, or 1 for ErrInvalidChar

vars == <<size, str, useAVX2, pc, loads, lanes, im, status>>

n     == Len(str)
c(k)  == str[k + 1]                     \* encoded[k]
raw   == IF size = 32 THEN 45 ELSE 90   \* raw58Sz32, raw58Sz64
pad   == raw - n
limbs == raw \div 5

Init ==
    /\ \E x \in Inputs : size = x.size /\ str = x.str
    /\ useAVX2 \in BOOLEAN
    /\ pc = "begin"
    /\ loads = <<>> /\ lanes = <<>>
    /\ im = <<>>
    /\ status = 0

fused == useAVX2 /\ n >= size

-----------------------------------------------------------------------------
(* decode32Generic, decode64Generic *)

head  == IF n % 5 = 0 THEN 5 ELSE n % 5
first == limbs - ((n + 4) \div 5)

\* The offsets of the groups behind the head.
Offsets == {head + 5 * k : k \in 0..((n \div 5) - 1)} \ {n}

\* The elements, if no character is refused; the sums of refused strings are not used.
Groups(group, bad) ==
    LET h == [k \in 0..(head - 1) |-> base58InverseFull[c(k)]]
    IN  /\ pc = "begin"
        /\ ~fused
        /\ IF bad \/ \E k \in 0..(head - 1) : h[k] >= 64
           THEN status' = 1 /\ UNCHANGED im
           ELSE /\ im' = [g \in 0..(limbs - 1) |->
                            IF g < first THEN 0
                            ELSE IF g = first THEN Value(h, head, 58)
                            ELSE group[head + 5 * (g - first - 1)]]
                /\ UNCHANGED status
        /\ pc' = "done"
        /\ UNCHANGED <<size, str, useAVX2, loads, lanes>>

\* Two table lookups of character pairs and one of a character.
Generic32 ==
    LET group == [i \in Offsets |-> base58InversePairs(c(i), c(i + 1)) * 195112
                    + base58InversePairs(c(i + 2), c(i + 3)) * 58 + base58InverseFull[c(i + 4)]]
    IN  /\ size = 32
        /\ Groups(group, \E i \in Offsets : \/ base58InversePairs(c(i), c(i + 1)) >= 32768
                                            \/ base58InversePairs(c(i + 2), c(i + 3)) >= 32768
                                            \/ base58InverseFull[c(i + 4)] * 256 >= 32768)

Generic64 ==
    LET d(i)  == base58InverseFull[c(i)]
        group == [i \in Offsets |-> d(i) * 11316496 + d(i + 1) * 195112 + d(i + 2) * 3364
                                      + d(i + 3) * 58 + d(i + 4)]
    IN  /\ size = 64
        /\ Groups(group, \E i \in Offsets, k \in 0..4 : d(i + k) >= 64)

-----------------------------------------------------------------------------
(* The chunks of the fused kernels *)

\* What 16 bytes from offset o hold; bytes outside the string are arbitrary.
Load(offsets) ==
    /\ pc = "begin"
    /\ loads' = offsets
    /\ lanes' = [l \in 1..Len(offsets) |->
                   [i \in 0..15 |-> IF offsets[l] + i \in 0..(n - 1) THEN c(offsets[l] + i) ELSE 0]]
    /\ pc' = "classify"
    /\ UNCHANGED <<size, str, useAVX2, im, status>>

\* Mutant: a padding of more than one lane is not taken out of the second one.
R11_Zero == 0

\* SUBQ $15, R11; CMOVQLT AX, R11
R11 == IF pad > 15 THEN pad - 15 ELSE 0

decode32Fused == fused /\ size = 32 /\ n # 43 /\ Load(<<0, 15 - pad, n - 16>>)

decode32Fused43 == fused /\ size = 32 /\ n = 43 /\ Load(<<0, 13, 27>>)

decode64Fused ==
    /\ fused /\ size = 64 /\ n # 87
    /\ Load(<<0, 15 - pad + R11, 30 - pad, 45 - pad, 60 - pad, n - 16>>)

decode64Fused87 == fused /\ size = 64 /\ n = 87 /\ Load(<<0, 12, 27, 42, 57, 71>>)

-----------------------------------------------------------------------------
(* FUSED_C2D *)

decFusedLoNib  == <<72, 91, 91, 91, 91, 91, 91, 91, 91, 89, 92, 20, 4, 36, 36, 32>>
decFusedHiNib  == <<0, 0, 0, 1, 6, 8, 48, 64, 0, 0, 0, 0, 0, 0, 0, 0>>
decFusedBase   == <<0, 49, 56, 0, 57, 0, 0, 0, 58, 0, 0, 0, 0, 0, 0, 0>>
decFusedBaseHi == <<0, 64, 65, 0, 65, 0, 0, 0, 0, 0, 0, 0, 0, 0, 0, 0>>

\* One bit per range of the alphabet, none for a byte outside.
Class(b) == And(PSHUFB(decFusedLoNib, b % 16), PSHUFB(decFusedHiNib, b \div 16))

\* The class selects the character that the digits of its range count from.
DigitOfByte(b) ==
    (b - Or(PSHUFB(decFusedBase, Class(b)), PSHUFB(decFusedBaseHi, Class(b) \div 16))) % 256

\* Mutant: the last lane is not looked at.
Classified_NotLast == 1..(Len(lanes) - 1)

\* The lanes whose bytes go into the mask of invalid ones.
Classified == 1..Len(lanes)

FUSED_C2D ==
    LET classOf == [b \in {lanes[l][i] : l \in 1..Len(lanes), i \in 0..15} |-> Class(b)]
    IN  /\ pc = "classify"
        /\ IF \E l \in Classified, i \in 0..15 : classOf[lanes[l][i]] = 0
           THEN status' = 1 /\ pc' = "done" /\ UNCHANGED lanes
           ELSE /\ lanes' = [l \in 1..Len(lanes) |-> [i \in 0..15 |-> DigitOfByte(lanes[l][i])]]
                /\ pc' = "shuffle"
                /\ UNCHANGED status
        /\ UNCHANGED <<size, str, useAVX2, loads, im>>

-----------------------------------------------------------------------------
(* The digits of a lane move right by the padding that falls into it, those *)
(* of the last lane, which ends with the string, left by one.               *)

Iota(k) == [i \in 1..16 |-> (i - 1 - k) % 256]      \* decFusedIota - k, per byte

\* Mutant: the overlap of the last two chunks stays.
decFusedTail_Whole == Iota(0)

decFusedTail == [i \in 1..16 |-> IF i = 16 THEN 128 ELSE i]
decFusedPad43 == <<128, 128, 0, 1, 2, 3, 4, 5, 6, 7, 8, 9, 10, 11, 12, 13>>
decFusedPad87 == <<128, 128, 128, 0, 1, 2, 3, 4, 5, 6, 7, 8, 9, 10, 11, 12>>

Mask(l) ==
    IF l = Len(lanes) THEN decFusedTail
    ELSE IF l = 1 THEN (IF size = 32 /\ n = 43 THEN decFusedPad43
                        ELSE IF size = 64 /\ n = 87 THEN decFusedPad87 ELSE Iota(pad))
    ELSE IF l = 2 /\ size = 64 THEN Iota(R11) ELSE Iota(0)

PadLanes ==
    /\ pc = "shuffle"
    /\ lanes' = [l \in 1..Len(lanes) |->
                   LET bytes == [i \in 1..16 |-> lanes[l][i - 1]]
                   IN  [i \in 0..15 |-> PSHUFB(bytes, Mask(l)[i + 1])]]
    /\ pc' = "horner"
    /\ UNCHANGED <<size, str, useAVX2, loads, im, status>>

\* VPMADDUBSW by 58, 1; VPMADDWD by 3364, 1; VPMULLD by 58; the fifth digit.
FUSED_HORNER ==
    LET element(l, g) ==
            LET d(k) == lanes[l][5 * g + k]
            IN  ((d(0) * 58 + d(1)) * 3364 + (d(2) * 58 + d(3))) * 58 + d(4)
    IN  /\ pc = "horner"
        /\ im' = [k \in 0..(limbs - 1) |-> element((k \div 3) + 1, k % 3)]
        /\ pc' = "done"
        /\ UNCHANGED <<size, str, useAVX2, loads, lanes, status>>

Terminated == pc = "done" /\ UNCHANGED vars

Next ==
    \/ Generic32 \/ Generic64
    \/ decode32Fused \/ decode32Fused43 \/ decode64Fused \/ decode64Fused87
    \/ FUSED_C2D \/ PadLanes \/ FUSED_HORNER
    \/ Terminated

Spec == Init /\ [][Next]_vars

-----------------------------------------------------------------------------
(* Properties *)

\* No chunk reaches outside the string, whatever its length: the kernels load
\* through a raw pointer, where the memory in front of and behind the string
\* belongs to others.
LoadsInBounds == \A l \in 1..Len(loads) : loads[l] >= 0 /\ loads[l] + 16 <= n

\* A reader refuses a string exactly when one of its characters is outside the
\* alphabet: every character lies in a chunk that is classified, and the nibble
\* tables, the pair table and the sentinel of the digit table agree on all bytes.
RefusesExactly ==
    pc = "done" => (status = 1 <=> \E k \in 1..n : ~IsChar(str[k]))

\* The elements of an accepted string are its digits, padded on the left to whole
\* elements: overlapping chunks, lane shuffles and the head of the scalar loop
\* put every character in its place once, at every length.
ElementsExact ==
    pc = "done" /\ status = 0 =>
        \A k \in 0..(limbs - 1) :
            im[k] = Value([d \in 0..4 |-> IF 5 * k + d < pad THEN 0
                                          ELSE base58InverseFull[c(5 * k + d - pad)]], 5, 58)
=============================================================================
