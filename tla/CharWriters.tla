---------------------------- MODULE CharWriters ----------------------------
(***************************************************************************)
(* How the encoders turn reduced base-58^5 elements into characters, with  *)
(* the constants of the code.  No kernel divides: quotients come from a    *)
(* multiplication by a rounded reciprocal and a shift.                     *)
(*   portable  extractChars5 (encode.go): pairs, from a table              *)
(*   append32  RENDER5 in encode32AppendAVX2: the same with reciprocals    *)
(*   raw64     extractChars64 and encode64Write (chars_amd64.go):          *)
(*             digitsToChars16Fast, then two elements by extractChars5     *)
(*   flat36    extractCharsFlat36 and extractCharsFlat72, the batches:     *)
(*   flat72    digitsToChars36                                             *)
(*   full64    I2R and R2B in encode64FullAVX2: all in registers           *)
(*   large     encodeLargeTail: the digits of math/big, translated         *)
(*                                                                         *)
(* A vector store is 16 bytes for ten characters: the six bytes behind     *)
(* them are overwritten by a later store or lie behind the result (Batch   *)
(* and AppendEncode check that they lie in the buffer).                    *)
(***************************************************************************)
EXTENDS Alphabet

CONSTANTS Inputs        \* pairs of elements

ASSUME InputsAssumption == \A p \in Inputs : p \in (0..(r1div - 1)) \X (0..(r1div - 1))

VARIABLES
    kernel,
    im,         \* the two elements that the input alternates between
    step,       \* elements or lanes done
    regs,       \* full64: the vector registers, lane by lane
    raw         \* the bytes written so far

vars == <<kernel, im, step, regs, raw>>

Kernels == {"portable", "append32", "raw64", "flat36", "flat72", "full64", "large"}

\* The elements of each kernel's input.
Elements == [portable |-> 18, append32 |-> 9, raw64 |-> 18, flat36 |-> 36, flat72 |-> 72,
             full64 |-> 18, large |-> 1]

Init ==
    /\ kernel \in Kernels
    /\ im \in Inputs
    /\ step = 0
    /\ regs = <<>>
    /\ raw = [k \in {} |-> 0]

v(k) == im[(k % 2) + 1]

\* Stores len bytes at offset at.
Store(at, bytes, len) ==
    raw' = [k \in DOMAIN raw \cup at..(at + len - 1) |->
              IF k >= at /\ k < at + len THEN bytes[k - at + 1] ELSE raw[k]]

-----------------------------------------------------------------------------
(* Reciprocals, as numbers of three digits in base 2^15 *)

\* (x * m) >> s for s >= 30, by long multiplication.
MulShift(x, m, s) ==
    LET B  == 32768
        lo == x % B
        hi == x \div B
        c0 == lo * m[3]
        c1 == hi * m[3] + lo * m[2] + c0 \div B
        c2 == hi * m[2] + lo * m[1] + c1 \div B
        c3 == hi * m[1] + c2 \div B
    IN  IF s >= 45 THEN c3 \div 2 ^ (s - 45)
        ELSE c3 * 2 ^ (45 - s) + (c2 % B) \div 2 ^ (s - 30)

\* Mutant: a reciprocal that is rounded down.
b58div3364_Down == <<1, 7130, 8338>>

b58div58   == <<2, 6779, 19209>>        \* 2369637129
b58div3364 == <<1, 7130, 8339>>         \* 1307386003
b58m4      == <<0, 24290, 635>>         \* 795935355
b58m3      == <<0, 343, 31145>>         \* 11270569
b58m2      == <<0, 38, 31561>>          \* 1276745
b58m1      == <<0, 2259, 28249>>        \* 74051161
renderM    == <<2, 14260, 16677>>       \* 0x9bda4125

\* digitsToChars16FastRegs, I2R: a recurrence on two reciprocals.
FastDigits(x) ==
    LET div1 == MulShift(x, b58div58, 37)
        div2 == MulShift(x \div 4, b58div3364, 40)
        div3 == MulShift(div1 \div 4, b58div3364, 40)
        div4 == MulShift(div2 \div 4, b58div3364, 40)
    IN  <<div4, div3 - 58 * div4, div2 - 58 * div3, div1 - 58 * div2, x - 58 * div1>>

\* digitsToChars36: a digit at a time, most significant first.
SplitDigits(x) ==
    LET d0 == MulShift(x, b58m4, 53)
        x1 == x - d0 * 11316496
        d1 == MulShift(x1, b58m3, 41)
        x2 == x1 - d1 * 195112
        d2 == MulShift(x2, b58m2, 32)
        x3 == x2 - d2 * 3364
        d3 == MulShift(x3, b58m1, 32)
    IN  <<d0, d1, d2, d3, x3 - d3 * 58>>

\* The five characters of an element, from its quotients by 58^2 and 58^4.
PairChars(x, q1, q2) ==
    <<base58Chars[q2]>> \o base58Pairs(q1 - q2 * 3364) \o base58Pairs(x - q1 * 3364)

extractChars5(x) == PairChars(x, x \div 3364, (x \div 3364) \div 3364)

RENDER5(x) ==
    LET q1 == MulShift(x \div 2, renderM, 42)
    IN  PairChars(x, q1, MulShift(q1 \div 2, renderM, 42))

-----------------------------------------------------------------------------
(* From digits to characters without a table: the alphabet has five gaps *)

Above(d, t) == IF d > t THEN 1 ELSE 0

\* b58c49, b58thr0..4 and b58add0..4
DigitChar(d) ==
    d + 49 + 7 * Above(d, 8) + Above(d, 16) + Above(d, 21) + 6 * Above(d, 32) + Above(d, 43)

\* The same with negated constants, on bytes.
R2B(d) ==
    (d - (249 * Above(d, 8) + 250 * Above(d, 32) + 255 * Above(d, 16) + 255 * Above(d, 21)
            + 255 * Above(d, 43) + 207)) % 256

\* The digits of two elements in the 16 bytes of a lane.
Lane(d, e) == d \o e \o [k \in 1..6 |-> 0]

-----------------------------------------------------------------------------
(* Scalar renderers *)

Scalar ==
    LET k == step
    IN  /\ kernel = "portable" /\ step < 18
        /\ Store(5 * k, extractChars5(v(k)), 5)
        /\ step' = step + 1
        /\ UNCHANGED <<kernel, im, regs>>

\* From the least significant element on, as each leaves the carry chain.
Append32 ==
    LET k == 8 - step
    IN  /\ kernel = "append32" /\ step < 9
        /\ Store(5 * k, RENDER5(v(k)), 5)
        /\ step' = step + 1
        /\ UNCHANGED <<kernel, im, regs>>

\* value.Append(out[:0], 58) is external; the switch translates what it appends,
\* the copy moves it to the end of the buffer.
bigDigit(d) == IF d < 10 THEN 48 + d ELSE IF d < 36 THEN 97 + d - 10 ELSE 65 + d - 36
largeDigit(b) == IF b <= 57 THEN b - 48 ELSE IF b >= 97 THEN b - 97 + 10 ELSE b - 65 + 36

\* The significant digits of an element.
DigitLen(x) == CHOOSE m \in 0..5 : x < 58 ^ m /\ (m > 0 => x >= 58 ^ (m - 1))

Large ==
    LET m == DigitLen(v(0))
    IN  /\ kernel = "large" /\ step = 0
        /\ Store(5 - m, [k \in 1..m |-> base58Chars[largeDigit(bigDigit(Digit(v(0), k - 1, m, 58)))]], m)
        /\ step' = 1
        /\ UNCHANGED <<kernel, im, regs>>

-----------------------------------------------------------------------------
(* Vector renderers *)

\* Two elements to ten characters and six bytes of overhang.
VectorStore(d, e) ==
    LET b == Lane(d, e)
    IN  /\ Store(10 * step, [k \in 1..16 |-> DigitChar(b[k])], 16)
        /\ step' = step + 1
        /\ UNCHANGED <<kernel, im, regs>>

digitsToChars16Fast ==
    /\ kernel = "raw64" /\ step < 8
    /\ VectorStore(FastDigits(v(2 * step)), FastDigits(v(2 * step + 1)))

\* The two elements behind the vectors, over the overhang.
ScalarTail ==
    /\ kernel = "raw64" /\ step \in {8, 9}
    /\ Store(40 + 5 * step, extractChars5(v(step + 8)), 5)
    /\ step' = step + 1
    /\ UNCHANGED <<kernel, im, regs>>

\* In the batch of 72 the second call starts where the first one ended.
digitsToChars36 ==
    /\ kernel \in {"flat36", "flat72"}
    /\ step < Elements[kernel] \div 2
    /\ VectorStore(SplitDigits(v(2 * step)), SplitDigits(v(2 * step + 1)))

-----------------------------------------------------------------------------
(* encode64FullAVX2 *)

\* Ten digits per lane.
FullDigits ==
    /\ kernel = "full64" /\ step = 0
    /\ regs' = [l \in 1..9 |-> Lane(FastDigits(v(2 * l - 2)), FastDigits(v(2 * l - 1)))]
    /\ step' = 1
    /\ UNCHANGED <<kernel, im, raw>>

\* VPSLLDQ and VPSRLDQ: towards the higher and the lower bytes.
SLL(b, k) == [i \in 1..16 |-> IF i > k THEN b[i - k] ELSE 0]
SRL(b, k) == [i \in 1..16 |-> IF i + k <= 16 THEN b[i + k] ELSE 0]
POr(a, b) == [i \in 1..16 |-> Or(a[i], b[i])]

\* ten_per_slot_down_64: nine lanes of ten digits become 90 bytes in a row.
FullPack ==
    /\ kernel = "full64" /\ step = 1
    /\ regs' = <<POr(regs[1], SLL(regs[2], 10)),
                 POr(POr(SRL(regs[2], 6), SLL(regs[3], 4)), SLL(regs[4], 14)),
                 POr(SRL(regs[4], 2), SLL(regs[5], 8)),
                 POr(POr(SRL(regs[5], 8), SLL(regs[6], 2)), SLL(regs[7], 12)),
                 POr(SRL(regs[7], 4), SLL(regs[8], 6)),
                 regs[9]>>
    /\ step' = 2
    /\ UNCHANGED <<kernel, im, raw>>

FullStore ==
    /\ kernel = "full64" /\ step = 2
    /\ Store(0, [k \in 1..96 |-> R2B(regs[((k - 1) \div 16) + 1][((k - 1) % 16) + 1])], 96)
    /\ step' = 3
    /\ UNCHANGED <<kernel, im, regs>>

-----------------------------------------------------------------------------
Steps == [portable |-> 18, append32 |-> 9, raw64 |-> 10, flat36 |-> 18, flat72 |-> 36,
          full64 |-> 3, large |-> 1]

done == step = Steps[kernel]

Terminated == done /\ UNCHANGED vars

Next ==
    \/ Scalar \/ Append32 \/ Large
    \/ digitsToChars16Fast \/ ScalarTail \/ digitsToChars36
    \/ FullDigits \/ FullPack \/ FullStore
    \/ Terminated

Spec == Init /\ [][Next]_vars

-----------------------------------------------------------------------------
(* Properties *)

\* Whichever kernel wrote them, the characters are those of the digits of the
\* elements: every quotient by a reciprocal is exact, the arithmetic that stands
\* for the alphabet agrees with it, and no byte of an overhang is left.
CharsExact ==
    done => \A k \in (IF kernel = "large" THEN 5 - DigitLen(v(0)) ELSE 0)..(5 * Elements[kernel] - 1) :
              raw[k] = base58Chars[Digit(v(k \div 5), k % 5, 5, 58)]

=============================================================================
