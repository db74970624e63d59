------------------------------- MODULE Radix -------------------------------
(***************************************************************************)
(* Positional notation, shared by the codecs.  A number is a function from *)
(* 0..(n-1) to digits, most significant first, which is how the code keeps *)
(* bytes, 32-bit words, base-58^5 elements and characters alike.  The last *)
(* definition says what an encoding IS, not how one is computed.           *)
(***************************************************************************)
EXTENDS Integers, Sequences

\* The value of the first n digits of f.
Value(f, n, base) ==
    LET horner[k \in 0..n] == IF k = 0 THEN 0 ELSE horner[k - 1] * base + f[k - 1]
    IN  horner[n]

\* base to the power e.
Pow(base, e) ==
    LET p[k \in 0..e] == IF k = 0 THEN 1 ELSE p[k - 1] * base
    IN  p[e]

\* Digit k of v written with n digits.
Digit(v, k, n, base) == (v \div Pow(base, n - 1 - k)) % base

\* The number of entries of f before the first that is not zero.
LeadingZeros(f, n, zero) ==
    CHOOSE z \in 0..n : /\ \A k \in 0..(z - 1) : f[k] = zero
                        /\ z < n => f[z] # zero

DigitOf(c, chars) == CHOOSE d \in DOMAIN chars : chars[d] = c

\* The string s is the base58 form of the n bytes of src in the alphabet chars:
\* one zero character per leading zero byte, then the digits of the value, the
\* first of them not zero.  There is exactly one such s.
IsEncoding(s, src, n, byteBase, chars, base) ==
    LET z == LeadingZeros(src, n, 0)
        m == Len(s) - z
        d == [k \in 0..(m - 1) |-> DigitOf(s[z + 1 + k], chars)]
    IN  /\ m >= 0
        /\ \A k \in 1..z : s[k] = chars[0]
        /\ \A k \in (z + 1)..Len(s) : \E x \in 0..(base - 1) : s[k] = chars[x]
        /\ m > 0 => s[z + 1] # chars[0]
        /\ Value(d, m, base) = Value(src, n, byteBase)
=============================================================================
