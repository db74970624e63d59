------------------------------ MODULE Alphabet ------------------------------
(***************************************************************************)
(* The base58 alphabet and the lookup tables made from it when the package *)
(* is initialised (tables.go).  Characters are bytes; VPAND, VPOR and      *)
(* VPSHUFB, by which the vector kernels classify and move them, follow.    *)
(***************************************************************************)
EXTENDS Radix

Byte == 0..255

r1div == 656356768      \* 58^5

\* '1'-'9', 'A'-'H', 'J'-'N', 'P'-'Z', 'a'-'k', 'm'-'z'
base58Chars ==
    LET c == <<49, 50, 51, 52, 53, 54, 55, 56, 57, 65, 66, 67, 68, 69, 70, 71, 72, 74, 75, 76, 77,
               78, 80, 81, 82, 83, 84, 85, 86, 87, 88, 89, 90, 97, 98, 99, 100, 101, 102, 103, 104,
               105, 106, 107, 109, 110, 111, 112, 113, 114, 115, 116, 117, 118, 119, 120, 121, 122>>
    IN  [d \in 0..57 |-> c[d + 1]]

IsChar(c) == \E d \in 0..57 : base58Chars[d] = c

base58InvalidDigit == 255

base58InverseFull ==
    [c \in Byte |-> IF IsChar(c) THEN CHOOSE d \in 0..57 : base58Chars[d] = c ELSE base58InvalidDigit]

\* The two characters of x < 58^2.
base58Pairs(x) == <<base58Chars[x \div 58], base58Chars[x % 58]>>

base58InversePairs(c0, c1) ==
    IF IsChar(c0) /\ IsChar(c1) THEN base58InverseFull[c0] * 58 + base58InverseFull[c1] ELSE 65535

-----------------------------------------------------------------------------
\* Bitwise, of two bytes.
And(a, b) ==
    LET bit(x, k) == (x \div 2 ^ (7 - k)) % 2
    IN  Value([k \in 0..7 |-> bit(a, k) * bit(b, k)], 8, 2)
Or(a, b) == a + b - And(a, b)

\* The byte of a 16-byte table that an index byte selects.
PSHUFB(table, index) == IF index >= 128 THEN 0 ELSE table[(index % 16) + 1]
=============================================================================
