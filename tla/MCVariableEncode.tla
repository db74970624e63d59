-------------------------- MODULE MCVariableEncode --------------------------
(***************************************************************************)
(* VariableEncode with bytes of three values, words of two bytes and limbs *)
(* of three base-2 digits: as in the code a word is a little more than a   *)
(* limb (9 and 8; 2^32 and 58^5).  Half and block are 6 and 8 bytes.  The  *)
(* longest block input, 18 bytes, is two blocks behind a head; 19 bytes    *)
(* are large.                                                              *)
(***************************************************************************)
EXTENDS VariableEncode

CONSTANTS MaxLen, Step

MCChars == [d \in 0..1 |-> <<"1", "2">>[d + 1]]

\* x in so many bytes as it has, behind z zeros.
ByteLen(x) == CHOOSE m \in 0..MaxLen : x < ByteBase ^ m /\ (m > 0 => x >= ByteBase ^ (m - 1))
InBytes(x, z) ==
    LET m == ByteLen(x)
    IN  [k \in 1..(z + m) |-> IF k <= z THEN 0 ELSE Digit(x, k - z - 1, m, ByteBase)]

\* Everything short; powers of both radices and their neighbours; values Step apart.
Values ==
    {x \in 0..(ByteBase ^ BlockBytes) : x < ByteBase ^ HalfBytes \/ x % 7 = 0} \cup
    {x \in UNION {{b - 1, b, b + 1} : b \in {R1div ^ k : k \in 1..10} \cup {ByteBase ^ k : k \in 1..MaxLen}} :
        x < ByteBase ^ MaxLen} \cup
    {Step * k : k \in 1..(((ByteBase ^ MaxLen) - 1) \div Step)}

MCInputs == {s \in {InBytes(x, z) : x \in Values, z \in {0, 1, 3}} :
               Len(s) \notin {0, HalfBytes, BlockBytes}}
=============================================================================
