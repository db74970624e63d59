--------------------------- MODULE MCFixedEncode ---------------------------
(***************************************************************************)
(* FixedEncode with bytes of four values, words of three bytes, limbs of  *)
(* two base-3 digits and integers modulo 1000 for uint64.  As in the code,     *)
(* with the words of the 64-byte form exactly column Limbs-2 overflows     *)
(* when it is not reduced half way, a limb is smaller than a word, the     *)
(* first limb only ever receives a carry, and an input without a leading   *)
(* zero byte has one of two lengths.                                       *)
(***************************************************************************)
EXTENDS FixedEncode

CONSTANTS WordValues        \* the words that inputs are made of

AllWords == 0..(WordBase - 1)

MCChars == [d \in 0..2 |-> <<"1", "2", "3">>[d + 1]]

ToBytes(n) == [b \in 0..(Bytes - 1) |-> Digit(n, b, Bytes, ByteBase)]

\* Values around the powers of R1div: carries that run through many limbs.
Edges == {n \in UNION {{R1div ^ k - 1, R1div ^ k, R1div ^ k + 1} : k \in 1..(Limbs - 1)} :
            n < WordBase ^ Words}

MCInputs ==
    {ToBytes(n) : n \in Edges} \cup
    {[b \in 0..(Bytes - 1) |-> Digit(w[b \div WordBytes], b % WordBytes, WordBytes, ByteBase)] :
        w \in [0..(Words - 1) -> WordValues]}
=============================================================================
