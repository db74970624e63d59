--------------------------- MODULE MCFixedDecode ---------------------------
(***************************************************************************)
(* FixedDecode with bytes of four values, words of three bytes and limbs   *)
(* of two base-3 digits.  Inputs: all strings up to Raw characters; with a *)
(* character outside the alphabet up to BadLen of them; one that is too    *)
(* long.  For the larger instance, strings around interesting values with  *)
(* any number of leading '1's.                                             *)
(***************************************************************************)
EXTENDS FixedDecode

CONSTANTS BadLen

MCChars   == [d \in 0..2 |-> <<"1", "2", "3">>[d + 1]]
CharSet   == {"1", "2", "3"}
TooLong   == [k \in 1..(Raw + 1) |-> "2"]

AllStrings ==
    UNION {[1..m -> CharSet] : m \in 0..Raw} \cup
    UNION {[1..m -> CharSet \cup {"0"}] : m \in 1..BadLen} \cup
    {TooLong} \cup
    {[k \in 1..m |-> IF k = x THEN "0" ELSE "2"] : m \in BadLen..Raw, x \in 1..Raw}

\* The value x in m digits, the last m of its expansion if it is longer.
InDigits(x, m) == [k \in 1..m |-> MCChars[Digit(x, k - 1, m, Base)]]

EdgeValues ==
    UNION {{b - 1, b, b + 1} : b \in {Pow(R1div, k) : k \in 0..(Limbs - 1)}
                                  \cup {Pow(WordBase, k) : k \in 0..Words}
                                  \cup {Pow(ByteBase, k) : k \in 0..Bytes}}
        \cup {Pow(R1div, Limbs) - 1, Pow(R1div, Limbs) - R1div}

EdgeStrings ==
    {InDigits(x, m) : x \in EdgeValues, m \in 1..Raw} \cup
    {TooLong, <<>>} \cup
    {[k \in 1..m |-> IF k = x THEN "0" ELSE "3"] : m \in 1..Raw, x \in 1..Raw}
=============================================================================
