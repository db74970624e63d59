--------------------------- MODULE MCCharReaders ---------------------------
(***************************************************************************)
(* CharReaders on strings of every length that a fused kernel accepts, and *)
(* shorter ones for the scalar readers.                                    *)
(***************************************************************************)
EXTENDS CharReaders

Lengths(s) == IF s = 32 THEN {1, 4, 5, 11, 31} \cup 32..45 ELSE {2, 5, 63} \cup 64..90

\* A string of m characters of the alphabet, but for byte b at index j.
String(m, j, b) == [k \in 1..m |-> IF k = j THEN b ELSE base58Chars[(7 * k + m) % 58]]

\* 'z', 'O' and 'l' at every index; every byte at some index.
MCInputs ==
    UNION {{[size |-> s, str |-> String(m, j, b)] : j \in 1..m, b \in {122, 79, 108}} : s \in {32}, m \in Lengths(32)}
    \cup
    UNION {{[size |-> s, str |-> String(m, j, b)] : j \in 1..m, b \in {122, 79}} : s \in {64}, m \in Lengths(64)}
    \cup
    {[size |-> 32, str |-> String(m, (b % m) + 1, b)] : m \in {5, 32, 43, 44}, b \in Byte}
    \cup
    {[size |-> 64, str |-> String(m, (b % m) + 1, b)] : m \in {11, 64, 87, 88}, b \in Byte}
=============================================================================
