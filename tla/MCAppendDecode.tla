--------------------------- MODULE MCAppendDecode ---------------------------
(***************************************************************************)
(* AppendDecode with base-3 characters, bytes of four values, limbs of two *)
(* bytes and groups of four characters; sizes 2 and 4 stand for 32 and 64. *)
(* Strings: all up to MaxLen characters, with one outside the alphabet up  *)
(* to BadLen; longer ones (three groups, then the large path) by pattern.  *)
(***************************************************************************)
EXTENDS AppendDecode

CONSTANTS MaxLen, BadLen, LongLen

MCChars == [d \in 0..2 |-> <<"1", "2", "3">>[d + 1]]
MCSizes == <<2, 4>>
MCMaxLens == <<3, 6>>

Slices == {[len |-> 0, cap |-> 0], [len |-> 0, cap |-> 4], [len |-> 1, cap |-> 3],
           [len |-> 2, cap |-> 12], [len |-> 3, cap |-> 3]}

Strings ==
    UNION {[1..m -> {"1", "2", "3"}] : m \in 0..MaxLen} \cup
    UNION {[1..m -> {"1", "3", "0"}] : m \in 1..BadLen} \cup
    {[k \in 1..m |-> IF k <= z THEN "1" ELSE IF k = x THEN c ELSE "3"] :
        m \in (MaxLen + 1)..LongLen, z \in 0..3, x \in 0..LongLen, c \in {"0", "1", "2"}}

MCInputs == {[dst |-> s, encoded |-> e] : s \in Slices, e \in Strings}
=============================================================================
