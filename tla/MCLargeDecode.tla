--------------------------- MODULE MCLargeDecode ---------------------------
(***************************************************************************)
(* LargeDecode with base 3, groups of two and leaves of up to five digits. *)
(* A string of 18 digits is split three times, into unequal parts, and     *)
(* finds powers in the table, in the memo and nowhere.  The first digit is *)
(* never zero: AppendDecode strips the leading '1's.                       *)
(***************************************************************************)
EXTENDS LargeDecode

CONSTANTS MaxLen, AllLen

Patterns == [0..2 -> 0..(Base - 1)]

\* Every string of up to AllLen digits, and longer ones of a repeated pattern.
MCInputs ==
    {s \in (UNION {[1..n -> 0..(Base - 1)] : n \in 1..AllLen})
             \cup {[k \in 1..n |-> f[k % 3]] : f \in Patterns, n \in (AllLen + 1)..MaxLen} : s[1] # 0}
=============================================================================
