--------------------------- MODULE MCCharWriters ---------------------------
(***************************************************************************)
(* CharWriters on elements next to multiples of the divisors, where a      *)
(* quotient that is off by one shows: everywhere for 58^4, elsewhere at    *)
(* the upper end, where the error of a reciprocal is largest.              *)
(***************************************************************************)
EXTENDS CharWriters

CONSTANTS Count

Around(d) == LET top == r1div \div d
             IN  UNION {{d * q, d * q + d - 1} : q \in {k \in (top - Count)..(top - 1) : k >= 0}}

MCInputs == {<<x, r1div - 1 - x>> : x \in UNION {Around(58 ^ k) : k \in 0..4}}
=============================================================================
