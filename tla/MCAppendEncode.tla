--------------------------- MODULE MCAppendEncode ---------------------------
(***************************************************************************)
(* AppendEncode with the real sizes: result lengths at both ends of their  *)
(* range, buffers whose spare capacity is one below, exactly and one above *)
(* every amount the code compares with.                                    *)
(***************************************************************************)
EXTENDS AppendEncode

Around(S) == UNION {{x - 1, x, x + 1} : x \in S} \cap Nat

Fixed(kind, lens) ==
    {[kind |-> kind, len |-> l, cap |-> l + spare, outLen |-> m, zeros |-> z, nz |-> 0] :
        l \in {0, 1, 50}, m \in lens, z \in {0, 1},
        spare \in Around(lens \cup {MaxLen(kind)})}

\* Bytes behind the zeros, and the numbers of digits they can have.
Digits == {<<0, 0>>, <<1, 1>>, <<1, 2>>, <<8, 10>>, <<8, 11>>, <<14, 18>>, <<14, 20>>,
           <<15, 20>>, <<15, 21>>, <<33, 44>>, <<33, 46>>}

Variable ==
    {[kind |-> "variable", len |-> l, cap |-> l + spare, outLen |-> z + d[2], zeros |-> z, nz |-> d[1]] :
        l \in {0, 3}, z \in 0..3, d \in Digits, spare \in Around({0, 2, 20, 22, 40, 60, 63})}

Owned == {[kind |-> "owned", len |-> 0, cap |-> 0, outLen |-> m, zeros |-> z, nz |-> 0] :
            m \in 64..88, z \in {0, 1, 2}}

MCInputs ==
    Fixed("32", {32, 33, 43, 44}) \cup Fixed("64", {64, 65, 87, 88}) \cup Variable
        \cup {x \in Owned : x.zeros = 0 => x.outLen >= 87}
=============================================================================
