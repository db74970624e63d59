------------------------------ MODULE MCBatch ------------------------------
(***************************************************************************)
(* Batch with the sizes of Encode64Batch, whose kernels are the ones with  *)
(* every kind of store.  Up to MaxN = 9 keys: none, fewer than a           *)
(* group, exactly one, one and three singles, two groups and one single.   *)
(* Keys cycle through the profiles <<leading '1's of the slot, leading     *)
(* zero bytes>>; the all-zero key is among them.                           *)
(***************************************************************************)
EXTENDS Batch

CONSTANTS MaxN, ZeroBytes

Profiles == << <<1, 0>>, <<2, 0>>, <<3, 2>>, <<Slot, ZeroBytes>>, <<ZeroBytes, ZeroBytes>> >>

Profile(k, r) == Profiles[((k + r) % 5) + 1]

MCInputs ==
    {[n     |-> n,
      ones  |-> {x \in 0..(n * Slot - 1) : x % Slot < Profile(x \div Slot, r)[1]},
      zeros |-> [k \in 0..(n - 1) |-> Profile(k, r)[2]]] :
        n \in 0..MaxN, r \in {0, 2, 3}}
=============================================================================
