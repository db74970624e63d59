------------------------------ MODULE MCCache ------------------------------
(***************************************************************************)
(* Cache on a small table: two keys that collide in one slot and a third   *)
(* one that has a slot to itself.  Addrs has one address per slot and per  *)
(* goroutine, the fewest with which an allocation never has to wait, so    *)
(* that addresses are reused as soon as they can be.                       *)
(***************************************************************************)
EXTENDS Cache

CONSTANTS k1, k2, k3, s1, s2, s3

MCKeys     == {k1, k2, k3}
MCStrings  == {s1, s2, s3}
MCSlots    == {0, 1}
MCIndex    == [k \in MCKeys |-> IF k = k3 THEN 1 ELSE 0]
MCEncode32 == [k \in MCKeys |-> IF k = k1 THEN s1 ELSE IF k = k2 THEN s2 ELSE s3]
=============================================================================
