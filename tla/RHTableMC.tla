----------------------------- MODULE RHTableMC ------------------------------
(* Instances of RHTable for TLC.  Keys share a home at the end of the table,*)
(* so that probes wrap; in the larger table one insertion swaps twice, and  *)
(* a rehash swaps too.                                                      *)
EXTENDS RHTable, TLC

CONSTANTS a, b, c, d, v, w

MCKeys   == {a, b, c, d}
MCValues == {v, w}
MCHash   == [k \in Keys |-> (a :> 7 @@ b :> 9 @@ c :> 7 @@ d :> 8)[k]]
MCFinger == [k \in Keys |-> (a :> 1 @@ b :> 2 @@ c :> 3 @@ d :> 1)[k]]

(* Bound: nothing is explored behind the first failed copy of a key.        *)
MCNext == failures = 0 /\ Next
MCSpec == Init /\ [][MCNext]_vars
=============================================================================
