---------------------------- MODULE MCSyncOutbox ----------------------------
(***************************************************************************)
(* Instances of SyncOutbox for TLC: two devices share one account.         *)
(***************************************************************************)
EXTENDS SyncOutbox

CONSTANTS d1, d2

TwoOne == [d \in Devices |-> IF d = d1 THEN 2 ELSE 1]
=============================================================================
