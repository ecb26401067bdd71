--------------------------- MODULE MCCloudSession ---------------------------
(***************************************************************************)
(* Small instances of CloudSession.                                        *)
(***************************************************************************)
EXTENDS CloudSession, TLC

CONSTANTS c1, c2

(* Two concurrent requests on one session, a wrong clock, two faults.       *)
Sharing == [calls |-> 2, logins |-> 1, logouts |-> 1, faults |-> 2, ages |-> 2,
            skewed |-> TRUE]

(* Sign-outs and sign-ins overtake each other and a request of each session. *)
Switching == [calls |-> 1, logins |-> 2, logouts |-> 1, faults |-> 2,
              ages |-> 1, skewed |-> FALSE]

SafetyBudgets == {Sharing, Switching}

Interchangeable == Permutations(Calls)
=============================================================================
