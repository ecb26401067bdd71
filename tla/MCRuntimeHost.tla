--------------------------- MODULE MCRuntimeHost ---------------------------
(***************************************************************************)
(* Instances of RuntimeHost for TLC.  A budget says how often each kind of *)
(* event may happen in one behaviour; a run explores several budgets, each *)
(* of a kind of trouble, instead of all trouble at once.                   *)
(***************************************************************************)
EXTENDS RuntimeHost, TLC

CONSTANTS c1, c2, c3, m1, m2

Nothing == [k \in Kinds |-> 0]

(* The proxy is switched on and off while a panel is used and a core fails. *)
Panels == [Nothing EXCEPT !["press"] = 2, !["edit"] = 1, !["panel"] = 1, !["core"] = 1]

(* The proxy and the tailnet share a session; content may not compile.      *)
Tailnets == [Nothing EXCEPT !["press"] = 1, !["tailnet"] = 2, !["edit"] = 1]

(* The host stops and is started by the system.                             *)
Strangers == [Nothing EXCEPT !["press"] = 1, !["tailnet"] = 1, !["hostStop"] = 1,
                             !["hostStart"] = 1]

(* Plans are refused, cores fail, files cannot be written.                  *)
Failures == [Nothing EXCEPT !["launch"] = 1, !["press"] = 1, !["edit"] = 1, !["core"] = 1,
                            !["disk"] = 1, !["consent"] = 1]

SafetyBudgets == {Panels, Tailnets, Strangers, Failures}

(* Modes are switched from both sides.                                      *)
Switches == [Nothing EXCEPT !["press"] = 2, !["edit"] = 1, !["panel"] = 1]

(* Answers are lost or late, the core fails, the application is reopened.   *)
Losses == [Nothing EXCEPT !["press"] = 1, !["answer"] = 1, !["hostStop"] = 1, !["crash"] = 1]

Delays == [Nothing EXCEPT !["press"] = 1, !["reorder"] = 1, !["core"] = 1]

(* A file cannot be written while the host stops by itself.                 *)
Disks == [Nothing EXCEPT !["tailnet"] = 1, !["press"] = 1, !["hostStop"] = 1, !["disk"] = 1]

LivenessBudgets == {Switches, Losses, Delays, Disks}

LostAnswer == {[Nothing EXCEPT !["press"] = 2, !["answer"] = 1]}

Symmetry == Permutations({c1, c2}) \cup Permutations({m1, m2})
=============================================================================
