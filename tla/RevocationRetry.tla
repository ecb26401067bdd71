--------------------------- MODULE RevocationRetry ---------------------------
(***************************************************************************)
(* CloudRevocationRetryController: while the app is in view it works off   *)
(* the queue of revocation proofs, again and again until it is empty.      *)
(*                                                                         *)
(* CloudSession models how proofs come to be and what they revoke.  Here   *)
(* they are queued by sign-outs at any moment, each of which also sends    *)
(* its own proof once, next to the drain.  The lengths of the pauses       *)
(* between two drains are left out.                                        *)
(***************************************************************************)
EXTENDS Naturals

CONSTANTS
  Proofs,     \* bound: the proofs that are ever queued
  MaxFaults   \* bound: requests without a verdict, and unreadable queues

ASSUME FaultsAssumption == MaxFaults \in Nat

VARIABLES
  fresh,       \* proofs of sessions that have not been left yet
  queue,       \* database: pending revocations
  own,         \* proofs on their way from the sign-out that queued them
  foreground,  \* _foreground
  timer,       \* _timer is set
  run,         \* _run: where it stands, the proofs to send, the error to throw
  denied,      \* the service denied a proof since the launch
  unconfirmed, \* status.remoteRevocationUnconfirmed
  faults       \* bound: faults so far

vars == <<fresh, queue, own, foreground, timer, run, denied, unconfirmed,
          faults>>

Idle == [pc |-> "idle", todo |-> {}, error |-> "none"]

Init ==
  /\ fresh = Proofs
  /\ queue = {}
  /\ own = {}
  /\ foreground = FALSE
  /\ timer = FALSE
  /\ run = Idle
  /\ denied = FALSE
  /\ unconfirmed = FALSE
  /\ faults = 0

Fault == faults < MaxFaults /\ faults' = faults + 1

-----------------------------------------------------------------------------
(* Starting a run, or joining the one that is under way.                    *)
Triggered(visible) ==
  IF visible
  THEN /\ timer' = FALSE
       /\ run' = IF run = Idle THEN [run EXCEPT !.pc = "count"] ELSE run
  ELSE UNCHANGED <<timer, run>>

Resume ==
  /\ foreground' = TRUE
  /\ Triggered(TRUE)
  /\ UNCHANGED <<fresh, queue, own, denied, unconfirmed, faults>>

Pause ==
  /\ foreground' = FALSE
  /\ timer' = FALSE
  /\ UNCHANGED <<fresh, queue, own, run, denied, unconfirmed, faults>>

(* The user asks, the account was loaded, or a sign-out left a proof.       *)
Trigger ==
  /\ Triggered(foreground)
  /\ UNCHANGED <<fresh, queue, own, foreground, denied, unconfirmed, faults>>

TimerFires ==
  /\ timer
  /\ Triggered(foreground)
  /\ UNCHANGED <<fresh, queue, own, foreground, denied, unconfirmed, faults>>

-----------------------------------------------------------------------------
(* Mutated forms of Rearm: the end of a run asks whether it has failed      *)
(* instead of counting; a pause during the run goes unnoticed.              *)
RearmOnFailure == foreground /\ run.error = "failed"

RearmRegardless == queue # {}

(* The run ends.  It is repeated later if the queue was counted and is not  *)
(* empty, and the app is still in view.                                     *)
Rearm == foreground /\ queue # {}

Settle == run' = Idle /\ timer' = Rearm

RunCounts ==
  /\ run.pc = "count"
  /\ IF foreground /\ queue # {}
     THEN run' = [run EXCEPT !.pc = "list"] /\ UNCHANGED timer
     ELSE Settle
  /\ UNCHANGED <<fresh, queue, own, foreground, denied, unconfirmed, faults>>

(* The drain sends the proofs it has read, the queue moves on.              *)
DrainLists ==
  /\ run.pc = "list"
  /\ run' = [run EXCEPT !.pc = "send", !.todo = queue]
  /\ UNCHANGED <<fresh, queue, own, foreground, timer, denied, unconfirmed,
                 faults>>

(* Mutated form of Remembered: the first error is the one that is thrown.   *)
RememberedFirst(error) == IF run.error = "none" THEN error ELSE run.error

(* A denied proof is reported even if another one failed before it.         *)
Remembered(error) ==
  IF run.error = "none" \/ error = "denied" THEN error ELSE run.error

(* One proof: acknowledged, denied for good, or without a verdict.          *)
DrainSends(p) ==
  /\ run.pc = "send"
  /\ p \in run.todo
  /\ \/ /\ run' = [run EXCEPT !.todo = @ \ {p}]
        /\ queue' = queue \ {p}
        /\ UNCHANGED <<denied, faults>>
     \/ /\ run' = [run EXCEPT !.todo = @ \ {p}, !.error = Remembered("denied")]
        /\ queue' = queue \ {p}
        /\ denied' = TRUE
        /\ UNCHANGED faults
     \/ /\ run' = [run EXCEPT !.todo = @ \ {p}, !.error = Remembered("failed")]
        /\ Fault
        /\ UNCHANGED <<queue, denied>>
  /\ UNCHANGED <<fresh, own, foreground, timer, unconfirmed>>

DrainEnds ==
  /\ run.pc = "send"
  /\ run.todo = {}
  /\ unconfirmed' = (unconfirmed \/ run.error = "denied")
  /\ run' = [run EXCEPT !.pc = "recount"]
  /\ UNCHANGED <<fresh, queue, own, foreground, timer, denied, faults>>

(* The count of the queue and the decision on it: only microtasks lie       *)
(* between them, in which nobody queues a proof.                            *)
RunSettles ==
  /\ run.pc = "recount"
  /\ Settle
  /\ UNCHANGED <<fresh, queue, own, foreground, denied, unconfirmed, faults>>

(* Mutated form of RearmBlindly: an unreadable queue is taken for an empty  *)
(* one.                                                                     *)
RearmBlindlyNot == FALSE

(* A queue that cannot be read is tried again.                              *)
RearmBlindly == foreground

RunCannotCount ==
  /\ run.pc \in {"count", "recount"}
  /\ Fault
  /\ run' = Idle
  /\ timer' = RearmBlindly
  /\ UNCHANGED <<fresh, queue, own, foreground, denied, unconfirmed>>

-----------------------------------------------------------------------------
(* A session is left and its proof queued in one transaction, by a sign-out *)
(* that sends the proof or by a sign-in that does not.                      *)
SessionIsLeft(p) ==
  /\ p \in fresh
  /\ fresh' = fresh \ {p}
  /\ queue' = queue \cup {p}
  /\ own' \in {own, own \cup {p}}
  /\ UNCHANGED <<foreground, timer, run, denied, unconfirmed, faults>>

(* The sign-out's own request ends; its caller reports a denial.            *)
LogoutEnds(p) ==
  /\ p \in own
  /\ own' = own \ {p}
  /\ \/ queue' = queue \ {p} /\ UNCHANGED <<denied, unconfirmed, faults>>
     \/ /\ queue' = queue \ {p}
        /\ denied' = TRUE
        /\ unconfirmed' = TRUE
        /\ UNCHANGED faults
     \/ Fault /\ UNCHANGED <<queue, denied, unconfirmed>>
  /\ UNCHANGED <<fresh, foreground, timer, run>>

(* The process ends; the queue stays.                                       *)
Restart ==
  /\ own' = {}
  /\ foreground' = FALSE
  /\ timer' = FALSE
  /\ run' = Idle
  /\ denied' = FALSE
  /\ unconfirmed' = FALSE
  /\ UNCHANGED <<fresh, queue, faults>>

RunStep == RunCounts \/ DrainLists \/ (\E p \in Proofs : DrainSends(p))
             \/ DrainEnds \/ RunSettles

Next ==
  \/ Resume \/ Pause \/ Trigger \/ TimerFires
  \/ RunStep \/ RunCannotCount
  \/ \E p \in Proofs : SessionIsLeft(p) \/ LogoutEnds(p)
  \/ Restart

Spec == Init /\ [][Next]_vars

(* The event loop goes on, requests end with a verdict or time out, and a   *)
(* timer that is set fires.                                                 *)
FairSpec == Spec /\ WF_vars(RunStep) /\ WF_vars(TimerFires)

-----------------------------------------------------------------------------
(* A run or a scheduled run watches over the queue.                         *)
Watched == run # Idle \/ timer

(* A timer is set only in view and between runs: even when a pause falls    *)
(* into a run that ends later nothing is scheduled, and no two runs ever    *)
(* share the queue (pause, trigger, _run).                                  *)
TimerIsQuiet == timer => foreground /\ run = Idle

(* A denial is on the status, or on its way there, whichever proofs failed  *)
(* before or after it: "stays visible for the controller's lifetime".       *)
DenialIsShown == denied => unconfirmed \/ run.error = "denied"

(* Once watched, a queue that is not empty stays watched for as long as the *)
(* app is in view, whatever is queued, settled or fails meanwhile.          *)
KeepsWatch ==
  [][Watched /\ foreground /\ foreground' /\ queue' # {} => Watched']_vars

(* A watched queue is drained unless the app leaves the foreground.         *)
DrainsUntilEmpty == Watched /\ queue # {} ~> queue = {} \/ ~foreground
=============================================================================
