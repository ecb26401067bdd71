-------------------------- MODULE RevocationProofs --------------------------
(***************************************************************************)
(* What holds of the retry controller for any set of proofs and any number *)
(* of faults.                                                              *)
(*                                                                         *)
(* The invariant adds to the two properties what makes them inductive: a   *)
(* run that has errors to report is one that is under way, and whoever     *)
(* watches over the queue does so in view.                                 *)
(***************************************************************************)
EXTENDS RevocationRetry, TLAPS

TypeOK ==
  /\ fresh \subseteq Proofs
  /\ queue \subseteq Proofs
  /\ own \subseteq Proofs
  /\ foreground \in BOOLEAN
  /\ timer \in BOOLEAN
  /\ run \in [pc : {"idle", "count", "list", "send", "recount"},
              todo : SUBSET Proofs, error : {"none", "failed", "denied"}]
  /\ denied \in BOOLEAN
  /\ unconfirmed \in BOOLEAN
  /\ faults \in Nat

(* What a run found out is on the status before it recounts, and a run that *)
(* does nothing yet has found out nothing.                                  *)
Reported ==
  /\ run.pc = "idle" => run = Idle
  /\ run.pc = "recount" /\ run.error = "denied" => unconfirmed
  /\ run.pc \in {"idle", "count", "list"} => run.error = "none"

Inv == TypeOK /\ Reported /\ TimerIsQuiet /\ DenialIsShown

-----------------------------------------------------------------------------
(* A trigger starts a run only where there is none.                         *)
LEMMA TriggerKeeps ==
  ASSUME Inv, NEW visible \in BOOLEAN, Triggered(visible),
         visible => foreground', ~visible => foreground' = foreground,
         foreground' \in BOOLEAN,
         UNCHANGED <<fresh, queue, own, denied, unconfirmed, faults>>
  PROVE  Inv'
<1>1. CASE ~visible
  BY <1>1 DEF Inv, TypeOK, Reported, TimerIsQuiet, DenialIsShown, Triggered
<1>2. CASE visible
  <2>1. timer' = FALSE /\ (run' = run \/ (run = Idle /\ run' = [run EXCEPT !.pc = "count"]))
    BY <1>2 DEF Triggered
  <2>2. CASE run' = run
    BY <2>1, <2>2 DEF Inv, TypeOK, Reported, TimerIsQuiet, DenialIsShown
  <2>3. CASE run = Idle /\ run' = [run EXCEPT !.pc = "count"]
    <3>1. run' = [pc |-> "count", todo |-> {}, error |-> "none"]
      BY <2>3 DEF Idle
    <3>2. denied => unconfirmed
      BY <2>3 DEF Inv, DenialIsShown, Idle
    <3> QED BY <2>1, <3>1, <3>2 DEF Inv, TypeOK, Reported, TimerIsQuiet, DenialIsShown
  <2> QED BY <2>1, <2>2, <2>3
<1> QED BY <1>1, <1>2

(* A run ends only after what it found out was put on the status.           *)
LEMMA EndKeeps ==
  ASSUME Inv, run.pc \in {"count", "recount"}, run' = Idle,
         timer' \in BOOLEAN, timer' => foreground, faults' \in Nat,
         UNCHANGED <<fresh, queue, own, foreground, denied, unconfirmed>>
  PROVE  Inv'
<1>1. denied => unconfirmed
  BY DEF Inv, DenialIsShown, Reported
<1>2. /\ run' = [pc |-> "idle", todo |-> {}, error |-> "none"]
      /\ run' = Idle
  BY DEF Idle
<1> QED BY <1>1, <1>2 DEF Inv, TypeOK, Reported, TimerIsQuiet, DenialIsShown

LEMMA RunKeeps ==
  ASSUME Inv, RunStep \/ RunCannotCount
  PROVE  Inv'
<1>0. timer = FALSE \/ run = Idle
  BY DEF Inv, TimerIsQuiet, TypeOK
<1>1. CASE RunCounts
  <2>1. CASE run' = [run EXCEPT !.pc = "list"] /\ UNCHANGED timer
    <3>1. /\ run.pc = "count" /\ run' = [run EXCEPT !.pc = "list"]
          /\ UNCHANGED <<timer, fresh, queue, own, foreground, denied, unconfirmed, faults>>
      BY <1>1, <2>1 DEF RunCounts
    <3>2. ~timer
      BY <1>0, <3>1 DEF Idle, Inv, TypeOK
    <3>3. run'.pc = "list" /\ run'.error = run.error
      BY <3>1 DEF Inv, TypeOK
    <3> QED BY <3>1, <3>2, <3>3 DEF Inv, TypeOK, Reported, TimerIsQuiet, DenialIsShown
  <2>2. CASE Settle
    BY <1>1, <2>2, EndKeeps DEF RunCounts, Settle, Rearm, Inv, TypeOK
  <2> QED BY <1>1, <2>1, <2>2 DEF RunCounts
<1>2. CASE DrainLists
  <2>1. ~timer
    BY <1>0, <1>2 DEF DrainLists, Idle, Inv, TypeOK
  <2>2. /\ run'.pc = "send" /\ run'.error = run.error
        /\ run' = [run EXCEPT !.pc = "send", !.todo = queue]
    BY <1>2 DEF DrainLists, Inv, TypeOK
  <2>3. run' \in [pc : {"idle", "count", "list", "send", "recount"},
                  todo : SUBSET Proofs, error : {"none", "failed", "denied"}]
    BY <2>2 DEF Inv, TypeOK
  <2> QED BY <1>2, <2>1, <2>2, <2>3
          DEF DrainLists, Inv, TypeOK, Reported, TimerIsQuiet, DenialIsShown
<1>3. ASSUME NEW p \in Proofs, DrainSends(p)
      PROVE  Inv'
  <2>1. ~timer /\ run.pc = "send"
    BY <1>0, <1>3 DEF DrainSends, Idle, Inv, TypeOK
  <2>2. PICK error \in {"none", "failed", "denied"} :
          /\ run' = [run EXCEPT !.todo = @ \ {p}, !.error = error]
          /\ denied' => unconfirmed \/ error = "denied"
    <3>1. CASE run' = [run EXCEPT !.todo = @ \ {p}] /\ UNCHANGED denied
      <4>1. run' = [run EXCEPT !.todo = @ \ {p}, !.error = run.error]
        BY <3>1 DEF Inv, TypeOK
      <4> QED BY <3>1, <4>1 DEF Inv, TypeOK, DenialIsShown
    <3>2. CASE run' = [run EXCEPT !.todo = @ \ {p}, !.error = Remembered("denied")]
      <4>1. Remembered("denied") = "denied"
        BY DEF Remembered
      <4> QED BY <3>2, <4>1
    <3>3. CASE /\ run' = [run EXCEPT !.todo = @ \ {p}, !.error = Remembered("failed")]
               /\ UNCHANGED denied
      <4>1. /\ Remembered("failed") \in {"none", "failed", "denied"}
            /\ run.error = "denied" => Remembered("failed") = "denied"
        BY DEF Remembered, Inv, TypeOK
      <4> QED BY <3>3, <4>1 DEF Inv, DenialIsShown
    <3> QED BY <1>3, <3>1, <3>2, <3>3 DEF DrainSends
  <2>3. /\ run'.pc = "send" /\ run'.error = error
        /\ run' \in [pc : {"idle", "count", "list", "send", "recount"},
                     todo : SUBSET Proofs, error : {"none", "failed", "denied"}]
    BY <2>1, <2>2 DEF Inv, TypeOK
  <2>4. /\ UNCHANGED <<fresh, own, foreground, timer, unconfirmed>>
        /\ queue' \subseteq Proofs /\ denied' \in BOOLEAN /\ faults' \in Nat
    <3>1. queue' \subseteq Proofs /\ UNCHANGED <<fresh, own, foreground, timer, unconfirmed>>
      BY <1>3 DEF DrainSends, Inv, TypeOK
    <3>2. denied' \in BOOLEAN
      BY <1>3, Zenon DEF DrainSends, Inv, TypeOK
    <3>3. faults' \in Nat
      <4>1. UNCHANGED faults \/ Fault
        BY <1>3 DEF DrainSends
      <4> QED BY <4>1 DEF Fault, Inv, TypeOK
    <3> QED BY <3>1, <3>2, <3>3
  <2> QED BY <2>1, <2>2, <2>3, <2>4
          DEF Inv, TypeOK, Reported, TimerIsQuiet, DenialIsShown
<1>4. CASE DrainEnds
  <2>1. ~timer /\ run.pc = "send"
    BY <1>0, <1>4 DEF DrainEnds, Idle, Inv, TypeOK
  <2>2. run'.pc = "recount" /\ run'.error = run.error
    BY <1>4 DEF DrainEnds, Inv, TypeOK
  <2>3. run' \in [pc : {"idle", "count", "list", "send", "recount"},
                  todo : SUBSET Proofs, error : {"none", "failed", "denied"}]
    BY <1>4 DEF DrainEnds, Inv, TypeOK
  <2> QED BY <1>4, <2>1, <2>2, <2>3
          DEF DrainEnds, Inv, TypeOK, Reported, TimerIsQuiet, DenialIsShown
<1>5. CASE RunSettles
  BY <1>5, EndKeeps DEF RunSettles, Settle, Rearm, Inv, TypeOK
<1>6. CASE RunCannotCount
  BY <1>6, EndKeeps DEF RunCannotCount, RearmBlindly, Fault, Inv, TypeOK
<1> QED BY <1>1, <1>2, <1>3, <1>4, <1>5, <1>6 DEF RunStep

LEMMA StepKeeps ==
  ASSUME Inv, [Next]_vars
  PROVE  Inv'
<1>1. CASE Resume
  BY <1>1, TriggerKeeps DEF Resume
<1>2. CASE Pause
  BY <1>2 DEF Pause, Inv, TypeOK, Reported, TimerIsQuiet, DenialIsShown
<1>3. CASE Trigger \/ TimerFires
  BY <1>3, TriggerKeeps DEF Trigger, TimerFires, Inv, TypeOK
<1>4. CASE RunStep \/ RunCannotCount
  BY <1>4, RunKeeps
<1>5. ASSUME NEW p \in Proofs, SessionIsLeft(p)
      PROVE  Inv'
  BY <1>5 DEF SessionIsLeft, Inv, TypeOK, Reported, TimerIsQuiet, DenialIsShown
<1>6. ASSUME NEW p \in Proofs, LogoutEnds(p)
      PROVE  Inv'
  <2>1. UNCHANGED <<fresh, foreground, timer, run>>
    BY <1>6 DEF LogoutEnds
  <2>2. /\ own' \subseteq Proofs /\ queue' \subseteq Proofs
        /\ denied' \in BOOLEAN /\ unconfirmed' \in BOOLEAN /\ faults' \in Nat
    <3>1. own' \subseteq Proofs /\ queue' \subseteq Proofs
      BY <1>6 DEF LogoutEnds, Inv, TypeOK
    <3>2. denied' \in BOOLEAN /\ unconfirmed' \in BOOLEAN
      BY <1>6, Zenon DEF LogoutEnds, Inv, TypeOK
    <3>3. faults' \in Nat
      <4>1. UNCHANGED faults \/ Fault
        BY <1>6 DEF LogoutEnds
      <4> QED BY <4>1 DEF Fault, Inv, TypeOK
    <3> QED BY <3>1, <3>2, <3>3
  <2>3. /\ unconfirmed => unconfirmed'
        /\ denied' => unconfirmed' \/ (denied /\ unconfirmed' = unconfirmed)
    BY <1>6 DEF LogoutEnds
  <2>4. Reported' /\ TimerIsQuiet' /\ DenialIsShown'
    BY <2>1, <2>3 DEF Inv, Reported, TimerIsQuiet, DenialIsShown
  <2> QED BY <2>1, <2>2, <2>4 DEF Inv, TypeOK
<1>7. CASE Restart
  BY <1>7 DEF Restart, Idle, Inv, TypeOK, Reported, TimerIsQuiet, DenialIsShown
<1>8. CASE UNCHANGED vars
  BY <1>8 DEF vars, Inv, TypeOK, Reported, TimerIsQuiet, DenialIsShown
<1> QED BY <1>1, <1>2, <1>3, <1>4, <1>5, <1>6, <1>7, <1>8 DEF Next

LEMMA Inductive == Spec => []Inv
<1>1. Init => Inv
  <2> SUFFICES ASSUME Init PROVE Inv
    OBVIOUS
  <2>1. run \in [pc : {"idle", "count", "list", "send", "recount"},
                 todo : SUBSET Proofs, error : {"none", "failed", "denied"}]
    BY DEF Init, Idle
  <2>2. run = Idle /\ run.pc = "idle" /\ run.error = "none"
    BY DEF Init, Idle
  <2> QED BY <2>1, <2>2 DEF Init, Inv, TypeOK, Reported, TimerIsQuiet, DenialIsShown
<1>2. Inv /\ [Next]_vars => Inv'
  BY StepKeeps
<1> QED BY <1>1, <1>2, PTL DEF Spec

-----------------------------------------------------------------------------
(* A timer is never set during a run or out of view, for any number of      *)
(* proofs, pauses and failures.  (pause, trigger, _run)                     *)
THEOREM Quiet == Spec => []TimerIsQuiet
<1>1. Inv => TimerIsQuiet
  BY DEF Inv
<1> QED BY <1>1, Inductive, PTL

(* A denial is never lost, whatever fails before or after it.               *)
(* (retryPendingRevocations, _run)                                          *)
THEOREM Denials == Spec => []DenialIsShown
<1>1. Inv => DenialIsShown
  BY DEF Inv
<1> QED BY <1>1, Inductive, PTL

(* In view, a queue somebody watches over stays watched until it is empty.  *)
(* (_run, _schedule)                                                        *)
THEOREM Watching == Spec => KeepsWatch
<1> DEFINE Kept == Watched /\ foreground /\ foreground' /\ queue' # {} => Watched'
<1>1. Inv /\ [Next]_vars => [Kept]_vars
  <2> SUFFICES ASSUME Inv, Next, Watched, foreground, foreground', queue' # {}
               PROVE  Watched'
    BY DEF Kept, vars, Watched
  <2>1. run \in [pc : {"idle", "count", "list", "send", "recount"},
                 todo : SUBSET Proofs, error : {"none", "failed", "denied"}]
    BY DEF Inv, TypeOK
  <2>2. CASE Resume \/ Trigger \/ TimerFires
    BY <2>1, <2>2 DEF Resume, Trigger, TimerFires, Triggered, Watched, Idle
  <2>3. CASE Pause
    BY <2>3 DEF Pause
  <2>4. CASE RunStep
    <3>1. CASE RunCounts
      <4>1. CASE run' = [run EXCEPT !.pc = "list"]
        BY <2>1, <4>1 DEF Watched, Idle
      <4>2. CASE Settle /\ UNCHANGED queue
        BY <4>2 DEF Settle, Rearm, Watched
      <4> QED BY <3>1, <4>1, <4>2 DEF RunCounts
    <3>2. CASE DrainLists \/ DrainEnds
      <4>1. run'.pc = "send" \/ run'.pc = "recount"
        BY <2>1, <3>2 DEF DrainLists, DrainEnds
      <4> QED BY <4>1 DEF Watched, Idle
    <3>3. ASSUME NEW p \in Proofs, DrainSends(p)
          PROVE  Watched'
      <4>1. run'.pc = "send"
        BY <2>1, <3>3 DEF DrainSends
      <4> QED BY <4>1 DEF Watched, Idle
    <3>4. CASE RunSettles
      BY <3>4 DEF RunSettles, Settle, Rearm, Watched
    <3> QED BY <2>4, <3>1, <3>2, <3>3, <3>4 DEF RunStep
  <2>5. CASE RunCannotCount
    BY <2>5 DEF RunCannotCount, RearmBlindly, Watched
  <2>6. ASSUME NEW p \in Proofs, SessionIsLeft(p) \/ LogoutEnds(p)
        PROVE  Watched'
    BY <2>6 DEF SessionIsLeft, LogoutEnds, Watched
  <2>7. CASE Restart
    BY <2>7 DEF Restart
  <2> QED BY <2>2, <2>3, <2>4, <2>5, <2>6, <2>7 DEF Next
<1>2. Inv /\ [Next]_vars => [Watched /\ foreground /\ foreground' /\ queue' # {}
                               => Watched']_vars
  BY <1>1
<1> QED BY <1>2, Inductive, PTL DEF Spec, KeepsWatch
=============================================================================
