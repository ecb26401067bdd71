-------------------------- MODULE CoreEngineProofs --------------------------
(***************************************************************************)
(* What holds of the engine for any number of callers, any plans and any   *)
(* budget of events, and, from "the guard" on, of the check that engine    *)
(* makes of what cloud configuration wants to dial.                        *)
(*                                                                         *)
(* All rests on the lifecycle lock: a thread that stands between two steps *)
(* of a lifecycle command holds it (Locked), so what such a thread knows   *)
(* of the daemon and of the day (Held, Counted) is disturbed by its own    *)
(* steps only.  SoleStep and OtherStep turn this into the two cases every  *)
(* action falls into.                                                      *)
(***************************************************************************)
EXTENDS CoreEngine, SequenceTheorems, TLAPS

States == {"stopped", "starting", "reloading", "running", "stopping", "failed", None}

FactsSet == [state : States, session : Nat, hash : Plans \cup {None},
             listen : Plans \cup {None}]

Places == {"idle", "lock", "prepare", "count", "sample", "closing", "ended", "offset",
           "announce", "swap", "replace", "started", "publish", "save", "finish", "wait",
           "look", "totals", "check", "act", "confirm", "get", "reply"}

Results == {"done", "failed", None}

JobSet == [op : Lifecycle \cup Remembered \cup {"snapshot", "tick", None}, pc : Places,
           plan : Plans \cup {None}, session : Nat, choice : Choices \cup {None},
           request : Nat, total : Nat, result : Results]

TypeOK ==
  /\ facts \in FactsSet
  /\ shown \in FactsSet
  /\ instance \in Instances \cup {None}
  /\ memory \in Choices \cup {None}
  /\ day \in [date : Nat, up : Nat, last : Nat, dirty : BOOLEAN]
  /\ file \in [date : Nat, up : Nat, due : Nat, slipped : Nat]
  /\ today \in Nat
  /\ due \in [sum : Nat, slipped : Nat, whole : BOOLEAN, owed : BOOLEAN]
  /\ job \in [Threads -> JobSet]
  /\ planOf \in Seq(Plans)
  /\ outcome \in Seq({"pending", "done", "failed", None})
  /\ "plans" \in DOMAIN budget
  /\ budget.plans \in {s.plans : s \in Scenarios}

(* Which commands may stand where, and what they carry there.               *)
Shaped(j) ==
  /\ j.pc \in {"lock", "look", "prepare", "count"} => j.total = 0
  /\ j.pc = "lock" => j.op \in Lifecycle
  /\ j.pc = "prepare" => j.op \in WithPlan
  /\ j.pc \in {"count", "sample"} =>
       j.op \in Starting \cup {"stop", "close", "snapshot", "tick"}
  /\ j.pc = "closing" => j.op \in {"stop", "close"}
  /\ j.pc = "ended" => j.op \in Starting \cup {"stop", "close"}
  /\ j.pc \in {"offset", "announce", "publish"} => j.op \in Starting
  /\ j.pc \in {"swap", "replace", "started"} => j.op \in Starting \cup {"urlTest"}
  /\ j.pc = "save" => j.op \in {"stop", "close", "tick"}
  /\ j.pc = "look" => j.op = "snapshot"
  /\ j.pc \in {"check", "act"} /\ j.op \in {"setMode", "select"} => j.choice \in Choices
  /\ j.op \in WithPlan => j.plan \in Plans

(* A thread that holds the lifecycle lock.                                  *)
Locked(j) ==
  \/ j.pc \in {"prepare", "closing", "ended", "offset", "announce", "swap", "replace",
               "started", "publish", "finish", "wait"}
  \/ j.pc \in {"count", "sample", "save"} /\ j.op \in Starting \cup {"stop", "close"}

(* The session f runs on i as it was asked for by the plan of its name.     *)
Served(f, i, plans) ==
  /\ i # None
  /\ i.open
  /\ i.session = f.session
  /\ f.session \in 1 .. Len(plans)
  /\ plans[f.session] = f.hash
  /\ i.plan = f.hash
  /\ f.listen = f.hash
  /\ f.hash \in Plans
  /\ ~i.touched => i.choice = f.hash.choice

(* What the holder j of the lock knows of the engine and the daemon.        *)
Held(j, f, i, plans) ==
  /\ f.state = "running" =>
       /\ j.op \in {"reload", "validate"}
       /\ j.pc \in {"prepare", "count", "sample", "ended", "offset", "announce"}
  /\ j.pc \in {"swap", "replace", "started", "publish"} /\ j.op \in Starting =>
       /\ f.session = Len(plans)
       /\ Len(plans) > 0
       /\ plans[Len(plans)] = j.plan
  /\ j.pc \in {"started", "publish"} /\ j.op \in Starting =>
       /\ i # None
       /\ i.open
       /\ i.session = f.session
       /\ i.plan = j.plan
  /\ j.pc = "publish" /\ ~i.touched => i.choice = j.plan.choice

(* ... and of the day: with what it is about to add, the sum covers all     *)
(* that the session i has carried, and what the day samples again of it.    *)
Counted(j, i, d, u) ==
  u.owed =>
    /\ j.pc = "sample" => d.up + u.slipped + j.total >= u.sum + d.last + i.total
    /\ j.pc = "closing" \/ (j.pc = "ended" /\ j.op \in Starting) =>
         d.up + u.slipped >= u.sum + i.total
    /\ j.pc \in {"offset", "announce"} \/ (j.pc = "swap" /\ j.op \in Starting) =>
         d.up + u.slipped >= u.sum + d.last + i.total

Sound(t) ==
  /\ Shaped(job[t])
  /\ Locked(job[t]) =>
       /\ lifecycle = t
       /\ Held(job[t], facts, instance, planOf)
       /\ Counted(job[t], instance, day, due)

Threadwise == \A t \in Threads : Sound(t)

(* The sum of the day covers what ended under its date and, where the       *)
(* record saw the session begin, what the running session was counted for.  *)
DayInv ==
  /\ day.up + due.slipped >= due.sum
  /\ due.whole => day.up + due.slipped >= due.sum + day.last
  /\ due.owed => due.whole /\ instance # None
  /\ ~day.dirty => file.up = day.up
  /\ file.up + file.slipped >= file.due

ServedInv == facts.state = "running" => Served(facts, instance, planOf)

ShownInv ==
  shown.state = "running" =>
    /\ shown.session \in 1 .. Len(planOf)
    /\ planOf[shown.session] = shown.hash
    /\ shown.listen # None => shown.listen = shown.hash

Inv == TypeOK /\ Threadwise /\ DayInv /\ ServedInv /\ ShownInv

-----------------------------------------------------------------------------
(* The two cases.                                                           *)

(* A step of a thread while no other one is inside a lifecycle command.     *)
LEMMA SoleStep ==
  ASSUME Inv, NEW t \in Threads, NEW j \in JobSet,
         \A u \in Threads \ {t} : ~Locked(job[u]),
         job' = [job EXCEPT ![t] = j],
         Shaped(j),
         Locked(j) => /\ lifecycle' = t
                      /\ Held(j, facts', instance', planOf')
                      /\ Counted(j, instance', day', due')
  PROVE  Threadwise' /\ job' \in [Threads -> JobSet]
<1>1. job' \in [Threads -> JobSet] /\ job'[t] = j
  BY DEF Inv, TypeOK
<1>2. \A u \in Threads \ {t} : job'[u] = job[u] /\ Shaped(job[u])
  BY DEF Inv, TypeOK, Threadwise, Sound
<1> QED BY <1>1, <1>2 DEF Threadwise, Sound

(* The holder of the lock is the only one inside a lifecycle command.       *)
LEMMA HolderIsAlone ==
  ASSUME Inv, NEW t \in Threads, Locked(job[t]) \/ lifecycle = t \/ lifecycle = None
  PROVE  \A u \in Threads \ {t} : ~Locked(job[u])
BY EngineAssumption DEF Inv, Threadwise, Sound

(* What other threads may do to the instance meanwhile, ...                 *)
SameSession ==
  /\ UNCHANGED <<facts, planOf>>
  /\ \/ UNCHANGED instance
     \/ /\ instance # None /\ instance' # None
        /\ instance'.open = instance.open
        /\ instance'.session = instance.session
        /\ instance'.plan = instance.plan
        /\ \/ instance'.touched
           \/ /\ instance'.touched = instance.touched
              /\ instance'.choice = instance.choice

(* ... and to the day: the sum grows by what is sampled, or nothing of the  *)
(* session there is owed any more.                                          *)
DayKeeps ==
  due'.owed =>
    /\ due.owed
    /\ due'.sum = due.sum
    /\ due'.slipped = due.slipped
    /\ day'.up >= day.up
    /\ day'.up + day.last >= day.up + day'.last

Mild ==
  /\ SameSession
  /\ DayKeeps
  /\ due'.owed => instance'.total = instance.total

LEMMA HeldStays ==
  ASSUME SameSession, NEW k \in JobSet, Shaped(k), Held(k, facts, instance, planOf)
  PROVE  Held(k, facts', instance', planOf')
BY DEF SameSession, Held, Shaped

LEMMA MildKeeps ==
  ASSUME TypeOK, TypeOK', DayInv, Mild, NEW k \in JobSet, Shaped(k),
         Held(k, facts, instance, planOf), Counted(k, instance, day, due)
  PROVE  /\ Held(k, facts, instance, planOf)'
         /\ Counted(k, instance, day, due)'
<1>1. Held(k, facts', instance', planOf')
  BY HeldStays DEF Mild
<1>2. Counted(k, instance', day', due')
  <2>1. CASE due'.owed
    <3>1. /\ day.up \in Nat /\ day'.up \in Nat /\ day.last \in Nat /\ day'.last \in Nat
          /\ due.sum \in Nat /\ due.slipped \in Nat /\ k.total \in Nat
      BY DEF TypeOK, JobSet
    <3>2. /\ due.owed /\ due'.sum = due.sum /\ due'.slipped = due.slipped
          /\ day'.up >= day.up /\ day'.up + day.last >= day.up + day'.last
          /\ instance'.total = instance.total
      BY <2>1 DEF Mild, DayKeeps
    <3>3. instance.total \in Nat
      BY <3>2 DEF TypeOK, DayInv, Instances
    <3> QED BY <3>1, <3>2, <3>3 DEF Counted
  <2>2. CASE ~due'.owed
    BY <2>2 DEF Counted
  <2> QED BY <2>1, <2>2
<1> QED BY <1>1, <1>2

(* A step of a thread outside the lifecycle commands.                       *)
LEMMA OtherStep ==
  ASSUME Inv, NEW t \in Threads, NEW j \in JobSet,
         job' = [job EXCEPT ![t] = j],
         Shaped(j), ~Locked(j),
         lifecycle' \in {lifecycle, IF lifecycle = t THEN None ELSE lifecycle},
         Mild, TypeOK'
  PROVE  Threadwise'
<1>1. job'[t] = j
  BY DEF Inv, TypeOK
<1>2. ASSUME NEW u \in Threads \ {t}
      PROVE  Sound(u)'
  <2>1. job'[u] = job[u] /\ job[u] \in JobSet /\ Sound(u)
    BY DEF Inv, TypeOK, Threadwise
  <2>2. CASE ~Locked(job[u])
    BY <2>1, <2>2 DEF Sound
  <2>3. CASE Locked(job[u])
    <3>1. lifecycle = u /\ u # t /\ lifecycle' = u
      BY <2>1, <2>3 DEF Sound
    <3>2. Held(job[u], facts', instance', planOf') /\ Counted(job[u], instance', day', due')
      BY <2>1, <2>3, MildKeeps DEF Sound, Inv
    <3> QED BY <2>1, <3>1, <3>2 DEF Sound
  <2> QED BY <2>2, <2>3
<1> QED BY <1>1, <1>2 DEF Threadwise, Sound

(* A step of none of the threads.                                           *)
LEMMA NoThreadStep ==
  ASSUME Inv, UNCHANGED <<job, lifecycle>>, Mild, TypeOK'
  PROVE  Threadwise'
<1>1. ASSUME NEW u \in Threads
      PROVE  Sound(u)'
  <2>1. job'[u] = job[u] /\ job[u] \in JobSet /\ Sound(u)
    BY DEF Inv, TypeOK, Threadwise
  <2>2. Locked(job[u]) =>
          Held(job[u], facts', instance', planOf') /\ Counted(job[u], instance', day', due')
    BY <2>1, MildKeeps DEF Sound, Inv
  <2> QED BY <2>1, <2>2 DEF Sound
<1> QED BY <1>1 DEF Threadwise
-----------------------------------------------------------------------------
(* What steps are made of.                                                  *)

(* An event of the bound leaves the plans in use alone.                     *)
LEMMA Spending ==
  ASSUME TypeOK, NEW event, event # "plans", Spend(event)
  PROVE  "plans" \in DOMAIN budget' /\ budget'.plans \in {s.plans : s \in Scenarios}
BY DEF TypeOK, Spend

(* A thread moves on with its command.                                      *)
LEMMA Going ==
  ASSUME Inv, NEW t \in Threads, NEW pc \in Places, Go(t, pc)
  PROVE  \E j \in JobSet :
           /\ job' = [job EXCEPT ![t] = j]
           /\ j.pc = pc /\ j.op = job[t].op /\ j.plan = job[t].plan
           /\ j.total = job[t].total /\ j.choice = job[t].choice
<1>1. job[t] \in JobSet
  BY DEF Inv, TypeOK
<1>2. PICK j \in JobSet : j = [job[t] EXCEPT !.pc = pc]
  BY <1>1 DEF JobSet
<1>3. /\ j.pc = pc /\ j.op = job[t].op /\ j.plan = job[t].plan
      /\ j.total = job[t].total /\ j.choice = job[t].choice
  BY <1>1, <1>2 DEF JobSet
<1> QED BY <1>2, <1>3 DEF Go

(* A command returns and gives up the lock it holds.                        *)
LEMMA Replying ==
  ASSUME Inv, NEW t \in Threads, NEW result \in Results,
         Reply(t, result)
  PROVE  /\ \E j \in JobSet :
              job' = [job EXCEPT ![t] = j] /\ Shaped(j) /\ ~Locked(j)
         /\ lifecycle' = IF lifecycle = t THEN None ELSE lifecycle
<1>1. job[t] \in JobSet /\ Shaped(job[t])
  BY DEF Inv, TypeOK, Threadwise, Sound
<1>2. PICK j \in JobSet : j = [job[t] EXCEPT !.pc = "reply", !.result = result]
  <2>1. "reply" \in Places
    BY DEF Places
  <2> QED BY <1>1, <2>1 DEF JobSet
<1>3. j.pc = "reply" /\ j.op = job[t].op /\ j.plan = job[t].plan
  BY <1>1, <1>2 DEF JobSet
<1>4. Shaped(j) /\ ~Locked(j)
  BY <1>1, <1>3 DEF Shaped, Locked
<1> QED BY <1>2, <1>4 DEF Reply

(* What no thread's position is part of.                                    *)
Settled ==
  /\ facts \in FactsSet
  /\ shown \in FactsSet
  /\ instance \in Instances \cup {None}
  /\ memory \in Choices \cup {None}
  /\ day \in [date : Nat, up : Nat, last : Nat, dirty : BOOLEAN]
  /\ file \in [date : Nat, up : Nat, due : Nat, slipped : Nat]
  /\ today \in Nat
  /\ due \in [sum : Nat, slipped : Nat, whole : BOOLEAN, owed : BOOLEAN]
  /\ planOf \in Seq(Plans)
  /\ outcome \in Seq({"pending", "done", "failed", None})
  /\ "plans" \in DOMAIN budget
  /\ budget.plans \in {s.plans : s \in Scenarios}
  /\ DayInv
  /\ ServedInv
  /\ ShownInv

LEMMA InvIsSettled ==
  Inv <=> Settled /\ job \in [Threads -> JobSet] /\ Threadwise
BY DEF Inv, Settled, TypeOK

(* A step that leaves all of it alone, but for the bound.                   *)
Steady ==
  /\ UNCHANGED <<facts, planOf, instance, memory, day, file, today, due, shown, outcome>>
  /\ UNCHANGED budget \/ \E event : event # "plans" /\ Spend(event)

LEMMA SettledStays ==
  ASSUME Settled,
         Steady
  PROVE  Settled'
<1>1. "plans" \in DOMAIN budget' /\ budget'.plans \in {s.plans : s \in Scenarios}
  BY DEF Steady, Settled, Spend
<1> QED BY <1>1 DEF Steady, Settled, DayInv, ServedInv, Served, ShownInv

(* The two cases again, for a thread and all that is settled.               *)
LEMMA Sole ==
  ASSUME Inv, NEW t \in Threads, NEW j \in JobSet,
         \A u \in Threads \ {t} : ~Locked(job[u]),
         job' = [job EXCEPT ![t] = j],
         Shaped(j),
         Locked(j) => /\ lifecycle' = t
                      /\ Held(j, facts', instance', planOf')
                      /\ Counted(j, instance', day', due'),
         Settled'
  PROVE  Inv'
BY SoleStep, InvIsSettled DEF Inv, Settled, TypeOK

LEMMA Other ==
  ASSUME Inv, NEW t \in Threads, NEW j \in JobSet,
         job' = [job EXCEPT ![t] = j],
         Shaped(j), ~Locked(j),
         lifecycle' \in {lifecycle, IF lifecycle = t THEN None ELSE lifecycle},
         Mild, Settled'
  PROVE  Inv'
<1>1. job' \in [Threads -> JobSet]
  BY DEF Inv, TypeOK
<1>2. TypeOK'
  BY <1>1 DEF TypeOK, Settled
<1> QED BY <1>1, <1>2, OtherStep DEF Inv, Settled

(* A command that returns with nothing else changed.                        *)
LEMMA OnlyReply ==
  ASSUME Inv, NEW t \in Threads, NEW result \in Results,
         Reply(t, result),
         Steady
  PROVE  Inv'
<1>1. Settled'
  BY InvIsSettled, SettledStays
<1>2. Mild
  <2>1. day.up \in Nat /\ day.last \in Nat
    BY DEF Inv, TypeOK
  <2> QED BY <2>1 DEF Steady, Mild, SameSession, DayKeeps
<1>3. PICK j \in JobSet : job' = [job EXCEPT ![t] = j] /\ Shaped(j) /\ ~Locked(j)
  BY Replying
<1>4. lifecycle' = IF lifecycle = t THEN None ELSE lifecycle
  BY Replying
<1> QED BY <1>1, <1>2, <1>3, <1>4, Other

(* The holder of the lock moves on with nothing else changed.               *)
LEMMA OnlyGo ==
  ASSUME Inv, NEW t \in Threads, NEW pc \in Places, Go(t, pc),
         Steady,
         UNCHANGED lifecycle,
         Locked(job[t]),
         \A j \in JobSet :
           j.pc = pc /\ j.op = job[t].op /\ j.plan = job[t].plan
             /\ j.total = job[t].total =>
           /\ Shaped(j)
           /\ Held(j, facts, instance, planOf)
           /\ Counted(j, instance, day, due)
  PROVE  Inv'
<1>1. Settled'
  BY InvIsSettled, SettledStays
<1>2. PICK j \in JobSet :
        /\ job' = [job EXCEPT ![t] = j]
        /\ j.pc = pc /\ j.op = job[t].op /\ j.plan = job[t].plan
        /\ j.total = job[t].total
  BY Going
<1>3. lifecycle = t
  BY DEF Inv, Threadwise, Sound
<1>4. \A u \in Threads \ {t} : ~Locked(job[u])
  BY HolderIsAlone
<1>5. Shaped(j) /\ Held(j, facts, instance, planOf) /\ Counted(j, instance, day, due)
  BY <1>2
<1>6. Held(j, facts', instance', planOf') /\ Counted(j, instance', day', due')
  BY <1>5 DEF Steady
<1>7. lifecycle' = t
  BY <1>3
<1> QED BY <1>1, <1>2, <1>4, <1>5, <1>6, <1>7, Sole
-----------------------------------------------------------------------------
(* The lifecycle commands.                                                  *)

LEMMA EnterKeeps ==
  ASSUME Inv, NEW t \in Threads, Enter(t)
  PROVE  Inv'
<1>1. /\ lifecycle = None /\ job[t].pc = "lock" /\ Shaped(job[t])
      /\ \A u \in Threads \ {t} : ~Locked(job[u])
  BY HolderIsAlone DEF Enter, Inv, Threadwise, Sound
<1>2. job[t].op \in Lifecycle /\ job[t].total = 0
  BY <1>1 DEF Shaped
<1>3. CASE Reply(t, "failed") /\ UNCHANGED <<facts, walk>>
  <2>1. Steady
    BY <1>3 DEF Enter, Steady, daemon, traffic
  <2> QED BY <1>3, <2>1, OnlyReply DEF Results
<1>4. CASE /\ Admitted(job[t].op, job[t].session)
           /\ lifecycle' = t
           /\ job[t].op \in WithPlan
           /\ Go(t, "prepare")
           /\ UNCHANGED facts
  <2>1. PICK j \in JobSet :
          /\ job' = [job EXCEPT ![t] = j]
          /\ j.pc = "prepare" /\ j.op = job[t].op /\ j.plan = job[t].plan
          /\ j.total = job[t].total
    BY <1>4, Going DEF Places
  <2>2. Shaped(j)
    BY <1>1, <1>2, <1>4, <2>1 DEF Shaped
  <2>3. Held(j, facts, instance, planOf) /\ Counted(j, instance, day, due)
    BY <1>4, <2>1 DEF Held, Counted, Admitted, WithPlan, Starting
  <2>4. Steady
    BY <1>4 DEF Enter, Steady, daemon, traffic
  <2>5. Settled'
    BY <2>4, SettledStays, InvIsSettled
  <2>6. Held(j, facts', instance', planOf') /\ Counted(j, instance', day', due')
    BY <2>3, <2>4 DEF Steady
  <2>7. lifecycle' = t
    BY <1>4
  <2> HIDE DEF Settled, Inv
  <2> QED BY <1>1, <2>1, <2>2, <2>5, <2>6, <2>7, Sole
<1>5. CASE /\ lifecycle' = t
           /\ job[t].op \notin WithPlan
           /\ Go(t, "count")
           /\ facts' = [facts EXCEPT !.state = "stopping"]
  <2>1. PICK j \in JobSet :
          /\ job' = [job EXCEPT ![t] = j]
          /\ j.pc = "count" /\ j.op = job[t].op /\ j.plan = job[t].plan
          /\ j.total = job[t].total
    BY <1>5, Going DEF Places
  <2>2. j.op \in {"stop", "close"}
    BY <1>2, <1>5, <2>1 DEF Lifecycle, WithPlan
  <2>3. Shaped(j)
    BY <1>2, <2>1, <2>2 DEF Shaped, WithPlan, Starting
  <2>4. facts \in FactsSet
    BY DEF Inv, TypeOK
  <2>5. facts' \in FactsSet /\ facts'.state = "stopping"
    BY <1>5, <2>4 DEF FactsSet, States
  <2>6. Held(j, facts', instance', planOf') /\ Counted(j, instance', day', due')
    BY <2>1, <2>5 DEF Held, Counted
  <2>7. Settled'
    <3>1. UNCHANGED <<planOf, instance, memory, day, file, today, due, shown, outcome,
                      budget>>
      BY DEF Enter, daemon, traffic
    <3> QED BY <2>5, <3>1, InvIsSettled DEF Settled, DayInv, ServedInv, ShownInv
  <2> QED BY <1>1, <1>5, <2>1, <2>3, <2>6, <2>7, Sole
<1> QED BY <1>3, <1>4, <1>5 DEF Enter

LEMMA PreparedKeeps ==
  ASSUME Inv, NEW t \in Threads, Prepared(t)
  PROVE  Inv'
<1>1. /\ job[t].pc = "prepare" /\ Shaped(job[t]) /\ Locked(job[t])
      /\ Held(job[t], facts, instance, planOf)
  BY DEF Prepared, Inv, Threadwise, Sound, Locked
<1>2. Steady
  BY DEF Prepared, Steady, mu, daemon, traffic, others
<1>3. CASE Reply(t, "failed") \/ Reply(t, "done")
  BY <1>2, <1>3, OnlyReply DEF Results
<1>4. CASE /\ job[t].op # "validate"
           /\ Go(t, IF job[t].op = "urlTest" THEN "swap" ELSE "count")
           /\ UNCHANGED lifecycle
  <2>1. job[t].op \in WithPlan /\ job[t].total = 0
    BY <1>1 DEF Shaped
  <2>2. ASSUME NEW j \in JobSet,
               j.pc = IF job[t].op = "urlTest" THEN "swap" ELSE "count",
               j.op = job[t].op, j.plan = job[t].plan, j.total = job[t].total
        PROVE  Shaped(j) /\ Held(j, facts, instance, planOf) /\ Counted(j, instance, day, due)
    BY <1>1, <1>4, <2>1, <2>2 DEF Shaped, Held, Counted, WithPlan, Starting
  <2> QED BY <1>1, <1>2, <1>4, <2>2, OnlyGo DEF Places
<1> QED BY <1>3, <1>4 DEF Prepared

LEMMA AnnounceKeeps ==
  ASSUME Inv, NEW t \in Threads, Announce(t)
  PROVE  Inv'
<1>1. /\ job[t].pc = "announce" /\ Shaped(job[t]) /\ Locked(job[t]) /\ lifecycle = t
      /\ Counted(job[t], instance, day, due)
  BY DEF Announce, Inv, Threadwise, Sound, Locked
<1>2. job[t].op \in Starting /\ job[t].plan \in Plans
  BY <1>1 DEF Shaped, WithPlan
<1>3. \A u \in Threads \ {t} : ~Locked(job[u])
  BY <1>1, HolderIsAlone
<1>4. PICK j \in JobSet :
        /\ job' = [job EXCEPT ![t] = j]
        /\ j.pc = "swap" /\ j.op = job[t].op /\ j.plan = job[t].plan
        /\ j.total = job[t].total
  BY Going DEF Announce, Places
<1>5. Shaped(j)
  BY <1>1, <1>2, <1>4 DEF Shaped
<1>6. /\ planOf \in Seq(Plans) /\ facts \in FactsSet /\ Len(planOf) \in Nat
  BY DEF Inv, TypeOK
<1>7. /\ planOf' \in Seq(Plans)
      /\ Len(planOf') = Len(planOf) + 1
      /\ planOf'[Len(planOf) + 1] = job[t].plan
      /\ \A i \in 1 .. Len(planOf) : planOf'[i] = planOf[i]
  BY <1>2, <1>6, AppendProperties DEF Announce
<1>8. /\ facts' \in FactsSet
      /\ facts'.session = Len(planOf) + 1
      /\ facts'.state \in {"starting", "reloading"}
  <2>1. DEFINE now == IF job[t].op = "start" THEN "starting" ELSE "reloading"
  <2>2. now \in {"starting", "reloading"} /\ now \in States
    BY DEF States
  <2>3. facts' = [facts EXCEPT !.session = Len(planOf) + 1, !.hash = None, !.state = now]
    BY DEF Announce
  <2>4. Len(planOf) + 1 \in Nat
    BY <1>6
  <2> HIDE DEF now
  <2> QED BY <1>6, <2>2, <2>3, <2>4 DEF FactsSet
<1>9. Held(j, facts', instance', planOf') /\ Counted(j, instance', day', due')
  <2>1. UNCHANGED <<instance, day, due>>
    BY DEF Announce, daemon, traffic
  <2>2. Counted(j, instance', day', due')
    BY <1>1, <1>4, <2>1 DEF Counted
  <2> QED BY <1>4, <1>6, <1>7, <1>8, <2>2 DEF Held
<1>10. Settled'
  <2>1. UNCHANGED <<instance, memory, day, file, today, due, shown, outcome, budget>>
    BY DEF Announce, daemon, traffic, others
  <2>2. ShownInv'
    BY <1>6, <1>7, <2>1 DEF Inv, ShownInv
  <2>3. ServedInv'
    BY <1>8 DEF ServedInv
  <2> QED BY <1>7, <1>8, <2>1, <2>2, <2>3, InvIsSettled DEF Settled, DayInv
<1>11. lifecycle' = t
  BY <1>1 DEF Announce
<1> QED BY <1>3, <1>4, <1>5, <1>9, <1>10, <1>11, Sole
(* Where a command works on the daemon nothing is said to run, and nobody   *)
(* else is at work on it.                                                   *)
LEMMA AtTheDaemon ==
  ASSUME Inv, NEW t \in Threads,
         job[t].pc \in {"swap", "replace", "started", "publish", "closing", "finish", "wait"}
  PROVE  /\ Shaped(job[t]) /\ Locked(job[t]) /\ lifecycle = t
         /\ Held(job[t], facts, instance, planOf)
         /\ facts.state # "running"
         /\ \A u \in Threads \ {t} : ~Locked(job[u])
<1>1. /\ Shaped(job[t]) /\ Locked(job[t]) /\ lifecycle = t
      /\ Held(job[t], facts, instance, planOf)
  BY DEF Inv, Threadwise, Sound, Locked
<1>2. facts.state # "running"
  BY <1>1 DEF Held
<1> QED BY <1>1, <1>2, HolderIsAlone

(* A step that changes the daemon while nothing is said to run.             *)
LEMMA Serving ==
  ASSUME Inv, facts.state # "running", UNCHANGED facts,
         UNCHANGED <<planOf, day, file, today, shown, outcome>>,
         instance' \in Instances \cup {None},
         memory' \in Choices \cup {None},
         due' \in [sum : Nat, slipped : Nat, whole : BOOLEAN, owed : BOOLEAN], DayInv',
         UNCHANGED budget \/ \E event : event # "plans" /\ Spend(event)
  PROVE  Settled'
<1>1. "plans" \in DOMAIN budget' /\ budget'.plans \in {s.plans : s \in Scenarios}
  BY DEF Inv, TypeOK, Spend
<1>2. ServedInv'
  BY DEF ServedInv
<1> QED BY <1>1, <1>2, InvIsSettled DEF Settled, ShownInv

LEMMA SwapKeeps ==
  ASSUME Inv, NEW t \in Threads, Swap(t)
  PROVE  Inv'
<1>1. /\ job[t].pc = "swap" /\ Shaped(job[t]) /\ lifecycle = t
      /\ Held(job[t], facts, instance, planOf) /\ facts.state # "running"
      /\ \A u \in Threads \ {t} : ~Locked(job[u])
      /\ Counted(job[t], instance, day, due)
  BY AtTheDaemon DEF Swap, Inv, Threadwise, Sound
<1>2. PICK j \in JobSet :
        /\ job' = [job EXCEPT ![t] = j]
        /\ j.pc = "replace" /\ j.op = job[t].op /\ j.plan = job[t].plan
        /\ j.total = job[t].total
  BY Going DEF Swap, Places
<1>3. Shaped(j)
  BY <1>1, <1>2 DEF Shaped
<1>4. instance' \in Instances \cup {None}
  <2>1. CASE instance = None
    BY <2>1 DEF Swap
  <2>2. CASE instance # None
    <3>1. instance \in Instances
      BY <2>2 DEF Inv, TypeOK
    <3> QED BY <2>2, <3>1 DEF Swap, Instances
  <2> QED BY <2>1, <2>2
<1>5. UNCHANGED <<facts, planOf, lifecycle, memory, day, file, today, shown, outcome,
                  budget>>
  BY DEF Swap, mu, others
<1>6. memory' \in Choices \cup {None}
  BY <1>5 DEF Inv, TypeOK
<1>7. /\ due' \in [sum : Nat, slipped : Nat, whole : BOOLEAN, owed : BOOLEAN]
      /\ ~due'.owed /\ DayInv'
  <2>1. /\ day \in [date : Nat, up : Nat, last : Nat, dirty : BOOLEAN]
        /\ due \in [sum : Nat, slipped : Nat, whole : BOOLEAN, owed : BOOLEAN]
        /\ file \in [date : Nat, up : Nat, due : Nat, slipped : Nat]
        /\ DayInv
    BY DEF Inv, TypeOK
  <2>2. due' = [due EXCEPT !.owed = FALSE] \/ due' = DueAfterClose
    BY DEF Swap
  <2>3. CASE due' = [due EXCEPT !.owed = FALSE]
    BY <1>5, <2>1, <2>3 DEF DayInv
  <2>4. CASE job[t].op # "urlTest" /\ due' = DueAfterClose
    <3>1. CASE due.owed
      <4>1. instance.total \in Nat
        BY <2>1, <3>1 DEF DayInv, Inv, TypeOK, Instances
      <4>2. day.up + due.slipped >= due.sum + day.last + instance.total
        BY <1>1, <2>4, <3>1 DEF Shaped, Counted
      <4>3. PICK sum \in Nat : sum = due.sum + instance.total
        BY <2>1, <4>1
      <4>4. due' = [due EXCEPT !.sum = sum, !.owed = FALSE]
        BY <2>4, <3>1, <4>3 DEF DueAfterClose
      <4>5. /\ due' \in [sum : Nat, slipped : Nat, whole : BOOLEAN, owed : BOOLEAN]
            /\ ~due'.owed /\ due'.whole = due.whole
            /\ due'.sum = sum /\ due'.slipped = due.slipped
        BY <2>1, <4>4
      <4> QED BY <1>5, <2>1, <4>1, <4>2, <4>3, <4>5 DEF DayInv
    <3>2. CASE ~due.owed
      <4>1. due' = [due EXCEPT !.owed = FALSE]
        BY <2>1, <2>4, <3>2 DEF DueAfterClose
      <4> QED BY <1>5, <2>1, <4>1 DEF DayInv
    <3> QED BY <3>1, <3>2
  <2> QED BY <2>3, <2>4 DEF Swap
<1>8. Settled'
  BY <1>1, <1>4, <1>5, <1>6, <1>7, Serving
<1>9. Held(j, facts', instance', planOf') /\ Counted(j, instance', day', due')
  BY <1>1, <1>2, <1>5, <1>7 DEF Held, Counted
<1>10. lifecycle' = t
  BY <1>1, <1>5
<1> QED BY <1>1, <1>2, <1>3, <1>8, <1>9, <1>10, Sole

LEMMA ReplaceKeeps ==
  ASSUME Inv, NEW t \in Threads, Replace(t)
  PROVE  Inv'
<1>1. /\ job[t].pc = "replace" /\ Shaped(job[t]) /\ lifecycle = t
      /\ Held(job[t], facts, instance, planOf) /\ facts.state # "running"
      /\ \A u \in Threads \ {t} : ~Locked(job[u])
  BY AtTheDaemon DEF Replace
<1>2. PICK j \in JobSet :
        /\ job' = [job EXCEPT ![t] = j]
        /\ j.pc = "started" /\ j.op = job[t].op /\ j.plan = job[t].plan
        /\ j.total = job[t].total
  BY Going DEF Replace, Places
<1>3. Shaped(j)
  BY <1>1, <1>2 DEF Shaped
<1>4. job[t].plan \in Plans
  BY <1>1 DEF Shaped, WithPlan
<1>5. /\ instance' \in Instances
      /\ instance'.open
      /\ instance'.plan = job[t].plan
      /\ job[t].op # "urlTest" => instance'.session = facts.session
  <2>1. PICK name : name = IF job[t].op = "urlTest" THEN 0 ELSE facts.session
    OBVIOUS
  <2>2. name \in Nat
    BY <2>1 DEF Inv, TypeOK, FactsSet
  <2>3. PICK choice : choice = IF memory = None THEN job[t].plan.choice ELSE memory
    OBVIOUS
  <2>4. choice \in Choices
    BY <1>4, <2>3, EngineAssumption DEF Inv, TypeOK
  <2>5. instance' = [session |-> name, plan |-> job[t].plan, total |-> 0, open |-> TRUE,
                     choice |-> choice, touched |-> FALSE]
    BY <2>1, <2>3 DEF Replace
  <2> QED BY <1>4, <2>1, <2>2, <2>4, <2>5 DEF Instances
<1>6. UNCHANGED <<facts, planOf, lifecycle, memory, day, file, today, shown, outcome,
                  budget>>
  BY DEF Replace, mu, others
<1>7. memory' \in Choices \cup {None} /\ instance' # None
  BY <1>5, <1>6, EngineAssumption DEF Inv, TypeOK
<1>8. due' \in [sum : Nat, slipped : Nat, whole : BOOLEAN, owed : BOOLEAN] /\ DayInv'
  <2>1. due \in [sum : Nat, slipped : Nat, whole : BOOLEAN, owed : BOOLEAN] /\ DayInv
    BY DEF Inv, TypeOK
  <2>2. due' = [due EXCEPT !.owed = due.whole]
    BY DEF Replace
  <2>3. /\ due' \in [sum : Nat, slipped : Nat, whole : BOOLEAN, owed : BOOLEAN]
        /\ due'.sum = due.sum /\ due'.slipped = due.slipped
        /\ due'.whole = due.whole /\ due'.owed = due.whole
    BY <2>1, <2>2
  <2> QED BY <1>6, <1>7, <2>1, <2>3 DEF DayInv
<1>9. Settled'
  BY <1>1, <1>5, <1>6, <1>7, <1>8, Serving
<1>10. Held(j, facts', instance', planOf') /\ Counted(j, instance', day', due')
  BY <1>1, <1>2, <1>5, <1>6, <1>7 DEF Held, Counted, Starting
<1>11. lifecycle' = t
  BY <1>1, <1>6
<1> QED BY <1>1, <1>2, <1>3, <1>9, <1>10, <1>11, Sole

(* The daemon did not come up, or the probe has answered.                   *)
(* A session that is owed no more asks less of the sum.                     *)
LEMMA Forgiven ==
  ASSUME Inv, due' = [due EXCEPT !.owed = FALSE], UNCHANGED <<day, file>>
  PROVE  /\ due' \in [sum : Nat, slipped : Nat, whole : BOOLEAN, owed : BOOLEAN]
         /\ ~due'.owed /\ DayInv'
<1>1. due \in [sum : Nat, slipped : Nat, whole : BOOLEAN, owed : BOOLEAN] /\ DayInv
  BY DEF Inv, TypeOK
<1>2. /\ due' \in [sum : Nat, slipped : Nat, whole : BOOLEAN, owed : BOOLEAN]
      /\ due'.sum = due.sum /\ due'.slipped = due.slipped
      /\ due'.whole = due.whole /\ ~due'.owed
  BY <1>1
<1> QED BY <1>1, <1>2 DEF DayInv

LEMMA StartFailsKeeps ==
  ASSUME Inv, NEW t \in Threads, StartFails(t)
  PROVE  Inv'
<1>1. /\ facts.state # "running"
      /\ \A u \in Threads \ {t} : ~Locked(job[u])
  BY AtTheDaemon DEF StartFails
<1>2. PICK j \in JobSet : job' = [job EXCEPT ![t] = j] /\ Shaped(j) /\ ~Locked(j)
  BY Replying DEF StartFails, Results
<1>3. instance' \in Instances \cup {None}
  <2>1. CASE instance = None
    BY <2>1 DEF StartFails
  <2>2. CASE instance # None
    <3>1. instance \in Instances
      BY <2>2 DEF Inv, TypeOK
    <3>2. [instance EXCEPT !.open = FALSE] \in Instances
      BY <3>1 DEF Instances
    <3> QED BY <2>2, <3>2 DEF StartFails
  <2> QED BY <2>1, <2>2
<1>4. facts' \in FactsSet /\ facts'.state # "running"
  <2>1. facts \in FactsSet
    BY DEF Inv, TypeOK
  <2>2. CASE facts' = facts
    BY <1>1, <2>1, <2>2
  <2>3. CASE facts' = [facts EXCEPT !.state = "failed", !.hash = None]
    BY <2>1, <2>3 DEF FactsSet, States
  <2> QED BY <2>2, <2>3 DEF StartFails
<1>5. UNCHANGED <<planOf, memory, day, file, today, shown, outcome>>
  BY DEF StartFails, others
<1>6. "plans" \in DOMAIN budget' /\ budget'.plans \in {s.plans : s \in Scenarios}
  BY Spending DEF StartFails, Inv
<1>7. due' \in [sum : Nat, slipped : Nat, whole : BOOLEAN, owed : BOOLEAN] /\ DayInv'
  BY <1>5, Forgiven DEF StartFails
<1>8. Settled'
  BY <1>3, <1>4, <1>5, <1>6, <1>7, InvIsSettled DEF Settled, ServedInv, ShownInv
<1> QED BY <1>1, <1>2, <1>8, Sole

LEMMA ProbedKeeps ==
  ASSUME Inv, NEW t \in Threads, Probed(t)
  PROVE  Inv'
<1>1. /\ facts.state # "running"
      /\ \A u \in Threads \ {t} : ~Locked(job[u])
  BY AtTheDaemon DEF Probed
<1>2. PICK j \in JobSet : job' = [job EXCEPT ![t] = j] /\ Shaped(j) /\ ~Locked(j)
  BY Replying DEF Probed, Results
<1>3. UNCHANGED <<facts, planOf, memory, day, file, today, shown, outcome>>
  BY DEF Probed, mu, others
<1>4. instance' \in Instances \cup {None} /\ memory' \in Choices \cup {None}
  BY <1>3 DEF Probed, Inv, TypeOK
<1>5. UNCHANGED budget \/ \E event : event # "plans" /\ Spend(event)
  BY DEF Probed
<1>6. due' \in [sum : Nat, slipped : Nat, whole : BOOLEAN, owed : BOOLEAN] /\ DayInv'
  <2>1. CASE due' = [due EXCEPT !.owed = FALSE]
    BY <1>3, <2>1, Forgiven
  <2>2. CASE UNCHANGED <<instance, due>>
    BY <1>3, <2>2 DEF Inv, TypeOK, DayInv
  <2> QED BY <2>1, <2>2 DEF Probed
<1>7. Settled'
  BY <1>1, <1>3, <1>4, <1>5, <1>6, Serving
<1> QED BY <1>1, <1>2, <1>7, Sole

LEMMA ApplyChoicesKeeps ==
  ASSUME Inv, NEW t \in Threads, ApplyChoices(t)
  PROVE  Inv'
<1>1. /\ job[t].pc = "started" /\ Shaped(job[t]) /\ lifecycle = t
      /\ job[t].op \in Starting
      /\ Held(job[t], facts, instance, planOf) /\ facts.state # "running"
      /\ \A u \in Threads \ {t} : ~Locked(job[u])
  BY AtTheDaemon DEF ApplyChoices
<1>2. PICK j \in JobSet :
        /\ job' = [job EXCEPT ![t] = j]
        /\ j.pc = "publish" /\ j.op = job[t].op /\ j.plan = job[t].plan
        /\ j.total = job[t].total
  BY Going DEF ApplyChoices, Places
<1>3. Shaped(j)
  BY <1>1, <1>2 DEF Shaped
<1>4. job[t].plan \in Plans /\ job[t].plan.choice \in Choices
  BY <1>1, EngineAssumption DEF Shaped, WithPlan
<1>5. instance \in Instances
  BY <1>1 DEF Held, Inv, TypeOK
<1>6. instance' = [instance EXCEPT !.choice = job[t].plan.choice, !.touched = FALSE]
  BY DEF ApplyChoices
<1>7. /\ instance' \in Instances
      /\ instance'.open = instance.open /\ instance'.session = instance.session
      /\ instance'.plan = instance.plan /\ instance'.choice = job[t].plan.choice
  BY <1>4, <1>5, <1>6 DEF Instances
<1>8. UNCHANGED <<facts, planOf, lifecycle, day, file, today, due, shown, outcome, budget>>
  BY DEF ApplyChoices, mu, traffic, others
<1>9. memory' \in Choices \cup {None}
  BY <1>4 DEF ApplyChoices
<1>10. instance' # None
  BY <1>7, EngineAssumption
<1>11. Settled'
  <2>1. due' \in [sum : Nat, slipped : Nat, whole : BOOLEAN, owed : BOOLEAN] /\ DayInv'
    BY <1>8, <1>10 DEF Inv, TypeOK, DayInv
  <2> QED BY <1>1, <1>7, <1>8, <1>9, <2>1, Serving
<1>12. Held(j, facts', instance', planOf') /\ Counted(j, instance', day', due')
  BY <1>1, <1>2, <1>7, <1>8, <1>10 DEF Held, Counted
<1>13. lifecycle' = t
  BY <1>1, <1>8
<1> QED BY <1>1, <1>2, <1>3, <1>11, <1>12, <1>13, Sole

(* From here the session is said to run: all that was found out on the way  *)
(* is what Served asks for.                                                 *)
LEMMA PublishKeeps ==
  ASSUME Inv, NEW t \in Threads, Publish(t)
  PROVE  Inv'
<1>1. /\ job[t].pc = "publish" /\ Shaped(job[t]) /\ lifecycle = t
      /\ Held(job[t], facts, instance, planOf)
      /\ \A u \in Threads \ {t} : ~Locked(job[u])
  BY AtTheDaemon DEF Publish
<1>2. PICK j \in JobSet : job' = [job EXCEPT ![t] = j] /\ Shaped(j) /\ ~Locked(j)
  BY Replying DEF Publish, Results
<1>3. job[t].op \in Starting /\ job[t].plan \in Plans
  BY <1>1 DEF Shaped, WithPlan
<1>4. /\ facts.session = Len(planOf) /\ Len(planOf) > 0
      /\ planOf[Len(planOf)] = job[t].plan
      /\ instance # None /\ instance.open /\ instance.session = facts.session
      /\ instance.plan = job[t].plan
      /\ ~instance.touched => instance.choice = job[t].plan.choice
  BY <1>1, <1>3 DEF Held
<1>5. facts \in FactsSet /\ Len(planOf) \in Nat
  BY DEF Inv, TypeOK
<1>6. facts' = [facts EXCEPT !.state = "running", !.hash = job[t].plan, !.listen = job[t].plan]
  BY DEF Publish
<1>7. /\ facts' \in FactsSet /\ facts'.session = facts.session
      /\ facts'.hash = job[t].plan /\ facts'.listen = job[t].plan
  BY <1>3, <1>5, <1>6 DEF FactsSet, States
<1>8. UNCHANGED <<planOf, instance, memory, day, file, today, due, shown, outcome, budget>>
  BY DEF Publish, daemon, traffic, others
<1>9. Served(facts', instance', planOf')
  BY <1>3, <1>4, <1>5, <1>7, <1>8 DEF Served
<1>10. Settled'
  BY <1>7, <1>8, <1>9, InvIsSettled DEF Settled, DayInv, ServedInv, ShownInv
<1> QED BY <1>1, <1>2, <1>10, Sole

LEMMA CloseServiceKeeps ==
  ASSUME Inv, NEW t \in Threads, CloseService(t)
  PROVE  Inv'
<1>1. /\ job[t].pc = "closing" /\ Shaped(job[t]) /\ lifecycle = t
      /\ job[t] \in JobSet
      /\ Held(job[t], facts, instance, planOf) /\ facts.state # "running"
      /\ Counted(job[t], instance, day, due)
      /\ \A u \in Threads \ {t} : ~Locked(job[u])
  BY AtTheDaemon DEF CloseService, Inv, TypeOK, Threadwise, Sound
<1>2. PICK answer \in Results : job' = [job EXCEPT ![t].pc = "ended", ![t].result = answer]
  BY DEF CloseService, Results
<1>3. PICK j \in JobSet : j = [job[t] EXCEPT !.pc = "ended", !.result = answer]
  <2>1. "ended" \in Places
    BY DEF Places
  <2> QED BY <1>1, <2>1 DEF JobSet
<1>4. /\ j.pc = "ended" /\ j.op = job[t].op /\ j.plan = job[t].plan
      /\ j.total = job[t].total
  BY <1>1, <1>3 DEF JobSet
<1>5. job' = [job EXCEPT ![t] = j]
  BY <1>2, <1>3
<1>6. Shaped(j)
  BY <1>1, <1>4 DEF Shaped
<1>7. UNCHANGED <<facts, planOf, lifecycle, memory, day, file, today, shown, outcome>>
  BY DEF CloseService, mu, others
<1>8. instance' \in Instances \cup {None} /\ memory' \in Choices \cup {None}
  BY <1>7 DEF CloseService, Inv, TypeOK
<1>9. UNCHANGED budget \/ \E event : event # "plans" /\ Spend(event)
  BY DEF CloseService
<1>10. due' \in [sum : Nat, slipped : Nat, whole : BOOLEAN, owed : BOOLEAN] /\ DayInv'
  <2>1. /\ day \in [date : Nat, up : Nat, last : Nat, dirty : BOOLEAN]
        /\ due \in [sum : Nat, slipped : Nat, whole : BOOLEAN, owed : BOOLEAN]
        /\ file \in [date : Nat, up : Nat, due : Nat, slipped : Nat]
        /\ DayInv
    BY DEF Inv, TypeOK
  <2>2. CASE UNCHANGED <<instance, due>>
    BY <1>7, <2>1, <2>2 DEF DayInv
  <2>3. CASE due' = [DueAfterClose EXCEPT !.whole = FALSE]
    <3>1. CASE due.owed
      <4>1. instance.total \in Nat
        BY <2>1, <3>1 DEF DayInv, Inv, TypeOK, Instances
      <4>2. day.up + due.slipped >= due.sum + instance.total
        BY <1>1, <3>1 DEF Counted
      <4>3. PICK sum \in Nat : sum = due.sum + instance.total
        BY <2>1, <4>1
      <4>4. due' = [due EXCEPT !.sum = sum, !.owed = FALSE, !.whole = FALSE]
        BY <2>1, <2>3, <3>1, <4>3 DEF DueAfterClose
      <4>5. /\ due' \in [sum : Nat, slipped : Nat, whole : BOOLEAN, owed : BOOLEAN]
            /\ ~due'.owed /\ ~due'.whole
            /\ due'.sum = sum /\ due'.slipped = due.slipped
        BY <2>1, <4>4
      <4> QED BY <1>7, <2>1, <4>1, <4>2, <4>3, <4>5 DEF DayInv
    <3>2. CASE ~due.owed
      <4>1. due' = [due EXCEPT !.owed = FALSE, !.whole = FALSE]
        BY <2>1, <2>3, <3>2 DEF DueAfterClose
      <4> QED BY <1>7, <2>1, <4>1 DEF DayInv
    <3> QED BY <3>1, <3>2
  <2> QED BY <2>2, <2>3 DEF CloseService
<1>11. Settled'
  BY <1>1, <1>7, <1>8, <1>9, <1>10, Serving
<1>12. Held(j, facts', instance', planOf') /\ Counted(j, instance', day', due')
  BY <1>1, <1>4, <1>7 DEF Held, Counted, Shaped, Starting
<1>13. lifecycle' = t
  BY <1>1, <1>7
<1> QED BY <1>1, <1>5, <1>6, <1>11, <1>12, <1>13, Sole

(* stop and Close end with nothing said to run.                             *)
LEMMA EndsKeep ==
  ASSUME Inv, NEW t \in Threads, StopEnds(t) \/ CloseEnds(t)
  PROVE  Inv'
<1>1. \A u \in Threads \ {t} : ~Locked(job[u])
  BY AtTheDaemon DEF StopEnds, CloseEnds
<1>2. PICK answer \in Results : Reply(t, answer)
  BY DEF StopEnds, CloseEnds, Inv, TypeOK, JobSet, Results
<1>3. PICK j \in JobSet : job' = [job EXCEPT ![t] = j] /\ Shaped(j) /\ ~Locked(j)
  BY <1>2, Replying
<1>4. facts \in FactsSet
  BY DEF Inv, TypeOK
<1>5. facts' \in FactsSet /\ facts'.state # "running"
  <2>1. [facts EXCEPT !.state = "failed", !.hash = None] \in FactsSet
    BY <1>4 DEF FactsSet, States
  <2>2. [facts EXCEPT !.state = "stopped", !.hash = None, !.session = 0] \in FactsSet
    BY <1>4 DEF FactsSet, States
  <2>3. [facts EXCEPT !.state = "stopped", !.hash = None] \in FactsSet
    BY <1>4 DEF FactsSet, States
  <2> QED BY <1>4, <2>1, <2>2, <2>3 DEF StopEnds, CloseEnds, FactsSet
<1>6. UNCHANGED <<planOf, instance, memory, day, file, today, due, shown, outcome, budget>>
  BY DEF StopEnds, CloseEnds, daemon, traffic, others
<1>7. Settled'
  BY <1>5, <1>6, InvIsSettled DEF Settled, DayInv, ServedInv, ShownInv
<1> QED BY <1>1, <1>3, <1>7, Sole

LEMMA CancelKeeps ==
  ASSUME Inv, NEW t \in Threads, Cancel(t)
  PROVE  Inv'
<1>1. /\ job[t].pc = "finish" /\ Shaped(job[t]) /\ Locked(job[t])
      /\ Held(job[t], facts, instance, planOf)
  BY AtTheDaemon DEF Cancel
<1>2. Steady /\ UNCHANGED lifecycle /\ Go(t, "wait")
  BY DEF Cancel, Steady, mu, daemon, traffic
<1>3. ASSUME NEW j \in JobSet, j.pc = "wait", j.op = job[t].op, j.plan = job[t].plan
      PROVE  Shaped(j) /\ Held(j, facts, instance, planOf) /\ Counted(j, instance, day, due)
  BY <1>1, <1>3 DEF Shaped, Held, Counted
<1> QED BY <1>1, <1>2, <1>3, OnlyGo DEF Places
-----------------------------------------------------------------------------
(* The day's traffic.                                                       *)

(* What a look at the record does to it: the sum stays what it was or grows,*)
(* or the date is another one and nothing is due yet.                       *)
DayGrows ==
  /\ day' \in [date : Nat, up : Nat, last : Nat, dirty : BOOLEAN]
  /\ due' \in [sum : Nat, slipped : Nat, whole : BOOLEAN, owed : BOOLEAN]
  /\ DayInv'
  /\ DayKeeps

LEMMA RollGrows ==
  ASSUME Inv, NEW d \in Nat, day' = Rolled(d), due' = DueAfterRoll(d),
         UNCHANGED <<file, instance>>
  PROVE  DayGrows
<1>1. /\ day \in [date : Nat, up : Nat, last : Nat, dirty : BOOLEAN]
      /\ due \in [sum : Nat, slipped : Nat, whole : BOOLEAN, owed : BOOLEAN]
      /\ file \in [date : Nat, up : Nat, due : Nat, slipped : Nat]
      /\ DayInv
  BY DEF Inv, TypeOK
<1>2. CASE day.date = d
  BY <1>1, <1>2 DEF Rolled, DueAfterRoll, DayGrows, DayKeeps, DayInv
<1>3. CASE day.date # d
  <2>1. day' = [day EXCEPT !.date = d, !.up = 0, !.dirty = TRUE]
    BY <1>3 DEF Rolled
  <2>2. /\ day' \in [date : Nat, up : Nat, last : Nat, dirty : BOOLEAN]
        /\ day'.up = 0 /\ day'.dirty
    <3>1. day' = [date |-> d, up |-> 0, last |-> day.last, dirty |-> TRUE]
      BY <1>1, <2>1
    <3> QED BY <1>1, <3>1
  <2>3. due' = [sum |-> 0, slipped |-> 0, whole |-> FALSE, owed |-> FALSE]
    BY <1>3 DEF DueAfterRoll, NoDue
  <2> QED BY <1>1, <2>2, <2>3 DEF DayGrows, DayKeeps, DayInv
<1> QED BY <1>2, <1>3

(* A sample also notes the total it was given.                              *)
LEMMA SampleGrows ==
  ASSUME Inv, NEW total \in Nat, day' = Sampled(total), due' = DueAfterRoll(today),
         UNCHANGED <<file, instance>>
  PROVE  DayGrows /\ day'.last = total
<1>1. /\ day \in [date : Nat, up : Nat, last : Nat, dirty : BOOLEAN]
      /\ due \in [sum : Nat, slipped : Nat, whole : BOOLEAN, owed : BOOLEAN]
      /\ file \in [date : Nat, up : Nat, due : Nat, slipped : Nat]
      /\ DayInv /\ today \in Nat
  BY DEF Inv, TypeOK
<1>2. PICK d : d = Rolled(today)
  OBVIOUS
<1>3. /\ d \in [date : Nat, up : Nat, last : Nat, dirty : BOOLEAN]
      /\ d.last = day.last
      /\ IF day.date = today THEN d = day /\ due' = due
         ELSE /\ d.up = 0 /\ d.dirty
              /\ due' = [sum |-> 0, slipped |-> 0, whole |-> FALSE, owed |-> FALSE]
  BY <1>1, <1>2 DEF Rolled, DueAfterRoll, NoDue
<1>4. PICK up, dirty : /\ up = IF total > d.last THEN d.up + (total - d.last) ELSE d.up
                       /\ dirty = (d.dirty \/ total > d.last)
  OBVIOUS
<1>5. up \in Nat /\ up >= d.up /\ (~dirty => up = d.up) /\ dirty \in BOOLEAN
      /\ (~dirty => ~d.dirty) /\ up + d.last >= d.up + total
  <2>1. d.up \in Nat /\ d.last \in Nat /\ d.dirty \in BOOLEAN
    BY <1>3
  <2>2. CASE total > d.last
    <3>1. dirty = TRUE
      BY <1>4, <2>2
    <3>2. up = d.up + (total - d.last)
      BY <1>4, <2>2
    <3>3. up \in Nat /\ up >= d.up /\ up + d.last >= d.up + total
      BY <2>1, <2>2, <3>2
    <3> QED BY <3>1, <3>3
  <2>3. CASE ~(total > d.last)
    <3>1. dirty = d.dirty
      BY <1>4, <2>1, <2>3
    <3>2. up = d.up
      BY <1>4, <2>3
    <3>3. up \in Nat /\ up >= d.up /\ up + d.last >= d.up + total
      BY <2>1, <2>3, <3>2
    <3> QED BY <2>1, <3>1, <3>2, <3>3
  <2> QED BY <2>2, <2>3
<1>6. day' = [d EXCEPT !.up = up, !.dirty = dirty, !.last = total]
  BY <1>2, <1>4 DEF Sampled
<1>7. /\ day' \in [date : Nat, up : Nat, last : Nat, dirty : BOOLEAN]
      /\ day'.up = up /\ day'.dirty = dirty /\ day'.last = total
  BY <1>3, <1>5, <1>6
<1>8. CASE day.date = today
  <2>1. d = day /\ due' = due
    BY <1>3, <1>8
  <2>2. /\ day.up \in Nat /\ day.last \in Nat /\ due.sum \in Nat /\ due.slipped \in Nat
        /\ day.up + due.slipped >= due.sum
        /\ due.whole => day.up + due.slipped >= due.sum + day.last
        /\ due.owed => due.whole /\ instance # None
        /\ ~day.dirty => file.up = day.up
        /\ file.up + file.slipped >= file.due
    BY <1>1 DEF DayInv
  <2>3. up >= day.up /\ up + day.last >= day.up + total /\ up \in Nat
    BY <1>5, <2>1
  <2>4. /\ up + due.slipped >= due.sum
        /\ due.whole => up + due.slipped >= due.sum + total
    BY <2>2, <2>3
  <2>5. ~dirty => file.up = up
    BY <1>5, <2>1, <2>2
  <2>6. DayInv'
    BY <1>7, <2>1, <2>2, <2>4, <2>5 DEF DayInv
  <2>7. DayKeeps
    BY <1>7, <2>1, <2>3 DEF DayKeeps
  <2> QED BY <1>1, <1>7, <2>1, <2>6, <2>7 DEF DayGrows
<1>9. CASE day.date # today
  <2>1. /\ d.up = 0 /\ d.dirty
        /\ due' = [sum |-> 0, slipped |-> 0, whole |-> FALSE, owed |-> FALSE]
    BY <1>3, <1>9
  <2> QED BY <1>1, <1>5, <1>7, <2>1 DEF DayGrows, DayKeeps, DayInv
<1> QED BY <1>8, <1>9

LEMMA DaySettled ==
  ASSUME Inv, DayGrows, today' \in Nat,
         UNCHANGED <<facts, planOf, instance, memory, file, shown, outcome>>,
         UNCHANGED budget \/ \E event : event # "plans" /\ Spend(event)
  PROVE  Settled' /\ Mild
<1>1. "plans" \in DOMAIN budget' /\ budget'.plans \in {s.plans : s \in Scenarios}
  BY DEF Inv, TypeOK, Spend
<1>2. Settled'
  BY <1>1, InvIsSettled DEF DayGrows, Settled, ServedInv, Served, ShownInv
<1> QED BY <1>2 DEF DayGrows, Mild, SameSession

(* A count that is over, inside a lifecycle command or outside.             *)
LEMMA CountingKeeps ==
  ASSUME Inv, NEW t \in Threads,
         job[t].pc \in {"count", "sample"},
         Go(t, AfterCount(job[t].op)),
         DayGrows,
         Locked(job[t]) /\ due'.owed =>
           day'.up + due'.slipped >= due'.sum + instance.total,
         UNCHANGED <<facts, planOf, instance, memory, file, shown, outcome, today,
                     lifecycle, budget>>
  PROVE  Inv'
<1>1. Shaped(job[t])
  BY DEF Inv, Threadwise, Sound
<1>2. job[t].op \in Starting \cup {"stop", "close", "snapshot", "tick"}
  BY <1>1 DEF Shaped
<1>3. Settled' /\ Mild
  BY DaySettled DEF Inv, TypeOK
<1>4. CASE job[t].op \in {"snapshot", "tick"}
  <2>1. AfterCount(job[t].op) \in {"reply", "save"} /\ job[t].op \notin WithPlan
        /\ (job[t].op = "snapshot" => AfterCount(job[t].op) = "reply")
    BY <1>4 DEF AfterCount, Starting, WithPlan
  <2>2. PICK j \in JobSet :
          /\ job' = [job EXCEPT ![t] = j]
          /\ j.pc = AfterCount(job[t].op) /\ j.op = job[t].op
    BY <2>1, Going DEF Places
  <2>3. Shaped(j) /\ ~Locked(j)
    BY <1>4, <2>1, <2>2 DEF Shaped, Locked, Starting
  <2> QED BY <1>3, <2>2, <2>3, Other
<1>5. CASE job[t].op \in Starting \cup {"stop", "close"}
  <2>1. Locked(job[t]) /\ lifecycle = t /\ Held(job[t], facts, instance, planOf)
    BY <1>5 DEF Locked, Inv, Threadwise, Sound
  <2>2. AfterCount(job[t].op) = IF job[t].op \in Starting THEN "ended" ELSE "closing"
    BY <1>5 DEF AfterCount, Starting
  <2>3. PICK j \in JobSet :
          /\ job' = [job EXCEPT ![t] = j]
          /\ j.pc = IF job[t].op \in Starting THEN "ended" ELSE "closing"
          /\ j.op = job[t].op /\ j.plan = job[t].plan /\ j.total = job[t].total
    BY <2>2, Going DEF Places
  <2>4. Shaped(j)
    BY <1>1, <1>5, <2>3 DEF Shaped
  <2>5. Held(j, facts, instance, planOf)
    BY <1>5, <2>1, <2>3 DEF Held, Starting
  <2>6. Held(j, facts', instance', planOf') /\ Counted(j, instance', day', due')
    BY <2>1, <2>3, <2>5 DEF Counted
  <2>7. lifecycle' = t
    BY <2>1
  <2>8. \A u \in Threads \ {t} : ~Locked(job[u])
    BY <2>1, HolderIsAlone
  <2> QED BY <1>3, <2>3, <2>4, <2>6, <2>7, <2>8, Sole
<1> QED BY <1>2, <1>4, <1>5

LEMMA CountKeeps ==
  ASSUME Inv, NEW t \in Threads, Count(t)
  PROVE  Inv'
<1>1. /\ job[t] \in JobSet /\ Shaped(job[t]) /\ job[t].pc = "count"
      /\ job[t].total = 0 /\ today \in Nat
  BY DEF Count, Inv, TypeOK, Threadwise, Sound, Shaped
<1>2. UNCHANGED <<facts, planOf, instance, memory, file, shown, outcome, today,
                  lifecycle, budget>>
  BY DEF Count, mu, daemon, others
<1>3. CASE instance = None
  <2>1. /\ DayGrows /\ Go(t, AfterCount(job[t].op))
    BY <1>1, <1>2, <1>3, RollGrows DEF Count
  <2>2. ~due'.owed
    BY <1>2, <1>3, <2>1 DEF DayGrows, DayInv
  <2> QED BY <1>1, <1>2, <2>1, <2>2, CountingKeeps
<1>4. CASE instance # None
  <2>1. instance.total \in Nat
    BY <1>4 DEF Inv, TypeOK, Instances
  <2>2. PICK j \in JobSet : j = [job[t] EXCEPT !.total = instance.total, !.pc = "sample"]
    <3>1. "sample" \in Places
      BY DEF Places
    <3> QED BY <1>1, <2>1, <3>1 DEF JobSet
  <2>3. /\ j.pc = "sample" /\ j.op = job[t].op /\ j.plan = job[t].plan
        /\ j.total = instance.total
    BY <1>1, <2>2 DEF JobSet
  <2>4. job' = [job EXCEPT ![t] = j]
    BY <1>4, <2>2 DEF Count
  <2>5. Shaped(j) /\ (Locked(j) <=> Locked(job[t]))
    BY <1>1, <2>3 DEF Shaped, Locked
  <2>6. UNCHANGED <<day, due>>
    BY <1>4 DEF Count
  <2>7. Steady
    BY <1>2, <2>6 DEF Steady
  <2>8. Settled'
    BY <2>7, SettledStays, InvIsSettled
  <2>9. CASE Locked(job[t])
    <3>1. lifecycle = t /\ Held(job[t], facts, instance, planOf)
      BY <2>9 DEF Inv, Threadwise, Sound
    <3>2. Held(j, facts', instance', planOf') /\ Counted(j, instance', day', due')
      <4>1. /\ day.up \in Nat /\ day.last \in Nat /\ due.sum \in Nat
            /\ due.slipped \in Nat
            /\ due.owed => day.up + due.slipped >= due.sum + day.last
        BY DEF Inv, TypeOK, DayInv
      <4>2. Counted(j, instance, day, due)
        BY <2>1, <2>3, <4>1 DEF Counted
      <4>3. Held(j, facts, instance, planOf)
        BY <1>1, <2>3, <3>1 DEF Held
      <4> QED BY <1>2, <2>6, <4>2, <4>3
    <3>3. lifecycle' = t /\ \A u \in Threads \ {t} : ~Locked(job[u])
      BY <1>2, <3>1, HolderIsAlone
    <3> QED BY <2>4, <2>5, <2>8, <3>2, <3>3, Sole
  <2>10. CASE ~Locked(job[t])
    <3>1. Mild
      BY <1>2, <2>6 DEF Mild, SameSession, DayKeeps, Inv, TypeOK
    <3> QED BY <1>2, <2>4, <2>5, <2>8, <2>10, <3>1, Other
  <2> QED BY <2>9, <2>10
<1> QED BY <1>3, <1>4

LEMMA SampleKeeps ==
  ASSUME Inv, NEW t \in Threads, Sample(t)
  PROVE  Inv'
<1>1. job[t].total \in Nat
  BY DEF Inv, TypeOK, JobSet
<1>2. UNCHANGED <<facts, planOf, instance, memory, file, shown, outcome, today,
                  lifecycle, budget>>
  BY DEF Sample, mu, daemon, others
<1>3. DayGrows /\ day'.last = job[t].total
  BY <1>1, <1>2, SampleGrows DEF Sample
<1>4. ASSUME Locked(job[t]), due'.owed
      PROVE  day'.up + due'.slipped >= due'.sum + instance.total
  <2>1. /\ due.owed /\ due'.sum = due.sum /\ due'.slipped = due.slipped
        /\ day'.up + day.last >= day.up + job[t].total
    BY <1>3, <1>4 DEF DayGrows, DayKeeps
  <2>2. /\ day.up \in Nat /\ day.last \in Nat /\ due.sum \in Nat /\ due.slipped \in Nat
        /\ day'.up \in Nat
    BY <1>3 DEF Inv, TypeOK, DayGrows
  <2>3. instance.total \in Nat
    BY <2>1 DEF Inv, TypeOK, DayInv, Instances
  <2>4. day.up + due.slipped + job[t].total >= due.sum + day.last + instance.total
    BY <1>4, <2>1 DEF Sample, Inv, Threadwise, Sound, Counted
  <2> QED BY <1>1, <2>1, <2>2, <2>3, <2>4
<1> QED BY <1>2, <1>3, <1>4, CountingKeeps DEF Sample

(* The next session is sampled from nothing on.                             *)
LEMMA EndedKeeps ==
  ASSUME Inv, NEW t \in Threads, Ended(t)
  PROVE  Inv'
<1>1. /\ job[t].pc = "ended" /\ Shaped(job[t]) /\ Locked(job[t]) /\ lifecycle = t
      /\ Held(job[t], facts, instance, planOf) /\ Counted(job[t], instance, day, due)
      /\ job[t].total \in Nat
  BY DEF Ended, Inv, TypeOK, JobSet, Threadwise, Sound, Locked
<1>2. job[t].op \in Starting \cup {"stop", "close"}
  BY <1>1 DEF Shaped
<1>3. PICK j \in JobSet :
        /\ job' = [job EXCEPT ![t] = j]
        /\ j.pc = IF job[t].op \in Starting THEN "offset" ELSE "save"
        /\ j.op = job[t].op /\ j.plan = job[t].plan /\ j.total = job[t].total
  BY Going DEF Ended, Places
<1>4. Shaped(j)
  BY <1>1, <1>2, <1>3 DEF Shaped
<1>5. UNCHANGED <<facts, planOf, instance, memory, file, shown, outcome, today,
                  lifecycle, budget>>
  BY DEF Ended, mu, daemon, others
<1>6. /\ day \in [date : Nat, up : Nat, last : Nat, dirty : BOOLEAN]
      /\ due \in [sum : Nat, slipped : Nat, whole : BOOLEAN, owed : BOOLEAN]
      /\ DayInv
  BY DEF Inv, TypeOK
<1>7. /\ day' \in [date : Nat, up : Nat, last : Nat, dirty : BOOLEAN]
      /\ day'.up = day.up /\ day'.last = 0 /\ day'.dirty = day.dirty
  BY <1>6 DEF Ended
<1>8. /\ due' \in [sum : Nat, slipped : Nat, whole : BOOLEAN, owed : BOOLEAN]
      /\ due'.sum = due.sum /\ due'.slipped = due.slipped
      /\ due'.whole /\ due'.owed = due.owed
  BY <1>6 DEF Ended
<1>9. day.up + due.slipped >= due.sum
  BY <1>6 DEF DayInv
<1>10. DayInv'
  BY <1>5, <1>6, <1>7, <1>8, <1>9 DEF DayInv
<1>11. Settled'
  BY <1>5, <1>7, <1>8, <1>10, InvIsSettled DEF Settled, ServedInv, Served, ShownInv
<1>12. Held(j, facts', instance', planOf') /\ Counted(j, instance', day', due')
  <2>1. Held(j, facts', instance', planOf')
    BY <1>1, <1>2, <1>3, <1>5 DEF Held, Starting
  <2>2. CASE due.owed /\ job[t].op \in Starting
    <3>1. instance.total \in Nat
      BY <1>6, <2>2 DEF DayInv, Inv, TypeOK, Instances
    <3>2. day.up + due.slipped >= due.sum + instance.total
      BY <1>1, <2>2 DEF Counted
    <3> QED BY <1>3, <1>5, <1>6, <1>7, <1>8, <2>1, <2>2, <3>1, <3>2 DEF Counted
  <2>3. CASE ~(due.owed /\ job[t].op \in Starting)
    BY <1>3, <1>8, <2>1, <2>3 DEF Counted
  <2> QED BY <2>2, <2>3
<1>13. lifecycle' = t /\ \A u \in Threads \ {t} : ~Locked(job[u])
  BY <1>1, <1>5, HolderIsAlone
<1> QED BY <1>3, <1>4, <1>11, <1>12, <1>13, Sole
LEMMA OffsetKeeps ==
  ASSUME Inv, NEW t \in Threads, Offset(t)
  PROVE  Inv'
<1>1. /\ job[t].pc = "offset" /\ Shaped(job[t]) /\ Locked(job[t]) /\ lifecycle = t
      /\ Held(job[t], facts, instance, planOf) /\ Counted(job[t], instance, day, due)
  BY DEF Offset, Inv, Threadwise, Sound, Locked
<1>2. PICK j \in JobSet :
        /\ job' = [job EXCEPT ![t] = j]
        /\ j.pc = "announce" /\ j.op = job[t].op /\ j.plan = job[t].plan
        /\ j.total = job[t].total
  BY Going DEF Offset, Places
<1>3. Shaped(j)
  BY <1>1, <1>2 DEF Shaped
<1>4. UNCHANGED <<facts, planOf, instance, memory, file, shown, outcome, lifecycle>>
  BY DEF Offset, mu, daemon, traffic, others
<1>5. Held(j, facts', instance', planOf')
  BY <1>1, <1>2, <1>4 DEF Held
<1>6. Settled' /\ Counted(j, instance', day', due')
  <2>1. CASE UNCHANGED <<traffic, budget>>
    <3>1. Settled'
      BY <1>4, <2>1, SettledStays, InvIsSettled DEF Steady, traffic
    <3>2. Counted(j, instance', day', due')
      BY <1>1, <1>2, <1>4, <2>1 DEF Counted, traffic
    <3> QED BY <3>1, <3>2
  <2>2. CASE Spend("date") /\ today' = today + 1 /\ day' = Rolled(today + 1)
             /\ due' = DueAfterRoll(today + 1) /\ UNCHANGED file
    <3>1. today + 1 \in Nat
      BY DEF Inv, TypeOK
    <3>2. DayGrows
      BY <1>4, <2>2, <3>1, RollGrows
    <3>3. Settled' /\ Mild
      BY <1>4, <2>2, <3>1, <3>2, DaySettled
    <3>4. Counted(job[t], instance', day', due')
      <4>1. job[t] \in JobSet /\ TypeOK /\ DayInv
        BY DEF Inv, TypeOK
      <4>2. TypeOK'
        BY <1>2, <3>3 DEF Settled, TypeOK, Inv
      <4> QED BY <1>1, <3>3, <4>1, <4>2, MildKeeps
    <3>5. Counted(j, instance', day', due')
      BY <1>1, <1>2, <3>4 DEF Counted
    <3> QED BY <3>3, <3>5
  <2> QED BY <2>1, <2>2 DEF Offset
<1>7. lifecycle' = t /\ \A u \in Threads \ {t} : ~Locked(job[u])
  BY <1>1, <1>4, HolderIsAlone
<1> QED BY <1>2, <1>3, <1>5, <1>6, <1>7, Sole

LEMMA Nothing ==
  /\ NoJob \in JobSet /\ NoJob.pc = "idle" /\ NoJob.total = 0 /\ NoJob.op = None
BY DEF NoJob, JobSet, Places, Results

(* A thread without a command is outside of everything.                     *)
LEMMA IdleIsShaped == Shaped(NoJob) /\ ~Locked(NoJob)
<1>1. NoJob.op \notin WithPlan
  BY Nothing, EngineAssumption DEF WithPlan, Lifecycle
<1> HIDE DEF NoJob
<1> QED BY <1>1, Nothing DEF Shaped, Locked

LEMMA SaveKeeps ==
  ASSUME Inv, NEW t \in Threads, Save(t)
  PROVE  Inv'
<1>1. /\ job[t].pc = "save" /\ Shaped(job[t]) /\ Sound(t) /\ job[t] \in JobSet
  BY DEF Save, Inv, TypeOK, Threadwise, Sound
<1>2. UNCHANGED <<facts, planOf, instance, memory, today, due, shown, outcome, lifecycle,
                  budget>>
  BY DEF Save, mu, daemon, others
<1>3. /\ day \in [date : Nat, up : Nat, last : Nat, dirty : BOOLEAN]
      /\ due \in [sum : Nat, slipped : Nat, whole : BOOLEAN, owed : BOOLEAN]
      /\ file \in [date : Nat, up : Nat, due : Nat, slipped : Nat]
      /\ DayInv
  BY DEF Inv, TypeOK
<1>4. /\ day' \in [date : Nat, up : Nat, last : Nat, dirty : BOOLEAN]
      /\ file' \in [date : Nat, up : Nat, due : Nat, slipped : Nat]
      /\ day'.up = day.up /\ day'.last = day.last
      /\ DayInv'
  <2>1. CASE UNCHANGED <<day, file>>
    BY <1>2, <1>3, <2>1 DEF DayInv
  <2>2. CASE /\ day' = [day EXCEPT !.dirty = FALSE]
             /\ file' = [date |-> IF day.dirty THEN day.date ELSE file.date,
                         up   |-> IF day.dirty THEN day.up ELSE file.up,
                         due  |-> due.sum, slipped |-> due.slipped]
    <3>1. /\ day' \in [date : Nat, up : Nat, last : Nat, dirty : BOOLEAN]
          /\ day'.up = day.up /\ day'.last = day.last
      BY <1>3, <2>2
    <3>2. /\ file' \in [date : Nat, up : Nat, due : Nat, slipped : Nat]
          /\ file'.up = day.up /\ file'.due = due.sum /\ file'.slipped = due.slipped
      <4>1. CASE day.dirty
        BY <1>3, <2>2, <4>1
      <4>2. CASE ~day.dirty
        BY <1>3, <2>2, <4>2 DEF DayInv
      <4> QED BY <4>1, <4>2
    <3> QED BY <1>2, <1>3, <3>1, <3>2 DEF DayInv
  <2> QED BY <2>1, <2>2 DEF Save
<1>5. Settled'
  BY <1>2, <1>4, InvIsSettled DEF Settled, ServedInv, Served, ShownInv
<1>6. CASE job[t].op = "tick"
  <2>1. job' = [job EXCEPT ![t] = NoJob]
    BY <1>6 DEF Save
  <2>2. Shaped(NoJob) /\ ~Locked(NoJob)
    BY IdleIsShaped
  <2>3. Mild
    BY <1>2, <1>3, <1>4 DEF Mild, SameSession, DayKeeps
  <2> QED BY <1>2, <1>5, <2>1, <2>2, <2>3, Nothing, Other
<1>7. CASE job[t].op # "tick"
  <2>1. job[t].op \in {"stop", "close"}
    BY <1>1, <1>7 DEF Shaped
  <2>2. Locked(job[t]) /\ lifecycle = t /\ Held(job[t], facts, instance, planOf)
    BY <1>1, <2>1 DEF Locked, Sound
  <2>3. PICK j \in JobSet :
          /\ job' = [job EXCEPT ![t] = j]
          /\ j.pc = "finish" /\ j.op = job[t].op /\ j.plan = job[t].plan
          /\ j.total = job[t].total
    <3>1. Go(t, "finish") /\ "finish" \in Places
      BY <1>7 DEF Save, Go, Places
    <3> QED BY <3>1, Going
  <2>4. Shaped(j)
    BY <2>1, <2>3 DEF Shaped, WithPlan, Starting
  <2>5. Held(j, facts', instance', planOf') /\ Counted(j, instance', day', due')
    BY <1>2, <2>1, <2>2, <2>3 DEF Held, Counted
  <2>6. lifecycle' = t /\ \A u \in Threads \ {t} : ~Locked(job[u])
    BY <1>2, <2>2, HolderIsAlone
  <2> QED BY <1>5, <2>3, <2>4, <2>5, <2>6, Sole
<1> QED BY <1>6, <1>7

LEMMA TotalsKeeps ==
  ASSUME Inv, NEW t \in Threads, Totals(t)
  PROVE  Inv'
<1>1. Shaped(job[t]) /\ today \in Nat
  BY DEF Inv, TypeOK, Threadwise, Sound
<1>2. UNCHANGED <<facts, planOf, instance, memory, file, shown, outcome, today,
                  lifecycle, budget>>
  BY DEF Totals, mu, daemon, others
<1>3. DayGrows
  BY <1>1, <1>2, RollGrows DEF Totals
<1>4. Settled' /\ Mild
  BY <1>1, <1>2, <1>3, DaySettled
<1>5. PICK j \in JobSet :
        job' = [job EXCEPT ![t] = j] /\ j.pc = "reply" /\ j.op = job[t].op
          /\ j.plan = job[t].plan
  BY Going DEF Totals, Places
<1>6. Shaped(j) /\ ~Locked(j)
  BY <1>1, <1>5 DEF Shaped, Locked
<1> QED BY <1>2, <1>4, <1>5, <1>6, Other

LEMMA TickKeeps ==
  ASSUME Inv, Tick
  PROVE  Inv'
<1>1. PICK j \in JobSet : j = [NoJob EXCEPT !.op = "tick", !.pc = "count"]
  <2>1. "count" \in Places
    BY DEF Places
  <2> HIDE DEF NoJob
  <2> QED BY <2>1, Nothing DEF JobSet
<1>2. j.op = "tick" /\ j.pc = "count" /\ j.total = 0
  BY <1>1 DEF NoJob
<1>3. Shaped(j) /\ ~Locked(j)
  BY <1>2 DEF Shaped, Locked, WithPlan, Starting
<1>4. Steady /\ UNCHANGED lifecycle
  BY DEF Tick, Steady, mu, daemon, traffic, others
<1>5. Settled'
  BY <1>4, SettledStays, InvIsSettled
<1>6. Mild
  BY <1>4 DEF Steady, Mild, SameSession, DayKeeps, Inv, TypeOK
<1>7. Ticker \in Threads /\ job' = [job EXCEPT ![Ticker] = j]
  BY <1>1 DEF Tick, Threads
<1> QED BY <1>3, <1>4, <1>5, <1>6, <1>7, Other

-----------------------------------------------------------------------------
(* What comes at any moment.                                                *)

(* A step of no thread: the clock, the session's traffic, a guard at work.  *)
LEMMA NoThread ==
  ASSUME Inv, UNCHANGED <<job, lifecycle>>, Mild, Settled'
  PROVE  Inv'
<1>1. TypeOK'
  BY DEF Inv, TypeOK, Settled
<1> QED BY <1>1, NoThreadStep DEF Inv, Settled

LEMMA MidnightKeeps ==
  ASSUME Inv, Midnight
  PROVE  Inv'
<1>1. UNCHANGED <<facts, planOf, instance, memory, day, file, due, shown, outcome,
                  job, lifecycle>>
  BY DEF Midnight, mu, daemon, others
<1>2. today' \in Nat
  BY DEF Midnight, Inv, TypeOK
<1>3. "plans" \in DOMAIN budget' /\ budget'.plans \in {s.plans : s \in Scenarios}
  BY Spending DEF Midnight, Inv
<1>4. Settled'
  BY <1>1, <1>2, <1>3, InvIsSettled DEF Settled, DayInv, ServedInv, Served, ShownInv
<1>5. Mild
  BY <1>1 DEF Mild, SameSession, DayKeeps, Inv, TypeOK
<1> QED BY <1>1, <1>4, <1>5, NoThread

(* What is carried after the last look slips by; before it, the holder of   *)
(* the lock knows nothing of the total yet.                                 *)
LEMMA CarryKeeps ==
  ASSUME Inv, Carry
  PROVE  Inv'
<1>1. UNCHANGED <<facts, planOf, memory, day, file, today, shown, outcome, job, lifecycle>>
  BY DEF Carry, mu, others
<1>2. instance \in Instances /\ instance' = [instance EXCEPT !.total = @ + 1]
  BY DEF Carry, Inv, TypeOK
<1>3. /\ instance' \in Instances
      /\ instance'.open = instance.open /\ instance'.session = instance.session
      /\ instance'.plan = instance.plan /\ instance'.choice = instance.choice
      /\ instance'.touched = instance.touched
      /\ instance.total \in Nat /\ instance'.total = instance.total + 1
  BY <1>2 DEF Instances
<1>4. instance # None /\ instance' # None
  BY <1>2, <1>3, EngineAssumption
<1>5. "plans" \in DOMAIN budget' /\ budget'.plans \in {s.plans : s \in Scenarios}
  BY Spending DEF Carry, Inv
<1>6. ServedInv'
  BY <1>1, <1>3, <1>4 DEF Inv, ServedInv, Served
<1>7. PICK slipped :
        slipped = IF due.owed /\ LookedLast THEN due.slipped + 1 ELSE due.slipped
  OBVIOUS
<1>8. /\ day \in [date : Nat, up : Nat, last : Nat, dirty : BOOLEAN]
      /\ due \in [sum : Nat, slipped : Nat, whole : BOOLEAN, owed : BOOLEAN]
      /\ DayInv
  BY DEF Inv, TypeOK
<1>9. /\ due' \in [sum : Nat, slipped : Nat, whole : BOOLEAN, owed : BOOLEAN]
      /\ due'.sum = due.sum /\ due'.whole = due.whole /\ due'.owed = due.owed
      /\ due'.slipped = slipped /\ slipped \in Nat /\ slipped >= due.slipped
  <2>1. due' = [due EXCEPT !.slipped = slipped]
    BY <1>7 DEF Carry
  <2>2. slipped \in Nat /\ slipped >= due.slipped
    BY <1>7, <1>8
  <2> QED BY <1>8, <2>1, <2>2
<1>10. DayInv'
  BY <1>1, <1>4, <1>8, <1>9 DEF DayInv
<1>11. Settled'
  BY <1>1, <1>3, <1>5, <1>6, <1>9, <1>10, InvIsSettled DEF Settled, ShownInv
<1>12. ASSUME NEW u \in Threads, Locked(job[u])
       PROVE  Counted(job[u], instance', day', due')
  <2>1. /\ lifecycle = u /\ Counted(job[u], instance, day, due) /\ job[u].total \in Nat
    BY <1>12 DEF Inv, TypeOK, JobSet, Threadwise, Sound
  <2>2. CASE ~due.owed
    BY <1>9, <2>2 DEF Counted
  <2>3. CASE due.owed /\ LookedLast
    <3>1. slipped = due.slipped + 1
      BY <1>7, <2>3
    <3>2. due'.slipped = due.slipped + 1 /\ due'.sum = due.sum /\ day' = day
      BY <1>1, <1>9, <3>1
    <3> QED BY <1>3, <1>8, <2>1, <2>3, <3>2 DEF Counted
  <2>4. CASE due.owed /\ ~LookedLast
    <3>1. u # None /\ Shaped(job[u])
      BY EngineAssumption DEF Inv, Threadwise, Sound
    <3>2. /\ job[u].pc \notin {"sample", "closing", "offset", "announce"}
          /\ ~(job[u].pc \in {"ended", "swap"} /\ job[u].op \in Starting)
      BY <2>1, <2>4, <3>1 DEF LookedLast, Shaped
    <3> QED BY <3>2 DEF Counted
  <2> QED BY <2>2, <2>3, <2>4
<1>13. Threadwise'
  <2>1. SameSession
    BY <1>1, <1>3, <1>4 DEF SameSession
  <2> SUFFICES ASSUME NEW u \in Threads
               PROVE  Sound(u)'
    BY DEF Threadwise
  <2>2. job'[u] = job[u] /\ job[u] \in JobSet /\ Sound(u)
    BY <1>1 DEF Inv, TypeOK, Threadwise
  <2> QED BY <1>1, <1>12, <2>1, <2>2, HeldStays DEF Sound
<1>14. job' \in [Threads -> JobSet]
  BY <1>1 DEF Inv, TypeOK
<1> QED BY <1>11, <1>13, <1>14 DEF Inv, Settled, TypeOK

(* A kill leaves what the file has, and of that the file has enough.        *)
LEMMA RestartKeeps ==
  ASSUME Inv, Restart
  PROVE  Inv'
<1>1. /\ file \in [date : Nat, up : Nat, due : Nat, slipped : Nat] /\ DayInv
  BY DEF Inv, TypeOK
<1>2. day' = [date |-> file.date, up |-> file.up, last |-> 0, dirty |-> FALSE]
  BY DEF Restart, Loaded, NoDay
<1>3. UNCHANGED <<planOf, memory, file, today>>
  BY DEF Restart
<1>4. /\ day' \in [date : Nat, up : Nat, last : Nat, dirty : BOOLEAN]
      /\ due' \in [sum : Nat, slipped : Nat, whole : BOOLEAN, owed : BOOLEAN]
      /\ DayInv'
  <2>1. due' = [sum |-> file.due, slipped |-> file.slipped, whole |-> TRUE, owed |-> FALSE]
    BY DEF Restart, NoDue
  <2> QED BY <1>1, <1>2, <1>3, <2>1 DEF DayInv
<1>5. Stopped \in FactsSet /\ Stopped.state = "stopped"
  BY DEF Stopped, FactsSet, States
<1>6. [Stopped EXCEPT !.state = None] \in FactsSet /\ None \in States
  BY <1>5 DEF FactsSet, States
<1>7. facts' = Stopped /\ shown' = [Stopped EXCEPT !.state = None]
  BY DEF Restart
<1>8. ServedInv'
  BY <1>5, <1>7 DEF ServedInv
<1>9. ShownInv'
  <2>1. shown'.session = 0 /\ shown'.listen = None /\ shown'.state = None
    BY <1>7 DEF Stopped
  <2> QED BY <2>1, EngineAssumption DEF ShownInv
<1>10. "plans" \in DOMAIN budget' /\ budget'.plans \in {s.plans : s \in Scenarios}
  BY Spending DEF Restart, Inv
<1>11. instance' = None /\ outcome' \in Seq({"pending", "done", "failed", None})
  BY DEF Restart
<1>12. Settled'
  BY <1>3, <1>4, <1>5, <1>6, <1>7, <1>8, <1>9, <1>10, <1>11, InvIsSettled DEF Settled
<1>13. job' \in [Threads -> JobSet] /\ \A t \in Threads : job'[t] = NoJob
  BY Nothing DEF Restart
<1>14. Shaped(NoJob) /\ ~Locked(NoJob)
  BY IdleIsShaped
<1>15. Threadwise'
  BY <1>13, <1>14 DEF Threadwise, Sound
<1> QED BY <1>12, <1>13, <1>15 DEF Inv, Settled, TypeOK

-----------------------------------------------------------------------------
(* Commands outside the lock.                                               *)

(* A command is taken up.                                                   *)
LEMMA CallKeeps ==
  ASSUME Inv, NEW t \in Callers, NEW op \in Lifecycle \cup Remembered \cup {"snapshot"},
         Call(t, op)
  PROVE  Inv'
<1>1. PICK plan \in IF op \in WithPlan THEN budget.plans[op] ELSE {None},
           session \in IF op \in WithSession THEN 1 .. Len(planOf) ELSE {0},
           choice \in IF op \in {"setMode", "select"} THEN Choices ELSE {None} :
        job' = [job EXCEPT ![t] =
                  [op |-> op, plan |-> plan, session |-> session, choice |-> choice,
                   pc |-> IF op \in Lifecycle THEN "lock"
                          ELSE IF op = "snapshot" THEN "look" ELSE "check",
                   request |-> IF op \in Remembered THEN Len(outcome) + 1 ELSE 0,
                   total |-> 0, result |-> None]]
  BY DEF Call
<1>2. (op \in WithPlan => plan \in Plans) /\ plan \in Plans \cup {None}
  BY <1>1 DEF Inv, TypeOK, Plans
<1>3. session \in Nat /\ choice \in Choices \cup {None}
  BY <1>1
<1>4. /\ outcome \in Seq({"pending", "done", "failed", None})
      /\ Len(outcome) + 1 \in Nat
  BY DEF Inv, TypeOK
<1>5. PICK request \in Nat : request = IF op \in Remembered THEN Len(outcome) + 1 ELSE 0
  BY <1>4
<1>6. PICK pc \in Places : pc = IF op \in Lifecycle THEN "lock"
                               ELSE IF op = "snapshot" THEN "look" ELSE "check"
  BY DEF Places
<1>7. PICK j : j = [op |-> op, pc |-> pc, plan |-> plan, session |-> session,
                    choice |-> choice, request |-> request, total |-> 0, result |-> None]
  OBVIOUS
<1>8. j \in JobSet
  BY <1>2, <1>3, <1>5, <1>6, <1>7 DEF JobSet, Results
<1>9. job' = [job EXCEPT ![t] = j]
  BY <1>1, <1>5, <1>6, <1>7
<1>10. j.pc = pc /\ j.op = op /\ j.plan = plan /\ j.total = 0 /\ j.choice = choice
  BY <1>7
<1>11. /\ pc \in {"lock", "look", "check"} /\ (pc = "lock" => op \in Lifecycle)
       /\ pc = "look" => op = "snapshot"
       /\ op \in {"setMode", "select"} => choice \in Choices
  BY <1>1, <1>6
<1>12. Shaped(j) /\ ~Locked(j)
  BY <1>2, <1>10, <1>11 DEF Shaped, Locked
<1>13. UNCHANGED <<facts, planOf, instance, memory, day, file, today, due, shown, lifecycle>>
  BY DEF Call, mu, daemon, traffic, others
<1>14. outcome' \in Seq({"pending", "done", "failed", None})
  <2>1. Append(outcome, "pending") \in Seq({"pending", "done", "failed", None})
    BY <1>4
  <2>2. outcome' = Append(outcome, "pending") \/ outcome' = outcome
    BY DEF Call
  <2> QED BY <1>4, <2>1, <2>2
<1>15. "plans" \in DOMAIN budget' /\ budget'.plans \in {s.plans : s \in Scenarios}
  <2>1. op # "plans"
    BY DEF Lifecycle, Starting, Remembered
  <2> QED BY <2>1, Spending DEF Call, Inv
<1>16. Settled'
  BY <1>13, <1>14, <1>15, InvIsSettled DEF Settled, DayInv, ServedInv, Served, ShownInv
<1>17. Mild
  BY <1>13 DEF Mild, SameSession, DayKeeps, Inv, TypeOK
<1>18. t \in Threads
  BY DEF Threads
<1> QED BY <1>8, <1>9, <1>12, <1>13, <1>16, <1>17, <1>18, Other

LEMMA RespondKeeps ==
  ASSUME Inv, NEW t \in Threads, Respond(t)
  PROVE  Inv'
<1>1. job' = [job EXCEPT ![t] = NoJob]
  BY DEF Respond
<1>2. UNCHANGED <<facts, planOf, instance, memory, day, file, today, due, shown, lifecycle,
                  budget>>
  BY DEF Respond, mu, daemon, traffic, others
<1>3. outcome' \in Seq({"pending", "done", "failed", None})
  <2>1. /\ outcome \in Seq({"pending", "done", "failed", None})
        /\ job[t].result \in {"done", "failed", None}
    BY DEF Inv, TypeOK, JobSet, Results
  <2> QED BY <2>1 DEF Respond
<1>4. Settled'
  BY <1>2, <1>3, InvIsSettled DEF Settled, DayInv, ServedInv, Served, ShownInv
<1>5. Mild
  BY <1>2 DEF Mild, SameSession, DayKeeps, Inv, TypeOK
<1> QED BY <1>1, <1>2, <1>4, <1>5, Nothing, IdleIsShaped, Other

(* What is shown was true of one session when it was looked at.             *)
LEMMA LookKeeps ==
  ASSUME Inv, NEW t \in Threads, Look(t)
  PROVE  Inv'
<1>1. /\ job[t].pc = "look" /\ Shaped(job[t]) /\ job[t].total = 0
      /\ facts \in FactsSet
  BY DEF Look, Inv, TypeOK, Threadwise, Sound, Shaped
<1>2. UNCHANGED <<facts, planOf, instance, memory, day, file, today, due, outcome, lifecycle,
                  budget>>
  BY DEF Look, mu, daemon, traffic
<1>3. PICK l : l = IF facts.state # "running" \/ instance = None
                   THEN None ELSE instance.plan
  OBVIOUS
<1>4. l \in Plans \cup {None}
  BY <1>3 DEF Inv, TypeOK, Instances
<1>5. shown' = [facts EXCEPT !.listen = l]
  BY <1>3 DEF Look
<1>6. /\ shown' \in FactsSet /\ shown'.state = facts.state
      /\ shown'.session = facts.session /\ shown'.hash = facts.hash /\ shown'.listen = l
  BY <1>1, <1>4, <1>5 DEF FactsSet
<1>7. ShownInv'
  BY <1>2, <1>3, <1>6 DEF Inv, ServedInv, Served, ShownInv
<1>8. Settled'
  BY <1>2, <1>6, <1>7, InvIsSettled DEF Settled, DayInv, ServedInv, Served
<1>9. PICK pc \in {"totals", "count"} : Go(t, pc)
  BY DEF Look
<1>10. PICK j \in JobSet :
         /\ job' = [job EXCEPT ![t] = j]
         /\ j.pc = pc /\ j.op = job[t].op /\ j.plan = job[t].plan
         /\ j.total = job[t].total
  BY <1>9, Going DEF Places
<1>11. job[t].op = "snapshot"
  BY <1>1 DEF Shaped
<1>12. Shaped(j) /\ ~Locked(j)
  BY <1>1, <1>9, <1>10, <1>11 DEF Shaped, Locked, WithPlan, Starting
<1>13. Mild
  BY <1>2 DEF Mild, SameSession, DayKeeps, Inv, TypeOK
<1> QED BY <1>2, <1>8, <1>10, <1>12, <1>13, Other

(* A command outside the lock that moves on, with nothing else changed.     *)
LEMMA OnlyGoOutside ==
  ASSUME Inv, NEW t \in Threads, NEW pc \in {"act", "get", "confirm"}, Go(t, pc),
         job[t].pc \in {"check", "act"}, Settled', Mild, UNCHANGED lifecycle
  PROVE  Inv'
<1>1. Shaped(job[t])
  BY DEF Inv, Threadwise, Sound
<1>2. PICK j \in JobSet :
        /\ job' = [job EXCEPT ![t] = j]
        /\ j.pc = pc /\ j.op = job[t].op /\ j.plan = job[t].plan
        /\ j.choice = job[t].choice
  BY Going DEF Places
<1>3. Shaped(j) /\ ~Locked(j)
  BY <1>1, <1>2 DEF Shaped, Locked
<1> QED BY <1>2, <1>3, Other

LEMMA CheckKeeps ==
  ASSUME Inv, NEW t \in Threads, Check(t)
  PROVE  Inv'
<1>1. Steady
  BY DEF Check, Steady, mu, daemon, traffic
<1>2. CASE Reply(t, "failed")
  BY <1>1, <1>2, OnlyReply DEF Results
<1>3. CASE /\ job[t].pc = "check" /\ UNCHANGED lifecycle
           /\ Go(t, "act") \/ Go(t, "get")
  <2>1. Settled'
    BY <1>1, SettledStays, InvIsSettled
  <2>2. Mild
    BY <1>1 DEF Steady, Mild, SameSession, DayKeeps, Inv, TypeOK
  <2> QED BY <1>3, <2>1, <2>2, OnlyGoOutside
<1> QED BY <1>2, <1>3 DEF Check

(* A choice is marked on the instance, whichever session it is.             *)
LEMMA ChooseKeeps ==
  ASSUME Inv, NEW t \in Threads, Choose(t)
  PROVE  Inv'
<1>1. UNCHANGED <<facts, planOf, day, file, today, due, shown, outcome, lifecycle>>
  BY DEF Choose, mu, traffic, others
<1>2. Go(t, "confirm") /\ job[t].pc = "act"
  BY DEF Choose
<1>3. CASE UNCHANGED <<instance, memory>>
  <2>1. Steady
    BY <1>1, <1>3 DEF Choose, Steady
  <2>2. Settled'
    BY <2>1, SettledStays, InvIsSettled
  <2>3. Mild
    BY <1>1, <1>3 DEF Mild, SameSession, DayKeeps, Inv, TypeOK
  <2> QED BY <1>1, <1>2, <2>2, <2>3, OnlyGoOutside
<1>4. CASE /\ instance # None
           /\ instance' = [instance EXCEPT !.choice = job[t].choice, !.touched = TRUE]
           /\ memory' = job[t].choice
           /\ UNCHANGED budget
  <2>1. instance \in Instances
    BY <1>4 DEF Inv, TypeOK
  <2>2. job[t].choice \in Choices
    BY DEF Choose, Inv, Threadwise, Sound, Shaped
  <2>3. /\ instance' \in Instances
        /\ instance'.open = instance.open /\ instance'.session = instance.session
        /\ instance'.plan = instance.plan /\ instance'.touched
        /\ instance'.total = instance.total
    BY <1>4, <2>1, <2>2 DEF Instances
  <2>4. instance' # None /\ memory' \in Choices \cup {None}
    BY <1>4, <2>2, <2>3, EngineAssumption
  <2>5. ServedInv'
    BY <1>1, <2>3, <2>4 DEF Inv, ServedInv, Served
  <2>6. Settled'
    BY <1>1, <1>4, <2>3, <2>4, <2>5, InvIsSettled DEF Settled, DayInv, ShownInv
  <2>7. Mild
    BY <1>1, <1>4, <2>3, <2>4 DEF Mild, SameSession, DayKeeps, Inv, TypeOK
  <2> QED BY <1>1, <1>2, <2>6, <2>7, OnlyGoOutside
<1> QED BY <1>3, <1>4 DEF Choose

LEMMA ConfirmKeeps ==
  ASSUME Inv, NEW t \in Threads, Confirm(t) \/ Use(t)
  PROVE  Inv'
<1>1. Steady
  BY DEF Confirm, Use, Steady, mu, daemon, traffic, others
<1>2. Reply(t, "done") \/ Reply(t, "failed")
  BY DEF Confirm, Use
<1> QED BY <1>1, <1>2, OnlyReply DEF Results

LEMMA FetchedKeeps ==
  ASSUME Inv, NEW t \in Threads, Fetched(t)
  PROVE  Inv'
<1>1. Steady
  BY DEF Fetched, Steady, mu, daemon, traffic, others
<1>2. get.pc \in Results /\ Reply(t, get.pc)
  BY DEF Fetched, Results
<1> QED BY <1>1, <1>2, OnlyReply

(* The guards at work, the log, and a step that changes nothing.            *)
LEMMA BesideKeeps ==
  ASSUME Inv,
         \/ PreparePlan
         \/ AddLog
         \/ \E t \in Threads : Fetch(t)
         \/ UNCHANGED vars
  PROVE  Inv'
<1>1. Steady /\ UNCHANGED <<job, lifecycle>>
  BY DEF PreparePlan, AddLog, Fetch, vars, Steady, mu, daemon, traffic, others
<1>2. Settled'
  BY <1>1, SettledStays, InvIsSettled
<1>3. Mild
  BY <1>1 DEF Steady, Mild, SameSession, DayKeeps, Inv, TypeOK
<1> QED BY <1>1, <1>2, <1>3, NoThread

-----------------------------------------------------------------------------
(* The invariant.                                                           *)

LEMMA InitKeeps ==
  ASSUME Init
  PROVE  Inv
<1>1. day = NoDay /\ file = NoFile /\ due = NoDue /\ today = 1
  BY DEF Init
<1>2. /\ day \in [date : Nat, up : Nat, last : Nat, dirty : BOOLEAN]
      /\ file \in [date : Nat, up : Nat, due : Nat, slipped : Nat]
      /\ due \in [sum : Nat, slipped : Nat, whole : BOOLEAN, owed : BOOLEAN]
      /\ today \in Nat
      /\ DayInv
  BY <1>1 DEF NoDay, NoFile, NoDue, DayInv
<1>3. Stopped \in FactsSet /\ Stopped.state = "stopped"
  BY DEF Stopped, FactsSet, States
<1>4. [Stopped EXCEPT !.state = None] \in FactsSet
  BY <1>3 DEF FactsSet, States
<1>5. facts = Stopped /\ shown = [Stopped EXCEPT !.state = None]
  BY DEF Init
<1>6. ServedInv
  BY <1>3, <1>5 DEF ServedInv
<1>7. ShownInv
  <2>1. shown.state = None
    BY <1>5 DEF Stopped
  <2> QED BY <2>1, EngineAssumption DEF ShownInv
<1>8. "plans" \in DOMAIN budget /\ budget.plans \in {s.plans : s \in Scenarios}
  BY EngineAssumption DEF Init
<1>9. planOf \in Seq(Plans) /\ outcome \in Seq({"pending", "done", "failed", None})
  <2>1. <<>> \in Seq(Plans) /\ <<>> \in Seq({"pending", "done", "failed", None})
    OBVIOUS
  <2> QED BY <2>1 DEF Init
<1>10. instance = None /\ memory = None
  BY DEF Init
<1>11. Settled
  BY <1>2, <1>3, <1>4, <1>5, <1>6, <1>7, <1>8, <1>9, <1>10 DEF Settled
<1>12. job \in [Threads -> JobSet] /\ \A t \in Threads : job[t] = NoJob
  BY Nothing DEF Init
<1>13. Threadwise
  BY <1>12, IdleIsShaped DEF Threadwise, Sound
<1> QED BY <1>11, <1>12, <1>13, InvIsSettled

LEMMA StepKeeps ==
  ASSUME Inv, [Next]_vars
  PROVE  Inv'
<1>1. ASSUME NEW t \in Threads, LifecycleStep(t)
      PROVE  Inv'
  BY <1>1, EnterKeeps, PreparedKeeps, AnnounceKeeps, SwapKeeps, ReplaceKeeps,
     StartFailsKeeps, ApplyChoicesKeeps, PublishKeeps, ProbedKeeps, CloseServiceKeeps,
     EndsKeep, CancelKeeps
     DEF LifecycleStep
<1>2. ASSUME NEW t \in Threads, TrafficStep(t)
      PROVE  Inv'
  BY <1>2, CountKeeps, SampleKeeps, EndedKeeps, OffsetKeeps, SaveKeeps, TotalsKeeps
     DEF TrafficStep
<1>3. ASSUME NEW t \in Threads, QueryStep(t)
      PROVE  Inv'
  BY <1>3, RespondKeeps, LookKeeps, CheckKeeps, ChooseKeeps, ConfirmKeeps, BesideKeeps,
     FetchedKeeps
     DEF QueryStep
<1>4. ASSUME NEW t \in Callers,
             NEW op \in Lifecycle \cup Remembered \cup {"snapshot"}, Call(t, op)
      PROVE  Inv'
  BY <1>4, CallKeeps
<1>5. CASE PreparePlan \/ AddLog \/ AtRest \/ UNCHANGED vars
  BY <1>5, BesideKeeps DEF AtRest
<1>6. CASE Tick
  BY <1>6, TickKeeps
<1>7. CASE Midnight
  BY <1>7, MidnightKeeps
<1>8. CASE Carry
  BY <1>8, CarryKeeps
<1>9. CASE Restart
  BY <1>9, RestartKeeps
<1> QED BY <1>1, <1>2, <1>3, <1>4, <1>5, <1>6, <1>7, <1>8, <1>9 DEF Next

LEMMA Inductive == Spec => []Inv
<1>1. Init => Inv
  BY InitKeeps
<1>2. Inv /\ [Next]_vars => Inv'
  BY StepKeeps
<1> QED BY <1>1, <1>2, PTL DEF Spec

-----------------------------------------------------------------------------
(* What is kept in bounded memory.                                          *)

(* How many of the outcomes are no longer kept.                             *)
Forgotten(made) == IF made > CacheSize THEN made - CacheSize ELSE 0

(* The cache that keeps the last outcomes of s, oldest first.               *)
Newest(s) ==
  [order   |-> [i \in 1 .. (Len(s) - Forgotten(Len(s))) |-> Forgotten(Len(s)) + i],
   entries |-> [r \in (Forgotten(Len(s)) + 1) .. Len(s) |-> s[r]]]

ResultsKept ==
  /\ cache = Newest(outcome)
  /\ \A t \in Threads : job[t].request <= Len(outcome)

(* The slot of the ring where the line k after the oldest one stands.       *)
Slot(start, count, k) ==
  IF start + k < count THEN start + k + 1 ELSE start + k + 1 - count

LinesKept ==
  LET count == Len(logs.entries) IN
  /\ logs.nextSeq \in Nat \ {0}
  /\ logs.start \in 0 .. LogSize - 1
  /\ logs.entries \in Seq(Nat)
  /\ count = IF logs.nextSeq <= LogSize THEN logs.nextSeq - 1 ELSE LogSize
  /\ count < LogSize => logs.start = 0
  /\ \A k \in 0 .. count - 1 :
       logs.entries[Slot(logs.start, count, k)] = logs.nextSeq - count + k

(* No command changes its request on the way.                               *)
StillAsked == \A u \in Threads : job'[u].request \in {0, job[u].request}

(* While nothing is remembered anew, what is kept stays the newest.         *)
LEMMA RequestsStand ==
  ASSUME TypeOK, UNCHANGED <<cache, outcome>>, ResultsKept, StillAsked
  PROVE  ResultsKept'
<1>1. Len(outcome) \in Nat
  BY DEF TypeOK
<1>2. \A t \in Threads : job'[t].request <= Len(outcome)
  BY <1>1 DEF ResultsKept, StillAsked
<1> QED BY <1>2 DEF ResultsKept

(* Whoever moves, it is enough that the one that moved keeps its request.   *)
LEMMA OneAsks ==
  ASSUME TypeOK, NEW t \in Threads, NEW j, job' = [job EXCEPT ![t] = j],
         j.request \in {0, job[t].request}
  PROVE  StillAsked
BY DEF TypeOK, StillAsked

(* The ways a thread moves on: to another place of its command, ...         *)
LEMMA GoingAsks ==
  ASSUME TypeOK, NEW t \in Threads, NEW pc, Go(t, pc)
  PROVE  StillAsked
<1>1. job[t] \in JobSet
  BY DEF TypeOK
<1>2. [job[t] EXCEPT !.pc = pc].request = job[t].request
  BY <1>1 DEF JobSet
<1> QED BY <1>2, OneAsks DEF Go

(* ... with a result, ...                                                   *)
LEMMA AnsweringAsks ==
  ASSUME TypeOK, NEW t \in Threads, NEW pc, NEW result,
         job' = [job EXCEPT ![t].pc = pc, ![t].result = result]
  PROVE  StillAsked
<1>1. job[t] \in JobSet
  BY DEF TypeOK
<1>2. [job[t] EXCEPT !.pc = pc, !.result = result].request = job[t].request
  BY <1>1 DEF JobSet
<1> QED BY <1>1, <1>2, OneAsks

(* ... to its answer, ...                                                   *)
LEMMA ReplyingAsks ==
  ASSUME TypeOK, NEW t \in Threads, NEW result, Reply(t, result)
  PROVE  StillAsked
BY AnsweringAsks DEF Reply

(* ... with the session's total, ...                                        *)
LEMMA CountingAsks ==
  ASSUME TypeOK, NEW t \in Threads, NEW total,
         job' = [job EXCEPT ![t].total = total, ![t].pc = "sample"]
  PROVE  StillAsked
<1>1. job[t] \in JobSet
  BY DEF TypeOK
<1>2. [job[t] EXCEPT !.total = total, !.pc = "sample"].request = job[t].request
  BY <1>1 DEF JobSet
<1> QED BY <1>1, <1>2, OneAsks

(* ... or away from it.                                                     *)
LEMMA IdlingAsks ==
  ASSUME TypeOK, NEW t \in Threads, job' = [job EXCEPT ![t] = NoJob]
  PROVE  StillAsked
BY OneAsks DEF NoJob

(* A step of nobody.                                                        *)
LEMMA StayingAsks ==
  ASSUME UNCHANGED job
  PROVE  StillAsked
BY DEF StillAsked

(* A thread at work on a command touches neither of the two memories.       *)
LEMMA WorkStands ==
  ASSUME TypeOK, NEW t \in Threads,
         LifecycleStep(t) \/ TrafficStep(t) \/ (QueryStep(t) /\ ~Respond(t))
  PROVE  /\ UNCHANGED <<cache, outcome, logs>>
         /\ StillAsked
<1>1. CASE LifecycleStep(t)
  <2>1. UNCHANGED <<cache, outcome, logs>>
    BY <1>1 DEF LifecycleStep, Enter, Prepared, Announce, Swap, Replace, StartFails,
       ApplyChoices, Publish, Probed, CloseService, StopEnds, Cancel, CloseEnds, others
  <2>2. CASE Enter(t)
    BY <2>1, <2>2, GoingAsks, ReplyingAsks, StayingAsks DEF Enter
  <2>3. CASE Prepared(t)
    BY <2>1, <2>3, GoingAsks, ReplyingAsks, StayingAsks DEF Prepared
  <2>4. CASE Announce(t) \/ Swap(t) \/ Replace(t) \/ ApplyChoices(t) \/ Cancel(t)
    BY <2>1, <2>4, GoingAsks, ReplyingAsks, StayingAsks DEF Announce, Swap, Replace, ApplyChoices, Cancel
  <2>5. CASE StartFails(t) \/ Publish(t) \/ Probed(t) \/ StopEnds(t) \/ CloseEnds(t)
    BY <2>1, <2>5, GoingAsks, ReplyingAsks, StayingAsks DEF StartFails, Publish, Probed, StopEnds, CloseEnds
  <2>6. CASE CloseService(t)
    BY <2>1, <2>6, AnsweringAsks DEF CloseService
  <2> QED BY <1>1, <2>1, <2>2, <2>3, <2>4, <2>5, <2>6 DEF LifecycleStep
<1>2. CASE TrafficStep(t)
  <2>1. UNCHANGED <<cache, outcome, logs>>
    BY <1>2 DEF TrafficStep, Count, Sample, Ended, Offset, Save, Totals, others
  <2>2. CASE Count(t)
    BY <2>1, <2>2, GoingAsks, CountingAsks DEF Count
  <2>3. CASE Sample(t) \/ Ended(t) \/ Offset(t) \/ Totals(t)
    BY <2>1, <2>3, GoingAsks, ReplyingAsks, StayingAsks DEF Sample, Ended, Offset, Totals
  <2>4. CASE Save(t)
    BY <2>1, <2>4, GoingAsks, IdlingAsks DEF Save, Go
  <2> QED BY <1>2, <2>1, <2>2, <2>3, <2>4 DEF TrafficStep
<1>3. CASE QueryStep(t) /\ ~Respond(t)
  <2>1. UNCHANGED <<cache, outcome, logs>>
    BY <1>3 DEF QueryStep, Look, Check, Choose, Confirm, Use, Fetch, Fetched, others
  <2>2. CASE Look(t) \/ Choose(t)
    BY <2>1, <2>2, GoingAsks, ReplyingAsks, StayingAsks DEF Look, Choose
  <2>3. CASE Check(t)
    BY <2>1, <2>3, GoingAsks, ReplyingAsks, StayingAsks DEF Check
  <2>4. CASE Confirm(t) \/ Use(t) \/ Fetched(t) \/ Fetch(t)
    BY <2>1, <2>4, GoingAsks, ReplyingAsks, StayingAsks DEF Confirm, Use, Fetched, Fetch
  <2> QED BY <1>3, <2>1, <2>2, <2>3, <2>4 DEF QueryStep
<1> QED BY <1>1, <1>2, <1>3

(* So does what comes at any moment, but for the log and a kill.            *)
LEMMA EventStands ==
  ASSUME TypeOK, PreparePlan \/ Tick \/ Midnight \/ Carry \/ AddLog \/ UNCHANGED vars
  PROVE  /\ UNCHANGED <<cache, outcome>>
         /\ ~AddLog => UNCHANGED logs
         /\ StillAsked
<1>1. UNCHANGED <<cache, outcome>> /\ (~AddLog => UNCHANGED logs)
  BY DEF PreparePlan, Tick, Midnight, Carry, AddLog, vars, others
<1>2. CASE Tick
  BY <1>1, <1>2, OneAsks DEF Tick, NoJob, Threads
<1>3. CASE ~Tick
  <2>1. UNCHANGED job
    BY <1>3 DEF PreparePlan, Midnight, Carry, AddLog, vars
  <2> QED BY <1>1, <2>1, StayingAsks
<1> QED BY <1>1, <1>2, <1>3

(* A command is remembered as pending, and the oldest one may go.           *)
LEMMA BegunIsNewest ==
  ASSUME cache = Newest(outcome), NEW S, outcome \in Seq(S)
  PROVE  Begun(Len(outcome) + 1) = Newest(Append(outcome, "pending"))
<1>1. PICK n \in Nat : n = Len(outcome)
  OBVIOUS
<1>a. CacheSize \in Nat /\ CacheSize > 0 /\ n + 1 \in Nat
  BY EngineAssumption
<1>b. PICK f : f = Forgotten(n)
  OBVIOUS
<1>c. PICK g : g = Forgotten(n + 1)
  OBVIOUS
<1>d. PICK order : order = Append(cache.order, n + 1)
  OBVIOUS
<1>e. PICK kept : kept = IF Len(order) > CacheSize THEN Tail(order) ELSE order
  OBVIOUS
<1>f. PICK more : more = Append(outcome, "pending")
  OBVIOUS
<1>g. cache = [order |-> [i \in 1 .. (n - f) |-> f + i],
               entries |-> [r \in (f + 1) .. n |-> outcome[r]]]
  BY <1>1, <1>b DEF Newest
<1>h. Begun(n + 1) =
        [order   |-> kept,
         entries |-> [r \in Elements(kept) |->
                        IF r = n + 1 THEN "pending" ELSE cache.entries[r]]]
  BY <1>d, <1>e DEF Begun
<1>8. /\ more \in Seq(S \cup {"pending"}) /\ Len(more) = n + 1
      /\ more[n + 1] = "pending" /\ \A r \in 1 .. n : more[r] = outcome[r]
  BY <1>1, <1>f
<1>j. /\ n > CacheSize => f = n - CacheSize
      /\ n <= CacheSize => f = 0
      /\ n + 1 > CacheSize => g = n + 1 - CacheSize
      /\ n + 1 <= CacheSize => g = 0
  BY <1>a, <1>b, <1>c DEF Forgotten
<1>2. f \in Nat /\ f <= n /\ g \in Nat /\ g <= n /\ n - f <= CacheSize
  BY <1>a, <1>j
<1>i. Newest(more) = [order |-> [i \in 1 .. (n + 1 - g) |-> g + i],
                      entries |-> [r \in (g + 1) .. (n + 1) |-> more[r]]]
  <2>1. Forgotten(Len(more)) = g
    BY <1>8, <1>c
  <2>2. PICK m : m = Len(more)
    OBVIOUS
  <2>3. Newest(more) = [order |-> [i \in 1 .. (m - g) |-> g + i],
                        entries |-> [r \in (g + 1) .. m |-> more[r]]]
    BY <2>1, <2>2 DEF Newest
  <2>4. m = n + 1
    BY <1>8, <2>2
  <2>5. [i \in 1 .. (m - g) |-> g + i] = [i \in 1 .. (n + 1 - g) |-> g + i]
    BY <1>2, <2>4
  <2>6. [r \in (g + 1) .. m |-> more[r]] = [r \in (g + 1) .. (n + 1) |-> more[r]]
    BY <2>4
  <2> QED BY <2>3, <2>5, <2>6
<1>3. cache.order = [i \in 1 .. (n - f) |-> f + i]
  BY <1>g
<1>4. /\ cache.order \in Seq(Nat) /\ Len(cache.order) = n - f
      /\ \A i \in 1 .. (n - f) : cache.order[i] = f + i
  <2>1. \A i \in 1 .. (n - f) : f + i \in Nat
    BY <1>2
  <2> QED BY <1>1, <1>2, <1>3, <2>1
<1>5. /\ order \in Seq(Nat) /\ Len(order) = n - f + 1
      /\ \A i \in 1 .. (n - f + 1) : order[i] = f + i
  <2>1. order \in Seq(Nat) /\ Len(order) = n - f + 1
    BY <1>a, <1>4, <1>d
  <2>2. \A i \in 1 .. (n - f) : order[i] = f + i
    BY <1>1, <1>2, <1>4, <1>d
  <2>3. order[n - f + 1] = n + 1
    BY <1>a, <1>4, <1>d
  <2> QED BY <1>1, <1>2, <2>1, <2>2, <2>3
<1>6. /\ kept \in Seq(Nat) /\ Len(kept) = n + 1 - g
      /\ \A i \in 1 .. (n + 1 - g) : kept[i] = g + i
  <2>1. CASE Len(order) > CacheSize
    <3>1. n - f = CacheSize /\ g = f + 1
      BY <1>1, <1>2, <1>5, <2>1, <1>a, <1>j
    <3>2. kept = Tail(order)
      BY <2>1, <1>e
    <3>3. kept \in Seq(Nat) /\ Len(kept) = n - f
      BY <1>1, <1>2, <1>5, <3>2
    <3>4. \A i \in 1 .. (n - f) : kept[i] = order[i + 1]
      BY <1>1, <1>2, <1>5, <3>2
    <3>5. n + 1 - g = n - f
      BY <1>1, <1>2, <3>1
    <3>6. \A i \in 1 .. (n - f) : order[i + 1] = g + i
      BY <1>1, <1>2, <1>5, <3>1
    <3> QED BY <3>3, <3>4, <3>5, <3>6
  <2>2. CASE ~(Len(order) > CacheSize)
    <3>1. f = 0 /\ g = 0
      BY <1>1, <1>2, <1>5, <2>2, <1>a, <1>j
    <3> QED BY <1>1, <1>5, <1>e, <2>2, <3>1
  <2> QED BY <2>1, <2>2
<1>7. Elements(kept) = (g + 1) .. (n + 1)
  <2>1. DOMAIN kept = 1 .. (n + 1 - g)
    BY <1>6
  <2>2. Elements(kept) \subseteq (g + 1) .. (n + 1)
    BY <1>1, <1>2, <1>6, <2>1 DEF Elements
  <2>3. ASSUME NEW r \in (g + 1) .. (n + 1)
        PROVE  r \in Elements(kept)
    <3>1. r - g \in 1 .. (n + 1 - g) /\ kept[r - g] = r
      BY <1>1, <1>2, <1>6
    <3> QED BY <2>1, <3>1 DEF Elements
  <2> QED BY <2>2, <2>3
<1>9. kept = [i \in 1 .. (n + 1 - g) |-> g + i]
  <2>1. kept = [i \in 1 .. (n + 1 - g) |-> kept[i]]
    BY <1>6
  <2> QED BY <1>6, <2>1
<1>10. ASSUME NEW r \in (g + 1) .. (n + 1)
       PROVE  (IF r = n + 1 THEN "pending" ELSE cache.entries[r]) = more[r]
  <2>1. CASE r = n + 1
    BY <1>1, <1>8, <2>1
  <2>2. CASE r # n + 1
    <3>1. f <= g
      BY <1>a, <1>j
    <3>2. r \in (f + 1) .. n /\ r \in 1 .. n
      BY <1>1, <1>2, <2>2, <3>1
    <3>3. cache.entries = [k \in (f + 1) .. n |-> outcome[k]]
      BY <1>g
    <3>4. cache.entries[r] = outcome[r]
      BY <3>2, <3>3
    <3>5. more[r] = outcome[r]
      BY <1>8, <3>2
    <3> QED BY <2>2, <3>4, <3>5
  <2> QED BY <2>1, <2>2
<1>11. [r \in Elements(kept) |-> IF r = n + 1 THEN "pending" ELSE cache.entries[r]]
         = [r \in (g + 1) .. (n + 1) |-> more[r]]
  BY <1>7, <1>10
<1>12. Begun(n + 1) = Newest(more)
  BY <1>9, <1>11, <1>h, <1>i
<1> QED BY <1>1, <1>12, <1>f

(* An outcome replaces the pending one where it is still kept.              *)
LEMMA FinishedIsNewest ==
  ASSUME cache = Newest(outcome), NEW S, outcome \in Seq(S),
         NEW request \in 1 .. Len(outcome), NEW result
  PROVE  Finished(request, result) = Newest([outcome EXCEPT ![request] = result])
<1> DEFINE n == Len(outcome)
           f == Forgotten(n)
           more == [outcome EXCEPT ![request] = result]
<1>1. n \in Nat /\ CacheSize \in Nat /\ CacheSize > 0
  BY EngineAssumption
<1>2. f \in Nat
  BY <1>1 DEF Forgotten
<1>3. more \in Seq(S \cup {result}) /\ Len(more) = n
  BY <1>1
<1>4. /\ DOMAIN more = 1 .. n
      /\ \A r \in 1 .. n : more[r] = IF r = request THEN result ELSE outcome[r]
  BY <1>1
<1>d. Newest(outcome) = [order |-> [i \in 1 .. (n - f) |-> f + i],
                         entries |-> [r \in (f + 1) .. n |-> outcome[r]]]
  BY DEF Newest
<1>e. Newest(more) = [order |-> [i \in 1 .. (n - f) |-> f + i],
                      entries |-> [r \in (f + 1) .. n |-> more[r]]]
  BY <1>3 DEF Newest
<1> HIDE DEF n, f, more
<1>5. cache = [order |-> cache.order, entries |-> [r \in (f + 1) .. n |-> outcome[r]]]
  BY <1>d
<1>6. Newest(more) = [order |-> cache.order, entries |-> [r \in (f + 1) .. n |-> more[r]]]
  BY <1>5, <1>d, <1>e
<1>7. \A r \in (f + 1) .. n : r \in 1 .. n
  BY <1>1, <1>2
<1>8. ASSUME request \in (f + 1) .. n
      PROVE  Finished(request, result) = Newest(more)
  <2>1. [r \in (f + 1) .. n |-> more[r]]
          = [[r \in (f + 1) .. n |-> outcome[r]] EXCEPT ![request] = result]
    BY <1>4, <1>7, <1>8
  <2>2. request \in DOMAIN cache.entries
    <3>1. DOMAIN cache.entries = (f + 1) .. n
      BY <1>5
    <3> QED BY <1>8, <3>1
  <2>3. Finished(request, result) = [cache EXCEPT !.entries[request] = result]
    BY <2>2 DEF Finished
  <2>4. [cache EXCEPT !.entries[request] = result]
          = [order |-> cache.order, entries |-> [cache.entries EXCEPT ![request] = result]]
    BY <1>5
  <2>5. cache.entries = [r \in (f + 1) .. n |-> outcome[r]]
    BY <1>5
  <2> QED BY <1>6, <2>1, <2>3, <2>4, <2>5
<1>9. ASSUME request \notin (f + 1) .. n
      PROVE  Finished(request, result) = Newest(more)
  <2>1. [r \in (f + 1) .. n |-> more[r]] = [r \in (f + 1) .. n |-> outcome[r]]
    BY <1>4, <1>7, <1>9
  <2>2. request \notin DOMAIN cache.entries
    <3>1. DOMAIN cache.entries = (f + 1) .. n
      BY <1>5
    <3> QED BY <1>9, <3>1
  <2> QED BY <1>5, <1>6, <2>1, <2>2 DEF Finished
<1>10. Finished(request, result) = Newest(more)
  BY <1>8, <1>9
<1> QED BY <1>10 DEF more

(* A command that is taken up is remembered as the newest one.              *)
LEMMA CallRemembers ==
  ASSUME TypeOK, ResultsKept, NEW t \in Callers,
         NEW op \in Lifecycle \cup Remembered \cup {"snapshot"}, Call(t, op)
  PROVE  ResultsKept' /\ UNCHANGED logs
<1>1. /\ outcome \in Seq({"pending", "done", "failed", None}) /\ Len(outcome) \in Nat
      /\ job \in [Threads -> JobSet] /\ t \in Threads /\ UNCHANGED logs
  BY DEF TypeOK, Threads, Call, others
<1>2. PICK n \in Nat : n = Len(outcome)
  BY <1>1
<1>3. PICK j : /\ job' = [job EXCEPT ![t] = j]
               /\ j.request = IF op \in Remembered THEN n + 1 ELSE 0
  <2>1. PICK request : request = IF op \in Remembered THEN n + 1 ELSE 0
    OBVIOUS
  <2>2. PICK plan \in IF op \in WithPlan THEN budget.plans[op] ELSE {None},
             session \in IF op \in WithSession THEN 1 .. Len(planOf) ELSE {0},
             choice \in IF op \in {"setMode", "select"} THEN Choices ELSE {None} :
          job' = [job EXCEPT ![t] =
                    [op |-> op, plan |-> plan, session |-> session, choice |-> choice,
                     pc |-> IF op \in Lifecycle THEN "lock"
                            ELSE IF op = "snapshot" THEN "look" ELSE "check",
                     request |-> IF op \in Remembered THEN Len(outcome) + 1 ELSE 0,
                     total |-> 0, result |-> None]]
    BY DEF Call
  <2>3. PICK pc : pc = IF op \in Lifecycle THEN "lock"
                       ELSE IF op = "snapshot" THEN "look" ELSE "check"
    OBVIOUS
  <2>4. PICK j : j = [op |-> op, pc |-> pc, plan |-> plan, session |-> session,
                      choice |-> choice, request |-> request, total |-> 0, result |-> None]
    OBVIOUS
  <2>5. job' = [job EXCEPT ![t] = j]
    BY <1>2, <2>1, <2>2, <2>3, <2>4
  <2>6. j.request = request
    BY <2>4
  <2> QED BY <2>1, <2>5, <2>6
<1>4. \A u \in Threads : /\ \/ job'[u].request \in {0, job[u].request}
                            \/ op \in Remembered /\ job'[u].request = n + 1
                         /\ job[u].request \in Nat /\ job[u].request <= n
  <2>1. \A u \in Threads : job[u].request \in Nat /\ job[u].request <= n
    BY <1>1, <1>2 DEF ResultsKept, JobSet
  <2> QED BY <1>1, <1>3, <2>1
<1>5. CASE op \in Remembered
  <2>1. cache' = Begun(n + 1) /\ outcome' = Append(outcome, "pending")
    BY <1>2, <1>5 DEF Call
  <2>2. Len(outcome') = n + 1
    BY <1>1, <1>2, <2>1
  <2>3. cache' = Newest(Append(outcome, "pending"))
    BY <1>1, <1>2, <2>1, BegunIsNewest DEF ResultsKept
  <2>4. \A u \in Threads : job'[u].request <= n + 1
    BY <1>2, <1>4
  <2> QED BY <1>1, <2>1, <2>2, <2>3, <2>4 DEF ResultsKept
<1>6. CASE op \notin Remembered
  <2>1. UNCHANGED <<cache, outcome>>
    BY <1>6 DEF Call
  <2>2. \A u \in Threads : job'[u].request <= n
    BY <1>2, <1>4, <1>6
  <2> QED BY <1>1, <1>2, <2>1, <2>2 DEF ResultsKept
<1> QED BY <1>5, <1>6

(* An answer is remembered with its command.                                *)
LEMMA RespondRemembers ==
  ASSUME TypeOK, ResultsKept, NEW t \in Threads, Respond(t)
  PROVE  ResultsKept' /\ UNCHANGED logs
<1>1. /\ outcome \in Seq({"pending", "done", "failed", None}) /\ Len(outcome) \in Nat
      /\ job[t] \in JobSet /\ UNCHANGED logs
  BY DEF TypeOK, Respond, others
<1>2. StillAsked
  BY IdlingAsks DEF Respond
<1>3. CASE job[t].request = 0
  <2>1. UNCHANGED <<cache, outcome>>
    BY <1>3 DEF Respond
  <2> QED BY <1>1, <1>2, <2>1, RequestsStand
<1>4. CASE job[t].request # 0
  <2>1. PICK r : r = job[t].request
    OBVIOUS
  <2>2. r \in 1 .. Len(outcome)
    BY <1>1, <1>4, <2>1 DEF ResultsKept, JobSet
  <2>3. cache' = Finished(r, job[t].result) /\ outcome' = [outcome EXCEPT ![r] = job[t].result]
    BY <1>4, <2>1 DEF Respond
  <2>4. cache' = Newest([outcome EXCEPT ![r] = job[t].result])
    BY <1>1, <2>2, <2>3, FinishedIsNewest DEF ResultsKept
  <2>5. Len(outcome') = Len(outcome)
    BY <1>1, <2>2, <2>3
  <2>6. \A u \in Threads : job'[u].request <= Len(outcome')
    BY <1>1, <1>2, <2>5 DEF ResultsKept, StillAsked
  <2> QED BY <1>1, <2>3, <2>4, <2>6 DEF ResultsKept
<1> QED BY <1>3, <1>4

(* The empty cache is the newest of nothing.                                *)
LEMMA NothingIsNewest ==
  ASSUME TRUE
  PROVE  Newest(<<>>) = [order |-> <<>>, entries |-> <<>>]
<1>1. Forgotten(0) = 0
  BY EngineAssumption DEF Forgotten
<1>2. Newest(<<>>) = [order |-> [i \in 1 .. 0 |-> 0 + i], entries |-> [r \in 1 .. 0 |-> <<>>[r]]]
  BY <1>1 DEF Newest
<1>3. [i \in 1 .. 0 |-> 0 + i] = <<>> /\ [r \in 1 .. 0 |-> <<>>[r]] = <<>>
  BY EmptySeq
<1> QED BY <1>2, <1>3

(* A kill forgets the commands with their outcomes.                         *)
LEMMA RestartRemembers ==
  ASSUME Restart
  PROVE  ResultsKept'
<1>1. cache' = Newest(outcome')
  BY NothingIsNewest DEF Restart
<1>2. \A t \in Threads : job'[t].request <= Len(outcome')
  BY DEF Restart, NoJob
<1> QED BY <1>1, <1>2 DEF ResultsKept

(* The slots of the ring are numbered round.                                *)
LEMMA RoundTheRing ==
  ASSUME NEW count \in Nat \ {0}, NEW d \in 0 .. 2 * count - 1
  PROVE  d % count = IF d < count THEN d ELSE d - count
OBVIOUS

(* A line takes the next slot: a free one at first, then the oldest one.    *)
LEMMA AddLogKeeps ==
  ASSUME LinesKept, AddLog
  PROVE  LinesKept'
<1>1. PICK e \in Seq(Nat), s \in Nat, q \in Nat :
        e = logs.entries /\ s = logs.start /\ q = logs.nextSeq
  BY EngineAssumption DEF LinesKept
<1>2. PICK count \in Nat : count = Len(e)
  OBVIOUS
<1>3. LogSize \in Nat /\ LogSize > 0
  BY EngineAssumption
<1>4. /\ q > 0 /\ s < LogSize /\ count <= LogSize
      /\ q <= LogSize => count = q - 1
      /\ q > LogSize => count = LogSize
      /\ count < LogSize => s = 0
  BY <1>1, <1>2, <1>3 DEF LinesKept
<1>a. \A k \in 0 .. count - 1 : e[Slot(s, count, k)] = q - count + k
  BY <1>1, <1>2 DEF LinesKept
<1>5. CASE count < LogSize
  <2>1. logs' = [entries |-> Append(e, q), start |-> 0, nextSeq |-> q + 1]
    BY <1>1, <1>2, <1>4, <1>5 DEF AddLog
  <2>2. q = count + 1
    BY <1>2, <1>3, <1>4, <1>5
  <2>3. PICK f : f = Append(e, q)
    OBVIOUS
  <2>4. /\ f \in Seq(Nat) /\ Len(f) = count + 1 /\ f[count + 1] = q
        /\ \A i \in 1 .. count : f[i] = e[i]
    BY <1>2, <2>3
  <2>5. \A k \in 0 .. count - 1 : e[k + 1] = k + 1
    <3> SUFFICES ASSUME NEW k \in 0 .. count - 1
                 PROVE  e[k + 1] = k + 1
      OBVIOUS
    <3>1. Slot(s, count, k) = k + 1
      BY <1>4, <1>5 DEF Slot
    <3>2. e[Slot(s, count, k)] = q - count + k
      BY <1>a
    <3> QED BY <2>2, <3>1, <3>2
  <2>6. \A k \in 0 .. count : f[Slot(0, count + 1, k)] = k + 1
    <3>1. \A k \in 0 .. count : Slot(0, count + 1, k) = k + 1
      BY DEF Slot
    <3> QED BY <2>2, <2>4, <2>5, <3>1
  <2>7. logs'.entries = f /\ logs'.start = 0 /\ logs'.nextSeq = q + 1
    BY <2>1, <2>3
  <2>8. \A k \in 0 .. count : q + 1 - (count + 1) + k = k + 1
    BY <2>2
  <2>9. \A k \in 0 .. (count + 1) - 1 : f[Slot(0, count + 1, k)] = q + 1 - (count + 1) + k
    <3>1. TAKE k \in 0 .. (count + 1) - 1
    <3>2. k \in 0 .. count
      OBVIOUS
    <3>3. f[Slot(0, count + 1, k)] = k + 1
      BY <2>6, <3>2
    <3>4. q + 1 - (count + 1) + k = k + 1
      BY <2>8, <3>2
    <3> QED BY <3>3, <3>4, Zenon
  <2>10. /\ logs'.nextSeq \in Nat \ {0}
         /\ logs'.start \in 0 .. LogSize - 1
         /\ logs'.entries \in Seq(Nat)
         /\ Len(logs'.entries) = count + 1
    BY <1>3, <2>4, <2>7
  <2>11. \A k \in 0 .. Len(logs'.entries) - 1 :
           logs'.entries[Slot(logs'.start, Len(logs'.entries), k)]
             = logs'.nextSeq - Len(logs'.entries) + k
    BY <2>7, <2>9, <2>10
  <2>12. Len(logs'.entries) = IF logs'.nextSeq <= LogSize THEN logs'.nextSeq - 1 ELSE LogSize
    BY <1>3, <1>5, <2>2, <2>7, <2>10
  <2>13. logs'.start = 0
    BY <2>7
  <2> QED BY <2>10, <2>11, <2>12, <2>13 DEF LinesKept
<1>6. CASE count = LogSize
  <2>1. PICK f : f = [e EXCEPT ![s + 1] = q]
    OBVIOUS
  <2>2. PICK r \in Nat : r = IF s + 1 = LogSize THEN 0 ELSE s + 1
    BY <1>3
  <2>3. (s + 1) % LogSize = r
    <3>0. LogSize \in Nat \ {0}
      BY <1>3
    <3>1. s + 1 \in 0 .. 2 * LogSize - 1
      BY <1>3, <1>4
    <3>2. (s + 1) % LogSize = r
      <4>1. PICK d \in 0 .. 2 * LogSize - 1 : d = s + 1
        BY <3>1
      <4>2. d % LogSize = IF d < LogSize THEN d ELSE d - LogSize
        BY <3>0, RoundTheRing
      <4>3. d % LogSize = r
        BY <1>3, <1>4, <2>2, <4>1, <4>2
      <4> QED BY <4>1, <4>3, Zenon
    <3> QED BY <3>2
  <2>4. logs' = [entries |-> f, start |-> r, nextSeq |-> q + 1]
    BY <1>1, <1>2, <1>6, <2>1, <2>3 DEF AddLog
  <2>5. /\ f \in Seq(Nat) /\ Len(f) = LogSize /\ f[s + 1] = q
        /\ \A i \in 1 .. LogSize : i # s + 1 => f[i] = e[i]
    <3>1. s + 1 \in 1 .. Len(e) /\ Len(e) = LogSize
      BY <1>2, <1>3, <1>4, <1>6
    <3> QED BY <2>1, <3>1
  <2>6. ASSUME NEW k \in 0 .. LogSize - 1
        PROVE  f[Slot(r, LogSize, k)] = q + 1 - LogSize + k
    <3>1. CASE k = LogSize - 1
      <4>1. Slot(r, LogSize, k) = s + 1
        BY <1>3, <1>4, <2>2, <3>1 DEF Slot
      <4> QED BY <1>3, <2>5, <3>1, <4>1
    <3>2. CASE k < LogSize - 1
      <4>1. Slot(r, LogSize, k) = Slot(s, LogSize, k + 1)
        BY <1>3, <1>4, <2>2, <3>2 DEF Slot
      <4>2. Slot(s, LogSize, k + 1) \in 1 .. LogSize /\ Slot(s, LogSize, k + 1) # s + 1
        BY <1>3, <1>4, <3>2 DEF Slot
      <4>3. e[Slot(s, LogSize, k + 1)] = q - LogSize + (k + 1)
        BY <1>3, <1>a, <1>6, <3>2
      <4> QED BY <1>3, <2>5, <4>1, <4>2, <4>3
    <3> QED BY <1>3, <3>1, <3>2
  <2>7. logs'.entries = f /\ logs'.start = r /\ logs'.nextSeq = q + 1
    BY <2>4
  <2>8. r < LogSize /\ q + 1 > LogSize
    BY <1>3, <1>4, <1>6, <2>2
  <2>9. /\ logs'.nextSeq \in Nat \ {0}
        /\ logs'.start \in 0 .. LogSize - 1
        /\ logs'.entries \in Seq(Nat)
        /\ Len(logs'.entries) = LogSize
    BY <1>3, <2>2, <2>5, <2>7, <2>8
  <2>10. \A k \in 0 .. Len(logs'.entries) - 1 :
           logs'.entries[Slot(logs'.start, Len(logs'.entries), k)]
             = logs'.nextSeq - Len(logs'.entries) + k
    BY <2>6, <2>7, <2>9
  <2>11. Len(logs'.entries) = IF logs'.nextSeq <= LogSize THEN logs'.nextSeq - 1 ELSE LogSize
    BY <1>3, <2>7, <2>8, <2>9
  <2>12. ~(Len(logs'.entries) < LogSize)
    BY <1>3, <2>9
  <2> QED BY <2>9, <2>10, <2>11, <2>12 DEF LinesKept
<1> QED BY <1>3, <1>4, <1>5, <1>6

(* A page of the ring is the lines it says it is.                           *)
LEMMA PageFollows ==
  ASSUME LinesKept, NEW after \in 0 .. logs.nextSeq, NEW limit \in 1 .. LogSize
  PROVE  LET page == Page(after, limit) IN
         /\ \A i \in DOMAIN page.entries : page.entries[i] = after + page.dropped + i
         /\ page.dropped > 0 => after + page.dropped < logs.nextSeq - LogSize
         /\ after < logs.nextSeq =>
              page.next = after + page.dropped + Len(page.entries)
         /\ page.entries = <<>> <=> after >= logs.nextSeq - 1
<1>1. PICK e \in Seq(Nat), s \in Nat, q \in Nat :
        e = logs.entries /\ s = logs.start /\ q = logs.nextSeq
  BY EngineAssumption DEF LinesKept
<1>2. PICK count \in Nat : count = Len(e)
  OBVIOUS
<1>3. LogSize \in Nat /\ LogSize > 0
  BY EngineAssumption
<1>4. /\ q > 0 /\ s < LogSize /\ count <= LogSize
      /\ q <= LogSize => count = q - 1
      /\ q > LogSize => count = LogSize
      /\ count < LogSize => s = 0
  BY <1>1, <1>2, <1>3 DEF LinesKept
<1>a. \A k \in 0 .. count - 1 : e[Slot(s, count, k)] = q - count + k
  BY <1>1, <1>2 DEF LinesKept
<1>5. PICK page : page = Page(after, limit)
  OBVIOUS
<1>6. after \in 0 .. q /\ limit \in Nat /\ limit > 0
  BY <1>1, <1>3
<1>7. CASE after >= q - 1
  <2>1. page = [entries |-> <<>>, next |-> q - 1, dropped |-> 0]
    BY <1>1, <1>5, <1>7 DEF Page
  <2>2. page.entries = <<>> /\ page.next = q - 1 /\ page.dropped = 0
    BY <2>1
  <2>3. Len(page.entries) = 0 /\ DOMAIN page.entries = {}
    BY <2>2
  <2>4. /\ \A i \in DOMAIN page.entries : page.entries[i] = after + page.dropped + i
        /\ page.dropped > 0 => after + page.dropped < q - LogSize
        /\ after < q => page.next = after + page.dropped + Len(page.entries)
        /\ page.entries = <<>> <=> after >= q - 1
    BY <1>4, <1>6, <1>7, <2>2, <2>3
  <2> QED BY <1>1, <1>5, <2>4
<1>8. CASE after < q - 1
  <2>1. PICK oldest \in Nat : oldest = q - count
    <3>1. q - count \in Nat
      BY <1>3, <1>4
    <3> QED BY <3>1
  <2>2. PICK first \in Nat : first = IF after + 1 < oldest THEN oldest ELSE after + 1
    BY <1>6
  <2>3. PICK last \in Nat : last = IF first + limit < q THEN first + limit - 1 ELSE q - 1
    BY <1>4, <1>6, <2>2
  <2>4. oldest > 0 /\ oldest <= first /\ first <= last /\ last <= q - 1
    <3>1. oldest > 0 /\ oldest <= q - 1
      BY <1>3, <1>4, <1>6, <1>8, <2>1
    <3>2. oldest <= first /\ first <= q - 1
      BY <1>6, <1>8, <2>2, <3>1
    <3> QED BY <1>6, <2>3, <3>1, <3>2
  <2>5. PICK m \in Nat : m = last - first + 1
    BY <2>4
  <2>6. PICK lines : lines = [i \in 1 .. m |-> e[1 + ((s + first + i - 1 - oldest) % count)]]
    OBVIOUS
  <2>7. page = [entries |-> lines, next |-> last, dropped |-> first - (after + 1)]
    <3>1. ~(after >= logs.nextSeq - 1)
      BY <1>1, <1>6, <1>8
    <3>2. /\ oldest = logs.nextSeq - Len(logs.entries)
          /\ first = IF after + 1 < oldest THEN oldest ELSE after + 1
          /\ last = IF first + limit < logs.nextSeq THEN first + limit - 1
                    ELSE logs.nextSeq - 1
      BY <1>1, <1>2, <2>1, <2>2, <2>3
    <3>3. lines = [i \in 1 .. last - first + 1 |->
                     logs.entries[1 + ((logs.start + first + i - 1 - oldest)
                                         % Len(logs.entries))]]
      BY <1>1, <1>2, <2>5, <2>6, Zenon
    <3> QED BY <1>5, <3>1, <3>2, <3>3, Zenon DEF Page
  <2>8. /\ page.entries = lines /\ page.next = last
        /\ page.dropped = first - (after + 1)
    BY <2>7
  <2>9. ASSUME NEW i \in 1 .. m
        PROVE  lines[i] = first + i - 1
    <3>1. PICK k \in 0 .. count - 1 : k = first + i - 1 - oldest
      <4>1. first + i - 1 - oldest \in 0 .. count - 1
        BY <2>1, <2>4, <2>5
      <4> QED BY <4>1
    <3>2. count \in Nat \ {0} /\ s + k \in 0 .. 2 * count - 1
      <4>1. s = 0 \/ s < count
        BY <1>3, <1>4
      <4> QED BY <3>1, <4>1
    <3>3. 1 + ((s + k) % count) = Slot(s, count, k)
      <4>1. (s + k) % count = IF s + k < count THEN s + k ELSE s + k - count
        <5>1. PICK d \in 0 .. 2 * count - 1 : d = s + k
          BY <3>2
        <5>2. d % count = IF d < count THEN d ELSE d - count
          BY <3>2, RoundTheRing
        <5> QED BY <5>1, <5>2
      <4> QED BY <3>1, <4>1 DEF Slot
    <3>4. s + first + i - 1 - oldest = s + k
      BY <2>1, <3>1
    <3>5. e[Slot(s, count, k)] = q - count + k
      BY <1>a
    <3> QED BY <2>1, <2>6, <3>1, <3>3, <3>4, <3>5
  <2>10. Len(lines) = m /\ DOMAIN lines = 1 .. m
    BY <2>5, <2>6
  <2>11. m > 0 /\ lines # <<>>
    BY <2>4, <2>5, <2>10
  <2>12. first - (after + 1) > 0 => first = q - LogSize
    BY <1>3, <1>4, <1>6, <2>1, <2>2
  <2>13. \A i \in 1 .. m : after + (first - (after + 1)) + i = first + i - 1
    BY <1>6
  <2>14. \A i \in DOMAIN lines : lines[i] = after + page.dropped + i
    BY <2>8, <2>9, <2>10, <2>13
  <2>15. page.dropped > 0 => after + page.dropped < q - LogSize
    BY <1>3, <1>6, <2>8, <2>12
  <2>16. page.next = after + page.dropped + Len(lines)
    BY <1>6, <2>4, <2>5, <2>8, <2>10
  <2>17. page.entries # <<>> /\ ~(after >= q - 1)
    BY <1>6, <1>8, <2>8, <2>11
  <2> QED BY <1>1, <1>5, <2>8, <2>14, <2>15, <2>16, <2>17
<1> QED BY <1>4, <1>6, <1>7, <1>8

(* What is newest is what is answered.                                      *)
LEMMA NewestAnswers ==
  ASSUME TypeOK, ResultsKept
  PROVE  LastResultsAreKept
<1>1. PICK n \in Nat : n = Len(outcome) /\ DOMAIN outcome = 1 .. n
  BY DEF TypeOK
<1>2. PICK f : f = Forgotten(n)
  OBVIOUS
<1>3. CacheSize \in Nat /\ f \in Nat /\ f >= n - CacheSize
      /\ (f > 0 => f = n - CacheSize)
  BY <1>1, <1>2, EngineAssumption DEF Forgotten
<1>4. cache.entries = [r \in (f + 1) .. n |-> outcome[r]]
  BY <1>1, <1>2 DEF ResultsKept, Newest
<1>5. ASSUME NEW r \in 1 .. n
      PROVE  Status(r) = IF r > n - CacheSize THEN outcome[r] ELSE "unknown"
  <2>1. r > n - CacheSize <=> r \in (f + 1) .. n
    BY <1>1, <1>3
  <2> QED BY <1>4, <2>1 DEF Status
<1> QED BY <1>1, <1>5 DEF LastResultsAreKept

(* Every step keeps both memories.                                          *)
LEMMA KeptStep ==
  ASSUME TypeOK, ResultsKept, LinesKept, [Next]_vars
  PROVE  ResultsKept' /\ LinesKept'
<1>1. ASSUME UNCHANGED logs
      PROVE  LinesKept'
  BY <1>1 DEF LinesKept
<1>2. ASSUME NEW t \in Threads, LifecycleStep(t) \/ TrafficStep(t) \/ QueryStep(t)
      PROVE  ResultsKept' /\ LinesKept'
  <2>1. CASE Respond(t)
    BY <1>1, <2>1, RespondRemembers
  <2>2. CASE ~Respond(t)
    BY <1>1, <1>2, <2>2, WorkStands, RequestsStand
  <2> QED BY <2>1, <2>2
<1>3. ASSUME NEW t \in Callers,
             NEW op \in Lifecycle \cup Remembered \cup {"snapshot"}, Call(t, op)
      PROVE  ResultsKept' /\ LinesKept'
  BY <1>1, <1>3, CallRemembers
<1>4. CASE AddLog
  BY <1>4, AddLogKeeps, EventStands, RequestsStand
<1>5. CASE ~AddLog /\ (PreparePlan \/ Tick \/ Midnight \/ Carry \/ AtRest \/ UNCHANGED vars)
  BY <1>1, <1>5, EventStands, RequestsStand DEF AtRest
<1>6. CASE Restart
  <2>1. LinesKept'
    <3>1. /\ logs'.entries = <<>> /\ logs'.start = 0 /\ logs'.nextSeq = 1
      BY <1>6 DEF Restart
    <3>2. Len(logs'.entries) = 0 /\ logs'.entries \in Seq(Nat)
      BY <3>1
    <3> QED BY <3>1, <3>2, EngineAssumption DEF LinesKept
  <2> QED BY <1>6, <2>1, RestartRemembers
<1> QED BY <1>2, <1>3, <1>4, <1>5, <1>6 DEF Next

(* Both memories begin empty.                                               *)
LEMMA KeptAtFirst ==
  ASSUME Init
  PROVE  ResultsKept /\ LinesKept
<1>1. ResultsKept
  BY NothingIsNewest DEF Init, ResultsKept, NoJob
<1>2. logs.entries = <<>> /\ logs.start = 0 /\ logs.nextSeq = 1
  BY DEF Init
<1>3. Len(logs.entries) = 0 /\ logs.entries \in Seq(Nat)
  BY <1>2
<1> QED BY <1>1, <1>2, <1>3, EngineAssumption DEF LinesKept

-----------------------------------------------------------------------------
(* The results.                                                             *)

(* The engine's facts, the instance of the daemon, the record of the day    *)
(* and what each thread is about keep their types.  (Engine, dayTotals)     *)
THEOREM Typed == Spec => []TypeOK
<1>1. Inv => TypeOK
  BY DEF Inv
<1> QED BY <1>1, Inductive, PTL

(* Whatever callers, probes and failures do, what the engine calls running  *)
(* is the open instance of that very session and plan.  (run, stop, Close,  *)
(* urlTest)                                                                 *)
THEOREM Running == Spec => []RunningIsServed
<1>1. Inv => RunningIsServed
  BY DEF Inv, ServedInv, Served, RunningIsServed
<1> QED BY <1>1, Inductive, PTL

(* A running session nobody changed has the choices of its plan, although   *)
(* the core remembers others.  (applyPlanChoices)                           *)
THEOREM Choosing == Spec => []PlanChoicesHold
<1>1. Inv => PlanChoicesHold
  BY DEF Inv, ServedInv, Served, PlanChoicesHold
<1> QED BY <1>1, Inductive, PTL

(* No snapshot pairs the facts of one session with the inbounds of another. *)
(* (Snapshot)                                                               *)
THEOREM Showing == Spec => []SnapshotIsOfOneSession
<1>1. Inv => SnapshotIsOfOneSession
  BY DEF Inv, ShownInv, SnapshotIsOfOneSession
<1> QED BY <1>1, Inductive, PTL

(* What the sessions of one date of the record carried until they were      *)
(* closed is in the day's sum, but for what they carried after the last     *)
(* look at their total, and what was saved of it is in the file.            *)
(* (dayTotals, countTraffic)                                                *)
THEOREM Counting == Spec => []EndedTrafficIsCounted
<1>1. Inv => EndedTrafficIsCounted
  BY DEF Inv, DayInv, EndedTrafficIsCounted
<1> QED BY <1>1, Inductive, PTL

(* The cache answers for exactly the last commands, each with its own       *)
(* outcome, and a page of the log continues where its reader stopped,       *)
(* whatever was pushed out meanwhile.  (resultCache, logBuffer)             *)
THEOREM Keeping == Spec => []NewestIsKept
<1>1. Init => ResultsKept /\ LinesKept
  BY KeptAtFirst
<1>2. TypeOK /\ (ResultsKept /\ LinesKept) /\ [Next]_vars => (ResultsKept /\ LinesKept)'
  BY KeptStep
<1>3. TypeOK /\ ResultsKept /\ LinesKept => NewestIsKept
  <2> SUFFICES ASSUME TypeOK, ResultsKept, LinesKept
               PROVE  NewestIsKept
    OBVIOUS
  <2>1. PagesFollowTheLog
    BY PageFollows DEF PagesFollowTheLog
  <2> QED BY <2>1, NewestAnswers DEF NewestIsKept
<1>4. Spec => []TypeOK
  BY Typed
<1> QED BY <1>1, <1>2, <1>3, <1>4, PTL DEF Spec

-----------------------------------------------------------------------------
(***************************************************************************)
(* The guard.                                                              *)
(* What the guard on cloud configuration promises, for plans of any size   *)
(* and shape, any answers of DNS and any chain of redirects.               *)
(*                                                                         *)
(* The verdict on a plan rests on what a depth-first walk keeps up: the    *)
(* tags that are done are closed under "depends on" and in no cycle, the   *)
(* tags under a visit form a path, and both are reached from the plan's    *)
(* endpoints.  A tag met again on the path closes a cycle; an empty path   *)
(* with nothing to do means that all that is reached is done.              *)
(***************************************************************************)
Frames == [tag : Tags, left : Seq(Tags)]

Maps == UNION {[D -> Outbounds] : D \in SUBSET Tags}

WalkSet == [plan : Plans \cup {NoPlan}, outbounds : Maps, todo : Seq(Tags),
            stack : Seq(Frames), visiting : SUBSET Tags, done : SUBSET Tags,
            verdict : {"none", "refused", "accepted"}]

(* What an outbound of a plan depends on.                                   *)
NextOf(plan, t) ==
  IF t \in DOMAIN plan.outbounds THEN Elements(Successors(plan.outbounds[t])) ELSE {}

Seeds(plan) == Elements(plan.endpointTags)

(* An outbound as it was and as the guard left it.                          *)
Covers(was, is) ==
  /\ was.type = "selector" \/ was.covered
  /\ was.type # "urltest"
  /\ was.type = "proxy" =>
       /\ is.server \in Addresses
       /\ is.server.public
       /\ AskedFor(is) = AskedFor(was)

(* The outbounds of a plan where those in `seen' were gone through.         *)
OutboundsOK(plan, outs, seen) ==
  /\ DOMAIN outs = DOMAIN plan.outbounds
  /\ \A t \in DOMAIN plan.outbounds :
       /\ outs[t].members = plan.outbounds[t].members
       /\ outs[t].detour = plan.outbounds[t].detour
       /\ t \in seen => Covers(plan.outbounds[t], outs[t])
       /\ t \notin seen => outs[t] = plan.outbounds[t]

Found(plan, todo, visiting, done) ==
  /\ done \cup visiting \subseteq DOMAIN plan.outbounds
  /\ done \cup visiting \subseteq Reached(plan)
  /\ Elements(todo) \subseteq Reached(plan)
  /\ Seeds(plan) \subseteq done \cup Elements(todo)

DoneOK(plan, done) ==
  /\ \A t \in done : NextOf(plan, t) \subseteq done
  /\ \A S \in SUBSET done : S # {} => \E t \in S : NextOf(plan, t) \cap S = {}

(* A frame still has to see what is left of what it depends on.             *)
OnPath(plan, frame, done) ==
  /\ Elements(frame.left) \subseteq NextOf(plan, frame.tag)
  /\ NextOf(plan, frame.tag) \subseteq done \cup Elements(frame.left)

Waits(frame, above) == frame.left # <<>> /\ Head(frame.left) = above.tag

(* The path: every tag on it is the next the one below still has to see.    *)
PathOK(plan, stack, visiting, done) ==
  /\ \A i \in 1 .. Len(stack) : stack[i].tag \in visiting
  /\ \A t \in visiting : \E i \in 1 .. Len(stack) : stack[i].tag = t
  /\ visiting \cap done = {}
  /\ \A i, j \in 1 .. Len(stack) : stack[i].tag = stack[j].tag => i = j
  /\ \A i \in 1 .. Len(stack) : OnPath(plan, stack[i], done)
  /\ \A i \in 1 .. Len(stack) : i > 1 => Waits(stack[i], stack[i - 1])

Working(plan, outs, todo, stack, visiting, done) ==
  /\ plan \in Plans
  /\ plan.wellFormed
  /\ OutboundsOK(plan, outs, done \cup visiting)
  /\ Found(plan, todo, visiting, done)
  /\ DoneOK(plan, done)
  /\ PathOK(plan, stack, visiting, done)

WalkInv ==
  /\ walk \in WalkSet
  /\ walk.verdict = "none" =>
       Working(walk.plan, walk.outbounds, walk.todo, walk.stack, walk.visiting, walk.done)
  /\ VerdictIsRight

-----------------------------------------------------------------------------
(* Sequences and what is reached.                                           *)

LEMMA Peel ==
  ASSUME NEW S, NEW s \in Seq(S), s # <<>>
  PROVE  /\ Head(s) \in S /\ Tail(s) \in Seq(S)
         /\ Head(s) \in Elements(s)
         /\ Elements(s) = {Head(s)} \cup Elements(Tail(s))
<1>1. Len(s) \in Nat \ {0} /\ DOMAIN s = 1 .. Len(s) /\ Head(s) = s[1]
  BY EmptySeq, LenProperties
<1>2. /\ Head(s) \in S /\ Tail(s) \in Seq(S) /\ Len(Tail(s)) = Len(s) - 1
      /\ \A i \in 1 .. Len(Tail(s)) : Tail(s)[i] = s[i + 1]
  BY HeadTailProperties
<1>3. DOMAIN Tail(s) = 1 .. (Len(s) - 1)
  BY <1>2, LenProperties
<1>4. Head(s) \in Elements(s)
  BY <1>1 DEF Elements
<1>5. Elements(Tail(s)) \subseteq Elements(s)
  BY <1>1, <1>2, <1>3 DEF Elements
<1>6. ASSUME NEW e \in Elements(s)
      PROVE  e = Head(s) \/ e \in Elements(Tail(s))
  <2>1. PICK i \in 1 .. Len(s) : e = s[i]
    BY <1>1 DEF Elements
  <2>2. CASE i = 1
    BY <1>1, <2>1, <2>2
  <2>3. CASE i # 1
    <3>1. i - 1 \in 1 .. Len(Tail(s)) /\ Tail(s)[i - 1] = s[i]
      BY <1>1, <1>2, <2>3
    <3> QED BY <1>2, <1>3, <2>1, <3>1 DEF Elements
  <2> QED BY <2>2, <2>3
<1> QED BY <1>2, <1>4, <1>5, <1>6

LEMMA Elementwise ==
  ASSUME NEW S, NEW s \in Seq(S)
  PROVE  Elements(s) \subseteq S /\ (s = <<>> => Elements(s) = {})
BY LenProperties, EmptySeq DEF Elements

(* Reached: the least set with the seeds that is closed under NextOf.       *)
LEMMA Least ==
  ASSUME NEW plan, NEW S \in SUBSET Tags, Seeds(plan) \subseteq S,
         \A t \in S : NextOf(plan, t) \subseteq S
  PROVE  Reached(plan) \subseteq S
BY DEF Reached, Seeds, NextOf, Elements

LEMMA ReachedSeeds ==
  ASSUME NEW plan, Seeds(plan) \subseteq Tags
  PROVE  Seeds(plan) \subseteq Reached(plan)
BY DEF Reached, Seeds, NextOf, Elements

LEMMA ReachedOn ==
  ASSUME NEW plan, NEW t \in Reached(plan), NextOf(plan, t) \subseteq Tags
  PROVE  NextOf(plan, t) \subseteq Reached(plan)
BY DEF Reached, NextOf, Elements

LEMMA ReachedIsTags == \A plan : Reached(plan) \subseteq Tags
BY DEF Reached

LEMMA NextTags ==
  ASSUME NEW plan, IsPlan(plan), NEW t
  PROVE  NextOf(plan, t) \subseteq Tags
<1>1. CASE t \in DOMAIN plan.outbounds
  <2>1. plan.outbounds[t] \in Outbounds
    BY <1>1 DEF IsPlan
  <2>2. Successors(plan.outbounds[t]) \in Seq(Tags)
    BY <2>1, ConcatProperties DEF Outbounds, Successors
  <2> QED BY <1>1, <2>2, Elementwise DEF NextOf
<1> QED BY <1>1 DEF NextOf

LEMMA FrameParts ==
  ASSUME NEW stack \in Seq(Frames), NEW i \in 1 .. Len(stack)
  PROVE  /\ stack[i] \in Frames /\ stack[i].tag \in Tags /\ stack[i].left \in Seq(Tags)
         /\ Elements(stack[i].left) \subseteq Tags
         /\ stack[i].left = <<>> => Elements(stack[i].left) = {}
<1>1. stack[i] \in Frames
  BY ElementOfSeq
<1>2. \A frame \in Frames : frame.tag \in Tags /\ frame.left \in Seq(Tags)
  BY DEF Frames
<1> QED BY <1>1, <1>2, Elementwise

LEMMA NotEmpty ==
  ASSUME NEW S, NEW s \in Seq(S)
  PROVE  Len(s) \in Nat /\ (s # <<>> => 1 \in 1 .. Len(s)) /\ (s = <<>> => Len(s) = 0)
BY LenProperties, EmptySeq

-----------------------------------------------------------------------------
(* The steps of the walk.                                                   *)

(* An endpoint tag is done.                                                 *)
LEMMA SkipTag ==
  ASSUME NEW plan, NEW outs, NEW todo \in Seq(Tags), NEW stack, NEW visiting, NEW done,
         Working(plan, outs, todo, stack, visiting, done),
         todo # <<>>, Head(todo) \in done
  PROVE  Working(plan, outs, Tail(todo), stack, visiting, done)
<1>1. Elements(todo) = {Head(todo)} \cup Elements(Tail(todo))
  BY Peel
<1>2. Found(plan, Tail(todo), visiting, done)
  BY <1>1 DEF Working, Found
<1> QED BY <1>2 DEF Working

(* What the top of the path depends on is done.                             *)
LEMMA SkipNext ==
  ASSUME NEW plan, NEW outs, NEW todo, NEW stack \in Seq(Frames), NEW visiting, NEW done,
         Working(plan, outs, todo, stack, visiting, done),
         stack # <<>>, stack[1].left # <<>>, Head(stack[1].left) \in done,
         NEW after \in Seq(Frames), Len(after) = Len(stack),
         after[1].tag = stack[1].tag, after[1].left = Tail(stack[1].left),
         \A i \in 1 .. Len(stack) : i # 1 => after[i] = stack[i]
  PROVE  Working(plan, outs, todo, after, visiting, done)
<1>1. Len(stack) \in Nat /\ 1 \in 1 .. Len(stack)
  BY NotEmpty
<1>2. stack[1].left \in Seq(Tags)
  BY <1>1, FrameParts
<1>3. Elements(stack[1].left) = {Head(stack[1].left)} \cup Elements(after[1].left)
  BY <1>2, Peel
<1>4. \A i \in 1 .. Len(stack) : after[i].tag = stack[i].tag
  OBVIOUS
<1>5. PathOK(plan, stack, visiting, done)
  BY DEF Working
<1>6. ASSUME NEW i \in 1 .. Len(after)
      PROVE  OnPath(plan, after[i], done)
  <2>1. OnPath(plan, stack[i], done)
    BY <1>5 DEF PathOK
  <2>2. CASE i = 1
    BY <1>3, <2>1, <2>2 DEF OnPath
  <2>3. CASE i # 1
    BY <2>1, <2>3
  <2> QED BY <2>2, <2>3
<1>7. ASSUME NEW i \in 1 .. Len(after), i > 1
      PROVE  Waits(after[i], after[i - 1])
  <2>1. after[i] = stack[i] /\ i - 1 \in 1 .. Len(stack)
    BY <1>1, <1>7
  <2>2. after[i - 1].tag = stack[i - 1].tag
    BY <1>4, <2>1
  <2>3. Waits(stack[i], stack[i - 1])
    BY <1>5, <1>7 DEF PathOK
  <2> QED BY <2>1, <2>2, <2>3 DEF Waits
<1>8. /\ \A i \in 1 .. Len(after) : after[i].tag \in visiting
      /\ \A t \in visiting : \E i \in 1 .. Len(after) : after[i].tag = t
      /\ visiting \cap done = {}
  BY <1>4, <1>5 DEF PathOK
<1>9. \A i, j \in 1 .. Len(after) : after[i].tag = after[j].tag => i = j
  BY <1>4, <1>5 DEF PathOK
<1>10. PathOK(plan, after, visiting, done)
  BY <1>6, <1>7, <1>8, <1>9 DEF PathOK
<1> QED BY <1>10 DEF Working

(* The top of the path is done: all it depends on was done before.          *)
LEMMA Leaving ==
  ASSUME NEW plan, NEW outs, NEW todo, NEW stack \in Seq(Frames), NEW visiting, NEW done,
         Working(plan, outs, todo, stack, visiting, done),
         stack # <<>>, stack[1].left = <<>>
  PROVE  Working(plan, outs, todo, Tail(stack), visiting \ {stack[1].tag},
                 done \cup {stack[1].tag})
<1> DEFINE t     == stack[1].tag
           after == Tail(stack)
<1>1. /\ Len(stack) \in Nat /\ 1 \in 1 .. Len(stack)
      /\ Elements(stack[1].left) = {}
  BY NotEmpty, FrameParts
<1>2. /\ Len(after) = Len(stack) - 1
      /\ \A i \in 1 .. Len(after) : after[i] = stack[i + 1]
  BY HeadTailProperties
<1>3. /\ PathOK(plan, stack, visiting, done) /\ DoneOK(plan, done)
      /\ Found(plan, todo, visiting, done)
  BY DEF Working
<1>4. t \in visiting /\ t \notin done
  BY <1>1, <1>3 DEF PathOK
<1>5. NextOf(plan, t) \subseteq done
  BY <1>1, <1>3 DEF PathOK, OnPath
<1> HIDE DEF t, after
<1>6. (done \cup {t}) \cup (visiting \ {t}) = done \cup visiting
  BY <1>4
<1>7. Found(plan, todo, visiting \ {t}, done \cup {t})
  BY <1>3, <1>6 DEF Found
<1>8. DoneOK(plan, done \cup {t})
  <2>1. \A u \in done \cup {t} : NextOf(plan, u) \subseteq done
    BY <1>3, <1>5 DEF DoneOK
  <2>2. ASSUME NEW S \in SUBSET (done \cup {t}), S # {}
        PROVE  \E u \in S : NextOf(plan, u) \cap S = {}
    <3>1. CASE S \ {t} = {}
      BY <1>4, <1>5, <2>2, <3>1
    <3>2. CASE S \ {t} # {}
      <4>1. S \ {t} \in SUBSET done
        OBVIOUS
      <4>2. PICK u \in S \ {t} : NextOf(plan, u) \cap (S \ {t}) = {}
        BY <1>3, <3>2, <4>1 DEF DoneOK
      <4>3. t \notin NextOf(plan, u)
        BY <1>4, <2>1
      <4> QED BY <4>2, <4>3
    <3> QED BY <3>1, <3>2
  <2> QED BY <2>1, <2>2 DEF DoneOK
<1>9. PathOK(plan, after, visiting \ {t}, done \cup {t})
  <2>1. ASSUME NEW u \in visiting \ {t}
        PROVE  \E i \in 1 .. Len(after) : after[i].tag = u
    <3>1. PICK i \in 1 .. Len(stack) : stack[i].tag = u
      BY <1>3 DEF PathOK
    <3>2. i # 1
      BY <3>1 DEF t
    <3>3. i - 1 \in 1 .. Len(after) /\ (i - 1) + 1 = i
      BY <1>1, <1>2, <3>2
    <3> QED BY <1>2, <3>1, <3>3
  <2>2. ASSUME NEW i \in 1 .. Len(after)
        PROVE  /\ i + 1 \in 1 .. Len(stack) /\ i + 1 > 1 /\ after[i] = stack[i + 1]
               /\ i > 1 => i - 1 \in 1 .. Len(after) /\ after[i - 1] = stack[i]
               /\ (i + 1) - 1 = i
    BY <1>1, <1>2
  <2>3. \A i, j \in 1 .. Len(stack) : stack[i].tag = stack[j].tag => i = j
    BY <1>3 DEF PathOK
  <2>4. ASSUME NEW i \in 1 .. Len(after)
        PROVE  after[i].tag \in visiting \ {t}
    <3>1. after[i].tag # stack[1].tag
      <4>1. /\ i + 1 \in 1 .. Len(stack) /\ i + 1 # 1
            /\ after[i] = stack[i + 1]
        BY <2>2
      <4> QED BY <1>1, <2>3, <4>1
    <3>2. after[i].tag \in visiting
      BY <1>3, <2>2 DEF PathOK
    <3> QED BY <3>1, <3>2 DEF t
  <2>5. ASSUME NEW i \in 1 .. Len(after), NEW j \in 1 .. Len(after),
               after[i].tag = after[j].tag
        PROVE  i = j
    <3>1. /\ i + 1 \in 1 .. Len(stack) /\ after[i] = stack[i + 1]
          /\ j + 1 \in 1 .. Len(stack) /\ after[j] = stack[j + 1]
      BY <2>2
    <3>2. i + 1 = j + 1
      BY <2>3, <2>5, <3>1
    <3> QED BY <3>2
  <2>6. ASSUME NEW i \in 1 .. Len(after)
        PROVE  OnPath(plan, after[i], done \cup {t})
    <3>1. OnPath(plan, stack[i + 1], done)
      BY <1>3, <2>2 DEF PathOK
    <3> QED BY <2>2, <3>1 DEF OnPath
  <2>7. ASSUME NEW i \in 1 .. Len(after), i > 1
        PROVE  Waits(after[i], after[i - 1])
    <3>1. Waits(stack[i + 1], stack[(i + 1) - 1])
      BY <1>3, <2>2 DEF PathOK
    <3> QED BY <2>2, <2>7, <3>1
  <2>8. (visiting \ {t}) \cap (done \cup {t}) = {}
    BY <1>3 DEF PathOK
  <2> QED BY <2>1, <2>4, <2>5, <2>6, <2>7, <2>8 DEF PathOK
<1> QED BY <1>6, <1>7, <1>8, <1>9 DEF Working, t, after

(* The top of a path is exchanged.                                          *)
LEMMA NewTop ==
  ASSUME NEW stack \in Seq(Frames), 1 \in 1 .. Len(stack), NEW frame \in Frames
  PROVE  \E after \in Seq(Frames) :
           /\ after = [stack EXCEPT ![1] = frame]
           /\ Len(after) = Len(stack)
           /\ after[1] = frame
           /\ \A i \in 1 .. Len(stack) : i # 1 => after[i] = stack[i]
<1> DEFINE after == [stack EXCEPT ![1] = frame]
<1>1. /\ after \in Seq(Frames)
      /\ Len(after) = Len(stack)
      /\ \A i \in 1 .. Len(stack) : after[i] = IF i = 1 THEN frame ELSE stack[i]
  BY ExceptSeq
<1>2. after = [stack EXCEPT ![1] = frame]
  OBVIOUS
<1> HIDE DEF after
<1>3. after[1] = frame /\ \A i \in 1 .. Len(stack) : i # 1 => after[i] = stack[i]
  BY <1>1
<1> QED BY <1>1, <1>2, <1>3, Zenon

(* The walk goes into an outbound that is next and was not seen yet.        *)
Entry(stack, todo, tag) ==
  IF stack = <<>> THEN todo # <<>> /\ Head(todo) = tag
  ELSE stack[1].left # <<>> /\ Head(stack[1].left) = tag

LEMMA EntryIsReached ==
  ASSUME NEW plan, NEW outs, NEW todo \in Seq(Tags), NEW stack \in Seq(Frames),
         NEW visiting, NEW done, NEW tag,
         Working(plan, outs, todo, stack, visiting, done), Entry(stack, todo, tag)
  PROVE  tag \in Tags /\ tag \in Reached(plan) /\ IsPlan(plan)
<1>1. IsPlan(plan)
  BY EngineAssumption DEF Working
<1>2. CASE stack = <<>>
  <2>1. Head(todo) \in Elements(todo) /\ Head(todo) = tag /\ Head(todo) \in Tags
    BY <1>2, Peel DEF Entry
  <2> QED BY <1>1, <2>1 DEF Working, Found
<1>3. CASE stack # <<>>
  <2>1. 1 \in 1 .. Len(stack) /\ stack[1].left \in Seq(Tags)
    BY <1>3, NotEmpty, FrameParts
  <2>2. tag \in Elements(stack[1].left) /\ tag \in Tags
    BY <1>3, <2>1, Peel DEF Entry
  <2>3. stack[1].tag \in visiting /\ tag \in NextOf(plan, stack[1].tag)
    BY <2>1, <2>2 DEF Working, PathOK, OnPath
  <2>4. stack[1].tag \in Reached(plan)
    BY <2>3 DEF Working, Found
  <2>5. NextOf(plan, stack[1].tag) \subseteq Reached(plan)
    BY <1>1, <2>4, NextTags, ReachedOn
  <2> QED BY <1>1, <2>2, <2>3, <2>5
<1> QED BY <1>2, <1>3

LEMMA Entering ==
  ASSUME NEW plan, NEW outs, NEW todo \in Seq(Tags), NEW stack \in Seq(Frames),
         NEW visiting, NEW done, NEW tag,
         Working(plan, outs, todo, stack, visiting, done), Entry(stack, todo, tag),
         tag \in DOMAIN outs, tag \notin visiting, tag \notin done,
         NEW is, is.members = outs[tag].members, is.detour = outs[tag].detour,
         Covers(outs[tag], is),
         NEW pinned, DOMAIN pinned = DOMAIN outs, pinned[tag] = is,
         \A t \in DOMAIN outs : t # tag => pinned[t] = outs[t],
         NEW frame \in Frames, frame.tag = tag, frame.left = Successors(outs[tag])
  PROVE  Working(plan, pinned, todo, <<frame>> \o stack, visiting \cup {tag}, done)
<1> DEFINE after == <<frame>> \o stack
           seen  == done \cup visiting
<1>1. /\ Len(stack) \in Nat /\ (stack # <<>> => 1 \in 1 .. Len(stack))
      /\ stack = <<>> => Len(stack) = 0
  BY NotEmpty
<1>2. /\ Len(after) = Len(stack) + 1 /\ after[1] = frame
      /\ \A i \in 1 .. Len(stack) : after[i + 1] = stack[i]
  <2>1. <<frame>> \in Seq(Frames) /\ Len(<<frame>>) = 1 /\ <<frame>>[1] = frame
    OBVIOUS
  <2> QED BY <1>1, <2>1, ConcatProperties
<1> HIDE DEF after
<1>3. /\ OutboundsOK(plan, outs, seen) /\ Found(plan, todo, visiting, done)
      /\ PathOK(plan, stack, visiting, done)
  BY DEF Working
<1>4. outs[tag] = plan.outbounds[tag] /\ tag \in DOMAIN plan.outbounds
  BY <1>3 DEF OutboundsOK
<1>5. OutboundsOK(plan, pinned, done \cup (visiting \cup {tag}))
  <2>1. ASSUME NEW t \in DOMAIN plan.outbounds
        PROVE  /\ pinned[t].members = plan.outbounds[t].members
               /\ pinned[t].detour = plan.outbounds[t].detour
               /\ t \in done \cup (visiting \cup {tag}) =>
                    Covers(plan.outbounds[t], pinned[t])
               /\ t \notin done \cup (visiting \cup {tag}) =>
                    pinned[t] = plan.outbounds[t]
    <3>1. CASE t = tag
      BY <1>4, <3>1
    <3>2. CASE t # tag
      BY <1>3, <3>2 DEF OutboundsOK
    <3> QED BY <3>1, <3>2
  <2> QED BY <1>3, <2>1 DEF OutboundsOK
<1>6. Found(plan, todo, visiting \cup {tag}, done)
  BY <1>3, <1>4, EntryIsReached DEF Found
<1>7. Elements(frame.left) = NextOf(plan, tag)
  BY <1>4 DEF NextOf
<1>8. ASSUME NEW i \in 1 .. Len(after), i # 1
      PROVE  i - 1 \in 1 .. Len(stack) /\ after[i] = stack[i - 1] /\ (i - 1) + 1 = i
  <2>1. i - 1 \in 1 .. Len(stack) /\ (i - 1) + 1 = i
    BY <1>1, <1>2, <1>8
  <2> QED BY <1>2, <2>1
<1>9. \A i \in 1 .. Len(stack) : stack[i].tag \in visiting
  BY <1>3 DEF PathOK
<1>10. \A i \in 1 .. Len(after) : after[i].tag \in visiting \cup {tag}
  BY <1>2, <1>8, <1>9
<1>11. ASSUME NEW t \in visiting \cup {tag}
       PROVE  \E i \in 1 .. Len(after) : after[i].tag = t
  <2>1. CASE t = tag
    BY <1>1, <1>2, <2>1
  <2>2. CASE t # tag
    <3>1. PICK i \in 1 .. Len(stack) : stack[i].tag = t
      BY <1>3, <2>2 DEF PathOK
    <3>2. i + 1 \in 1 .. Len(after)
      BY <1>1, <1>2
    <3> QED BY <1>2, <3>1, <3>2
  <2> QED BY <2>1, <2>2
<1>12. ASSUME NEW i \in 1 .. Len(after), NEW j \in 1 .. Len(after),
              after[i].tag = after[j].tag
       PROVE  i = j
  <2>1. \A k, l \in 1 .. Len(stack) : stack[k].tag = stack[l].tag => k = l
    BY <1>3 DEF PathOK
  <2>2. CASE i = 1 \/ j = 1
    <3>1. \A k \in 1 .. Len(after) : k # 1 => after[k].tag \in visiting
      BY <1>8, <1>9
    <3>2. after[1].tag = tag
      BY <1>2
    <3> QED BY <1>12, <2>2, <3>1, <3>2
  <2>3. CASE i # 1 /\ j # 1
    <3>1. /\ i - 1 \in 1 .. Len(stack) /\ after[i] = stack[i - 1] /\ (i - 1) + 1 = i
          /\ j - 1 \in 1 .. Len(stack) /\ after[j] = stack[j - 1] /\ (j - 1) + 1 = j
      BY <1>8, <2>3
    <3>2. i - 1 = j - 1
      BY <1>12, <2>1, <3>1
    <3> QED BY <3>1, <3>2
  <2> QED BY <2>2, <2>3
<1>13. ASSUME NEW i \in 1 .. Len(after)
       PROVE  OnPath(plan, after[i], done)
  <2>1. CASE i = 1
    BY <1>2, <1>7, <2>1 DEF OnPath
  <2>2. CASE i # 1
    <3>1. i - 1 \in 1 .. Len(stack) /\ after[i] = stack[i - 1]
      BY <1>8, <2>2
    <3> QED BY <1>3, <3>1 DEF PathOK
  <2> QED BY <2>1, <2>2
<1>14. ASSUME NEW i \in 1 .. Len(after), i > 1
       PROVE  Waits(after[i], after[i - 1])
  <2>1. i - 1 \in 1 .. Len(stack) /\ after[i] = stack[i - 1]
    BY <1>8, <1>14
  <2>2. CASE i - 1 = 1
    <3>1. stack # <<>>
      BY <1>1, <2>1
    <3>2. stack[1].left # <<>> /\ Head(stack[1].left) = tag
      BY <3>1 DEF Entry
    <3> QED BY <1>2, <2>1, <2>2, <3>2 DEF Waits
  <2>3. CASE i - 1 # 1
    <3>1. i - 1 \in 1 .. Len(after) /\ i - 1 > 1
      BY <1>1, <1>2, <2>1, <2>3
    <3>2. after[i - 1] = stack[(i - 1) - 1]
      BY <1>8, <3>1
    <3>3. Waits(stack[i - 1], stack[(i - 1) - 1])
      BY <1>3, <2>1, <3>1 DEF PathOK
    <3> QED BY <2>1, <3>2, <3>3
  <2> QED BY <2>2, <2>3
<1>15. (visiting \cup {tag}) \cap done = {}
  BY <1>3 DEF PathOK
<1>16. PathOK(plan, after, visiting \cup {tag}, done)
  BY <1>10, <1>11, <1>12, <1>13, <1>14, <1>15 DEF PathOK
<1> QED BY <1>5, <1>6, <1>16 DEF Working, after

(* A tag met again on the path: what lies between depends on itself.        *)
LEMMA Cycle ==
  ASSUME NEW plan, NEW outs, NEW todo \in Seq(Tags), NEW stack \in Seq(Frames),
         NEW visiting, NEW done, NEW tag \in visiting,
         Working(plan, outs, todo, stack, visiting, done), Entry(stack, todo, tag)
  PROVE  ~Acyclic(plan, Reached(plan))
<1>1. PathOK(plan, stack, visiting, done) /\ Found(plan, todo, visiting, done)
  BY DEF Working
<1>2. PICK k \in 1 .. Len(stack) : stack[k].tag = tag
  BY <1>1 DEF PathOK
<1>3. Len(stack) \in Nat /\ stack # <<>> /\ 1 \in 1 .. Len(stack)
  BY <1>2, NotEmpty
<1> DEFINE S == {stack[i].tag : i \in 1 .. k}
<1>4. tag \in S /\ S \in SUBSET Reached(plan)
  <2>1. \A i \in 1 .. k : stack[i].tag \in Reached(plan)
    BY <1>1, <1>2, <1>3 DEF PathOK, Found
  <2>2. k \in 1 .. k
    BY <1>2
  <2> QED BY <1>2, <2>1, <2>2
<1>5. ASSUME NEW i \in 1 .. k
      PROVE  /\ stack[i].left # <<>> /\ Head(stack[i].left) \in S
             /\ i \in 1 .. Len(stack)
  <2>1. i \in 1 .. Len(stack)
    BY <1>2, <1>3
  <2>2. CASE i = 1
    BY <1>3, <1>4, <2>1, <2>2 DEF Entry
  <2>3. CASE i # 1
    <3>1. i > 1 /\ i - 1 \in 1 .. k
      BY <2>3
    <3>2. Waits(stack[i], stack[i - 1])
      BY <1>1, <2>1, <3>1 DEF PathOK
    <3> QED BY <2>1, <3>1, <3>2 DEF Waits
  <2> QED BY <2>2, <2>3
<1>6. ASSUME NEW t \in S
      PROVE  /\ t \in DOMAIN plan.outbounds
             /\ \E j \in DOMAIN Successors(plan.outbounds[t]) :
                  Successors(plan.outbounds[t])[j] \in S
  <2>1. PICK i \in 1 .. k : t = stack[i].tag
    OBVIOUS
  <2>2. i \in 1 .. Len(stack) /\ stack[i].left \in Seq(Tags)
    BY <1>5, FrameParts
  <2>3. Head(stack[i].left) \in Elements(stack[i].left) /\ Head(stack[i].left) \in S
    BY <1>5, <2>2, Peel
  <2>4. OnPath(plan, stack[i], done) /\ t \in visiting
    BY <1>1, <2>1, <2>2 DEF PathOK
  <2>5. Head(stack[i].left) \in NextOf(plan, t)
    BY <2>1, <2>3, <2>4 DEF OnPath
  <2>6. t \in DOMAIN plan.outbounds
    BY <1>1, <2>4 DEF Found
  <2> QED BY <2>3, <2>5, <2>6 DEF NextOf, Elements
<1> HIDE DEF S
<1> QED BY <1>4, <1>6 DEF Acyclic

(* An outbound that cannot be pinned is not coverable.                      *)
LEMMA Uncovered ==
  ASSUME NEW out, NEW answers, out.type = "proxy", Guarded(out, answers) = {}
  PROVE  ~Coverable(out)
<1> SUFFICES ASSUME Coverable(out)
             PROVE  FALSE
  OBVIOUS
<1>1. /\ out.covered /\ out.server \in Addresses /\ out.server.public
      /\ Unmap(out.server) = out.server
  BY DEF Coverable
<1>2. out.server \in Resolutions(out.server, answers, walk.plan.strategy)
  BY <1>1 DEF Resolutions
<1>3. out.server \in Guarded(out, answers)
  BY <1>1, <1>2 DEF Guarded
<1> QED BY <1>3

(* Whatever DNS answers, only public addresses come out.                    *)
LEMMA Resolved ==
  ASSUME NEW host, NEW answers \in SUBSET Addresses, NEW strategy,
         NEW address \in Resolutions(host, answers, strategy)
  PROVE  address \in Addresses /\ address.public
<1>1. ASSUME NEW a \in Addresses, a.public
      PROVE  Unmap(a) \in Addresses /\ Unmap(a).public
  <2>1. a \in [family : {"v4", "v6", "mapped"}, public : BOOLEAN]
    BY AddressAssumption
  <2>2. [a EXCEPT !.family = "v4"] \in Addresses
    BY AddressAssumption
  <2>3. [a EXCEPT !.family = "v4"].public = a.public
    BY <2>1
  <2> QED BY <1>1, <2>2, <2>3 DEF Unmap
<1>2. \E a \in Addresses : a.public /\ address = Unmap(a)
  <2>1. CASE host \in Addresses
    BY <2>1 DEF Resolutions
  <2>2. CASE host \notin Addresses
    <3> DEFINE fitting  == Fitting(answers, strategy)
               eligible == IF fitting # {} \/ strategy \in {"ipv4_only", "ipv6_only"}
                           THEN fitting
                           ELSE answers
    <3>1. eligible \subseteq answers
      BY DEF Fitting
    <3>2. PICK a \in eligible : address = Unmap(a) /\ \A c \in answers : c.public
      BY <2>2 DEF Resolutions
    <3> QED BY <3>1, <3>2
  <2> QED BY <2>1, <2>2
<1> QED BY <1>1, <1>2

(* The host stays the name the server is asked for.                         *)
LEMMA PinnedCovers ==
  ASSUME NEW out \in Outbounds, NEW answers \in SUBSET Addresses,
         out.type = "proxy", NEW address \in Guarded(out, answers)
  PROVE  /\ Pinned(out, address) \in Outbounds
         /\ Pinned(out, address).members = out.members
         /\ Pinned(out, address).detour = out.detour
         /\ Covers(out, Pinned(out, address))
<1>1. /\ address \in Addresses /\ address.public /\ out.covered
      /\ out.transport = "grpc" /\ ~out.tls => out.server = address
  BY Resolved DEF Guarded
<1> DEFINE is == Pinned(out, address)
<1>2. /\ is \in Outbounds
      /\ is.type = out.type /\ is.members = out.members /\ is.detour = out.detour
      /\ is.tls = out.tls /\ is.transport = out.transport /\ is.server = address
      /\ is.serverName = IF out.tls /\ out.serverName = None THEN out.server
                         ELSE out.serverName
      /\ is.hostHeader = IF NamesHost(out) /\ out.hostHeader = None THEN out.server
                         ELSE out.hostHeader
  <2> DEFINE serverName == IF out.tls /\ out.serverName = None THEN out.server
                           ELSE out.serverName
             hostHeader == IF NamesHost(out) /\ out.hostHeader = None THEN out.server
                           ELSE out.hostHeader
  <2>1. serverName \in Names \cup Addresses \cup {None}
    BY DEF Outbounds
  <2>2. hostHeader \in Names \cup Addresses \cup {None}
    BY DEF Outbounds
  <2>3. is = [type |-> out.type, members |-> out.members, detour |-> out.detour,
              covered |-> out.covered, server |-> address, tls |-> out.tls,
              transport |-> out.transport, serverName |-> serverName,
              hostHeader |-> hostHeader]
    <3>1. is = [out EXCEPT !.server = address, !.serverName = serverName,
                           !.hostHeader = hostHeader]
      BY DEF Pinned
    <3> HIDE DEF serverName, hostHeader, is
    <3> QED BY <3>1 DEF Outbounds
  <2> HIDE DEF serverName, hostHeader, is
  <2>4. /\ is \in Outbounds
        /\ is.type = out.type /\ is.members = out.members /\ is.detour = out.detour
        /\ is.tls = out.tls /\ is.transport = out.transport /\ is.server = address
        /\ is.serverName = serverName /\ is.hostHeader = hostHeader
    BY <1>1, <2>1, <2>2, <2>3 DEF Outbounds
  <2> QED BY <2>4 DEF serverName, hostHeader
<1>3. NamesHost(is) = NamesHost(out)
  BY <1>2 DEF NamesHost
<1>4. out.server # None
  BY AddressAssumption DEF Outbounds
<1> HIDE DEF is
<1>5. AskedFor(is) = AskedFor(out)
  BY <1>1, <1>2, <1>3, <1>4 DEF AskedFor
<1> QED BY <1>1, <1>2, <1>5 DEF Covers, is

-----------------------------------------------------------------------------
(* The walk as the guard does it.                                           *)

LEMMA AtWork ==
  ASSUME WalkInv, walk.verdict = "none"
  PROVE  /\ walk = [plan |-> walk.plan, outbounds |-> walk.outbounds, todo |-> walk.todo,
                    stack |-> walk.stack, visiting |-> walk.visiting,
                    done |-> walk.done, verdict |-> "none"]
         /\ walk.plan \in Plans /\ walk.plan.wellFormed /\ IsPlan(walk.plan)
         /\ walk.outbounds \in Maps /\ walk.todo \in Seq(Tags)
         /\ walk.stack \in Seq(Frames) /\ walk.visiting \in SUBSET Tags
         /\ walk.done \in SUBSET Tags
         /\ Working(walk.plan, walk.outbounds, walk.todo, walk.stack, walk.visiting,
                    walk.done)
<1>1. walk \in WalkSet
  BY DEF WalkInv
<1>2. Working(walk.plan, walk.outbounds, walk.todo, walk.stack, walk.visiting, walk.done)
  BY DEF WalkInv
<1>3. walk.plan \in Plans /\ walk.plan.wellFormed
  BY <1>2 DEF Working
<1>4. IsPlan(walk.plan)
  BY <1>3, EngineAssumption
<1> QED BY <1>1, <1>2, <1>3, <1>4 DEF WalkSet

LEMMA GoesOn ==
  ASSUME NEW plan \in Plans, NEW outs \in Maps, NEW todo \in Seq(Tags),
         NEW stack \in Seq(Frames), NEW visiting \in SUBSET Tags, NEW done \in SUBSET Tags,
         Working(plan, outs, todo, stack, visiting, done),
         walk' = [plan |-> plan, outbounds |-> outs, todo |-> todo, stack |-> stack,
                  visiting |-> visiting, done |-> done, verdict |-> "none"]
  PROVE  WalkInv'
<1>1. walk' \in WalkSet /\ walk'.verdict = "none"
  BY DEF WalkSet
<1>2. Working(walk'.plan, walk'.outbounds, walk'.todo, walk'.stack, walk'.visiting,
              walk'.done)
  OBVIOUS
<1>3. VerdictIsRight'
  BY <1>1 DEF VerdictIsRight
<1> QED BY <1>1, <1>2, <1>3 DEF WalkInv

LEMMA RefuseKeeps ==
  ASSUME WalkInv, walk.verdict = "none", Refuse,
         \/ ~Reached(walk.plan) \subseteq DOMAIN walk.plan.outbounds
         \/ \E t \in Reached(walk.plan) : ~Coverable(walk.plan.outbounds[t])
         \/ ~Acyclic(walk.plan, Reached(walk.plan))
  PROVE  WalkInv'
<1>1. walk \in WalkSet
  BY DEF WalkInv
<1>2. walk' \in WalkSet /\ walk'.verdict = "refused" /\ walk'.plan = walk.plan
  BY <1>1 DEF Refuse, WalkSet
<1>3. VerdictIsRight'
  BY <1>2 DEF VerdictIsRight
<1> QED BY <1>2, <1>3 DEF WalkInv

LEMMA EnteredKeeps ==
  ASSUME WalkInv, walk.verdict = "none", NEW tag, Entry(walk.stack, walk.todo, tag),
         tag \in DOMAIN walk.outbounds, tag \notin walk.visiting, tag \notin walk.done,
         NEW is \in Outbounds, is.members = walk.outbounds[tag].members,
         is.detour = walk.outbounds[tag].detour, Covers(walk.outbounds[tag], is),
         NEW pinned, pinned = [walk.outbounds EXCEPT ![tag] = is],
         Entered(tag, pinned)
  PROVE  WalkInv'
<1>1. /\ walk.plan \in Plans /\ IsPlan(walk.plan) /\ walk.outbounds \in Maps
      /\ walk.todo \in Seq(Tags) /\ walk.stack \in Seq(Frames)
      /\ walk.visiting \in SUBSET Tags /\ walk.done \in SUBSET Tags
      /\ Working(walk.plan, walk.outbounds, walk.todo, walk.stack, walk.visiting,
                 walk.done)
  BY AtWork
<1>2. tag \in Tags
  BY <1>1, EntryIsReached
<1>3. walk.outbounds[tag] \in Outbounds
  BY <1>1 DEF Maps
<1>4. PICK left \in Seq(Tags) : left = Successors(walk.outbounds[tag])
  <2>1. /\ walk.outbounds[tag].members \in Seq(Tags)
        /\ walk.outbounds[tag].detour \in Seq(Tags)
    BY <1>3 DEF Outbounds
  <2> QED BY <2>1, ConcatProperties DEF Successors
<1>5. PICK frame \in Frames : frame = [tag |-> tag, left |-> left]
  BY <1>2, <1>4 DEF Frames
<1>6. frame.tag = tag /\ frame.left = left
  BY <1>5
<1>7. /\ pinned \in Maps /\ DOMAIN pinned = DOMAIN walk.outbounds /\ pinned[tag] = is
      /\ \A t \in DOMAIN walk.outbounds : t # tag => pinned[t] = walk.outbounds[t]
  <2>1. PICK D \in SUBSET Tags : walk.outbounds \in [D -> Outbounds]
    BY <1>1 DEF Maps
  <2>2. pinned \in [D -> Outbounds]
    BY <2>1
  <2> QED BY <2>1, <2>2 DEF Maps
<1>8. PICK after \in Seq(Frames) : after = <<frame>> \o walk.stack
  <2>1. <<frame>> \in Seq(Frames)
    OBVIOUS
  <2> QED BY <1>1, <2>1, ConcatProperties
<1>9. walk' = [plan |-> walk.plan, outbounds |-> pinned, todo |-> walk.todo,
               stack |-> after, visiting |-> walk.visiting \cup {tag},
               done |-> walk.done, verdict |-> "none"]
  BY <1>4, <1>5, <1>8, AtWork DEF Entered
<1>10. Working(walk.plan, pinned, walk.todo, after, walk.visiting \cup {tag}, walk.done)
  <2>1. frame.left = Successors(walk.outbounds[tag])
    BY <1>4, <1>6
  <2>2. Working(walk.plan, pinned, walk.todo, <<frame>> \o walk.stack,
                walk.visiting \cup {tag}, walk.done)
    BY <1>1, <1>6, <1>7, <2>1, Entering, Zenon
  <2> QED BY <1>8, <2>2
<1> QED BY <1>1, <1>2, <1>7, <1>9, <1>10, GoesOn

LEMMA PinKeeps ==
  ASSUME WalkInv, walk.verdict = "none", NEW tag, Entry(walk.stack, walk.todo, tag),
         tag \notin walk.done, Pin(tag)
  PROVE  WalkInv'
<1>1. /\ walk.outbounds \in Maps /\ walk.todo \in Seq(Tags) /\ walk.stack \in Seq(Frames)
      /\ Working(walk.plan, walk.outbounds, walk.todo, walk.stack, walk.visiting,
                 walk.done)
  BY AtWork
<1>2. tag \in Reached(walk.plan)
  BY <1>1, EntryIsReached
<1>3. DOMAIN walk.outbounds = DOMAIN walk.plan.outbounds
  BY <1>1 DEF Working, OutboundsOK
<1>4. CASE tag \notin DOMAIN walk.outbounds
  <2>1. Refuse
    BY <1>4 DEF Pin
  <2> QED BY <1>2, <1>3, <1>4, <2>1, RefuseKeeps
<1>5. CASE tag \in walk.visiting
  <2>1. Refuse
    BY <1>5 DEF Pin
  <2>2. ~Acyclic(walk.plan, Reached(walk.plan))
    BY <1>1, <1>5, Cycle
  <2> QED BY <2>1, <2>2, RefuseKeeps
<1>6. CASE tag \in DOMAIN walk.outbounds /\ tag \notin walk.visiting
  <2> DEFINE out == walk.outbounds[tag]
  <2>1. out \in Outbounds /\ out = walk.plan.outbounds[tag]
    BY <1>1, <1>3, <1>6 DEF Maps, Working, OutboundsOK
  <2>2. walk.outbounds = [walk.outbounds EXCEPT ![tag] = out]
    <3>1. PICK D \in SUBSET Tags : walk.outbounds \in [D -> Outbounds]
      BY <1>1 DEF Maps
    <3> QED BY <3>1
  <2>3. /\ \/ out.type = "selector" /\ Entered(tag, walk.outbounds)
           \/ out.type = "direct" /\ out.covered /\ Entered(tag, walk.outbounds)
           \/ out.type = "direct" /\ ~out.covered /\ Refuse
           \/ out.type = "urltest" /\ Refuse
           \/ out.type = "proxy" /\ PinProxy(tag, out)
    BY <1>6 DEF Pin
  <2> HIDE DEF out
  <2>4. CASE \/ out.type = "selector" /\ Entered(tag, walk.outbounds)
             \/ out.type = "direct" /\ out.covered /\ Entered(tag, walk.outbounds)
    <3>1. Covers(out, out)
      BY <2>4 DEF Covers
    <3> QED BY <1>6, <2>1, <2>2, <2>4, <3>1, EnteredKeeps DEF out
  <2>5. CASE \/ out.type = "direct" /\ ~out.covered /\ Refuse
             \/ out.type = "urltest" /\ Refuse
    <3>1. ~Coverable(out)
      BY <2>5 DEF Coverable
    <3> QED BY <1>2, <2>1, <2>5, <3>1, RefuseKeeps
  <2>6. CASE out.type = "proxy" /\ PinProxy(tag, out)
    <3>1. PICK answers \in SUBSET Addresses :
            \/ Guarded(out, answers) = {} /\ Refuse
            \/ \E address \in Guarded(out, answers) :
                 Entered(tag, [walk.outbounds EXCEPT ![tag] = Pinned(out, address)])
      BY <2>6 DEF PinProxy
    <3>2. CASE Guarded(out, answers) = {} /\ Refuse
      <4>1. ~Coverable(out)
        BY <2>6, <3>2, Uncovered
      <4> QED BY <1>2, <2>1, <3>2, <4>1, RefuseKeeps
    <3>3. CASE \E address \in Guarded(out, answers) :
                 Entered(tag, [walk.outbounds EXCEPT ![tag] = Pinned(out, address)])
      <4>1. PICK address \in Guarded(out, answers) :
              Entered(tag, [walk.outbounds EXCEPT ![tag] = Pinned(out, address)])
        BY <3>3
      <4>2. PICK is \in Outbounds :
              /\ is = Pinned(out, address) /\ is.members = out.members
              /\ is.detour = out.detour /\ Covers(out, is)
        BY <2>1, <2>6, <4>1, PinnedCovers
      <4> QED BY <1>6, <4>1, <4>2, EnteredKeeps DEF out
    <3> QED BY <3>1, <3>2, <3>3
  <2> QED BY <2>3, <2>4, <2>5, <2>6
<1> QED BY <1>4, <1>5, <1>6

LEMMA NextTagKeeps ==
  ASSUME WalkInv, walk.verdict = "none", NextTag
  PROVE  WalkInv'
<1>1. /\ walk.plan \in Plans /\ walk.outbounds \in Maps /\ walk.todo \in Seq(Tags)
      /\ walk.stack \in Seq(Frames) /\ walk.visiting \in SUBSET Tags
      /\ walk.done \in SUBSET Tags
      /\ Working(walk.plan, walk.outbounds, walk.todo, walk.stack, walk.visiting,
                 walk.done)
  BY AtWork
<1>2. CASE Head(walk.todo) \in walk.done
  <2>1. walk.todo # <<>> /\ walk' = [walk EXCEPT !.todo = Tail(@)]
    BY <1>2 DEF NextTag
  <2>2. PICK todo \in Seq(Tags) : todo = Tail(walk.todo)
    BY <1>1, <2>1, Peel
  <2>3. Working(walk.plan, walk.outbounds, todo, walk.stack, walk.visiting, walk.done)
    BY <1>1, <1>2, <2>1, <2>2, SkipTag
  <2>4. walk' = [plan |-> walk.plan, outbounds |-> walk.outbounds, todo |-> todo,
                 stack |-> walk.stack, visiting |-> walk.visiting, done |-> walk.done,
                 verdict |-> "none"]
    BY <2>1, <2>2, AtWork
  <2> QED BY <1>1, <2>3, <2>4, GoesOn
<1>3. CASE Head(walk.todo) \notin walk.done
  <2>1. Pin(Head(walk.todo)) /\ Entry(walk.stack, walk.todo, Head(walk.todo))
    BY <1>3 DEF NextTag, Entry
  <2> QED BY <1>3, <2>1, PinKeeps
<1> QED BY <1>2, <1>3

LEMMA DescendKeeps ==
  ASSUME WalkInv, walk.verdict = "none", Descend
  PROVE  WalkInv'
<1>1. /\ walk.plan \in Plans /\ walk.outbounds \in Maps /\ walk.todo \in Seq(Tags)
      /\ walk.stack \in Seq(Frames) /\ walk.visiting \in SUBSET Tags
      /\ walk.done \in SUBSET Tags
      /\ Working(walk.plan, walk.outbounds, walk.todo, walk.stack, walk.visiting,
                 walk.done)
  BY AtWork
<1>2. walk.stack # <<>> /\ walk.stack[1].left # <<>>
  BY DEF Descend
<1>3. /\ Len(walk.stack) \in Nat /\ 1 \in 1 .. Len(walk.stack)
      /\ walk.stack[1] \in Frames /\ walk.stack[1].tag \in Tags
      /\ walk.stack[1].left \in Seq(Tags)
  BY <1>1, <1>2, NotEmpty, FrameParts
<1>4. CASE Head(walk.stack[1].left) \in walk.done
  <2>1. walk' = [walk EXCEPT !.stack[1].left = Tail(@)]
    BY <1>4 DEF Descend
  <2>2. PICK left \in Seq(Tags) : left = Tail(walk.stack[1].left)
    BY <1>2, <1>3, Peel
  <2>3. PICK frame \in Frames : frame = [tag |-> walk.stack[1].tag, left |-> left]
    BY <1>3, <2>2 DEF Frames
  <2>4. frame.tag = walk.stack[1].tag /\ frame.left = left
    BY <2>3
  <2>5. PICK after \in Seq(Frames) :
          /\ after = [walk.stack EXCEPT ![1] = frame]
          /\ Len(after) = Len(walk.stack)
          /\ after[1] = frame
          /\ \A i \in 1 .. Len(walk.stack) : i # 1 => after[i] = walk.stack[i]
    BY <1>1, <1>3, NewTop
  <2>6. Working(walk.plan, walk.outbounds, walk.todo, after, walk.visiting, walk.done)
    BY <1>1, <1>2, <1>4, <2>2, <2>4, <2>5, SkipNext
  <2>7. [walk.stack[1] EXCEPT !.left = Tail(@)] = frame
    <3>1. \A f \in Frames : [f EXCEPT !.left = left] = [tag |-> f.tag, left |-> left]
      BY DEF Frames
    <3> QED BY <1>3, <2>2, <2>3, <3>1
  <2>8. walk' = [walk EXCEPT !.stack = after]
    BY <2>1, <2>5, <2>7
  <2>9. walk' = [plan |-> walk.plan, outbounds |-> walk.outbounds, todo |-> walk.todo,
                 stack |-> after, visiting |-> walk.visiting, done |-> walk.done,
                 verdict |-> "none"]
    BY <2>8, AtWork
  <2> QED BY <1>1, <2>6, <2>9, GoesOn
<1>5. CASE Head(walk.stack[1].left) \notin walk.done
  <2>1. /\ Pin(Head(walk.stack[1].left))
        /\ Entry(walk.stack, walk.todo, Head(walk.stack[1].left))
    BY <1>2, <1>5 DEF Descend, Entry
  <2> QED BY <1>5, <2>1, PinKeeps
<1> QED BY <1>4, <1>5

LEMMA LeaveKeeps ==
  ASSUME WalkInv, walk.verdict = "none", Leave
  PROVE  WalkInv'
<1>1. /\ walk.plan \in Plans /\ walk.outbounds \in Maps /\ walk.todo \in Seq(Tags)
      /\ walk.stack \in Seq(Frames) /\ walk.visiting \in SUBSET Tags
      /\ walk.done \in SUBSET Tags
      /\ Working(walk.plan, walk.outbounds, walk.todo, walk.stack, walk.visiting,
                 walk.done)
  BY AtWork
<1>2. walk.stack # <<>> /\ walk.stack[1].left = <<>>
  BY DEF Leave
<1>3. walk.stack[1].tag \in Tags
  BY <1>1, <1>2, NotEmpty, FrameParts
<1>4. PICK after \in Seq(Frames) : after = Tail(walk.stack)
  BY <1>1, <1>2, HeadTailProperties
<1>5. PICK t \in Tags : t = walk.stack[1].tag
  BY <1>3
<1>6. Working(walk.plan, walk.outbounds, walk.todo, after, walk.visiting \ {t},
              walk.done \cup {t})
  BY <1>1, <1>2, <1>4, <1>5, Leaving
<1>7. walk' = [plan |-> walk.plan, outbounds |-> walk.outbounds, todo |-> walk.todo,
               stack |-> after, visiting |-> walk.visiting \ {t},
               done |-> walk.done \cup {t}, verdict |-> "none"]
  BY <1>4, <1>5, AtWork DEF Leave
<1>8. walk.visiting \ {t} \in SUBSET Tags /\ walk.done \cup {t} \in SUBSET Tags
  BY <1>1
<1> QED BY <1>1, <1>4, <1>6, <1>7, <1>8, GoesOn

(* Nothing left to do: all that is reached is done.                         *)
LEMMA AcceptKeeps ==
  ASSUME WalkInv, walk.verdict = "none", Accept
  PROVE  WalkInv'
<1>1. /\ walk \in WalkSet /\ walk.plan.wellFormed /\ IsPlan(walk.plan)
      /\ walk.stack = <<>> /\ walk.todo = <<>> /\ walk.todo \in Seq(Tags)
      /\ walk.done \in SUBSET Tags
      /\ Working(walk.plan, walk.outbounds, walk.todo, walk.stack, walk.visiting,
                 walk.done)
  BY AtWork DEF Accept, WalkInv
<1>2. /\ OutboundsOK(walk.plan, walk.outbounds, walk.done \cup walk.visiting)
      /\ Found(walk.plan, walk.todo, walk.visiting, walk.done)
      /\ DoneOK(walk.plan, walk.done)
      /\ PathOK(walk.plan, walk.stack, walk.visiting, walk.done)
  BY <1>1 DEF Working
<1>3. walk.visiting = {}
  <2>1. Len(walk.stack) = 0
    BY <1>1
  <2> QED BY <1>2, <2>1 DEF PathOK
<1>4. Elements(walk.todo) = {}
  BY <1>1, Elementwise
<1>5. walk.done = Reached(walk.plan)
  <2>1. Reached(walk.plan) \subseteq walk.done
    BY <1>1, <1>2, <1>4, Least DEF Found, DoneOK
  <2> QED BY <1>2, <2>1 DEF Found
<1>6. walk' \in WalkSet /\ walk'.verdict = "accepted" /\ walk'.plan = walk.plan
      /\ walk'.outbounds = walk.outbounds
  BY <1>1 DEF Accept, WalkSet
<1>7. Acyclic(walk.plan, walk.done)
  <2>1. ASSUME NEW S \in (SUBSET walk.done) \ {{}}
        PROVE  \E t \in S : \A i \in DOMAIN Successors(walk.plan.outbounds[t]) :
                             Successors(walk.plan.outbounds[t])[i] \notin S
    <3>1. PICK t \in S : NextOf(walk.plan, t) \cap S = {}
      BY <1>2 DEF DoneOK
    <3>2. t \in DOMAIN walk.plan.outbounds
      BY <1>2 DEF Found
    <3> QED BY <3>1, <3>2 DEF NextOf, Elements
  <2> QED BY <2>1 DEF Acyclic
<1>8. walk.done \subseteq DOMAIN walk.plan.outbounds
  BY <1>2 DEF Found
<1>9. \A t \in DOMAIN walk.plan.outbounds :
        /\ t \in walk.done => Covers(walk.plan.outbounds[t], walk.outbounds[t])
        /\ t \notin walk.done => walk.outbounds[t] = walk.plan.outbounds[t]
  BY <1>2, <1>3 DEF OutboundsOK
<1>10. VerdictIsRight'
  BY <1>1, <1>5, <1>6, <1>7, <1>8, <1>9 DEF VerdictIsRight, Covers
<1> QED BY <1>6, <1>10 DEF WalkInv

LEMMA WalkStep ==
  ASSUME WalkInv, PrepareStep
  PROVE  WalkInv'
BY NextTagKeeps, DescendKeeps, LeaveKeeps, AcceptKeeps DEF PrepareStep

(* A walk begins.                                                           *)
LEMMA PrepareBegins ==
  ASSUME NEW plan \in Plans \cup {NoPlan}, walk' = Prepare(plan)
  PROVE  WalkInv'
<1>1. CASE plan.wellFormed /\ plan \in Plans
  <2>1. IsPlan(plan)
    BY <1>1, EngineAssumption
  <2>2. /\ plan.outbounds \in Maps /\ plan.endpointTags \in Seq(Tags)
    BY <2>1 DEF IsPlan, Maps
  <2>3. PICK stack \in Seq(Frames) : stack = <<>> /\ Len(stack) = 0
    BY EmptySeq
  <2>4. Found(plan, plan.endpointTags, {}, {})
    BY <2>2, Elementwise, ReachedSeeds DEF Found, Seeds
  <2>5. Working(plan, plan.outbounds, plan.endpointTags, stack, {}, {})
    BY <1>1, <2>3, <2>4 DEF Working, OutboundsOK, DoneOK, PathOK
  <2>6. walk' = [plan |-> plan, outbounds |-> plan.outbounds, todo |-> plan.endpointTags,
                 stack |-> stack, visiting |-> {}, done |-> {}, verdict |-> "none"]
    BY <1>1, <2>3 DEF Prepare
  <2>7. {} \in SUBSET Tags
    OBVIOUS
  <2> QED BY <1>1, <2>2, <2>5, <2>6, <2>7, GoesOn
<1>2. CASE ~plan.wellFormed
  <2>1. plan.outbounds \in Maps /\ plan.endpointTags \in Seq(Tags)
    <3>1. CASE plan \in Plans
      BY <3>1, EngineAssumption DEF IsPlan, Maps
    <3>2. CASE plan = NoPlan
      <4>1. <<>> \in Seq(Tags)
        BY EmptySeq
      <4>2. plan.outbounds = <<>> /\ plan.endpointTags = <<>>
        BY <3>2 DEF NoPlan
      <4>3. <<>> \in [{} -> Outbounds]
        OBVIOUS
      <4> QED BY <4>1, <4>2, <4>3 DEF Maps
    <3> QED BY <3>1, <3>2
  <2>2. <<>> \in Seq(Frames)
    BY EmptySeq
  <2>3. walk' = [plan |-> plan, outbounds |-> plan.outbounds, todo |-> plan.endpointTags,
                 stack |-> <<>>, visiting |-> {}, done |-> {}, verdict |-> "refused"]
    BY <1>2 DEF Prepare
  <2>4. walk' \in WalkSet /\ walk'.verdict = "refused" /\ walk'.plan = plan
    BY <2>1, <2>2, <2>3 DEF WalkSet
  <2>5. VerdictIsRight'
    BY <1>2, <2>4 DEF VerdictIsRight
  <2> QED BY <2>4, <2>5 DEF WalkInv
<1>3. plan.wellFormed => plan \in Plans
  BY DEF NoPlan
<1> QED BY <1>1, <1>2, <1>3

-----------------------------------------------------------------------------
(* A download.                                                              *)

GetSet == [pc : {"idle", "dial", "answer", "write", "done", "failed"}, public : BOOLEAN,
           host : Names \cup Addresses \cup {None}, hops : Int,
           dialled : SUBSET Addresses, temp : {"none", "part", "whole", "over"},
           dest : {"old", "whole"}]

GetInv == get \in GetSet /\ DownloadIsGuarded

LEMMA RequestKeeps ==
  ASSUME GetInv, NEW host \in Names \cup Addresses, NEW public \in BOOLEAN,
         Request(host, public)
  PROVE  GetInv'
<1>1. PICK pc \in {"dial", "failed"} :
        get' = [pc |-> pc, public |-> public, host |-> host, hops |-> 0, dialled |-> {},
                temp |-> "none", dest |-> get.dest]
  BY DEF Request, NoGet
<1>2. /\ get' \in GetSet /\ get'.dialled = {} /\ get'.dest = get.dest
  <2>1. get.dest \in {"old", "whole"}
    BY DEF GetInv, GetSet
  <2> QED BY <1>1, <2>1 DEF GetSet
<1> QED BY <1>2 DEF GetInv, DownloadIsGuarded, GetSet

LEMMA GetKeeps ==
  ASSUME GetInv, GetStep
  PROVE  GetInv'
<1>1. get \in GetSet /\ DownloadIsGuarded
  BY DEF GetInv
<1>2. ASSUME get' \in GetSet, get'.public = get.public,
             get'.dialled = get.dialled, get'.dest \in {get.dest, "whole"}
      PROVE  GetInv'
  BY <1>1, <1>2 DEF GetInv, DownloadIsGuarded
<1>3. ASSUME GetEnds
      PROVE  GetInv'
  BY <1>1, <1>2, <1>3 DEF GetEnds, GetSet
<1>4. CASE Dial
  <2>1. ASSUME get.public, NEW answers \in SUBSET Addresses,
               NEW address \in Resolutions(get.host, answers, ""),
               get' = [get EXCEPT !.pc = "answer", !.dialled = @ \cup {address}]
        PROVE  GetInv'
    <3>1. address \in Addresses /\ address.public
      BY Resolved
    <3>2. /\ get' \in GetSet /\ get'.public = get.public /\ get'.dest = get.dest
          /\ get'.dialled = get.dialled \cup {address}
      BY <1>1, <2>1, <3>1 DEF GetSet
    <3> QED BY <1>1, <3>1, <3>2 DEF GetInv, DownloadIsGuarded
  <2>2. CASE ~get.public /\ get' = [get EXCEPT !.pc = "answer"]
    BY <1>1, <1>2, <2>2 DEF GetSet
  <2> QED BY <1>3, <1>4, <2>1, <2>2 DEF Dial
<1>5. ASSUME NEW host \in Names \cup Addresses, Redirect(host)
      PROVE  GetInv'
  <2>1. CASE get' = [get EXCEPT !.host = host, !.hops = @ + 1, !.pc = "dial"]
    <3>1. get' = [pc |-> "dial", public |-> get.public, host |-> host,
                  hops |-> get.hops + 1, dialled |-> get.dialled, temp |-> get.temp,
                  dest |-> get.dest]
      BY <1>1, <2>1 DEF GetSet
    <3> QED BY <1>1, <1>2, <3>1 DEF GetSet
  <2>2. CASE get' = [get EXCEPT !.pc = "failed"]
    BY <1>1, <1>2, <2>2 DEF GetSet
  <2> QED BY <1>5, <2>1, <2>2 DEF Redirect
<1>6. CASE Body
  BY <1>1, <1>2, <1>6 DEF Body, GetSet
<1>7. CASE Keep
  BY <1>1, <1>2, <1>3, <1>7 DEF Keep, GetSet
<1> QED BY <1>4, <1>5, <1>6, <1>7 DEF GetStep

-----------------------------------------------------------------------------
(* The engine.                                                              *)

Guards == WalkInv /\ GetInv

LEMMA GuardsBegin == Init => Guards
<1> SUFFICES ASSUME Init
             PROVE  Guards
  OBVIOUS
<1>1. walk = Prepare(NoPlan) /\ get = NoGet
  BY DEF Init
<1>2. WalkInv
  <2>1. <<>> \in [{} -> Outbounds] /\ <<>> \in Seq(Tags) /\ <<>> \in Seq(Frames)
    BY EmptySeq
  <2>2. walk = [plan |-> NoPlan, outbounds |-> <<>>, todo |-> <<>>, stack |-> <<>>,
                visiting |-> {}, done |-> {}, verdict |-> "refused"]
    BY <1>1 DEF Prepare, NoPlan
  <2>3. walk \in WalkSet
    BY <2>1, <2>2 DEF WalkSet, Maps
  <2> QED BY <2>2, <2>3 DEF WalkInv, VerdictIsRight, NoPlan
<1>3. GetInv
  BY <1>1 DEF GetInv, GetSet, NoGet, DownloadIsGuarded
<1> QED BY <1>2, <1>3 DEF Guards

LEMMA WalkStays ==
  ASSUME WalkInv, walk' = walk
  PROVE  WalkInv'
BY DEF WalkInv, VerdictIsRight

LEMMA GetStays ==
  ASSUME GetInv, get' = get
  PROVE  GetInv'
BY DEF GetInv, DownloadIsGuarded

LEMMA GuardsKept ==
  ASSUME Inv, Guards, [Next]_vars
  PROVE  Guards'
<1>1. WalkInv /\ GetInv
  BY DEF Guards
<1>2. ASSUME UNCHANGED <<walk, get>>
      PROVE  Guards'
  BY <1>1, <1>2, WalkStays, GetStays DEF Guards
<1>3. ASSUME NEW t \in Threads, Enter(t)
      PROVE  Guards'
  <2>1. CASE walk' = Prepare(job[t].plan) /\ job[t].op \in WithPlan
    <3>1. job[t].plan \in Plans
      BY <2>1 DEF Inv, Threadwise, Sound, Shaped
    <3>2. get' = get
      BY <1>3 DEF Enter
    <3> QED BY <1>1, <2>1, <3>1, <3>2, PrepareBegins, GetStays DEF Guards
  <2>2. CASE walk' = walk
    BY <1>2, <1>3, <2>2 DEF Enter
  <2> QED BY <1>3, <2>1, <2>2 DEF Enter
<1>4. CASE PreparePlan
  <2>1. PrepareStep /\ get' = get
    BY <1>4 DEF PreparePlan
  <2> QED BY <1>1, <2>1, WalkStep, GetStays DEF Guards
<1>5. ASSUME NEW t \in Threads, Check(t)
      PROVE  Guards'
  <2>1. walk' = walk
    BY <1>5 DEF Check
  <2>2. \/ get' = get
        \/ \E host \in Names \cup Addresses, public \in BOOLEAN : Request(host, public)
    BY <1>5 DEF Check
  <2> QED BY <1>1, <2>1, <2>2, RequestKeeps, WalkStays, GetStays DEF Guards
<1>6. ASSUME NEW t \in Threads, Fetch(t)
      PROVE  Guards'
  <2>1. walk' = walk /\ GetStep
    BY <1>6 DEF Fetch
  <2> QED BY <1>1, <2>1, GetKeeps, WalkStays DEF Guards
<1>7. ASSUME NEW t \in Threads, LifecycleStep(t)
      PROVE  Guards'
  BY <1>2, <1>3, <1>7 DEF LifecycleStep, Prepared, Announce, Swap, Replace, StartFails,
       ApplyChoices, Publish, Probed, CloseService, StopEnds, Cancel, CloseEnds, others
<1>8. ASSUME NEW t \in Threads, TrafficStep(t)
      PROVE  Guards'
  BY <1>2, <1>8 DEF TrafficStep, Count, Sample, Ended, Offset, Save, Totals, others
<1>9. ASSUME NEW t \in Threads, QueryStep(t)
      PROVE  Guards'
  BY <1>2, <1>5, <1>6, <1>9 DEF QueryStep, Respond, Look, Choose, Confirm, Use, Fetched,
       others
<1>10. ASSUME NEW t \in Callers, NEW op, Call(t, op)
       PROVE  Guards'
  BY <1>2, <1>10 DEF Call, others
<1>11. CASE Tick \/ Midnight \/ Carry \/ AddLog \/ Restart \/ AtRest \/ UNCHANGED vars
  BY <1>2, <1>11 DEF Tick, Midnight, Carry, AddLog, Restart, AtRest, vars, others
<1> QED BY <1>4, <1>7, <1>8, <1>9, <1>10, <1>11 DEF Next

LEMMA Guarding == Spec => []Guards
<1>1. Init => Guards
  BY GuardsBegin
<1>2. Inv /\ Guards /\ [Next]_vars => Guards'
  BY GuardsKept
<1> QED BY <1>1, <1>2, Inductive, PTL DEF Spec

(* For plans of any size and shape and any answers of DNS: an accepted plan *)
(* is covered in all its cloud endpoints lead to, and a refused one has     *)
(* something in the way.  (preparePublicPlan)                               *)
THEOREM Judging == Spec => []VerdictIsRight
<1>1. Guards => VerdictIsRight
  BY DEF Guards, WalkInv
<1> QED BY <1>1, Guarding, PTL

(* However DNS answers and whatever it is redirected to, a download of a    *)
(* cloud resource connects to public addresses only and never leaves half   *)
(* a body behind.  (fetch)                                                  *)
THEOREM Downloading == Spec => []DownloadIsGuarded
<1>1. Guards => DownloadIsGuarded
  BY DEF Guards, GetInv
<1> QED BY <1>1, Guarding, PTL
=============================================================================
