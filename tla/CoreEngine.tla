----------------------------- MODULE CoreEngine -----------------------------
(***************************************************************************)
(* The engine of a host: one session on the core's daemon service, and the *)
(* commands any number of callers send it at any moment.  Lifecycle        *)
(* commands hold `lifecycle'; what a section under `mu' or under the lock  *)
(* of the day's record does is one step, and between two such sections any *)
(* other caller, the 30-second traffic writer or a kill of the host may    *)
(* come.                                                                   *)
(*                                                                         *)
(* The daemon is external: it closes the instance it has, which stays      *)
(* visible meanwhile, before it makes the next one; starting may fail at   *)
(* each step; it remembers the last choice made in any instance.  Traffic  *)
(* is counted in one direction.  A session is a number, a plan stands for  *)
(* its hash and for the controller it listens on.                          *)
(***************************************************************************)
EXTENDS PublicNetwork

CONSTANTS
  Callers,    \* threads that call into the engine
  Ticker,     \* keepTraffic
  Choices,    \* modes of the core, or members of a group
  CacheSize,  \* resultCacheSize
  LogSize,    \* logBufferSize
  Scenarios   \* bound: the plans in use, and how often each event may happen

Threads == Callers \cup {Ticker}
Starting == {"start", "reload"}
Lifecycle == Starting \cup {"stop", "close", "urlTest", "validate"}
WithPlan == Starting \cup {"urlTest", "validate"}
WithSession == {"reload", "setMode", "select", "use", "fetch"}
Remembered == {"start", "reload", "stop", "urlTest", "setMode", "select",
               "use", "fetch"}

Plans == UNION {UNION {s.plans[op] : op \in WithPlan} : s \in Scenarios}

Instances == [session : Nat, plan : Plans, total : Nat, open : BOOLEAN,
              choice : Choices, touched : BOOLEAN]

ASSUME EngineAssumption ==
  /\ CacheSize \in Nat \ {0}
  /\ LogSize \in Nat \ {0}
  /\ Ticker \notin Callers
  /\ None \notin Threads \cup Lifecycle \cup {"running"}
  /\ None \notin Instances
  /\ \A s \in Scenarios : "plans" \in DOMAIN s /\ DOMAIN s.plans = WithPlan
  /\ \A plan \in Plans : plan.choice \in Choices /\ IsPlan(plan)

VARIABLES
  facts,      \* under mu: state, sessionID, planHash, clashAPIListen
  lifecycle,  \* who holds the lifecycle lock
  instance,   \* what the daemon's Instance() returns
  memory,     \* the core's cache file: the last choice made
  day,        \* dayTotals
  file,       \* traffic-today.json
  today,      \* the local date, which never comes back
  cache,      \* resultCache
  logs,       \* logBuffer
  alive,      \* the engine's context is not cancelled
  job,        \* per thread: the command and where it stands
  planOf,     \* the plan of each session there ever was
  outcome,    \* the true outcome of each remembered command
  due,        \* history: traffic of sessions that ended under the record's date
  carried,    \* all traffic there ever was
  shown,      \* the snapshot answered last
  budget      \* bound: events left

mu == <<facts, planOf>>
daemon == <<instance, memory, carried>>
traffic == <<day, file, today, due>>
others == <<walk, get, logs, alive, shown>>

vars == <<mu, lifecycle, daemon, traffic, cache, job, outcome, others, budget>>

NoJob == [op |-> None, pc |-> "idle", plan |-> None, session |-> 0,
          choice |-> None, request |-> 0, total |-> 0, result |-> None]

NoDay == [date |-> 0, up |-> 0, last |-> 0, dirty |-> FALSE]
NoFile == [date |-> 0, up |-> 0, due |-> 0, slipped |-> 0]

(* Of the sessions that began and ended under the record's date: sum is all *)
(* they carried until they were closed, and slipped what they carried after *)
(* the command that ended them had looked for the last time.  A session is  *)
(* owed when the record kept its date since the command that started it     *)
(* counted the one before (whole).                                          *)
NoDue == [sum |-> 0, slipped |-> 0, whole |-> TRUE, owed |-> FALSE]

Stopped == [state |-> "stopped", session |-> 0, hash |-> None, listen |-> None]

(* newDayTotals reads back what the file says.                              *)
Loaded == [NoDay EXCEPT !.date = file.date, !.up = file.up]

Init ==
  /\ facts = Stopped
  /\ lifecycle = None
  /\ instance = None
  /\ memory = None
  /\ day = NoDay
  /\ file = NoFile
  /\ today = 1
  /\ cache = [order |-> <<>>, entries |-> <<>>]
  /\ logs = [entries |-> <<>>, start |-> 0, nextSeq |-> 1]
  /\ alive = TRUE
  /\ job = [t \in Threads |-> NoJob]
  /\ planOf = <<>>
  /\ outcome = <<>>
  /\ due = NoDue
  /\ carried = 0
  /\ shown = [Stopped EXCEPT !.state = None]
  /\ budget \in Scenarios
  /\ walk = Prepare(NoPlan)
  /\ get = NoGet

Spend(event) ==
  /\ budget[event] > 0
  /\ budget' = [budget EXCEPT ![event] = @ - 1]

Go(t, pc) == job' = [job EXCEPT ![t].pc = pc]

(* The command returns, and with it goes the lock it holds.                 *)
Reply(t, result) ==
  /\ job' = [job EXCEPT ![t].pc = "reply", ![t].result = result]
  /\ lifecycle' = IF lifecycle = t THEN None ELSE lifecycle

-----------------------------------------------------------------------------
(* The outcomes of the last commands.                                       *)

Elements(s) == {s[i] : i \in DOMAIN s}

Begun(request) ==
  LET order == Append(cache.order, request)
      kept  == IF Len(order) > CacheSize THEN Tail(order) ELSE order
  IN  [order   |-> kept,
       entries |-> [r \in Elements(kept) |->
                      IF r = request THEN "pending" ELSE cache.entries[r]]]

(* Mutated form of Finished: a command that was pushed out comes back.      *)
FinishedAnyway(request, result) ==
  [cache EXCEPT !.entries = [r \in DOMAIN @ \cup {request} |->
                               IF r = request THEN result ELSE @[r]]]

Finished(request, result) ==
  IF request \in DOMAIN cache.entries
  THEN [cache EXCEPT !.entries[request] = result]
  ELSE cache

Status(request) ==
  IF request \in DOMAIN cache.entries THEN cache.entries[request] ELSE "unknown"

(* A thread takes up a command.                                             *)
Call(t, op) ==
  /\ job[t] = NoJob
  /\ t \in Callers
  /\ Spend(op)
  /\ \E plan \in IF op \in WithPlan THEN budget.plans[op] ELSE {None},
        session \in IF op \in WithSession THEN 1 .. Len(planOf) ELSE {0},
        choice \in IF op \in {"setMode", "select"} THEN Choices ELSE {None} :
       job' = [job EXCEPT ![t] =
                 [op |-> op, plan |-> plan, session |-> session, choice |-> choice,
                  pc |-> IF op \in Lifecycle THEN "lock"
                         ELSE IF op = "snapshot" THEN "look" ELSE "check",
                  request |-> IF op \in Remembered THEN Len(outcome) + 1 ELSE 0,
                  total |-> 0, result |-> None]]
  /\ IF op \in Remembered
     THEN /\ cache' = Begun(Len(outcome) + 1)
          /\ outcome' = Append(outcome, "pending")
     ELSE UNCHANGED <<cache, outcome>>
  /\ UNCHANGED <<mu, lifecycle, daemon, traffic, others>>

Respond(t) ==
  /\ job[t].pc = "reply"
  /\ job' = [job EXCEPT ![t] = NoJob]
  /\ IF job[t].request = 0
     THEN UNCHANGED <<cache, outcome>>
     ELSE /\ cache' = Finished(job[t].request, job[t].result)
          /\ outcome' = [outcome EXCEPT ![job[t].request] = job[t].result]
  /\ UNCHANGED <<mu, lifecycle, daemon, traffic, others, budget>>

-----------------------------------------------------------------------------
(* The day's traffic.                                                       *)

(* roll, called first by everything that reads or adds.                     *)
Rolled(date) ==
  IF day.date = date THEN day
  ELSE [day EXCEPT !.date = date, !.up = 0, !.dirty = TRUE]

DueAfterRoll(date) ==
  IF day.date = date THEN due ELSE [NoDue EXCEPT !.whole = FALSE]

(* The session there is closes, and all that it carried is due.             *)
DueAfterClose ==
  [due EXCEPT !.sum = IF due.owed THEN @ + instance.total ELSE @, !.owed = FALSE]

Sampled(total) ==
  LET d == Rolled(today) IN
  [d EXCEPT !.up = IF total > d.last THEN @ + (total - d.last) ELSE @,
            !.dirty = @ \/ total > d.last,
            !.last = total]

AfterCount(op) ==
  CASE op \in Starting -> "ended"
    [] op \in {"stop", "close"} -> "closing"
    [] op = "snapshot" -> "reply"
    [] op = "tick" -> "save"

(* countTraffic reads the session's total first ...                         *)
Count(t) ==
  /\ job[t].pc = "count"
  /\ IF instance = None
     THEN /\ day' = Rolled(today)
          /\ due' = DueAfterRoll(today)
          /\ Go(t, AfterCount(job[t].op))
     ELSE /\ job' = [job EXCEPT ![t].total = instance.total, ![t].pc = "sample"]
          /\ UNCHANGED <<day, due>>
  /\ UNCHANGED <<mu, lifecycle, daemon, file, today, cache, outcome, others, budget>>

(* ... and adds to the day under the record's own lock.                     *)
Sample(t) ==
  /\ job[t].pc = "sample"
  /\ day' = Sampled(job[t].total)
  /\ due' = DueAfterRoll(today)
  /\ Go(t, AfterCount(job[t].op))
  /\ UNCHANGED <<mu, lifecycle, daemon, file, today, cache, outcome, others, budget>>

(* Mutated form of Ended: the next session is counted from the last total.  *)
EndedKeepsTotal(t) ==
  /\ job[t].pc = "ended"
  /\ UNCHANGED day
  /\ due' = [due EXCEPT !.whole = TRUE]
  /\ Go(t, IF job[t].op \in Starting THEN "offset" ELSE "save")
  /\ UNCHANGED <<mu, lifecycle, daemon, file, today, cache, outcome, others, budget>>

(* sessionEnded                                                             *)
Ended(t) ==
  /\ job[t].pc = "ended"
  /\ day' = [day EXCEPT !.last = 0]
  /\ due' = [due EXCEPT !.whole = TRUE]
  /\ Go(t, IF job[t].op \in Starting THEN "offset" ELSE "save")
  /\ UNCHANGED <<mu, lifecycle, daemon, file, today, cache, outcome, others, budget>>

(* setOffset: a request may tell of another time zone.                      *)
Offset(t) ==
  /\ job[t].pc = "offset"
  /\ Go(t, "announce")
  /\ \/ UNCHANGED <<traffic, budget>>
     \/ /\ Spend("date")
        /\ today' = today + 1
        /\ day' = Rolled(today + 1)
        /\ due' = DueAfterRoll(today + 1)
        /\ UNCHANGED file
  /\ UNCHANGED <<mu, lifecycle, daemon, cache, outcome, others>>

(* save                                                                     *)
Save(t) ==
  /\ job[t].pc = "save"
  /\ job' = IF job[t].op = "tick" THEN [job EXCEPT ![t] = NoJob]
            ELSE [job EXCEPT ![t].pc = "finish"]
  /\ \/ /\ day' = [day EXCEPT !.dirty = FALSE]
        /\ file' = [date |-> IF day.dirty THEN day.date ELSE file.date,
                    up   |-> IF day.dirty THEN day.up ELSE file.up,
                    due  |-> due.sum, slipped |-> due.slipped]
     \/ day.dirty /\ UNCHANGED <<day, file>>
  /\ UNCHANGED <<mu, lifecycle, daemon, today, due, cache, outcome, others, budget>>

(* keepTraffic, every thirty seconds.                                       *)
Tick ==
  /\ alive
  /\ job[Ticker] = NoJob
  /\ Spend("tick")
  /\ job' = [job EXCEPT ![Ticker] = [NoJob EXCEPT !.op = "tick", !.pc = "count"]]
  /\ UNCHANGED <<mu, lifecycle, daemon, traffic, cache, outcome, others>>

Midnight ==
  /\ Spend("date")
  /\ today' = today + 1
  /\ UNCHANGED <<mu, lifecycle, daemon, day, file, due, cache, job, outcome, others>>

(* The command that ends the session has read its total and reads no more.  *)
LookedLast ==
  /\ lifecycle # None
  /\ \/ job[lifecycle].pc \in {"sample", "closing"}
     \/ /\ job[lifecycle].pc \in {"ended", "offset", "announce", "swap"}
        /\ job[lifecycle].op \in Starting

(* The session carries traffic.                                             *)
Carry ==
  /\ instance # None
  /\ instance.open
  /\ Spend("traffic")
  /\ instance' = [instance EXCEPT !.total = @ + 1]
  /\ carried' = carried + 1
  /\ due' = [due EXCEPT !.slipped = IF due.owed /\ LookedLast THEN @ + 1 ELSE @]
  /\ UNCHANGED <<mu, lifecycle, memory, day, file, today, cache, job, outcome, others>>

-----------------------------------------------------------------------------
(* Lifecycle commands.                                                      *)

(* checkSession                                                             *)
IsRunning(session) == facts.state = "running" /\ facts.session = session

(* Mutated form of Admitted: a probe does not mind a session.               *)
AdmittedProbe(op, session) ==
  CASE op = "start" -> facts.state # "running"
    [] op = "reload" -> IsRunning(session)
    [] OTHER -> TRUE

Admitted(op, session) ==
  CASE op \in {"start", "urlTest"} -> facts.state # "running"
    [] op = "reload" -> IsRunning(session)
    [] OTHER -> TRUE

(* The lock is taken; nobody but its holder writes the state, so the first  *)
(* look at the state and the first write are part of the step.              *)
Enter(t) ==
  /\ job[t].pc = "lock"
  /\ lifecycle = None
  /\ IF ~Admitted(job[t].op, job[t].session)
     THEN Reply(t, "failed") /\ UNCHANGED <<facts, walk>>
     ELSE /\ lifecycle' = t
          /\ IF job[t].op \in WithPlan
             THEN /\ Go(t, "prepare")
                  /\ walk' = Prepare(job[t].plan)
                  /\ UNCHANGED facts
             ELSE /\ Go(t, "count")
                  /\ facts' = [facts EXCEPT !.state = "stopping"]
                  /\ UNCHANGED walk
  /\ UNCHANGED <<planOf, daemon, traffic, cache, outcome, get, logs, alive, shown, budget>>

(* preparePlan at work; DNS may keep it for long.                           *)
PreparePlan ==
  /\ lifecycle # None
  /\ job[lifecycle].pc = "prepare"
  /\ PrepareStep
  /\ UNCHANGED <<mu, lifecycle, daemon, traffic, cache, job, outcome, get, logs,
                 alive, shown, budget>>

(* A plan that is to replace a session, or is only asked about, is loaded   *)
(* on the side first (CheckConfig).                                         *)
Prepared(t) ==
  /\ job[t].pc = "prepare"
  /\ walk.verdict # "none"
  /\ \/ walk.verdict = "refused" /\ Reply(t, "failed")
     \/ /\ walk.verdict = "accepted"
        /\ \/ job[t].op \in {"reload", "validate"} /\ Spend("fault") /\ Reply(t, "failed")
           \/ /\ UNCHANGED budget
              /\ \/ job[t].op = "validate" /\ Reply(t, "done")
                 \/ /\ job[t].op # "validate"
                    /\ Go(t, IF job[t].op = "urlTest" THEN "swap" ELSE "count")
                    /\ UNCHANGED lifecycle
  /\ walk.verdict = "refused" => UNCHANGED budget
  /\ UNCHANGED <<mu, daemon, traffic, cache, outcome, others>>

(* run makes the session's name, and takes mu before the daemon replaces    *)
(* its instance.                                                            *)
Announce(t) ==
  /\ job[t].pc = "announce"
  /\ planOf' = Append(planOf, job[t].plan)
  /\ facts' = [facts EXCEPT !.session = Len(planOf) + 1, !.hash = None,
                            !.state = IF job[t].op = "start" THEN "starting"
                                      ELSE "reloading"]
  /\ Go(t, "swap")
  /\ UNCHANGED <<lifecycle, daemon, traffic, cache, outcome, others, budget>>

(* StartOrReloadService: the instance there is closes; one a failed stop or *)
(* probe left behind is closed by a probe that looks at no total ...        *)
Swap(t) ==
  /\ job[t].pc = "swap"
  /\ instance' = IF instance = None THEN None ELSE [instance EXCEPT !.open = FALSE]
  /\ due' = IF job[t].op = "urlTest" THEN [due EXCEPT !.owed = FALSE] ELSE DueAfterClose
  /\ Go(t, "replace")
  /\ UNCHANGED <<mu, lifecycle, memory, carried, day, file, today, cache, outcome,
                 others, budget>>

(* ... the next one is made ...                                             *)
Replace(t) ==
  /\ job[t].pc = "replace"
  /\ instance' = [session |-> IF job[t].op = "urlTest" THEN 0 ELSE facts.session,
                  plan |-> job[t].plan, total |-> 0, open |-> TRUE,
                  choice |-> IF memory = None THEN job[t].plan.choice ELSE memory,
                  touched |-> FALSE]
  /\ due' = [due EXCEPT !.owed = due.whole]
  /\ Go(t, "started")
  /\ UNCHANGED <<mu, lifecycle, memory, carried, day, file, today, cache, outcome,
                 others, budget>>

(* ... and does not come up: nothing runs.                                  *)
StartFails(t) ==
  /\ job[t].pc \in {"replace", "started"}
  /\ Spend("fault")
  /\ instance' \in {None} \cup (IF instance = None THEN {}
                                ELSE {[instance EXCEPT !.open = FALSE]})
  /\ facts' = IF job[t].op = "urlTest" THEN facts
              ELSE [facts EXCEPT !.state = "failed", !.hash = None]
  /\ due' = [due EXCEPT !.owed = FALSE]
  /\ Reply(t, "failed")
  /\ UNCHANGED <<planOf, memory, carried, day, file, today, cache, outcome, others>>

(* Mutated form of ApplyChoices: the core's own memory wins.                *)
ApplyNothing(t) ==
  /\ job[t].pc = "started"
  /\ job[t].op \in Starting
  /\ Go(t, "publish")
  /\ UNCHANGED <<mu, lifecycle, daemon, traffic, cache, outcome, others, budget>>

(* applyPlanChoices: a default the core does not have is passed over.       *)
ApplyChoices(t) ==
  /\ job[t].pc = "started"
  /\ job[t].op \in Starting
  /\ instance' = [instance EXCEPT !.choice = job[t].plan.choice, !.touched = FALSE]
  /\ memory' = job[t].plan.choice
  /\ Go(t, "publish")
  /\ UNCHANGED <<mu, lifecycle, carried, traffic, cache, outcome, others, budget>>

Publish(t) ==
  /\ job[t].pc = "publish"
  /\ facts' = [facts EXCEPT !.state = "running", !.hash = job[t].plan,
                            !.listen = job[t].plan]
  /\ Reply(t, "done")
  /\ UNCHANGED <<planOf, daemon, traffic, cache, outcome, others, budget>>

(* urlTest without a session: the probe answers and is closed; that closing *)
(* it failed is ignored.                                                    *)
Probed(t) ==
  /\ job[t].pc = "started"
  /\ job[t].op = "urlTest"
  /\ \/ /\ instance' = None
        /\ due' = [due EXCEPT !.owed = FALSE]
        /\ UNCHANGED budget
     \/ Spend("fault") /\ UNCHANGED <<instance, due>>
  /\ Reply(t, "done")
  /\ UNCHANGED <<mu, memory, carried, day, file, today, cache, outcome, others>>

(* CloseService, which may fail with the session still there.               *)
CloseService(t) ==
  /\ job[t].pc = "closing"
  /\ \/ /\ instance' = None
        /\ due' = [DueAfterClose EXCEPT !.whole = FALSE]
        /\ job' = [job EXCEPT ![t].pc = "ended", ![t].result = "done"]
        /\ UNCHANGED budget
     \/ /\ Spend("fault")
        /\ job' = [job EXCEPT ![t].pc = "ended", ![t].result = "failed"]
        /\ UNCHANGED <<instance, due>>
  /\ UNCHANGED <<mu, lifecycle, memory, carried, day, file, today, cache, outcome, others>>

StopEnds(t) ==
  /\ job[t].pc = "finish"
  /\ job[t].op = "stop"
  /\ facts' = IF job[t].result = "failed"
              THEN [facts EXCEPT !.state = "failed", !.hash = None]
              ELSE [facts EXCEPT !.state = "stopped", !.hash = None, !.session = 0]
  /\ Reply(t, job[t].result)
  /\ UNCHANGED <<planOf, daemon, traffic, cache, outcome, others, budget>>

(* Close cancels the engine's own work and waits for it.                    *)
Cancel(t) ==
  /\ job[t].pc = "finish"
  /\ job[t].op = "close"
  /\ alive' = FALSE
  /\ Go(t, "wait")
  /\ UNCHANGED <<mu, lifecycle, daemon, traffic, cache, outcome, walk, get, logs,
                 shown, budget>>

CloseEnds(t) ==
  /\ job[t].pc = "wait"
  /\ job[Ticker] = NoJob
  /\ facts' = [facts EXCEPT !.state = "stopped", !.hash = None]
  /\ Reply(t, "done")
  /\ UNCHANGED <<planOf, daemon, traffic, cache, outcome, others, budget>>

-----------------------------------------------------------------------------
(* Commands at any moment.                                                  *)

(* Mutated form of Look: the instance is read after mu was left.            *)
LookTwice(t) ==
  /\ \/ /\ job[t].pc = "look"
        /\ shown' = facts
        /\ Go(t, IF facts.state = "running" THEN "peek" ELSE "totals")
     \/ /\ job[t].pc = "peek"
        /\ shown' = [shown EXCEPT
                       !.listen = IF instance = None THEN None ELSE instance.plan]
        /\ Go(t, IF instance = None THEN "totals" ELSE "count")
  /\ UNCHANGED <<mu, lifecycle, daemon, traffic, cache, outcome, walk, get, logs,
                 alive, budget>>

(* Snapshot reads its facts and the instance in one section under mu.  What *)
(* it shows of the instance (inbounds, endpoints) is the instance's plan.   *)
Look(t) ==
  /\ job[t].pc = "look"
  /\ shown' = [facts EXCEPT !.listen = IF facts.state # "running" \/ instance = None
                                       THEN None ELSE instance.plan]
  /\ Go(t, IF facts.state # "running" \/ instance = None THEN "totals" ELSE "count")
  /\ UNCHANGED <<mu, lifecycle, daemon, traffic, cache, outcome, walk, get, logs,
                 alive, budget>>

(* totals                                                                   *)
Totals(t) ==
  /\ job[t].pc = "totals"
  /\ day' = Rolled(today)
  /\ due' = DueAfterRoll(today)
  /\ Go(t, "reply")
  /\ UNCHANGED <<mu, lifecycle, daemon, file, today, cache, outcome, others, budget>>

(* A command for a session is checked first, and acts after mu was left.    *)
Check(t) ==
  /\ job[t].pc = "check"
  /\ IF ~IsRunning(job[t].session)
     THEN Reply(t, "failed") /\ UNCHANGED get
     ELSE /\ UNCHANGED lifecycle
          /\ IF job[t].op # "fetch"
             THEN Go(t, "act") /\ UNCHANGED get
             ELSE /\ Go(t, "get")
                  /\ \E host \in Names \cup Addresses, public \in BOOLEAN :
                       Request(host, public)
  /\ UNCHANGED <<mu, daemon, traffic, cache, outcome, walk, logs, alive, shown, budget>>

(* setMode and select: a mode the plan does not have is silently ignored.   *)
Choose(t) ==
  /\ job[t].pc = "act"
  /\ job[t].op \in {"setMode", "select"}
  /\ UNCHANGED <<lifecycle, carried>>
  /\ \/ /\ instance # None
        /\ instance' = [instance EXCEPT !.choice = job[t].choice, !.touched = TRUE]
        /\ memory' = job[t].choice
        /\ UNCHANGED budget
     \/ /\ Spend("fault")
        /\ UNCHANGED <<instance, memory>>
     \/ instance = None /\ UNCHANGED <<instance, memory, budget>>
  /\ Go(t, "confirm")
  /\ UNCHANGED <<mu, traffic, cache, outcome, others>>

(* setMode confirms what took effect; select takes the core's word.         *)
Confirm(t) ==
  /\ job[t].pc = "confirm"
  /\ LET took == instance # None /\ instance.choice = job[t].choice IN
     Reply(t, IF took \/ job[t].op = "select" THEN "done" ELSE "failed")
  /\ UNCHANGED <<mu, daemon, traffic, cache, outcome, others, budget>>

(* Commands that only read the instance or its connections.                 *)
Use(t) ==
  /\ job[t].pc = "act"
  /\ job[t].op = "use"
  /\ Reply(t, IF instance = None THEN "failed" ELSE "done")
  /\ UNCHANGED <<mu, daemon, traffic, cache, outcome, others, budget>>

Fetch(t) ==
  /\ job[t].pc = "get"
  /\ GetStep
  /\ UNCHANGED <<mu, lifecycle, daemon, traffic, cache, job, outcome, walk, logs,
                 alive, shown, budget>>

Fetched(t) ==
  /\ job[t].pc = "get"
  /\ get.pc \in {"done", "failed"}
  /\ Reply(t, get.pc)
  /\ UNCHANGED <<mu, daemon, traffic, cache, outcome, others, budget>>

(* logBuffer.add: a line of the core or of the bridge.                      *)
AddLog ==
  /\ Spend("log")
  /\ logs' =
       [entries |-> IF Len(logs.entries) < LogSize
                    THEN Append(logs.entries, logs.nextSeq)
                    ELSE [logs.entries EXCEPT ![logs.start + 1] = logs.nextSeq],
        start   |-> IF Len(logs.entries) < LogSize THEN logs.start
                    ELSE (logs.start + 1) % LogSize,
        nextSeq |-> logs.nextSeq + 1]
  /\ UNCHANGED <<mu, lifecycle, daemon, traffic, cache, job, outcome, walk, get,
                 alive, shown>>

(* Mutated form of Page: the ring is read from its first slot.               *)
PageUnturned(afterSeq, limit) ==
  LET count  == Len(logs.entries)
      oldest == logs.nextSeq - count
      first  == IF afterSeq + 1 < oldest THEN oldest ELSE afterSeq + 1
      last   == IF first + limit < logs.nextSeq THEN first + limit - 1
                ELSE logs.nextSeq - 1
  IN  IF afterSeq >= logs.nextSeq - 1
      THEN [entries |-> <<>>, next |-> logs.nextSeq - 1, dropped |-> 0]
      ELSE [entries |-> [i \in 1 .. (last - first + 1) |->
                           logs.entries[1 + ((first + i - 1 - oldest) % count)]],
            next    |-> last,
            dropped |-> first - (afterSeq + 1)]

(* logBuffer.page: the entries after afterSeq that are still there.          *)
Page(afterSeq, limit) ==
  LET count  == Len(logs.entries)
      oldest == logs.nextSeq - count
      first  == IF afterSeq + 1 < oldest THEN oldest ELSE afterSeq + 1
      last   == IF first + limit < logs.nextSeq THEN first + limit - 1
                ELSE logs.nextSeq - 1
  IN  IF afterSeq >= logs.nextSeq - 1
      THEN [entries |-> <<>>, next |-> logs.nextSeq - 1, dropped |-> 0]
      ELSE [entries |-> [i \in 1 .. (last - first + 1) |->
                           logs.entries[1 + ((logs.start + first + i - 1 - oldest) % count)]],
            next    |-> last,
            dropped |-> first - (afterSeq + 1)]

(* The host is killed, and comes back with what it had written down.        *)
Restart ==
  /\ Spend("kill")
  /\ facts' = Stopped
  /\ lifecycle' = None
  /\ instance' = None
  /\ day' = Loaded
  /\ due' = [NoDue EXCEPT !.sum = file.due, !.slipped = file.slipped]
  /\ cache' = [order |-> <<>>, entries |-> <<>>]
  /\ logs' = [entries |-> <<>>, start |-> 0, nextSeq |-> 1]
  /\ alive' = TRUE
  /\ job' = [t \in Threads |-> NoJob]
  /\ outcome' = <<>>
  /\ shown' = [Stopped EXCEPT !.state = None]
  /\ UNCHANGED <<planOf, memory, carried, file, today, walk, get>>

(* Every command was answered.                                              *)
AtRest ==
  /\ \A t \in Threads : job[t] = NoJob
  /\ UNCHANGED vars

LifecycleStep(t) ==
  \/ Enter(t)
  \/ Prepared(t)
  \/ Announce(t)
  \/ Swap(t)
  \/ Replace(t)
  \/ StartFails(t)
  \/ ApplyChoices(t)
  \/ Publish(t)
  \/ Probed(t)
  \/ CloseService(t)
  \/ StopEnds(t)
  \/ Cancel(t)
  \/ CloseEnds(t)

TrafficStep(t) ==
  \/ Count(t)
  \/ Sample(t)
  \/ Ended(t)
  \/ Offset(t)
  \/ Save(t)
  \/ Totals(t)

QueryStep(t) ==
  \/ Respond(t)
  \/ Look(t)
  \/ Check(t)
  \/ Choose(t)
  \/ Confirm(t)
  \/ Use(t)
  \/ Fetch(t)
  \/ Fetched(t)

Next ==
  \/ \E t \in Threads : LifecycleStep(t) \/ TrafficStep(t) \/ QueryStep(t)
  \/ \E t \in Callers :
       \E op \in Lifecycle \cup Remembered \cup {"snapshot"} : Call(t, op)
  \/ PreparePlan
  \/ Tick
  \/ Midnight
  \/ Carry
  \/ AddLog
  \/ Restart
  \/ AtRest

Spec == Init /\ [][Next]_vars

-----------------------------------------------------------------------------
(* What the engine calls running is what the daemon runs: the instance of   *)
(* that session, open, from the plan whose hash and controller the engine   *)
(* shows.  A probe never stands in for it.  (run, stop, Close, urlTest)     *)
RunningIsServed ==
  facts.state = "running" =>
    /\ instance # None
    /\ instance.open
    /\ instance.session = facts.session
    /\ planOf[facts.session] = facts.hash
    /\ instance.plan = facts.hash
    /\ facts.listen = facts.hash

(* A snapshot pairs the facts of one session with the inbounds of that same *)
(* session, however reloads, stops and probes run meanwhile.  (Snapshot)    *)
SnapshotIsOfOneSession ==
  shown.state = "running" /\ shown.listen # None =>
    shown.listen = shown.hash /\ planOf[shown.session] = shown.hash

(* All that a session carried until it was closed is in the day's sum,      *)
(* whoever sampled when, if the record kept its date from the moment the    *)
(* command that started the session noted the end of the one before; but    *)
(* for what it carried after the command that ended it had read its total   *)
(* (engine.go:330 and 437), which the code loses.  Once the sums were       *)
(* saved, a kill of the host does not lose more.  (dayTotals, countTraffic) *)
EndedTrafficIsCounted ==
  /\ day.up + due.slipped >= due.sum
  /\ file.up + file.slipped >= file.due

(* While the date stays, the day's sum is no more than what was carried.    *)
(* (dayTotals: "keeps the running sum for the day")                         *)
DayCountsOnce == day.up <= carried

(* A running session has the choices of its plan, whatever the core         *)
(* remembers of earlier sessions, until a command changed them.             *)
(* (applyPlanChoices)                                                       *)
PlanChoicesHold ==
  facts.state = "running" /\ ~instance.touched =>
    instance.choice = facts.hash.choice

(* The cache answers for the last commands, each with its own outcome, and  *)
(* for no other.                                                            *)
LastResultsAreKept ==
  \A r \in DOMAIN outcome :
    Status(r) = IF r > Len(outcome) - CacheSize THEN outcome[r] ELSE "unknown"

(* A page continues where its reader stopped: the lines it returns and      *)
(* those it reports dropped follow the last one seen without a gap, in      *)
(* order, and only lines the buffer no longer holds are dropped.            *)
PagesFollowTheLog ==
  \A afterSeq \in 0 .. logs.nextSeq, limit \in 1 .. LogSize :
    LET page == Page(afterSeq, limit) IN
    /\ \A i \in DOMAIN page.entries :
         page.entries[i] = afterSeq + page.dropped + i
    /\ page.dropped > 0 => afterSeq + page.dropped < logs.nextSeq - LogSize
    /\ afterSeq < logs.nextSeq =>
         page.next = afterSeq + page.dropped + Len(page.entries)
    /\ page.entries = <<>> <=> afterSeq >= logs.nextSeq - 1

(* What the engine keeps in bounded memory is exactly the newest of it, the *)
(* outcomes an app asks about after it lost an answer and the lines a       *)
(* viewer pages through.  (resultCache, logBuffer)                          *)
NewestIsKept == LastResultsAreKept /\ PagesFollowTheLog
=============================================================================
