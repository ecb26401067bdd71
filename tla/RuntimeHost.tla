---------------------------- MODULE RuntimeHost ----------------------------
(***************************************************************************)
(* The proxy session: RuntimeCoordinator turns what the user wants into    *)
(* commands for the host process, one at a time, and follows the host      *)
(* through snapshots; HostGateway carries each command with a request id   *)
(* and asks what became of it when the wait runs out; the bridge's Engine  *)
(* runs starts, reloads and stops one at a time under its lifecycle lock.  *)
(*                                                                         *)
(* The host also changes by itself: a panel on the Clash API switches the  *)
(* outbound mode, the system or the notification stops the session, and    *)
(* the system starts it again from the files the last plan left.           *)
(***************************************************************************)
EXTENDS Naturals, Sequences

CONSTANTS
  Cfgs,         \* contents of everything a plan is compiled from
  Broken,       \* contents that do not compile for the proxy
  Modes,        \* outbound modes: the choice a running session can switch
  None,         \* no plan, no mode
  Budgets,      \* bounds: how often each kind of event may happen
  MaxQueue      \* bound: commands behind the one under way

(* What the user does, what happens to the host outside the application,   *)
(* and what fails.  "launch": the application is opened over a host that    *)
(* rests, with "connect after launch" set.                                  *)
Kinds == {"launch", "press", "tailnet", "edit", "panel", "hostStop", "hostStart",
          "answer", "reorder", "disk", "crash", "core", "consent"}

Plans == [proxy : BOOLEAN, tailnet : BOOLEAN, cfg : Cfgs]

PlanFiles == [plan : Plans, mode : Modes]

ASSUME ConstantsAssumption ==
  /\ Broken \subseteq Cfgs
  /\ None \notin Modes \cup Plans \cup PlanFiles
  /\ Budgets \subseteq [Kinds -> Nat]
  /\ MaxQueue \in Nat \ {0}

(* A plan is a record of what it starts (proxy, tailnet) and of the content *)
(* it was compiled from (cfg); it stands for its hash, and choices such as  *)
(* the mode are not part of it.  A plan file holds the choices too.         *)
VARIABLES
  phase,     \* RuntimeState.phase
  seen,      \* RuntimeState.snapshot: its plan hash and proxyActive
  attested,  \* the plan whose mixed port RuntimeState shows
  wanted,    \* _wanted
  touched,   \* _proxyIntentTouched
  sid,       \* _sessionId
  hash,      \* _planHash
  expected,  \* _expected: the mode the session should run with
  tagged,    \* RuntimeState.tags is not empty
  keptMode,  \* _keptChoices
  watching,  \* the plan's inputs are listened to
  due,       \* a debounced sync is due
  queue,     \* the commands behind the one under way
  job,       \* the command under way
  look,      \* the shared snapshot query
  cfg, mode, tailnet,   \* the saved settings
  next,      \* plan.next.json
  kept,      \* plan.json
  noted,     \* the host's note of the hash it runs
  host,      \* the engine
  exec,      \* the request that holds the lifecycle lock
  wire,      \* requests sent and not taken up yet
  accepted,  \* history: the plans a core has run
  missed,    \* history: the last compilation failed, or an edit since was not heard
  halted,    \* history: a poll showed that the session ended, and since then
             \* nobody asked for one and none was seen
  cancelled, \* history: the start under way was called off at the prompt
  budget,    \* bounds: how often each kind of event may happen
  spent      \* how often each has happened

shown    == <<phase, seen, attested>>
intent   == <<wanted, touched>>
session  == <<sid, hash, expected, tagged>>
follow   == <<watching, due>>
settings == <<cfg, mode, tailnet, budget>>
files    == <<next, kept, noted, keptMode>>
engine   == <<host, exec>>
history  == <<accepted, missed, halted, cancelled>>
vars == <<shown, intent, session, follow, queue, job, look, settings, files,
          engine, wire, history, spent>>

BusyPhases == {"starting", "reloading", "stopping"}

Connected(p) == p \in {"running", "reloading"}

NoSnapshot == [state |-> "stopped", session |-> 0, hash |-> None,
               proxy |-> FALSE, mode |-> None]

(* What the command under way is, where it stands, the plan and mode it     *)
(* compiled, and the answer of the host.                                    *)
Idle == [cmd |-> "none", at |-> "idle", plan |-> None, mode |-> None,
         answer |-> "none", session |-> 0, snap |-> NoSnapshot]

At(cmd, at) == [Idle EXCEPT !.cmd = cmd, !.at = at]

(* fresh: no command of ours began or ended since the query was sent.       *)
NoLook == [at |-> "none", fresh |-> FALSE, snap |-> NoSnapshot]

(* A request: own while the coordinator still waits for its answer.         *)
NoRequest == [op |-> "none"]

Stopped(born) == [state |-> "stopped", session |-> 0, hash |-> None,
                  file |-> None, mode |-> None, born |-> born]

Running(file, h, born) == [state |-> "running", session |-> born, hash |-> h,
                           file |-> file, mode |-> file.mode, born |-> born]

-----------------------------------------------------------------------------
(* The application opens over a host that rests or still runs a plan.       *)
Init ==
  /\ phase = "stopped" /\ attested = None
  /\ seen = [hash |-> None, proxy |-> TRUE]
  /\ wanted = FALSE /\ touched = FALSE
  /\ sid = 0 /\ hash = None /\ expected = None /\ tagged = FALSE /\ keptMode = None
  /\ watching = FALSE /\ due = FALSE
  /\ queue = <<"attach">> /\ job = Idle /\ look = NoLook
  /\ cfg \in Cfgs \ Broken /\ mode \in Modes /\ tailnet = FALSE
  /\ next = None /\ kept \in {None, [plan |-> [proxy |-> TRUE, tailnet |-> FALSE, cfg |-> cfg],
                                     mode |-> mode]}
  /\ noted = IF kept = None THEN None ELSE kept.plan
  /\ host \in {Stopped(0)} \cup (IF kept = None THEN {} ELSE {Running(kept, noted, 1)})
  /\ exec = NoRequest /\ wire = {}
  /\ accepted = IF kept = None THEN {} ELSE {kept.plan}
  /\ missed = FALSE /\ halted = FALSE /\ cancelled = FALSE
  /\ budget \in Budgets /\ spent = [k \in Kinds |-> 0]

Spend(kind) ==
  /\ spent[kind] < budget[kind]
  /\ spent' = [spent EXCEPT ![kind] = @ + 1]

(* Commands follow each other, and refresh() follows a command's answer,    *)
(* within one turn of the event loop.                                       *)
Between ==
  /\ job # Idle \/ queue = <<>>
  /\ job.at = "refresh" => look # NoLook /\ ~look.fresh

Room == Len(queue) < MaxQueue

Enqueue(c) == Room /\ queue' = Append(queue, c)

(* A command that begins or ends makes a query under way stale.             *)
Staled == [look EXCEPT !.fresh = FALSE]

Ended == job' = Idle /\ look' = Staled

-----------------------------------------------------------------------------
(***************************************************************************)
(* What the coordinator does in several places.                            *)
(***************************************************************************)

(* _schedule(): the plan's inputs are followed while a session runs.        *)
Schedule(p) ==
  /\ watching' = Connected(p)
  /\ due' = (due /\ Connected(p))

(* _stopped()                                                               *)
ShowStopped ==
  /\ phase' = "stopped"
  /\ attested' = None
  /\ sid' = 0 /\ hash' = None /\ expected' = None /\ tagged' = FALSE
  /\ watching' = FALSE /\ due' = FALSE
  /\ UNCHANGED seen


AdoptRunning(snap, m) ==
  /\ snap.state = "running"
  /\ sid' = snap.session
  /\ hash' = IF hash = None THEN snap.hash ELSE hash
  /\ phase' = IF phase = "reloading" THEN phase ELSE "running"
  /\ attested' = IF job = Idle /\ snap.hash # seen.hash THEN None ELSE attested
  /\ expected' = m
  /\ watching' = TRUE
  /\ UNCHANGED <<tagged, due>>

AdoptStopped(snap) ==
  /\ snap.state \in {"stopped", "failed"}
  /\ phase' = IF phase \in BusyPhases THEN phase ELSE "stopped"
  /\ attested' = None
  /\ IF Connected(phase)
     THEN sid' = 0 /\ hash' = None /\ expected' = None
     ELSE UNCHANGED <<sid, hash, expected>>
  /\ Schedule(phase')
  /\ UNCHANGED tagged

AdoptMoving(snap) ==
  /\ snap.state \in BusyPhases
  /\ UNCHANGED <<phase, attested, session, follow>>

(* _adopt(), but for the intent; m is the mode expected of a session that   *)
(* runs.                                                                    *)
Adopt(snap, m) ==
  /\ seen' = [hash |-> snap.hash, proxy |-> snap.proxy]
  /\ AdoptRunning(snap, m) \/ AdoptStopped(snap) \/ AdoptMoving(snap)

(* Mutated form of IntentAfter: also while a command of ours is under way.  *)
IntentAlwaysFollows(snap) ==
  CASE snap.state = "running" -> snap.proxy
    [] snap.state \in {"stopped", "failed"} -> wanted /\ ~Connected(phase)
    [] OTHER -> wanted

(* Mutated form of IntentAfter: a session that ended leaves the intent.     *)
IntentOutlivesSession(snap) ==
  IF job = Idle /\ snap.state = "running" THEN snap.proxy ELSE wanted

(* The intent follows the host when no command of ours is under way.        *)
IntentAfter(snap) ==
  IF job # Idle THEN wanted
  ELSE CASE snap.state = "running" -> snap.proxy
         [] snap.state \in {"stopped", "failed"} -> wanted /\ ~Connected(phase)
         [] OTHER -> wanted

(* Snapshot() of the engine                                                 *)
Snapshot ==
  LET up == host.state = "running" IN
  [state |-> host.state, session |-> host.session, hash |-> host.hash,
   proxy |-> up /\ host.file.plan.proxy,
   mode |-> IF up THEN host.mode ELSE None]

Send(op, h, m) ==
  wire' = wire \cup {[op |-> op, sid |-> sid, hash |-> h, mode |-> m, own |-> TRUE]}

-----------------------------------------------------------------------------
(***************************************************************************)
(* The queue.                                                              *)
(***************************************************************************)

(* _syncPlan() does nothing unless a session runs.                          *)
BeginSync ==
  /\ job' = IF phase = "running" THEN At("sync", "compile") ELSE Idle
  /\ UNCHANGED <<phase, wire>>

(* _startOrSync()                                                           *)
BeginStart ==
  \/ Connected(phase) /\ BeginSync
  \/ /\ ~Connected(phase) /\ ~wanted /\ ~tailnet
     /\ job' = Idle
     /\ UNCHANGED <<phase, wire>>
  \/ /\ ~Connected(phase) /\ (wanted \/ tailnet)
     /\ phase' = "starting"
     /\ job' = At("start", "consent")
     /\ UNCHANGED wire

(* _stopSession()                                                           *)
BeginStop ==
  \/ /\ phase = "stopped"
     /\ job' = Idle
     /\ UNCHANGED <<phase, wire>>
  \/ /\ phase # "stopped"
     /\ phase' = "stopping"
     /\ Send("stop", None, None)
     /\ job' = At("stop", "await")

Begin ==
  /\ job = Idle /\ queue # <<>>
  /\ queue' = Tail(queue)
  /\ look' = Staled
  /\ \/ /\ Head(queue) = "attach"
        /\ job' = At("attach", "read")
        /\ UNCHANGED <<phase, wire>>
     \/ Head(queue) \in {"connect", "tailnetOn"} /\ BeginStart
     \/ Head(queue) = "tailnetOff" /\ wanted /\ BeginStart
     \/ Head(queue) = "tailnetOff" /\ ~wanted /\ BeginStop
     \/ Head(queue) = "sync" /\ BeginSync
     \/ Head(queue) = "disconnect" /\ tailnet /\ BeginSync
     \/ Head(queue) = "disconnect" /\ ~tailnet /\ BeginStop
     \/ Head(queue) = "stopAll" /\ BeginStop
  /\ UNCHANGED <<seen, attested, intent, session, follow, settings, files, engine,
                 history, spent>>

-----------------------------------------------------------------------------
(***************************************************************************)
(* attach()                                                                *)
(***************************************************************************)
AttachReads ==
  /\ job.at = "read"
  /\ job' = [job EXCEPT !.at = "adopt", !.snap = Snapshot]
  /\ UNCHANGED <<shown, intent, session, follow, queue, look, settings, files,
                 engine, wire, history, spent>>

AttachAdopts ==
  LET snap == job.snap
      mine == IF touched THEN wanted ELSE snap.proxy
      up == snap.state = "running"
  IN
  /\ job.at = "adopt"
  /\ Ended
  /\ Adopt(snap, expected)
  /\ \/ /\ up
        /\ Enqueue("sync")
        /\ wanted' = mine
        /\ halted' = (halted /\ ~snap.proxy)
        /\ UNCHANGED <<touched, spent>>
     \/ /\ ~up \* connect after launch
        /\ Spend("launch")
        /\ Enqueue("connect")
        /\ wanted' = TRUE /\ touched' = TRUE /\ halted' = FALSE
     \/ /\ ~up
        /\ IF tailnet THEN Enqueue("connect") ELSE UNCHANGED queue
        /\ wanted' = mine
        /\ UNCHANGED <<touched, halted, spent>>
  /\ UNCHANGED <<settings, files, engine, wire, accepted, missed, cancelled>>

(***************************************************************************)
(* The system asks the user before a start.                                *)
(***************************************************************************)

(* Mutated form of MayStart: the intent is not read again.                  *)
MayStartRegardless == TRUE

(* Stop was pressed while the system asked: do not start after all.         *)
MayStart == wanted \/ tailnet

Consent ==
  /\ job.at = "consent"
  /\ \/ /\ MayStart
        /\ job' = [job EXCEPT !.at = "compile"]
        /\ UNCHANGED <<shown, session, follow, look, spent>>
     \/ ~MayStart /\ ShowStopped /\ Ended /\ UNCHANGED spent
     \/ Spend("consent") /\ ShowStopped /\ Ended
  /\ UNCHANGED <<intent, queue, settings, files, engine, wire, history>>

(***************************************************************************)
(* A plan is compiled, and sent when it differs from the one that runs.    *)
(***************************************************************************)
Current == [proxy |-> wanted, tailnet |-> tailnet, cfg |-> cfg]

Compiles == ~(wanted /\ cfg \in Broken)

(* Mutated form of NeedsReload: the tailnet part is not compared.           *)
NeedsReloadForProxy ==
  IF hash = None THEN TRUE ELSE [Current EXCEPT !.tailnet = hash.tailnet] # hash

NeedsReload == Current # hash

Compile ==
  /\ job.at = "compile"
  /\ missed' = ~Compiles
  /\ \/ ~Compiles /\ job.cmd = "start" /\ ShowStopped /\ Ended
     \/ ~Compiles /\ job.cmd = "sync" /\ Ended /\ UNCHANGED <<shown, session, follow>>
     \/ /\ Compiles /\ job.cmd = "start"
        /\ job' = [job EXCEPT !.at = "write", !.plan = Current, !.mode = mode]
        /\ UNCHANGED <<shown, session, follow, look>>
     \/ /\ Compiles /\ job.cmd = "sync" /\ NeedsReload
        /\ job' = [job EXCEPT !.cmd = "reload", !.at = "write", !.plan = Current,
                              !.mode = mode]
        /\ phase' = "reloading"
        /\ UNCHANGED <<seen, attested, session, follow, look>>
     \/ /\ Compiles /\ job.cmd = "sync" /\ ~NeedsReload
        /\ job' = [job EXCEPT !.cmd = "switch", !.at = "compare", !.plan = Current,
                              !.mode = mode]
        /\ expected' = mode
        /\ UNCHANGED <<shown, sid, hash, tagged, follow, look>>
  /\ UNCHANGED <<intent, queue, settings, files, engine, wire, accepted,
                 halted, cancelled, spent>>

(* Mutated form of WritePlan: the plan is written over the one kept.        *)
WritePlanInPlace ==
  /\ job.at = "write"
  /\ next' = [plan |-> job.plan, mode |-> job.mode]
  /\ kept' = next'
  /\ Send(job.cmd, job.plan, job.mode)
  /\ job' = [job EXCEPT !.at = "await"]
  /\ UNCHANGED <<shown, intent, session, follow, queue, look, settings, noted,
                 keptMode, engine, history, spent>>

(* _writePlan(), then start() or reload()                                   *)
WritePlan ==
  /\ job.at = "write"
  /\ next' = [plan |-> job.plan, mode |-> job.mode]
  /\ Send(job.cmd, job.plan, job.mode)
  /\ job' = [job EXCEPT !.at = "await"]
  /\ UNCHANGED <<shown, intent, session, follow, queue, look, settings, kept, noted,
                 keptMode, engine, history, spent>>

(* The plan the host runs is from now on the one it restarts from.          *)
Keep(file) ==
  /\ kept' = file
  /\ next' = None
  /\ keptMode' = job.mode
  /\ UNCHANGED noted

(* Mutated form of Attest: the settings saved now stand for the plan.       *)
AttestSaved == attested' = IF wanted THEN Current ELSE None

Attest == attested' = IF job.plan.proxy THEN job.plan ELSE None

-----------------------------------------------------------------------------
(***************************************************************************)
(* What each answer leads to.                                              *)
(***************************************************************************)
Started ==
  /\ job.cmd \in {"start", "reload"}
  /\ Keep(next)
  /\ sid' = job.session
  /\ hash' = job.plan
  /\ expected' = job.mode
  /\ tagged' = TRUE
  /\ phase' = "running"
  /\ Attest
  /\ UNCHANGED <<seen, follow>>

(* The plan file is written anew for choices it does not hold.              *)
Switched ==
  /\ job.cmd = "switch"
  /\ IF keptMode = job.mode THEN UNCHANGED files
     ELSE Keep([plan |-> job.plan, mode |-> job.mode])
  /\ tagged' = TRUE
  /\ Attest
  /\ UNCHANGED <<phase, seen, sid, hash, expected, follow>>

(* A setMode that is still missing is sent; its answer leads to Switched.   *)
Compare ==
  /\ job.at = "compare"
  /\ \/ /\ Snapshot.mode # job.mode
        /\ Send("setMode", None, job.mode)
        /\ job' = [job EXCEPT !.at = "await"]
        /\ UNCHANGED <<shown, session, follow, files>>
     \/ /\ Snapshot.mode = job.mode
        /\ Switched
        /\ job' = [job EXCEPT !.at = "refresh"]
        /\ UNCHANGED wire
  /\ UNCHANGED <<intent, queue, look, settings, engine, history, spent>>

(* Answers arrive in the order the host gave them, unless one is delayed.   *)
Arrives == IF look.at = "served" /\ look.fresh THEN Spend("reorder") ELSE UNCHANGED spent

Succeeded ==
  /\ job.at = "await" /\ job.answer = "done"
  /\ Arrives
  /\ Started \/ Switched \/ (job.cmd = "stop" /\ ShowStopped /\ UNCHANGED files)
  /\ job' = [job EXCEPT !.at = "refresh"]
  /\ UNCHANGED <<intent, queue, look, settings, engine, wire, history>>

(* Mutated form of HostException: a failed reload leaves the phase alone.   *)
HostExceptionKeepsPhase ==
  \/ job.cmd = "attach" /\ Ended /\ UNCHANGED <<shown, session, follow>>
  \/ job.cmd = "start" /\ ShowStopped /\ Ended
  \/ /\ job.cmd \in {"reload", "switch", "stop"}
     /\ job' = [job EXCEPT !.at = "refresh"]
     /\ UNCHANGED <<shown, session, follow, look>>

(* A HostException, of each command                                         *)
HostException ==
  \/ job.cmd = "attach" /\ Ended /\ UNCHANGED <<shown, session, follow>>
  \/ job.cmd = "start" /\ ShowStopped /\ Ended
  \/ /\ job.cmd \in {"reload", "switch"}
     /\ phase' = "running"
     /\ job' = [job EXCEPT !.at = "refresh"]
     /\ UNCHANGED <<seen, attested, session, follow, look>>
  \/ /\ job.cmd = "stop"
     /\ job' = [job EXCEPT !.at = "refresh"]
     /\ UNCHANGED <<shown, session, follow, look>>

Refused ==
  /\ job.at = "await" /\ job.answer = "failed"
  /\ Arrives
  /\ HostException
  /\ UNCHANGED <<intent, queue, settings, files, engine, wire, history>>

Orphan(r) == IF r = NoRequest THEN r ELSE [r EXCEPT !.own = FALSE]

(***************************************************************************)
(* The wait for an answer ends without one: the host cannot be reached, or *)
(* the time ran out and queryCommand does not report the request as done.  *)
(* The request may still be on its way, be under way, or never arrive.     *)
(***************************************************************************)
AnswerLost ==
  /\ Spend("answer")
  /\ job.at \in {"read", "compare", "await"}
  /\ HostException
  /\ \/ wire' = {Orphan(r) : r \in wire}
     \/ wire' = {r \in wire : ~r.own} /\ \E r \in wire : r.own
  /\ exec' = Orphan(exec)
  /\ UNCHANGED <<intent, queue, settings, files, host, history>>

(* A failed write or rename is not a HostException: it ends the command.    *)
DiskFails ==
  /\ Spend("disk")
  /\ \/ job.at = "write"
     \/ job.at = "await" /\ job.answer = "done" /\ job.cmd \in {"start", "reload"}
     \/ job.at = "compare" /\ Snapshot.mode = job.mode /\ keptMode # job.mode
  /\ Ended
  /\ UNCHANGED <<shown, intent, session, follow, queue, settings, files, engine,
                 wire, history>>

-----------------------------------------------------------------------------
(***************************************************************************)
(* refresh(): one query at a time, shared by those who ask within one      *)
(* command epoch.                                                          *)
(***************************************************************************)
Ask == look' = [NoLook EXCEPT !.at = "sent", !.fresh = TRUE]

(* The poll, or a page that came into view.                                 *)
Poll ==
  /\ Between
  /\ look = NoLook
  /\ Ask
  /\ UNCHANGED <<shown, intent, session, follow, queue, job, settings, files,
                 engine, wire, history, spent>>

(* Mutated form of FollowUp: any query under way is shared.                 *)
FollowUpShares ==
  /\ job.at = "refresh"
  /\ IF look = NoLook THEN Ask ELSE UNCHANGED look
  /\ job' = [job EXCEPT !.at = "wait"]
  /\ UNCHANGED <<shown, intent, session, follow, queue, settings, files, engine,
                 wire, history, spent>>

(* A command's follow-up cannot reuse a query sent before the command.      *)
FollowUp ==
  /\ job.at = "refresh"
  /\ \/ look = NoLook /\ Ask
     \/ look.fresh /\ UNCHANGED look
  /\ job' = [job EXCEPT !.at = "wait"]
  /\ UNCHANGED <<shown, intent, session, follow, queue, settings, files, engine,
                 wire, history, spent>>

Answered == IF job.at = "wait" THEN [job EXCEPT !.at = "end"] ELSE job

Serve ==
  /\ look.at = "sent"
  /\ look' = [look EXCEPT !.at = "served", !.snap = Snapshot]
  /\ UNCHANGED <<shown, intent, session, follow, queue, job, settings, files,
                 engine, wire, history, spent>>

(* A snapshot that a command of ours overlapped says nothing certain.       *)
AdoptsFresh == look.fresh

(* Mutated form of ChangedOutside: looked for at the wrong times.           *)
ChangedWhileBusy(snap) ==
  /\ job = Idle
  /\ expected # None /\ tagged
  /\ phase \in BusyPhases
  /\ snap.mode \notin {expected, None}

(* A mode that neither the plan nor a command of ours chose.                *)
ChangedOutside(snap) ==
  /\ job = Idle
  /\ expected # None /\ tagged
  /\ phase \notin BusyPhases
  /\ snap.mode \notin {expected, None}

(* What a poll shows of a session that ended, or that runs, by itself.      *)
SeenToEnd(snap) ==
  job = Idle /\ Connected(phase) /\ snap.state \in {"stopped", "failed"}

SeenToRun(snap) == job = Idle /\ snap.proxy

Receive ==
  /\ Between
  /\ look.at = "served"
  /\ \/ /\ ~AdoptsFresh
        /\ look' = NoLook
        /\ job' = Answered
        /\ UNCHANGED <<shown, intent, session, follow, halted>>
     \/ /\ AdoptsFresh
        /\ LET snap == look.snap
               changed == snap.state = "running" /\ ChangedOutside(snap)
           IN /\ Adopt(snap, IF changed THEN snap.mode ELSE expected)
              /\ wanted' = IntentAfter(snap)
              /\ look' = IF changed THEN [look EXCEPT !.at = "writing"] ELSE NoLook
              /\ halted' = ((halted \/ SeenToEnd(snap)) /\ ~SeenToRun(snap))
        /\ job' = Answered
        /\ UNCHANGED touched
  /\ UNCHANGED <<queue, settings, files, engine, wire, accepted, missed,
                 cancelled, spent>>

(* The host cannot be asked.                                                *)
QueryFails ==
  /\ Between
  /\ look.at \in {"sent", "served"}
  /\ Spend("answer")
  /\ look' = NoLook
  /\ job' = Answered
  /\ UNCHANGED <<shown, intent, session, follow, queue, settings, files, engine,
                 wire, history>>

(* What the panel chose becomes the user's choice, and is synced like any.  *)
WriteBack ==
  /\ Between
  /\ look.at = "writing"
  /\ mode' = look.snap.mode
  /\ \/ mode' # mode /\ watching /\ Enqueue("sync")
     \/ (mode' = mode \/ ~watching) /\ UNCHANGED queue
  /\ look' = NoLook
  /\ UNCHANGED <<shown, intent, session, follow, job, cfg, tailnet, budget, files, engine,
                 wire, history, spent>>

(* The end of a command, after its follow-up.                               *)
End ==
  /\ job.at = "end"
  /\ Ended
  /\ IF job.cmd = "start" THEN Schedule(phase) ELSE UNCHANGED follow
  /\ cancelled' = FALSE
  /\ UNCHANGED <<shown, intent, session, queue, settings, files, engine, wire,
                 accepted, missed, halted, spent>>

-----------------------------------------------------------------------------
(***************************************************************************)
(* The user.                                                               *)
(***************************************************************************)
ProxyConnected == Connected(phase) /\ seen.proxy

(* toggle()                                                                 *)
Toggle ==
  LET off == ProxyConnected \/ (phase = "starting" /\ wanted) IN
  /\ Between
  /\ Spend("press")
  /\ touched' = TRUE
  /\ wanted' = ~off
  /\ Enqueue(IF off THEN "disconnect" ELSE "connect")
  /\ halted' = (halted /\ off)
  /\ cancelled' = (off /\ job.cmd = "start" /\ job.at = "consent")
  /\ UNCHANGED <<shown, session, follow, job, look, settings, files, engine, wire,
                 accepted, missed>>

(* stopAll(), as the application quits                                      *)
StopAll ==
  /\ Between
  /\ Spend("press")
  /\ touched' = TRUE
  /\ wanted' = FALSE
  /\ Enqueue("stopAll")
  /\ UNCHANGED <<shown, session, follow, job, look, settings, files, engine, wire,
                 history>>

(* An edit that nobody follows is read by the next compilation only.        *)
Unheard == missed' = (missed \/ (~watching /\ phase # "stopped"))

SetTailnetEnabled ==
  /\ Between
  /\ Spend("tailnet")
  /\ tailnet' = ~tailnet
  /\ Enqueue(IF tailnet THEN "tailnetOff" ELSE "tailnetOn")
  /\ due' = (due \/ watching)
  /\ cancelled' = FALSE
  /\ UNCHANGED <<shown, intent, session, watching, job, look, cfg, mode,
                 budget, files, engine, wire, accepted, missed, halted>>

(* Content, nodes, overrides or settings change: synced once they settled.  *)
Edit(c) ==
  /\ Between
  /\ c # cfg
  /\ Spend("edit")
  /\ cfg' = c
  /\ due' = (due \/ watching)
  /\ Unheard
  /\ UNCHANGED <<shown, intent, session, watching, queue, job, look, mode, tailnet,
                 budget, files, engine, wire, accepted, halted, cancelled>>

(* A choice is synced at once.                                              *)
Choose(m) ==
  /\ Between
  /\ m # mode
  /\ Spend("edit")
  /\ mode' = m
  /\ \/ watching /\ Enqueue("sync") /\ due' = FALSE
     \/ ~watching /\ UNCHANGED <<queue, due>>
  /\ Unheard
  /\ UNCHANGED <<shown, intent, session, watching, job, look, cfg, tailnet,
                 budget, files, engine, wire, accepted, halted, cancelled>>

(* The debounce timer                                                       *)
Debounced ==
  /\ Between
  /\ due
  /\ due' = FALSE
  /\ Enqueue("sync")
  /\ UNCHANGED <<shown, intent, session, watching, job, look, settings, files,
                 engine, wire, history, spent>>

-----------------------------------------------------------------------------
(***************************************************************************)
(* The engine.                                                             *)
(***************************************************************************)

(* finish() of the result cache, and the answer on its way                  *)
Reply(r, answer, s) ==
  job' = IF r.own THEN [job EXCEPT !.answer = answer, !.session = s] ELSE job

(* checkSession()                                                           *)
InSession(r) == host.state = "running" /\ r.sid = host.session

(* What makes a start or reload fail before anything changed.               *)
Rejects(r) ==
  \/ r.op = "start" /\ host.state = "running"
  \/ r.op = "reload" /\ ~InSession(r)
  \/ next = None

(* run(), with the file as it is now, up to the core's own start            *)
TakeUp(r) ==
  /\ r \in wire /\ r.op \in {"start", "reload"}
  /\ exec = NoRequest
  /\ wire' = wire \ {r}
  /\ \/ /\ Rejects(r)
        /\ Reply(r, "failed", 0)
        /\ UNCHANGED <<engine, spent>>
     \/ /\ ~Rejects(r) /\ r.op = "reload" \* the core does not accept the plan
        /\ Spend("core")
        /\ Reply(r, "failed", 0)
        /\ UNCHANGED engine
     \/ /\ ~Rejects(r)
        /\ exec' = r
        /\ host' = [host EXCEPT !.state = IF r.op = "start" THEN "starting"
                                          ELSE "reloading",
                                !.session = host.born + 1, !.born = @ + 1,
                                !.hash = None, !.file = next]
        /\ UNCHANGED <<job, spent>>
  /\ UNCHANGED <<shown, intent, session, follow, queue, look, settings, files, history>>

(* The core runs, or failed to start: then nothing runs any more.           *)
CoreStarts ==
  /\ exec.op \in {"start", "reload"}
  /\ exec' = NoRequest
  /\ \/ /\ host' = Running(host.file, exec.hash, host.born)
        /\ noted' = exec.hash
        /\ accepted' = accepted \cup {host.file.plan}
        /\ Reply(exec, "done", host.born)
        /\ UNCHANGED spent
     \/ /\ Spend("core")
        /\ host' = [Stopped(host.born) EXCEPT !.state = "failed", !.session = host.session]
        /\ Reply(exec, "failed", 0)
        /\ UNCHANGED <<noted, accepted>>
  /\ UNCHANGED <<shown, intent, session, follow, queue, look, settings, next, kept,
                 keptMode, wire, missed, halted, cancelled>>

(* stop(): published first, so that nobody sees the dying session running.  *)
StopBegins(r) ==
  /\ r \in wire /\ r.op = "stop"
  /\ exec = NoRequest
  /\ wire' = wire \ {r}
  /\ exec' = r
  /\ host' = [host EXCEPT !.state = "stopping"]
  /\ UNCHANGED <<shown, intent, session, follow, queue, job, look, settings, files,
                 history, spent>>

StopEnds ==
  /\ exec.op = "stop"
  /\ exec' = NoRequest
  /\ host' = Stopped(host.born)
  /\ Reply(exec, "done", 0)
  /\ UNCHANGED <<shown, intent, session, follow, queue, look, settings, files, wire,
                 history, spent>>

(* setMode(), outside the lifecycle lock                                    *)
SetMode(r) ==
  /\ r \in wire /\ r.op = "setMode"
  /\ wire' = wire \ {r}
  /\ \/ ~InSession(r) /\ Reply(r, "failed", 0) /\ UNCHANGED host
     \/ /\ InSession(r)
        /\ host' = [host EXCEPT !.mode = r.mode]
        /\ Reply(r, "done", 0)
  /\ UNCHANGED <<shown, intent, session, follow, queue, look, settings, files, exec,
                 accepted, missed, halted, cancelled, spent>>

(***************************************************************************)
(* What happens to the host outside the application.                       *)
(***************************************************************************)
PanelSets(m) ==
  /\ Spend("panel")
  /\ host.state = "running" /\ m # host.mode
  /\ host' = [host EXCEPT !.mode = m]
  /\ UNCHANGED <<shown, intent, session, follow, queue, job, look, settings, files,
                 exec, wire, accepted, missed, halted, cancelled>>

(* The notification's button, a revoked VPN, or a dead host process.        *)
HostStops ==
  /\ Spend("hostStop")
  /\ exec = NoRequest /\ host.state = "running"
  /\ host' = Stopped(host.born)
  /\ UNCHANGED <<shown, intent, session, follow, queue, job, look, settings, files,
                 exec, wire, history>>

(* The system starts the last plan again: at boot, or the always-on VPN.    *)
Restore ==
  /\ Spend("hostStart")
  /\ exec = NoRequest /\ host.state \in {"stopped", "failed"}
  /\ kept # None /\ noted # None
  /\ host' = Running(kept, noted, host.born + 1)
  /\ accepted' = accepted \cup {kept.plan}
  /\ UNCHANGED <<shown, intent, session, follow, queue, job, look, settings, files,
                 exec, wire, missed, halted, cancelled>>

(* The application dies and is opened again; the host lives on.             *)
Reopen ==
  /\ Spend("crash")
  /\ phase' = "stopped" /\ attested' = None
  /\ seen' = [hash |-> None, proxy |-> TRUE]
  /\ wanted' = FALSE /\ touched' = FALSE
  /\ sid' = 0 /\ hash' = None /\ expected' = None /\ tagged' = FALSE /\ keptMode' = None
  /\ watching' = FALSE /\ due' = FALSE
  /\ queue' = <<"attach">> /\ job' = Idle /\ look' = NoLook
  /\ wire' = {Orphan(r) : r \in wire}
  /\ exec' = Orphan(exec)
  /\ missed' = FALSE /\ cancelled' = FALSE
  /\ UNCHANGED <<settings, next, kept, noted, host, accepted, halted>>

-----------------------------------------------------------------------------
Coordinator ==
  \/ Begin \/ AttachReads \/ AttachAdopts \/ Consent \/ Compile \/ WritePlan
  \/ Compare \/ Succeeded \/ Refused \/ FollowUp \/ Receive \/ WriteBack \/ End
  \/ Debounced

Bridge ==
  \/ Serve \/ CoreStarts \/ StopEnds
  \/ \E r \in wire : TakeUp(r) \/ StopBegins(r) \/ SetMode(r)

User ==
  \/ Toggle \/ StopAll \/ SetTailnetEnabled
  \/ \E c \in Cfgs : Edit(c)
  \/ \E m \in Modes : Choose(m)

Environment ==
  \/ HostStops \/ Restore \/ \E m \in Modes : PanelSets(m)
  \/ AnswerLost \/ QueryFails \/ DiskFails \/ Reopen

Next == Coordinator \/ Bridge \/ User \/ Environment \/ Poll

Spec == Init /\ [][Next]_vars

-----------------------------------------------------------------------------
(***************************************************************************)
(* Safety.                                                                 *)
(***************************************************************************)

(* Nothing is under way in the coordinator.                                 *)
Quiet == job = Idle /\ queue = <<>> /\ look.at # "writing"

(* So far the session changed by no hand but the coordinator's and the      *)
(* panel's, and every answer arrived.                                       *)
Undisturbed ==
  \A k \in {"hostStop", "hostStart", "answer", "reorder", "disk", "crash"} : spent[k] = 0

NothingRefused == spent["core"] = 0 /\ spent["consent"] = 0

(* Every plan file was kept and every answer arrived, though the host may   *)
(* have stopped and started by itself.                                      *)
Told == \A k \in {"answer", "reorder", "disk", "crash"} : spent[k] = 0

(* Once the commands are through, the coordinator shows and remembers the   *)
(* session that runs, however polls overlapped starts, reloads, failures    *)
(* and stops; and where the host stopped or started by itself meanwhile, a  *)
(* port is shown only for the plan the host runs (refresh(), _adopt(),      *)
(* _stopped()).                                                             *)
Agrees ==
  /\ Undisturbed /\ Quiet =>
       /\ phase \in {"stopped", "running"}
       /\ Connected(phase) <=> host.state = "running"
       /\ host.state = "running" => sid = host.session /\ hash = host.hash
  /\ Told /\ Quiet /\ attested # None /\ host.state = "running" =>
       attested = host.hash

(* A session that runs has the plan and the choices saved now, once nothing *)
(* is pending, every edit was heard and no core refused (_syncPlan()).      *)
InLine ==
  Undisturbed /\ NothingRefused /\ Quiet /\ ~due /\ ~missed /\ Connected(phase)
  /\ Compiles =>
    host.file.plan = Current /\ expected = mode

(* The proxy is never started by what the user took back or what ended on   *)
(* its own: not by a start whose consent was asked for when stop was        *)
(* pressed, and not by the next command after a poll showed that the host   *)
(* had ended the session, until one is asked for or seen to run (D75,       *)
(* _startOrSync(), _adopt()).                                               *)
NoUnwantedStart ==
  /\ cancelled /\ job.cmd = "start" => job.at \notin {"write", "await"} \/ job.plan.tailnet
  /\ halted => ~\E r \in wire : r.own /\ r.op = "start" /\ r.hash.proxy

(* No request was left behind by a coordinator that gave up on it.          *)
Delivered == spent["answer"] = 0 /\ spent["crash"] = 0

(* The plan the host restarts from is one a core has run: a plan that was   *)
(* refused, or that never arrived, does not replace it (_keepPlan()).  A    *)
(* request taken up late runs a newer file under the hash it was sent with; *)
(* a switch back to that hash then keeps a plan that never ran.             *)
KeptWasAccepted == Delivered /\ kept # None => kept.plan \in accepted

(* A phase that says something is under way has a command behind it.        *)
BusyMeansUnderWay == phase \in BusyPhases => job # Idle

-----------------------------------------------------------------------------
(***************************************************************************)
(* Liveness.  The event loop runs every continuation that is ready, the    *)
(* bridge answers, and the host is polled while a session runs in view.    *)
(***************************************************************************)
Commanding ==
  \/ Begin \/ AttachReads \/ AttachAdopts \/ Consent \/ Compile \/ WritePlan
  \/ Compare \/ FollowUp \/ End

Lifecycle == CoreStarts \/ StopEnds \/ \E r \in wire : TakeUp(r) \/ StopBegins(r) \/ SetMode(r)

Fairness ==
  /\ WF_vars(Commanding)
  /\ SF_vars(Succeeded \/ Refused) \* however many polls are answered before
  /\ WF_vars(Debounced)
  /\ WF_vars(Connected(phase) /\ Poll)
  /\ WF_vars(Serve)
  /\ WF_vars(Receive)
  /\ WF_vars(WriteBack)
  /\ WF_vars(Lifecycle)

FairSpec == Spec /\ Fairness

(* However the user and the panel take turns, the mode saved and the mode   *)
(* that runs are the same in the end (D30), if every choice was heard.      *)
ModesMeet ==
  <>[](Undisturbed /\ host.state = "running" /\ ~missed => host.mode = mode)

(* A session that ended unseen, whatever was lost on the way, is not shown  *)
(* as running for good: the poll finds out (_schedule(), _adopt()).  A      *)
(* reload ended by the disk leaves its phase with no command behind it,     *)
(* which the poll respects (_writePlan(), _keepPlan()): then only the phase *)
(* running is believed.                                                     *)
ShownMeansRuns ==
  <>[](phase = "running" \/ (Connected(phase) /\ spent["disk"] = 0) =>
         host.state = "running")

(* What the user asked last is what the host does in the end, unless a      *)
(* start was refused: it runs the proxy just when that is wanted, and       *)
(* nothing when neither proxy nor tailnet is.                               *)
IntentIsCarriedOut ==
  <>[](Undisturbed /\ NothingRefused =>
         /\ wanted <=> host.state = "running" /\ host.file.plan.proxy
         /\ host.state = "running" => wanted \/ tailnet)
=============================================================================
