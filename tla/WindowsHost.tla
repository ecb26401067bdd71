----------------------------- MODULE WindowsHost -----------------------------
(***************************************************************************)
(* The Windows helpers and the app that moves a session between them.      *)
(*                                                                         *)
(* A helper runs as the user or, with TUN, as an installed service; each   *)
(* account has both.  A helper takes the commands of its pipe one at a     *)
(* time where they change something (its `mu' and `lifecycle'; those who   *)
(* wait long are served in their order).  The tunnel is owned by whoever   *)
(* holds a handle on one global name.  Private state lives in a fixed list *)
(* of files; moving a session to the other helper exports them from one,   *)
(* imports them into the other and writes a marker that says which of the  *)
(* two the app uses.                                                       *)
(*                                                                         *)
(* A helper or the app may die at any step, and an answer may be lost      *)
(* while its command is still carried out.  A file's content is the number *)
(* of the session that last wrote it, 0 when there is none.  A core that   *)
(* reports an error on closing has still given up its interface.           *)
(***************************************************************************)
EXTENDS Naturals, Sequences

CONSTANTS
  User,       \* this account's ordinary helper
  Service,    \* this account's service
  Foreign,    \* the services of other accounts
  Files,      \* TransferFiles, in their order
  None,
  Scenarios   \* bound: how often each kind of event may happen

Own == {User, Service}
Hosts == Own \cup Foreign
Names == {Files[i] : i \in DOMAIN Files}

ASSUME HostAssumption ==
  /\ User # Service
  /\ Own \cap Foreign = {}
  /\ None \notin Hosts
  /\ None \notin {"ok", "failed", "start", "reload", "stop",
                 "hostShutdown", "hostExportState", "hostImportState"}
  /\ Files \in Seq(Names)

VARIABLES
  host,    \* per helper: its process and its engine
  files,   \* per helper: what the private state directory holds
  inbox,   \* per helper: commands that wait for their turn
  job,     \* per helper: the command being carried out
  app,     \* WindowsHostTransport
  marker,  \* host-location.json
  newest,  \* the number of the last session
  torn,    \* helpers that died while their files were being replaced
  budget   \* bound: events left

vars == <<host, files, inbox, job, app, marker, newest, torn, budget>>

Down == [up |-> FALSE, session |-> "none", handle |-> FALSE, closing |-> FALSE,
         unusable |-> FALSE]
Up == [Down EXCEPT !.up = TRUE]

(* A directory without any of the files.                                    *)
Empty == [f \in Names |-> 0]

NoJob == [op |-> None, tun |-> FALSE, files |-> Empty, asked |-> FALSE, pc |-> "idle",
          had |-> FALSE, ok |-> FALSE, original |-> Empty, todo |-> <<>>]

Idle == [pc |-> "idle", service |-> None, prepared |-> None, reply |-> None,
         files |-> Empty]

Init ==
  /\ host = [h \in Hosts |-> IF h \in Foreign THEN Up ELSE Down]
  /\ files = [h \in Hosts |-> [f \in Names |-> IF h = User THEN 1 ELSE 0]]
  /\ inbox = [h \in Hosts |-> <<>>]
  /\ job = [h \in Hosts |-> NoJob]
  /\ app = Idle
  /\ marker = User
  /\ newest = 1
  /\ torn = {}
  /\ budget \in Scenarios

Spend(event) ==
  /\ budget[event] > 0
  /\ budget' = [budget EXCEPT ![event] = @ - 1]

-----------------------------------------------------------------------------
(* A helper at work.                                                        *)

Command(op, tun, content, asked) ==
  [NoJob EXCEPT !.op = op, !.tun = tun, !.files = content, !.asked = asked]

Queued(h, command) == inbox' = [inbox EXCEPT ![h] = Append(@, command)]

Answered(h, answer) ==
  app' = IF job[h].asked THEN [app EXCEPT !.reply = answer] ELSE app

Reply(h, answer) ==
  /\ Answered(h, answer)
  /\ job' = [job EXCEPT ![h] = NoJob]

Go(h, pc) == job' = [job EXCEPT ![h].pc = pc]

Take(h) ==
  /\ host[h].up
  /\ job[h] = NoJob
  /\ inbox[h] # <<>>
  /\ job' = [job EXCEPT ![h] = [Head(inbox[h]) EXCEPT !.pc = "admit"]]
  /\ inbox' = [inbox EXCEPT ![h] = Tail(@)]
  /\ UNCHANGED <<host, files, app, marker, newest, torn, budget>>

Exclusive == {"hostShutdown", "hostImportState", "hostExportState"}

(* What call refuses before it does anything.                               *)
Refused(h) ==
  LET j == job[h] IN
  \/ host[h].closing
  \/ host[h].unusable /\ j.op # "hostShutdown"
  \/ j.op \in Exclusive /\ host[h].session # "none"
  \/ j.tun /\ h = User

Refuse(h) ==
  /\ job[h].pc = "admit"
  /\ Refused(h)
  /\ Reply(h, "failed")
  /\ UNCHANGED <<host, files, inbox, marker, newest, torn, budget>>

HandleIsFree(h) == \A g \in Hosts \ {h} : ~host[g].handle

(* The handle is only asked for when the session it is for may come to be.  *)
NeedsHandle(h) ==
  /\ job[h].tun
  /\ \/ job[h].op = "start" /\ host[h].session = "none"
     \/ job[h].op = "reload"

(* Mutated form of Admit: who owns the name is not looked at.               *)
AdmitAnyone(h) ==
  /\ job[h].pc = "admit"
  /\ job[h].op \in {"start", "reload", "stop"}
  /\ ~Refused(h)
  /\ job' = [job EXCEPT ![h].pc = "engine", ![h].had = host[h].handle]
  /\ host' = [host EXCEPT ![h].handle = @ \/ NeedsHandle(h)]
  /\ UNCHANGED app
  /\ UNCHANGED <<files, inbox, marker, newest, torn, budget>>

(* start, reload and stop up to the engine: a plan that needs the tunnel is *)
(* validated, then the name is acquired.                                    *)
Admit(h) ==
  /\ job[h].pc = "admit"
  /\ job[h].op \in {"start", "reload", "stop"}
  /\ ~Refused(h)
  /\ \/ /\ NeedsHandle(h) => HandleIsFree(h)
        /\ job' = [job EXCEPT ![h].pc = "engine", ![h].had = host[h].handle]
        /\ host' = [host EXCEPT ![h].handle = @ \/ NeedsHandle(h)]
        /\ UNCHANGED app
     \/ /\ NeedsHandle(h)
        /\ Reply(h, "failed")
        /\ UNCHANGED host
  /\ UNCHANGED <<files, inbox, marker, newest, torn, budget>>

Kind(tun) == IF tun THEN "tun" ELSE "plain"

(* The session runs on the files there are, and leaves its mark on them.    *)
Runs(h) ==
  /\ host' = [host EXCEPT ![h].session = Kind(job[h].tun)]
  /\ job' = [job EXCEPT ![h].pc = "settle", ![h].ok = TRUE]
  /\ newest' = IF h \in Own THEN newest + 1 ELSE newest
  /\ files' = IF h \in Own THEN [files EXCEPT ![h] = [f \in Names |-> newest + 1]]
              ELSE files

(* The engine refuses, or the session is not there any more.                *)
Fails(h) ==
  /\ job' = [job EXCEPT ![h].pc = "settle"]
  /\ host' \in {host, [host EXCEPT ![h].session = "none"]}
  /\ UNCHANGED <<files, newest>>

(* A start needs that no session runs, a reload that one does.              *)
Fits(h) ==
  CASE job[h].op = "start" -> host[h].session = "none"
    [] job[h].op = "reload" -> host[h].session # "none"
    [] job[h].op = "stop" -> FALSE

(* The engine's answer to start, reload and stop.                           *)
EngineAnswers(h) ==
  /\ job[h].pc = "engine"
  /\ \/ Fits(h) /\ Runs(h) /\ UNCHANGED budget
     \/ Fits(h) /\ Fails(h) /\ Spend("fault")
     \/ /\ ~Fits(h)
        /\ job[h].op # "stop"
        /\ job' = [job EXCEPT ![h].pc = "settle"]
        /\ UNCHANGED <<host, files, newest, budget>>
     \/ /\ job[h].op = "stop"
        /\ host' = [host EXCEPT ![h].session = "none"]
        /\ job' = [job EXCEPT ![h].pc = "settle", ![h].ok = TRUE]
        /\ UNCHANGED <<files, newest, budget>>
     \/ /\ job[h].op = "stop"
        /\ host' = [host EXCEPT ![h].session = "none"]
        /\ job' = [job EXCEPT ![h].pc = "settle"]
        /\ Spend("fault")
        /\ UNCHANGED <<files, newest>>
  /\ UNCHANGED <<inbox, app, marker, torn>>

(* Mutated form of Releases: what a refused reload acquired is kept.        *)
ReleasesLate(h) ==
  \/ host[h].session = "none"
  \/ job[h].ok /\ ~job[h].tun

(* When the handle is given up.                                             *)
Releases(h) ==
  \/ host[h].session = "none"
  \/ job[h].ok /\ ~job[h].tun
  \/ ~job[h].ok /\ ~job[h].had

Settle(h) ==
  /\ job[h].pc = "settle"
  /\ host' = [host EXCEPT ![h].handle = @ /\ ~Releases(h)]
  /\ Reply(h, IF job[h].ok THEN "ok" ELSE "failed")
  /\ UNCHANGED <<files, inbox, marker, newest, torn, budget>>

(* hostShutdown                                                             *)
Shutdown(h) ==
  /\ job[h].pc = "admit"
  /\ job[h].op = "hostShutdown"
  /\ ~Refused(h)
  /\ host' = [host EXCEPT ![h].closing = TRUE]
  /\ Reply(h, "ok")
  /\ UNCHANGED <<files, inbox, marker, newest, torn, budget>>

(* exportState closes the engine, reads, and opens the next one.            *)
Export(h) ==
  /\ job[h].pc = "admit"
  /\ job[h].op = "hostExportState"
  /\ ~Refused(h)
  /\ job' = [job EXCEPT ![h] = NoJob]
  /\ \/ /\ app' = IF job[h].asked
                  THEN [app EXCEPT !.reply = "ok", !.files = files[h]] ELSE app
        /\ UNCHANGED <<host, budget>>
     \/ /\ Spend("fault")
        /\ Answered(h, "failed")
        /\ host' \in {host, [host EXCEPT ![h].unusable = TRUE]}
  /\ UNCHANGED <<files, inbox, marker, newest, torn>>

(* importState stages the whole transfer, closes the engine and reads what  *)
(* there was ...                                                            *)
Stage(h) ==
  /\ job[h].pc = "admit"
  /\ job[h].op = "hostImportState"
  /\ ~Refused(h)
  /\ \/ /\ job' = [job EXCEPT ![h].pc = "replace", ![h].original = files[h],
                              ![h].todo = Files]
        /\ UNCHANGED <<host, app, budget>>
     \/ /\ Spend("fault")
        /\ Reply(h, "failed")
        /\ host' \in {host, [host EXCEPT ![h].unusable = TRUE]}
  /\ UNCHANGED <<files, inbox, marker, newest, torn>>

(* Mutated form of RollBack: what was replaced already stays.               *)
RollBackNothing(h) ==
  /\ Spend("fault")
  /\ job' = [job EXCEPT ![h].pc = "rollback", ![h].todo = <<>>]

(* Every name is put back, whichever step failed.                           *)
RollBack(h) ==
  /\ Spend("fault")
  /\ job' = [job EXCEPT ![h].pc = "rollback", ![h].todo = Files]

(* ... replaces one file after the other, or removes it ...                 *)
Replace(h) ==
  /\ job[h].pc = "replace"
  /\ job[h].todo # <<>>
  /\ LET f == Head(job[h].todo) IN
     \/ /\ files' = [files EXCEPT ![h][f] = job[h].files[f]]
        /\ job' = [job EXCEPT ![h].todo = Tail(@)]
        /\ UNCHANGED budget
     \/ RollBack(h) /\ UNCHANGED files
  /\ UNCHANGED <<host, inbox, app, marker, newest, torn>>

(* ... and opens the next engine.                                           *)
Imported(h) ==
  /\ job[h].pc = "replace"
  /\ job[h].todo = <<>>
  /\ \/ /\ Reply(h, "ok")
        /\ torn' = torn \ {h}
        /\ UNCHANGED budget
     \/ RollBack(h) /\ UNCHANGED <<app, torn>>
  /\ UNCHANGED <<host, files, inbox, marker, newest>>

Restore(h) ==
  /\ job[h].pc = "rollback"
  /\ job[h].todo # <<>>
  /\ LET f == Head(job[h].todo) IN
     \/ /\ files' = [files EXCEPT ![h][f] = job[h].original[f]]
        /\ job' = [job EXCEPT ![h].todo = Tail(@)]
        /\ UNCHANGED <<host, app, budget>>
     \/ /\ Spend("fault")
        /\ host' = [host EXCEPT ![h].unusable = TRUE]
        /\ Reply(h, "failed")
        /\ UNCHANGED files
  /\ UNCHANGED <<inbox, marker, newest, torn>>

Restored(h) ==
  /\ job[h].pc = "rollback"
  /\ job[h].todo = <<>>
  /\ Reply(h, "failed")
  /\ \/ UNCHANGED <<host, budget>>
     \/ Spend("fault") /\ host' = [host EXCEPT ![h].unusable = TRUE]
  /\ UNCHANGED <<files, inbox, marker, newest, torn>>

(* The process ends: its engine, its handle and its callers go with it.     *)
Gone(h) ==
  /\ host' = [host EXCEPT ![h] = Down]
  /\ inbox' = [inbox EXCEPT ![h] = <<>>]
  /\ job' = [job EXCEPT ![h] = NoJob]

Exit(h) ==
  /\ host[h].closing
  /\ job[h] = NoJob
  /\ Gone(h)
  /\ UNCHANGED <<files, app, marker, newest, torn, budget>>

(* Killed, or stopped by the service manager, at any step.                  *)
Crash(h) ==
  /\ host[h].up
  /\ Spend("crash")
  /\ Gone(h)
  /\ torn' = IF job[h].pc \in {"replace", "rollback"} \/ host[h].unusable
             THEN torn \cup {h} ELSE torn
  /\ UNCHANGED <<files, app, marker, newest>>

(* Another account uses its service.                                        *)
ForeignCommand(h) ==
  /\ h \in Foreign
  /\ Spend("foreign")
  /\ \E op \in {"start", "reload", "stop"}, tun \in BOOLEAN :
       /\ op = "stop" => ~tun
       /\ Queued(h, Command(op, tun, Empty, FALSE))
  /\ UNCHANGED <<host, files, job, app, marker, newest, torn>>

-----------------------------------------------------------------------------
(* The app.                                                                 *)

(* A snapshot says starting, running, reloading or stopping.                *)
Active(h) == host[h].session # "none" \/ job[h].pc = "engine"

Started(h) == [host EXCEPT ![h] = IF @.up THEN @ ELSE Up]

(* _discover: a helper with a session, else the one the marker names.       *)
Discover ==
  /\ app = Idle
  /\ ~(Active(User) /\ Active(Service))
  /\ LET selected == IF Active(Service) \/ (~Active(User) /\ marker = Service)
                     THEN Service ELSE User
     IN  /\ app' = [app EXCEPT !.service = selected]
         /\ host' = Started(selected)
  /\ UNCHANGED <<files, inbox, job, marker, newest, torn, budget>>

(* prepare: the helper of the wanted mode is installed and running.         *)
Prepare(h) ==
  /\ app.pc = "idle"
  /\ app.service # None
  /\ Spend("prepare")
  /\ app' = [app EXCEPT !.prepared = h]
  /\ host' = Started(h)
  /\ UNCHANGED <<files, inbox, job, marker, newest, torn>>

(* The app sends a command and waits for its answer.                        *)
Send(h, op, content, pc) ==
  /\ Queued(h, Command(op, op \in {"start", "reload"} /\ h = Service, content, TRUE))
  /\ app' = [app EXCEPT !.pc = pc, !.reply = None]

Peer == IF app.service = User THEN Service ELSE User

(* The helper the app waits for in each step of a migration.                *)
Asked ==
  CASE app.pc = "import" -> app.prepared
    [] app.pc = "shutdown" -> Peer
    [] OTHER -> app.service

(* start or reload where the session is: nothing moves.                     *)
Call(op) ==
  /\ app.pc = "idle"
  /\ app.service # None
  /\ host[app.service].up
  /\ op \in {"start", "reload"} => app.prepared \in {None, app.service}
  /\ Spend(op)
  /\ Send(app.service, op, Empty, "direct")
  /\ UNCHANGED <<host, files, job, marker, newest, torn>>

(* _migrateAndStart: the target can read the plan (hostCheckPlan), then the *)
(* session stops.                                                           *)
Migrate ==
  /\ app.pc = "idle"
  /\ app.prepared \notin {None, app.service}
  /\ Spend("start")
  /\ LET target == host[app.prepared] IN
     IF target.up /\ ~target.closing /\ ~target.unusable /\ host[app.service].up
     THEN Send(app.service, "stop", Empty, "stop")
     ELSE app' = [app EXCEPT !.prepared = None] /\ UNCHANGED inbox
  /\ UNCHANGED <<host, files, job, marker, newest, torn>>

Answer(pc) == app.pc = pc /\ app.reply = "ok"

AskExport ==
  /\ Answer("stop")
  /\ Send(app.service, "hostExportState", Empty, "export")
  /\ UNCHANGED <<host, files, job, marker, newest, torn, budget>>

AskImport ==
  /\ Answer("export")
  /\ Send(app.prepared, "hostImportState", app.files, "import")
  /\ UNCHANGED <<host, files, job, marker, newest, torn, budget>>

(* Mutated form of Mark: the marker does not wait for the import.           *)
MarkEarly ==
  /\ app.pc = "import"
  /\ marker' = app.prepared
  /\ app' = [app EXCEPT !.pc = "marked", !.service = app.prepared, !.prepared = None,
                        !.files = Empty]
  /\ UNCHANGED <<host, files, inbox, job, newest, torn, budget>>

(* The marker is moved into place: from here the session is the target's.   *)
Mark ==
  /\ Answer("import")
  /\ marker' = app.prepared
  /\ app' = [app EXCEPT !.pc = "marked", !.service = app.prepared, !.prepared = None,
                        !.files = Empty]
  /\ UNCHANGED <<host, files, inbox, job, newest, torn, budget>>

AskShutdown ==
  /\ app.pc = "marked"
  /\ Send(Peer, "hostShutdown", Empty, "shutdown")
  /\ UNCHANGED <<host, files, job, marker, newest, torn, budget>>

AskStart ==
  /\ Answer("shutdown")
  /\ Send(app.service, "start", Empty, "direct")
  /\ UNCHANGED <<host, files, job, marker, newest, torn, budget>>

Finish ==
  /\ app.pc = "direct"
  /\ app.reply # None
  /\ app' = [app EXCEPT !.pc = "idle", !.reply = None]
  /\ UNCHANGED <<host, files, inbox, job, marker, newest, torn, budget>>

(* release: an app that leaves lets go of a helper without a session ...    *)
AskRelease ==
  /\ app.pc = "idle"
  /\ app.service # None
  /\ host[app.service].up
  /\ ~Active(app.service)
  /\ Spend("stop")
  /\ Send(app.service, "hostShutdown", Empty, "release")
  /\ UNCHANGED <<host, files, job, marker, newest, torn>>

(* ... and looks for one anew when it is used again.                        *)
Released ==
  /\ Answer("release")
  /\ app' = Idle
  /\ UNCHANGED <<host, files, inbox, job, marker, newest, torn, budget>>

(* Whatever was asked is still carried out, for nobody.                     *)
Orphaned ==
  /\ inbox' = [h \in Hosts |-> [i \in DOMAIN inbox[h] |->
                                  [inbox[h][i] EXCEPT !.asked = FALSE]]]
  /\ job' = [h \in Hosts |-> [job[h] EXCEPT !.asked = FALSE]]

(* A step failed, its helper is gone, or its answer is lost: the migration  *)
(* ends where it stands.                                                    *)
GiveUp ==
  /\ app.pc \notin {"idle", "marked"}
  /\ \/ app.reply = "failed" /\ UNCHANGED budget
     \/ app.reply = None /\ Spend("lost")
     \/ /\ app.reply = None
        /\ ~host[Asked].up
        /\ UNCHANGED budget
  /\ app' = [app EXCEPT !.pc = "idle", !.reply = None, !.files = Empty]
  /\ Orphaned
  /\ UNCHANGED <<host, files, marker, newest, torn>>

AppCrash ==
  /\ Spend("appCrash")
  /\ app' = Idle
  /\ Orphaned
  /\ UNCHANGED <<host, files, marker, newest, torn>>

HelperStep(h) ==
  \/ Take(h)
  \/ Refuse(h)
  \/ Admit(h)
  \/ EngineAnswers(h)
  \/ Settle(h)
  \/ Shutdown(h)
  \/ Export(h)
  \/ Stage(h)
  \/ Replace(h)
  \/ Imported(h)
  \/ Restore(h)
  \/ Restored(h)
  \/ Exit(h)
  \/ Crash(h)
  \/ ForeignCommand(h)

AppStep ==
  \/ Discover
  \/ \E h \in Own : Prepare(h)
  \/ \E op \in {"start", "reload", "stop"} : Call(op)
  \/ Migrate
  \/ AskExport
  \/ AskImport
  \/ Mark
  \/ AskShutdown
  \/ AskStart
  \/ AskRelease
  \/ Released
  \/ Finish
  \/ GiveUp
  \/ AppCrash

Next == AppStep \/ \E h \in Hosts : HelperStep(h)

Spec == Init /\ [][Next]_vars

-----------------------------------------------------------------------------
(* The tunnels that are open.                                               *)
Tunnels == {h \in Hosts : host[h].session = "tun"}

Abstract == INSTANCE OneTunnel WITH tunnels <- Tunnels

(* Whatever the accounts ask of their services, and whichever of them die,  *)
(* at most one tunnel is open, and it closes before another one opens.      *)
(* (acquireTun, releaseTun)                                                 *)
AtMostOneTunnel == Abstract!Spec

(* A helper with an open tunnel holds the name, and one without a command   *)
(* at work holds it only for an open tunnel, so that no account is locked   *)
(* out by a session that is not there.  (call)                              *)
HandleFollowsTunnel ==
  \A h \in Hosts :
    /\ host[h].session = "tun" => host[h].handle
    /\ host[h].handle /\ job[h] = NoJob => host[h].session = "tun"

(* A helper that can be used holds files of one and the same session: an    *)
(* import replaces all of them or, when a step of it fails, none, unless    *)
(* the helper died on the way.  (importState)                               *)
ImportIsWhole ==
  \A h \in Hosts \ torn :
    ~host[h].unusable /\ job[h].pc \notin {"replace", "rollback"} =>
      \A f, g \in Names : files[h][f] = files[h][g]

(* A session of this account starts on the whole state of the last one,     *)
(* wherever that one ran and wherever a migration broke off.                *)
(* (_migrateAndStart, _discover)                                            *)
NewestStateRuns ==
  [][\A h \in Own :
       host[h].session = "none" /\ host'[h].session # "none" =>
         \A f \in Names : files[h][f] = newest]_vars
=============================================================================
