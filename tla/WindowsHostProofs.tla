-------------------------- MODULE WindowsHostProofs --------------------------
(***************************************************************************)
(* What holds of the Windows helpers for any number of accounts, any       *)
(* budget of events and any list of files: the types, who holds the name   *)
(* of the tunnel, and that the helpers implement OneTunnel.                *)
(*                                                                         *)
(* A step of the helpers replaces the process and the command of one       *)
(* helper, or forgets who asked.  So one invariant of a single helper      *)
(* (Sound) and one of two (the name has one holder) are enough; LocalStep  *)
(* says what a step has to show, once for the invariant and the refinement.*)
(***************************************************************************)
EXTENDS WindowsHost, TLAPS

Contents == [Names -> Nat]

HostSet == [up : BOOLEAN, session : {"none", "plain", "tun"}, handle : BOOLEAN,
            closing : BOOLEAN, unusable : BOOLEAN]

Operations == {"start", "reload", "stop", "hostShutdown", "hostExportState",
               "hostImportState", None}

JobSet == [op : Operations, tun : BOOLEAN, files : Contents, asked : BOOLEAN,
           pc : {"idle", "admit", "engine", "settle", "replace", "rollback"},
           had : BOOLEAN, ok : BOOLEAN, original : Contents, todo : Seq(Names)]

(* A command that waits has no outcome yet.                                 *)
Waiting == {j \in JobSet : ~j.ok}

AppSet == [pc : {"idle", "direct", "stop", "export", "import", "marked", "shutdown",
                 "release"},
           service : Own \cup {None}, prepared : Own \cup {None},
           reply : {"ok", "failed", None}, files : Contents]

(* The app that waits knows its helper, and while it moves the other one.   *)
AppOK(a) ==
  /\ a \in AppSet
  /\ a.pc # "idle" \/ a.prepared # None => a.service \in Own
  /\ a.pc \in {"stop", "export", "import"} => a.prepared \in Own

HelpersOK ==
  /\ host \in [Hosts -> HostSet]
  /\ job \in [Hosts -> JobSet]

RestOK ==
  /\ files \in [Hosts -> Contents]
  /\ inbox \in [Hosts -> Seq(Waiting)]
  /\ AppOK(app)
  /\ marker \in Own
  /\ newest \in Nat
  /\ torn \subseteq Hosts

TypeOK == HelpersOK /\ RestOK

(* One helper s with its command j: it holds the name for its tunnel; while *)
(* the engine works on a command the helper knows what it had before, and   *)
(* afterwards what came of it; a process that is not there has no session.  *)
Sound(s, j) ==
  /\ s.session = "tun" => s.handle
  /\ s.handle /\ j.pc \notin {"engine", "settle"} => s.session = "tun"
  /\ ~s.up => s.session = "none" /\ j.pc = "idle"
  /\ j.pc \in {"admit", "engine"} => ~j.ok
  /\ j.pc = "engine" =>
       /\ j.op \in {"start", "reload", "stop"}
       /\ j.had <=> s.session = "tun"
       /\ (/\ j.tun
           /\ \/ j.op = "start" /\ s.session = "none"
              \/ j.op = "reload")
          => s.handle
  /\ j.pc = "settle" /\ s.session # "none" =>
       IF j.ok THEN j.tun <=> s.session = "tun" ELSE j.had <=> s.session = "tun"

(* The name of the tunnel has one holder.                                   *)
OneHolder == \A g, h \in Hosts : host[g].handle /\ host[h].handle => g = h

HelpersInv ==
  /\ HelpersOK
  /\ \A h \in Hosts : Sound(host[h], job[h])
  /\ OneHolder

LocalStep(h) ==
  \E s \in HostSet, j \in JobSet :
    /\ host' = [host EXCEPT ![h] = s]
    /\ job' = [job EXCEPT ![h] = j]
    /\ Sound(s, j)
    /\ s.handle => host[h].handle \/ HandleIsFree(h)

-----------------------------------------------------------------------------
(* Local steps are enough.                                                  *)

(* A local step preserves the invariant of the helpers.                     *)
LEMMA LocalKeeps ==
  ASSUME HelpersInv, NEW h \in Hosts, LocalStep(h)
  PROVE  HelpersInv'
<1>1. PICK s \in HostSet, j \in JobSet :
        /\ host' = [host EXCEPT ![h] = s]
        /\ job' = [job EXCEPT ![h] = j]
        /\ Sound(s, j)
        /\ s.handle => host[h].handle \/ HandleIsFree(h)
  BY DEF LocalStep
<1>2. HelpersOK'
  BY <1>1 DEF HelpersInv, HelpersOK
<1>3. host'[h] = s /\ job'[h] = j
  BY <1>1 DEF HelpersInv, HelpersOK
<1>4. \A g \in Hosts \ {h} : host'[g] = host[g] /\ job'[g] = job[g]
  BY <1>1 DEF HelpersInv, HelpersOK
<1>5. \A g \in Hosts : Sound(host'[g], job'[g])
  <2>1. TAKE g \in Hosts
  <2>2. CASE g = h
    BY <2>2, <1>1, <1>3
  <2>3. CASE g # h
    BY <2>3, <1>4 DEF HelpersInv
  <2> QED BY <2>2, <2>3
<1>6. OneHolder'
  <2>1. SUFFICES ASSUME NEW g \in Hosts, NEW k \in Hosts,
                        host'[g].handle, host'[k].handle
                 PROVE  g = k
    BY DEF OneHolder
  <2>2. CASE g # h /\ k # h
    BY <2>1, <2>2, <1>4 DEF HelpersInv, OneHolder
  <2>3. CASE g = h /\ k # h
    BY <2>1, <2>3, <1>1, <1>3, <1>4 DEF HelpersInv, OneHolder, HandleIsFree
  <2>4. CASE g # h /\ k = h
    BY <2>1, <2>4, <1>1, <1>3, <1>4 DEF HelpersInv, OneHolder, HandleIsFree
  <2> QED BY <2>2, <2>3, <2>4
<1> QED BY <1>2, <1>5, <1>6 DEF HelpersInv

(* The abstract step a local step takes: one tunnel opens where none was,   *)
(* the one there is closes, or nothing is seen.                             *)
LEMMA LocalImplements ==
  ASSUME HelpersInv, NEW h \in Hosts, LocalStep(h)
  PROVE  [Abstract!Next]_Tunnels
<1>1. PICK s \in HostSet, j \in JobSet :
        /\ host' = [host EXCEPT ![h] = s]
        /\ job' = [job EXCEPT ![h] = j]
        /\ Sound(s, j)
        /\ s.handle => host[h].handle \/ HandleIsFree(h)
  BY DEF LocalStep
<1>2. host'[h] = s
  BY <1>1 DEF HelpersInv, HelpersOK
<1>3. \A g \in Hosts \ {h} : host'[g] = host[g]
  BY <1>1 DEF HelpersInv, HelpersOK
<1>4. \A g \in Tunnels : host[g].handle /\ g \in Hosts
  BY DEF Tunnels, HelpersInv, Sound
<1>5. CASE s.session = "tun"
  <2>1. s.handle
    BY <1>1, <1>5 DEF Sound
  <2>2. Tunnels \subseteq {h}
    BY <2>1, <1>1, <1>4 DEF HelpersInv, OneHolder, HandleIsFree
  <2>3. Tunnels' = {h}
    BY <2>2, <1>2, <1>3, <1>5 DEF Tunnels
  <2>4. CASE Tunnels = {}
    BY <2>3, <2>4 DEF Abstract!Next, Abstract!Open
  <2>5. CASE Tunnels = {h}
    BY <2>3, <2>5
  <2> QED BY <2>2, <2>4, <2>5
<1>6. CASE s.session # "tun"
  <2>1. Tunnels' = Tunnels \ {h}
    BY <1>2, <1>3, <1>6 DEF Tunnels
  <2>2. CASE h \notin Tunnels
    BY <2>1, <2>2
  <2>3. CASE h \in Tunnels
    <3>1. Tunnels = {h}
      BY <2>3, <1>4 DEF HelpersInv, OneHolder
    <3> QED BY <2>1, <3>1 DEF Abstract!Next, Abstract!Close
  <2> QED BY <2>2, <2>3
<1> QED BY <1>5, <1>6

(* A step that leaves the processes alone and at most forgets who asked     *)
(* preserves the invariant of the helpers.                                  *)
LEMMA ForgetKeeps ==
  ASSUME HelpersInv, UNCHANGED host,
         job' = job \/ job' = [h \in Hosts |-> [job[h] EXCEPT !.asked = FALSE]]
  PROVE  HelpersInv'
<1>1. CASE job' = job
  BY <1>1 DEF HelpersInv, HelpersOK, OneHolder
<1>2. CASE job' = [h \in Hosts |-> [job[h] EXCEPT !.asked = FALSE]]
  <2>1. ASSUME NEW h \in Hosts
        PROVE  /\ job'[h] \in JobSet
               /\ Sound(host'[h], job'[h])
    <3>1. job[h] \in JobSet /\ Sound(host[h], job[h])
      BY DEF HelpersInv, HelpersOK
    <3>2. PICK j \in JobSet : j = [job[h] EXCEPT !.asked = FALSE]
      BY <3>1 DEF JobSet
    <3>3. /\ j.pc = job[h].pc /\ j.op = job[h].op /\ j.had = job[h].had
          /\ j.ok = job[h].ok /\ j.tun = job[h].tun
      BY <3>1, <3>2 DEF JobSet
    <3>4. job'[h] = j /\ host'[h] = host[h]
      BY <1>2, <3>2
    <3> QED BY <3>1, <3>3, <3>4 DEF Sound
  <2>2. HelpersOK'
    BY <2>1, <1>2 DEF HelpersInv, HelpersOK
  <2> QED BY <2>1, <2>2 DEF HelpersInv, OneHolder
<1> QED BY <1>1, <1>2
-----------------------------------------------------------------------------
(* Every step of a helper is local.                                         *)

(* The records the steps are made of have their types.                      *)
LEMMA Records ==
  /\ Empty \in Contents
  /\ NoJob \in JobSet /\ NoJob.pc = "idle" /\ NoJob.op = None
  /\ Down \in HostSet /\ ~Down.up /\ Down.session = "none" /\ ~Down.handle
  /\ Up \in HostSet /\ Up.up /\ Up.session = "none" /\ ~Up.handle
<1>1. Empty \in Contents
  BY DEF Empty, Contents
<1>2. <<>> \in Seq(Names)
  OBVIOUS
<1>3. NoJob \in JobSet /\ NoJob.pc = "idle" /\ NoJob.op = None
  BY <1>1, <1>2 DEF NoJob, JobSet, Operations
<1>4. Down \in HostSet /\ ~Down.up /\ Down.session = "none" /\ ~Down.handle
  BY DEF Down, HostSet
<1>5. Up \in HostSet /\ Up.up /\ Up.session = "none" /\ ~Up.handle
  BY DEF Up, Down, HostSet
<1> QED BY <1>1, <1>3, <1>4, <1>5

(* A step that touches neither the session nor the name, of a helper whose  *)
(* engine is not asked for anything, is local.                              *)
LEMMA QuietIsLocal ==
  ASSUME HelpersInv, NEW h \in Hosts, NEW s \in HostSet, NEW j \in JobSet,
         host' = [host EXCEPT ![h] = s],
         job' = [job EXCEPT ![h] = j],
         s.up = host[h].up, s.session = host[h].session, s.handle = host[h].handle,
         job[h].pc \notin {"engine", "settle"},
         j.pc \notin {"engine", "settle"},
         j.pc = "admit" => ~j.ok,
         host[h].up \/ j.pc = "idle"
  PROVE  LocalStep(h)
<1>1. Sound(host[h], job[h])
  BY DEF HelpersInv
<1>2. Sound(s, j)
  BY <1>1 DEF Sound
<1> QED BY <1>2 DEF LocalStep

(* The same when the process stays as it is.                                *)
LEMMA StillIsLocal ==
  ASSUME HelpersInv, NEW h \in Hosts, NEW j \in JobSet,
         UNCHANGED host,
         job' = [job EXCEPT ![h] = j],
         job[h].pc \notin {"engine", "settle"},
         j.pc \notin {"engine", "settle"},
         j.pc = "admit" => ~j.ok,
         host[h].up \/ j.pc = "idle"
  PROVE  LocalStep(h)
<1>1. host[h] \in HostSet /\ host' = [host EXCEPT ![h] = host[h]]
  BY DEF HelpersInv, HelpersOK
<1> HIDE DEF LocalStep
<1> QED BY <1>1, QuietIsLocal

(* A helper with a command at work is there.                                *)
LEMMA BusyIsUp ==
  ASSUME HelpersInv, NEW h \in Hosts, job[h].pc # "idle"
  PROVE  host[h].up
BY DEF HelpersInv, Sound

LEMMA TakeIsLocal ==
  ASSUME HelpersInv, RestOK, NEW h \in Hosts, Take(h)
  PROVE  LocalStep(h)
<1>1. Head(inbox[h]) \in JobSet /\ ~Head(inbox[h]).ok
  <2>1. Head(inbox[h]) \in Waiting
    BY DEF Take, RestOK
  <2> QED BY <2>1 DEF Waiting
<1>2. PICK j \in JobSet : j = [Head(inbox[h]) EXCEPT !.pc = "admit"]
  BY <1>1 DEF JobSet
<1>3. j.pc = "admit" /\ ~j.ok
  BY <1>1, <1>2 DEF JobSet
<1>4. UNCHANGED host /\ job' = [job EXCEPT ![h] = j] /\ host[h].up
      /\ job[h].pc = "idle"
  BY <1>2, Records DEF Take
<1> QED BY <1>3, <1>4, StillIsLocal

(* A command that is answered without the engine.                           *)
LEMMA ReplyIsLocal ==
  ASSUME HelpersInv, NEW h \in Hosts, UNCHANGED host,
         job' = [job EXCEPT ![h] = NoJob],
         job[h].pc \notin {"engine", "settle"}
  PROVE  LocalStep(h)
BY Records, StillIsLocal

(* The same by a helper that closes or cannot be used any more.             *)
LEMMA ReplyMarkedIsLocal ==
  ASSUME HelpersInv, NEW h \in Hosts,
         \/ UNCHANGED host
         \/ host' = [host EXCEPT ![h].closing = TRUE]
         \/ host' = [host EXCEPT ![h].unusable = TRUE],
         job' = [job EXCEPT ![h] = NoJob],
         job[h].pc \notin {"engine", "settle"}
  PROVE  LocalStep(h)
<1>1. host[h] \in HostSet
  BY DEF HelpersInv, HelpersOK
<1>2. CASE UNCHANGED host
  BY <1>2, ReplyIsLocal
<1>3. CASE host' = [host EXCEPT ![h].closing = TRUE]
  <2>1. PICK s \in HostSet : s = [host[h] EXCEPT !.closing = TRUE]
    BY <1>1 DEF HostSet
  <2>2. s.up = host[h].up /\ s.session = host[h].session /\ s.handle = host[h].handle
    BY <2>1, <1>1 DEF HostSet
  <2>3. host' = [host EXCEPT ![h] = s]
    BY <2>1, <1>3
  <2> QED BY <2>2, <2>3, Records, QuietIsLocal
<1>4. CASE host' = [host EXCEPT ![h].unusable = TRUE]
  <2>1. PICK s \in HostSet : s = [host[h] EXCEPT !.unusable = TRUE]
    BY <1>1 DEF HostSet
  <2>2. s.up = host[h].up /\ s.session = host[h].session /\ s.handle = host[h].handle
    BY <2>1, <1>1 DEF HostSet
  <2>3. host' = [host EXCEPT ![h] = s]
    BY <2>1, <1>4
  <2> QED BY <2>2, <2>3, Records, QuietIsLocal
<1> QED BY <1>2, <1>3, <1>4

(* A command goes on, without the engine.                                   *)
LEMMA GoOnIsLocal ==
  ASSUME HelpersInv, NEW h \in Hosts, NEW j \in JobSet, UNCHANGED host,
         job' = [job EXCEPT ![h] = j],
         job[h].pc \in {"admit", "replace", "rollback"},
         j.pc \in {"replace", "rollback"}
  PROVE  LocalStep(h)
BY BusyIsUp, StillIsLocal

LEMMA AdmitIsLocal ==
  ASSUME HelpersInv, NEW h \in Hosts, Admit(h)
  PROVE  LocalStep(h)
<1>1. /\ job[h] \in JobSet /\ job[h].pc = "admit"
      /\ job[h].op \in {"start", "reload", "stop"}
      /\ host[h] \in HostSet /\ Sound(host[h], job[h])
  BY DEF HelpersInv, HelpersOK, Admit
<1>2. CASE /\ NeedsHandle(h) => HandleIsFree(h)
           /\ job' = [job EXCEPT ![h].pc = "engine", ![h].had = host[h].handle]
           /\ host' = [host EXCEPT ![h].handle = @ \/ NeedsHandle(h)]
  <2>1. PICK j \in JobSet :
          j = [job[h] EXCEPT !.pc = "engine", !.had = host[h].handle]
    BY <1>1 DEF JobSet, HostSet
  <2>2. /\ j.pc = "engine" /\ j.had = host[h].handle /\ j.ok = job[h].ok
        /\ j.op = job[h].op /\ j.tun = job[h].tun
    BY <2>1, <1>1 DEF JobSet
  <2>3. PICK s \in HostSet : s = [host[h] EXCEPT !.handle = @ \/ NeedsHandle(h)]
    BY <1>1 DEF HostSet
  <2>4. /\ s.up = host[h].up /\ s.session = host[h].session
        /\ s.handle = (host[h].handle \/ NeedsHandle(h))
    BY <2>3, <1>1 DEF HostSet
  <2>5. host' = [host EXCEPT ![h] = s] /\ job' = [job EXCEPT ![h] = j]
    BY <1>2, <2>1, <2>3
  <2>6. /\ host[h].up
        /\ ~job[h].ok
        /\ host[h].handle <=> host[h].session = "tun"
    BY <1>1 DEF Sound
  <2>7. Sound(s, j)
    BY <1>1, <2>2, <2>4, <2>6 DEF Sound, NeedsHandle
  <2>8. s.handle => host[h].handle \/ HandleIsFree(h)
    BY <1>2, <2>4
  <2> QED BY <2>5, <2>7, <2>8 DEF LocalStep
<1>3. CASE UNCHANGED host /\ Reply(h, "failed")
  BY <1>1, <1>3, ReplyIsLocal DEF Reply
<1> QED BY <1>2, <1>3 DEF Admit

(* A step of the engine's answer that leaves the name and the process.      *)
LEMMA AnswerIsLocal ==
  ASSUME HelpersInv, NEW h \in Hosts, NEW s \in HostSet, NEW j \in JobSet,
         host' = [host EXCEPT ![h] = s],
         job' = [job EXCEPT ![h] = j],
         s.up = host[h].up, s.handle = host[h].handle, j.pc = "settle",
         s.session = "tun" => s.handle,
         s.session # "none" =>
           IF j.ok THEN j.tun <=> s.session = "tun" ELSE j.had <=> s.session = "tun",
         job[h].pc = "engine"
  PROVE  LocalStep(h)
<1>1. host[h].up
  BY BusyIsUp
<1>2. Sound(s, j)
  BY <1>1 DEF Sound
<1> QED BY <1>2 DEF LocalStep

LEMMA EngineAnswersIsLocal ==
  ASSUME HelpersInv, NEW h \in Hosts, EngineAnswers(h)
  PROVE  LocalStep(h)
<1>1. /\ job[h] \in JobSet /\ job[h].pc = "engine"
      /\ host[h] \in HostSet /\ Sound(host[h], job[h])
  BY DEF HelpersInv, HelpersOK, EngineAnswers
<1>2. /\ job[h].op \in {"start", "reload", "stop"}
      /\ job[h].had <=> host[h].session = "tun"
      /\ ~job[h].ok
      /\ host[h].session = "tun" => host[h].handle
      /\ Fits(h) /\ job[h].tun => host[h].handle
  BY <1>1 DEF Sound, Fits
<1>3. \A k \in {"none", "plain", "tun"} :
        \E s \in HostSet :
          /\ s = [host[h] EXCEPT !.session = k]
          /\ s.session = k /\ s.up = host[h].up /\ s.handle = host[h].handle
  <2>1. TAKE k \in {"none", "plain", "tun"}
  <2>2. [host[h] EXCEPT !.session = k] \in HostSet
    BY <1>1 DEF HostSet
  <2>3. PICK s \in HostSet : s = [host[h] EXCEPT !.session = k]
    BY <2>2
  <2>4. s.session = k /\ s.up = host[h].up /\ s.handle = host[h].handle
    BY <1>1, <2>3 DEF HostSet
  <2> QED BY <2>3, <2>4
<1>4. \E j \in JobSet :
        /\ j = [job[h] EXCEPT !.pc = "settle"]
        /\ j.pc = "settle" /\ ~j.ok /\ j.had = job[h].had
  <2>1. PICK j \in JobSet : j = [job[h] EXCEPT !.pc = "settle"]
    BY <1>1 DEF JobSet
  <2>2. j.pc = "settle" /\ ~j.ok /\ j.had = job[h].had
    BY <1>1, <1>2, <2>1 DEF JobSet
  <2> QED BY <2>1, <2>2
<1>5. \E j \in JobSet :
        /\ j = [job[h] EXCEPT !.pc = "settle", !.ok = TRUE]
        /\ j.pc = "settle" /\ j.ok /\ j.tun = job[h].tun
  <2>1. PICK j \in JobSet : j = [job[h] EXCEPT !.pc = "settle", !.ok = TRUE]
    BY <1>1 DEF JobSet
  <2>2. j.pc = "settle" /\ j.ok /\ j.tun = job[h].tun
    BY <1>1, <2>1 DEF JobSet
  <2> QED BY <2>1, <2>2
<1>6. CASE Fits(h) /\ Runs(h)
  <2>1. Kind(job[h].tun) \in {"none", "plain", "tun"}
    BY DEF Kind
  <2>2. PICK s \in HostSet :
          /\ s = [host[h] EXCEPT !.session = Kind(job[h].tun)]
          /\ s.session = Kind(job[h].tun) /\ s.up = host[h].up
          /\ s.handle = host[h].handle
    BY <2>1, <1>3
  <2>3. PICK j \in JobSet :
          /\ j = [job[h] EXCEPT !.pc = "settle", !.ok = TRUE]
          /\ j.pc = "settle" /\ j.ok /\ j.tun = job[h].tun
    BY <1>5
  <2>4. host' = [host EXCEPT ![h] = s] /\ job' = [job EXCEPT ![h] = j]
    BY <1>6, <2>2, <2>3 DEF Runs
  <2>5. s.session = "tun" <=> job[h].tun
    BY <1>1, <2>2 DEF Kind, JobSet
  <2> QED BY <1>1, <1>2, <1>6, <2>2, <2>3, <2>4, <2>5, AnswerIsLocal
<1>7. CASE /\ host' \in {host, [host EXCEPT ![h].session = "none"]}
           /\ job' = [job EXCEPT ![h].pc = "settle"]
  <2>1. PICK j \in JobSet :
          /\ j = [job[h] EXCEPT !.pc = "settle"]
          /\ j.pc = "settle" /\ ~j.ok /\ j.had = job[h].had
    BY <1>4
  <2>2. job' = [job EXCEPT ![h] = j]
    BY <1>7, <2>1
  <2>3. CASE host' = host
    <3>1. host' = [host EXCEPT ![h] = host[h]]
      BY <2>3 DEF HelpersInv, HelpersOK
    <3> QED BY <1>1, <1>2, <2>1, <2>2, <3>1, AnswerIsLocal
  <2>4. CASE host' = [host EXCEPT ![h].session = "none"]
    <3>1. PICK s \in HostSet :
            /\ s = [host[h] EXCEPT !.session = "none"]
            /\ s.session = "none" /\ s.up = host[h].up /\ s.handle = host[h].handle
      BY <1>3
    <3>2. host' = [host EXCEPT ![h] = s]
      BY <2>4, <3>1
    <3> QED BY <1>1, <2>1, <2>2, <3>1, <3>2, AnswerIsLocal
  <2> QED BY <1>7, <2>3, <2>4
<1>8. CASE /\ host' = [host EXCEPT ![h].session = "none"]
           /\ job' = [job EXCEPT ![h].pc = "settle", ![h].ok = TRUE]
  <2>1. PICK j \in JobSet :
          /\ j = [job[h] EXCEPT !.pc = "settle", !.ok = TRUE]
          /\ j.pc = "settle" /\ j.ok /\ j.tun = job[h].tun
    BY <1>5
  <2>2. PICK s \in HostSet :
          /\ s = [host[h] EXCEPT !.session = "none"]
          /\ s.session = "none" /\ s.up = host[h].up /\ s.handle = host[h].handle
    BY <1>3
  <2>3. host' = [host EXCEPT ![h] = s] /\ job' = [job EXCEPT ![h] = j]
    BY <1>8, <2>1, <2>2
  <2> QED BY <1>1, <2>1, <2>2, <2>3, AnswerIsLocal
<1> QED BY <1>6, <1>7, <1>8 DEF EngineAnswers, Fails

(* The answer gives the name up exactly when no tunnel is left.             *)
LEMMA SettleIsLocal ==
  ASSUME HelpersInv, NEW h \in Hosts, Settle(h)
  PROVE  LocalStep(h)
<1>1. /\ job[h] \in JobSet /\ job[h].pc = "settle"
      /\ host[h] \in HostSet /\ Sound(host[h], job[h])
  BY DEF HelpersInv, HelpersOK, Settle
<1>2. PICK s \in HostSet : s = [host[h] EXCEPT !.handle = @ /\ ~Releases(h)]
  BY <1>1 DEF HostSet
<1>3. /\ s.up = host[h].up /\ s.session = host[h].session
      /\ s.handle = (host[h].handle /\ ~Releases(h))
  BY <1>1, <1>2 DEF HostSet
<1>4. host' = [host EXCEPT ![h] = s] /\ job' = [job EXCEPT ![h] = NoJob]
  BY <1>2 DEF Settle, Reply
<1>5. host[h].session \in {"none", "plain", "tun"}
  BY <1>1 DEF HostSet
<1>6. s.handle <=> s.session = "tun"
  BY <1>1, <1>3, <1>5 DEF Sound, Releases
<1>7. Sound(s, NoJob)
  BY <1>1, <1>3, <1>6, Records DEF Sound
<1> QED BY <1>3, <1>4, <1>7, Records DEF LocalStep

(* A process that ends takes its engine and its handle along.               *)
LEMMA GoneIsLocal ==
  ASSUME HelpersInv, NEW h \in Hosts, Gone(h)
  PROVE  LocalStep(h)
<1>1. Sound(Down, NoJob)
  BY Records DEF Sound
<1> QED BY <1>1, Records DEF Gone, LocalStep

(* A helper that is started where there was none, or is there already.      *)
LEMMA StartedIsLocal ==
  ASSUME HelpersInv, NEW h \in Hosts, host' = Started(h), UNCHANGED job
  PROVE  LocalStep(h)
<1>1. /\ job[h] \in JobSet /\ host[h] \in HostSet /\ Sound(host[h], job[h])
      /\ job' = [job EXCEPT ![h] = job[h]]
  BY DEF HelpersInv, HelpersOK
<1>2. CASE host[h].up
  <2>1. host' = [host EXCEPT ![h] = host[h]]
    BY <1>2 DEF Started
  <2> QED BY <1>1, <2>1 DEF LocalStep
<1>3. CASE ~host[h].up
  <2>1. host' = [host EXCEPT ![h] = Up]
    BY <1>3 DEF Started
  <2>2. Sound(Up, job[h])
    BY <1>1, <1>3, Records DEF Sound
  <2> QED BY <1>1, <2>1, <2>2, Records DEF LocalStep
<1> QED BY <1>2, <1>3
(* The steps of an export and an import, which leave the engine alone.      *)
LEMMA TransferIsLocal ==
  ASSUME HelpersInv, RestOK, NEW h \in Hosts,
         \/ Stage(h)
         \/ Replace(h)
         \/ Imported(h)
         \/ Restore(h)
         \/ Restored(h)
  PROVE  LocalStep(h)
<1>1. job[h] \in JobSet /\ files[h] \in Contents /\ Files \in Seq(Names)
  BY HostAssumption DEF HelpersInv, HelpersOK, RestOK
<1>2. job[h].todo \in Seq(Names)
  BY <1>1 DEF JobSet
<1>3. ASSUME UNCHANGED host, RollBack(h), job[h].pc = "replace"
      PROVE  LocalStep(h)
  <2>1. PICK j \in JobSet : j = [job[h] EXCEPT !.pc = "rollback", !.todo = Files]
    BY <1>1 DEF JobSet
  <2>2. j.pc = "rollback" /\ job' = [job EXCEPT ![h] = j]
    BY <1>1, <1>3, <2>1 DEF JobSet, RollBack
  <2> QED BY <1>3, <2>2, GoOnIsLocal
<1>4. ASSUME UNCHANGED host, job' = [job EXCEPT ![h].todo = Tail(@)],
             job[h].todo # <<>>, job[h].pc \in {"replace", "rollback"}
      PROVE  LocalStep(h)
  <2>1. Tail(job[h].todo) \in Seq(Names)
    BY <1>2, <1>4
  <2>2. PICK j \in JobSet : j = [job[h] EXCEPT !.todo = Tail(@)]
    BY <1>1, <2>1 DEF JobSet
  <2>3. j.pc = job[h].pc /\ job' = [job EXCEPT ![h] = j]
    BY <1>1, <1>4, <2>2 DEF JobSet
  <2> QED BY <1>4, <2>3, GoOnIsLocal
<1>5. CASE Stage(h)
  <2>1. CASE /\ job' = [job EXCEPT ![h].pc = "replace", ![h].original = files[h],
                                   ![h].todo = Files]
             /\ UNCHANGED host
    <3>1. PICK j \in JobSet : j = [job[h] EXCEPT !.pc = "replace", !.original = files[h],
                                               !.todo = Files]
      BY <1>1 DEF JobSet
    <3>2. j.pc = "replace" /\ job' = [job EXCEPT ![h] = j]
      BY <1>1, <2>1, <3>1 DEF JobSet
    <3> QED BY <1>5, <2>1, <3>2, GoOnIsLocal DEF Stage
  <2>2. CASE /\ Reply(h, "failed")
             /\ host' \in {host, [host EXCEPT ![h].unusable = TRUE]}
    BY <1>5, <2>2, ReplyMarkedIsLocal DEF Stage, Reply
  <2> QED BY <1>5, <2>1, <2>2 DEF Stage
<1>6. CASE Replace(h)
  BY <1>3, <1>4, <1>6 DEF Replace
<1>7. CASE Imported(h)
  <2>1. CASE Reply(h, "ok")
    BY <1>7, <2>1, ReplyIsLocal DEF Imported, Reply
  <2> QED BY <1>3, <1>7, <2>1 DEF Imported
<1>8. CASE Restore(h)
  <2>1. CASE Reply(h, "failed") /\ host' = [host EXCEPT ![h].unusable = TRUE]
    BY <1>8, <2>1, ReplyMarkedIsLocal DEF Restore, Reply
  <2> QED BY <1>4, <1>8, <2>1 DEF Restore
<1>9. CASE Restored(h)
  BY <1>9, ReplyMarkedIsLocal DEF Restored, Reply
<1> QED BY <1>5, <1>6, <1>7, <1>8, <1>9

(* A step that forgets who asked, or has nothing to do with the helpers.    *)
Forgetful ==
  /\ UNCHANGED host
  /\ job' = job \/ job' = [h \in Hosts |-> [job[h] EXCEPT !.asked = FALSE]]

LEMMA HelperSteps ==
  ASSUME HelpersInv, RestOK, NEW h \in Hosts, HelperStep(h)
  PROVE  LocalStep(h) \/ Forgetful
<1>1. CASE Take(h)
  BY <1>1, TakeIsLocal
<1>2. CASE Refuse(h)
  BY <1>2, ReplyIsLocal DEF Refuse, Reply
<1>3. CASE Admit(h)
  BY <1>3, AdmitIsLocal
<1>4. CASE EngineAnswers(h)
  BY <1>4, EngineAnswersIsLocal
<1>5. CASE Settle(h)
  BY <1>5, SettleIsLocal
<1>6. CASE Shutdown(h)
  BY <1>6, ReplyMarkedIsLocal DEF Shutdown, Reply
<1>7. CASE Export(h)
  BY <1>7, ReplyMarkedIsLocal DEF Export
<1>8. CASE Stage(h) \/ Replace(h) \/ Imported(h) \/ Restore(h) \/ Restored(h)
  BY <1>8, TransferIsLocal
<1>9. CASE Exit(h) \/ Crash(h)
  BY <1>9, GoneIsLocal DEF Exit, Crash
<1>10. CASE ForeignCommand(h)
  BY <1>10 DEF ForeignCommand, Forgetful
<1> QED BY <1>1, <1>2, <1>3, <1>4, <1>5, <1>6, <1>7, <1>8, <1>9, <1>10 DEF HelperStep

LEMMA AppSteps ==
  ASSUME HelpersInv, AppStep
  PROVE  (\E h \in Hosts : LocalStep(h)) \/ Forgetful
<1>1. CASE Discover
  <2>1. PICK h \in Hosts : host' = Started(h)
    BY <1>1 DEF Discover, Hosts, Own
  <2> QED BY <1>1, <2>1, StartedIsLocal DEF Discover
<1>2. CASE \E h \in Own : Prepare(h)
  <2>1. PICK h \in Hosts : host' = Started(h)
    BY <1>2 DEF Prepare, Hosts
  <2> QED BY <1>2, <2>1, StartedIsLocal DEF Prepare
<1>3. CASE GiveUp \/ AppCrash
  BY <1>3 DEF GiveUp, AppCrash, Orphaned, Forgetful
<1>4. CASE \/ \E op \in {"start", "reload", "stop"} : Call(op)
           \/ Migrate
           \/ AskExport
           \/ AskImport
           \/ Mark
           \/ AskShutdown
           \/ AskStart
           \/ AskRelease
           \/ Released
           \/ Finish
  BY <1>4 DEF Call, Migrate, AskExport, AskImport, Mark, AskShutdown, AskStart,
              AskRelease, Released, Finish, Forgetful
<1> QED BY <1>1, <1>2, <1>3, <1>4 DEF AppStep

(* Every step of the system, for the invariant and for the refinement.      *)
LEMMA Steps ==
  ASSUME HelpersInv, RestOK, [Next]_vars
  PROVE  HelpersInv' /\ [Abstract!Next]_Tunnels
<1>1. CASE \E h \in Hosts : LocalStep(h)
  BY <1>1, LocalKeeps, LocalImplements
<1>2. CASE Forgetful
  <2>1. HelpersInv'
    BY <1>2, ForgetKeeps DEF Forgetful
  <2>2. UNCHANGED Tunnels
    BY <1>2 DEF Forgetful, Tunnels
  <2> QED BY <2>1, <2>2
<1>3. CASE UNCHANGED vars
  BY <1>2, <1>3 DEF vars, Forgetful
<1> QED BY <1>1, <1>2, <1>3, HelperSteps, AppSteps DEF Next
-----------------------------------------------------------------------------
(* The types of the rest.                                                   *)

LEMMA CommandWaits ==
  ASSUME NEW op \in Operations, NEW tun \in BOOLEAN, NEW content \in Contents,
         NEW asked \in BOOLEAN
  PROVE  Command(op, tun, content, asked) \in Waiting
<1>1. /\ NoJob \in JobSet /\ ~NoJob.ok
  BY Records DEF NoJob
<1> HIDE DEF NoJob
<1>2. PICK j \in JobSet :
        j = [NoJob EXCEPT !.op = op, !.tun = tun, !.files = content, !.asked = asked]
  BY <1>1 DEF JobSet
<1>3. j.ok = NoJob.ok
  BY <1>1, <1>2 DEF JobSet
<1> QED BY <1>1, <1>2, <1>3 DEF Command, Waiting

LEMMA QueuedOK ==
  ASSUME RestOK, NEW h \in Hosts, NEW c \in Waiting, Queued(h, c)
  PROVE  inbox' \in [Hosts -> Seq(Waiting)]
<1>1. Append(inbox[h], c) \in Seq(Waiting)
  BY DEF RestOK
<1> QED BY <1>1 DEF RestOK, Queued

LEMMA AnsweredOK ==
  ASSUME RestOK, NEW h, NEW answer \in {"ok", "failed"}, Answered(h, answer)
  PROVE  AppOK(app')
BY DEF RestOK, Answered, AppSet, AppOK

LEMMA SendOK ==
  ASSUME RestOK, NEW h \in Hosts, NEW op \in Operations, NEW content \in Contents,
         NEW pc \in {"direct", "stop", "export", "import", "shutdown", "release"},
         app.service \in Own,
         pc \in {"stop", "export", "import"} => app.prepared \in Own,
         Send(h, op, content, pc)
  PROVE  inbox' \in [Hosts -> Seq(Waiting)] /\ AppOK(app')
<1>1. Command(op, op \in {"start", "reload"} /\ h = Service, content, TRUE) \in Waiting
  BY CommandWaits
<1>2. AppOK(app')
  BY DEF RestOK, Send, AppSet, AppOK
<1> QED BY <1>1, <1>2, QueuedOK DEF Send

(* What an engine or an import writes is a content of the directory.        *)
LEMMA FilesOK ==
  ASSUME HelpersOK, RestOK, NEW h \in Hosts,
         EngineAnswers(h) \/ Replace(h) \/ Restore(h)
  PROVE  files' \in [Hosts -> Contents] /\ newest' \in Nat
<1>1. /\ job[h] \in JobSet /\ files \in [Hosts -> Contents] /\ newest \in Nat
  BY DEF HelpersOK, RestOK
<1>2. /\ job[h].files \in Contents /\ job[h].original \in Contents
      /\ job[h].todo \in Seq(Names)
  BY <1>1 DEF JobSet
<1>3. [f \in Names |-> newest + 1] \in Contents
  BY <1>1 DEF Contents
<1>4. CASE EngineAnswers(h)
  <2>1. CASE Runs(h)
    BY <2>1, <1>1, <1>3 DEF Runs
  <2>2. CASE UNCHANGED <<files, newest>>
    BY <2>2, <1>1
  <2> QED BY <1>4, <2>1, <2>2 DEF EngineAnswers, Fails
<1>5. ASSUME job[h].todo # <<>>, NEW c \in Contents,
             files' = [files EXCEPT ![h][Head(job[h].todo)] = c[Head(job[h].todo)]]
      PROVE  files' \in [Hosts -> Contents]
  <2>1. Head(job[h].todo) \in Names
    BY <1>2, <1>5
  <2>2. c[Head(job[h].todo)] \in Nat
    BY <1>5, <2>1 DEF Contents
  <2>3. [files[h] EXCEPT ![Head(job[h].todo)] = c[Head(job[h].todo)]] \in Contents
    BY <1>1, <2>1, <2>2 DEF Contents
  <2> QED BY <1>1, <1>5, <2>3
<1>6. CASE Replace(h)
  BY <1>1, <1>2, <1>5, <1>6 DEF Replace
<1>7. CASE Restore(h)
  BY <1>1, <1>2, <1>5, <1>7 DEF Restore
<1> QED BY <1>4, <1>6, <1>7

LEMMA HelperTypes ==
  ASSUME HelpersOK, RestOK, NEW h \in Hosts, HelperStep(h)
  PROVE  RestOK'
<1>1. /\ files \in [Hosts -> Contents] /\ inbox \in [Hosts -> Seq(Waiting)]
      /\ AppOK(app) /\ marker \in Own /\ newest \in Nat /\ torn \subseteq Hosts
  BY DEF RestOK
<1>2. CASE Take(h)
  <2>1. Tail(inbox[h]) \in Seq(Waiting)
    BY <1>1, <1>2 DEF Take
  <2>2. inbox' \in [Hosts -> Seq(Waiting)]
    BY <1>1, <1>2, <2>1 DEF Take
  <2> QED BY <1>1, <1>2, <2>2 DEF Take, RestOK
<1>3. CASE Refuse(h)
  BY <1>1, <1>3, AnsweredOK DEF Refuse, Reply, RestOK
<1>4. CASE Admit(h)
  BY <1>1, <1>4, AnsweredOK DEF Admit, Reply, RestOK
<1>5. CASE EngineAnswers(h)
  BY <1>1, <1>5, FilesOK DEF EngineAnswers, RestOK
<1>6. CASE Settle(h)
  <2>1. AppOK(app')
    BY <1>6, AnsweredOK DEF Settle, Reply
  <2> QED BY <1>1, <1>6, <2>1 DEF Settle, RestOK
<1>7. CASE Shutdown(h)
  BY <1>1, <1>7, AnsweredOK DEF Shutdown, Reply, RestOK
<1>8. CASE Export(h)
  <2>1. CASE app' = IF job[h].asked
                    THEN [app EXCEPT !.reply = "ok", !.files = files[h]] ELSE app
    <3>1. files[h] \in Contents
      BY <1>1
    <3>2. AppOK(app')
      BY <1>1, <2>1, <3>1 DEF AppSet, AppOK
    <3> QED BY <1>1, <1>8, <3>2 DEF Export, RestOK
  <2>2. CASE Answered(h, "failed")
    BY <1>1, <1>8, <2>2, AnsweredOK DEF Export, RestOK
  <2> QED BY <1>8, <2>1, <2>2 DEF Export
<1>9. CASE Stage(h)
  BY <1>1, <1>9, AnsweredOK DEF Stage, Reply, RestOK
<1>10. CASE Replace(h)
  BY <1>1, <1>10, FilesOK DEF Replace, RestOK
<1>11. CASE Imported(h)
  BY <1>1, <1>11, AnsweredOK DEF Imported, Reply, RestOK
<1>12. CASE Restore(h)
  BY <1>1, <1>12, FilesOK, AnsweredOK DEF Restore, Reply, RestOK
<1>13. CASE Restored(h)
  BY <1>1, <1>13, AnsweredOK DEF Restored, Reply, RestOK
<1>14. CASE Exit(h) \/ Crash(h)
  <2>1. inbox' \in [Hosts -> Seq(Waiting)]
    <3>1. <<>> \in Seq(Waiting)
      OBVIOUS
    <3> QED BY <1>1, <1>14, <3>1 DEF Exit, Crash, Gone
  <2> QED BY <1>1, <1>14, <2>1 DEF Exit, Crash, RestOK
<1>15. CASE ForeignCommand(h)
  <2>1. PICK op \in {"start", "reload", "stop"}, tun \in BOOLEAN :
          Queued(h, Command(op, tun, Empty, FALSE))
    BY <1>15 DEF ForeignCommand
  <2>2. Command(op, tun, Empty, FALSE) \in Waiting
    BY Records, CommandWaits DEF Operations
  <2> QED BY <1>1, <1>15, <2>1, <2>2, QueuedOK DEF ForeignCommand, RestOK
<1> QED BY <1>2, <1>3, <1>4, <1>5, <1>6, <1>7, <1>8, <1>9, <1>10, <1>11, <1>12, <1>13,
           <1>14, <1>15 DEF HelperStep

(* Forgetting who asked keeps the waiting commands in order.                *)
LEMMA OrphanedOK ==
  ASSUME RestOK, Orphaned
  PROVE  inbox' \in [Hosts -> Seq(Waiting)]
<1>1. ASSUME NEW c \in Waiting
      PROVE  [c EXCEPT !.asked = FALSE] \in Waiting
  <2>1. c \in JobSet /\ ~c.ok
    BY DEF Waiting
  <2>2. PICK j \in JobSet : j = [c EXCEPT !.asked = FALSE]
    BY <2>1 DEF JobSet
  <2>3. j.ok = c.ok
    BY <2>1, <2>2 DEF JobSet
  <2> QED BY <2>1, <2>2, <2>3 DEF Waiting
<1>2. ASSUME NEW h \in Hosts
      PROVE  [i \in DOMAIN inbox[h] |-> [inbox[h][i] EXCEPT !.asked = FALSE]]
               \in Seq(Waiting)
  <2>1. inbox[h] \in Seq(Waiting)
    BY DEF RestOK
  <2>2. \A i \in DOMAIN inbox[h] : [inbox[h][i] EXCEPT !.asked = FALSE] \in Waiting
    BY <1>1, <2>1
  <2>3. DOMAIN inbox[h] = 1 .. Len(inbox[h]) /\ Len(inbox[h]) \in Nat
    BY <2>1
  <2> QED BY <2>2, <2>3
<1> QED BY <1>2 DEF Orphaned
LEMMA AppTypes ==
  ASSUME RestOK, AppStep
  PROVE  RestOK'
<1>1. /\ files \in [Hosts -> Contents] /\ inbox \in [Hosts -> Seq(Waiting)]
      /\ AppOK(app) /\ marker \in Own /\ newest \in Nat /\ torn \subseteq Hosts
  BY DEF RestOK
<1>2. /\ app \in AppSet /\ app.files \in Contents
      /\ app.service \in Own \cup {None} /\ app.prepared \in Own \cup {None}
      /\ Own \subseteq Hosts /\ Peer \in Own /\ None \notin Own
      /\ Empty \in Contents
  BY <1>1, Records, HostAssumption DEF AppOK, AppSet, Hosts, Own, Peer
<1>3. Idle \in AppSet /\ Idle.pc = "idle" /\ AppOK(Idle)
  BY <1>2 DEF Idle, AppSet, AppOK
<1>4. CASE Discover
  <2>1. \A h \in Own : AppOK([app EXCEPT !.service = h])
    BY <1>1, <1>2 DEF AppOK, AppSet
  <2>2. AppOK(app')
    BY <1>4, <2>1 DEF Discover, Own
  <2> QED BY <1>1, <1>4, <2>2 DEF Discover, RestOK
<1>5. CASE \E h \in Own : Prepare(h)
  <2>1. app.service # None => \A h \in Own : AppOK([app EXCEPT !.prepared = h])
    BY <1>1, <1>2 DEF AppOK, AppSet
  <2> QED BY <1>1, <1>5, <2>1 DEF Prepare, RestOK
<1>6. CASE \E op \in {"start", "reload", "stop"} : Call(op)
  <2>1. PICK op \in {"start", "reload", "stop"} : Call(op)
    BY <1>6
  <2>2. op \in Operations
    BY DEF Operations
  <2>3. AppOK(app') /\ inbox' \in [Hosts -> Seq(Waiting)]
    BY <1>2, <2>1, <2>2, SendOK DEF Call
  <2> QED BY <1>1, <2>1, <2>3 DEF Call, RestOK
<1>7. CASE Migrate
  <2>1. CASE Send(app.service, "stop", Empty, "stop")
    <3>1. app.service \in Own /\ app.prepared \in Own /\ "stop" \in Operations
      BY <1>1, <1>2, <1>7 DEF Migrate, AppOK, Operations
    <3>2. AppOK(app') /\ inbox' \in [Hosts -> Seq(Waiting)]
      BY <1>2, <2>1, <3>1, SendOK
    <3> QED BY <1>1, <1>7, <3>2 DEF Migrate, RestOK
  <2>2. CASE app' = [app EXCEPT !.prepared = None] /\ UNCHANGED inbox
    <3>1. app.pc = "idle"
      BY <1>7 DEF Migrate
    <3>2. [app EXCEPT !.prepared = None] \in AppSet
      BY <1>2 DEF AppSet
    <3>3. app'.pc = "idle" /\ app'.prepared = None /\ app' \in AppSet
      BY <1>2, <2>2, <3>1, <3>2 DEF AppSet
    <3>4. AppOK(app')
      BY <3>3 DEF AppOK
    <3> QED BY <1>1, <1>7, <2>2, <3>4 DEF Migrate, RestOK
  <2> QED BY <1>7, <2>1, <2>2 DEF Migrate
<1>8. CASE AskExport
  <2>1. app.service \in Own /\ app.prepared \in Own
    BY <1>1, <1>8 DEF AskExport, Answer, AppOK
  <2> QED BY <1>1, <1>2, <1>8, <2>1, SendOK DEF AskExport, RestOK, Operations
<1>9. CASE AskImport
  <2>1. app.service \in Own /\ app.prepared \in Own
    BY <1>1, <1>9 DEF AskImport, Answer, AppOK
  <2> QED BY <1>1, <1>2, <1>9, <2>1, SendOK DEF AskImport, RestOK, Operations
<1>10. CASE Mark
  <2>1. app.prepared \in Own
    BY <1>1, <1>10 DEF Mark, Answer, AppOK
  <2>2. AppOK(app')
    BY <1>2, <1>10, <2>1 DEF Mark, AppOK, AppSet
  <2> QED BY <1>1, <1>10, <2>1, <2>2 DEF Mark, RestOK
<1>11. CASE AskShutdown
  <2>1. app.service \in Own
    BY <1>1, <1>11 DEF AskShutdown, AppOK
  <2> QED BY <1>1, <1>2, <1>11, <2>1, SendOK DEF AskShutdown, RestOK, Operations
<1>12. CASE AskStart
  <2>1. app.service \in Own
    BY <1>1, <1>12 DEF AskStart, Answer, AppOK
  <2> QED BY <1>1, <1>2, <1>12, <2>1, SendOK DEF AskStart, RestOK, Operations
<1>13. CASE AskRelease
  BY <1>1, <1>2, <1>13, SendOK DEF AskRelease, RestOK, Operations
<1>14. CASE Released
  BY <1>1, <1>3, <1>14 DEF Released, RestOK
<1>15. CASE Finish
  <2>1. AppOK(app')
    BY <1>1, <1>2, <1>15 DEF Finish, AppOK, AppSet
  <2> QED BY <1>1, <1>15, <2>1 DEF Finish, RestOK
<1>16. CASE GiveUp
  <2>1. AppOK(app')
    BY <1>1, <1>2, <1>16 DEF GiveUp, AppOK, AppSet
  <2> QED BY <1>1, <1>16, <2>1, OrphanedOK DEF GiveUp, RestOK
<1>17. CASE AppCrash
  BY <1>1, <1>3, <1>17, OrphanedOK DEF AppCrash, RestOK
<1> QED BY <1>4, <1>5, <1>6, <1>7, <1>8, <1>9, <1>10, <1>11, <1>12, <1>13, <1>14, <1>15,
           <1>16, <1>17 DEF AppStep

-----------------------------------------------------------------------------
(* What holds in every behaviour.                                           *)

LEMMA InitOK == Init => HelpersInv /\ RestOK /\ Tunnels = {}
<1> SUFFICES ASSUME Init PROVE HelpersInv /\ RestOK /\ Tunnels = {}
  OBVIOUS
<1>1. \A h \in Hosts : host[h] \in HostSet /\ host[h].session = "none"
                       /\ ~host[h].handle /\ job[h] = NoJob
  BY Records DEF Init
<1>2. HelpersOK
  BY <1>1, Records DEF Init, HelpersOK
<1>3. \A h \in Hosts : Sound(host[h], job[h])
  BY <1>1, Records DEF Sound
<1>4. HelpersInv
  BY <1>1, <1>2, <1>3 DEF HelpersInv, OneHolder
<1>5. files \in [Hosts -> Contents]
  BY DEF Init, Contents
<1>6. inbox \in [Hosts -> Seq(Waiting)]
  <2>1. <<>> \in Seq(Waiting)
    OBVIOUS
  <2> QED BY <2>1 DEF Init
<1>7. AppOK(app)
  BY Records DEF Init, Idle, AppOK, AppSet
<1>8. RestOK
  BY <1>5, <1>6, <1>7 DEF Init, RestOK, Own
<1> QED BY <1>1, <1>4, <1>8 DEF Tunnels

LEMMA Inductive == Spec => [](HelpersInv /\ RestOK)
<1>1. HelpersInv /\ RestOK /\ [Next]_vars => (HelpersInv /\ RestOK)'
  <2> SUFFICES ASSUME HelpersInv, RestOK, [Next]_vars PROVE HelpersInv' /\ RestOK'
    OBVIOUS
  <2>1. HelpersInv'
    BY Steps
  <2>2. CASE UNCHANGED vars
    BY <2>1, <2>2 DEF vars, RestOK, AppOK
  <2>3. CASE AppStep
    BY <2>1, <2>3, AppTypes
  <2>4. CASE \E h \in Hosts : HelperStep(h)
    BY <2>1, <2>4, HelperTypes DEF HelpersInv
  <2> QED BY <2>2, <2>3, <2>4 DEF Next
<1> QED BY <1>1, InitOK, PTL DEF Spec

(* Every variable keeps its type, and the app never asks a helper that it   *)
(* does not know, in any number of migrations, crashes and failures.        *)
THEOREM Typed == Spec => []TypeOK
<1>1. HelpersInv /\ RestOK => TypeOK
  BY DEF HelpersInv, TypeOK
<1> QED BY <1>1, Inductive, PTL

(* A helper with a tunnel holds its name, and one without a command at work *)
(* holds it for nothing else, for every number of accounts.  (call)         *)
THEOREM HandleFollows == Spec => []HandleFollowsTunnel
<1>1. HelpersInv => HandleFollowsTunnel
  BY Records DEF HelpersInv, Sound, HandleFollowsTunnel
<1> QED BY <1>1, Inductive, PTL

(* The helpers of all accounts together implement OneTunnel: at most one    *)
(* tunnel is open, and it closes before another opens.  (acquireTun)        *)
THEOREM OneTunnelAtATime == Spec => AtMostOneTunnel
<1>1. HelpersInv /\ RestOK /\ [Next]_vars => [Abstract!Next]_Tunnels
  BY Steps
<1>2. Init => Abstract!Init
  BY InitOK DEF Abstract!Init
<1> QED BY <1>1, <1>2, Inductive, PTL DEF Spec, AtMostOneTunnel, Abstract!Spec
-----------------------------------------------------------------------------
(* What a migration moves.  A session of this account runs on one helper at *)
(* a time, the one the marker names; that helper holds what the last        *)
(* session wrote, and the other one is only ever written by an import.      *)

(* A content one session wrote all of; and the one of the last session.     *)
Whole(d) == \A f, g \in Names : d[f] = d[g]
UpToDate(d) == \A f \in Names : d[f] = newest

Quiet(h) == job[h] = NoJob /\ inbox[h] = <<>>

(* The files a replacement or a rollback has not come to yet.               *)
Left(j) == {j.todo[i] : i \in DOMAIN j.todo}

(* What the app asks for in each step it waits in.                          *)
Asks(pc, op) ==
  \/ pc = "direct" /\ op \in {"start", "reload", "stop"}
  \/ pc = "stop" /\ op = "stop"
  \/ pc = "export" /\ op = "hostExportState"
  \/ pc = "import" /\ op = "hostImportState"
  \/ pc \in {"shutdown", "release"} /\ op = "hostShutdown"

Awaited(h, c) ==
  /\ app.reply = None
  /\ h = Asked
  /\ Asks(app.pc, c.op)
  /\ app.pc = "import" => UpToDate(c.files)

(* A command h has or waits for: sessions and exports only where the marker *)
(* is, imports only where it is not, and no end of a process whose files    *)
(* are in pieces.                                                           *)
Belongs(h, c) ==
  /\ c.op \in {"start", "reload", "stop", "hostExportState"} => h \in Foreign \/ h = marker
  /\ c.op = "hostImportState" => h \in Own /\ h # marker /\ Whole(c.files)
  /\ c.op = "hostShutdown" => Whole(files[h])
  /\ c.asked => Awaited(h, c)

(* The app waits for the last of its commands, and sends no shutdown after  *)
(* an import.                                                               *)
InOrder(h) ==
  /\ \A i \in DOMAIN inbox[h] : inbox[h][i].asked => i = Len(inbox[h])
  /\ job[h].asked => inbox[h] = <<>>
  /\ \A i, k \in DOMAIN inbox[h] :
       i < k /\ inbox[h][i].op = "hostImportState" => inbox[h][k].op # "hostShutdown"
  /\ job[h].op = "hostImportState" =>
       \A k \in DOMAIN inbox[h] : inbox[h][k].op # "hostShutdown"

(* How far an import or its rollback is, and what h then holds.             *)
Holds(h) ==
  /\ job[h].pc = "idle" => job[h] = NoJob
  /\ job[h].pc = "settle" => job[h].op \in {"start", "reload", "stop"}
  /\ job[h].pc \in {"replace", "rollback"} =>
       job[h].op = "hostImportState" /\ (Whole(job[h].original) \/ h \in torn)
  /\ job[h].pc = "replace" =>
       \A f \in Names \ Left(job[h]) : files[h][f] = job[h].files[f]
  /\ job[h].pc = "rollback" =>
       \A f \in Names \ Left(job[h]) : files[h][f] = job[h].original[f]
  /\ host[h].closing => Whole(files[h]) /\ job[h].pc \notin {"replace", "rollback"}
  /\ ~host[h].up => ~host[h].closing /\ ~host[h].unusable
  /\ host[h].session # "none" => h \in Foreign \/ h = marker
  /\ \/ Whole(files[h])
     \/ h \in torn
     \/ host[h].unusable
     \/ job[h].pc \in {"replace", "rollback"}

HostInv(h) ==
  /\ \A i \in DOMAIN inbox[h] : Belongs(h, inbox[h][i])
  /\ Belongs(h, job[h])
  /\ InOrder(h)
  /\ Holds(h)

(* Where the app stands: what it has an answer for is done with, and from   *)
(* the export to the marker the helper it leaves has nothing to do.         *)
Stands ==
  /\ app.service \in {None, marker}
  /\ app.pc \in {"stop", "export", "import"} => app.prepared # marker
  /\ app.pc = "idle" => app.reply = None
  /\ app.reply # None => Quiet(Asked)
  /\ app.pc = "export" /\ app.reply = "ok" =>
       UpToDate(app.files) /\ host[marker].session = "none"
  /\ app.pc = "import" =>
       Quiet(marker) /\ host[marker].session = "none" /\ UpToDate(app.files)
  /\ app.pc = "import" /\ app.reply = "ok" => UpToDate(files[app.prepared])
  /\ app.pc = "marked" => Quiet(Peer) /\ Whole(files[Peer])
  /\ UpToDate(files[marker])

MoveInv ==
  /\ \A h \in Hosts : HostInv(h)
  /\ Stands

Typing == HelpersInv /\ RestOK

(* A step of h alone.                                                       *)
Beside(h) ==
  /\ UNCHANGED marker
  /\ \A g \in Hosts \ {h} :
       /\ host'[g] = host[g] /\ job'[g] = job[g] /\ inbox'[g] = inbox[g]
       /\ files'[g] = files[g]
       /\ g \in torn' <=> g \in torn

(* The helper the app waits for, and the others.                            *)
LEMMA Askeds ==
  ASSUME Typing, Stands
  PROVE  /\ marker \in Own /\ Own \subseteq Hosts /\ None \notin Hosts
         /\ app.pc # "idle" => app.service = marker
         /\ app.pc # "idle" => Asked \in Own
         /\ app.pc \in {"stop", "export", "import"} => app.prepared \in Own
         /\ app.pc = "import" => Asked = app.prepared
         /\ app.pc \in {"stop", "export", "direct", "release", "marked"} => Asked = marker
         /\ app.pc = "shutdown" => Asked = Peer
         /\ Peer \in Own
         /\ app.service = marker => Peer # marker
BY HostAssumption DEF Typing, RestOK, AppOK, Stands, Asked, Peer, Own, Hosts

(* The commands of a helper and where they stand.                           *)
LEMMA Commands ==
  ASSUME Typing, NEW h \in Hosts
  PROVE  /\ job[h] \in JobSet /\ host[h] \in HostSet /\ files[h] \in Contents
         /\ inbox[h] \in Seq(Waiting) /\ Len(inbox[h]) \in Nat
         /\ DOMAIN inbox[h] = 1 .. Len(inbox[h])
         /\ \A i \in DOMAIN inbox[h] : inbox[h][i] \in JobSet
<1>1. /\ job[h] \in JobSet /\ host[h] \in HostSet /\ files[h] \in Contents
      /\ inbox[h] \in Seq(Waiting)
  BY DEF Typing, HelpersInv, HelpersOK, RestOK
<1>2. \A i \in DOMAIN inbox[h] : inbox[h][i] \in Waiting
  BY <1>1
<1> QED BY <1>1, <1>2 DEF Waiting

(* A step of h alone changes nothing for another helper whose commands are  *)
(* still awaited.                                                           *)
LEMMA Others ==
  ASSUME Typing, NEW h \in Hosts, NEW g \in Hosts, g # h, HostInv(g), Beside(h),
         \A c \in JobSet : c.asked /\ Awaited(g, c) => Awaited(g, c)'
  PROVE  HostInv(g)'
<1>1. /\ host'[g] = host[g] /\ job'[g] = job[g] /\ inbox'[g] = inbox[g]
      /\ files'[g] = files[g] /\ marker' = marker
      /\ g \in torn' <=> g \in torn
  BY DEF Beside
<1>2. job[g] \in JobSet /\ \A i \in DOMAIN inbox[g] : inbox[g][i] \in JobSet
  BY Commands
<1>3. ASSUME NEW c \in JobSet, Belongs(g, c)
      PROVE  Belongs(g, c)'
  BY <1>1, <1>3 DEF Belongs, Whole
<1>4. \A i \in DOMAIN inbox'[g] : Belongs(g, inbox[g][i])'
  BY <1>1, <1>2, <1>3 DEF HostInv
<1>5. Belongs(g, job[g])'
  BY <1>1, <1>2, <1>3 DEF HostInv
<1>6. InOrder(g)'
  BY <1>1 DEF HostInv, InOrder
<1>7. Holds(g)'
  BY <1>1 DEF HostInv, Holds, Whole, Left
<1> QED BY <1>4, <1>5, <1>6, <1>7 DEF HostInv

(* A step of a helper that tells the app nothing leaves the app where it    *)
(* stands, when it neither gives a helper work that had none nor writes     *)
(* where the marker is.                                                     *)
LEMMA StandsStill ==
  ASSUME Typing, Stands, NEW h \in Hosts, Beside(h), UNCHANGED <<app, newest>>,
         Quiet(h) /\ h \in Own =>
           /\ Quiet(h)' /\ files'[h] = files[h]
           /\ host'[h].session \in {host[h].session, "none"},
         h = marker => files'[h] = files[h]
  PROVE  Stands'
<1>1. /\ \A g \in Own : Quiet(g) =>
           /\ Quiet(g)' /\ files'[g] = files[g]
           /\ host[g].session = "none" => host'[g].session = "none"
      /\ files'[marker] = files[marker] /\ marker' = marker
  BY Askeds DEF Beside, Quiet
<1>2. Asked' = Asked /\ Peer' = Peer
  BY DEF Asked, Peer
<1>3. /\ UpToDate(files[marker])' /\ app'.service \in {None, marker'}
      /\ app'.pc \in {"stop", "export", "import"} => app'.prepared # marker'
      /\ app'.pc = "idle" => app'.reply = None
  BY <1>1 DEF Stands, UpToDate
<1>4. app'.reply # None => Quiet(Asked)'
  BY <1>1, <1>2, Askeds DEF Stands
<1>5. app'.pc = "export" /\ app'.reply = "ok" =>
        UpToDate(app.files)' /\ host'[marker'].session = "none"
  BY <1>1, Askeds, HostAssumption DEF Stands, UpToDate
<1>6. app'.pc = "import" =>
        Quiet(marker)' /\ host'[marker'].session = "none" /\ UpToDate(app.files)'
  BY <1>1, Askeds DEF Stands, UpToDate
<1>7. app'.pc = "import" /\ app'.reply = "ok" => UpToDate(files[app.prepared])'
  BY <1>1, Askeds, HostAssumption DEF Stands, UpToDate
<1>8. app'.pc = "marked" => Quiet(Peer)' /\ Whole(files[Peer])'
  BY <1>1, <1>2, Askeds DEF Stands, Whole
<1> QED BY <1>3, <1>4, <1>5, <1>6, <1>7, <1>8 DEF Stands

(* A command that goes on, and at most writes what it imports.              *)
LEMMA GoesOn ==
  ASSUME Typing, MoveInv, NEW h \in Hosts, Beside(h), UNCHANGED <<inbox, app, newest>>,
         job[h].pc # "idle",
         job'[h].op = job[h].op, job'[h].files = job[h].files,
         job'[h].asked = job[h].asked,
         job[h].op = "hostImportState" \/ files'[h] = files[h],
         Holds(h)'
  PROVE  MoveInv'
<1>1. HostInv(h) /\ Stands /\ ~Quiet(h)
  BY Records DEF MoveInv, Quiet
<1>2. h = marker => files'[h] = files[h]
  BY <1>1 DEF HostInv, Belongs
<1>3. Stands'
  BY <1>1, <1>2, StandsStill
<1>4. \A g \in Hosts, c \in JobSet : c.asked /\ Awaited(g, c) => Awaited(g, c)'
  BY DEF Awaited, Asked, Peer, UpToDate
<1>5. \A g \in Hosts \ {h} : HostInv(g)'
  BY <1>4, Others DEF MoveInv
<1>6. Belongs(h, job[h])'
  <2>1. Awaited(h, job[h]) => Awaited(h, job[h])'
    BY DEF Awaited, Asked, Peer, UpToDate
  <2> QED BY <1>1, <2>1 DEF HostInv, Belongs, Whole, Beside
<1>7. ASSUME NEW i \in DOMAIN inbox[h]
      PROVE  Belongs(h, inbox[h][i])'
  <2>1. Belongs(h, inbox[h][i])
    BY <1>1, <1>7 DEF HostInv
  <2>2. inbox[h][i].op = "hostShutdown" => files'[h] = files[h]
    BY <1>1, <1>7 DEF HostInv, InOrder
  <2>3. Awaited(h, inbox[h][i]) => Awaited(h, inbox[h][i])'
    BY DEF Awaited, Asked, Peer, UpToDate
  <2> QED BY <2>1, <2>2, <2>3 DEF Belongs, Whole, Beside
<1>8. InOrder(h)'
  BY <1>1 DEF HostInv, InOrder
<1>9. HostInv(h)'
  BY <1>6, <1>7, <1>8 DEF HostInv
<1> QED BY <1>3, <1>5, <1>9 DEF MoveInv
(* The command a helper answers was the last one the app waits for.         *)
LEMMA AskedIsLast ==
  ASSUME Typing, MoveInv, NEW h \in Hosts, job[h].asked
  PROVE  /\ inbox[h] = <<>> /\ h = Asked /\ app.reply = None /\ Asks(app.pc, job[h].op)
         /\ app.pc # "idle" /\ h \in Own
         /\ app.pc = "import" => UpToDate(job[h].files)
         /\ \A g \in Hosts \ {h} :
              /\ ~job[g].asked
              /\ \A i \in DOMAIN inbox[g] : ~inbox[g][i].asked
<1>1. /\ inbox[h] = <<>> /\ Awaited(h, job[h])
  BY DEF MoveInv, HostInv, InOrder, Belongs
<1>2. \A g \in Hosts, c \in JobSet : Belongs(g, c) /\ c.asked => g = Asked
  BY DEF Belongs, Awaited
<1>3. \A g \in Hosts \ {h} :
        /\ ~job[g].asked
        /\ \A i \in DOMAIN inbox[g] : ~inbox[g][i].asked
  BY <1>1, <1>2, Commands DEF MoveInv, HostInv, Awaited
<1>4. app.pc # "idle"
  BY <1>1 DEF Awaited, Asks
<1> QED BY <1>1, <1>3, <1>4, Askeds DEF Awaited, MoveInv

(* A helper is done with a command; the app hears of it if it asked.        *)
LEMMA Answers ==
  ASSUME Typing, MoveInv, NEW h \in Hosts, Beside(h), UNCHANGED <<inbox, files, newest>>,
         job[h].pc # "idle", job'[h] = NoJob,
         host'[h].session \in {host[h].session, "none"},
         Holds(h)',
         NEW answer \in {"ok", "failed"}, NEW content \in Contents,
         app' = IF job[h].asked THEN [app EXCEPT !.reply = answer, !.files = content]
                ELSE app,
         job[h].asked /\ app.pc = "import" => content = app.files,
         job[h].op = "hostExportState" /\ answer = "ok" =>
           content = files[h] /\ host'[h].session = "none",
         job[h].op = "hostImportState" /\ answer = "ok" =>
           \A f \in Names : files[h][f] = job[h].files[f]
  PROVE  MoveInv'
<1>1. HostInv(h) /\ Stands /\ ~Quiet(h) /\ NoJob \in JobSet
      /\ NoJob.op = None /\ ~NoJob.asked
  BY Records DEF MoveInv, Quiet, NoJob
<1>2. app \in AppSet /\ app'.pc = app.pc /\ app'.service = app.service
      /\ app'.prepared = app.prepared
      /\ Asked' = Asked /\ Peer' = Peer
  BY DEF Typing, RestOK, AppOK, AppSet, Asked, Peer
<1>3. Belongs(h, job[h])' /\ InOrder(h)'
  BY <1>1, HostAssumption DEF Belongs, InOrder, HostInv
<1>4. \A i \in DOMAIN inbox[h] : Belongs(h, inbox[h][i])'
  <2>1. TAKE i \in DOMAIN inbox[h]
  <2>2. Belongs(h, inbox[h][i])
    BY <1>1 DEF HostInv
  <2>3. job[h].asked => ~inbox[h][i].asked
    BY AskedIsLast
  <2>4. Awaited(h, inbox[h][i]) /\ inbox[h][i].asked => Awaited(h, inbox[h][i])'
    BY <1>2, <2>3 DEF Awaited, UpToDate
  <2> QED BY <2>2, <2>4 DEF Belongs, Beside, Whole
<1>5. HostInv(h)'
  BY <1>3, <1>4 DEF HostInv
<1>6. ASSUME NEW g \in Hosts, g # h
      PROVE  HostInv(g)'
  <2>1. CASE ~job[h].asked
    <3>1. \A c \in JobSet : c.asked /\ Awaited(g, c) => Awaited(g, c)'
      BY <1>2, <2>1 DEF Awaited, UpToDate
    <3> QED BY <1>6, <3>1, Others DEF MoveInv
  <2>2. CASE job[h].asked
    <3>1. \A c \in JobSet : ~Awaited(g, c)
      BY <1>6, <2>2, AskedIsLast DEF Awaited
    <3> QED BY <1>6, <3>1, Others DEF MoveInv
  <2> QED BY <2>1, <2>2
<1>7. CASE ~job[h].asked
  <2>1. Stands'
    BY <1>1, <1>7, StandsStill
  <2> QED BY <1>5, <1>6, <2>1 DEF MoveInv
<1>8. CASE job[h].asked
  <2>1. /\ inbox[h] = <<>> /\ h = Asked /\ Asks(app.pc, job[h].op)
        /\ app.pc # "idle" /\ h \in Own /\ marker' = marker
        /\ app.pc = "import" => UpToDate(job[h].files)
    BY <1>8, AskedIsLast DEF Beside
  <2>2. app'.reply = answer /\ app'.files = content
    BY <1>2, <1>8 DEF AppSet
  <2>3. Quiet(h)'
    BY <2>1 DEF Quiet
  <2>4. \A g \in Hosts : Quiet(g) => (Quiet(g)' /\ host'[g].session = host[g].session)
    BY <1>1, <2>3 DEF Beside, Quiet
  <2>5. app.pc = "export" /\ answer = "ok" =>
          UpToDate(app.files)' /\ host'[marker'].session = "none"
    BY <1>1, <2>1, <2>2, Askeds DEF Asks, Stands, UpToDate
  <2>6. app.pc = "import" =>
          Quiet(marker)' /\ host'[marker'].session = "none" /\ UpToDate(app.files)'
    BY <1>1, <1>8, <2>1, <2>2, <2>4, Askeds DEF Stands, UpToDate
  <2>7. app.pc = "import" /\ answer = "ok" => UpToDate(files[app.prepared])'
    BY <1>1, <1>2, <2>1, Askeds DEF Asks, UpToDate
  <2>8. app.pc = "marked" => Quiet(Peer)' /\ Whole(files[Peer])'
    BY <2>1 DEF Asks
  <2>9. /\ UpToDate(files[marker])' /\ app'.service \in {None, marker'}
        /\ app'.pc \in {"stop", "export", "import"} => app'.prepared # marker'
        /\ app'.pc = "idle" => app'.reply = None
    BY <1>1, <1>2, <2>1 DEF Stands, UpToDate
  <2>10. Quiet(Asked)'
    BY <1>2, <2>1, <2>3
  <2>11. Stands'
    BY <1>2, <2>2, <2>5, <2>6, <2>7, <2>8, <2>9, <2>10 DEF Stands
  <2> QED BY <1>5, <1>6, <2>11 DEF MoveInv
<1> QED BY <1>7, <1>8

(* The process ends, and its commands with it.                              *)
LEMMA GoneMoves ==
  ASSUME Typing, MoveInv, NEW h \in Hosts, Gone(h), UNCHANGED <<files, app, marker, newest>>,
         torn \subseteq torn', torn' \subseteq torn \cup {h},
         Whole(files[h]) \/ h \in torn'
  PROVE  MoveInv'
<1>1. /\ host'[h] = Down /\ inbox'[h] = <<>> /\ job'[h] = NoJob
      /\ Beside(h) /\ Stands
  BY DEF Gone, Beside, Typing, HelpersInv, HelpersOK, RestOK, MoveInv
<1>2. Stands'
  BY <1>1, Records, StandsStill DEF Quiet
<1>3. \A g \in Hosts, c \in JobSet : Awaited(g, c) => Awaited(g, c)'
  BY DEF Awaited, Asked, Peer, UpToDate
<1>4. \A g \in Hosts \ {h} : HostInv(g)'
  BY <1>1, <1>3, Others DEF MoveInv
<1>5. NoJob.op = None /\ ~NoJob.asked /\ NoJob.pc = "idle"
      /\ Down.session = "none" /\ ~Down.closing /\ ~Down.unusable
  BY Records DEF NoJob, Down
<1>6. HostInv(h)'
  BY <1>1, <1>5, HostAssumption DEF HostInv, Belongs, InOrder, Holds, Whole
<1> QED BY <1>2, <1>4, <1>6 DEF MoveInv

(* What is left of a sequence without its head.                             *)
LEMMA TailOf ==
  ASSUME NEW S, NEW s \in Seq(S), s # <<>>
  PROVE  /\ Tail(s) \in Seq(S) /\ Len(s) \in Nat \ {0} /\ 1 \in DOMAIN s
         /\ Head(s) = s[1]
         /\ Len(Tail(s)) = Len(s) - 1 /\ DOMAIN Tail(s) = 1 .. Len(s) - 1
         /\ \A i \in DOMAIN Tail(s) : Tail(s)[i] = s[i + 1] /\ i + 1 \in DOMAIN s
<1>1. Tail(s) \in Seq(S) /\ Len(s) \in Nat \ {0} /\ 1 \in DOMAIN s /\ Head(s) = s[1]
  OBVIOUS
<1>2. Len(Tail(s)) = Len(s) - 1
  BY <1>1
<1>3. DOMAIN Tail(s) = 1 .. Len(s) - 1
  BY <1>1, <1>2
<1>4. ASSUME NEW i \in DOMAIN Tail(s)
      PROVE  Tail(s)[i] = s[i + 1] /\ i + 1 \in DOMAIN s
  BY <1>1, <1>3
<1> QED BY <1>1, <1>2, <1>3, <1>4

(* The next command is taken.                                               *)
LEMMA TakeMoves ==
  ASSUME Typing, MoveInv, NEW h \in Hosts, Take(h)
  PROVE  MoveInv'
<1>1. /\ job[h] = NoJob /\ inbox[h] # <<>> /\ inbox[h] \in Seq(Waiting)
      /\ UNCHANGED <<host, files, app, marker, newest, torn>>
      /\ job'[h] = [Head(inbox[h]) EXCEPT !.pc = "admit"]
      /\ inbox'[h] = Tail(inbox[h])
      /\ Beside(h)
  BY Commands DEF Take, Beside, Typing, HelpersInv, HelpersOK, RestOK
<1>2. PICK c \in JobSet : c = inbox[h][1] /\ c = Head(inbox[h]) /\ 1 \in DOMAIN inbox[h]
  BY <1>1, Commands
<1>3. /\ job'[h].pc = "admit" /\ job'[h].op = c.op /\ job'[h].asked = c.asked
      /\ job'[h].files = c.files /\ job'[h].todo = c.todo
      /\ job'[h].original = c.original
  BY <1>1, <1>2 DEF JobSet
<1>4. /\ DOMAIN inbox'[h] = 1 .. Len(inbox[h]) - 1
      /\ Len(inbox'[h]) = Len(inbox[h]) - 1 /\ Len(inbox[h]) \in Nat \ {0}
      /\ \A i \in DOMAIN inbox'[h] :
           inbox'[h][i] = inbox[h][i + 1] /\ i + 1 \in DOMAIN inbox[h]
      /\ Len(inbox[h]) = 1 => inbox'[h] = <<>>
  <2>1. inbox'[h] \in Seq(Waiting)
    BY <1>1, TailOf
  <2> QED BY <1>1, <2>1, TailOf
<1>5. HostInv(h) /\ Stands
  BY DEF MoveInv
<1>6. ~Quiet(h) /\ UNCHANGED files
  BY <1>1 DEF Quiet
<1>7. Stands'
  BY <1>1, <1>5, <1>6, StandsStill
<1>8. \A g \in Hosts, d \in JobSet : Awaited(g, d) => Awaited(g, d)'
  BY <1>1 DEF Awaited, Asked, Peer, UpToDate
<1>9. \A g \in Hosts \ {h} : HostInv(g)'
  BY <1>1, <1>8, Others DEF MoveInv
<1>10. \A d \in JobSet : Belongs(h, d) => Belongs(h, d)'
  BY <1>1, <1>8 DEF Belongs, Whole
<1>11. Belongs(h, job[h])'
  <2>1. Belongs(h, c)'
    BY <1>2, <1>5, <1>10 DEF HostInv
  <2> QED BY <1>3, <2>1 DEF Belongs, Awaited
<1>12. ASSUME NEW i \in DOMAIN inbox'[h]
      PROVE  Belongs(h, inbox[h][i])'
  <2>1. PICK d \in JobSet : d = inbox[h][i + 1] /\ d = inbox'[h][i] /\ Belongs(h, d)
    BY <1>4, <1>5, Commands DEF HostInv
  <2>2. Belongs(h, d)'
    BY <1>10, <2>1
  <2> QED BY <2>1, <2>2 DEF Belongs
<1>13. InOrder(h)'
  <2>0. InOrder(h)
    BY <1>5 DEF HostInv
  <2>1. \A i \in DOMAIN inbox'[h] : inbox'[h][i].asked => i = Len(inbox'[h])
    BY <1>4, <2>0 DEF InOrder
  <2>2. job'[h].asked => inbox'[h] = <<>>
    BY <1>1, <1>3, <1>4, <2>0 DEF InOrder
  <2>3. ASSUME NEW i \in DOMAIN inbox'[h], NEW k \in DOMAIN inbox'[h],
               i < k, inbox'[h][i].op = "hostImportState"
        PROVE  inbox'[h][k].op # "hostShutdown"
    <3>1. /\ inbox'[h][i] = inbox[h][i + 1] /\ i + 1 \in DOMAIN inbox[h]
          /\ inbox'[h][k] = inbox[h][k + 1] /\ k + 1 \in DOMAIN inbox[h]
          /\ i + 1 < k + 1
      BY <1>4, <2>3
    <3>2. inbox[h][i + 1].op = "hostImportState"
      BY <2>3, <3>1
    <3> QED BY <2>0, <3>1, <3>2 DEF InOrder
  <2>4. job'[h].op = "hostImportState" =>
          \A k \in DOMAIN inbox'[h] : inbox'[h][k].op # "hostShutdown"
    BY <1>2, <1>3, <1>4, <2>0 DEF InOrder
  <2> QED BY <2>1, <2>2, <2>3, <2>4 DEF InOrder
<1>14. Holds(h)'
  <2>1. NoJob.pc = "idle"
    BY Records
  <2> QED BY <1>1, <1>3, <1>5, <2>1 DEF HostInv, Holds, Whole
<1>15. HostInv(h)'
  BY <1>11, <1>12, <1>13, <1>14 DEF HostInv
<1> QED BY <1>7, <1>9, <1>15 DEF MoveInv
(* A command that is answered, by a helper that may be closing now, or      *)
(* unusable, or without its session.                                        *)
LEMMA Replies ==
  ASSUME Typing, MoveInv, NEW h \in Hosts, Beside(h), UNCHANGED <<inbox, files, newest>>,
         job[h].pc # "idle",
         NEW answer \in {"ok", "failed"}, Reply(h, answer),
         host'[h].up = host[h].up,
         host'[h].session \in {host[h].session, "none"},
         host'[h].closing => host[h].closing \/ job[h].op = "hostShutdown",
         host[h].unusable => host'[h].unusable,
         h \in torn => h \in torn' \/ Whole(files[h]),
         job[h].pc \in {"replace", "rollback"} =>
           Whole(files[h]) \/ h \in torn' \/ host'[h].unusable,
         answer = "ok" => job[h].op # "hostExportState",
         job[h].op = "hostImportState" /\ answer = "ok" =>
           \A f \in Names : files[h][f] = job[h].files[f]
  PROVE  MoveInv'
<1>1. /\ HostInv(h) /\ host[h].up /\ job'[h] = NoJob
      /\ app' = IF job[h].asked THEN [app EXCEPT !.reply = answer] ELSE app
  BY BusyIsUp DEF Typing, MoveInv, HelpersInv, HelpersOK, Reply, Answered
<1>2. Holds(h)'
  BY <1>1, Records DEF HostInv, Belongs, Holds, Whole, Beside
<1>3. app \in AppSet /\ app.files \in Contents
  BY DEF Typing, RestOK, AppOK, AppSet
<1>4. [app EXCEPT !.reply = answer] = [app EXCEPT !.reply = answer, !.files = app.files]
  BY <1>3 DEF AppSet
<1>5. app' = IF job[h].asked THEN [app EXCEPT !.reply = answer, !.files = app.files]
             ELSE app
  BY <1>1, <1>4
<1> HIDE DEF Beside, Holds, MoveInv, Typing
<1> QED BY <1>1, <1>2, <1>3, <1>5, Answers

(* What a change of one helper's process or files does to it.               *)
LEMMA Changed ==
  ASSUME Typing, NEW h \in Hosts
  PROVE  /\ UNCHANGED host => host'[h] = host[h]
         /\ host' = [host EXCEPT ![h].closing = TRUE] =>
              /\ \A g \in Hosts \ {h} : host'[g] = host[g]
              /\ host'[h].up = host[h].up /\ host'[h].session = host[h].session
              /\ host'[h].closing /\ host'[h].unusable = host[h].unusable
         /\ host' = [host EXCEPT ![h].unusable = TRUE] =>
              /\ \A g \in Hosts \ {h} : host'[g] = host[g]
              /\ host'[h].up = host[h].up /\ host'[h].session = host[h].session
              /\ host'[h].closing = host[h].closing /\ host'[h].unusable
         /\ \A b \in BOOLEAN : host' = [host EXCEPT ![h].handle = b] =>
              /\ \A g \in Hosts \ {h} : host'[g] = host[g]
              /\ host'[h].up = host[h].up /\ host'[h].session = host[h].session
              /\ host'[h].closing = host[h].closing
              /\ host'[h].unusable = host[h].unusable
         /\ \A k : host' = [host EXCEPT ![h].session = k] =>
              /\ \A g \in Hosts \ {h} : host'[g] = host[g]
              /\ host'[h].up = host[h].up /\ host'[h].session = k
              /\ host'[h].closing = host[h].closing
              /\ host'[h].unusable = host[h].unusable
         /\ job' = [job EXCEPT ![h] = NoJob] =>
              /\ \A g \in Hosts \ {h} : job'[g] = job[g]
              /\ job'[h] = NoJob
<1>1. host \in [Hosts -> HostSet] /\ job \in [Hosts -> JobSet]
  BY DEF Typing, HelpersInv, HelpersOK
<1> QED BY <1>1 DEF HostSet

(* The commands that are answered at once.                                  *)
LEMMA ShortMoves ==
  ASSUME Typing, MoveInv, NEW h \in Hosts, Refuse(h) \/ Shutdown(h) \/ Export(h)
  PROVE  MoveInv'
<1>1. /\ job[h].pc = "admit" /\ UNCHANGED <<files, inbox, marker, newest, torn>>
      /\ job' = [job EXCEPT ![h] = NoJob]
  BY DEF Refuse, Shutdown, Export, Reply
<1>2. CASE Refuse(h)
  <2>1. Beside(h) /\ host'[h] = host[h] /\ Reply(h, "failed")
    BY <1>1, <1>2, Changed DEF Refuse, Beside
  <2> QED BY <1>1, <2>1, Replies
<1>3. CASE Shutdown(h)
  <2>1. Beside(h) /\ Reply(h, "ok") /\ job[h].op = "hostShutdown"
    BY <1>1, <1>3, Changed DEF Shutdown, Beside
  <2>2. /\ host'[h].up = host[h].up /\ host'[h].session = host[h].session
        /\ host'[h].unusable = host[h].unusable
    BY <1>3, Changed DEF Shutdown
  <2> QED BY <1>1, <2>1, <2>2, Replies
<1>4. CASE Export(h) /\ Reply(h, "failed") /\ host' \in {host, [host EXCEPT ![h].unusable = TRUE]}
  <2>1. Beside(h)
    BY <1>1, <1>4, Changed DEF Beside
  <2>2. /\ host'[h].up = host[h].up /\ host'[h].session = host[h].session
        /\ host[h].unusable => host'[h].unusable
        /\ host'[h].closing = host[h].closing
    BY <1>4, Changed
  <2> QED BY <1>1, <1>4, <2>1, <2>2, Replies
<1>5. CASE /\ Export(h) /\ UNCHANGED host
           /\ app' = IF job[h].asked
                     THEN [app EXCEPT !.reply = "ok", !.files = files[h]] ELSE app
  <2>1. /\ Beside(h) /\ host'[h] = host[h] /\ job'[h] = NoJob
        /\ job[h].op = "hostExportState" /\ files[h] \in Contents
    <3>1. Beside(h) /\ host'[h] = host[h] /\ job'[h] = NoJob
      BY <1>1, <1>5, Changed DEF Beside
    <3>2. job[h].op = "hostExportState" /\ files[h] \in Contents
      BY <1>5, Commands DEF Export
    <3> QED BY <3>1, <3>2
  <2>2. HostInv(h) /\ Stands
    BY DEF MoveInv
  <2>3. host[h].session = "none"
    BY <1>5, <2>1 DEF Export, Refused, Exclusive
  <2>4. Holds(h)'
    BY <1>1, <2>1, <2>2, Records DEF HostInv, Holds, Whole
  <2>5. ~(job[h].asked /\ app.pc = "import")
    BY <2>1, AskedIsLast DEF Asks
  <2> HIDE DEF Beside, Holds, MoveInv, Typing
  <2> QED BY <1>1, <1>5, <2>1, <2>3, <2>4, <2>5, Answers
<1> QED BY <1>2, <1>3, <1>4, <1>5 DEF Export, Reply
(* The steps that start, change or stop a session.                          *)
LEMMA AdmitMoves ==
  ASSUME Typing, MoveInv, NEW h \in Hosts, Admit(h)
  PROVE  MoveInv'
<1>1. /\ job[h].pc = "admit" /\ UNCHANGED <<files, inbox, marker, newest, torn>>
      /\ job[h].op \in {"start", "reload", "stop"}
      /\ HostInv(h) /\ job[h] \in JobSet
  BY Commands DEF Admit, MoveInv
<1>2. CASE /\ job' = [job EXCEPT ![h].pc = "engine", ![h].had = host[h].handle]
           /\ host' = [host EXCEPT ![h].handle = @ \/ NeedsHandle(h)]
           /\ UNCHANGED app
  <2>1. /\ host'[h].up = host[h].up /\ host'[h].session = host[h].session
        /\ host'[h].closing = host[h].closing
        /\ host'[h].unusable = host[h].unusable
        /\ \A g \in Hosts \ {h} : host'[g] = host[g]
    <3>1. PICK b \in BOOLEAN : b = (host[h].handle \/ NeedsHandle(h))
      OBVIOUS
    <3>2. host' = [host EXCEPT ![h].handle = b]
      BY <1>2, <3>1
    <3> QED BY <3>2, Changed
  <2>2. /\ job'[h].pc = "engine" /\ job'[h].op = job[h].op
        /\ job'[h].files = job[h].files /\ job'[h].asked = job[h].asked
        /\ \A g \in Hosts \ {h} : job'[g] = job[g]
    BY <1>1, <1>2 DEF Typing, HelpersInv, HelpersOK, JobSet
  <2>3. Beside(h)
    BY <1>1, <2>1, <2>2 DEF Beside
  <2>4. Holds(h)'
    BY <1>1, <2>1, <2>2 DEF HostInv, Holds, Whole
  <2> HIDE DEF Beside, Holds, MoveInv, Typing
  <2> QED BY <1>1, <1>2, <2>2, <2>3, <2>4, GoesOn
<1>3. CASE UNCHANGED host /\ Reply(h, "failed")
  <2>1. Beside(h)
    BY <1>1, <1>3, Changed DEF Beside, Reply
  <2> QED BY <1>1, <1>3, <2>1, Replies
<1> QED BY <1>2, <1>3 DEF Admit

LEMMA SettleMoves ==
  ASSUME Typing, MoveInv, NEW h \in Hosts, Settle(h)
  PROVE  MoveInv'
<1>1. /\ job[h].pc = "settle" /\ UNCHANGED <<files, inbox, marker, newest, torn>>
      /\ HostInv(h)
      /\ Reply(h, "ok") \/ Reply(h, "failed")
  BY DEF Settle, MoveInv
<1>2. /\ host'[h].up = host[h].up /\ host'[h].session = host[h].session
      /\ host'[h].closing = host[h].closing
      /\ host'[h].unusable = host[h].unusable
      /\ \A g \in Hosts \ {h} : host'[g] = host[g]
  <2>1. PICK b \in BOOLEAN : b = (host[h].handle /\ ~Releases(h))
    OBVIOUS
  <2>2. host' = [host EXCEPT ![h].handle = b]
    BY <2>1 DEF Settle
  <2> QED BY <2>2, Changed
<1>3. Beside(h)
  BY <1>1, <1>2, Changed DEF Beside, Reply
<1>4. job[h].op \in {"start", "reload", "stop"}
  BY <1>1 DEF HostInv, Holds
<1> QED BY <1>1, <1>2, <1>3, <1>4, Replies

(* The engine answers, and no session runs.                                 *)
LEMMA EngineGoesOn ==
  ASSUME Typing, MoveInv, NEW h \in Hosts,
         job[h].pc = "engine", UNCHANGED <<files, newest, inbox, app, marker, torn>>,
         \/ job' = [job EXCEPT ![h].pc = "settle"]
         \/ job' = [job EXCEPT ![h].pc = "settle", ![h].ok = TRUE],
         host' \in {host, [host EXCEPT ![h].session = "none"]}
  PROVE  MoveInv'
<1>1. /\ host'[h].up = host[h].up /\ host'[h].session \in {host[h].session, "none"}
      /\ host'[h].closing = host[h].closing
      /\ host'[h].unusable = host[h].unusable
      /\ \A g \in Hosts \ {h} : host'[g] = host[g]
  <2>1. CASE UNCHANGED host
    BY <2>1
  <2>2. CASE host' = [host EXCEPT ![h].session = "none"]
    BY <2>2, Changed
  <2> QED BY <2>1, <2>2
<1>2. /\ job'[h].pc = "settle" /\ job'[h].op = job[h].op
      /\ job'[h].files = job[h].files /\ job'[h].asked = job[h].asked
      /\ \A g \in Hosts \ {h} : job'[g] = job[g]
  BY DEF Typing, HelpersInv, HelpersOK, JobSet
<1>3. Beside(h)
  BY <1>1, <1>2 DEF Beside
<1>4. HostInv(h) /\ job[h].op \in {"start", "reload", "stop"}
  BY DEF Typing, MoveInv, HelpersInv, Sound
<1>5. Holds(h)'
  BY <1>1, <1>2, <1>4 DEF HostInv, Holds, Whole
<1> HIDE DEF Beside, Holds, MoveInv, Typing
<1> QED BY <1>2, <1>3, <1>5, GoesOn

(* A session starts on a helper of this account, which becomes the newest.  *)
LEMMA RunsMoves ==
  ASSUME Typing, MoveInv, NEW h \in Own, job[h].pc = "engine", Runs(h),
         UNCHANGED <<inbox, app, marker, torn>>
  PROVE  MoveInv'
<1>1. /\ h \in Hosts /\ job[h] \in JobSet /\ newest \in Nat
      /\ files \in [Hosts -> Contents] /\ HostInv(h) /\ Stands
      /\ job[h].op \in {"start", "reload", "stop"}
  BY Commands DEF Hosts, Typing, MoveInv, HelpersInv, RestOK, Sound
<1>2. h = marker /\ ~Quiet(h)
  BY <1>1, Records, HostAssumption DEF HostInv, Belongs, Quiet
<1>3. /\ job'[h].pc = "settle" /\ job'[h].op = job[h].op
      /\ job'[h].files = job[h].files /\ job'[h].asked = job[h].asked
      /\ \A g \in Hosts \ {h} : job'[g] = job[g]
  BY <1>1 DEF Runs, Typing, HelpersInv, HelpersOK, JobSet
<1>4. /\ host'[h].up = host[h].up /\ host'[h].closing = host[h].closing
      /\ host'[h].unusable = host[h].unusable
      /\ \A g \in Hosts \ {h} : host'[g] = host[g]
  BY <1>1, Changed DEF Runs
<1>5. /\ \A f \in Names : files'[h][f] = newest'
      /\ \A g \in Hosts \ {h} : files'[g] = files[g]
      /\ newest' = newest + 1
  BY <1>1 DEF Runs
<1>6. Beside(h) /\ Asked' = Asked /\ Peer' = Peer
  BY <1>3, <1>4, <1>5 DEF Beside, Asked, Peer
<1>7. app.pc # "import" /\ ~(app.pc = "export" /\ app.reply = "ok")
  BY <1>1, <1>2, Askeds, HostAssumption DEF Stands
<1>8. \A g \in Hosts, c \in JobSet : Awaited(g, c) => Awaited(g, c)'
  BY <1>6, <1>7 DEF Awaited
<1>9. \A g \in Hosts \ {h} : HostInv(g)'
  BY <1>1, <1>6, <1>8, Others DEF MoveInv
<1>10. Whole(files[h])'
  BY <1>5 DEF Whole
<1>11. \A c \in JobSet : Belongs(h, c) => Belongs(h, c)'
  BY <1>1, <1>8, <1>10 DEF Belongs
<1>12. Belongs(h, job[h])'
  <2>1. PICK c \in JobSet : c = job[h] /\ Belongs(h, c)
    BY <1>1 DEF HostInv
  <2>2. Belongs(h, c)'
    BY <1>11, <2>1
  <2> QED BY <1>3, <2>1, <2>2 DEF Belongs, Awaited
<1>13. ASSUME NEW i \in DOMAIN inbox[h]
       PROVE  Belongs(h, inbox[h][i])'
  <2>1. PICK c \in JobSet : c = inbox[h][i] /\ Belongs(h, c)
    BY <1>1, <1>13, Commands DEF HostInv
  <2>2. Belongs(h, c)'
    BY <1>11, <2>1
  <2> QED BY <2>1, <2>2 DEF Belongs
<1>14. InOrder(h)'
  BY <1>1, <1>3 DEF HostInv, InOrder
<1>15. Holds(h)'
  BY <1>1, <1>2, <1>3, <1>4, <1>6, <1>10 DEF HostInv, Holds, Beside
<1>16. \A g \in Own : Quiet(g) =>
         (Quiet(g)' /\ host'[g].session = host[g].session /\ files'[g] = files[g])
  BY <1>1, <1>2, <1>6, Askeds DEF Beside, Quiet
<1>17. Stands'
  <2>1. app'.reply # None => Quiet(Asked)'
    BY <1>1, <1>6, <1>16, Askeds DEF Stands
  <2>2. app'.pc = "marked" => Quiet(Peer)' /\ Whole(files[Peer])'
    BY <1>1, <1>6, <1>16, Askeds DEF Stands, Whole
  <2>3. UpToDate(files[marker])'
    BY <1>2, <1>5 DEF UpToDate
  <2> QED BY <1>1, <1>7, <2>1, <2>2, <2>3 DEF Stands
<1>18. HostInv(h)'
  BY <1>12, <1>13, <1>14, <1>15 DEF HostInv
<1> QED BY <1>9, <1>17, <1>18 DEF MoveInv

(* A session of another account.                                            *)
LEMMA ForeignRunsMoves ==
  ASSUME Typing, MoveInv, NEW h \in Hosts, h \notin Own, job[h].pc = "engine", Runs(h),
         UNCHANGED <<inbox, app, marker, torn>>
  PROVE  MoveInv'
<1>1. HostInv(h) /\ h \in Foreign /\ UNCHANGED <<files, newest>> /\ job[h] \in JobSet
      /\ job[h].op \in {"start", "reload", "stop"}
  BY Commands DEF MoveInv, Hosts, Runs, Typing, HelpersInv, Sound
<1>2. /\ job'[h].pc = "settle" /\ job'[h].op = job[h].op
      /\ job'[h].files = job[h].files /\ job'[h].asked = job[h].asked
      /\ \A g \in Hosts \ {h} : job'[g] = job[g]
  BY <1>1 DEF Runs, Typing, HelpersInv, HelpersOK, JobSet
<1>3. /\ host'[h].up = host[h].up /\ host'[h].closing = host[h].closing
      /\ host'[h].unusable = host[h].unusable
      /\ \A g \in Hosts \ {h} : host'[g] = host[g]
  BY Changed DEF Runs
<1>4. Beside(h)
  BY <1>1, <1>2, <1>3 DEF Beside
<1>5. Holds(h)'
  BY <1>1, <1>2, <1>3 DEF HostInv, Holds, Whole
<1> HIDE DEF Beside, Holds, MoveInv, Typing
<1> QED BY <1>1, <1>2, <1>4, <1>5, GoesOn

LEMMA EngineMoves ==
  ASSUME Typing, MoveInv, NEW h \in Hosts, EngineAnswers(h)
  PROVE  MoveInv'
<1>1. job[h].pc = "engine" /\ UNCHANGED <<inbox, app, marker, torn>>
  BY DEF EngineAnswers
<1>2. CASE Runs(h)
  BY <1>1, <1>2, RunsMoves, ForeignRunsMoves
<1>3. CASE ~Runs(h)
  BY <1>1, <1>3, EngineGoesOn DEF EngineAnswers, Fails
<1> QED BY <1>2, <1>3
(* What the names are that an import or a rollback has not come to.         *)
LEMMA LeftOf ==
  /\ \A t \in Seq(Names) : t # <<>> =>
       \A f \in {t[i] : i \in DOMAIN t} :
         f = Head(t) \/ f \in {Tail(t)[i] : i \in DOMAIN Tail(t)}
  /\ \A f \in Names : f \in {Files[i] : i \in DOMAIN Files}
  /\ {<<>>[i] : i \in DOMAIN <<>>} = {}
<1>1. ASSUME NEW t \in Seq(Names), t # <<>>, NEW i \in DOMAIN t, i # 1
      PROVE  i - 1 \in DOMAIN Tail(t) /\ Tail(t)[i - 1] = t[i]
  <2>1. DOMAIN t = 1 .. Len(t)
    BY <1>1
  <2>2. i - 1 \in DOMAIN Tail(t)
    BY <1>1, <2>1, TailOf
  <2>3. Tail(t)[i - 1] = t[(i - 1) + 1]
    BY <1>1, <2>2, TailOf
  <2>4. (i - 1) + 1 = i
    BY <1>1, <2>1
  <2> QED BY <2>2, <2>3, <2>4
<1>2. ASSUME NEW t \in Seq(Names), t # <<>>
      PROVE  \A f \in {t[i] : i \in DOMAIN t} :
               f = Head(t) \/ f \in {Tail(t)[i] : i \in DOMAIN Tail(t)}
  <2>1. TAKE f \in {t[i] : i \in DOMAIN t}
  <2>2. PICK i \in DOMAIN t : f = t[i]
    OBVIOUS
  <2>3. CASE i = 1
    BY <1>2, <2>2, <2>3
  <2>4. CASE i # 1
    BY <1>1, <1>2, <2>2, <2>4
  <2> QED BY <2>3, <2>4
<1> QED BY <1>2 DEF Names

(* One name is written, by the import or by its rollback.                   *)
LEMMA WriteMoves ==
  ASSUME Typing, MoveInv, NEW h \in Hosts, NEW content \in Contents,
         \/ job[h].pc = "replace" /\ content = job[h].files
         \/ job[h].pc = "rollback" /\ content = job[h].original,
         job[h].todo # <<>>,
         files' = [files EXCEPT ![h][Head(job[h].todo)] = content[Head(job[h].todo)]],
         job' = [job EXCEPT ![h].todo = Tail(@)],
         UNCHANGED <<host, inbox, app, marker, newest, torn>>
  PROVE  MoveInv'
<1>1. /\ job[h] \in JobSet /\ HostInv(h) /\ job[h].todo \in Seq(Names)
      /\ files \in [Hosts -> Contents] /\ Head(job[h].todo) \in Names
      /\ job[h].op = "hostImportState"
  <2>1. job[h] \in JobSet /\ HostInv(h)
    BY Commands DEF MoveInv
  <2>2. job[h].todo \in Seq(Names)
    BY <2>1 DEF JobSet
  <2> QED BY <2>1, <2>2 DEF Typing, RestOK, HostInv, Holds
<1>2. PICK f \in Names : f = Head(job[h].todo)
  BY <1>1
<1>3. /\ files'[h][f] = content[f]
      /\ \A k \in Names \ {f} : files'[h][k] = files[h][k]
      /\ \A g \in Hosts \ {h} : files'[g] = files[g]
  BY <1>1, <1>2 DEF Contents
<1>4. /\ job'[h].pc = job[h].pc /\ job'[h].op = job[h].op
      /\ job'[h].files = job[h].files /\ job'[h].asked = job[h].asked
      /\ job'[h].original = job[h].original
      /\ job'[h].todo = Tail(job[h].todo)
      /\ \A g \in Hosts \ {h} : job'[g] = job[g]
  BY <1>1 DEF Typing, HelpersInv, HelpersOK, JobSet
<1>5. Beside(h)
  BY <1>3, <1>4 DEF Beside
<1>6. ASSUME NEW k \in Names \ Left(job[h])'
      PROVE  k = f \/ k \in Names \ Left(job[h])
  <2>1. k \notin {Tail(job[h].todo)[i] : i \in DOMAIN Tail(job[h].todo)}
    BY <1>4, <1>6 DEF Left
  <2>2. k \in {job[h].todo[i] : i \in DOMAIN job[h].todo} => k = f
    BY <1>1, <1>2, <2>1, LeftOf
  <2> QED BY <1>6, <2>2 DEF Left
<1>7. \A k \in Names \ Left(job[h])' : files'[h][k] = content[k]
  <2>1. \A k \in Names \ Left(job[h]) : files[h][k] = content[k]
    BY <1>1 DEF HostInv, Holds
  <2> QED BY <1>3, <1>6, <2>1
<1>8. /\ job'[h].pc = "replace" =>
           \A k \in Names \ Left(job[h])' : files'[h][k] = job'[h].files[k]
      /\ job'[h].pc = "rollback" =>
           \A k \in Names \ Left(job[h])' : files'[h][k] = job'[h].original[k]
  <2>1. /\ job'[h].pc = "replace" => job'[h].files = content
        /\ job'[h].pc = "rollback" => job'[h].original = content
    BY <1>4
  <2> QED BY <1>7, <2>1
<1>9. Holds(h)'
  <2>1. job'[h].pc \in {"replace", "rollback"} /\ ~host[h].closing
    BY <1>1, <1>4 DEF HostInv, Holds
  <2> QED BY <1>1, <1>4, <1>8, <2>1 DEF HostInv, Holds
<1> HIDE DEF Beside, Holds, MoveInv, Typing
<1> QED BY <1>1, <1>4, <1>5, <1>9, GoesOn

(* A step of the import failed, and every name is to be put back.           *)
LEMMA RollBackMoves ==
  ASSUME Typing, MoveInv, NEW h \in Hosts, job[h].pc = "replace", RollBack(h),
         UNCHANGED <<host, files, inbox, app, marker, newest, torn>>
  PROVE  MoveInv'
<1>1. job[h] \in JobSet /\ HostInv(h) /\ job[h].op = "hostImportState"
  BY Commands DEF MoveInv, HostInv, Holds
<1>2. /\ job'[h].pc = "rollback" /\ job'[h].op = job[h].op
      /\ job'[h].files = job[h].files /\ job'[h].asked = job[h].asked
      /\ job'[h].original = job[h].original
      /\ job'[h].todo = Files
      /\ \A g \in Hosts \ {h} : job'[g] = job[g]
  BY <1>1 DEF RollBack, Typing, HelpersInv, HelpersOK, JobSet
<1>3. Beside(h)
  BY <1>2 DEF Beside
<1>4. Names \ Left(job[h])' = {}
  BY <1>2, LeftOf DEF Left
<1>5. Holds(h)'
  BY <1>1, <1>2, <1>4 DEF HostInv, Holds, Whole
<1> HIDE DEF Beside, Holds, MoveInv, Typing
<1> QED BY <1>1, <1>2, <1>3, <1>5, GoesOn

LEMMA StageMoves ==
  ASSUME Typing, MoveInv, NEW h \in Hosts, Stage(h)
  PROVE  MoveInv'
<1>1. /\ job[h] \in JobSet /\ HostInv(h) /\ job[h].op = "hostImportState"
      /\ job[h].pc = "admit" /\ ~host[h].closing /\ ~host[h].unusable
      /\ UNCHANGED <<files, inbox, marker, newest, torn>>
  BY Commands DEF MoveInv, Stage, Refused
<1>2. CASE /\ job' = [job EXCEPT ![h].pc = "replace", ![h].original = files[h],
                               ![h].todo = Files]
           /\ UNCHANGED <<host, app>>
  <2>1. /\ job'[h].pc = "replace" /\ job'[h].op = job[h].op
        /\ job'[h].files = job[h].files /\ job'[h].asked = job[h].asked
        /\ job'[h].original = files[h]
        /\ job'[h].todo = Files
        /\ \A g \in Hosts \ {h} : job'[g] = job[g]
    BY <1>1, <1>2 DEF Typing, HelpersInv, HelpersOK, JobSet
  <2>2. Beside(h)
    BY <1>1, <1>2, <2>1 DEF Beside
  <2>3. Names \ Left(job[h])' = {}
    BY <2>1, LeftOf DEF Left
  <2>4. Holds(h)'
    <3>1. \A f \in Names \ Left(job[h])' : files'[h][f] = job'[h].files[f]
      BY <2>3
    <3>2. Whole(job[h].original)' \/ h \in torn'
      BY <1>1, <1>2, <2>1 DEF HostInv, Holds, Whole
    <3> QED BY <1>1, <1>2, <2>1, <3>1, <3>2 DEF HostInv, Holds
  <2> HIDE DEF Beside, Holds, MoveInv, Typing
  <2> QED BY <1>1, <1>2, <2>1, <2>2, <2>4, GoesOn
<1>3. CASE Reply(h, "failed") /\ host' \in {host, [host EXCEPT ![h].unusable = TRUE]}
  <2>1. Beside(h)
    BY <1>1, <1>3, Changed DEF Beside, Reply
  <2>2. /\ host'[h].up = host[h].up /\ host'[h].session = host[h].session
        /\ host[h].unusable => host'[h].unusable
        /\ host'[h].closing = host[h].closing
    BY <1>3, Changed
  <2> QED BY <1>1, <1>3, <2>1, <2>2, Replies
<1> QED BY <1>2, <1>3 DEF Stage

LEMMA ImportMoves ==
  ASSUME Typing, MoveInv, NEW h \in Hosts,
         Replace(h) \/ Imported(h) \/ Restore(h) \/ Restored(h)
  PROVE  MoveInv'
<1>1. /\ job[h] \in JobSet /\ HostInv(h) /\ job[h].pc \in {"replace", "rollback"}
      /\ job[h].files \in Contents /\ job[h].original \in Contents
      /\ UNCHANGED <<inbox, marker, newest>>
      /\ job[h].op = "hostImportState"
  <2>1. job[h] \in JobSet /\ HostInv(h) /\ job[h].pc \in {"replace", "rollback"}
    BY Commands DEF MoveInv, Replace, Imported, Restore, Restored
  <2> QED BY <2>1 DEF JobSet, HostInv, Holds, Replace, Imported, Restore, Restored
<1>2. CASE Replace(h)
  BY <1>1, <1>2, WriteMoves, RollBackMoves DEF Replace
<1>3. ASSUME job[h].todo = <<>>
      PROVE  /\ job[h].pc = "replace" => \A f \in Names : files[h][f] = job[h].files[f]
             /\ job[h].pc = "rollback" => \A f \in Names : files[h][f] = job[h].original[f]
  BY <1>1, <1>3 DEF HostInv, Holds, Left
<1>4. CASE Imported(h) /\ Reply(h, "ok") /\ torn' = torn \ {h}
  <2>1. Beside(h) /\ UNCHANGED <<host, files>>
    BY <1>1, <1>4, Changed DEF Beside, Imported, Reply
  <2>2. \A f \in Names : files[h][f] = job[h].files[f]
    BY <1>3, <1>4 DEF Imported
  <2>3. Whole(files[h])
    BY <1>1, <2>2 DEF HostInv, Belongs, Whole
  <2> QED BY <1>1, <1>4, <2>1, <2>2, <2>3, Replies
<1>5. CASE Imported(h) /\ RollBack(h) /\ UNCHANGED <<app, torn>>
  BY <1>5, RollBackMoves DEF Imported
<1>6. ASSUME UNCHANGED <<files, torn>>, Reply(h, "failed"),
             host' \in {host, [host EXCEPT ![h].unusable = TRUE]},
             Whole(files[h]) \/ h \in torn \/ host'[h].unusable
      PROVE  MoveInv'
  <2>1. Beside(h)
    BY <1>1, <1>6, Changed DEF Beside, Reply
  <2>2. /\ host'[h].up = host[h].up /\ host'[h].session = host[h].session
        /\ host[h].unusable => host'[h].unusable
        /\ host'[h].closing = host[h].closing
    BY <1>6, Changed
  <2> QED BY <1>1, <1>6, <2>1, <2>2, Replies
<1>7. CASE Restore(h) /\ Reply(h, "failed") /\ host' = [host EXCEPT ![h].unusable = TRUE]
           /\ UNCHANGED files
  <2>1. host'[h].unusable
    BY <1>7, Changed
  <2> QED BY <1>6, <1>7, <2>1 DEF Restore
<1>8. CASE /\ Restore(h)
           /\ files' = [files EXCEPT ![h][Head(job[h].todo)] =
                                       job[h].original[Head(job[h].todo)]]
           /\ job' = [job EXCEPT ![h].todo = Tail(@)]
           /\ UNCHANGED <<host, app>>
  BY <1>1, <1>8, WriteMoves DEF Restore
<1>9. CASE Restored(h)
  <2>1. \A f \in Names : files[h][f] = job[h].original[f]
    BY <1>3, <1>9 DEF Restored
  <2>2. Whole(files[h]) \/ h \in torn
    BY <1>1, <2>1 DEF HostInv, Holds, Whole
  <2> QED BY <1>6, <1>9, <2>2 DEF Restored
<1> QED BY <1>2, <1>4, <1>5, <1>7, <1>8, <1>9 DEF Imported, Restore

(* A command of another account, which moves nothing.                       *)
LEMMA ForeignMoves ==
  ASSUME Typing, MoveInv, NEW h \in Hosts, ForeignCommand(h)
  PROVE  MoveInv'
<1>1. PICK op \in {"start", "reload", "stop"}, tun \in BOOLEAN :
        Queued(h, Command(op, tun, Empty, FALSE))
  BY DEF ForeignCommand
<1>2. PICK c \in JobSet : c = Command(op, tun, Empty, FALSE) /\ c.op = op /\ ~c.asked
  <2>1. Command(op, tun, Empty, FALSE) \in JobSet
    BY CommandWaits, Records DEF Operations, Waiting
  <2> QED BY <2>1, Records DEF Command, JobSet
<1>3. h \in Foreign /\ h \notin Own /\ HostInv(h) /\ Stands
      /\ UNCHANGED <<host, files, job, app, marker, newest, torn>>
  BY HostAssumption DEF ForeignCommand, MoveInv
<1>4. /\ inbox'[h] = Append(inbox[h], c) /\ inbox[h] \in Seq(Waiting)
      /\ \A g \in Hosts \ {h} : inbox'[g] = inbox[g]
  BY <1>1, <1>2 DEF Queued, Typing, RestOK
<1>5. /\ DOMAIN inbox'[h] = 1 .. Len(inbox[h]) + 1 /\ Len(inbox[h]) \in Nat
      /\ \A i \in 1 .. Len(inbox[h]) : inbox'[h][i] = inbox[h][i]
      /\ inbox'[h][Len(inbox[h]) + 1] = c
      /\ DOMAIN inbox[h] = 1 .. Len(inbox[h])
  BY <1>4
<1>6. Beside(h)
  BY <1>3, <1>4 DEF Beside
<1>7. \A g \in Hosts, d \in JobSet : Awaited(g, d) => Awaited(g, d)'
  BY <1>3 DEF Awaited, Asked, Peer, UpToDate
<1>8. \A g \in Hosts \ {h} : HostInv(g)'
  BY <1>6, <1>7, Others DEF MoveInv
<1>9. Stands'
  BY <1>3, <1>6, StandsStill
<1>10. \A d \in JobSet : Belongs(h, d) => Belongs(h, d)'
  BY <1>3, <1>7 DEF Belongs, Whole
<1>11. Belongs(h, job[h])'
  <2>1. PICK d \in JobSet : d = job[h] /\ Belongs(h, d)'
    BY <1>3, <1>10, Commands DEF HostInv
  <2> QED BY <1>3, <2>1 DEF Belongs
<1>12. ASSUME NEW i \in DOMAIN inbox'[h]
       PROVE  Belongs(h, inbox[h][i])'
  <2>1. Belongs(h, c)
    BY <1>2, <1>3 DEF Belongs
  <2>2. PICK d \in JobSet : d = inbox'[h][i] /\ Belongs(h, d)
    <3>1. CASE i = Len(inbox[h]) + 1
      BY <1>2, <1>5, <2>1, <3>1
    <3>2. CASE i \in 1 .. Len(inbox[h])
      BY <1>3, <1>5, <3>2, Commands DEF HostInv
    <3> QED BY <1>5, <3>1, <3>2
  <2>3. Belongs(h, d)'
    BY <1>10, <2>2
  <2> QED BY <2>2, <2>3 DEF Belongs
<1>13. \A d \in JobSet : Belongs(h, d) => ~d.asked /\ d.op # "hostImportState"
  <2>1. \A d \in JobSet : Awaited(h, d) => h \in Own
    BY <1>3, Askeds DEF Awaited, Asks
  <2> QED BY <1>3, <2>1 DEF Belongs
<1>14. /\ ~job'[h].asked /\ job'[h].op # "hostImportState"
       /\ \A i \in DOMAIN inbox'[h] :
            ~inbox'[h][i].asked /\ inbox'[h][i].op # "hostImportState"
  <2>1. ~job'[h].asked /\ job'[h].op # "hostImportState"
    BY <1>3, <1>13, Commands DEF HostInv
  <2>2. ASSUME NEW i \in DOMAIN inbox'[h]
        PROVE  ~inbox'[h][i].asked /\ inbox'[h][i].op # "hostImportState"
    <3>1. CASE i = Len(inbox[h]) + 1
      BY <1>2, <1>5, <3>1
    <3>2. CASE i \in 1 .. Len(inbox[h])
      BY <1>3, <1>5, <1>13, <3>2, Commands DEF HostInv
    <3> QED BY <1>5, <2>2, <3>1, <3>2
  <2> QED BY <2>1, <2>2
<1>15. InOrder(h)'
  BY <1>14 DEF InOrder
<1>16. Holds(h)'
  BY <1>3 DEF HostInv, Holds, Whole, Left
<1>17. HostInv(h)'
  BY <1>11, <1>12, <1>15, <1>16 DEF HostInv
<1> QED BY <1>8, <1>9, <1>17 DEF MoveInv

(* Every step of a helper.                                                  *)
LEMMA HelperMoves ==
  ASSUME Typing, MoveInv, NEW h \in Hosts, HelperStep(h)
  PROVE  MoveInv'
<1>1. CASE Exit(h)
  <2>1. Whole(files[h])
    BY <1>1 DEF Exit, MoveInv, HostInv, Holds
  <2> QED BY <1>1, <2>1, GoneMoves DEF Exit
<1>2. CASE Crash(h)
  <2>1. HostInv(h)
    BY DEF MoveInv
  <2>2. Whole(files[h]) \/ h \in torn'
    BY <1>2, <2>1 DEF Crash, HostInv, Holds
  <2>3. torn \subseteq torn' /\ torn' \subseteq torn \cup {h}
    BY <1>2 DEF Crash
  <2> QED BY <1>2, <2>2, <2>3, GoneMoves DEF Crash
<1> QED BY <1>1, <1>2, TakeMoves, ShortMoves, AdmitMoves, EngineMoves, SettleMoves,
           StageMoves, ImportMoves, ForeignMoves DEF HelperStep
-----------------------------------------------------------------------------
(* The steps of the app.                                                    *)

(* While the app waits for nothing, no command is asked for.                *)
LEMMA Unasked ==
  ASSUME Typing, MoveInv, app.pc \in {"idle", "marked"} \/ app.reply # None,
         NEW g \in Hosts
  PROVE  /\ ~job[g].asked
         /\ \A i \in DOMAIN inbox[g] : ~inbox[g][i].asked
<1>1. \A c \in JobSet : Belongs(g, c) => ~c.asked
  BY DEF Belongs, Awaited, Asks
<1> QED BY <1>1, Commands DEF MoveInv, HostInv

(* The helpers stay as they are when the app that asks nothing moves on.    *)
LEMMA HostStays ==
  ASSUME Typing, MoveInv, app.pc \in {"idle", "marked"} \/ app.reply # None,
         UNCHANGED <<files, job, inbox, marker, torn>>, NEW g \in Hosts,
         host'[g].session = host[g].session, host'[g].closing = host[g].closing,
         host'[g].unusable = host[g].unusable,
         host[g].up => host'[g].up
  PROVE  HostInv(g)'
<1>1. HostInv(g)
  BY DEF MoveInv
<1>2. Belongs(g, job[g])'
  BY <1>1, Unasked DEF HostInv, Belongs, Whole
<1>3. \A i \in DOMAIN inbox'[g] : Belongs(g, inbox[g][i])'
  BY <1>1, Unasked DEF HostInv, Belongs, Whole
<1>4. InOrder(g)'
  BY <1>1 DEF HostInv, InOrder
<1>5. Holds(g)'
  BY <1>1 DEF HostInv, Holds, Whole, Left
<1> QED BY <1>2, <1>3, <1>4, <1>5 DEF HostInv

(* A helper is started, by an app that asks nothing.                        *)
LEMMA StartedMoves ==
  ASSUME Typing, MoveInv, NEW h \in Hosts, host' = Started(h),
         UNCHANGED <<files, job, inbox, marker, newest, torn>>,
         app.pc = "idle", app'.pc = "idle", app'.reply = app.reply,
         app'.service \in {None, marker}
  PROVE  MoveInv'
<1>1. ASSUME NEW g \in Hosts
      PROVE  /\ host'[g].session = host[g].session /\ host'[g].closing = host[g].closing
             /\ host'[g].unusable = host[g].unusable
             /\ host[g].up => host'[g].up
  <2>1. host \in [Hosts -> HostSet] /\ Sound(host[g], job[g]) /\ Holds(g)
    BY DEF Typing, HelpersInv, HelpersOK, MoveInv, HostInv
  <2>2. host'[g] = IF g = h /\ ~host[g].up THEN Up ELSE host[g]
    BY <2>1 DEF Started
  <2>3. Up.session = "none" /\ ~Up.closing /\ ~Up.unusable /\ Up.up
    BY DEF Up, Down
  <2>4. ~host[g].up =>
          host[g].session = "none" /\ host[g].closing = FALSE /\ host[g].unusable = FALSE
    BY <2>1 DEF Sound, Holds, HostSet
  <2>5. Up.closing = FALSE /\ Up.unusable = FALSE
    BY DEF Up, Down
  <2> QED BY <2>2, <2>3, <2>4, <2>5
<1>2. \A g \in Hosts : HostInv(g)'
  BY <1>1, HostStays
<1>3. Stands'
  BY DEF MoveInv, Stands, UpToDate
<1> QED BY <1>2, <1>3 DEF MoveInv

(* _discover finds the helper the marker names, whatever runs.              *)
LEMMA DiscoverMoves ==
  ASSUME Typing, MoveInv, Discover
  PROVE  MoveInv'
<1>1. ASSUME NEW h \in Own, Active(h)
      PROVE  h = marker
  <2>1. h \in Hosts /\ h \notin Foreign /\ HostInv(h) /\ Sound(host[h], job[h])
    BY HostAssumption DEF Hosts, MoveInv, Typing, HelpersInv
  <2> QED BY <1>1, <2>1 DEF Active, HostInv, Holds, Belongs, Sound
<1>2. User \in Own /\ Service \in Own /\ marker \in Own /\ marker \in Hosts
  BY DEF Own, Typing, RestOK, Hosts
<1>3. app' = [app EXCEPT !.service = marker] /\ host' = Started(marker)
  BY <1>1, <1>2 DEF Discover, Own
<1>4. app \in AppSet /\ app.pc = "idle"
  BY DEF Typing, RestOK, AppOK, Discover, Idle
<1>5. app'.pc = "idle" /\ app'.reply = app.reply /\ app'.service = marker
  BY <1>3, <1>4 DEF AppSet
<1> QED BY <1>2, <1>3, <1>4, <1>5, StartedMoves DEF Discover

LEMMA PrepareMoves ==
  ASSUME Typing, MoveInv, NEW h \in Own, Prepare(h)
  PROVE  MoveInv'
<1>1. app \in AppSet /\ app.service \in {None, marker} /\ h \in Hosts
  BY DEF Typing, RestOK, AppOK, MoveInv, Stands, Hosts
<1>2. app'.pc = "idle" /\ app'.reply = app.reply /\ app'.service = app.service
  BY <1>1 DEF Prepare, AppSet
<1> QED BY <1>1, <1>2, StartedMoves DEF Prepare

(* The app moves on to asking nothing, and nothing else happens.            *)
LEMMA IdleMoves ==
  ASSUME Typing, MoveInv, UNCHANGED <<host, files, job, inbox, marker, newest, torn>>,
         app.pc = "idle" \/ app.reply # None,
         app'.pc = "idle", app'.reply = None, app'.service \in {None, marker}
  PROVE  MoveInv'
<1>1. \A g \in Hosts : HostInv(g)'
  BY HostStays
<1>2. Stands'
  BY DEF MoveInv, Stands, UpToDate
<1> QED BY <1>1, <1>2 DEF MoveInv

(* A command sent where it belongs, by an app that waits for nothing else.  *)
LEMMA SendMoves ==
  ASSUME Typing, MoveInv, UNCHANGED <<host, files, job, marker, newest, torn>>,
         app.pc \in {"idle", "marked"} \/ app.reply # None,
         NEW h \in Own, NEW content \in Contents,
         NEW op \in {"start", "reload", "stop", "hostShutdown", "hostExportState",
                     "hostImportState"},
         NEW pc \in {"direct", "stop", "export", "import", "shutdown", "release"},
         Send(h, op, content, pc), Asks(pc, op),
         app.service = marker,
         pc = "import" =>
           /\ h = app.prepared /\ content = app.files /\ UpToDate(app.files)
           /\ Quiet(marker) /\ host[marker].session = "none",
         pc = "shutdown" => h = Peer,
         pc \notin {"import", "shutdown"} => h = marker,
         pc \in {"stop", "export", "import"} => app.prepared # marker,
         op = "hostShutdown" =>
           /\ Whole(files[h]) /\ job[h].op # "hostImportState"
           /\ \A i \in DOMAIN inbox[h] : inbox[h][i].op # "hostImportState"
  PROVE  MoveInv'
<1>1. PICK c \in JobSet : /\ c = Command(op, op \in {"start", "reload"} /\ h = Service,
                                         content, TRUE)
                          /\ c.op = op /\ c.asked /\ c.files = content
  <2>1. Command(op, op \in {"start", "reload"} /\ h = Service, content, TRUE) \in JobSet
    BY CommandWaits DEF Operations, Waiting
  <2> QED BY <2>1, Records DEF Command, JobSet
<1>2. /\ h \in Hosts /\ app \in AppSet /\ HostInv(h) /\ Stands /\ marker \in Own
      /\ Own \subseteq Hosts
  BY DEF Typing, RestOK, AppOK, MoveInv, Hosts
<1>3. /\ inbox'[h] = Append(inbox[h], c) /\ inbox[h] \in Seq(Waiting)
      /\ \A g \in Hosts \ {h} : inbox'[g] = inbox[g]
  BY <1>1, <1>2 DEF Send, Queued, Typing, RestOK
<1>4. /\ DOMAIN inbox'[h] = 1 .. Len(inbox[h]) + 1 /\ Len(inbox[h]) \in Nat
      /\ \A i \in 1 .. Len(inbox[h]) : inbox'[h][i] = inbox[h][i]
      /\ inbox'[h][Len(inbox[h]) + 1] = c
      /\ DOMAIN inbox[h] = 1 .. Len(inbox[h])
      /\ Len(inbox'[h]) = Len(inbox[h]) + 1
  BY <1>3
<1>5. /\ app'.pc = pc /\ app'.reply = None /\ app'.service = marker
      /\ app'.prepared = app.prepared /\ app'.files = app.files
      /\ Peer' = Peer
  BY <1>2 DEF Send, AppSet, Peer
<1>6. Asked' = h
  BY <1>5 DEF Asked, Peer
<1>7. Awaited(h, c)'
  BY <1>1, <1>5, <1>6 DEF Awaited, UpToDate
<1>8. Belongs(h, c)'
  <2>1. op \in {"start", "reload", "stop", "hostExportState"} => h = marker'
    BY DEF Asks
  <2>2. op = "hostImportState" => h # marker' /\ Whole(content)
    BY <1>2 DEF Asks, UpToDate, Whole
  <2>3. op = "hostShutdown" => Whole(files[h])'
    BY DEF Whole
  <2>4. /\ c.op \in {"start", "reload", "stop", "hostExportState"} =>
             h \in Foreign \/ h = marker'
        /\ c.op = "hostImportState" => h \in Own /\ h # marker' /\ Whole(c.files)
        /\ c.op = "hostShutdown" => Whole(files[h])'
    BY <1>1, <2>1, <2>2, <2>3
  <2> QED BY <1>7, <2>4 DEF Belongs, Whole
<1>9. ASSUME NEW g \in Hosts, NEW d \in JobSet, Belongs(g, d), ~d.asked
      PROVE  Belongs(g, d)'
  BY <1>9 DEF Belongs, Whole
<1>10. ASSUME NEW g \in Hosts
       PROVE  /\ Belongs(g, job[g])' /\ Holds(g)'
              /\ \A i \in DOMAIN inbox[g] : Belongs(g, inbox[g][i]) /\ ~inbox[g][i].asked
  <2>1. HostInv(g)
    BY DEF MoveInv
  <2>2. Belongs(g, job[g])'
    <3>1. PICK d \in JobSet : d = job[g] /\ Belongs(g, d)'
      BY <1>9, <2>1, Commands, Unasked DEF HostInv
    <3> QED BY <3>1 DEF Belongs
  <2>3. Holds(g)'
    BY <2>1 DEF HostInv, Holds, Whole, Left
  <2> QED BY <2>1, <2>2, <2>3, Unasked DEF HostInv
<1>11. ASSUME NEW g \in Hosts, g # h
       PROVE  HostInv(g)'
  <2>1. ASSUME NEW i \in DOMAIN inbox'[g]
        PROVE  Belongs(g, inbox[g][i])'
    <3>1. PICK d \in JobSet : d = inbox[g][i] /\ Belongs(g, d)'
      BY <1>3, <1>9, <1>10, <1>11, <2>1, Commands
    <3> QED BY <1>3, <1>11, <3>1 DEF Belongs
  <2>2. InOrder(g)'
    BY <1>3, <1>11 DEF MoveInv, HostInv, InOrder
  <2> QED BY <1>10, <2>1, <2>2 DEF HostInv
<1>12. ASSUME NEW i \in DOMAIN inbox'[h]
       PROVE  Belongs(h, inbox[h][i])'
  <2>1. CASE i = Len(inbox[h]) + 1
    BY <1>4, <1>8, <2>1 DEF Belongs
  <2>2. CASE i \in 1 .. Len(inbox[h])
    <3>1. PICK d \in JobSet : d = inbox'[h][i] /\ Belongs(h, d)'
      BY <1>2, <1>4, <1>9, <1>10, <2>2, Commands
    <3> QED BY <3>1 DEF Belongs
  <2> QED BY <1>4, <1>12, <2>1, <2>2
<1>13. InOrder(h)'
  <2>1. \A i \in DOMAIN inbox'[h] : inbox'[h][i].asked => i = Len(inbox'[h])
    BY <1>2, <1>4, <1>10
  <2>2. ~job'[h].asked
    BY <1>2, Unasked
  <2>3. ASSUME NEW i \in DOMAIN inbox'[h], NEW k \in DOMAIN inbox'[h],
               i < k, inbox'[h][i].op = "hostImportState"
        PROVE  inbox'[h][k].op # "hostShutdown"
    <3>1. i \in 1 .. Len(inbox[h])
      BY <1>4, <2>3
    <3>2. CASE k = Len(inbox[h]) + 1
      BY <1>1, <1>4, <2>3, <3>1, <3>2
    <3>3. CASE k \in 1 .. Len(inbox[h])
      BY <1>2, <1>4, <2>3, <3>1, <3>3 DEF HostInv, InOrder
    <3> QED BY <1>4, <2>3, <3>2, <3>3
  <2>4. ASSUME NEW k \in DOMAIN inbox'[h], job'[h].op = "hostImportState"
        PROVE  inbox'[h][k].op # "hostShutdown"
    <3>1. CASE k = Len(inbox[h]) + 1
      BY <1>1, <1>4, <2>4, <3>1
    <3>2. CASE k \in 1 .. Len(inbox[h])
      BY <1>2, <1>4, <2>4, <3>2 DEF HostInv, InOrder
    <3> QED BY <1>4, <2>4, <3>1, <3>2
  <2> QED BY <2>1, <2>2, <2>3, <2>4 DEF InOrder
<1>14. HostInv(h)'
  BY <1>2, <1>10, <1>12, <1>13 DEF HostInv
<1>15. Stands'
  <2>1. pc = "import" => Quiet(marker)'
    BY <1>2, <1>3 DEF Quiet
  <2> QED BY <1>2, <1>5, <2>1, HostAssumption DEF Stands, UpToDate
<1> QED BY <1>11, <1>14, <1>15 DEF MoveInv
(* Whatever was asked is carried out for nobody.                            *)
LEMMA ForgetMoves ==
  ASSUME Typing, MoveInv, Orphaned, UNCHANGED <<host, files, marker, newest, torn>>,
         app'.pc = "idle", app'.reply = None, app'.service \in {None, marker}
  PROVE  MoveInv'
<1>1. ASSUME NEW g \in Hosts
      PROVE  HostInv(g)'
  <2>1. HostInv(g) /\ job[g] \in JobSet /\ DOMAIN inbox[g] = 1 .. Len(inbox[g])
        /\ Len(inbox[g]) \in Nat
    BY Commands DEF MoveInv
  <2>2. /\ job'[g].op = job[g].op /\ job'[g].files = job[g].files
        /\ job'[g].pc = job[g].pc /\ job'[g].original = job[g].original
        /\ job'[g].todo = job[g].todo /\ ~job'[g].asked
        /\ job[g] = NoJob => job'[g] = NoJob
    <3>1. job'[g] = [job[g] EXCEPT !.asked = FALSE]
      BY DEF Orphaned
    <3>2. NoJob \in JobSet /\ NoJob.asked = FALSE
      BY Records DEF NoJob
    <3>3. job[g] = NoJob => job'[g] = NoJob
      BY <3>1, <3>2 DEF JobSet
    <3> QED BY <2>1, <3>1, <3>3 DEF JobSet
  <2>3. inbox'[g] = [i \in DOMAIN inbox[g] |-> [inbox[g][i] EXCEPT !.asked = FALSE]]
    BY DEF Orphaned
  <2>4. /\ DOMAIN inbox'[g] = DOMAIN inbox[g]
        /\ \A i \in DOMAIN inbox[g] :
             /\ inbox'[g][i].op = inbox[g][i].op
             /\ inbox'[g][i].files = inbox[g][i].files
             /\ ~inbox'[g][i].asked
    <3>1. \A i \in DOMAIN inbox[g] : inbox[g][i] \in JobSet
      BY Commands
    <3> QED BY <2>3, <3>1 DEF JobSet
  <2>5. Belongs(g, job[g])'
    BY <2>1, <2>2 DEF HostInv, Belongs, Whole
  <2>6. ASSUME NEW i \in DOMAIN inbox'[g]
        PROVE  Belongs(g, inbox[g][i])'
    <3>1. Belongs(g, inbox[g][i])
      BY <2>1, <2>4, <2>6 DEF HostInv
    <3> QED BY <2>4, <2>6, <3>1 DEF Belongs, Whole
  <2>7. InOrder(g)'
    <3>1. \A i, k \in DOMAIN inbox'[g] :
            i < k /\ inbox'[g][i].op = "hostImportState" => inbox'[g][k].op # "hostShutdown"
      BY <2>1, <2>4 DEF HostInv, InOrder
    <3>2. job'[g].op = "hostImportState" =>
            \A k \in DOMAIN inbox'[g] : inbox'[g][k].op # "hostShutdown"
      BY <2>1, <2>2, <2>4 DEF HostInv, InOrder
    <3> QED BY <2>2, <2>4, <3>1, <3>2 DEF InOrder
  <2>8. Holds(g)'
    BY <2>1, <2>2 DEF HostInv, Holds, Whole, Left
  <2> QED BY <2>5, <2>6, <2>7, <2>8 DEF HostInv
<1>2. Stands'
  BY DEF MoveInv, Stands, UpToDate
<1> QED BY <1>1, <1>2 DEF MoveInv

(* The marker is moved: what is left behind has nothing to do, and what is  *)
(* ahead has all the files.                                                 *)
LEMMA MarkMoves ==
  ASSUME Typing, MoveInv, Mark
  PROVE  MoveInv'
<1> DEFINE new == app.prepared
<1>1. /\ app.pc = "import" /\ app.reply = "ok" /\ app \in AppSet /\ Stands
      /\ UNCHANGED <<host, files, inbox, job, newest, torn>>
      /\ marker' = new
  BY DEF Mark, Answer, Typing, RestOK, AppOK, MoveInv
<1>2. /\ marker \in Own /\ new \in Own /\ Own \subseteq Hosts /\ new # marker
      /\ app.service = marker /\ Asked = new
  BY <1>1, Askeds DEF Stands
<1>3. /\ Quiet(marker) /\ host[marker].session = "none" /\ Quiet(new)
      /\ UpToDate(files[new]) /\ UpToDate(files[marker])
  BY <1>1, <1>2, HostAssumption DEF Stands
<1>4. \A g \in Hosts : g = marker \/ g = new \/ g \in Foreign
  BY <1>2 DEF Own, Hosts
<1>5. /\ app'.pc = "marked" /\ app'.service = new /\ app'.prepared = None
      /\ app'.reply = app.reply
      /\ Asked' = new /\ Peer' = marker
  <2>1. /\ app'.pc = "marked" /\ app'.service = new /\ app'.prepared = None
        /\ app'.reply = app.reply
    BY <1>1 DEF Mark, AppSet
  <2> QED BY <1>2, <2>1 DEF Asked, Peer, Own
<1>6. ASSUME NEW g \in Hosts
      PROVE  HostInv(g)'
  <2>1. HostInv(g)
    BY DEF MoveInv
  <2>2. CASE g \in {marker, new}
    <3>1. inbox'[g] = <<>> /\ job'[g] = NoJob /\ NoJob.op = None /\ ~NoJob.asked
          /\ NoJob.pc = "idle"
      BY <1>1, <1>3, <2>2, Records DEF Quiet, NoJob
    <3>2. host'[g].session = "none"
      BY <1>1, <1>2, <1>3, <2>1, <2>2, HostAssumption DEF HostInv, Holds
    <3>3. Holds(g)'
      BY <1>1, <2>1, <3>1, <3>2 DEF HostInv, Holds, Whole
    <3> QED BY <3>1, <3>3, HostAssumption DEF HostInv, Belongs, InOrder
  <2>3. CASE g \in Foreign
    <3>1. g \notin Own
      BY <2>3, HostAssumption
    <3>2. Belongs(g, job[g])'
      BY <1>1, <2>1, <2>3, <3>1, Unasked, HostAssumption DEF HostInv, Belongs, Whole
    <3>3. \A i \in DOMAIN inbox'[g] : Belongs(g, inbox[g][i])'
      BY <1>1, <2>1, <2>3, <3>1, Unasked, HostAssumption DEF HostInv, Belongs, Whole
    <3>4. InOrder(g)'
      BY <1>1, <2>1 DEF HostInv, InOrder
    <3>5. Holds(g)'
      BY <1>1, <2>1, <2>3 DEF HostInv, Holds, Whole, Left
    <3> QED BY <3>2, <3>3, <3>4, <3>5 DEF HostInv
  <2> QED BY <1>4, <2>2, <2>3
<1>7. Stands'
  <2>1. Quiet(Asked)' /\ Quiet(Peer)'
    BY <1>1, <1>3, <1>5 DEF Quiet
  <2>2. Whole(files[Peer])' /\ UpToDate(files[marker])'
    BY <1>1, <1>3, <1>5 DEF Whole, UpToDate
  <2> QED BY <1>1, <1>5, <2>1, <2>2 DEF Stands
<1> QED BY <1>6, <1>7 DEF MoveInv

(* Every step of the app.                                                   *)
LEMMA AppMoves ==
  ASSUME Typing, MoveInv, AppStep
  PROVE  MoveInv'
<1>1. /\ Stands /\ app \in AppSet /\ marker \in Own /\ Own \subseteq Hosts
      /\ AppOK(app) /\ None \notin Own /\ Empty \in Contents /\ app.files \in Contents
      /\ \A h \in Hosts : HostInv(h)
  BY Records, Askeds DEF MoveInv, Typing, RestOK, AppOK, AppSet
<1>2. app.service # None => app.service = marker
  BY <1>1 DEF Stands
<1>3. app.reply = "ok" => app.reply # None
  BY HostAssumption
<1>4. CASE \E op \in {"start", "reload", "stop"} : Call(op)
  <2>1. PICK op \in {"start", "reload", "stop"} : Call(op)
    BY <1>4
  <2> QED BY <1>1, <1>2, <2>1, SendMoves DEF Call, Asks
<1>5. CASE Migrate
  <2>1. CASE Send(app.service, "stop", Empty, "stop")
    BY <1>1, <1>2, <1>5, <2>1, SendMoves DEF Migrate, Asks, AppOK
  <2>2. CASE app' = [app EXCEPT !.prepared = None] /\ UNCHANGED inbox
    <3>1. app'.pc = "idle" /\ app'.reply = None /\ app'.service = app.service
      BY <1>1, <1>5, <2>2 DEF Migrate, Stands, AppSet
    <3> QED BY <1>1, <1>2, <1>5, <2>2, <3>1, IdleMoves DEF Migrate
  <2> QED BY <1>5, <2>1, <2>2 DEF Migrate
<1>6. CASE AskExport
  <2>1. app.pc = "stop" /\ app.service = marker /\ app.prepared # marker /\ app.reply # None
    BY <1>1, <1>3, <1>6, Askeds DEF AskExport, Answer, Stands
  <2> QED BY <1>1, <1>6, <2>1, SendMoves DEF AskExport, Asks
<1>7. CASE AskImport
  <2>1. /\ app.pc = "export" /\ app.service = marker /\ app.prepared # marker
        /\ app.reply # None /\ app.prepared \in Own
        /\ Quiet(marker) /\ host[marker].session = "none" /\ UpToDate(app.files)
    BY <1>1, <1>3, <1>7, Askeds DEF AskImport, Answer, Stands
  <2> QED BY <1>1, <1>7, <2>1, SendMoves DEF AskImport, Asks
<1>8. CASE Mark
  BY <1>8, MarkMoves
<1>9. CASE AskShutdown
  <2>1. /\ app.pc = "marked" /\ app.service = marker /\ Peer \in Own
        /\ Quiet(Peer) /\ Whole(files[Peer])
    BY <1>1, <1>9, Askeds DEF AskShutdown, Stands
  <2>2. job[Peer].op # "hostImportState" /\ inbox[Peer] = <<>>
    BY <2>1, Records, HostAssumption DEF Quiet
  <2> QED BY <1>1, <1>9, <2>1, <2>2, SendMoves DEF AskShutdown, Asks
<1>10. CASE AskStart
  <2>1. app.pc = "shutdown" /\ app.service = marker /\ app.reply # None
    BY <1>1, <1>3, <1>10, Askeds DEF AskStart, Answer
  <2> QED BY <1>1, <1>10, <2>1, SendMoves DEF AskStart, Asks
<1>11. CASE AskRelease
  <2>1. app.pc = "idle" /\ app.service = marker
    BY <1>2, <1>11 DEF AskRelease
  <2>2. /\ job[marker].op # "hostImportState" /\ Whole(files[marker])
        /\ \A i \in DOMAIN inbox[marker] : inbox[marker][i].op # "hostImportState"
    BY <1>1 DEF HostInv, Belongs, Stands, UpToDate, Whole
  <2> QED BY <1>1, <1>11, <2>1, <2>2, SendMoves DEF AskRelease, Asks
<1>12. CASE Released
  <2>1. Idle.pc = "idle" /\ Idle.reply = None /\ Idle.service = None
    BY DEF Idle
  <2> QED BY <1>3, <1>12, <2>1, IdleMoves DEF Released, Answer
<1>13. CASE Finish
  <2>1. app'.pc = "idle" /\ app'.reply = None /\ app'.service = app.service
    BY <1>1, <1>13 DEF Finish, AppSet
  <2> QED BY <1>1, <1>13, <2>1, IdleMoves DEF Finish, Stands
<1>14. CASE GiveUp
  <2>1. app'.pc = "idle" /\ app'.reply = None /\ app'.service = app.service
    BY <1>1, <1>14 DEF GiveUp, AppSet
  <2> QED BY <1>1, <1>14, <2>1, ForgetMoves DEF GiveUp, Stands
<1>15. CASE AppCrash
  <2>1. Idle.pc = "idle" /\ Idle.reply = None /\ Idle.service = None
    BY DEF Idle
  <2> QED BY <1>15, <2>1, ForgetMoves DEF AppCrash
<1> QED BY <1>4, <1>5, <1>6, <1>7, <1>8, <1>9, <1>10, <1>11, <1>12, <1>13, <1>14, <1>15,
           DiscoverMoves, PrepareMoves DEF AppStep

LEMMA InitMoves == Init => MoveInv
<1> SUFFICES ASSUME Init PROVE MoveInv
  OBVIOUS
<1>1. Typing
  BY InitOK DEF Typing
<1>2. /\ app = Idle /\ Idle.pc = "idle" /\ Idle.reply = None /\ Idle.service = None
      /\ marker = User /\ newest = 1 /\ User \in Hosts
  BY DEF Init, Idle, Hosts, Own
<1>3. Stands
  <2>1. UpToDate(files[marker])
    BY <1>2 DEF Init, UpToDate
  <2> QED BY <1>2, <2>1 DEF Stands
<1>4. ASSUME NEW g \in Hosts
      PROVE  HostInv(g)
  <2>1. /\ job[g] = NoJob /\ inbox[g] = <<>> /\ NoJob.op = None /\ NoJob.pc = "idle"
        /\ ~NoJob.asked
    BY Records DEF Init, NoJob
  <2>2. host[g] \in {Up, Down} /\ ~Up.closing /\ ~Up.unusable /\ ~Down.closing
        /\ ~Down.unusable /\ Up.session = "none" /\ Down.session = "none"
    BY DEF Init, Up, Down
  <2>3. Whole(files[g])
    BY DEF Init, Whole
  <2> QED BY <2>1, <2>2, <2>3, HostAssumption DEF HostInv, Belongs, InOrder, Holds
<1> QED BY <1>3, <1>4 DEF MoveInv

LEMMA MoveInductive == Spec => [](Typing /\ MoveInv)
<1>1. Typing /\ MoveInv /\ [Next]_vars => MoveInv'
  <2> SUFFICES ASSUME Typing, MoveInv, [Next]_vars PROVE MoveInv'
    OBVIOUS
  <2>1. CASE UNCHANGED vars
    <3>1. UNCHANGED <<host, files, inbox, job, app, marker, newest, torn>>
      BY <2>1 DEF vars
    <3>2. \A h \in Hosts : HostInv(h)'
      BY <3>1 DEF MoveInv, HostInv, Belongs, Awaited, Asked, Peer, InOrder, Holds,
                  Whole, UpToDate, Left
    <3>3. Stands'
      BY <3>1 DEF MoveInv, Stands, UpToDate, Whole, Quiet, Asked, Peer
    <3> QED BY <3>2, <3>3 DEF MoveInv
  <2>2. CASE AppStep
    BY <2>2, AppMoves
  <2>3. CASE \E h \in Hosts : HelperStep(h)
    BY <2>3, HelperMoves
  <2> QED BY <2>1, <2>2, <2>3 DEF Next
<1>2. Init => Typing /\ MoveInv
  BY InitOK, InitMoves DEF Typing
<1>3. HelpersInv /\ RestOK => Typing
  BY DEF Typing
<1> QED BY <1>1, <1>2, <1>3, Inductive, PTL DEF Spec

(* A helper that can be used holds files of one and the same session,       *)
(* unless it died while they were replaced: for any list of files, whatever *)
(* step of an import fails, and whatever waits in its queue.  (importState) *)
THEOREM ImportsAreWhole == Spec => []ImportIsWhole
<1>1. MoveInv => ImportIsWhole
  BY DEF MoveInv, HostInv, Holds, ImportIsWhole, Whole
<1> QED BY <1>1, MoveInductive, PTL

(* The only step with which a session of this account starts.               *)
LEMMA SessionStarts ==
  ASSUME Typing, [Next]_vars, NEW h \in Own,
         host[h].session = "none", host'[h].session # "none"
  PROVE  job[h].pc = "engine" /\ job[h].op \in {"start", "reload", "stop"}
<1>1. h \in Hosts /\ host \in [Hosts -> HostSet] /\ Sound(host[h], job[h])
  BY DEF Hosts, Typing, HelpersInv, HelpersOK
<1>2. \A g \in Hosts \ {h} : HelperStep(g) => host'[h] = host[h]
  BY <1>1 DEF HelperStep, Take, Refuse, Admit, EngineAnswers, Runs, Fails, Settle,
              Shutdown, Export, Stage, Replace, Imported, Restore, Restored, Exit,
              Crash, Gone, ForeignCommand
<1>3. Up.session = "none" /\ Down.session = "none"
  BY DEF Up, Down
<1>4. ~AppStep
  <2>1. \A g \in Hosts : host' = Started(g) => host'[h] \in {host[h], Up}
    BY <1>1 DEF Started
  <2>2. User \in Hosts /\ Service \in Hosts /\ Own \subseteq Hosts
    BY DEF Hosts, Own
  <2>3. ~Discover
    BY <1>3, <2>1, <2>2 DEF Discover
  <2>4. ~(\E g \in Own : Prepare(g))
    BY <1>3, <2>1, <2>2 DEF Prepare
  <2> QED BY <2>3, <2>4 DEF AppStep, Call, Migrate, AskExport, AskImport, Mark,
             AskShutdown, AskStart, AskRelease, Released, Finish, GiveUp, AppCrash
<1>5. HelperStep(h)
  BY <1>2, <1>4 DEF Next, vars
<1>6. host[h] \in HostSet
  BY <1>1
<1>7. ~(host' = host)
  OBVIOUS
<1>8. EngineAnswers(h)
  <2>1. ~Admit(h)
    <3>1. PICK b \in BOOLEAN : b = (host[h].handle \/ NeedsHandle(h))
      OBVIOUS
    <3> QED BY <1>1, <1>7, <3>1, Changed DEF Admit
  <2>2. ~Settle(h)
    <3>1. PICK b \in BOOLEAN : b = (host[h].handle /\ ~Releases(h))
      OBVIOUS
    <3> QED BY <1>1, <3>1, Changed DEF Settle
  <2>3. ~Shutdown(h) /\ ~Export(h) /\ ~Stage(h) /\ ~Restore(h) /\ ~Restored(h)
    BY <1>1, <1>7, Changed DEF Shutdown, Export, Stage, Restore, Restored
  <2>4. ~Exit(h) /\ ~Crash(h)
    BY <1>1, <1>3 DEF Exit, Crash, Gone
  <2> QED BY <1>5, <1>7, <2>1, <2>2, <2>3, <2>4 DEF HelperStep, Take, Refuse, Replace,
             Imported, ForeignCommand
<1> QED BY <1>1, <1>8 DEF EngineAnswers, Sound

(* A session starts where the last one left its state, and on all of it,    *)
(* for any number of migrations, of deaths of the helpers and of the app,   *)
(* and of answers that are lost.  (_migrateAndStart, _discover)             *)
THEOREM NewestRuns == Spec => NewestStateRuns
<1> DEFINE Starts == \A h \in Own :
      host[h].session = "none" /\ host'[h].session # "none" =>
        \A f \in Names : files[h][f] = newest
<1>1. Typing /\ MoveInv /\ [Next]_vars => Starts
  <2> SUFFICES ASSUME Typing, MoveInv, [Next]_vars, NEW h \in Own,
                      host[h].session = "none", host'[h].session # "none"
               PROVE  \A f \in Names : files[h][f] = newest
    OBVIOUS
  <2>1. h \in Hosts /\ h \notin Foreign /\ HostInv(h) /\ Stands
    BY HostAssumption DEF Hosts, MoveInv
  <2>2. job[h].op \in {"start", "reload", "stop"}
    BY SessionStarts
  <2>3. h = marker
    BY <2>1, <2>2 DEF HostInv, Belongs
  <2> QED BY <2>1, <2>3 DEF Stands, UpToDate
<1> QED BY <1>1, MoveInductive, PTL DEF Spec, NewestStateRuns
=============================================================================
