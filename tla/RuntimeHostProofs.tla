-------------------------- MODULE RuntimeHostProofs --------------------------
(***************************************************************************)
(* What holds of the proxy session for any contents, modes and budgets.    *)
(*                                                                         *)
(* The invariant has layers: types and what belongs together; the one      *)
(* request whose answer is waited for; what a core has run; what the user  *)
(* took back; the note of the hash; then, while nothing but the commands   *)
(* and the panel touch the host, where coordinator and host stand at each  *)
(* place of a command, and that what was compiled is what is saved.        *)
(***************************************************************************)
EXTENDS RuntimeHost, TLAPS

States == {"stopped", "failed", "starting", "running", "reloading", "stopping"}

Snapshots == [state : States, session : Nat, hash : Plans \cup {None},
              proxy : BOOLEAN, mode : Modes \cup {None}]

Places == {"idle", "read", "adopt", "consent", "compile", "write", "compare", "await",
           "refresh", "wait", "end"}

Commands == {"attach", "sync", "connect", "disconnect", "tailnetOn", "tailnetOff",
             "stopAll"}

Jobs == [cmd : {"none", "attach", "start", "sync", "reload", "switch", "stop"},
         at : Places,
         plan : Plans \cup {None}, mode : Modes \cup {None},
         answer : {"none", "done", "failed"}, session : Nat, snap : Snapshots]

Looks == [at : {"none", "sent", "served", "writing"}, fresh : BOOLEAN, snap : Snapshots]

Requests == [op : {"start", "reload", "stop", "setMode"}, sid : Nat,
             hash : Plans \cup {None}, mode : Modes \cup {None}, own : BOOLEAN]

Hosts == [state : States, session : Nat, hash : Plans \cup {None},
          file : PlanFiles \cup {None}, mode : Modes \cup {None}, born : Nat]

TypeOK ==
  /\ phase \in {"stopped", "running"} \cup BusyPhases
  /\ seen \in [hash : Plans \cup {None}, proxy : BOOLEAN]
  /\ attested \in Plans \cup {None}
  /\ wanted \in BOOLEAN /\ touched \in BOOLEAN
  /\ sid \in Nat /\ hash \in Plans \cup {None}
  /\ expected \in Modes \cup {None} /\ tagged \in BOOLEAN
  /\ keptMode \in Modes \cup {None}
  /\ watching \in BOOLEAN /\ due \in BOOLEAN
  /\ queue \in Seq(Commands)
  /\ job \in Jobs
  /\ look \in Looks
  /\ cfg \in Cfgs /\ mode \in Modes /\ tailnet \in BOOLEAN
  /\ next \in PlanFiles \cup {None} /\ kept \in PlanFiles \cup {None}
  /\ noted \in Plans \cup {None}
  /\ host \in Hosts
  /\ exec \in Requests \cup {NoRequest}
  /\ wire \subseteq Requests
  /\ accepted \subseteq Plans
  /\ missed \in BOOLEAN /\ halted \in BOOLEAN /\ cancelled \in BOOLEAN
  /\ budget \in [Kinds -> Nat] /\ spent \in [Kinds -> Nat]

(* Which command may stand where, and what it knows there.                  *)
JobOK ==
  /\ job.at = "idle" => job = Idle
  /\ job.cmd = "none" => job.at = "idle"
  /\ job.at \in {"read", "adopt"} <=> job.cmd = "attach"
  /\ job.at = "consent" => job.cmd = "start"
  /\ job.at = "compile" => job.cmd \in {"start", "sync"}
  /\ job.cmd = "sync" => job.at = "compile"
  /\ job.at = "write" => job.cmd \in {"start", "reload"}
  /\ job.at = "compare" => job.cmd = "switch"
  /\ job.at \in {"await", "refresh", "wait", "end"} =>
       job.cmd \in {"start", "reload", "switch", "stop"}
  /\ job.at \in {"write", "compare"} \/ (job.at = "await" /\ job.cmd # "stop") =>
       job.plan \in Plans /\ job.mode \in Modes
  /\ job.at \in {"read", "adopt", "consent", "compile", "write", "compare"} =>
       job.answer = "none"

(* What the query under way can be.                                         *)
LookOK ==
  /\ job.at = "wait" => look.fresh /\ look.at \in {"sent", "served"}
  /\ job.at = "end" => look.at # "writing"
  /\ look.at = "writing" => look.snap.mode \in Modes /\ (job # Idle => ~look.fresh)
  /\ look.at = "none" => look = NoLook

(* The lifecycle lock and the state it guards.                              *)
EngineOK ==
  /\ exec.op \in {"none", "start", "reload", "stop"}
  /\ exec.op = "none" <=> host.state \in {"stopped", "failed", "running"}
  /\ exec.op \in {"start", "reload"} =>
       /\ host.state \in {"starting", "reloading"}
       /\ host.file \in PlanFiles
       /\ exec.hash \in Plans
  /\ host.state = "running" =>
       host.file \in PlanFiles /\ host.hash \in Plans /\ host.mode \in Modes
  /\ \A r \in wire : r.op \in {"start", "reload"} => r.hash \in Plans
  /\ \A r \in wire : r.op = "setMode" => r.mode \in Modes

Asking == job.at = "await" /\ job.answer = "none"

OpOf(cmd) == IF cmd = "switch" THEN "setMode" ELSE cmd

(* The request r is the one the command under way waits for.                *)
Answers(r) ==
  /\ Asking
  /\ r.op = OpOf(job.cmd)
  /\ r.op \in {"start", "reload"} => r.hash = job.plan
  /\ r.op = "setMode" => r.mode = job.mode

Held == exec # NoRequest

OneRequest ==
  /\ \A r \in wire : r.own => Answers(r)
  /\ \A r, q \in wire : r.own /\ q.own => r = q
  /\ Held /\ exec.own => Answers(exec) /\ \A r \in wire : ~r.own
  /\ Delivered => (Held => exec.own) /\ \A r \in wire : r.own
  /\ job.at = "await" /\ job.cmd \in {"start", "reload"} =>
       next = [plan |-> job.plan, mode |-> job.mode]
  /\ Held /\ exec.own /\ exec.op \in {"start", "reload"} => host.file = next

(* A start or reload is done, and the coordinator has not taken it in.      *)
Done == job.at = "await" /\ job.answer = "done" /\ job.cmd \in {"start", "reload"}

Ran == accepted \cup {None}

KeptOK ==
  /\ Done => job.plan \in accepted
  /\ Delivered =>
       /\ host.hash \in Ran /\ noted \in Ran /\ hash \in Ran
       /\ job.snap.hash \in Ran /\ look.snap.hash \in Ran
       /\ job.cmd = "switch" /\ job.at \in {"compare", "await"} => job.plan \in accepted
       /\ kept # None => kept.plan \in accepted

Has(q, cs) == \E i \in 1 .. Len(q) : q[i] \in cs

Starters == {"connect", "tailnetOn", "tailnetOff", "attach"}

StartOK ==
  /\ halted => ~wanted
  /\ halted /\ job.at \in {"write", "await"} /\ job.cmd = "start" => ~job.plan.proxy
  /\ cancelled /\ wanted => job.cmd # "start" /\ ~Has(queue, Starters)
  /\ cancelled /\ job.cmd = "start" /\ job.at = "compile" => tailnet
  /\ cancelled /\ job.cmd = "start" /\ job.at \in {"write", "await"} => job.plan.tailnet
  /\ \A i \in 1 .. Len(queue) : queue[i] = "attach" => i = 1
  /\ Has(queue, {"attach"}) => job = Idle /\ ~cancelled
  /\ job.cmd = "attach" => ~cancelled
  /\ job.at = "adopt" /\ job.snap.proxy => job.snap.state = "running"

NoteOK == Told =>
  /\ host.hash \in {None, noted}
  /\ Done => noted = job.plan
  /\ ~Done =>
       /\ hash \in {None, noted}
       /\ attested \in {None, noted}
       /\ look.fresh /\ look.at = "served" => look.snap.hash \in {None, noted}
       /\ job.at = "adopt" => job.snap.hash \in {None, noted}
       /\ job.cmd = "switch" => job.plan = noted

Up == host.state = "running"

Same(snap) == /\ snap.state = host.state /\ snap.session = host.session
              /\ snap.hash = host.hash /\ snap.proxy = (Up /\ host.file.plan.proxy)

Named == Up => sid = host.session /\ hash = host.hash

Agreed == phase = (IF Up THEN "running" ELSE "stopped") /\ Named

Opening == job.cmd = "attach" \/ Has(queue, {"attach"})

Outstanding == \E r \in wire : r.own

Seen == look.fresh /\ look.at = "served"

(* Between the commands and at each place of one.                           *)
Filed ==
  /\ Up => host.file.plan = host.hash
  /\ exec.op \in {"start", "reload"} => host.file.plan = exec.hash
  /\ \A r \in wire : r.op \in {"reload", "setMode"} => r.sid = host.session

SeenOK ==
  /\ job.at = "adopt" => Same(job.snap)
  /\ Seen /\ (\/ job.at # "await"
              \/ Outstanding
              \/ job.cmd = "switch"
              \/ job.answer = "failed" /\ Up) => Same(look.snap)

Placed ==
  /\ Opening => /\ (phase = "stopped" /\ hash = None) \/ Agreed
                /\ ~Up => phase = "stopped"
  /\ job = Idle /\ ~Opening => Agreed
  /\ job.cmd = "start" /\ job.at \in {"consent", "compile", "write"} =>
       phase = "starting" /\ ~Up
  /\ job.cmd \in {"sync", "switch"} => Agreed /\ Up
  /\ job.cmd = "reload" /\ job.at \in {"write", "await"} => phase = "reloading"
  /\ job.cmd = "reload" /\ (job.at = "write" \/ Outstanding) => Up /\ Named
  /\ job.at \in {"refresh", "wait"} => /\ phase \in {"stopped", "running"} /\ Named
                                       /\ Up => phase = "running"
  /\ job.at \in {"refresh", "wait"} /\ job.cmd \in {"start", "stop"} => Agreed
  /\ job.at = "end" => Agreed
  /\ Done => Up /\ host.hash = job.plan /\ host.session = job.session
  /\ job.at = "await" /\ job.cmd = "start" /\ job.answer # "done" => ~Up
  /\ job.at = "await" /\ job.cmd = "reload" /\ job.answer = "failed" => Named
  /\ job.at = "await" /\ job.answer = "failed" =>
       job.cmd \in {"start", "reload"} /\ spent["core"] > 0
  /\ job.at = "await" /\ job.cmd = "stop" /\ job.answer = "done" => ~Up

PlaceOK == Undisturbed => Filed /\ SeenOK /\ Placed

Calm == Undisturbed /\ spent["core"] = 0

Heard ==
  /\ Connected(phase) /\ job.cmd # "start" => watching
  /\ phase = "stopped" => ~watching /\ ~due
  /\ job.cmd = "start" /\ phase = "starting" => ~watching /\ ~due
  /\ job.cmd = "start" /\ job.at = "await" =>
       /\ phase \in {"starting", "running"}
       /\ phase = "running" => watching /\ job.answer = "done"
                               /\ (Seen => look.snap.state = "running")
       /\ Seen /\ look.snap.state = "running" => job.answer = "done"
  /\ look.at = "writing" => watching \/ (job.cmd = "stop" /\ job.at = "refresh")

Compiled ==
  queue = <<>> /\ ~due /\ ~missed =>
    /\ job.at \in {"write", "compare"} \/ (job.at = "await" /\ job.cmd # "stop") =>
         job.plan = Current /\ job.mode = mode
    /\ job.cmd = "switch" => hash = Current /\ expected = mode
    /\ job.at \in {"idle", "refresh", "wait", "end"} /\ Connected(phase) =>
         /\ hash = Current
         /\ expected = mode \/ (look.at = "writing" /\ expected = look.snap.mode)

InLineOK == Calm => Heard /\ Compiled

Base == TypeOK /\ JobOK /\ LookOK /\ EngineOK

-----------------------------------------------------------------------------
(* What the pieces of a step do.                                            *)

(* The plan and the file of nothing are none.                               *)
LEMMA NoneIs == None \notin Modes /\ None \notin Plans /\ None \notin PlanFiles
BY ConstantsAssumption

(* No command is under way.                                                 *)
LEMMA IdleIs ==
  /\ Idle \in Jobs
  /\ Idle.cmd = "none" /\ Idle.at = "idle" /\ Idle.answer = "none"
  /\ Idle.plan = None /\ Idle.snap.hash = None
<1>1. NoSnapshot \in Snapshots /\ NoSnapshot.hash = None
  BY DEF NoSnapshot, Snapshots, States
<1> QED BY <1>1 DEF Idle, Jobs, Places

(* A command that begins knows nothing yet.                                 *)
LEMMA AtIs ==
  ASSUME NEW c \in {"none", "attach", "start", "sync", "reload", "switch", "stop"},
         NEW a \in Places
  PROVE  /\ At(c, a) \in Jobs
         /\ At(c, a).cmd = c /\ At(c, a).at = a /\ At(c, a).answer = "none"
         /\ At(c, a).plan = None /\ At(c, a).snap.hash = None
<1>1. Idle \in Jobs /\ Idle.answer = "none" /\ Idle.plan = None /\ Idle.snap.hash = None
  BY IdleIs
<1> QED BY <1>1 DEF At, Jobs

(* A command that goes on keeps what it knows.                              *)
LEMMA MovedIs ==
  ASSUME NEW j \in Jobs, NEW a \in Places, NEW m, m = [j EXCEPT !.at = a]
  PROVE  /\ m \in Jobs
         /\ m.at = a /\ m.cmd = j.cmd /\ m.plan = j.plan /\ m.mode = j.mode
         /\ m.answer = j.answer /\ m.session = j.session /\ m.snap = j.snap
BY DEF Jobs

(* The query of before, asked or outdated.                                  *)
LEMMA NoLookIs ==
  /\ NoLook \in Looks
  /\ NoLook.at = "none" /\ ~NoLook.fresh /\ NoLook.snap.hash = None
BY DEF NoLook, Looks, NoSnapshot, Snapshots, States

(* A query made stale keeps the rest.                                       *)
LEMMA StaledIs ==
  ASSUME Base
  PROVE  /\ Staled \in Looks
         /\ Staled.at = look.at /\ ~Staled.fresh /\ Staled.snap = look.snap
         /\ look = NoLook => Staled = NoLook
<1>1. /\ Staled \in Looks
      /\ Staled.at = look.at /\ ~Staled.fresh /\ Staled.snap = look.snap
  BY DEF Base, TypeOK, Looks, Staled
<1>2. ASSUME look = NoLook
      PROVE  Staled = NoLook
  <2>1. look \in Looks /\ look.fresh = FALSE
    BY <1>2, NoLookIs DEF NoLook
  <2> QED BY <1>2, <2>1, Zenon DEF Staled, Looks
<1> QED BY <1>1, <1>2

(* Each event is counted.                                                   *)
LEMMA SpendIs ==
  ASSUME Base, NEW kind \in Kinds, Spend(kind)
  PROVE  /\ spent' \in [Kinds -> Nat]
         /\ \A k \in Kinds : spent[k] <= spent'[k]
         /\ spent'[kind] > 0
         /\ \A k \in Kinds \ {kind} : spent'[k] = spent[k]
BY DEF Base, TypeOK, Spend

(* A command is put behind the others.                                      *)
LEMMA EnqueueIs ==
  ASSUME Base, NEW c \in Commands, Enqueue(c)
  PROVE  /\ queue' \in Seq(Commands) /\ queue' # <<>>
         /\ Len(queue') = Len(queue) + 1
         /\ \A i \in 1 .. Len(queue) : queue'[i] = queue[i]
         /\ queue'[Len(queue) + 1] = c
BY DEF Base, TypeOK, Enqueue

(* What a command looks for in the queue.                                   *)
LEMMA EnqueueHas ==
  ASSUME Base, NEW c \in Commands, Enqueue(c), NEW cs
  PROVE  Has(queue', cs) <=> Has(queue, cs) \/ c \in cs
<1>1. Len(queue) \in Nat
  BY DEF Base, TypeOK
<1> QED BY <1>1, EnqueueIs DEF Has

(* What is left of a queue, item by item.                                   *)
LEMMA TailIs ==
  ASSUME Base, queue # <<>>
  PROVE  /\ Tail(queue) \in Seq(Commands) /\ Head(queue) \in Commands
         /\ Head(queue) = queue[1] /\ Len(queue) > 0
         /\ Len(Tail(queue)) = Len(queue) - 1
         /\ \A i \in 1 .. Len(queue) - 1 : Tail(queue)[i] = queue[i + 1]
BY DEF Base, TypeOK

(* An item of a queue is its first or one of the others.                    *)
LEMMA TailHas ==
  ASSUME Base, queue # <<>>, NEW cs
  PROVE  Has(queue, cs) <=> Head(queue) \in cs \/ Has(Tail(queue), cs)
<1>1. Len(queue) \in Nat
  BY DEF Base, TypeOK
<1>2. ASSUME NEW i \in 1 .. Len(queue), queue[i] \in cs
      PROVE  Head(queue) \in cs \/ Has(Tail(queue), cs)
  <2>1. CASE i = 1
    BY <1>2, <2>1, TailIs
  <2>2. CASE i # 1
    <3>1. i - 1 \in 1 .. Len(Tail(queue)) /\ Tail(queue)[i - 1] = queue[i]
      BY <1>1, <2>2, TailIs
    <3> QED BY <1>2, <3>1 DEF Has
  <2> QED BY <2>1, <2>2
<1>3. ASSUME NEW i \in 1 .. Len(Tail(queue)), Tail(queue)[i] \in cs
      PROVE  Has(queue, cs)
  <2>1. i + 1 \in 1 .. Len(queue) /\ queue[i + 1] = Tail(queue)[i]
    BY <1>1, TailIs
  <2> QED BY <1>3, <2>1 DEF Has
<1>4. 1 \in 1 .. Len(queue) /\ queue[1] = Head(queue)
  BY <1>1, TailIs
<1> QED BY <1>2, <1>3, <1>4 DEF Has

(* What the host answers when it is asked.                                  *)
LEMMA SnapshotIs ==
  ASSUME Base
  PROVE  /\ Snapshot \in Snapshots
         /\ Snapshot.state = host.state /\ Snapshot.session = host.session
         /\ Snapshot.hash = host.hash
         /\ Snapshot.proxy <=> (Up /\ host.file.plan.proxy)
         /\ Up => Snapshot.mode = host.mode
         /\ ~Up => Snapshot.mode = None
<1>1. host \in Hosts /\ EngineOK
  BY DEF Base, TypeOK
<1>2. Up => host.file \in PlanFiles /\ host.file.plan \in Plans /\ host.mode \in Modes
  BY <1>1 DEF EngineOK, Up, PlanFiles
<1>3. Up => host.file.plan.proxy \in BOOLEAN
  BY <1>2 DEF Plans
<1>4. CASE Up
  BY <1>1, <1>2, <1>3, <1>4 DEF Snapshot, Snapshots, Hosts, Up
<1>5. CASE ~Up
  BY <1>1, <1>5 DEF Snapshot, Snapshots, Hosts, Up
<1> QED BY <1>4, <1>5

(* _stopped()                                                               *)
LEMMA ShowStoppedIs ==
  ASSUME ShowStopped
  PROVE  /\ phase' = "stopped" /\ attested' = None /\ seen' = seen
         /\ sid' = 0 /\ hash' = None /\ expected' = None /\ tagged' = FALSE
         /\ watching' = FALSE /\ due' = FALSE
BY DEF ShowStopped

(* _adopt(): the types, and each case of it.                                *)
LEMMA AdoptIs ==
  ASSUME Base, NEW snap \in Snapshots, NEW m \in Modes \cup {None}, Adopt(snap, m)
  PROVE  /\ phase' \in {"stopped", "running"} \cup BusyPhases
         /\ seen' \in [hash : Plans \cup {None}, proxy : BOOLEAN]
         /\ attested' \in {attested, None}
         /\ sid' \in Nat /\ hash' \in {hash, None, snap.hash}
         /\ expected' \in {expected, None, m} /\ tagged' = tagged
         /\ watching' \in BOOLEAN /\ due' \in BOOLEAN /\ (due' => due)
         /\ snap.state = "running" =>
              /\ sid' = snap.session
              /\ hash' = IF hash = None THEN snap.hash ELSE hash
              /\ phase' = IF phase = "reloading" THEN phase ELSE "running"
              /\ expected' = m
              /\ watching' = TRUE
              /\ due' = due
         /\ snap.state \in {"stopped", "failed"} =>
              /\ phase' = IF phase \in BusyPhases THEN phase ELSE "stopped"
              /\ Connected(phase) => hash' = None
              /\ ~Connected(phase) => UNCHANGED <<sid, hash, expected>>
              /\ watching' = Connected(phase')
              /\ due' = (due /\ Connected(phase'))
         /\ snap.state \in BusyPhases =>
              UNCHANGED <<phase, attested, sid, hash, expected, watching, due>>
<1>1. /\ phase \in {"stopped", "running"} \cup BusyPhases /\ attested \in Plans \cup {None}
      /\ sid \in Nat /\ watching \in BOOLEAN /\ due \in BOOLEAN
      /\ snap.state \in States /\ snap.session \in Nat /\ snap.hash \in Plans \cup {None}
      /\ snap.proxy \in BOOLEAN
  BY DEF Base, TypeOK, Snapshots
<1>2. seen' = [hash |-> snap.hash, proxy |-> snap.proxy]
  BY DEF Adopt
<1>3. seen' \in [hash : Plans \cup {None}, proxy : BOOLEAN]
  BY <1>1, <1>2
<1>4. CASE AdoptRunning(snap, m)
  BY <1>1, <1>3, <1>4 DEF AdoptRunning, BusyPhases
<1>5. CASE AdoptStopped(snap)
  BY <1>1, <1>3, <1>5 DEF AdoptStopped, Schedule, BusyPhases, Connected
<1>6. CASE AdoptMoving(snap)
  BY <1>1, <1>3, <1>6 DEF AdoptMoving, BusyPhases, session, follow
<1> QED BY <1>4, <1>5, <1>6 DEF Adopt

-----------------------------------------------------------------------------
(* Types and what belongs together.                                         *)

(* A step that leaves commands, queries, engine and files alone.            *)
Rest == <<job, look, next, kept, noted, keptMode, host, exec, wire, accepted, budget>>

(* Where the rest stays, the types of what moved are enough.                *)
LEMMA RestKeeps ==
  ASSUME Base, UNCHANGED Rest,
         /\ phase' \in {"stopped", "running"} \cup BusyPhases
         /\ seen' \in [hash : Plans \cup {None}, proxy : BOOLEAN]
         /\ attested' \in Plans \cup {None}
         /\ wanted' \in BOOLEAN /\ touched' \in BOOLEAN
         /\ sid' \in Nat /\ hash' \in Plans \cup {None}
         /\ expected' \in Modes \cup {None} /\ tagged' \in BOOLEAN
         /\ watching' \in BOOLEAN /\ due' \in BOOLEAN
         /\ queue' \in Seq(Commands)
         /\ cfg' \in Cfgs /\ mode' \in Modes /\ tailnet' \in BOOLEAN
         /\ missed' \in BOOLEAN /\ halted' \in BOOLEAN /\ cancelled' \in BOOLEAN
         /\ spent' \in [Kinds -> Nat]
  PROVE  Base'
<1>1. UNCHANGED <<job, look, next, kept, noted, keptMode, host, exec, wire, accepted, budget>>
  BY DEF Rest
<1>2. TypeOK'
  BY <1>1 DEF Base, TypeOK
<1>3. JobOK' /\ LookOK' /\ EngineOK'
  BY <1>1 DEF Base, JobOK, LookOK, EngineOK
<1> QED BY <1>2, <1>3 DEF Base

(* A step of the coordinator moves the command under way and outdates or    *)
(* leaves the query.                                                        *)
LEMMA JobKeeps ==
  ASSUME Base, UNCHANGED <<wanted, touched, cfg, mode, tailnet, budget, host, noted, accepted>>,
         phase' \in {"stopped", "running"} \cup BusyPhases,
         UNCHANGED seen, attested' \in Plans \cup {None},
         sid' \in Nat, hash' \in Plans \cup {None}, expected' \in Modes \cup {None},
         tagged' \in BOOLEAN, watching' \in BOOLEAN, due' \in BOOLEAN,
         queue' \in Seq(Commands), job' \in Jobs, JobOK',
         look' \in Looks, LookOK',
         next' \in PlanFiles \cup {None}, keptMode' \in Modes \cup {None},
         kept' \in PlanFiles \cup {None}, 
         exec' = exec, wire' \subseteq Requests,
         \A r \in wire' : r \in wire
                          \/ /\ r.op \in {"start", "reload"} => r.hash \in Plans
                             /\ r.op = "setMode" => r.mode \in Modes,
         missed' \in BOOLEAN, halted' \in BOOLEAN, cancelled' \in BOOLEAN,
         spent' \in [Kinds -> Nat]
  PROVE  Base'
<1>1. TypeOK'
  BY DEF Base, TypeOK
<1>2. EngineOK'
  BY DEF Base, EngineOK
<1> QED BY <1>1, <1>2 DEF Base

(* A command that ends leaves nothing behind but an outdated query.         *)
LEMMA EndedTypes ==
  ASSUME Base, Ended
  PROVE  job' = Idle /\ job' \in Jobs /\ JobOK' /\ look' \in Looks /\ LookOK'
<1>1. job' = Idle /\ look' = Staled
  BY DEF Ended
<1>2. /\ look' \in Looks /\ look'.at = look.at /\ ~look'.fresh /\ look'.snap = look.snap
      /\ look = NoLook => look' = NoLook
  BY <1>1, StaledIs
<1>3. JobOK'
  BY <1>1, IdleIs DEF JobOK
<1>4. LookOK'
  BY <1>1, <1>2, IdleIs DEF Base, LookOK
<1> QED BY <1>1, <1>2, <1>3, <1>4, IdleIs

(* The query stays what it can be while a command goes on.                  *)
LEMMA LookStays ==
  ASSUME Base, look' = look, job # Idle, job'.at \notin {"wait", "end"}
  PROVE  LookOK'
BY DEF Base, LookOK

(* The next command begins.                                                 *)
LEMMA BeginTypes ==
  ASSUME Base, Begin
  PROVE  Base'
<1>1. /\ job = Idle /\ queue # <<>> /\ queue' = Tail(queue) /\ look' = Staled
      /\ UNCHANGED <<seen, attested, wanted, touched, sid, hash, expected, tagged, watching, due,
                     cfg, mode, tailnet, budget, next, kept, noted, keptMode, host, exec,
                     accepted, missed, halted, cancelled, spent>>
  BY DEF Begin, intent, session, follow, settings, files, engine, history
<1>2. /\ TypeOK /\ look' \in Looks /\ look'.at = look.at /\ ~look'.fresh
      /\ look'.snap = look.snap /\ queue' \in Seq(Commands)
  BY <1>1, StaledIs, TailIs DEF Base
<1>3. \/ job' = At("attach", "read") /\ UNCHANGED <<phase, wire>>
      \/ job' = At("sync", "compile") /\ UNCHANGED <<phase, wire>>
      \/ job' = Idle /\ UNCHANGED <<phase, wire>>
      \/ job' = At("start", "consent") /\ phase' = "starting" /\ UNCHANGED wire
      \/ job' = At("stop", "await") /\ phase' = "stopping" /\ Send("stop", None, None)
  BY DEF Begin, BeginStart, BeginSync, BeginStop
<1>4. job' \in Jobs /\ JobOK'
  BY <1>3, AtIs, IdleIs DEF JobOK, Places
<1>5. phase' \in {"stopped", "running"} \cup BusyPhases
  BY <1>2, <1>3 DEF TypeOK, BusyPhases
<1>6. LookOK'
  <2>1. job'.at \notin {"wait", "end"}
    BY <1>3, AtIs, IdleIs DEF Places
  <2>2. look.at = "none" => look' = NoLook
    BY <1>1, StaledIs DEF Base, LookOK
  <2> QED BY <1>2, <2>1, <2>2 DEF Base, LookOK
<1>7. wire' = wire \/ wire' = wire \cup {[op |-> "stop", sid |-> sid, hash |-> None,
                                          mode |-> None, own |-> TRUE]}
  BY <1>3 DEF Send
<1>8. [op |-> "stop", sid |-> sid, hash |-> None, mode |-> None, own |-> TRUE] \in Requests
  BY <1>2 DEF TypeOK, Requests
<1>9. wire' \subseteq Requests
  BY <1>2, <1>7, <1>8 DEF TypeOK
<1> QED BY <1>1, <1>2, <1>4, <1>5, <1>6, <1>7, <1>9, JobKeeps DEF TypeOK

(* attach() reads the snapshot.                                             *)
LEMMA AttachReadsTypes ==
  ASSUME Base, AttachReads
  PROVE  Base'
<1>1. /\ job.at = "read" /\ job' = [job EXCEPT !.at = "adopt", !.snap = Snapshot]
      /\ UNCHANGED <<phase, seen, attested, wanted, touched, sid, hash, expected, tagged,
                     watching, due, queue, look, cfg, mode, tailnet, budget, next, kept, noted,
                     keptMode, host, exec, wire, accepted, missed, halted, cancelled, spent>>
  BY DEF AttachReads, shown, intent, session, follow, settings, files, engine, history
<1>2. job \in Jobs /\ Snapshot \in Snapshots /\ job.cmd = "attach" /\ job.answer = "none"
  BY <1>1, SnapshotIs DEF Base, TypeOK, JobOK
<1>3. /\ job' \in Jobs /\ job'.at = "adopt" /\ job'.cmd = "attach" /\ job'.answer = "none"
  BY <1>1, <1>2 DEF Jobs, Places
<1>4. JobOK' /\ LookOK'
  BY <1>1, <1>2, <1>3, LookStays, IdleIs DEF JobOK
<1> QED BY <1>1, <1>3, <1>4, JobKeeps DEF Base, TypeOK

(* The system was asked.                                                    *)
LEMMA ConsentTypes ==
  ASSUME Base, Consent
  PROVE  Base'
<1>1. /\ job.at = "consent"
      /\ UNCHANGED <<wanted, touched, queue, cfg, mode, tailnet, budget, next, kept, noted,
                     keptMode, host, exec, wire, accepted, missed, halted, cancelled>>
  BY DEF Consent, intent, settings, files, engine, history
<1>2. TypeOK /\ JobOK /\ LookOK /\ job \in Jobs /\ job.cmd = "start" /\ job.answer = "none"
  BY <1>1 DEF Base, TypeOK, JobOK
<1>3. spent' \in [Kinds -> Nat]
  BY <1>2, SpendIs DEF Consent, TypeOK, Kinds
<1>4. CASE /\ job' = [job EXCEPT !.at = "compile"]
           /\ UNCHANGED <<phase, seen, attested, sid, hash, expected, tagged, watching, due, look>>
  <2>1. /\ job' \in Jobs /\ job'.at = "compile" /\ job'.cmd = "start"
        /\ job'.answer = "none" /\ job # Idle
    BY <1>1, <1>2, <1>4, MovedIs, IdleIs DEF Places
  <2>2. JobOK'
    BY <2>1 DEF JobOK
  <2>3. LookOK'
    BY <1>4, <2>1, LookStays
  <2> QED BY <1>1, <1>2, <1>3, <1>4, <2>1, <2>2, <2>3, JobKeeps DEF TypeOK
<1>5. CASE ShowStopped /\ Ended
  BY <1>1, <1>2, <1>3, <1>5, EndedTypes, ShowStoppedIs, JobKeeps DEF TypeOK
<1> QED BY <1>4, <1>5 DEF Consent, shown, session, follow

(* attach() adopts the snapshot.                                            *)
LEMMA AttachAdoptsTypes ==
  ASSUME Base, AttachAdopts
  PROVE  Base'
<1>1. /\ job.at = "adopt" /\ Ended /\ Adopt(job.snap, expected)
      /\ UNCHANGED <<cfg, mode, tailnet, budget, next, kept, noted, keptMode, host, exec, wire,
                     accepted, missed, cancelled>>
  BY DEF AttachAdopts, settings, files, engine
<1>2. TypeOK /\ job.snap \in Snapshots /\ expected \in Modes \cup {None}
  BY DEF Base, TypeOK, Jobs
<1>3. /\ queue' \in Seq(Commands) /\ spent' \in [Kinds -> Nat] /\ halted' \in BOOLEAN
      /\ wanted' \in BOOLEAN /\ touched' \in BOOLEAN
  <2>1. "sync" \in Commands /\ "connect" \in Commands /\ "launch" \in Kinds
    BY DEF Commands, Kinds
  <2>2. job.snap.proxy \in BOOLEAN
    BY <1>2 DEF Snapshots
  <2>3. queue' \in Seq(Commands)
    <3>1. \/ Enqueue("sync") \/ Enqueue("connect") \/ UNCHANGED queue
      BY DEF AttachAdopts
    <3> QED BY <1>2, <2>1, <3>1, EnqueueIs DEF TypeOK
  <2>4. spent' \in [Kinds -> Nat]
    <3>1. Spend("launch") \/ UNCHANGED spent
      BY DEF AttachAdopts
    <3> QED BY <1>2, <2>1, <3>1, SpendIs DEF TypeOK
  <2>5. halted' \in BOOLEAN /\ wanted' \in BOOLEAN /\ touched' \in BOOLEAN
    BY <1>2, <2>2 DEF AttachAdopts, TypeOK
  <2> QED BY <2>3, <2>4, <2>5
<1>4. /\ phase' \in {"stopped", "running"} \cup BusyPhases
      /\ seen' \in [hash : Plans \cup {None}, proxy : BOOLEAN]
      /\ attested' \in Plans \cup {None}
      /\ sid' \in Nat /\ hash' \in Plans \cup {None} /\ expected' \in Modes \cup {None}
      /\ tagged' \in BOOLEAN /\ watching' \in BOOLEAN /\ due' \in BOOLEAN
  BY <1>1, <1>2, AdoptIs DEF TypeOK, Snapshots
<1>5. TypeOK'
  BY <1>1, <1>2, <1>3, <1>4, EndedTypes DEF TypeOK
<1>6. EngineOK'
  BY <1>1 DEF Base, EngineOK
<1> QED BY <1>1, <1>5, <1>6, EndedTypes DEF Base

(* The plan compiled from what is saved.                                    *)
LEMMA CurrentIs ==
  ASSUME Base
  PROVE  /\ Current \in Plans
         /\ Current.proxy = wanted /\ Current.tailnet = tailnet /\ Current.cfg = cfg
BY DEF Base, TypeOK, Current, Plans

(* A plan is compiled.                                                      *)
LEMMA CompileTypes ==
  ASSUME Base, Compile
  PROVE  Base'
<1>1. /\ job.at = "compile"
      /\ UNCHANGED <<wanted, touched, queue, cfg, mode, tailnet, budget, next, kept, noted,
                     keptMode, host, exec, wire, accepted, halted, cancelled, spent>>
      /\ missed' = ~Compiles
  BY DEF Compile, intent, settings, files, engine
<1>2. /\ TypeOK /\ JobOK /\ job \in Jobs /\ job.answer = "none" /\ job # Idle
      /\ Current \in Plans /\ mode \in Modes
  BY <1>1, CurrentIs, IdleIs DEF Base, TypeOK, JobOK
<1>3. missed' \in BOOLEAN
  BY <1>1 DEF Compiles
<1>4. CASE ShowStopped /\ Ended
  BY <1>1, <1>2, <1>3, <1>4, EndedTypes, ShowStoppedIs, JobKeeps DEF TypeOK
<1>5. CASE /\ Ended
           /\ UNCHANGED <<phase, seen, attested, sid, hash, expected, tagged, watching, due>>
  BY <1>1, <1>2, <1>3, <1>5, EndedTypes, JobKeeps DEF TypeOK
<1>6. CASE /\ job.cmd = "start"
           /\ job' = [job EXCEPT !.at = "write", !.plan = Current, !.mode = mode]
           /\ UNCHANGED <<phase, seen, attested, sid, hash, expected, tagged, watching, due, look>>
  <2>1. /\ job' \in Jobs /\ job'.at = "write" /\ job'.cmd = "start" /\ job'.answer = "none"
        /\ job'.plan = Current /\ job'.mode = mode
    BY <1>2, <1>6 DEF Jobs, Places
  <2>2. JobOK'
    BY <1>2, <2>1 DEF JobOK
  <2>3. LookOK'
    BY <1>2, <1>6, <2>1, LookStays
  <2> QED BY <1>1, <1>2, <1>3, <1>6, <2>1, <2>2, <2>3, JobKeeps DEF TypeOK
<1>7. CASE /\ job' = [job EXCEPT !.cmd = "reload", !.at = "write", !.plan = Current,
                                 !.mode = mode]
           /\ phase' = "reloading"
           /\ UNCHANGED <<seen, attested, sid, hash, expected, tagged, watching, due, look>>
  <2>1. /\ job' \in Jobs /\ job'.at = "write" /\ job'.cmd = "reload" /\ job'.answer = "none"
        /\ job'.plan = Current /\ job'.mode = mode
    BY <1>2, <1>7 DEF Jobs, Places
  <2>2. JobOK'
    BY <1>2, <2>1 DEF JobOK
  <2>3. LookOK' /\ phase' \in BusyPhases
    BY <1>2, <1>7, <2>1, LookStays DEF BusyPhases
  <2> QED BY <1>1, <1>2, <1>3, <1>7, <2>1, <2>2, <2>3, JobKeeps DEF TypeOK
<1>8. CASE /\ job' = [job EXCEPT !.cmd = "switch", !.at = "compare", !.plan = Current,
                                 !.mode = mode]
           /\ expected' = mode
           /\ UNCHANGED <<phase, seen, attested, sid, hash, tagged, watching, due, look>>
  <2>1. /\ job' \in Jobs /\ job'.at = "compare" /\ job'.cmd = "switch" /\ job'.answer = "none"
        /\ job'.plan = Current /\ job'.mode = mode
    BY <1>2, <1>8 DEF Jobs, Places
  <2>2. JobOK'
    BY <1>2, <2>1 DEF JobOK
  <2>3. LookOK'
    BY <1>2, <1>8, <2>1, LookStays
  <2> QED BY <1>1, <1>2, <1>3, <1>8, <2>1, <2>2, <2>3, JobKeeps DEF TypeOK
<1> QED BY <1>4, <1>5, <1>6, <1>7, <1>8 DEF Compile, shown, session, follow

(* The plan is written, and the request goes out.                           *)
LEMMA WritePlanTypes ==
  ASSUME Base, WritePlan
  PROVE  Base'
<1>1. /\ job.at = "write" /\ next' = [plan |-> job.plan, mode |-> job.mode]
      /\ Send(job.cmd, job.plan, job.mode) /\ job' = [job EXCEPT !.at = "await"]
      /\ UNCHANGED <<phase, seen, attested, wanted, touched, sid, hash, expected, tagged,
                     watching, due, queue, look, cfg, mode, tailnet, budget, kept, noted,
                     keptMode, host, exec, accepted, missed, halted, cancelled, spent>>
  BY DEF WritePlan, shown, intent, session, follow, settings, engine, history
<1>2. /\ TypeOK /\ JobOK /\ job \in Jobs /\ job.cmd \in {"start", "reload"} /\ job # Idle
      /\ job.plan \in Plans /\ job.mode \in Modes
  BY <1>1, IdleIs DEF Base, TypeOK, JobOK
<1>3. PICK r : r = [op |-> job.cmd, sid |-> sid, hash |-> job.plan, mode |-> job.mode,
                    own |-> TRUE]
  OBVIOUS
<1>4. r \in Requests /\ r.hash \in Plans /\ r.op \in {"start", "reload"}
  BY <1>2, <1>3 DEF TypeOK, Requests
<1>5. wire' = wire \cup {r}
  BY <1>1, <1>3 DEF Send
<1>6. /\ job' \in Jobs /\ job'.at = "await" /\ job'.cmd = job.cmd /\ job'.answer = job.answer
      /\ job'.plan = job.plan /\ job'.mode = job.mode
  BY <1>1, <1>2, MovedIs DEF Places
<1>7. JobOK'
  BY <1>2, <1>6 DEF JobOK
<1>8. LookOK'
  BY <1>1, <1>2, <1>6, LookStays
<1>9. next' \in PlanFiles
  BY <1>1, <1>2 DEF PlanFiles
<1>10. wire' \subseteq Requests
  BY <1>2, <1>4, <1>5 DEF TypeOK
<1> QED BY <1>1, <1>2, <1>4, <1>5, <1>6, <1>7, <1>8, <1>9, <1>10, JobKeeps DEF TypeOK

(* What a start, a reload and a switch leave when they are done.            *)
LEMMA StartedIs ==
  ASSUME Base, Started
  PROVE  /\ job.cmd \in {"start", "reload"} /\ kept' = next /\ next' = None
         /\ keptMode' = job.mode /\ noted' = noted
         /\ sid' = job.session /\ hash' = job.plan /\ expected' = job.mode /\ tagged' = TRUE
         /\ phase' = "running" /\ attested' \in {job.plan, None}
         /\ UNCHANGED <<seen, watching, due>>
BY DEF Started, Keep, Attest, follow

(* A switch is done.                                                        *)
LEMMA SwitchedIs ==
  ASSUME Base, Switched
  PROVE  /\ job.cmd = "switch" /\ next' \in {next, None} /\ noted' = noted
         /\ keptMode' \in {keptMode, job.mode}
         /\ kept' \in {kept, [plan |-> job.plan, mode |-> job.mode]}
         /\ tagged' = TRUE /\ attested' \in {job.plan, None}
         /\ UNCHANGED <<phase, seen, sid, hash, expected, watching, due>>
BY DEF Switched, Keep, Attest, follow, files

(* The modes are compared.                                                  *)
LEMMA CompareTypes ==
  ASSUME Base, Compare
  PROVE  Base'
<1>1. /\ job.at = "compare"
      /\ UNCHANGED <<wanted, touched, queue, look, cfg, mode, tailnet, budget, host, exec,
                     accepted, missed, halted, cancelled, spent>>
  BY DEF Compare, intent, settings, engine, history
<1>2. /\ TypeOK /\ JobOK /\ job \in Jobs /\ job.cmd = "switch" /\ job # Idle
      /\ job.plan \in Plans /\ job.mode \in Modes
  BY <1>1, IdleIs DEF Base, TypeOK, JobOK
<1>3. CASE /\ Send("setMode", None, job.mode) /\ job' = [job EXCEPT !.at = "await"]
           /\ UNCHANGED <<phase, seen, attested, sid, hash, expected, tagged, watching, due,
                          next, kept, noted, keptMode>>
  <2>1. PICK r : r = [op |-> "setMode", sid |-> sid, hash |-> None, mode |-> job.mode,
                      own |-> TRUE]
    OBVIOUS
  <2>2. r \in Requests /\ r.mode \in Modes /\ r.op = "setMode"
    BY <1>2, <2>1 DEF TypeOK, Requests
  <2>3. wire' = wire \cup {r}
    BY <1>3, <2>1 DEF Send
  <2>4. /\ job' \in Jobs /\ job'.at = "await" /\ job'.cmd = job.cmd
        /\ job'.plan = job.plan /\ job'.mode = job.mode
    BY <1>2, <1>3, MovedIs DEF Places
  <2>5. JobOK'
    BY <1>2, <2>4 DEF JobOK
  <2>6. LookOK'
    BY <1>1, <1>2, <2>4, LookStays
  <2>7. wire' \subseteq Requests
    BY <1>2, <2>2, <2>3 DEF TypeOK
  <2> QED BY <1>1, <1>2, <1>3, <2>2, <2>3, <2>4, <2>5, <2>6, <2>7, JobKeeps DEF TypeOK
<1>4. CASE Switched /\ job' = [job EXCEPT !.at = "refresh"] /\ UNCHANGED wire
  <2>1. /\ job' \in Jobs /\ job'.at = "refresh" /\ job'.cmd = job.cmd
    BY <1>2, <1>4, MovedIs DEF Places
  <2>2. JobOK'
    BY <1>2, <2>1 DEF JobOK
  <2>3. LookOK'
    BY <1>1, <1>2, <2>1, LookStays
  <2>4. [plan |-> job.plan, mode |-> job.mode] \in PlanFiles
    BY <1>2 DEF PlanFiles
  <2>5. /\ next' \in PlanFiles \cup {None} /\ kept' \in PlanFiles \cup {None}
        /\ keptMode' \in Modes \cup {None} /\ attested' \in Plans \cup {None} /\ noted' = noted
        /\ UNCHANGED <<phase, seen, sid, hash, expected, watching, due>> /\ tagged' = TRUE
    BY <1>2, <1>4, <2>4, SwitchedIs DEF TypeOK
  <2> QED BY <1>1, <1>2, <1>4, <2>1, <2>2, <2>3, <2>5, JobKeeps DEF TypeOK
<1> QED BY <1>3, <1>4 DEF Compare, shown, session, follow, files

(* An answer arrives.                                                       *)
LEMMA ArrivesIs ==
  ASSUME Base, Arrives
  PROVE  /\ spent' \in [Kinds -> Nat]
         /\ \A k \in Kinds : spent[k] <= spent'[k]
         /\ \A k \in Kinds \ {"reorder"} : spent'[k] = spent[k]
         /\ look.at = "served" /\ look.fresh => spent'["reorder"] > 0
<1>1. "reorder" \in Kinds /\ spent \in [Kinds -> Nat]
  BY DEF Kinds, Base, TypeOK
<1>2. CASE look.at = "served" /\ look.fresh
  BY <1>1, <1>2, SpendIs DEF Arrives
<1>3. CASE ~(look.at = "served" /\ look.fresh)
  BY <1>1, <1>3 DEF Arrives
<1> QED BY <1>2, <1>3

(* A command that waited and goes on to its follow-up.                      *)
LEMMA RefreshTypes ==
  ASSUME Base, job.at \in {"await", "compare"}, job' = [job EXCEPT !.at = "refresh"],
         look' = look
  PROVE  /\ job' \in Jobs /\ JobOK' /\ LookOK'
         /\ job'.at = "refresh" /\ job'.cmd = job.cmd /\ job'.plan = job.plan
         /\ job'.mode = job.mode /\ job'.answer = job.answer /\ job'.session = job.session
         /\ job'.snap = job.snap
<1>1. /\ job \in Jobs /\ job.cmd \in {"start", "reload", "switch", "stop"} /\ job # Idle
  BY IdleIs DEF Base, TypeOK, JobOK
<1>2. /\ job' \in Jobs /\ job'.at = "refresh" /\ job'.cmd = job.cmd /\ job'.plan = job.plan
      /\ job'.mode = job.mode /\ job'.answer = job.answer /\ job'.session = job.session
      /\ job'.snap = job.snap
  BY <1>1, MovedIs DEF Places
<1>3. JobOK'
  BY <1>1, <1>2 DEF JobOK
<1>4. LookOK'
  BY <1>1, <1>2, LookStays
<1> QED BY <1>2, <1>3, <1>4

(* The request was carried out.                                             *)
LEMMA SucceededTypes ==
  ASSUME Base, Succeeded
  PROVE  Base'
<1>1. /\ job.at = "await" /\ Arrives /\ job' = [job EXCEPT !.at = "refresh"]
      /\ UNCHANGED <<wanted, touched, queue, look, cfg, mode, tailnet, budget, host, exec,
                     wire, accepted, missed, halted, cancelled>>
  BY DEF Succeeded, intent, settings, engine, history
<1>2. /\ TypeOK /\ JobOK /\ job \in Jobs /\ job.session \in Nat
      /\ job.cmd # "stop" => job.plan \in Plans /\ job.mode \in Modes
  BY <1>1 DEF Base, TypeOK, JobOK, Jobs
<1>3. spent' \in [Kinds -> Nat]
  BY <1>1, ArrivesIs
<1>4. CASE Started
  <2>1. /\ phase' = "running" /\ attested' \in Plans \cup {None} /\ UNCHANGED seen
        /\ sid' \in Nat /\ hash' \in Plans /\ expected' \in Modes /\ tagged' \in BOOLEAN
        /\ UNCHANGED <<watching, due>> /\ next' = None /\ kept' = next
        /\ keptMode' \in Modes /\ noted' = noted
    BY <1>2, <1>4, StartedIs
  <2> QED BY <1>1, <1>2, <1>3, <2>1, RefreshTypes, JobKeeps DEF TypeOK
<1>5. CASE Switched
  <2>1. [plan |-> job.plan, mode |-> job.mode] \in PlanFiles
    BY <1>2, <1>5, SwitchedIs DEF PlanFiles
  <2>2. /\ next' \in PlanFiles \cup {None} /\ kept' \in PlanFiles \cup {None}
        /\ keptMode' \in Modes \cup {None} /\ attested' \in Plans \cup {None} /\ noted' = noted
        /\ UNCHANGED <<phase, seen, sid, hash, expected, watching, due>> /\ tagged' = TRUE
    BY <1>2, <1>5, <2>1, SwitchedIs DEF TypeOK
  <2> QED BY <1>1, <1>2, <1>3, <2>2, RefreshTypes, JobKeeps DEF TypeOK
<1>6. CASE ShowStopped /\ UNCHANGED files
  BY <1>1, <1>2, <1>3, <1>6, ShowStoppedIs, RefreshTypes, JobKeeps DEF TypeOK, files
<1> QED BY <1>4, <1>5, <1>6 DEF Succeeded

(* HostException: what each command makes of a failure.                     *)
LEMMA ExceptionIs ==
  ASSUME Base, HostException
  PROVE  /\ seen' = seen
         /\ \/ /\ job.cmd = "attach" /\ Ended
               /\ UNCHANGED <<phase, attested, sid, hash, expected, tagged, watching, due>>
            \/ job.cmd = "start" /\ ShowStopped /\ Ended
            \/ /\ job.cmd \in {"reload", "switch"} /\ phase' = "running"
               /\ job' = [job EXCEPT !.at = "refresh"]
               /\ UNCHANGED <<attested, sid, hash, expected, tagged, watching, due, look>>
            \/ /\ job.cmd = "stop" /\ job' = [job EXCEPT !.at = "refresh"]
               /\ UNCHANGED <<phase, attested, sid, hash, expected, tagged, watching, due, look>>
BY DEF HostException, ShowStopped, shown, session, follow

(* A request failed.                                                        *)
LEMMA ExceptionTypes ==
  ASSUME Base, HostException, job.at \in {"read", "compare", "await"},
         UNCHANGED <<wanted, touched, queue, cfg, mode, tailnet, budget, next, kept, noted,
                     keptMode, host, accepted, missed, halted, cancelled>>,
         spent' \in [Kinds -> Nat], exec' = exec, wire' \subseteq wire
  PROVE  Base'
<1>1. TypeOK /\ JobOK /\ wire' \subseteq Requests
  BY DEF Base, TypeOK
<1>2. CASE /\ job.cmd = "attach" /\ Ended
           /\ UNCHANGED <<phase, attested, sid, hash, expected, tagged, watching, due>>
  BY <1>1, <1>2, EndedTypes, ExceptionIs, JobKeeps DEF TypeOK
<1>3. CASE job.cmd = "start" /\ ShowStopped /\ Ended
  BY <1>1, <1>3, EndedTypes, ShowStoppedIs, JobKeeps DEF TypeOK
<1>4. CASE /\ job.cmd \in {"reload", "switch", "stop"} /\ phase' \in {phase, "running"}
           /\ job' = [job EXCEPT !.at = "refresh"]
           /\ UNCHANGED <<attested, sid, hash, expected, tagged, watching, due, look>>
  <2>1. job.at \in {"await", "compare"}
    BY <1>1, <1>4 DEF JobOK
  <2> QED BY <1>1, <1>4, <2>1, RefreshTypes, ExceptionIs, JobKeeps DEF TypeOK
<1> QED BY <1>2, <1>3, <1>4, ExceptionIs

(* The request was refused.                                                 *)
LEMMA RefusedTypes ==
  ASSUME Base, Refused
  PROVE  Base'
<1>1. /\ job.at = "await" /\ Arrives /\ HostException
      /\ UNCHANGED <<wanted, touched, queue, cfg, mode, tailnet, budget, next, kept, noted,
                     keptMode, host, exec, wire, accepted, missed, halted, cancelled>>
  BY DEF Refused, intent, settings, files, engine, history
<1> QED BY <1>1, ArrivesIs, ExceptionTypes

(* A query is asked.                                                        *)
LEMMA AskIs ==
  ASSUME Ask
  PROVE  /\ look' \in Looks /\ look'.at = "sent" /\ look'.fresh /\ look'.snap.hash = None
<1>1. NoLook \in Looks /\ NoLook.snap.hash = None
  BY NoLookIs
<1> QED BY <1>1 DEF Ask, Looks

(* The follow-up of a command asks.                                         *)
LEMMA FollowUpTypes ==
  ASSUME Base, FollowUp
  PROVE  Base'
<1>1. /\ job.at = "refresh" /\ job' = [job EXCEPT !.at = "wait"]
      /\ (look = NoLook /\ Ask) \/ (look.fresh /\ UNCHANGED look)
      /\ UNCHANGED <<phase, seen, attested, wanted, touched, sid, hash, expected, tagged,
                     watching, due, queue, cfg, mode, tailnet, budget, next, kept, noted,
                     keptMode, host, exec, wire, accepted, missed, halted, cancelled, spent>>
  BY DEF FollowUp, shown, intent, session, follow, settings, files, engine, history
<1>2. /\ TypeOK /\ JobOK /\ LookOK /\ job \in Jobs /\ look \in Looks /\ job # Idle
      /\ job.cmd \in {"start", "reload", "switch", "stop"}
  BY <1>1, IdleIs DEF Base, TypeOK, JobOK
<1>3. job' \in Jobs /\ job'.at = "wait" /\ job'.cmd = job.cmd
  BY <1>1, <1>2, MovedIs DEF Places
<1>4. JobOK'
  BY <1>2, <1>3 DEF JobOK
<1>5. look' \in Looks /\ look'.fresh /\ look'.at \in {"sent", "served"}
  <2>1. look.fresh => look.at \in {"sent", "served"}
    BY <1>2, NoLookIs DEF LookOK, Looks
  <2> QED BY <1>1, <1>2, <2>1, AskIs
<1>6. LookOK'
  BY <1>3, <1>5 DEF LookOK
<1> QED BY <1>1, <1>2, <1>3, <1>4, <1>5, <1>6, JobKeeps DEF TypeOK

(* A query that comes back lets the command that waited for it end.         *)
LEMMA AnsweredIs ==
  ASSUME Base
  PROVE  /\ Answered \in Jobs
         /\ Answered.at = IF job.at = "wait" THEN "end" ELSE job.at
         /\ Answered.cmd = job.cmd /\ Answered.plan = job.plan /\ Answered.mode = job.mode
         /\ Answered.answer = job.answer /\ Answered.session = job.session
         /\ Answered.snap = job.snap
         /\ job.at # "wait" => Answered = job
BY DEF Answered, Base, TypeOK, Jobs, Places

(* It is a command like any other.                                          *)
LEMMA AnsweredTypes ==
  ASSUME Base, job' = Answered, job # Idle => look'.at # "writing",
         look'.at = "writing" => look'.snap.mode \in Modes,
         look'.at = "none" => look' = NoLook
  PROVE  JobOK' /\ LookOK'
<1>1. /\ job'.at = IF job.at = "wait" THEN "end" ELSE job.at
      /\ job'.cmd = job.cmd /\ job'.plan = job.plan /\ job'.mode = job.mode
      /\ job'.answer = job.answer
      /\ job.at # "wait" => job' = job
  BY AnsweredIs
<1>2. JobOK'
  BY <1>1 DEF Base, JobOK
<1>3. job.at = "wait" \/ job.at = "end" => job # Idle
  BY IdleIs
<1>4. LookOK'
  BY <1>1, <1>3 DEF LookOK
<1> QED BY <1>2, <1>4

(* A query is answered.                                                     *)
LEMMA ReceiveTypes ==
  ASSUME Base, Receive
  PROVE  Base'
<1>1. /\ look.at = "served" /\ job' = Answered /\ touched' = touched
      /\ UNCHANGED <<queue, cfg, mode, tailnet, budget, next, kept, noted, keptMode, host,
                     exec, wire, accepted, missed, cancelled, spent>>
  BY DEF Receive, settings, files, engine, intent
<1>2. TypeOK /\ look \in Looks /\ look.snap \in Snapshots /\ job' \in Jobs
  BY <1>1, AnsweredIs DEF Base, TypeOK, Looks
<1>3. CASE /\ look' = NoLook
           /\ UNCHANGED <<phase, seen, attested, wanted, sid, hash, expected, tagged,
                          watching, due, halted>>
  <2>1. JobOK' /\ LookOK'
    BY <1>1, <1>3, NoLookIs, AnsweredTypes, AnsweredIs
  <2> QED BY <1>1, <1>2, <1>3, <2>1, NoLookIs, JobKeeps DEF TypeOK
<1>4. CASE look.fresh /\ ~(/\ look' = NoLook
           /\ UNCHANGED <<phase, seen, attested, wanted, sid, hash, expected, tagged,
                          watching, due, halted>>)
  <2>1. PICK changed \in BOOLEAN :
          /\ changed = (look.snap.state = "running" /\ ChangedOutside(look.snap))
          /\ Adopt(look.snap, IF changed THEN look.snap.mode ELSE expected)
          /\ wanted' = IntentAfter(look.snap)
          /\ look' = IF changed THEN [look EXCEPT !.at = "writing"] ELSE NoLook
          /\ halted' = ((halted \/ SeenToEnd(look.snap)) /\ ~SeenToRun(look.snap))
    BY <1>4 DEF Receive, AdoptsFresh, shown, intent, session, follow
  <2>2. look.snap.mode \in Modes \cup {None} /\ expected \in Modes \cup {None}
        /\ look.snap.proxy \in BOOLEAN /\ look.snap.hash \in Plans \cup {None}
    BY <1>2 DEF TypeOK, Snapshots
  <2>3. /\ phase' \in {"stopped", "running"} \cup BusyPhases
        /\ seen' \in [hash : Plans \cup {None}, proxy : BOOLEAN]
        /\ attested' \in Plans \cup {None}
        /\ sid' \in Nat /\ hash' \in Plans \cup {None} /\ expected' \in Modes \cup {None}
        /\ tagged' \in BOOLEAN /\ watching' \in BOOLEAN /\ due' \in BOOLEAN
    <3>1. PICK m \in Modes \cup {None} : Adopt(look.snap, m)
      BY <2>1, <2>2
    <3> QED BY <1>2, <2>2, <3>1, AdoptIs DEF TypeOK
  <2>4. wanted' \in BOOLEAN /\ halted' \in BOOLEAN
    BY <1>2, <2>1, <2>2 DEF TypeOK, IntentAfter
  <2>5. changed => job = Idle /\ look.snap.mode \in Modes
    BY <2>1, <2>2 DEF ChangedOutside
  <2>6. look' \in Looks /\ look'.at \in {"none", "writing"} /\ (look'.at = "none" => look' = NoLook)
        /\ (look'.at = "writing" => changed /\ look'.snap = look.snap)
    BY <1>2, <2>1, NoLookIs DEF Looks
  <2>7. JobOK' /\ LookOK'
    BY <1>1, <2>5, <2>6, AnsweredTypes, AnsweredIs
  <2>8. TypeOK'
    BY <1>1, <1>2, <2>3, <2>4, <2>6 DEF TypeOK
  <2>9. EngineOK'
    BY <1>1 DEF Base, EngineOK
  <2> QED BY <2>7, <2>8, <2>9 DEF Base
<1> QED BY <1>3, <1>4 DEF Receive, AdoptsFresh, shown, intent, session, follow

(* The panel's choice is saved.                                             *)
LEMMA WriteBackTypes ==
  ASSUME Base, WriteBack
  PROVE  Base'
<1>1. /\ look.at = "writing" /\ mode' = look.snap.mode /\ look' = NoLook
      /\ Enqueue("sync") \/ UNCHANGED queue
      /\ UNCHANGED <<phase, seen, attested, wanted, touched, sid, hash, expected, tagged,
                     watching, due, job, cfg, tailnet, budget, next, kept, noted, keptMode,
                     host, exec, wire, accepted, missed, halted, cancelled, spent>>
  BY DEF WriteBack, shown, intent, session, follow, files, engine, history
<1>2. TypeOK /\ mode' \in Modes /\ job.at # "wait" /\ "sync" \in Commands
  BY <1>1 DEF Base, LookOK, Commands
<1>3. queue' \in Seq(Commands)
  BY <1>1, <1>2, EnqueueIs DEF TypeOK
<1>4. TypeOK'
  BY <1>1, <1>2, <1>3, NoLookIs DEF TypeOK
<1>5. JobOK' /\ EngineOK'
  BY <1>1 DEF Base, JobOK, EngineOK
<1>6. LookOK'
  BY <1>1, <1>2, NoLookIs DEF LookOK
<1> QED BY <1>4, <1>5, <1>6 DEF Base

(* A command ends.                                                          *)
LEMMA EndTypes ==
  ASSUME Base, End
  PROVE  Base'
<1>1. /\ Ended
      /\ (Schedule(phase) \/ UNCHANGED follow)
      /\ cancelled' = FALSE
      /\ UNCHANGED <<phase, seen, attested, wanted, touched, sid, hash, expected, tagged, queue,
                     cfg, mode, tailnet, budget, next, kept, noted, keptMode, host, exec, wire,
                     accepted, missed, halted, spent>>
  BY DEF End, shown, intent, session, settings, files, engine
<1>2. TypeOK
  BY DEF Base
<1>3. watching' \in BOOLEAN /\ due' \in BOOLEAN
  <2>1. CASE Schedule(phase)
    BY <1>2, <2>1 DEF TypeOK, Schedule, Connected
  <2>2. CASE UNCHANGED <<watching, due>>
    BY <1>2, <2>2 DEF TypeOK
  <2> QED BY <1>1, <2>1, <2>2 DEF follow
<1>4. job' \in Jobs /\ JobOK' /\ look' \in Looks /\ LookOK'
  BY <1>1, EndedTypes
<1>5. cancelled' \in BOOLEAN
  BY <1>1, Zenon
<1>6. TypeOK'
  BY <1>1, <1>2, <1>3, <1>4, <1>5 DEF TypeOK
<1>7. EngineOK'
  BY <1>1 DEF Base, EngineOK
<1> QED BY <1>4, <1>6, <1>7 DEF Base

(* The debounce timer puts a sync behind the other commands.                *)
LEMMA DebouncedTypes ==
  ASSUME Base, Debounced
  PROVE  Base'
<1>1. /\ due' = FALSE /\ Enqueue("sync")
      /\ UNCHANGED <<phase, seen, attested, wanted, touched, sid, hash, expected, tagged,
                     watching, job, look, cfg, mode, tailnet, budget, next, kept, noted,
                     keptMode, host, exec, wire, accepted, missed, halted, cancelled, spent>>
  BY DEF Debounced, shown, intent, session, settings, files, engine, history
<1>2. TypeOK /\ "sync" \in Commands
  BY DEF Base, Commands
<1>3. queue' \in Seq(Commands)
  BY <1>1, <1>2, EnqueueIs
<1>4. due' \in BOOLEAN
  BY <1>1, Zenon
<1> QED BY <1>1, <1>2, <1>3, <1>4, RestKeeps DEF TypeOK, Rest

(* The proxy is switched on or off.                                         *)
LEMMA ToggleTypes ==
  ASSUME Base, Toggle
  PROVE  Base'
<1>1. PICK off \in BOOLEAN :
        /\ off = (ProxyConnected \/ (phase = "starting" /\ wanted))
        /\ Spend("press") /\ touched' = TRUE /\ wanted' = ~off
        /\ Enqueue(IF off THEN "disconnect" ELSE "connect")
        /\ halted' = (halted /\ off)
        /\ cancelled' = (off /\ job.cmd = "start" /\ job.at = "consent")
  BY DEF Toggle
<1>2. UNCHANGED <<phase, seen, attested, sid, hash, expected, tagged, watching, due, job, look,
                  cfg, mode, tailnet, budget, next, kept, noted, keptMode, host, exec, wire,
                  accepted, missed>>
  BY DEF Toggle, shown, session, follow, settings, files, engine
<1>3. TypeOK /\ "press" \in Kinds
  BY DEF Base, Kinds
<1>4. queue' \in Seq(Commands)
  <2>1. PICK c \in Commands : Enqueue(c)
    BY <1>1 DEF Commands
  <2> QED BY <2>1, EnqueueIs
<1>5. wanted' \in BOOLEAN /\ touched' \in BOOLEAN /\ halted' \in BOOLEAN /\ cancelled' \in BOOLEAN
  BY <1>1, Zenon
<1>6. spent' \in [Kinds -> Nat]
  BY <1>1, <1>3, SpendIs
<1> QED BY <1>2, <1>3, <1>4, <1>5, <1>6, RestKeeps DEF TypeOK, Rest

(* Everything is switched off.                                              *)
LEMMA StopAllTypes ==
  ASSUME Base, StopAll
  PROVE  Base'
<1>1. /\ Spend("press") /\ touched' = TRUE /\ wanted' = FALSE /\ Enqueue("stopAll")
      /\ UNCHANGED <<phase, seen, attested, sid, hash, expected, tagged, watching, due, job,
                     look, cfg, mode, tailnet, budget, next, kept, noted, keptMode, host, exec,
                     wire, accepted, missed, halted, cancelled>>
  BY DEF StopAll, shown, session, follow, settings, files, engine, history
<1>2. TypeOK /\ "press" \in Kinds /\ "stopAll" \in Commands
  BY DEF Base, Kinds, Commands
<1>3. queue' \in Seq(Commands) /\ spent' \in [Kinds -> Nat]
  BY <1>1, <1>2, EnqueueIs, SpendIs
<1>4. touched' \in BOOLEAN /\ wanted' \in BOOLEAN
  BY <1>1, Zenon
<1> QED BY <1>1, <1>2, <1>3, <1>4, RestKeeps DEF TypeOK, Rest

(* The tailnet is enabled or disabled.                                      *)
LEMMA SetTailnetTypes ==
  ASSUME Base, SetTailnetEnabled
  PROVE  Base'
<1>1. /\ Spend("tailnet") /\ tailnet' = ~tailnet
      /\ Enqueue(IF tailnet THEN "tailnetOff" ELSE "tailnetOn")
      /\ due' = (due \/ watching) /\ cancelled' = FALSE
      /\ UNCHANGED <<phase, seen, attested, wanted, touched, sid, hash, expected, tagged,
                     watching, job, look, cfg, mode, budget, next, kept, noted, keptMode,
                     host, exec, wire, accepted, missed, halted>>
  BY DEF SetTailnetEnabled, shown, intent, session, files, engine
<1>2. TypeOK /\ "tailnet" \in Kinds
  BY DEF Base, Kinds
<1>3. queue' \in Seq(Commands)
  <2>1. PICK c \in Commands : Enqueue(c)
    BY <1>1 DEF Commands
  <2> QED BY <2>1, EnqueueIs
<1>4. spent' \in [Kinds -> Nat]
  BY <1>1, <1>2, SpendIs
<1>5. tailnet' \in BOOLEAN /\ due' \in BOOLEAN /\ cancelled' \in BOOLEAN
  BY <1>1, Zenon
<1> QED BY <1>1, <1>2, <1>3, <1>4, <1>5, RestKeeps DEF TypeOK, Rest

(* Something a plan is compiled from changes.                               *)
LEMMA EditTypes ==
  ASSUME Base, NEW c \in Cfgs, Edit(c)
  PROVE  Base'
<1>1. /\ Spend("edit") /\ cfg' = c /\ due' = (due \/ watching)
      /\ missed' = (missed \/ (~watching /\ phase # "stopped"))
      /\ UNCHANGED <<phase, seen, attested, wanted, touched, sid, hash, expected, tagged,
                     watching, queue, job, look, mode, tailnet, budget, next, kept, noted,
                     keptMode, host, exec, wire, accepted, halted, cancelled>>
  BY DEF Edit, Unheard, shown, intent, session, files, engine
<1>2. TypeOK /\ "edit" \in Kinds
  BY DEF Base, Kinds
<1>3. spent' \in [Kinds -> Nat]
  BY <1>1, <1>2, SpendIs
<1>4. due' \in BOOLEAN /\ missed' \in BOOLEAN
  BY <1>1, Zenon
<1> QED BY <1>1, <1>2, <1>3, <1>4, RestKeeps DEF TypeOK, Rest

(* Another mode is chosen.                                                  *)
LEMMA ChooseTypes ==
  ASSUME Base, NEW m \in Modes, Choose(m)
  PROVE  Base'
<1>1. /\ Spend("edit") /\ mode' = m
      /\ \/ watching /\ Enqueue("sync") /\ due' = FALSE
         \/ ~watching /\ UNCHANGED <<queue, due>>
      /\ missed' = (missed \/ (~watching /\ phase # "stopped"))
      /\ UNCHANGED <<phase, seen, attested, wanted, touched, sid, hash, expected, tagged,
                     watching, job, look, cfg, tailnet, budget, next, kept, noted, keptMode,
                     host, exec, wire, accepted, halted, cancelled>>
  BY DEF Choose, Unheard, shown, intent, session, files, engine
<1>2. TypeOK /\ "edit" \in Kinds /\ "sync" \in Commands
  BY DEF Base, Kinds, Commands
<1>3. spent' \in [Kinds -> Nat] /\ queue' \in Seq(Commands)
  BY <1>1, <1>2, SpendIs, EnqueueIs DEF TypeOK
<1>4. due' \in BOOLEAN /\ missed' \in BOOLEAN
  <2>1. due \in BOOLEAN
    BY <1>2 DEF TypeOK
  <2> QED BY <1>1, <2>1, Zenon
<1> QED BY <1>1, <1>2, <1>3, <1>4, RestKeeps DEF TypeOK, Rest

(* A step that touches nothing but the query.                               *)
LEMMA LookTypes ==
  ASSUME Base, look' \in Looks, LookOK',
         UNCHANGED <<phase, seen, attested, wanted, touched, sid, hash, expected, tagged,
                     watching, due, queue, job, cfg, mode, tailnet, budget, next, kept,
                     noted, keptMode, host, exec, wire, accepted, missed, halted,
                     cancelled, spent>>
  PROVE  Base'
<1>1. TypeOK'
  BY DEF Base, TypeOK
<1>2. JobOK' /\ EngineOK'
  BY DEF Base, JobOK, EngineOK
<1> QED BY <1>1, <1>2 DEF Base

(* The poll asks.                                                           *)
LEMMA PollTypes ==
  ASSUME Base, Poll
  PROVE  Base'
<1>1. /\ Ask /\ look = NoLook
      /\ UNCHANGED <<phase, seen, attested, wanted, touched, sid, hash, expected, tagged,
                     watching, due, queue, job, cfg, mode, tailnet, budget, next, kept,
                     noted, keptMode, host, exec, wire, accepted, missed, halted,
                     cancelled, spent>>
  BY DEF Poll, shown, intent, session, follow, settings, files, engine, history
<1>2. LookOK'
  BY <1>1, AskIs DEF LookOK
<1> QED BY <1>1, <1>2, AskIs, LookTypes

(* The host answers a query.                                                *)
LEMMA ServeTypes ==
  ASSUME Base, Serve
  PROVE  /\ Base'
         /\ look' \in Looks /\ look'.at = "served" /\ look'.fresh = look.fresh
         /\ look'.snap = Snapshot
<1>1. /\ look.at = "sent" /\ look' = [look EXCEPT !.at = "served", !.snap = Snapshot]
      /\ UNCHANGED <<phase, seen, attested, wanted, touched, sid, hash, expected, tagged,
                     watching, due, queue, job, cfg, mode, tailnet, budget, next, kept,
                     noted, keptMode, host, exec, wire, accepted, missed, halted,
                     cancelled, spent>>
  BY DEF Serve, shown, intent, session, follow, settings, files, engine, history
<1>2. look \in Looks /\ Snapshot \in Snapshots
  BY SnapshotIs DEF Base, TypeOK
<1>3. /\ look' \in Looks /\ look'.at = "served" /\ look'.fresh = look.fresh
      /\ look'.snap = Snapshot
  BY <1>1, <1>2 DEF Looks
<1>4. LookOK'
  BY <1>1, <1>3 DEF Base, LookOK
<1> QED BY <1>1, <1>3, <1>4, LookTypes

(* A query gets no answer.                                                  *)
LEMMA QueryFailsTypes ==
  ASSUME Base, QueryFails
  PROVE  Base'
<1>1. /\ Spend("answer") /\ look' = NoLook /\ job' = Answered
      /\ UNCHANGED <<phase, seen, attested, wanted, touched, sid, hash, expected, tagged,
                     watching, due, queue, cfg, mode, tailnet, budget, next, kept, noted,
                     keptMode, host, exec, wire, accepted, missed, halted, cancelled>>
  BY DEF QueryFails, shown, intent, session, follow, settings, files, engine, history
<1>2. TypeOK /\ "answer" \in Kinds
  BY DEF Base, Kinds
<1>3. spent' \in [Kinds -> Nat] /\ job' \in Jobs /\ look' \in Looks
  BY <1>1, <1>2, SpendIs, AnsweredIs, NoLookIs
<1>4. JobOK' /\ LookOK'
  BY <1>1, NoLookIs, AnsweredTypes
<1> QED BY <1>1, <1>2, <1>3, <1>4, JobKeeps DEF TypeOK

(* The disk fails: the command ends.                                        *)
LEMMA DiskFailsTypes ==
  ASSUME Base, DiskFails
  PROVE  Base'
<1>1. /\ Spend("disk") /\ Ended
      /\ UNCHANGED <<phase, seen, attested, wanted, touched, sid, hash, expected, tagged,
                     watching, due, queue, cfg, mode, tailnet, budget, next, kept, noted,
                     keptMode, host, exec, wire, accepted, missed, halted, cancelled>>
  BY DEF DiskFails, shown, intent, session, follow, settings, files, engine, history
<1>2. TypeOK /\ "disk" \in Kinds
  BY DEF Base, Kinds
<1>3. spent' \in [Kinds -> Nat]
  BY <1>1, <1>2, SpendIs
<1> QED BY <1>1, <1>2, <1>3, EndedTypes, JobKeeps DEF TypeOK

(* The lock is free, or a request holds it.                                 *)
LEMMA HolderIs ==
  ASSUME Base
  PROVE  /\ Held => exec \in Requests /\ exec.op \in {"start", "reload", "stop"}
         /\ ~Held => exec.op = "none"
         /\ NoRequest.op = "none" /\ NoRequest \notin Requests
<1>1. NoRequest.op = "none" /\ NoRequest \notin Requests
  BY DEF NoRequest, Requests
<1>2. exec \in Requests \cup {NoRequest} /\ exec.op \in {"none", "start", "reload", "stop"}
  BY DEF Base, TypeOK, EngineOK
<1>3. Held => exec \in Requests /\ exec.op # "none"
  BY <1>2 DEF Held, Requests
<1>4. ~Held => exec.op = "none"
  BY <1>1 DEF Held
<1> QED BY <1>1, <1>2, <1>3, <1>4

(* A request whose sender gave up keeps all the rest.                       *)
LEMMA OrphanIs ==
  ASSUME NEW r \in Requests \cup {NoRequest}
  PROVE  /\ r \in Requests =>
              /\ Orphan(r) \in Requests /\ Orphan(r).op = r.op /\ Orphan(r).sid = r.sid
              /\ Orphan(r).hash = r.hash /\ Orphan(r).mode = r.mode /\ ~Orphan(r).own
         /\ r = NoRequest => Orphan(r) = NoRequest
<1>1. NoRequest \notin Requests
  BY DEF NoRequest, Requests
<1> QED BY <1>1 DEF Orphan, Requests

(* What an answer makes of the command that waits for it.                   *)
LEMMA ReplyIs ==
  ASSUME Base, NEW r \in Requests, r.own => Asking,
         NEW answer \in {"done", "failed"}, NEW s \in Nat, Reply(r, answer, s)
  PROVE  /\ job' \in Jobs /\ JobOK' /\ (UNCHANGED look => LookOK')
         /\ job'.at = job.at /\ job'.cmd = job.cmd /\ job'.plan = job.plan
         /\ job'.mode = job.mode /\ job'.snap = job.snap
         /\ r.own => job'.answer = answer /\ job'.session = s
         /\ ~r.own => job' = job
<1>1. job \in Jobs /\ r.own \in BOOLEAN /\ JobOK /\ LookOK
  BY DEF Base, TypeOK, Requests
<1>2. CASE r.own
  <2>1. job' = [job EXCEPT !.answer = answer, !.session = s] /\ job.at = "await"
    BY <1>2 DEF Reply, Asking
  <2>2. /\ job' \in Jobs /\ job'.at = job.at /\ job'.cmd = job.cmd /\ job'.plan = job.plan
        /\ job'.mode = job.mode /\ job'.snap = job.snap
        /\ job'.answer = answer /\ job'.session = s
    BY <1>1, <2>1 DEF Jobs
  <2>3. JobOK'
    BY <1>1, <2>1, <2>2 DEF JobOK
  <2>4. UNCHANGED look => LookOK'
    BY <1>1, <2>1, <2>2, IdleIs DEF LookOK
  <2> QED BY <1>2, <2>2, <2>3, <2>4
<1>3. CASE ~r.own
  <2>1. job' = job
    BY <1>3 DEF Reply
  <2>2. JobOK' /\ (UNCHANGED look => LookOK')
    BY <1>1, <2>1 DEF JobOK, LookOK
  <2> QED BY <1>1, <1>3, <2>1, <2>2
<1> QED BY <1>1, <1>2, <1>3

(* A step of the host, or of the world around it.                           *)
LEMMA HostKeeps ==
  ASSUME Base,
         UNCHANGED <<phase, seen, attested, wanted, touched, sid, hash, expected, tagged,
                     watching, due, queue, look, cfg, mode, tailnet, budget, next, kept,
                     keptMode, missed, halted, cancelled>>,
         job' \in Jobs, JobOK', LookOK', host' \in Hosts,
         exec' \in Requests \cup {NoRequest}, wire' \subseteq wire,
         noted' \in Plans \cup {None}, accepted' \subseteq Plans,
         spent' \in [Kinds -> Nat],
         exec'.op \in {"none", "start", "reload", "stop"},
         exec'.op = "none" <=> host'.state \in {"stopped", "failed", "running"},
         exec'.op \in {"start", "reload"} =>
           /\ host'.state \in {"starting", "reloading"}
           /\ host'.file \in PlanFiles
           /\ exec'.hash \in Plans,
         host'.state = "running" =>
           host'.file \in PlanFiles /\ host'.hash \in Plans /\ host'.mode \in Modes
  PROVE  Base'
<1>1. TypeOK'
  BY DEF Base, TypeOK
<1>2. EngineOK'
  BY DEF Base, EngineOK
<1> QED BY <1>1, <1>2 DEF Base

(* The engine runs nothing.                                                 *)
LEMMA StoppedIs ==
  ASSUME NEW b \in Nat
  PROVE  /\ Stopped(b) \in Hosts
         /\ Stopped(b).state = "stopped" /\ Stopped(b).hash = None
         /\ Stopped(b).session = 0 /\ Stopped(b).born = b
BY DEF Stopped, Hosts, States

(* The engine runs a file under a hash.                                     *)
LEMMA RunningIs ==
  ASSUME NEW file \in PlanFiles, NEW h \in Plans, NEW b \in Nat
  PROVE  /\ Running(file, h, b) \in Hosts
         /\ Running(file, h, b).state = "running" /\ Running(file, h, b).hash = h
         /\ Running(file, h, b).session = b /\ Running(file, h, b).file = file
         /\ Running(file, h, b).mode = file.mode /\ Running(file, h, b).mode \in Modes
         /\ file.plan \in Plans
BY DEF Running, Hosts, States, PlanFiles

(* A start or reload is taken up: refused, not accepted by the core, or     *)
(* under way with the file as it is now.                                    *)
LEMMA TakeUpIs ==
  ASSUME Base, OneRequest, NEW r, TakeUp(r)
  PROVE  /\ r \in wire /\ r \in Requests /\ r.op \in {"start", "reload"} /\ r.hash \in Plans
         /\ ~Held /\ wire' = wire \ {r} /\ (r.own => Asking)
         /\ job'.at = job.at /\ job'.cmd = job.cmd /\ job'.plan = job.plan
         /\ job'.mode = job.mode /\ job'.snap = job.snap
         /\ job' \in Jobs /\ JobOK' /\ LookOK' /\ spent' \in [Kinds -> Nat]
         /\ \A k \in Kinds : spent[k] <= spent'[k]
         /\ \A k \in Kinds \ {"core"} : spent'[k] = spent[k]
         /\ \/ /\ UNCHANGED <<host, exec>> /\ Reply(r, "failed", 0)
               /\ r.own => job'.answer = "failed"
               /\ ~r.own => job' = job
               /\ Rejects(r) \/ (~Rejects(r) /\ spent'["core"] > 0)
            \/ /\ ~Rejects(r) /\ exec' = r /\ next \in PlanFiles
               /\ host' \in Hosts
               /\ host'.state = IF r.op = "start" THEN "starting" ELSE "reloading"
               /\ host'.file = next /\ host'.hash = None
               /\ host'.session = host.born + 1 /\ host'.born = host.born + 1
               /\ host.state \in {"stopped", "failed", "running"}
               /\ UNCHANGED <<job, spent>>
         /\ UNCHANGED <<phase, seen, attested, wanted, touched, sid, hash, expected, tagged,
                        watching, due, queue, look, cfg, mode, tailnet, budget, next, kept,
                        noted, keptMode, accepted, missed, halted, cancelled>>
<1>1. /\ r \in wire /\ r.op \in {"start", "reload"} /\ exec = NoRequest /\ wire' = wire \ {r}
      /\ UNCHANGED <<phase, seen, attested, wanted, touched, sid, hash, expected, tagged,
                     watching, due, queue, look, cfg, mode, tailnet, budget, next, kept,
                     noted, keptMode, accepted, missed, halted, cancelled>>
  BY DEF TakeUp, shown, intent, session, follow, settings, files, history
<1>2. /\ TypeOK /\ JobOK /\ LookOK /\ r \in Requests /\ r.hash \in Plans /\ ~Held
      /\ "core" \in Kinds /\ spent \in [Kinds -> Nat] /\ host \in Hosts
  BY <1>1 DEF Base, TypeOK, EngineOK, Held, Kinds
<1>3. r.own => Asking
  BY <1>1 DEF OneRequest, Answers
<1>4. /\ spent' \in [Kinds -> Nat]
      /\ \A k \in Kinds : spent[k] <= spent'[k]
      /\ \A k \in Kinds \ {"core"} : spent'[k] = spent[k]
  <2>1. Spend("core") \/ UNCHANGED spent
    BY DEF TakeUp
  <2> QED BY <1>2, <2>1, SpendIs
<1>5. CASE Reply(r, "failed", 0) /\ UNCHANGED <<host, exec>>
           /\ (Rejects(r) \/ (~Rejects(r) /\ Spend("core")))
  <2>1. spent'["core"] > 0 \/ Rejects(r)
    BY <1>2, <1>5, SpendIs
  <2>2. /\ job' \in Jobs /\ JobOK' /\ LookOK'
        /\ job'.at = job.at /\ job'.cmd = job.cmd /\ job'.plan = job.plan
        /\ job'.mode = job.mode /\ job'.snap = job.snap
        /\ r.own => job'.answer = "failed"
        /\ ~r.own => job' = job
    BY <1>1, <1>2, <1>3, <1>5, ReplyIs
  <2> QED BY <1>1, <1>2, <1>3, <1>4, <1>5, <2>1, <2>2
<1>6. CASE /\ ~Rejects(r) /\ exec' = r
           /\ host' = [host EXCEPT !.state = IF r.op = "start" THEN "starting"
                                             ELSE "reloading",
                                   !.session = host.born + 1, !.born = @ + 1,
                                   !.hash = None, !.file = next]
           /\ UNCHANGED <<job, spent>>
  <2>1. next \in PlanFiles
    BY <1>2, <1>6 DEF Rejects, TypeOK
  <2>2. /\ host' \in Hosts
        /\ host'.state = IF r.op = "start" THEN "starting" ELSE "reloading"
        /\ host'.file = next /\ host'.hash = None
        /\ host'.session = host.born + 1 /\ host'.born = host.born + 1
    <3>1. PICK s \in States : s = IF r.op = "start" THEN "starting" ELSE "reloading"
      BY DEF States
    <3>2. host' = [host EXCEPT !.state = s, !.session = host.born + 1,
                               !.born = host.born + 1, !.hash = None, !.file = next]
      BY <1>6, <3>1
    <3>3. host.born + 1 \in Nat
      BY <1>2 DEF Hosts
    <3> QED BY <1>2, <2>1, <3>1, <3>2, <3>3 DEF Hosts
  <2>3. host.state \in {"stopped", "failed", "running"}
    BY <1>1 DEF Base, EngineOK, NoRequest
  <2>4. JobOK' /\ LookOK' /\ job \in Jobs
    BY <1>1, <1>2, <1>6 DEF JobOK, LookOK, TypeOK
  <2> QED BY <1>1, <1>2, <1>3, <1>4, <1>6, <2>1, <2>2, <2>3, <2>4
<1> QED BY <1>5, <1>6 DEF TakeUp, engine

(* The types are kept.                                                      *)
LEMMA TakeUpTypes ==
  ASSUME Base, OneRequest, NEW r, TakeUp(r)
  PROVE  Base'
<1>1. TypeOK /\ EngineOK /\ host \in Hosts /\ noted \in Plans \cup {None}
      /\ accepted \subseteq Plans
  BY DEF Base, TypeOK
<1>2. CASE UNCHANGED <<host, exec>>
  <2>1. host \in Hosts /\ exec \in Requests \cup {NoRequest}
    BY DEF Base, TypeOK
  <2> QED BY <1>1, <1>2, <2>1, TakeUpIs, HostKeeps DEF EngineOK
<1>3. CASE /\ exec' = r /\ next \in PlanFiles
           /\ host' \in Hosts
           /\ host'.state = (IF r.op = "start" THEN "starting" ELSE "reloading")
           /\ host'.file = next
  BY <1>1, <1>3, TakeUpIs, HostKeeps
<1> QED BY <1>2, <1>3, TakeUpIs

(* The core of a start or reload runs, or nothing runs any more.            *)
LEMMA CoreStartsIs ==
  ASSUME Base, OneRequest, CoreStarts
  PROVE  /\ Held /\ exec \in Requests /\ exec.op \in {"start", "reload"} /\ exec.hash \in Plans
         /\ exec' = NoRequest /\ (exec.own => Asking) /\ host' \in Hosts
         /\ host.file \in PlanFiles /\ host.file.plan \in Plans
         /\ job'.at = job.at /\ job'.cmd = job.cmd /\ job'.plan = job.plan
         /\ job'.mode = job.mode /\ job'.snap = job.snap
         /\ job' \in Jobs /\ JobOK' /\ LookOK' /\ spent' \in [Kinds -> Nat]
         /\ \A k \in Kinds : spent[k] <= spent'[k]
         /\ \A k \in Kinds \ {"core"} : spent'[k] = spent[k]
         /\ \/ /\ host'.state = "running" /\ host'.hash = exec.hash
               /\ host'.session = host.born /\ host'.file = host.file
               /\ host'.mode = host.file.mode /\ host'.born = host.born
               /\ noted' = exec.hash /\ accepted' = accepted \cup {host.file.plan}
               /\ exec.own => job'.answer = "done" /\ job'.session = host.born
               /\ UNCHANGED spent
            \/ /\ spent'["core"] > 0
               /\ host'.state = "failed" /\ host'.hash = None
               /\ host'.session = host.session /\ host'.born = host.born
               /\ exec.own => job'.answer = "failed"
               /\ UNCHANGED <<noted, accepted>>
         /\ ~exec.own => job' = job
         /\ UNCHANGED <<phase, seen, attested, wanted, touched, sid, hash, expected, tagged,
                        watching, due, queue, look, cfg, mode, tailnet, budget, next, kept,
                        keptMode, wire, missed, halted, cancelled>>
<1>1. /\ exec.op \in {"start", "reload"} /\ exec' = NoRequest
      /\ UNCHANGED <<phase, seen, attested, wanted, touched, sid, hash, expected, tagged,
                     watching, due, queue, look, cfg, mode, tailnet, budget, next, kept,
                     keptMode, wire, missed, halted, cancelled>>
  BY DEF CoreStarts, shown, intent, session, follow, settings
<1>2. /\ TypeOK /\ "core" \in Kinds /\ spent \in [Kinds -> Nat] /\ host \in Hosts
      /\ host.born \in Nat /\ host.session \in Nat
      /\ host.file \in PlanFiles /\ exec.hash \in Plans
      /\ host.file.plan \in Plans
  BY <1>1 DEF Base, TypeOK, EngineOK, Kinds, Hosts, PlanFiles
<1>3. Held /\ exec \in Requests
  BY <1>1, HolderIs
<1>4. exec.own => Asking
  BY <1>3 DEF OneRequest, Answers
<1>5. CASE /\ host' = Running(host.file, exec.hash, host.born)
           /\ noted' = exec.hash /\ accepted' = accepted \cup {host.file.plan}
           /\ Reply(exec, "done", host.born) /\ UNCHANGED spent
  <2>1. /\ host' \in Hosts /\ host'.state = "running" /\ host'.hash = exec.hash
        /\ host'.session = host.born /\ host'.file = host.file
        /\ host'.mode = host.file.mode /\ host'.born = host.born
    <3>1. Running(host.file, exec.hash, host.born).born = host.born
      BY DEF Running
    <3> QED BY <1>2, <1>5, <3>1, RunningIs
  <2>2. /\ job' \in Jobs /\ JobOK' /\ LookOK'
        /\ job'.at = job.at /\ job'.cmd = job.cmd /\ job'.plan = job.plan
        /\ job'.mode = job.mode /\ job'.snap = job.snap
        /\ exec.own => job'.answer = "done" /\ job'.session = host.born
        /\ ~exec.own => job' = job
    BY <1>1, <1>2, <1>3, <1>4, <1>5, ReplyIs
  <2> QED BY <1>1, <1>2, <1>3, <1>4, <1>5, <2>1, <2>2
<1>6. CASE /\ Spend("core")
           /\ host' = [Stopped(host.born) EXCEPT !.state = "failed", !.session = host.session]
           /\ Reply(exec, "failed", 0)
           /\ UNCHANGED <<noted, accepted>>
  <2>1. /\ host' \in Hosts /\ host'.state = "failed" /\ host'.hash = None
        /\ host'.session = host.session /\ host'.born = host.born
    BY <1>2, <1>6 DEF Stopped, Hosts, States
  <2>2. /\ job' \in Jobs /\ JobOK' /\ LookOK'
        /\ job'.at = job.at /\ job'.cmd = job.cmd /\ job'.plan = job.plan
        /\ job'.mode = job.mode /\ job'.snap = job.snap
        /\ exec.own => job'.answer = "failed"
        /\ ~exec.own => job' = job
    BY <1>1, <1>2, <1>3, <1>4, <1>6, ReplyIs
  <2>3. /\ spent' \in [Kinds -> Nat] /\ spent'["core"] > 0
        /\ \A k \in Kinds : spent[k] <= spent'[k]
        /\ \A k \in Kinds \ {"core"} : spent'[k] = spent[k]
    BY <1>2, <1>6, SpendIs
  <2> QED BY <1>1, <1>2, <1>3, <1>4, <1>6, <2>1, <2>2, <2>3
<1> QED BY <1>5, <1>6 DEF CoreStarts

(* The types are kept.                                                      *)
LEMMA CoreStartsTypes ==
  ASSUME Base, OneRequest, CoreStarts
  PROVE  Base'
<1>1. /\ TypeOK /\ accepted \subseteq Plans /\ noted \in Plans \cup {None}
      /\ host.file \in PlanFiles /\ host.file.plan \in Plans /\ exec.hash \in Plans
      /\ host.file.mode \in Modes
  <2>1. host.file \in PlanFiles => host.file.mode \in Modes
    BY DEF PlanFiles
  <2> QED BY <2>1, CoreStartsIs DEF Base, TypeOK
<1>2. accepted' \subseteq Plans /\ noted' \in Plans \cup {None}
  BY <1>1, CoreStartsIs
<1>3. /\ exec' = NoRequest /\ exec'.op = "none"
      /\ host'.state \in {"running", "failed"}
      /\ host'.state = "running" =>
           host'.file \in PlanFiles /\ host'.hash \in Plans /\ host'.mode \in Modes
  BY <1>1, CoreStartsIs, HolderIs
<1> QED BY <1>1, <1>2, <1>3, CoreStartsIs, HostKeeps

(* The engine begins to stop.                                               *)
LEMMA StopBeginsIs ==
  ASSUME Base, NEW r, StopBegins(r)
  PROVE  /\ r \in wire /\ r \in Requests /\ r.op = "stop" /\ ~Held
         /\ wire' = wire \ {r} /\ exec' = r
         /\ host' \in Hosts /\ host'.state = "stopping" /\ host'.hash = host.hash
         /\ host'.session = host.session /\ host'.born = host.born /\ host'.file = host.file
         /\ UNCHANGED <<phase, seen, attested, wanted, touched, sid, hash, expected, tagged,
                        watching, due, queue, job, look, cfg, mode, tailnet, budget, next,
                        kept, noted, keptMode, accepted, missed, halted, cancelled, spent>>
         /\ Base'
<1>1. /\ r \in wire /\ r.op = "stop" /\ exec = NoRequest /\ wire' = wire \ {r} /\ exec' = r
      /\ host' = [host EXCEPT !.state = "stopping"]
      /\ UNCHANGED <<phase, seen, attested, wanted, touched, sid, hash, expected, tagged,
                     watching, due, queue, job, look, cfg, mode, tailnet, budget, next,
                     kept, noted, keptMode, accepted, missed, halted, cancelled, spent>>
  BY DEF StopBegins, shown, intent, session, follow, settings, files, history
<1>2. /\ TypeOK /\ JobOK /\ LookOK /\ host \in Hosts /\ r \in Requests /\ ~Held
      /\ job \in Jobs /\ noted \in Plans \cup {None} /\ accepted \subseteq Plans
      /\ spent \in [Kinds -> Nat]
  BY <1>1 DEF Base, TypeOK, Held
<1>3. /\ host' \in Hosts /\ host'.state = "stopping" /\ host'.hash = host.hash
      /\ host'.session = host.session /\ host'.born = host.born /\ host'.file = host.file
  BY <1>1, <1>2 DEF Hosts, States
<1>4. JobOK' /\ LookOK'
  BY <1>1, <1>2 DEF JobOK, LookOK
<1>5. Base'
  BY <1>1, <1>2, <1>3, <1>4, HostKeeps
<1> QED BY <1>1, <1>2, <1>3, <1>5

(* The engine has stopped.                                                  *)
LEMMA StopEndsIs ==
  ASSUME Base, OneRequest, StopEnds
  PROVE  /\ Held /\ exec \in Requests /\ exec.op = "stop" /\ exec' = NoRequest
         /\ exec.own => Asking /\ job'.answer = "done"
         /\ ~exec.own => job' = job
         /\ host' = Stopped(host.born) /\ host.born \in Nat
         /\ job'.at = job.at /\ job'.cmd = job.cmd /\ job'.plan = job.plan
         /\ job'.mode = job.mode /\ job'.snap = job.snap
         /\ UNCHANGED <<phase, seen, attested, wanted, touched, sid, hash, expected, tagged,
                        watching, due, queue, look, cfg, mode, tailnet, budget, next, kept,
                        noted, keptMode, wire, accepted, missed, halted, cancelled, spent>>
         /\ Base'
<1>1. /\ exec.op = "stop" /\ exec' = NoRequest /\ host' = Stopped(host.born)
      /\ Reply(exec, "done", 0)
      /\ UNCHANGED <<phase, seen, attested, wanted, touched, sid, hash, expected, tagged,
                     watching, due, queue, look, cfg, mode, tailnet, budget, next, kept,
                     noted, keptMode, wire, accepted, missed, halted, cancelled, spent>>
  BY DEF StopEnds, shown, intent, session, follow, settings, files, history
<1>2. Held /\ exec \in Requests
  BY <1>1, HolderIs
<1>3. exec.own => Asking
  BY <1>2 DEF OneRequest, Answers
<1>4. /\ TypeOK /\ host.born \in Nat /\ noted \in Plans \cup {None} /\ accepted \subseteq Plans
      /\ spent \in [Kinds -> Nat]
  BY DEF Base, TypeOK, Hosts
<1>5. /\ job' \in Jobs /\ JobOK' /\ LookOK'
      /\ job'.at = job.at /\ job'.cmd = job.cmd /\ job'.plan = job.plan
      /\ job'.mode = job.mode /\ job'.snap = job.snap
      /\ exec.own => job'.answer = "done"
      /\ ~exec.own => job' = job
  BY <1>1, <1>2, <1>3, ReplyIs
<1>6. host' \in Hosts /\ host'.state = "stopped"
  BY <1>1, <1>4, StoppedIs
<1>7. Base'
  BY <1>1, <1>2, <1>4, <1>5, <1>6, HostKeeps, HolderIs
<1> QED BY <1>1, <1>2, <1>3, <1>4, <1>5, <1>7

(* A request to switch the mode is answered at once.                        *)
LEMMA SetModeIs ==
  ASSUME Base, OneRequest, NEW r, SetMode(r)
  PROVE  /\ r \in wire /\ r \in Requests /\ r.op = "setMode" /\ wire' = wire \ {r}
         /\ r.own => Asking
         /\ r.own => job'.answer = IF InSession(r) THEN "done" ELSE "failed"
         /\ ~r.own => job' = job
         /\ host' \in Hosts /\ host'.state = host.state /\ host'.session = host.session
         /\ host'.hash = host.hash /\ host'.file = host.file /\ host'.born = host.born
         /\ job'.at = job.at /\ job'.cmd = job.cmd /\ job'.plan = job.plan
         /\ job'.mode = job.mode /\ job'.snap = job.snap
         /\ UNCHANGED <<phase, seen, attested, wanted, touched, sid, hash, expected, tagged,
                        watching, due, queue, look, cfg, mode, tailnet, budget, next, kept,
                        noted, keptMode, exec, accepted, missed, halted, cancelled, spent>>
         /\ Base'
<1>1. /\ r \in wire /\ r.op = "setMode" /\ wire' = wire \ {r}
      /\ UNCHANGED <<phase, seen, attested, wanted, touched, sid, hash, expected, tagged,
                     watching, due, queue, look, cfg, mode, tailnet, budget, next, kept,
                     noted, keptMode, exec, accepted, missed, halted, cancelled, spent>>
  BY DEF SetMode, shown, intent, session, follow, settings, files
<1>2. /\ TypeOK /\ EngineOK /\ r \in Requests /\ r.mode \in Modes /\ host \in Hosts
      /\ noted \in Plans \cup {None} /\ accepted \subseteq Plans /\ spent \in [Kinds -> Nat]
      /\ exec \in Requests \cup {NoRequest}
  BY <1>1 DEF Base, TypeOK, EngineOK
<1>3. r.own => Asking
  BY <1>1 DEF OneRequest, Answers
<1>4. /\ host' \in Hosts /\ host'.state = host.state /\ host'.session = host.session
      /\ host'.hash = host.hash /\ host'.file = host.file /\ host'.born = host.born
      /\ host'.mode \in {host.mode, r.mode}
  <2>1. UNCHANGED host \/ host' = [host EXCEPT !.mode = r.mode]
    BY DEF SetMode
  <2> QED BY <1>2, <2>1 DEF Hosts
<1>5. \/ ~InSession(r) /\ Reply(r, "failed", 0)
      \/ InSession(r) /\ Reply(r, "done", 0)
  BY DEF SetMode
<1>6. /\ job' \in Jobs /\ JobOK' /\ LookOK'
      /\ job'.at = job.at /\ job'.cmd = job.cmd /\ job'.plan = job.plan
      /\ job'.mode = job.mode /\ job'.snap = job.snap
      /\ r.own => job'.answer = IF InSession(r) THEN "done" ELSE "failed"
      /\ ~r.own => job' = job
  <2>1. CASE ~InSession(r)
    BY <1>1, <1>2, <1>3, <1>5, <2>1, ReplyIs
  <2>2. CASE InSession(r)
    BY <1>1, <1>2, <1>3, <1>5, <2>2, ReplyIs
  <2> QED BY <2>1, <2>2
<1>7. Base'
  BY <1>1, <1>2, <1>4, <1>6, HostKeeps DEF EngineOK
<1> QED BY <1>1, <1>2, <1>3, <1>4, <1>6, <1>7

(* The host stops by itself.                                                *)
LEMMA HostStopsIs ==
  ASSUME Base, HostStops
  PROVE  /\ ~Held /\ Up /\ host' = Stopped(host.born) /\ host.born \in Nat
         /\ spent' \in [Kinds -> Nat] /\ spent'["hostStop"] > 0
         /\ \A k \in Kinds : spent[k] <= spent'[k]
         /\ \A k \in Kinds \ {"hostStop"} : spent'[k] = spent[k]
         /\ UNCHANGED <<phase, seen, attested, wanted, touched, sid, hash, expected, tagged,
                        watching, due, queue, job, look, cfg, mode, tailnet, budget, next,
                        kept, noted, keptMode, exec, wire, accepted, missed, halted,
                        cancelled>>
         /\ Base'
<1>1. /\ Spend("hostStop") /\ exec = NoRequest /\ host.state = "running"
      /\ host' = Stopped(host.born)
      /\ UNCHANGED <<phase, seen, attested, wanted, touched, sid, hash, expected, tagged,
                     watching, due, queue, job, look, cfg, mode, tailnet, budget, next,
                     kept, noted, keptMode, exec, wire, accepted, missed, halted,
                     cancelled>>
  BY DEF HostStops, shown, intent, session, follow, settings, files, history
<1>2. /\ TypeOK /\ JobOK /\ LookOK /\ host.born \in Nat /\ ~Held /\ "hostStop" \in Kinds
      /\ job \in Jobs /\ noted \in Plans \cup {None} /\ accepted \subseteq Plans
  BY <1>1 DEF Base, TypeOK, Held, Kinds, Hosts
<1>3. /\ spent' \in [Kinds -> Nat] /\ spent'["hostStop"] > 0
      /\ \A k \in Kinds : spent[k] <= spent'[k]
      /\ \A k \in Kinds \ {"hostStop"} : spent'[k] = spent[k]
  BY <1>1, <1>2, SpendIs
<1>4. host' \in Hosts /\ host'.state = "stopped" /\ exec' = NoRequest /\ exec'.op = "none"
  BY <1>1, <1>2, StoppedIs, HolderIs
<1>5. JobOK' /\ LookOK'
  BY <1>1, <1>2 DEF JobOK, LookOK
<1>6. Base'
  BY <1>1, <1>2, <1>3, <1>4, <1>5, HostKeeps
<1> QED BY <1>1, <1>2, <1>3, <1>6 DEF Up

(* The system starts the last plan again.                                   *)
LEMMA RestoreIs ==
  ASSUME Base, Restore
  PROVE  /\ ~Held /\ host' = Running(kept, noted, host.born + 1) /\ host.born \in Nat
         /\ kept \in PlanFiles /\ noted \in Plans /\ ~Up
         /\ accepted' = accepted \cup {kept.plan}
         /\ spent' \in [Kinds -> Nat] /\ spent'["hostStart"] > 0
         /\ \A k \in Kinds : spent[k] <= spent'[k]
         /\ \A k \in Kinds \ {"hostStart"} : spent'[k] = spent[k]
         /\ UNCHANGED <<phase, seen, attested, wanted, touched, sid, hash, expected, tagged,
                        watching, due, queue, job, look, cfg, mode, tailnet, budget, next,
                        kept, noted, keptMode, exec, wire, missed, halted, cancelled>>
         /\ Base'
<1>1. /\ Spend("hostStart") /\ exec = NoRequest /\ host.state \in {"stopped", "failed"}
      /\ kept # None /\ noted # None
      /\ host' = Running(kept, noted, host.born + 1)
      /\ accepted' = accepted \cup {kept.plan}
      /\ UNCHANGED <<phase, seen, attested, wanted, touched, sid, hash, expected, tagged,
                     watching, due, queue, job, look, cfg, mode, tailnet, budget, next,
                     kept, noted, keptMode, exec, wire, missed, halted, cancelled>>
  BY DEF Restore, shown, intent, session, follow, settings, files
<1>2. /\ TypeOK /\ JobOK /\ LookOK /\ host.born \in Nat /\ ~Held /\ "hostStart" \in Kinds
      /\ job \in Jobs /\ noted \in Plans /\ kept \in PlanFiles /\ accepted \subseteq Plans
  BY <1>1 DEF Base, TypeOK, Held, Kinds, Hosts
<1>3. /\ spent' \in [Kinds -> Nat] /\ spent'["hostStart"] > 0
      /\ \A k \in Kinds : spent[k] <= spent'[k]
      /\ \A k \in Kinds \ {"hostStart"} : spent'[k] = spent[k]
  BY <1>1, <1>2, SpendIs
<1>4. host.born + 1 \in Nat
  BY <1>2
<1>5. /\ host' \in Hosts /\ host'.state = "running" /\ host'.file = kept
      /\ host'.hash = noted /\ host'.mode \in Modes /\ kept.plan \in Plans
      /\ exec' = NoRequest /\ exec'.op = "none"
  BY <1>1, <1>2, <1>4, RunningIs, HolderIs
<1>6. JobOK' /\ LookOK' /\ accepted' \subseteq Plans
  BY <1>1, <1>2, <1>5 DEF JobOK, LookOK
<1>7. Base'
  BY <1>1, <1>2, <1>3, <1>5, <1>6, HostKeeps
<1> QED BY <1>1, <1>2, <1>3, <1>7 DEF Up

(* The panel switches the mode.                                             *)
LEMMA PanelSetsIs ==
  ASSUME Base, NEW m \in Modes, PanelSets(m)
  PROVE  /\ host' \in Hosts /\ host'.state = host.state /\ host'.session = host.session
         /\ host'.hash = host.hash /\ host'.file = host.file /\ host'.born = host.born
         /\ spent' \in [Kinds -> Nat]
         /\ \A k \in Kinds : spent[k] <= spent'[k]
         /\ \A k \in Kinds \ {"panel"} : spent'[k] = spent[k]
         /\ UNCHANGED <<phase, seen, attested, wanted, touched, sid, hash, expected, tagged,
                        watching, due, queue, job, look, cfg, mode, tailnet, budget, next,
                        kept, noted, keptMode, exec, wire, accepted, missed, halted,
                        cancelled>>
         /\ Base'
<1>1. /\ Spend("panel") /\ host' = [host EXCEPT !.mode = m]
      /\ UNCHANGED <<phase, seen, attested, wanted, touched, sid, hash, expected, tagged,
                     watching, due, queue, job, look, cfg, mode, tailnet, budget, next,
                     kept, noted, keptMode, exec, wire, accepted, missed, halted,
                     cancelled>>
  BY DEF PanelSets, shown, intent, session, follow, settings, files
<1>2. /\ TypeOK /\ JobOK /\ LookOK /\ EngineOK /\ host \in Hosts /\ "panel" \in Kinds
      /\ job \in Jobs /\ noted \in Plans \cup {None} /\ accepted \subseteq Plans
      /\ exec \in Requests \cup {NoRequest}
  BY DEF Base, TypeOK, Kinds
<1>3. /\ spent' \in [Kinds -> Nat]
      /\ \A k \in Kinds : spent[k] <= spent'[k]
      /\ \A k \in Kinds \ {"panel"} : spent'[k] = spent[k]
  BY <1>1, <1>2, SpendIs
<1>4. /\ host' \in Hosts /\ host'.state = host.state /\ host'.session = host.session
      /\ host'.hash = host.hash /\ host'.file = host.file /\ host'.born = host.born
      /\ host'.mode = m
  BY <1>1, <1>2 DEF Hosts
<1>5. JobOK' /\ LookOK'
  BY <1>1, <1>2 DEF JobOK, LookOK
<1>6. Base'
  BY <1>1, <1>2, <1>3, <1>4, <1>5, HostKeeps DEF EngineOK
<1> QED BY <1>1, <1>3, <1>4, <1>6

(* The requests left behind keep what they ask for.                         *)
LEMMA OrphansAre ==
  ASSUME Base, NEW w, w = {Orphan(r) : r \in wire} \/ w = {r \in wire : ~r.own}
  PROVE  /\ w \subseteq Requests
         /\ \A q \in w : ~q.own
         /\ \A q \in w : \E r \in wire :
              q.op = r.op /\ q.sid = r.sid /\ q.hash = r.hash /\ q.mode = r.mode
<1>1. wire \subseteq Requests
  BY DEF Base, TypeOK
<1>2. CASE w = {r \in wire : ~r.own}
  BY <1>1, <1>2
<1>3. CASE w = {Orphan(r) : r \in wire}
  <2>1. ASSUME NEW q \in w
        PROVE  /\ q \in Requests /\ ~q.own
               /\ \E r \in wire : q.op = r.op /\ q.sid = r.sid /\ q.hash = r.hash /\ q.mode = r.mode
    <3>1. PICK r \in wire : q = Orphan(r)
      BY <1>3, <2>1
    <3>2. r \in Requests
      BY <1>1
    <3>3. /\ Orphan(r) \in Requests /\ Orphan(r).op = r.op /\ Orphan(r).sid = r.sid
          /\ Orphan(r).hash = r.hash /\ Orphan(r).mode = r.mode /\ ~Orphan(r).own
      BY <3>2, OrphanIs
    <3> QED BY <3>1, <3>3
  <2> QED BY <2>1
<1> QED BY <1>2, <1>3

(* So does the one that holds the lock.                                     *)
LEMMA HolderOrphanIs ==
  ASSUME Base, exec' = Orphan(exec)
  PROVE  /\ exec' \in Requests \cup {NoRequest} /\ exec'.op = exec.op
         /\ Held' <=> Held
         /\ Held => exec'.hash = exec.hash /\ ~exec'.own
<1>1. exec \in Requests \cup {NoRequest}
  BY DEF Base, TypeOK
<1>2. CASE exec = NoRequest
  <2>1. exec' = NoRequest
    BY <1>1, <1>2, OrphanIs
  <2> QED BY <1>1, <1>2, <2>1 DEF Held
<1>3. CASE exec # NoRequest
  <2>1. exec \in Requests
    BY <1>1, <1>3
  <2>2. /\ exec' \in Requests /\ exec'.op = exec.op /\ exec'.hash = exec.hash /\ ~exec'.own
    BY <2>1, OrphanIs
  <2>3. exec' # NoRequest
    BY <2>2, HolderIs
  <2> QED BY <1>3, <2>2, <2>3 DEF Held
<1> QED BY <1>2, <1>3

(* An answer is lost.                                                       *)
LEMMA AnswerLostIs ==
  ASSUME Base, AnswerLost
  PROVE  /\ HostException /\ job.at \in {"read", "compare", "await"}
         /\ job'.at \notin {"await"}
         /\ wire' \subseteq Requests
         /\ \A q \in wire' : ~q.own
         /\ exec'.op = exec.op /\ (Held' <=> Held) /\ (Held => exec'.hash = exec.hash /\ ~exec'.own)
         /\ spent' \in [Kinds -> Nat] /\ spent'["answer"] > 0
         /\ \A k \in Kinds : spent[k] <= spent'[k]
         /\ \A k \in Kinds \ {"answer"} : spent'[k] = spent[k]
         /\ UNCHANGED <<wanted, touched, queue, cfg, mode, tailnet, budget, next, kept, noted,
                        keptMode, host, accepted, missed, halted, cancelled>>
         /\ Base'
<1>1. /\ Spend("answer") /\ job.at \in {"read", "compare", "await"} /\ HostException
      /\ wire' = {Orphan(r) : r \in wire} \/ wire' = {r \in wire : ~r.own}
      /\ exec' = Orphan(exec)
      /\ UNCHANGED <<wanted, touched, queue, cfg, mode, tailnet, budget, next, kept, noted,
                     keptMode, host, accepted, missed, halted, cancelled>>
  BY DEF AnswerLost, intent, settings, files, history
<1>2. /\ TypeOK /\ EngineOK /\ "answer" \in Kinds
  BY DEF Base, Kinds
<1>3. /\ spent' \in [Kinds -> Nat] /\ spent'["answer"] > 0
      /\ \A k \in Kinds : spent[k] <= spent'[k]
      /\ \A k \in Kinds \ {"answer"} : spent'[k] = spent[k]
  BY <1>1, <1>2, SpendIs
<1>4. /\ wire' \subseteq Requests
      /\ \A q \in wire' : ~q.own
      /\ \A q \in wire' : \E r \in wire :
              q.op = r.op /\ q.sid = r.sid /\ q.hash = r.hash /\ q.mode = r.mode
  BY <1>1, OrphansAre
<1>5. /\ exec' \in Requests \cup {NoRequest} /\ exec'.op = exec.op
      /\ Held' <=> Held
      /\ Held => exec'.hash = exec.hash /\ ~exec'.own
  BY <1>1, HolderOrphanIs
<1>6. EngineOK'
  <2>1. \A q \in wire' : (q.op \in {"start", "reload"} => q.hash \in Plans)
                         /\ (q.op = "setMode" => q.mode \in Modes)
    BY <1>2, <1>4 DEF EngineOK
  <2>2. exec.op \in {"start", "reload"} => exec'.hash = exec.hash
    BY <1>5, HolderIs
  <2> QED BY <1>1, <1>2, <1>5, <2>1, <2>2 DEF EngineOK
<1>7. /\ job' \in Jobs /\ JobOK' /\ look' \in Looks /\ LookOK' /\ job'.at # "await"
      /\ seen' = seen /\ phase' \in {"stopped", "running"} \cup BusyPhases
      /\ attested' \in Plans \cup {None} /\ sid' \in Nat /\ hash' \in Plans \cup {None}
      /\ expected' \in Modes \cup {None} /\ tagged' \in BOOLEAN
      /\ watching' \in BOOLEAN /\ due' \in BOOLEAN
  <2>1. CASE /\ job.cmd = "attach" /\ Ended
             /\ UNCHANGED <<phase, attested, sid, hash, expected, tagged, watching, due>>
    <3>1. seen' = seen /\ job' \in Jobs /\ JobOK' /\ look' \in Looks /\ LookOK'
      BY <1>1, <2>1, EndedTypes, ExceptionIs
    <3>2. job'.at # "await"
      BY <2>1, EndedTypes, IdleIs
    <3> QED BY <1>2, <2>1, <3>1, <3>2 DEF TypeOK
  <2>2. CASE job.cmd = "start" /\ ShowStopped /\ Ended
    <3>1. watching' \in BOOLEAN /\ due' \in BOOLEAN /\ tagged' \in BOOLEAN
      BY <2>2, Zenon DEF ShowStopped
    <3>2. seen' = seen /\ job' \in Jobs /\ JobOK' /\ look' \in Looks /\ LookOK'
      BY <1>1, <2>2, EndedTypes, ExceptionIs
    <3>3. job'.at # "await"
      BY <2>2, EndedTypes, IdleIs
    <3> QED BY <1>2, <2>2, <3>1, <3>2, <3>3, ShowStoppedIs DEF TypeOK, BusyPhases
  <2>3. CASE /\ job.cmd \in {"reload", "switch", "stop"} /\ phase' \in {phase, "running"}
             /\ job' = [job EXCEPT !.at = "refresh"]
             /\ UNCHANGED <<attested, sid, hash, expected, tagged, watching, due, look>>
    <3>1. job.at \in {"await", "compare"}
      BY <1>1, <2>3 DEF Base, JobOK
    <3> QED BY <1>1, <1>2, <2>3, <3>1, RefreshTypes, ExceptionIs DEF TypeOK
  <2> QED BY <1>1, <2>1, <2>2, <2>3, ExceptionIs
<1>8. TypeOK'
  BY <1>1, <1>2, <1>3, <1>4, <1>5, <1>7 DEF TypeOK
<1> QED BY <1>1, <1>3, <1>4, <1>5, <1>6, <1>7, <1>8 DEF Base

(* The application is opened again.                                         *)
LEMMA ReopenIs ==
  ASSUME Base, Reopen
  PROVE  /\ phase' = "stopped" /\ attested' = None /\ ~wanted' /\ ~touched'
         /\ sid' = 0 /\ hash' = None /\ expected' = None /\ ~watching' /\ ~due'
         /\ queue' = <<"attach">> /\ job' = Idle /\ look' = NoLook /\ ~missed' /\ ~cancelled'
         /\ \A q \in wire' : ~q.own
         /\ exec'.op = exec.op /\ (Held' <=> Held) /\ (Held => exec'.hash = exec.hash /\ ~exec'.own)
         /\ spent' \in [Kinds -> Nat] /\ spent'["crash"] > 0
         /\ \A k \in Kinds : spent[k] <= spent'[k]
         /\ \A k \in Kinds \ {"crash"} : spent'[k] = spent[k]
         /\ UNCHANGED <<cfg, mode, tailnet, budget, next, kept, noted, host, accepted, halted>>
         /\ Base'
<1>1. /\ Spend("crash")
      /\ phase' = "stopped" /\ attested' = None
      /\ seen' = [hash |-> None, proxy |-> TRUE]
      /\ wanted' = FALSE /\ touched' = FALSE
      /\ sid' = 0 /\ hash' = None /\ expected' = None /\ tagged' = FALSE /\ keptMode' = None
      /\ watching' = FALSE /\ due' = FALSE
      /\ queue' = <<"attach">> /\ job' = Idle /\ look' = NoLook
      /\ missed' = FALSE /\ cancelled' = FALSE
      /\ wire' = {Orphan(r) : r \in wire} /\ exec' = Orphan(exec)
      /\ UNCHANGED <<cfg, mode, tailnet, budget, next, kept, noted, host, accepted, halted>>
  BY DEF Reopen, settings
<1>2. /\ TypeOK /\ EngineOK /\ "crash" \in Kinds
  BY DEF Base, Kinds
<1>3. /\ spent' \in [Kinds -> Nat] /\ spent'["crash"] > 0
      /\ \A k \in Kinds : spent[k] <= spent'[k]
      /\ \A k \in Kinds \ {"crash"} : spent'[k] = spent[k]
  BY <1>1, <1>2, SpendIs
<1>4. /\ wire' \subseteq Requests
      /\ \A q \in wire' : ~q.own
      /\ \A q \in wire' : \E r \in wire :
              q.op = r.op /\ q.sid = r.sid /\ q.hash = r.hash /\ q.mode = r.mode
  BY <1>1, OrphansAre
<1>5. /\ exec' \in Requests \cup {NoRequest} /\ exec'.op = exec.op
      /\ Held' <=> Held
      /\ Held => exec'.hash = exec.hash /\ ~exec'.own
  BY <1>1, HolderOrphanIs
<1>6. EngineOK'
  <2>1. \A q \in wire' : (q.op \in {"start", "reload"} => q.hash \in Plans)
                         /\ (q.op = "setMode" => q.mode \in Modes)
    BY <1>2, <1>4 DEF EngineOK
  <2>2. exec.op \in {"start", "reload"} => exec'.hash = exec.hash
    BY <1>5, HolderIs
  <2> QED BY <1>1, <1>2, <1>5, <2>1, <2>2 DEF EngineOK
<1>7. JobOK' /\ LookOK' /\ job' \in Jobs /\ look' \in Looks
  BY <1>1, IdleIs, NoLookIs DEF JobOK, LookOK
<1>8. /\ wanted' \in BOOLEAN /\ touched' \in BOOLEAN /\ tagged' \in BOOLEAN
      /\ watching' \in BOOLEAN /\ due' \in BOOLEAN /\ missed' \in BOOLEAN
      /\ cancelled' \in BOOLEAN /\ ~wanted' /\ ~touched' /\ ~watching' /\ ~due' /\ ~missed'
      /\ ~cancelled'
  BY <1>1, Zenon
<1>9. queue' \in Seq(Commands) /\ seen' \in [hash : Plans \cup {None}, proxy : BOOLEAN]
  BY <1>1 DEF Commands
<1>10. TypeOK'
  BY <1>1, <1>2, <1>3, <1>4, <1>5, <1>7, <1>8, <1>9 DEF TypeOK
<1> QED BY <1>1, <1>3, <1>4, <1>5, <1>6, <1>7, <1>8, <1>10 DEF Base

(* Nothing happens.                                                         *)
LEMMA StutterTypes ==
  ASSUME Base, UNCHANGED vars
  PROVE  Base'
BY DEF Base, TypeOK, JobOK, LookOK, EngineOK, vars, shown, intent, session, follow, settings,
       files, engine, history

(* Every step keeps the types and what belongs together.                    *)
LEMMA BaseStep ==
  ASSUME Base, OneRequest, [Next]_vars
  PROVE  Base'
<1>1. CASE Coordinator
  BY <1>1, BeginTypes, AttachReadsTypes, AttachAdoptsTypes, ConsentTypes, CompileTypes,
     WritePlanTypes, CompareTypes, SucceededTypes, RefusedTypes, FollowUpTypes, ReceiveTypes,
     WriteBackTypes, EndTypes, DebouncedTypes DEF Coordinator
<1>2. CASE Bridge
  BY <1>2, ServeTypes, CoreStartsTypes, StopEndsIs, TakeUpTypes, StopBeginsIs, SetModeIs
     DEF Bridge
<1>3. CASE User
  BY <1>3, ToggleTypes, StopAllTypes, SetTailnetTypes, EditTypes, ChooseTypes DEF User
<1>4. CASE Environment
  BY <1>4, HostStopsIs, RestoreIs, PanelSetsIs, AnswerLostIs, QueryFailsTypes,
     DiskFailsTypes, ReopenIs DEF Environment
<1>5. CASE Poll
  BY <1>5, PollTypes
<1>6. CASE UNCHANGED vars
  BY <1>6, StutterTypes
<1> QED BY <1>1, <1>2, <1>3, <1>4, <1>5, <1>6 DEF Next

(* Where everything begins.                                                 *)
LEMMA InitIs ==
  ASSUME Init
  PROVE  /\ phase = "stopped" /\ attested = None /\ ~wanted /\ ~touched
         /\ sid = 0 /\ hash = None /\ expected = None /\ ~watching /\ ~due
         /\ queue = <<"attach">> /\ job = Idle /\ look = NoLook
         /\ ~missed /\ ~halted /\ ~cancelled
         /\ wire = {} /\ exec = NoRequest /\ ~Held /\ next = None
         /\ \A k \in Kinds : spent[k] = 0
         /\ kept # None => kept \in PlanFiles /\ kept.plan \in accepted /\ noted = kept.plan
         /\ kept = None => noted = None
         /\ host \in Hosts
         /\ \/ host.state = "stopped" /\ host.hash = None
            \/ /\ kept # None /\ host.state = "running" /\ host.hash = noted
               /\ host.file = kept
<1>1. /\ phase = "stopped" /\ attested = None /\ wanted = FALSE /\ touched = FALSE
      /\ sid = 0 /\ hash = None /\ expected = None /\ watching = FALSE /\ due = FALSE
      /\ queue = <<"attach">> /\ job = Idle /\ look = NoLook
      /\ missed = FALSE /\ halted = FALSE /\ cancelled = FALSE
      /\ wire = {} /\ exec = NoRequest /\ next = None
      /\ spent = [k \in Kinds |-> 0]
      /\ cfg \in Cfgs /\ mode \in Modes
      /\ kept \in {None, [plan |-> [proxy |-> TRUE, tailnet |-> FALSE, cfg |-> cfg],
                          mode |-> mode]}
      /\ noted = IF kept = None THEN None ELSE kept.plan
      /\ host \in {Stopped(0)} \cup (IF kept = None THEN {} ELSE {Running(kept, noted, 1)})
      /\ accepted = IF kept = None THEN {} ELSE {kept.plan}
  BY DEF Init
<1>2. ~wanted /\ ~touched /\ ~watching /\ ~due /\ ~missed /\ ~halted /\ ~cancelled
  BY <1>1, Zenon
<1>3. kept # None => kept \in PlanFiles /\ kept.plan \in Plans
  <2>1. PICK p : p = [proxy |-> TRUE, tailnet |-> FALSE, cfg |-> cfg]
    OBVIOUS
  <2>2. p \in Plans
    BY <1>1, <2>1 DEF Plans
  <2>3. kept # None => kept = [plan |-> p, mode |-> mode]
    BY <1>1, <2>1, Zenon
  <2> QED BY <1>1, <2>2, <2>3 DEF PlanFiles
<1>4. kept # None => kept.plan \in accepted /\ noted = kept.plan
  BY <1>1
<1>5. \/ host \in Hosts /\ host.state = "stopped" /\ host.hash = None
      \/ /\ host \in Hosts /\ kept # None /\ host.state = "running" /\ host.hash = noted
         /\ host.file = kept
  <2>1. CASE host = Stopped(0)
    BY <2>1, StoppedIs
  <2>2. CASE kept # None /\ host = Running(kept, noted, 1)
    BY <1>3, <1>4, <2>2, RunningIs
  <2> QED BY <1>1, <2>1, <2>2
<1> QED BY <1>1, <1>2, <1>3, <1>4, <1>5 DEF Held

(* It begins well typed.                                                    *)
LEMMA BaseInit ==
  ASSUME Init
  PROVE  Base
<1>1. /\ seen = [hash |-> None, proxy |-> TRUE] /\ keptMode = None /\ next = None
      /\ tagged = FALSE /\ tailnet = FALSE /\ cfg \in Cfgs /\ mode \in Modes
      /\ budget \in Budgets /\ spent = [k \in Kinds |-> 0]
      /\ accepted = IF kept = None THEN {} ELSE {kept.plan}
      /\ wanted = FALSE /\ touched = FALSE /\ watching = FALSE /\ due = FALSE
      /\ missed = FALSE /\ halted = FALSE /\ cancelled = FALSE
  BY DEF Init
<1>2. /\ wanted \in BOOLEAN /\ touched \in BOOLEAN /\ watching \in BOOLEAN /\ due \in BOOLEAN
      /\ missed \in BOOLEAN /\ halted \in BOOLEAN /\ cancelled \in BOOLEAN
      /\ tagged \in BOOLEAN /\ tailnet \in BOOLEAN
  BY <1>1, Zenon
<1>3. budget \in [Kinds -> Nat] /\ spent \in [Kinds -> Nat]
  BY <1>1, ConstantsAssumption
<1>4. kept \in PlanFiles \cup {None} /\ noted \in Plans \cup {None} /\ accepted \subseteq Plans
  BY <1>1, InitIs DEF PlanFiles
<1>5. exec = NoRequest /\ exec.op = "none"
  BY InitIs DEF NoRequest
<1>6. TypeOK
  <2>1. queue \in Seq(Commands)
    <3>1. queue = <<"attach">>
      BY InitIs
    <3> QED BY <3>1 DEF Commands
  <2>3. seen \in [hash : Plans \cup {None}, proxy : BOOLEAN]
    BY <1>1
  <2>2. job \in Jobs /\ look \in Looks /\ wire \subseteq Requests /\ sid \in Nat
    BY InitIs, IdleIs, NoLookIs
  <2> QED BY <1>1, <1>2, <1>3, <1>4, <1>5, <2>1, <2>2, <2>3, InitIs DEF TypeOK
<1>7. JobOK /\ LookOK
  BY InitIs, IdleIs, NoLookIs DEF JobOK, LookOK
<1>8. EngineOK
  <2>1. kept # None => kept.plan \in Plans /\ kept.mode \in Modes
    BY <1>4, InitIs DEF PlanFiles
  <2>2. host.state = "running" => host.mode \in Modes
    <3>1. CASE host = Stopped(0)
      BY <3>1, StoppedIs
    <3>2. CASE kept # None /\ host = Running(kept, noted, 1)
      BY <2>1, <3>2, InitIs, RunningIs
    <3> QED BY <3>1, <3>2 DEF Init
  <2> QED BY <1>4, <1>5, <2>1, <2>2, InitIs DEF EngineOK
<1> QED BY <1>6, <1>7, <1>8 DEF Base

-----------------------------------------------------------------------------
(* What each step does, piece by piece.                                     *)

(* The request that goes out, its sender waiting for the answer.            *)
Sent(op, h, m) == [op |-> op, sid |-> sid, hash |-> h, mode |-> m, own |-> TRUE]

(* A request carries the session the coordinator knows.                     *)
LEMMA SentIs ==
  ASSUME Base, NEW op \in {"start", "reload", "stop", "setMode"},
         NEW h \in Plans \cup {None}, NEW m \in Modes \cup {None}
  PROVE  /\ Sent(op, h, m) \in Requests
         /\ Sent(op, h, m).op = op /\ Sent(op, h, m).sid = sid /\ Sent(op, h, m).hash = h
         /\ Sent(op, h, m).mode = m /\ Sent(op, h, m).own
         /\ Send(op, h, m) <=> wire' = wire \cup {Sent(op, h, m)}
<1>1. sid \in Nat
  BY DEF Base, TypeOK
<1> QED BY <1>1 DEF Sent, Send, Requests

(* A command that ended.                                                    *)
LEMMA EndedIs ==
  ASSUME Base, Ended
  PROVE  /\ job' = Idle /\ job'.at = "idle" /\ job'.cmd = "none" /\ job'.answer = "none"
         /\ job'.plan = None /\ job'.snap.hash = None
         /\ look'.at = look.at /\ ~look'.fresh /\ look'.snap = look.snap
BY IdleIs, StaledIs DEF Ended

(* The next command begins.                                                 *)
LEMMA BeginIs ==
  ASSUME Base, Begin
  PROVE  /\ job = Idle /\ queue # <<>> /\ queue' = Tail(queue)
         /\ look'.at = look.at /\ ~look'.fresh /\ look'.snap = look.snap
         /\ job'.answer = "none" /\ job'.plan = None /\ job'.snap.hash = None
         /\ \/ /\ Head(queue) = "attach"
               /\ job'.cmd = "attach" /\ job'.at = "read" /\ job' # Idle
               /\ UNCHANGED <<phase, wire>>
            \/ /\ Head(queue) # "attach"
               /\ phase = "running"
               /\ job'.cmd = "sync" /\ job'.at = "compile" /\ job' # Idle
               /\ UNCHANGED <<phase, wire>>
            \/ /\ Head(queue) # "attach"
               /\ job' = Idle /\ job'.cmd = "none" /\ job'.at = "idle"
               /\ phase # "running"
               /\ UNCHANGED <<phase, wire>>
            \/ /\ Head(queue) \in {"connect", "tailnetOn", "tailnetOff"}
               /\ ~Connected(phase) /\ (wanted \/ tailnet)
               /\ phase' = "starting" /\ UNCHANGED wire
               /\ job'.cmd = "start" /\ job'.at = "consent" /\ job' # Idle
            \/ /\ Head(queue) # "attach"
               /\ phase # "stopped" /\ phase' = "stopping"
               /\ wire' = wire \cup {Sent("stop", None, None)}
               /\ job'.cmd = "stop" /\ job'.at = "await" /\ job' # Idle
         /\ UNCHANGED <<seen, attested, wanted, touched, sid, hash, expected, tagged, watching,
                        due, cfg, mode, tailnet, budget, next, kept, noted, keptMode, host,
                        exec, accepted, missed, halted, cancelled, spent>>
<1>1. /\ job = Idle /\ queue # <<>> /\ queue' = Tail(queue) /\ look' = Staled
      /\ UNCHANGED <<seen, attested, wanted, touched, sid, hash, expected, tagged, watching,
                     due, cfg, mode, tailnet, budget, next, kept, noted, keptMode, host,
                     exec, accepted, missed, halted, cancelled, spent>>
  BY DEF Begin, intent, session, follow, settings, files, engine, history
<1>2. \/ /\ Head(queue) = "attach" /\ job' = At("attach", "read") /\ UNCHANGED <<phase, wire>>
      \/ /\ Head(queue) # "attach" /\ phase = "running"
         /\ job' = At("sync", "compile") /\ UNCHANGED <<phase, wire>>
      \/ /\ Head(queue) # "attach" /\ job' = Idle /\ phase # "running"
         /\ UNCHANGED <<phase, wire>>
      \/ /\ Head(queue) \in {"connect", "tailnetOn", "tailnetOff"}
         /\ ~Connected(phase) /\ (wanted \/ tailnet)
         /\ job' = At("start", "consent") /\ phase' = "starting" /\ UNCHANGED wire
      \/ /\ Head(queue) # "attach" /\ phase # "stopped"
         /\ job' = At("stop", "await") /\ phase' = "stopping" /\ Send("stop", None, None)
  BY DEF Begin, BeginStart, BeginSync, BeginStop, Connected
<1>3. Send("stop", None, None) => wire' = wire \cup {Sent("stop", None, None)}
  BY SentIs
<1>4. Idle.cmd = "none" /\ Idle.at = "idle"
  BY IdleIs
<1>5. CASE job' = At("attach", "read")
  BY <1>1, <1>2, <1>4, <1>5, AtIs, IdleIs, StaledIs DEF Places
<1>6. CASE job' = At("sync", "compile")
  BY <1>1, <1>2, <1>4, <1>6, AtIs, IdleIs, StaledIs DEF Places
<1>7. CASE job' = At("start", "consent")
  BY <1>1, <1>2, <1>4, <1>7, AtIs, IdleIs, StaledIs DEF Places
<1>8. CASE job' = At("stop", "await")
  BY <1>1, <1>2, <1>3, <1>4, <1>8, AtIs, IdleIs, StaledIs DEF Places
<1>9. CASE job' = Idle
  <2>1. /\ At("attach", "read") # Idle /\ At("sync", "compile") # Idle
        /\ At("start", "consent") # Idle /\ At("stop", "await") # Idle
    BY <1>4, AtIs DEF Places
  <2>2. Head(queue) # "attach" /\ phase # "running" /\ UNCHANGED <<phase, wire>>
    BY <1>2, <1>9, <2>1
  <2> QED BY <1>1, <1>9, <2>2, IdleIs, StaledIs
<1> QED BY <1>2, <1>5, <1>6, <1>7, <1>8, <1>9

(* attach() reads the snapshot.                                             *)
LEMMA AttachReadsIs ==
  ASSUME Base, AttachReads
  PROVE  /\ job.at = "read" /\ job.cmd = "attach" /\ job'.at = "adopt" /\ job'.cmd = "attach"
         /\ job'.plan = job.plan /\ job'.answer = job.answer /\ job'.snap = Snapshot
         /\ UNCHANGED <<phase, seen, attested, wanted, touched, sid, hash, expected, tagged,
                        watching, due, queue, look, cfg, mode, tailnet, budget, next, kept,
                        noted, keptMode, host, exec, wire, accepted, missed, halted,
                        cancelled, spent>>
<1>1. /\ job.at = "read" /\ job' = [job EXCEPT !.at = "adopt", !.snap = Snapshot]
      /\ UNCHANGED <<phase, seen, attested, wanted, touched, sid, hash, expected, tagged,
                     watching, due, queue, look, cfg, mode, tailnet, budget, next, kept, noted,
                     keptMode, host, exec, wire, accepted, missed, halted, cancelled, spent>>
  BY DEF AttachReads, shown, intent, session, follow, settings, files, engine, history
<1>2. job \in Jobs /\ job.cmd = "attach"
  BY <1>1 DEF Base, TypeOK, JobOK
<1> QED BY <1>1, <1>2 DEF Jobs

(* attach() adopts it.                                                      *)
LEMMA AttachAdoptsIs ==
  ASSUME Base, AttachAdopts
  PROVE  /\ job.at = "adopt" /\ job.cmd = "attach" /\ job.snap \in Snapshots
         /\ job' = Idle /\ job'.at = "idle" /\ job'.cmd = "none" /\ job'.answer = "none"
         /\ job'.plan = None /\ job'.snap.hash = None
         /\ look'.at = look.at /\ ~look'.fresh /\ look'.snap = look.snap
         /\ Adopt(job.snap, expected)
         /\ wanted' \in BOOLEAN
         /\ \/ /\ job.snap.state = "running" /\ Enqueue("sync")
               /\ wanted' = (IF touched THEN wanted ELSE job.snap.proxy)
               /\ halted' = (halted /\ ~job.snap.proxy)
               /\ UNCHANGED spent
            \/ /\ job.snap.state # "running" /\ Enqueue("connect") /\ Spend("launch")
               /\ wanted' /\ ~halted'
            \/ /\ job.snap.state # "running"
               /\ IF tailnet THEN Enqueue("connect") ELSE UNCHANGED queue
               /\ wanted' = (IF touched THEN wanted ELSE job.snap.proxy)
               /\ UNCHANGED <<halted, spent>>
         /\ UNCHANGED <<cfg, mode, tailnet, budget, next, kept, noted, keptMode, host, exec,
                        wire, accepted, missed, cancelled>>
<1>1. /\ job.at = "adopt" /\ Ended /\ Adopt(job.snap, expected)
      /\ UNCHANGED <<cfg, mode, tailnet, budget, next, kept, noted, keptMode, host, exec, wire,
                     accepted, missed, cancelled>>
  BY DEF AttachAdopts, settings, files, engine
<1>2. job.snap \in Snapshots /\ job.cmd = "attach"
  BY <1>1 DEF Base, TypeOK, Jobs, JobOK
<1>3. \/ /\ job.snap.state = "running" /\ Enqueue("sync")
         /\ wanted' = (IF touched THEN wanted ELSE job.snap.proxy)
         /\ halted' = (halted /\ ~job.snap.proxy)
         /\ UNCHANGED spent
      \/ /\ job.snap.state # "running" /\ Enqueue("connect") /\ Spend("launch")
         /\ wanted' = TRUE /\ halted' = FALSE
      \/ /\ job.snap.state # "running"
         /\ IF tailnet THEN Enqueue("connect") ELSE UNCHANGED queue
         /\ wanted' = (IF touched THEN wanted ELSE job.snap.proxy)
         /\ UNCHANGED <<halted, spent>>
  BY DEF AttachAdopts
<1>4. wanted' = TRUE => wanted' /\ wanted' \in BOOLEAN
  BY Zenon
<1>5. halted' = FALSE => ~halted'
  BY Zenon
<1>6. wanted' = (IF touched THEN wanted ELSE job.snap.proxy) => wanted' \in BOOLEAN
  BY <1>2 DEF Base, TypeOK, Snapshots
<1> QED BY <1>1, <1>2, <1>3, <1>4, <1>5, <1>6, EndedIs

(* The system was asked.                                                    *)
LEMMA ConsentIs ==
  ASSUME Base, Consent
  PROVE  /\ job.at = "consent" /\ job.cmd = "start" /\ job # Idle
         /\ \/ /\ wanted \/ tailnet
               /\ job'.at = "compile" /\ job'.cmd = "start" /\ job'.answer = "none"
               /\ job'.snap = job.snap /\ job'.plan = job.plan
               /\ UNCHANGED <<phase, seen, attested, sid, hash, expected, tagged, watching,
                              due, look, spent>>
            \/ /\ ShowStopped /\ Ended
               /\ spent' = spent \/ Spend("consent")
         /\ UNCHANGED <<wanted, touched, queue, cfg, mode, tailnet, budget, next, kept, noted,
                        keptMode, host, exec, wire, accepted, missed, halted, cancelled>>
<1>1. /\ job.at = "consent"
      /\ UNCHANGED <<wanted, touched, queue, cfg, mode, tailnet, budget, next, kept, noted,
                     keptMode, host, exec, wire, accepted, missed, halted, cancelled>>
  BY DEF Consent, intent, settings, files, engine, history
<1>2. job \in Jobs /\ job.cmd = "start" /\ job # Idle /\ job.answer = "none"
  BY <1>1, IdleIs DEF Base, TypeOK, JobOK
<1>3. \/ /\ wanted \/ tailnet
         /\ job' = [job EXCEPT !.at = "compile"]
         /\ UNCHANGED <<phase, seen, attested, sid, hash, expected, tagged, watching, due,
                        look, spent>>
      \/ /\ ShowStopped /\ Ended
         /\ spent' = spent \/ Spend("consent")
  BY DEF Consent, MayStart, shown, session, follow
<1>4. job' = [job EXCEPT !.at = "compile"] =>
        /\ job'.at = "compile" /\ job'.cmd = "start" /\ job'.answer = "none"
        /\ job'.snap = job.snap /\ job'.plan = job.plan
  BY <1>2 DEF Jobs
<1> QED BY <1>1, <1>2, <1>3, <1>4

(* A plan is compiled.                                                      *)
LEMMA CompileIs ==
  ASSUME Base, Compile
  PROVE  /\ job.at = "compile" /\ job # Idle /\ job.cmd \in {"start", "sync"}
         /\ missed' = ~Compiles
         /\ \/ job.cmd = "start" /\ ~Compiles /\ ShowStopped /\ Ended
            \/ /\ job.cmd = "sync" /\ ~Compiles /\ Ended
               /\ UNCHANGED <<phase, seen, attested, sid, hash, expected, tagged, watching, due>>
            \/ /\ job'.at = "write" /\ job'.answer = "none" /\ job'.plan = Current
               /\ job'.mode = mode /\ job'.snap = job.snap
               /\ \/ job.cmd = "start" /\ job'.cmd = "start" /\ UNCHANGED phase
                  \/ /\ job.cmd = "sync" /\ job'.cmd = "reload" /\ phase' = "reloading"
                     /\ Current # hash
               /\ UNCHANGED <<seen, attested, sid, hash, expected, tagged, watching, due, look>>
            \/ /\ job.cmd = "sync" /\ Current = hash
               /\ job'.at = "compare" /\ job'.answer = "none" /\ job'.plan = Current
               /\ job'.mode = mode /\ job'.snap = job.snap /\ job'.cmd = "switch"
               /\ expected' = mode
               /\ UNCHANGED <<phase, seen, attested, sid, hash, tagged, watching, due, look>>
         /\ UNCHANGED <<wanted, touched, queue, cfg, mode, tailnet, budget, next, kept, noted,
                        keptMode, host, exec, wire, accepted, halted, cancelled, spent>>
<1>1. /\ job.at = "compile" /\ missed' = ~Compiles
      /\ UNCHANGED <<wanted, touched, queue, cfg, mode, tailnet, budget, next, kept, noted,
                     keptMode, host, exec, wire, accepted, halted, cancelled, spent>>
  BY DEF Compile, intent, settings, files, engine
<1>2. job \in Jobs /\ job.cmd \in {"start", "sync"} /\ job # Idle /\ job.answer = "none"
  BY <1>1, IdleIs DEF Base, TypeOK, JobOK
<1>3. \/ ~Compiles /\ job.cmd = "start" /\ ShowStopped /\ Ended
      \/ /\ ~Compiles /\ job.cmd = "sync" /\ Ended
         /\ UNCHANGED <<phase, seen, attested, sid, hash, expected, tagged, watching, due>>
      \/ /\ job.cmd = "start"
         /\ job' = [job EXCEPT !.at = "write", !.plan = Current, !.mode = mode]
         /\ UNCHANGED <<phase, seen, attested, sid, hash, expected, tagged, watching, due, look>>
      \/ /\ job.cmd = "sync" /\ Current # hash
         /\ job' = [job EXCEPT !.cmd = "reload", !.at = "write", !.plan = Current,
                               !.mode = mode]
         /\ phase' = "reloading"
         /\ UNCHANGED <<seen, attested, sid, hash, expected, tagged, watching, due, look>>
      \/ /\ job.cmd = "sync" /\ Current = hash
         /\ job' = [job EXCEPT !.cmd = "switch", !.at = "compare", !.plan = Current,
                               !.mode = mode]
         /\ expected' = mode
         /\ UNCHANGED <<phase, seen, attested, sid, hash, tagged, watching, due, look>>
  BY DEF Compile, NeedsReload, shown, session, follow
<1>4. job' = [job EXCEPT !.at = "write", !.plan = Current, !.mode = mode] =>
        /\ job'.at = "write" /\ job'.answer = "none" /\ job'.plan = Current
        /\ job'.mode = mode /\ job'.snap = job.snap /\ job'.cmd = job.cmd
  BY <1>2 DEF Jobs
<1>5. job' = [job EXCEPT !.cmd = "reload", !.at = "write", !.plan = Current, !.mode = mode] =>
        /\ job'.at = "write" /\ job'.answer = "none" /\ job'.plan = Current
        /\ job'.mode = mode /\ job'.snap = job.snap /\ job'.cmd = "reload"
  BY <1>2 DEF Jobs
<1>6. job' = [job EXCEPT !.cmd = "switch", !.at = "compare", !.plan = Current, !.mode = mode] =>
        /\ job'.at = "compare" /\ job'.answer = "none" /\ job'.plan = Current
        /\ job'.mode = mode /\ job'.snap = job.snap /\ job'.cmd = "switch"
  BY <1>2 DEF Jobs
<1> QED BY <1>1, <1>2, <1>3, <1>4, <1>5, <1>6

(* The plan is written, and the request goes out.                           *)
LEMMA WritePlanIs ==
  ASSUME Base, WritePlan
  PROVE  /\ job.at = "write" /\ job.cmd \in {"start", "reload"} /\ job # Idle
         /\ job.plan \in Plans /\ job.mode \in Modes
         /\ next' = [plan |-> job.plan, mode |-> job.mode]
         /\ wire' = wire \cup {Sent(job.cmd, job.plan, job.mode)}
         /\ job'.at = "await" /\ job'.cmd = job.cmd /\ job'.answer = "none"
         /\ job'.plan = job.plan /\ job'.mode = job.mode /\ job'.snap = job.snap
         /\ UNCHANGED <<phase, seen, attested, wanted, touched, sid, hash, expected, tagged,
                        watching, due, queue, look, cfg, mode, tailnet, budget, kept, noted,
                        keptMode, host, exec, accepted, missed, halted, cancelled, spent>>
<1>1. /\ job.at = "write" /\ next' = [plan |-> job.plan, mode |-> job.mode]
      /\ Send(job.cmd, job.plan, job.mode) /\ job' = [job EXCEPT !.at = "await"]
      /\ UNCHANGED <<phase, seen, attested, wanted, touched, sid, hash, expected, tagged,
                     watching, due, queue, look, cfg, mode, tailnet, budget, kept, noted,
                     keptMode, host, exec, accepted, missed, halted, cancelled, spent>>
  BY DEF WritePlan, shown, intent, session, follow, settings, engine, history
<1>2. /\ job \in Jobs /\ job.cmd \in {"start", "reload"} /\ job # Idle /\ job.answer = "none"
      /\ job.plan \in Plans /\ job.mode \in Modes
  BY <1>1, IdleIs DEF Base, TypeOK, JobOK
<1>3. wire' = wire \cup {Sent(job.cmd, job.plan, job.mode)}
  BY <1>1, <1>2, SentIs
<1>4. /\ job'.at = "await" /\ job'.cmd = job.cmd /\ job'.answer = "none"
      /\ job'.plan = job.plan /\ job'.mode = job.mode /\ job'.snap = job.snap
  BY <1>1, <1>2 DEF Jobs
<1> QED BY <1>1, <1>2, <1>3, <1>4

(* A choice is compared with what the session runs with.                    *)
LEMMA CompareIs ==
  ASSUME Base, Compare
  PROVE  /\ job.at = "compare" /\ job.cmd = "switch" /\ job # Idle
         /\ job.plan \in Plans /\ job.mode \in Modes
         /\ job'.cmd = "switch" /\ job'.answer = "none"
         /\ job'.plan = job.plan /\ job'.mode = job.mode /\ job'.snap = job.snap
         /\ \/ /\ job'.at = "await" /\ wire' = wire \cup {Sent("setMode", None, job.mode)}
               /\ UNCHANGED <<phase, seen, attested, sid, hash, expected, tagged, watching,
                              due, next, kept, noted, keptMode>>
            \/ /\ job'.at = "refresh" /\ Switched /\ UNCHANGED wire
         /\ UNCHANGED <<wanted, touched, queue, look, cfg, mode, tailnet, budget, host, exec,
                        accepted, missed, halted, cancelled, spent>>
<1>1. /\ job.at = "compare"
      /\ UNCHANGED <<wanted, touched, queue, look, cfg, mode, tailnet, budget, host, exec,
                     accepted, missed, halted, cancelled, spent>>
  BY DEF Compare, intent, settings, engine, history
<1>2. /\ job \in Jobs /\ job.cmd = "switch" /\ job # Idle /\ job.answer = "none"
      /\ job.plan \in Plans /\ job.mode \in Modes
  BY <1>1, IdleIs DEF Base, TypeOK, JobOK
<1>3. \/ /\ Send("setMode", None, job.mode) /\ job' = [job EXCEPT !.at = "await"]
         /\ UNCHANGED <<phase, seen, attested, sid, hash, expected, tagged, watching, due,
                        next, kept, noted, keptMode>>
      \/ Switched /\ job' = [job EXCEPT !.at = "refresh"] /\ UNCHANGED wire
  BY DEF Compare, shown, session, follow, files
<1>4. Send("setMode", None, job.mode) => wire' = wire \cup {Sent("setMode", None, job.mode)}
  BY <1>2, SentIs
<1>5. job' = [job EXCEPT !.at = "await"] \/ job' = [job EXCEPT !.at = "refresh"] =>
        /\ job'.cmd = "switch" /\ job'.answer = "none"
        /\ job'.plan = job.plan /\ job'.mode = job.mode /\ job'.snap = job.snap
  BY <1>2 DEF Jobs
<1>6. /\ job' = [job EXCEPT !.at = "await"] => job'.at = "await"
      /\ job' = [job EXCEPT !.at = "refresh"] => job'.at = "refresh"
  BY <1>2 DEF Jobs
<1> QED BY <1>1, <1>2, <1>3, <1>4, <1>5, <1>6

(* A request was carried out.                                               *)
LEMMA SucceededIs ==
  ASSUME Base, Succeeded
  PROVE  /\ job.at = "await" /\ job.answer = "done" /\ Arrives
         /\ job'.at = "refresh" /\ job'.cmd = job.cmd /\ job'.plan = job.plan
         /\ job'.mode = job.mode /\ job'.snap = job.snap
         /\ \/ Started \/ Switched
            \/ job.cmd = "stop" /\ ShowStopped /\ UNCHANGED <<next, kept, noted, keptMode>>
         /\ noted' = noted
         /\ UNCHANGED <<wanted, touched, queue, look, cfg, mode, tailnet, budget, host, exec,
                        wire, accepted, missed, halted, cancelled>>
<1>1. /\ job.at = "await" /\ job.answer = "done" /\ Arrives
      /\ job' = [job EXCEPT !.at = "refresh"]
      /\ \/ Started \/ Switched
         \/ job.cmd = "stop" /\ ShowStopped /\ UNCHANGED <<next, kept, noted, keptMode>>
      /\ UNCHANGED <<wanted, touched, queue, look, cfg, mode, tailnet, budget, host, exec,
                     wire, accepted, missed, halted, cancelled>>
  BY DEF Succeeded, intent, settings, engine, history, files
<1>2. job \in Jobs
  BY DEF Base, TypeOK
<1>3. /\ job'.at = "refresh" /\ job'.cmd = job.cmd /\ job'.plan = job.plan
      /\ job'.mode = job.mode /\ job'.snap = job.snap
  BY <1>1, <1>2 DEF Jobs
<1>4. noted' = noted
  BY <1>1, StartedIs, SwitchedIs
<1> QED BY <1>1, <1>3, <1>4

(* A request was refused.                                                   *)
LEMMA RefusedIs ==
  ASSUME Base, Refused
  PROVE  /\ job.at = "await" /\ job.answer = "failed" /\ Arrives /\ HostException
         /\ UNCHANGED <<wanted, touched, queue, cfg, mode, tailnet, budget, next, kept, noted,
                        keptMode, host, exec, wire, accepted, missed, halted, cancelled>>
BY DEF Refused, intent, settings, files, engine, history

(* What a failure makes of the command, piece by piece.                     *)
LEMMA ExceptionGives ==
  ASSUME Base, HostException, job.at \in {"read", "compare", "await"}
  PROVE  /\ seen' = seen
         /\ \/ /\ job.cmd = "attach" /\ Ended
               /\ UNCHANGED <<phase, attested, sid, hash, expected, tagged, watching, due>>
            \/ job.cmd = "start" /\ ShowStopped /\ Ended
            \/ /\ job.cmd \in {"reload", "switch", "stop"}
               /\ job'.at = "refresh" /\ job'.cmd = job.cmd /\ job'.plan = job.plan
               /\ job'.mode = job.mode /\ job'.snap = job.snap
               /\ job.cmd # "stop" => phase' = "running"
               /\ job.cmd = "stop" => phase' = phase
               /\ UNCHANGED <<attested, sid, hash, expected, tagged, watching, due, look>>
<1>1. job \in Jobs
  BY DEF Base, TypeOK
<1>2. job' = [job EXCEPT !.at = "refresh"] =>
        /\ job'.at = "refresh" /\ job'.cmd = job.cmd /\ job'.plan = job.plan
        /\ job'.mode = job.mode /\ job'.snap = job.snap
  BY <1>1 DEF Jobs
<1> QED BY <1>2, ExceptionIs

(* A command's follow-up asks.                                              *)
LEMMA FollowUpIs ==
  ASSUME Base, FollowUp
  PROVE  /\ job.at = "refresh" /\ job'.at = "wait" /\ job'.cmd = job.cmd
         /\ job'.plan = job.plan /\ job'.mode = job.mode /\ job'.answer = job.answer
         /\ job'.snap = job.snap /\ job # Idle
         /\ (look = NoLook /\ Ask) \/ (look.fresh /\ UNCHANGED look)
         /\ UNCHANGED <<phase, seen, attested, wanted, touched, sid, hash, expected, tagged,
                        watching, due, queue, cfg, mode, tailnet, budget, next, kept, noted,
                        keptMode, host, exec, wire, accepted, missed, halted, cancelled,
                        spent>>
<1>1. /\ job.at = "refresh" /\ job' = [job EXCEPT !.at = "wait"]
      /\ (look = NoLook /\ Ask) \/ (look.fresh /\ UNCHANGED look)
      /\ UNCHANGED <<phase, seen, attested, wanted, touched, sid, hash, expected, tagged,
                     watching, due, queue, cfg, mode, tailnet, budget, next, kept, noted,
                     keptMode, host, exec, wire, accepted, missed, halted, cancelled, spent>>
  BY DEF FollowUp, shown, intent, session, follow, settings, files, engine, history
<1>2. job \in Jobs /\ job # Idle
  BY <1>1, IdleIs DEF Base, TypeOK
<1>3. /\ job'.at = "wait" /\ job'.cmd = job.cmd
      /\ job'.plan = job.plan /\ job'.mode = job.mode /\ job'.answer = job.answer
      /\ job'.snap = job.snap
  BY <1>1, <1>2 DEF Jobs
<1> QED BY <1>1, <1>2, <1>3

(* A snapshot comes back.                                                   *)
LEMMA ReceiveIs ==
  ASSUME Base, Receive
  PROVE  /\ look.at = "served" /\ job' = Answered /\ Between /\ look.snap \in Snapshots
         /\ \/ /\ ~look.fresh /\ look' = NoLook
               /\ UNCHANGED <<phase, seen, attested, wanted, sid, hash, expected, tagged,
                              watching, due, halted>>
            \/ /\ look.fresh
               /\ \E m \in Modes \cup {None} :
                    /\ Adopt(look.snap, m)
                    /\ \/ m = expected /\ look' = NoLook
                       \/ /\ m = look.snap.mode /\ job = Idle /\ look.snap.state = "running"
                          /\ m \in Modes
                          /\ look'.at = "writing" /\ look'.fresh /\ look'.snap = look.snap
               /\ wanted' = IntentAfter(look.snap) /\ wanted' \in BOOLEAN
               /\ halted' = ((halted \/ SeenToEnd(look.snap)) /\ ~SeenToRun(look.snap))
         /\ UNCHANGED <<touched, queue, cfg, mode, tailnet, budget, next, kept, noted, keptMode,
                        host, exec, wire, accepted, missed, cancelled, spent>>
<1>1. /\ Between /\ look.at = "served" /\ job' = Answered /\ touched' = touched
      /\ UNCHANGED <<queue, cfg, mode, tailnet, budget, next, kept, noted, keptMode, host,
                     exec, wire, accepted, missed, cancelled, spent>>
  BY DEF Receive, settings, files, engine, intent
<1>2. /\ look \in Looks /\ look.snap \in Snapshots /\ expected \in Modes \cup {None}
      /\ look.snap.mode \in Modes \cup {None} /\ wanted \in BOOLEAN
      /\ look.snap.proxy \in BOOLEAN
  BY DEF Base, TypeOK, Looks, Snapshots
<1>3. CASE /\ ~look.fresh /\ look' = NoLook
           /\ UNCHANGED <<phase, seen, attested, wanted, sid, hash, expected, tagged,
                          watching, due, halted>>
  BY <1>1, <1>2, <1>3
<1>4. CASE look.fresh
  <2>1. PICK changed \in BOOLEAN :
          /\ changed = (look.snap.state = "running" /\ ChangedOutside(look.snap))
          /\ Adopt(look.snap, IF changed THEN look.snap.mode ELSE expected)
          /\ wanted' = IntentAfter(look.snap)
          /\ look' = IF changed THEN [look EXCEPT !.at = "writing"] ELSE NoLook
          /\ halted' = ((halted \/ SeenToEnd(look.snap)) /\ ~SeenToRun(look.snap))
    BY <1>4 DEF Receive, AdoptsFresh
  <2>2. wanted' \in BOOLEAN
    BY <1>2, <2>1 DEF IntentAfter
  <2>3. CASE ~changed
    BY <1>1, <1>2, <1>4, <2>1, <2>2, <2>3
  <2>4. CASE changed
    <3>1. job = Idle /\ look.snap.mode \in Modes /\ look.snap.state = "running"
      BY <1>2, <2>1, <2>4 DEF ChangedOutside
    <3>2. look'.at = "writing" /\ look'.fresh /\ look'.snap = look.snap
      BY <1>2, <1>4, <2>1, <2>4 DEF Looks
    <3> QED BY <1>1, <1>2, <1>4, <2>1, <2>2, <2>4, <3>1, <3>2
  <2> QED BY <2>3, <2>4
<1> QED BY <1>3, <1>4 DEF Receive, AdoptsFresh, shown, intent, session, follow

(* The panel's choice is saved.                                             *)
LEMMA WriteBackIs ==
  ASSUME Base, WriteBack
  PROVE  /\ look.at = "writing" /\ mode' = look.snap.mode /\ look' = NoLook
         /\ \/ mode' # mode /\ watching /\ Enqueue("sync")
            \/ (mode' = mode \/ ~watching) /\ UNCHANGED queue
         /\ UNCHANGED <<phase, seen, attested, wanted, touched, sid, hash, expected, tagged,
                        watching, due, job, cfg, tailnet, budget, next, kept, noted, keptMode,
                        host, exec, wire, accepted, missed, halted, cancelled, spent>>
BY DEF WriteBack, shown, intent, session, follow, files, engine, history

(* A command ends.                                                          *)
LEMMA EndIs ==
  ASSUME Base, End
  PROVE  /\ job.at = "end" /\ Ended /\ job # Idle
         /\ job.cmd = "start" => Schedule(phase)
         /\ job.cmd # "start" => UNCHANGED <<watching, due>>
         /\ ~cancelled'
         /\ UNCHANGED <<phase, seen, attested, wanted, touched, sid, hash, expected, tagged,
                        queue, cfg, mode, tailnet, budget, next, kept, noted, keptMode, host,
                        exec, wire, accepted, missed, halted, spent>>
<1>1. cancelled' = FALSE
  BY DEF End
<1>2. ~cancelled'
  BY <1>1, Zenon
<1> QED BY <1>2, IdleIs DEF End, shown, intent, session, follow, settings, files, engine

(* The debounce timer fires.                                                *)
LEMMA DebouncedIs ==
  ASSUME Base, Debounced
  PROVE  /\ due /\ ~due' /\ Enqueue("sync")
         /\ UNCHANGED <<phase, seen, attested, wanted, touched, sid, hash, expected, tagged,
                        watching, job, look, cfg, mode, tailnet, budget, next, kept, noted,
                        keptMode, host, exec, wire, accepted, missed, halted, cancelled,
                        spent>>
<1>1. due' = FALSE
  BY DEF Debounced
<1>2. ~due'
  BY <1>1, Zenon
<1> QED BY <1>2 DEF Debounced, shown, intent, session, settings, files, engine, history

(* A query gets no answer.                                                  *)
LEMMA QueryFailsIs ==
  ASSUME Base, QueryFails
  PROVE  /\ Spend("answer") /\ look' = NoLook /\ job' = Answered
         /\ UNCHANGED <<phase, seen, attested, wanted, touched, sid, hash, expected, tagged,
                        watching, due, queue, cfg, mode, tailnet, budget, next, kept, noted,
                        keptMode, host, exec, wire, accepted, missed, halted, cancelled>>
BY DEF QueryFails, shown, intent, session, follow, settings, files, engine, history

(* The disk fails.                                                          *)
LEMMA DiskFailsIs ==
  ASSUME Base, DiskFails
  PROVE  /\ Spend("disk") /\ Ended /\ job.at \in {"write", "compare", "await"} /\ ~Asking
         /\ UNCHANGED <<phase, seen, attested, wanted, touched, sid, hash, expected, tagged,
                        watching, due, queue, cfg, mode, tailnet, budget, next, kept, noted,
                        keptMode, host, exec, wire, accepted, missed, halted, cancelled>>
BY DEF DiskFails, Asking, shown, intent, session, follow, settings, files, engine, history

(* The poll asks.                                                           *)
LEMMA PollIs ==
  ASSUME Base, Poll
  PROVE  /\ Between /\ look = NoLook /\ Ask
         /\ UNCHANGED <<phase, seen, attested, wanted, touched, sid, hash, expected, tagged,
                        watching, due, queue, job, cfg, mode, tailnet, budget, next, kept,
                        noted, keptMode, host, exec, wire, accepted, missed, halted,
                        cancelled, spent>>
BY DEF Poll, shown, intent, session, follow, settings, files, engine, history

(* The host answers the query.                                              *)
LEMMA ServeIs ==
  ASSUME Base, Serve
  PROVE  /\ look.at = "sent" /\ look'.at = "served" /\ look'.fresh = look.fresh
         /\ look'.snap = Snapshot
         /\ UNCHANGED <<phase, seen, attested, wanted, touched, sid, hash, expected, tagged,
                        watching, due, queue, job, cfg, mode, tailnet, budget, next, kept,
                        noted, keptMode, host, exec, wire, accepted, missed, halted,
                        cancelled, spent>>
BY ServeTypes DEF Serve, shown, intent, session, follow, settings, files, engine, history

(* The proxy is switched.                                                   *)
LEMMA ToggleIs ==
  ASSUME Base, Toggle
  PROVE  /\ Spend("press")
         /\ \/ /\ Enqueue("disconnect") /\ ~wanted' /\ halted' = halted
               /\ cancelled' = (job.cmd = "start" /\ job.at = "consent")
            \/ /\ Enqueue("connect") /\ wanted' /\ ~halted' /\ ~cancelled'
         /\ UNCHANGED <<phase, seen, attested, sid, hash, expected, tagged, watching, due, job,
                        look, cfg, mode, tailnet, budget, next, kept, noted, keptMode, host,
                        exec, wire, accepted, missed>>
<1>1. PICK off \in BOOLEAN :
        /\ Spend("press") /\ wanted' = ~off
        /\ Enqueue(IF off THEN "disconnect" ELSE "connect")
        /\ halted' = (halted /\ off)
        /\ cancelled' = (off /\ job.cmd = "start" /\ job.at = "consent")
  BY DEF Toggle
<1>2. UNCHANGED <<phase, seen, attested, sid, hash, expected, tagged, watching, due, job, look,
                  cfg, mode, tailnet, budget, next, kept, noted, keptMode, host, exec, wire,
                  accepted, missed>>
  BY DEF Toggle, shown, session, follow, settings, files, engine
<1>3. halted \in BOOLEAN
  BY DEF Base, TypeOK
<1>4. CASE off
  <2>1. /\ Enqueue("disconnect") /\ ~wanted' /\ halted' = halted
        /\ cancelled' = (job.cmd = "start" /\ job.at = "consent")
    BY <1>1, <1>3, <1>4, Zenon
  <2> QED BY <1>1, <1>2, <2>1
<1>5. CASE ~off
  <2>1. Enqueue("connect") /\ wanted' /\ ~halted' /\ ~cancelled'
    BY <1>1, <1>3, <1>5, Zenon
  <2> QED BY <1>1, <1>2, <2>1
<1> QED BY <1>4, <1>5

(* Everything is switched off.                                              *)
LEMMA StopAllIs ==
  ASSUME Base, StopAll
  PROVE  /\ Spend("press") /\ ~wanted' /\ Enqueue("stopAll")
         /\ UNCHANGED <<phase, seen, attested, sid, hash, expected, tagged, watching, due, job,
                        look, cfg, mode, tailnet, budget, next, kept, noted, keptMode, host,
                        exec, wire, accepted, missed, halted, cancelled>>
<1>1. wanted' = FALSE
  BY DEF StopAll
<1>2. ~wanted'
  BY <1>1, Zenon
<1> QED BY <1>2 DEF StopAll, shown, session, follow, settings, files, engine, history

(* The tailnet is switched.                                                 *)
LEMMA SetTailnetIs ==
  ASSUME Base, SetTailnetEnabled
  PROVE  /\ Spend("tailnet") /\ tailnet' = ~tailnet
         /\ Enqueue("tailnetOn") \/ Enqueue("tailnetOff")
         /\ due' = (due \/ watching) /\ ~cancelled'
         /\ UNCHANGED <<phase, seen, attested, wanted, touched, sid, hash, expected, tagged,
                        watching, job, look, cfg, mode, budget, next, kept, noted, keptMode,
                        host, exec, wire, accepted, missed, halted>>
<1>1. cancelled' = FALSE /\ Enqueue(IF tailnet THEN "tailnetOff" ELSE "tailnetOn")
  BY DEF SetTailnetEnabled
<1>2. ~cancelled' /\ (Enqueue("tailnetOn") \/ Enqueue("tailnetOff"))
  BY <1>1, Zenon
<1> QED BY <1>2 DEF SetTailnetEnabled, shown, intent, session, files, engine

(* Something a plan is compiled from changes.                               *)
LEMMA EditIs ==
  ASSUME Base, NEW c, Edit(c)
  PROVE  /\ Spend("edit") /\ cfg' = c /\ due' = (due \/ watching)
         /\ missed' = (missed \/ (~watching /\ phase # "stopped"))
         /\ UNCHANGED <<phase, seen, attested, wanted, touched, sid, hash, expected, tagged,
                        watching, queue, job, look, mode, tailnet, budget, next, kept, noted,
                        keptMode, host, exec, wire, accepted, halted, cancelled>>
BY DEF Edit, Unheard, shown, intent, session, files, engine

(* A choice is made.                                                        *)
LEMMA ChooseIs ==
  ASSUME Base, NEW m, Choose(m)
  PROVE  /\ Spend("edit") /\ mode' = m
         /\ \/ watching /\ Enqueue("sync") /\ ~due'
            \/ ~watching /\ UNCHANGED <<queue, due>>
         /\ missed' = (missed \/ (~watching /\ phase # "stopped"))
         /\ UNCHANGED <<phase, seen, attested, wanted, touched, sid, hash, expected, tagged,
                        watching, job, look, cfg, tailnet, budget, next, kept, noted, keptMode,
                        host, exec, wire, accepted, halted, cancelled>>
<1>1. \/ watching /\ Enqueue("sync") /\ due' = FALSE
      \/ ~watching /\ UNCHANGED <<queue, due>>
  BY DEF Choose
<1>2. due' = FALSE => ~due'
  BY Zenon
<1> QED BY <1>1, <1>2 DEF Choose, Unheard, shown, intent, session, files, engine

-----------------------------------------------------------------------------
(* What has happened stays counted.                                         *)
Grows == \A k \in Kinds : spent[k] <= spent'[k]

(* An event that is counted, or nothing new.                                *)
LEMMA GrowsIs ==
  ASSUME Base, spent' = spent \/ Arrives \/ \E k \in Kinds : Spend(k)
  PROVE  Grows
<1>1. spent \in [Kinds -> Nat]
  BY DEF Base, TypeOK
<1>2. CASE spent' = spent
  BY <1>1, <1>2 DEF Grows
<1>3. CASE Arrives
  BY <1>3, ArrivesIs DEF Grows
<1>4. CASE \E k \in Kinds : Spend(k)
  BY <1>4, SpendIs DEF Grows
<1> QED BY <1>2, <1>3, <1>4

(* Every step counts.                                                       *)
LEMMA Counts ==
  ASSUME Base, OneRequest, [Next]_vars
  PROVE  Grows
<1>1. /\ "launch" \in Kinds /\ "press" \in Kinds /\ "tailnet" \in Kinds /\ "edit" \in Kinds
      /\ "panel" \in Kinds /\ "hostStop" \in Kinds /\ "hostStart" \in Kinds
      /\ "answer" \in Kinds /\ "disk" \in Kinds /\ "crash" \in Kinds /\ "core" \in Kinds
      /\ "consent" \in Kinds
  BY DEF Kinds
<1>2. CASE Coordinator
  <2>1. CASE Begin \/ AttachReads \/ Compile \/ WritePlan \/ Compare \/ FollowUp \/ Receive
             \/ WriteBack \/ End \/ Debounced
    BY <2>1, BeginIs, AttachReadsIs, CompileIs, WritePlanIs, CompareIs, FollowUpIs, ReceiveIs,
       WriteBackIs, EndIs, DebouncedIs, GrowsIs
  <2>2. CASE AttachAdopts
    BY <1>1, <2>2, AttachAdoptsIs, GrowsIs
  <2>3. CASE Consent
    BY <1>1, <2>3, ConsentIs, GrowsIs
  <2>4. CASE Succeeded \/ Refused
    BY <2>4, SucceededIs, RefusedIs, GrowsIs
  <2> QED BY <1>2, <2>1, <2>2, <2>3, <2>4 DEF Coordinator
<1>3. CASE Bridge
  <2>1. CASE Serve \/ StopEnds \/ \E r \in wire : StopBegins(r) \/ SetMode(r)
    BY <2>1, ServeIs, StopEndsIs, StopBeginsIs, SetModeIs, GrowsIs
  <2>2. CASE CoreStarts
    BY <2>2, CoreStartsIs DEF Grows
  <2>3. CASE \E r \in wire : TakeUp(r)
    BY <2>3, TakeUpIs DEF Grows
  <2> QED BY <1>3, <2>1, <2>2, <2>3 DEF Bridge
<1>4. CASE User
  BY <1>1, <1>4, ToggleIs, StopAllIs, SetTailnetIs, EditIs, ChooseIs, GrowsIs DEF User
<1>5. CASE Environment
  BY <1>1, <1>5, HostStopsIs, RestoreIs, PanelSetsIs, AnswerLostIs, QueryFailsIs, DiskFailsIs,
     ReopenIs, GrowsIs DEF Environment, Grows
<1>6. CASE Poll
  BY <1>6, PollIs, GrowsIs
<1>7. CASE UNCHANGED vars
  BY <1>7, GrowsIs DEF vars
<1> QED BY <1>2, <1>3, <1>4, <1>5, <1>6, <1>7 DEF Next

(* What has not happened so far has not happened before.                    *)
LEMMA Fewer ==
  ASSUME Base, Base', Grows
  PROVE  /\ Delivered' => Delivered
         /\ Told' => Told
         /\ Undisturbed' => Undisturbed
         /\ Calm' => Calm
<1>1. \A k \in Kinds : spent[k] \in Nat /\ spent'[k] \in Nat /\ spent[k] <= spent'[k]
  BY DEF Base, TypeOK, Grows
<1>2. \A k \in Kinds : spent'[k] = 0 => spent[k] = 0
  BY <1>1
<1>3. /\ Delivered' <=> spent'["answer"] = 0 /\ spent'["crash"] = 0
      /\ Told' <=> \A k \in {"answer", "reorder", "disk", "crash"} : spent'[k] = 0
      /\ Undisturbed' <=> \A k \in {"hostStop", "hostStart", "answer", "reorder", "disk",
                                    "crash"} : spent'[k] = 0
      /\ Calm' <=> Undisturbed' /\ spent'["core"] = 0
  BY DEF Delivered, Told, Undisturbed, Calm
<1> QED BY <1>2, <1>3 DEF Delivered, Told, Undisturbed, Calm, Kinds

-----------------------------------------------------------------------------
(* The one request whose answer is waited for.                              *)

(* Nothing is waited for: no request has a sender that waits.               *)
LEMMA NoneAsked ==
  ASSUME OneRequest, ~Asking
  PROVE  /\ \A r \in wire : ~r.own
         /\ Held => ~exec.own
BY DEF OneRequest, Answers

(* The command moves on, and what it waits for is as before or answered.    *)
LEMMA OneMoves ==
  ASSUME Base, Base', Grows, OneRequest, UNCHANGED <<wire, exec>>, ~Asking,
         job'.at # "await", Held => host' = host
  PROVE  OneRequest'
<1>1. /\ \A r \in wire' : ~r.own
      /\ Held' => ~exec'.own
      /\ (Held' <=> Held)
  BY NoneAsked DEF Held
<1>2. Delivered' => (Held' => exec'.own) /\ \A r \in wire' : r.own
  BY Fewer DEF OneRequest, Held
<1> QED BY <1>1, <1>2 DEF OneRequest

(* The command stays where it is.                                           *)
LEMMA OneStays ==
  ASSUME Base, Base', Grows, OneRequest, UNCHANGED <<wire, exec, job, next>>,
         Held => host'.file = host.file
  PROVE  OneRequest'
<1>1. /\ Held' <=> Held
      /\ Asking' <=> Asking
      /\ \A r : Answers(r)' <=> Answers(r)
  BY DEF Held, Asking, Answers
<1>2. Delivered' => Delivered
  BY Fewer
<1> QED BY <1>1, <1>2 DEF OneRequest

(* A query comes back while the command waits, or does not.                 *)
LEMMA OneAnswered ==
  ASSUME Base, Base', Grows, OneRequest, UNCHANGED <<wire, exec, next, host>>, job' = Answered
  PROVE  OneRequest'
<1>1. CASE job.at = "wait"
  BY <1>1, AnsweredIs, OneMoves DEF Asking
<1>2. CASE job.at # "wait"
  BY <1>2, AnsweredIs, OneStays
<1> QED BY <1>1, <1>2

(* A request goes out.                                                      *)
LEMMA OneSends ==
  ASSUME Base, Base', Grows, OneRequest, ~Asking, UNCHANGED <<exec, host>>,
         NEW r, wire' = wire \cup {r}, r.own, Answers(r)',
         job'.at = "await" /\ job'.cmd \in {"start", "reload"} =>
           next' = [plan |-> job'.plan, mode |-> job'.mode]
  PROVE  OneRequest'
<1>1. /\ \A q \in wire : ~q.own
      /\ Held => ~exec.own
      /\ Held' <=> Held
  BY NoneAsked DEF Held
<1>2. \A q \in wire' : q.own => q = r
  BY <1>1
<1>3. Delivered' => ~Held' /\ \A q \in wire' : q.own
  BY <1>1, Fewer DEF OneRequest
<1> QED BY <1>1, <1>2, <1>3 DEF OneRequest

(* A request leaves the wire: it is answered, or holds the lock.            *)
LEMMA OneTaken ==
  ASSUME Base, Base', Grows, OneRequest, ~Held, NEW r \in wire, wire' = wire \ {r},
         job'.at = job.at, job'.cmd = job.cmd, job'.plan = job.plan, job'.mode = job.mode,
         ~r.own => job' = job, next' = next,
         \/ UNCHANGED exec
         \/ /\ exec' = r /\ job' = job
            /\ r.op \in {"start", "reload"} => host'.file = next
  PROVE  OneRequest'
<1>1. \A q \in wire' : q.own => q \in wire /\ q # r /\ ~r.own
  BY DEF OneRequest
<1>2. \A q \in wire' : q.own => Answers(q)'
  BY <1>1 DEF OneRequest, Answers, Asking
<1>3. Held' /\ exec'.own => Answers(exec)' /\ \A q \in wire' : ~q.own
  <2>1. ASSUME Held', exec'.own
        PROVE  Answers(exec)' /\ \A q \in wire' : ~q.own
    <3>1. exec' = r /\ job' = job
      BY <2>1 DEF Held
    <3>2. Answers(r)
      BY <2>1, <3>1 DEF OneRequest
    <3> QED BY <1>1, <2>1, <3>1, <3>2 DEF Answers, Asking
  <2> QED BY <2>1
<1>4. Delivered' => (Held' => exec'.own) /\ \A q \in wire' : q.own
  <2>1. ASSUME Delivered'
        PROVE  (Held' => exec'.own) /\ \A q \in wire' : q.own
    <3>1. \A q \in wire : q.own
      BY <2>1, Fewer DEF OneRequest
    <3> QED BY <3>1 DEF Held
  <2> QED BY <2>1
<1>5. job'.at = "await" /\ job'.cmd \in {"start", "reload"} =>
        next' = [plan |-> job'.plan, mode |-> job'.mode]
  BY DEF OneRequest
<1>6. Held' /\ exec'.own /\ exec'.op \in {"start", "reload"} => host'.file = next'
  BY DEF Held
<1> QED BY <1>1, <1>2, <1>3, <1>4, <1>5, <1>6 DEF OneRequest

(* The lock is let go: its holder is answered.                              *)
LEMMA OneReleased ==
  ASSUME Base, Base', Grows, OneRequest, Held, exec' = NoRequest, UNCHANGED <<wire, next>>,
         job'.at = job.at, job'.cmd = job.cmd, job'.plan = job.plan, job'.mode = job.mode,
         ~exec.own => job' = job
  PROVE  OneRequest'
<1>1. ~Held'
  BY DEF Held
<1>2. \A q \in wire' : q.own => Answers(q)'
  BY DEF OneRequest, Answers, Asking
<1>3. Delivered' => \A q \in wire' : q.own
  BY Fewer DEF OneRequest
<1> QED BY <1>1, <1>2, <1>3 DEF OneRequest

(* Nobody waits any more.                                                   *)
LEMMA OneForgotten ==
  ASSUME Base, Base', ~Delivered', job'.at # "await", \A q \in wire' : ~q.own,
         Held' => ~exec'.own
  PROVE  OneRequest'
BY DEF OneRequest

(* Every step of the coordinator.                                           *)
LEMMA OneCoordinates ==
  ASSUME Base, Base', Grows, OneRequest, Coordinator
  PROVE  OneRequest'
<1>1. CASE Begin
  <2>1. ~Asking
    BY <1>1, BeginIs, IdleIs DEF Asking
  <2>2. CASE wire' = wire /\ job'.at # "await"
    BY <1>1, <2>1, <2>2, BeginIs, OneMoves
  <2>3. CASE wire' = wire \cup {Sent("stop", None, None)} /\ job'.cmd = "stop"
             /\ job'.at = "await"
    <3>1. PICK r : r = Sent("stop", None, None)
      OBVIOUS
    <3>2. r.op = "stop" /\ r.own
      BY <3>1, SentIs
    <3>3. job'.answer = "none" /\ UNCHANGED <<exec, host>>
      BY <1>1, BeginIs
    <3>4. Answers(r)'
      BY <2>3, <3>2, <3>3 DEF Answers, Asking, OpOf
    <3> QED BY <2>1, <2>3, <3>1, <3>2, <3>3, <3>4, OneSends
  <2> QED BY <1>1, <2>2, <2>3, BeginIs
<1>2. CASE AttachReads \/ AttachAdopts
  BY <1>2, AttachReadsIs, AttachAdoptsIs, OneMoves DEF Asking
<1>3. CASE Consent
  BY <1>3, ConsentIs, EndedIs, OneMoves DEF Asking
<1>4. CASE Compile
  BY <1>4, CompileIs, EndedIs, OneMoves DEF Asking
<1>5. CASE WritePlan
  <2>1. ~Asking
    BY <1>5, WritePlanIs DEF Asking
  <2>2. PICK r : r = Sent(job.cmd, job.plan, job.mode)
    OBVIOUS
  <2>3. /\ r.op = job.cmd /\ r.hash = job.plan /\ r.own /\ job.cmd \in {"start", "reload"}
    BY <1>5, <2>2, WritePlanIs, SentIs
  <2>4. Answers(r)'
    <3>1. /\ job'.at = "await" /\ job'.answer = "none" /\ job'.cmd = job.cmd
          /\ job'.plan = job.plan
      BY <1>5, WritePlanIs
    <3> QED BY <2>3, <3>1 DEF Answers, Asking, OpOf
  <2> QED BY <1>5, <2>1, <2>2, <2>3, <2>4, WritePlanIs, OneSends
<1>6. CASE Compare
  <2>1. ~Asking
    BY <1>6, CompareIs DEF Asking
  <2>2. CASE job'.at = "refresh" /\ wire' = wire
    BY <1>6, <2>1, <2>2, CompareIs, OneMoves
  <2>3. CASE job'.at = "await" /\ wire' = wire \cup {Sent("setMode", None, job.mode)}
    <3>1. PICK r : r = Sent("setMode", None, job.mode)
      OBVIOUS
    <3>2. r.op = "setMode" /\ r.mode = job.mode /\ r.own
      BY <1>6, <3>1, CompareIs, SentIs
    <3>3. /\ job'.answer = "none" /\ job'.cmd = "switch" /\ job'.mode = job.mode
      BY <1>6, CompareIs
    <3>4. Answers(r)'
      BY <2>3, <3>2, <3>3 DEF Answers, Asking, OpOf
    <3> QED BY <1>6, <2>1, <2>3, <3>1, <3>2, <3>3, <3>4, CompareIs, OneSends
  <2> QED BY <1>6, <2>2, <2>3, CompareIs
<1>7. CASE Succeeded
  BY <1>7, SucceededIs, OneMoves DEF Asking
<1>8. CASE Refused
  <2>1. ~Asking /\ job.at = "await"
    BY <1>8, RefusedIs DEF Asking
  <2>2. job'.at # "await"
    BY <1>8, <2>1, RefusedIs, ExceptionGives, EndedIs
  <2> QED BY <1>8, <2>1, <2>2, RefusedIs, OneMoves
<1>9. CASE FollowUp
  BY <1>9, FollowUpIs, OneMoves DEF Asking
<1>10. CASE Receive
  BY <1>10, ReceiveIs, OneAnswered
<1>11. CASE WriteBack \/ Debounced
  BY <1>11, WriteBackIs, DebouncedIs, OneStays
<1>12. CASE End
  BY <1>12, EndIs, EndedIs, OneMoves DEF Asking
<1> QED BY <1>1, <1>2, <1>3, <1>4, <1>5, <1>6, <1>7, <1>8, <1>9, <1>10, <1>11, <1>12
        DEF Coordinator

(* Every step.                                                              *)
LEMMA OneStep ==
  ASSUME Base, Base', Grows, OneRequest, [Next]_vars
  PROVE  OneRequest'
<1>1. CASE Coordinator
  BY <1>1, OneCoordinates
<1>2. CASE Bridge
  <2>1. CASE Serve
    BY <2>1, ServeIs, OneStays
  <2>2. CASE CoreStarts
    BY <2>2, CoreStartsIs, OneReleased
  <2>3. CASE StopEnds
    BY <2>3, StopEndsIs, OneReleased
  <2>4. ASSUME NEW r \in wire, TakeUp(r)
        PROVE  OneRequest'
    <3>1. CASE UNCHANGED exec
      BY <2>4, <3>1, TakeUpIs, OneTaken
    <3>2. CASE exec' = r /\ host'.file = next /\ job' = job
      BY <2>4, <3>2, TakeUpIs, OneTaken
    <3> QED BY <2>4, <3>1, <3>2, TakeUpIs
  <2>5. ASSUME NEW r \in wire, StopBegins(r)
        PROVE  OneRequest'
    BY <2>5, StopBeginsIs, OneTaken
  <2>6. ASSUME NEW r \in wire, SetMode(r)
        PROVE  OneRequest'
    <3>1. CASE ~Held
      BY <2>6, <3>1, SetModeIs, OneTaken
    <3>2. CASE Held
      <4>1. /\ wire' = wire \ {r} /\ exec' = exec /\ next' = next /\ host'.file = host.file
            /\ job'.at = job.at /\ job'.cmd = job.cmd /\ job'.plan = job.plan
            /\ job'.mode = job.mode /\ (~r.own => job' = job)
        BY <2>6, SetModeIs
      <4>2. \A q \in wire' : q.own => q \in wire /\ ~r.own
        BY <4>1 DEF OneRequest
      <4>3. exec.own => ~r.own
        BY <3>2 DEF OneRequest
      <4>4. \A q \in wire' : q.own => Answers(q)'
        BY <4>1, <4>2 DEF OneRequest, Answers, Asking
      <4>5. exec.own => Answers(exec)' /\ \A q \in wire' : ~q.own
        <5>1. ASSUME exec.own
              PROVE  Answers(exec)' /\ \A q \in wire' : ~q.own
          <6>1. job' = job /\ Answers(exec) /\ \A q \in wire : ~q.own
            BY <3>2, <4>1, <4>3, <5>1 DEF OneRequest
          <6> QED BY <4>1, <6>1 DEF Answers, Asking
        <5> QED BY <5>1
      <4>6. Delivered' => (Held => exec.own) /\ \A q \in wire' : q.own
        BY <4>1, Fewer DEF OneRequest
      <4>7. Held' <=> Held
        BY <4>1 DEF Held
      <4>8. \A q, p \in wire' : q.own /\ p.own => q = p
        BY <4>2 DEF OneRequest
      <4>9. job'.at = "await" /\ job'.cmd \in {"start", "reload"} =>
              next' = [plan |-> job'.plan, mode |-> job'.mode]
        BY <4>1 DEF OneRequest
      <4>10. Held /\ exec.own /\ exec.op \in {"start", "reload"} => host'.file = next'
        BY <4>1 DEF OneRequest
      <4> QED BY <4>1, <4>4, <4>5, <4>6, <4>7, <4>8, <4>9, <4>10 DEF OneRequest
    <3> QED BY <3>1, <3>2
  <2> QED BY <1>2, <2>1, <2>2, <2>3, <2>4, <2>5, <2>6 DEF Bridge
<1>3. CASE User
  BY <1>3, ToggleIs, StopAllIs, SetTailnetIs, EditIs, ChooseIs, OneStays DEF User
<1>4. CASE Environment
  <2>1. CASE HostStops \/ Restore \/ \E m \in Modes : PanelSets(m)
    BY <2>1, HostStopsIs, RestoreIs, PanelSetsIs, OneStays
  <2>2. CASE AnswerLost
    <3>1. ~Delivered'
      BY <2>2, AnswerLostIs DEF Delivered
    <3> QED BY <2>2, <3>1, AnswerLostIs, OneForgotten
  <2>3. CASE QueryFails
    BY <2>3, QueryFailsIs, OneAnswered
  <2>4. CASE DiskFails
    BY <2>4, DiskFailsIs, EndedIs, OneMoves
  <2>5. CASE Reopen
    <3>1. ~Delivered' /\ job'.at # "await"
      BY <2>5, ReopenIs, IdleIs DEF Delivered
    <3> QED BY <2>5, <3>1, ReopenIs, OneForgotten
  <2> QED BY <1>4, <2>1, <2>2, <2>3, <2>4, <2>5 DEF Environment
<1>5. CASE Poll
  BY <1>5, PollIs, OneStays
<1>6. CASE UNCHANGED vars
  BY <1>6, OneStays DEF vars, files, engine
<1> QED BY <1>1, <1>2, <1>3, <1>4, <1>5, <1>6 DEF Next

(* It begins with no request.                                               *)
LEMMA OneInit ==
  ASSUME Init
  PROVE  OneRequest
BY InitIs, IdleIs DEF OneRequest

-----------------------------------------------------------------------------
(* The plans a core has run.                                                *)

(* The coordinator moves on, and what it remembers has run.                 *)
LEMMA KeptMoves ==
  ASSUME Base, Base', Grows, KeptOK, UNCHANGED <<accepted, host, noted>>,
         Done' => Done /\ job'.plan = job.plan,
         Delivered =>
           /\ hash' \in Ran /\ job'.snap.hash \in Ran /\ look'.snap.hash \in Ran
           /\ job'.cmd = "switch" /\ job'.at \in {"compare", "await"} => job'.plan \in accepted
           /\ kept' # None => kept'.plan \in accepted
  PROVE  KeptOK'
<1>1. Delivered' => Delivered
  BY Fewer
<1>2. Ran' = Ran
  BY DEF Ran
<1> QED BY <1>1, <1>2 DEF KeptOK

(* The command stays where it is.                                           *)
LEMMA KeptStays ==
  ASSUME Base, Base', Grows, KeptOK,
         UNCHANGED <<accepted, host, noted, job, hash, kept>>,
         look'.snap.hash \in {look.snap.hash, host.hash, None}
  PROVE  KeptOK'
<1>1. Done' <=> Done
  BY DEF Done
<1>2. Delivered => look'.snap.hash \in Ran
  BY DEF KeptOK, Ran
<1> QED BY <1>1, <1>2, KeptMoves DEF KeptOK

(* The command ends.                                                        *)
LEMMA KeptEnds ==
  ASSUME Base, Base', Grows, KeptOK, UNCHANGED <<accepted, host, noted, kept>>,
         Ended, hash' \in {hash, None, job.snap.hash}
  PROVE  KeptOK'
<1>1. /\ job'.at = "idle" /\ job'.cmd = "none" /\ job'.snap.hash = None
      /\ look'.snap = look.snap
  BY EndedIs
<1>2. ~Done'
  BY <1>1 DEF Done
<1>3. Delivered => hash' \in Ran /\ None \in Ran
  BY DEF KeptOK, Ran
<1> QED BY <1>1, <1>2, <1>3, KeptMoves DEF KeptOK

(* Every step of the coordinator.                                           *)
LEMMA KeptCoordinates ==
  ASSUME Base, Base', Grows, OneRequest, KeptOK, Coordinator
  PROVE  KeptOK'
<1>0. None \in Ran
  BY DEF Ran
<1>1. CASE Begin
  <2>1. /\ job'.snap.hash = None /\ look'.snap = look.snap /\ job'.answer = "none"
        /\ job'.cmd # "switch"
        /\ UNCHANGED <<accepted, host, noted, kept, hash>>
    BY <1>1, BeginIs
  <2> QED BY <1>0, <2>1, KeptMoves DEF KeptOK, Done
<1>2. CASE AttachReads
  <2>1. /\ job'.snap.hash = host.hash /\ look' = look /\ job'.at = "adopt"
        /\ UNCHANGED <<accepted, host, noted, kept, hash>>
    BY <1>2, AttachReadsIs, SnapshotIs
  <2> QED BY <1>0, <2>1, KeptMoves DEF KeptOK, Done
<1>3. CASE AttachAdopts
  <2>1. expected \in Modes \cup {None}
    BY DEF Base, TypeOK
  <2>2. hash' \in {hash, None, job.snap.hash} /\ UNCHANGED <<accepted, host, noted, kept>>
    BY <1>3, <2>1, AttachAdoptsIs, AdoptIs
  <2> QED BY <1>3, <2>2, KeptEnds DEF AttachAdopts
<1>4. CASE Consent
  <2>1. UNCHANGED <<accepted, host, noted, kept>>
    BY <1>4, ConsentIs
  <2>2. CASE ShowStopped /\ Ended
    BY <2>1, <2>2, ShowStoppedIs, KeptEnds
  <2>3. CASE /\ job'.at = "compile" /\ job'.snap = job.snap /\ UNCHANGED <<hash, look>>
    BY <2>1, <2>3, KeptMoves DEF KeptOK, Done
  <2> QED BY <1>4, <2>2, <2>3, ConsentIs
<1>5. CASE Compile
  <2>1. UNCHANGED <<accepted, host, noted, kept>>
    BY <1>5, CompileIs
  <2>2. CASE Ended /\ hash' \in {hash, None}
    BY <2>1, <2>2, KeptEnds
  <2>3. CASE job'.at = "write" /\ job'.snap = job.snap /\ UNCHANGED <<hash, look>>
    BY <2>1, <2>3, KeptMoves DEF KeptOK, Done
  <2>4. CASE /\ job'.at = "compare" /\ job'.snap = job.snap /\ UNCHANGED <<hash, look>>
             /\ job'.plan = Current /\ Current = hash
    <3>1. Current # None
      BY CurrentIs, NoneIs
    <3>2. Delivered => job'.plan \in accepted
      BY <2>4, <3>1 DEF KeptOK, Ran
    <3> QED BY <2>1, <2>4, <3>2, KeptMoves DEF KeptOK, Done
  <2> QED BY <1>5, <2>2, <2>3, <2>4, CompileIs, ShowStoppedIs
<1>6. CASE WritePlan
  <2>1. /\ job'.cmd # "switch" /\ job'.answer = "none" /\ job'.snap = job.snap
        /\ UNCHANGED <<accepted, host, noted, kept, hash, look>>
    BY <1>6, WritePlanIs
  <2> QED BY <2>1, KeptMoves DEF KeptOK, Done
<1>7. CASE Compare
  <2>1. /\ job.cmd = "switch" /\ job.at = "compare" /\ job'.plan = job.plan
        /\ job'.snap = job.snap /\ job'.answer = "none"
        /\ UNCHANGED <<accepted, host, noted, hash, look>>
        /\ kept' \in {kept, [plan |-> job.plan, mode |-> job.mode]}
    BY <1>7, CompareIs, SwitchedIs
  <2>2. Delivered => job.plan \in accepted
    BY <2>1 DEF KeptOK
  <2>3. kept' # None => kept'.plan \in {kept.plan, job.plan} /\ (kept' = kept \/ kept'.plan = job.plan)
    BY <2>1
  <2> QED BY <2>1, <2>2, <2>3, KeptMoves DEF KeptOK, Done
<1>8. CASE Succeeded
  <2>1. /\ job.at = "await" /\ job.answer = "done" /\ job'.at = "refresh"
        /\ job'.snap = job.snap
        /\ UNCHANGED <<accepted, host, noted, look>>
    BY <1>8, SucceededIs
  <2>2. CASE Started
    <3>1. /\ Done /\ kept' = next /\ hash' = job.plan
          /\ next = [plan |-> job.plan, mode |-> job.mode]
      BY <2>1, <2>2, StartedIs DEF Done, OneRequest
    <3>2. job.plan \in accepted /\ kept'.plan = job.plan
      BY <3>1 DEF KeptOK
    <3> QED BY <2>1, <3>1, <3>2, KeptMoves DEF KeptOK, Done, Ran
  <2>3. CASE Switched
    <3>1. /\ job.cmd = "switch" /\ hash' = hash
          /\ kept' = kept \/ kept' = [plan |-> job.plan, mode |-> job.mode]
      BY <2>3, SwitchedIs
    <3>2. Delivered => job.plan \in accepted
      BY <2>1, <3>1 DEF KeptOK
    <3>3. kept' = kept \/ kept'.plan = job.plan
      BY <3>1
    <3> QED BY <2>1, <3>1, <3>2, <3>3, KeptMoves DEF KeptOK, Done
  <2>4. CASE ShowStopped /\ kept' = kept
    BY <1>0, <2>1, <2>4, ShowStoppedIs, KeptMoves DEF KeptOK, Done
  <2> QED BY <1>8, <2>2, <2>3, <2>4, SucceededIs
<1>9. CASE Refused
  <2>1. /\ HostException /\ job.at = "await"
        /\ UNCHANGED <<accepted, host, noted, kept>>
    BY <1>9, RefusedIs
  <2>2. CASE Ended /\ hash' \in {hash, None}
    BY <2>1, <2>2, KeptEnds
  <2>3. CASE job'.at = "refresh" /\ job'.snap = job.snap /\ UNCHANGED <<hash, look>>
    BY <2>1, <2>3, KeptMoves DEF KeptOK, Done
  <2> QED BY <2>1, <2>2, <2>3, ExceptionGives, ShowStoppedIs
<1>10. CASE FollowUp
  <2>1. /\ job'.at = "wait" /\ job'.snap = job.snap /\ look'.snap.hash \in {look.snap.hash, None}
        /\ UNCHANGED <<accepted, host, noted, kept, hash>>
    BY <1>10, FollowUpIs, AskIs
  <2> QED BY <1>0, <2>1, KeptMoves DEF KeptOK, Done
<1>11. CASE Receive
  <2>1. /\ job'.snap = job.snap /\ job'.cmd = job.cmd /\ job'.plan = job.plan
        /\ job'.answer = job.answer
        /\ job'.at = IF job.at = "wait" THEN "end" ELSE job.at
    BY <1>11, ReceiveIs, AnsweredIs
  <2>2. hash' \in {hash, None, look.snap.hash} /\ look'.snap.hash \in {look.snap.hash, None}
    BY <1>11, ReceiveIs, AdoptIs, NoLookIs
  <2>3. UNCHANGED <<accepted, host, noted, kept>>
    BY <1>11, ReceiveIs
  <2> QED BY <1>0, <2>1, <2>2, <2>3, KeptMoves DEF KeptOK, Done
<1>12. CASE WriteBack \/ Debounced
  BY <1>12, WriteBackIs, DebouncedIs, NoLookIs, KeptStays
<1>13. CASE End
  BY <1>13, EndIs, KeptEnds
<1> QED BY <1>1, <1>2, <1>3, <1>4, <1>5, <1>6, <1>7, <1>8, <1>9, <1>10, <1>11, <1>12, <1>13
        DEF Coordinator

(* The host moves on.                                                       *)
LEMMA KeptHosts ==
  ASSUME Base, Base', Grows, KeptOK, UNCHANGED <<hash, look, kept>>,
         accepted \subseteq accepted',
         job'.cmd = job.cmd, job'.plan = job.plan, job'.at = job.at, job'.snap = job.snap,
         Done' => Done \/ job.plan \in accepted',
         Delivered => host'.hash \in Ran' /\ noted' \in Ran'
  PROVE  KeptOK'
<1>1. Delivered' => Delivered
  BY Fewer
<1>2. Ran \subseteq Ran'
  BY DEF Ran
<1> QED BY <1>1, <1>2 DEF KeptOK

(* Every step of the engine.                                                *)
LEMMA KeptBridges ==
  ASSUME Base, Base', Grows, OneRequest, KeptOK, Bridge
  PROVE  KeptOK'
<1>0. None \in Ran /\ (accepted' = accepted => Ran' = Ran)
  BY DEF Ran
<1>1. CASE Serve
  BY <1>1, ServeIs, SnapshotIs, KeptStays
<1>2. CASE CoreStarts
  <2>1. /\ Held /\ exec.op \in {"start", "reload"}
        /\ job'.cmd = job.cmd /\ job'.plan = job.plan /\ job'.at = job.at
        /\ job'.snap = job.snap
        /\ ~exec.own => job' = job
        /\ UNCHANGED <<hash, look, kept>>
    BY <1>2, CoreStartsIs
  <2>2. exec.own => exec.hash = job.plan /\ host.file.plan = job.plan
    <3>1. ASSUME exec.own
          PROVE  exec.hash = job.plan /\ host.file.plan = job.plan
      <4>1. Answers(exec) /\ host.file = next
        BY <2>1, <3>1 DEF OneRequest
      <4>2. job.at = "await" /\ job.cmd \in {"start", "reload"} /\ exec.hash = job.plan
        BY <2>1, <4>1 DEF Answers, Asking, OpOf
      <4>3. next = [plan |-> job.plan, mode |-> job.mode]
        BY <4>2 DEF OneRequest
      <4> QED BY <4>1, <4>2, <4>3
    <3> QED BY <3>1
  <2>3. Delivered => exec.own
    BY <2>1 DEF OneRequest
  <2>4. CASE /\ host'.hash = exec.hash /\ noted' = exec.hash
             /\ accepted' = accepted \cup {host.file.plan}
    <3>1. exec.own => job.plan \in accepted' /\ exec.hash \in Ran'
      BY <2>2, <2>4 DEF Ran
    <3>2. Done' => Done \/ job.plan \in accepted'
      BY <2>1, <3>1 DEF Done
    <3> QED BY <2>1, <2>3, <2>4, <3>1, <3>2, KeptHosts
  <2>5. CASE /\ host'.hash = None /\ UNCHANGED <<noted, accepted>>
             /\ exec.own => job'.answer = "failed"
    <3>1. Done' => Done
      BY <2>1, <2>5 DEF Done
    <3> QED BY <1>0, <2>1, <2>5, <3>1, KeptHosts DEF KeptOK
  <2> QED BY <1>2, <2>4, <2>5, CoreStartsIs
<1>3. CASE StopEnds
  <2>1. /\ Held /\ exec.op = "stop" /\ host'.hash = None
        /\ job'.cmd = job.cmd /\ job'.plan = job.plan /\ job'.at = job.at
        /\ job'.snap = job.snap
        /\ ~exec.own => job' = job
        /\ UNCHANGED <<hash, look, kept, noted, accepted>>
    BY <1>3, StopEndsIs, StoppedIs
  <2>2. exec.own => job.cmd = "stop"
    BY <2>1 DEF OneRequest, Answers, OpOf, Base, TypeOK, JobOK, Jobs
  <2>3. Done' => Done
    BY <2>1, <2>2 DEF Done
  <2> QED BY <1>0, <2>1, <2>3, KeptHosts DEF KeptOK
<1>4. ASSUME NEW r \in wire, TakeUp(r)
      PROVE  KeptOK'
  <2>1. /\ job'.cmd = job.cmd /\ job'.plan = job.plan /\ job'.at = job.at
        /\ job'.snap = job.snap
        /\ UNCHANGED <<hash, look, kept, noted, accepted>>
        /\ host' = host \/ host'.hash = None
        /\ job' = job \/ job'.answer = "failed"
    BY <1>4, TakeUpIs
  <2>2. Done' => Done
    BY <2>1 DEF Done
  <2>3. Delivered => host'.hash \in Ran
    BY <1>0, <2>1 DEF KeptOK
  <2> QED BY <1>0, <2>1, <2>2, <2>3, KeptHosts DEF KeptOK
<1>5. ASSUME NEW r \in wire, StopBegins(r)
      PROVE  KeptOK'
  BY <1>0, <1>5, StopBeginsIs, KeptHosts DEF KeptOK, Done
<1>6. ASSUME NEW r \in wire, SetMode(r)
      PROVE  KeptOK'
  <2>1. /\ r.op = "setMode" /\ host'.hash = host.hash
        /\ job'.cmd = job.cmd /\ job'.plan = job.plan /\ job'.at = job.at
        /\ job'.snap = job.snap
        /\ ~r.own => job' = job
        /\ UNCHANGED <<hash, look, kept, noted, accepted>>
    BY <1>6, SetModeIs
  <2>2. r.own => job.cmd = "switch"
    BY <2>1 DEF OneRequest, Answers, OpOf, Base, TypeOK, JobOK, Jobs
  <2>3. Done' => Done
    BY <2>1, <2>2 DEF Done
  <2> QED BY <1>0, <2>1, <2>3, KeptHosts DEF KeptOK
<1> QED BY <1>1, <1>2, <1>3, <1>4, <1>5, <1>6 DEF Bridge

(* A coordinator that lost an answer knows of no plan any more.             *)
LEMMA KeptForgotten ==
  ASSUME ~Delivered', ~Done'
  PROVE  KeptOK'
BY DEF KeptOK

(* Every step.                                                              *)
LEMMA KeptStep ==
  ASSUME Base, Base', Grows, OneRequest, KeptOK, [Next]_vars
  PROVE  KeptOK'
<1>1. CASE User
  BY <1>1, ToggleIs, StopAllIs, SetTailnetIs, EditIs, ChooseIs, KeptStays DEF User
<1>2. CASE Environment
  <2>1. CASE HostStops
    <3>1. host'.hash = None
      BY <2>1, HostStopsIs, StoppedIs
    <3> QED BY <2>1, <3>1, HostStopsIs, KeptHosts DEF KeptOK, Ran, Done
  <2>2. CASE Restore
    <3>1. host'.hash = noted
      BY <2>2, RestoreIs DEF Running
    <3> QED BY <2>2, <3>1, RestoreIs, KeptHosts DEF KeptOK, Ran, Done
  <2>3. CASE \E m \in Modes : PanelSets(m)
    BY <2>3, PanelSetsIs, KeptHosts DEF KeptOK, Ran, Done
  <2>4. CASE AnswerLost
    BY <2>4, AnswerLostIs, KeptForgotten DEF Delivered, Done
  <2>5. CASE QueryFails
    <3>1. ~Delivered'
      BY <2>5, QueryFailsIs, SpendIs DEF Delivered, Kinds
    <3>2. /\ job'.cmd = job.cmd /\ job'.plan = job.plan /\ job'.answer = job.answer
          /\ job'.at \in {job.at, "end"} /\ UNCHANGED accepted
      BY <2>5, QueryFailsIs, AnsweredIs
    <3> QED BY <3>1, <3>2 DEF KeptOK, Done
  <2>6. CASE DiskFails
    BY <2>6, DiskFailsIs, KeptEnds
  <2>7. CASE Reopen
    BY <2>7, ReopenIs, IdleIs, KeptForgotten DEF Delivered, Done
  <2> QED BY <1>2, <2>1, <2>2, <2>3, <2>4, <2>5, <2>6, <2>7 DEF Environment
<1>3. CASE Poll
  BY <1>3, PollIs, AskIs, KeptStays
<1>4. CASE UNCHANGED vars
  BY <1>4, KeptStays DEF vars, session, files, engine, history
<1> QED BY <1>1, <1>2, <1>3, <1>4, KeptCoordinates, KeptBridges DEF Next

(* It begins with what ran before.                                          *)
LEMMA KeptInit ==
  ASSUME Init
  PROVE  KeptOK
BY InitIs, IdleIs, NoLookIs DEF KeptOK, Done, Ran

-----------------------------------------------------------------------------
(* What the user took back.                                                 *)

(* Nothing else in the queue looks like what is looked for.                 *)
LEMMA EnqueueOther ==
  ASSUME Base, NEW c \in Commands, Enqueue(c), NEW cs, c \notin cs
  PROVE  Has(queue', cs) <=> Has(queue, cs)
BY EnqueueHas

(* The one that reads the host at the start comes first.                    *)
LEMMA EnqueueFirst ==
  ASSUME Base, StartOK, NEW c \in Commands, Enqueue(c), c # "attach"
  PROVE  \A i \in 1 .. Len(queue') : queue'[i] = "attach" => i = 1
<1>1. Len(queue) \in Nat
  BY DEF Base, TypeOK
<1>2. ASSUME NEW i \in 1 .. Len(queue'), queue'[i] = "attach"
      PROVE  i = 1
  <2>1. CASE i \in 1 .. Len(queue)
    BY <1>2, <2>1, EnqueueIs DEF StartOK
  <2>2. CASE i \notin 1 .. Len(queue)
    <3>1. i = Len(queue) + 1
      BY <1>1, <1>2, <2>2, EnqueueIs
    <3> QED BY <1>2, <3>1, EnqueueIs
  <2> QED BY <2>1, <2>2
<1> QED BY <1>2

(* Behind the first command there is none that reads the host.              *)
LEMMA TailFirst ==
  ASSUME Base, StartOK, queue # <<>>
  PROVE  ~Has(Tail(queue), {"attach"})
<1>1. Len(queue) \in Nat
  BY DEF Base, TypeOK
<1>2. ASSUME NEW i \in 1 .. Len(Tail(queue)), Tail(queue)[i] = "attach"
      PROVE  FALSE
  <2>1. i + 1 \in 1 .. Len(queue) /\ queue[i + 1] = "attach"
    BY <1>1, <1>2, TailIs
  <2>2. i + 1 = 1
    BY <2>1 DEF StartOK
  <2> QED BY <1>2, <2>2
<1> QED BY <1>2 DEF Has

(* A command goes on.                                                       *)
LEMMA StartMoves ==
  ASSUME Base, StartOK, UNCHANGED <<queue, wanted, halted, tailnet>>, cancelled' => cancelled,
         job # Idle,
         job'.cmd = "start" => job.cmd = "start",
         job'.cmd # "attach" \/ job.cmd = "attach",
         job'.cmd = "start" /\ job'.at = "compile" => job.at = "compile" \/ wanted \/ tailnet,
         job'.cmd = "start" /\ job'.at \in {"write", "await"} =>
           \/ job.at \in {"write", "await"} /\ job'.plan = job.plan
           \/ job.at = "compile" /\ job'.plan = Current,
         job'.at = "adopt" /\ job'.snap.proxy => job'.snap.state = "running"
  PROVE  StartOK'
<1>1. ~Has(queue', {"attach"}) /\ (Has(queue', Starters) <=> Has(queue, Starters))
  BY DEF StartOK
<1>2. halted' /\ job'.at \in {"write", "await"} /\ job'.cmd = "start" => ~job'.plan.proxy
  BY CurrentIs DEF StartOK
<1>3. cancelled' /\ job'.cmd = "start" /\ job'.at = "compile" => tailnet'
  BY DEF StartOK
<1>4. cancelled' /\ job'.cmd = "start" /\ job'.at \in {"write", "await"} => job'.plan.tailnet
  BY CurrentIs DEF StartOK
<1>5. /\ halted' => ~wanted'
      /\ cancelled' /\ wanted' => job'.cmd # "start" /\ ~Has(queue', Starters)
      /\ \A i \in 1 .. Len(queue') : queue'[i] = "attach" => i = 1
      /\ job'.cmd = "attach" => ~cancelled'
  BY <1>1 DEF StartOK
<1> QED BY <1>1, <1>2, <1>3, <1>4, <1>5 DEF StartOK

(* A command ends.                                                          *)
LEMMA StartEnds ==
  ASSUME Base, StartOK, UNCHANGED <<queue, wanted, halted>>, cancelled' => cancelled,
         job # Idle, Ended
  PROVE  StartOK'
<1>1. job'.cmd = "none" /\ job'.at = "idle"
  BY EndedIs
<1>2. ~Has(queue', {"attach"}) /\ (Has(queue', Starters) <=> Has(queue, Starters))
  BY DEF StartOK
<1> QED BY <1>1, <1>2 DEF StartOK

(* The command stays where it is.                                           *)
LEMMA StartStays ==
  ASSUME Base, StartOK, UNCHANGED <<queue, wanted, halted, tailnet, cancelled>>,
         job'.at = job.at, job'.cmd = job.cmd, job'.plan = job.plan, job'.snap = job.snap,
         job = Idle => job' = Idle
  PROVE  StartOK'
<1>1. \A cs : Has(queue', cs) <=> Has(queue, cs)
  OBVIOUS
<1> QED BY <1>1 DEF StartOK

(* A command that starts nothing is put behind the others.                  *)
LEMMA StartQueues ==
  ASSUME Base, StartOK, UNCHANGED <<halted, job>>, NEW c \in Commands, Enqueue(c),
         c \notin Starters \/ ~cancelled' \/ ~wanted', c # "attach", halted => ~wanted',
         tailnet' = tailnet \/ ~cancelled',
         cancelled' => cancelled \/ (job.cmd = "start" /\ job.at = "consent" /\ ~wanted'),
         cancelled' /\ wanted' => cancelled /\ wanted
  PROVE  StartOK'
<1>1. (Has(queue', {"attach"}) <=> Has(queue, {"attach"}))
  BY EnqueueOther
<1>2. cancelled' /\ wanted' => ~Has(queue', Starters)
  BY EnqueueOther DEF StartOK
<1>3. \A i \in 1 .. Len(queue') : queue'[i] = "attach" => i = 1
  BY EnqueueFirst
<1>4. Has(queue', {"attach"}) => job' = Idle /\ ~cancelled'
  BY <1>1, IdleIs DEF StartOK
<1>5. /\ cancelled' /\ job'.cmd = "start" /\ job'.at = "compile" => tailnet'
      /\ cancelled' /\ job'.cmd = "start" /\ job'.at \in {"write", "await"} => job'.plan.tailnet
      /\ job'.cmd = "attach" => ~cancelled'
  BY DEF StartOK
<1> QED BY <1>2, <1>3, <1>4, <1>5 DEF StartOK

(* A command begins.                                                        *)
LEMMA StartBegins ==
  ASSUME Base, StartOK, Begin
  PROVE  StartOK'
<1>1. /\ queue # <<>> /\ queue' = Tail(queue) /\ job = Idle
      /\ job'.at \in {"read", "compile", "idle", "consent", "await"}
      /\ job'.cmd = "attach" => Head(queue) = "attach"
      /\ job'.cmd = "start" => job'.at = "consent" /\ Head(queue) \in Starters
      /\ UNCHANGED <<wanted, tailnet, halted, cancelled>>
  BY BeginIs DEF Starters
<1>2. ~Has(queue', {"attach"})
  BY <1>1, TailFirst
<1>3. /\ Has(queue, Starters) <=> Head(queue) \in Starters \/ Has(queue', Starters)
      /\ Has(queue, {"attach"}) <=> Head(queue) = "attach" \/ Has(queue', {"attach"})
  BY <1>1, TailHas
<1>4. \A i \in 1 .. Len(queue') : queue'[i] # "attach"
  BY <1>2 DEF Has
<1> QED BY <1>1, <1>2, <1>3, <1>4 DEF StartOK

(* A snapshot comes back.                                                   *)
LEMMA StartReceives ==
  ASSUME Base, StartOK, Receive
  PROVE  StartOK'
<1>1. /\ job' = Answered /\ UNCHANGED <<queue, tailnet, cancelled>>
      /\ job'.cmd = job.cmd /\ job'.plan = job.plan /\ job'.snap = job.snap
      /\ job'.at = IF job.at = "wait" THEN "end" ELSE job.at
      /\ job.at # "wait" => job' = job
  BY ReceiveIs, AnsweredIs
<1>2. CASE UNCHANGED <<wanted, halted>>
  <2>1. CASE job = Idle
    BY <1>1, <1>2, <2>1, IdleIs, StartStays
  <2>2. CASE job # Idle
    BY <1>1, <1>2, <2>2, StartMoves DEF StartOK
  <2> QED BY <2>1, <2>2
<1>3. CASE /\ wanted' = IntentAfter(look.snap) /\ wanted' \in BOOLEAN
           /\ halted' = ((halted \/ SeenToEnd(look.snap)) /\ ~SeenToRun(look.snap))
  <2>0. wanted \in BOOLEAN /\ halted \in BOOLEAN /\ look.snap.proxy \in BOOLEAN
        /\ look.snap.state \in States
    BY ReceiveIs DEF Base, TypeOK, Snapshots
  <2>1. CASE job # Idle
    <3>1. wanted' = wanted /\ halted' = halted
      BY <1>3, <2>0, <2>1 DEF IntentAfter, SeenToEnd, SeenToRun
    <3> QED BY <1>2, <3>1
  <2>2. CASE job = Idle
    <3>1. job' = Idle /\ queue = <<>> /\ job.at = "idle" /\ job.cmd = "none"
      BY <1>1, <2>2, IdleIs, ReceiveIs DEF Between
    <3>2. Len(queue') = 0
      BY <1>1, <3>1
    <3>3. halted' => ~wanted'
      BY <1>3, <2>0, <2>2 DEF IntentAfter, SeenToEnd, SeenToRun, StartOK, States
    <3>4. \A cs : ~Has(queue', cs)
      BY <3>2 DEF Has
    <3> QED BY <1>1, <2>2, <3>1, <3>2, <3>3, <3>4 DEF StartOK
  <2> QED BY <2>1, <2>2
<1> QED BY <1>2, <1>3, ReceiveIs

(* attach() adopts what it read.                                            *)
LEMMA StartAdopts ==
  ASSUME Base, StartOK, AttachAdopts
  PROVE  StartOK'
<1>1. /\ job.cmd = "attach" /\ job.at = "adopt" /\ job # Idle /\ job.snap \in Snapshots
      /\ job' = Idle /\ job'.at = "idle" /\ job'.cmd = "none"
      /\ UNCHANGED cancelled
  BY AttachAdoptsIs, IdleIs
<1>2. ~cancelled' /\ ~Has(queue, {"attach"})
  BY <1>1 DEF StartOK
<1>3. \/ \E c \in Commands \ {"attach"} : Enqueue(c)
      \/ UNCHANGED queue
  BY AttachAdoptsIs DEF Commands
<1>4. ~Has(queue', {"attach"})
  BY <1>2, <1>3, EnqueueOther
<1>5. \A i \in 1 .. Len(queue') : queue'[i] = "attach" => i = 1
  BY <1>4 DEF Has
<1>6. halted' => ~wanted'
  <2>1. job.snap.proxy \in BOOLEAN /\ wanted \in BOOLEAN /\ halted \in BOOLEAN
        /\ touched \in BOOLEAN
    BY <1>1 DEF Snapshots, Base, TypeOK
  <2>2. CASE /\ wanted' = (IF touched THEN wanted ELSE job.snap.proxy)
             /\ halted' = (halted /\ ~job.snap.proxy)
    BY <2>1, <2>2 DEF StartOK
  <2>3. CASE /\ wanted' = (IF touched THEN wanted ELSE job.snap.proxy)
             /\ job.snap.state # "running" /\ halted' = halted
    BY <1>1, <2>1, <2>3 DEF StartOK
  <2> QED BY <2>2, <2>3, AttachAdoptsIs
<1> QED BY <1>1, <1>2, <1>4, <1>5, <1>6 DEF StartOK

(* Every step of the coordinator.                                           *)
LEMMA StartCoordinates ==
  ASSUME Base, Base', StartOK, Coordinator
  PROVE  StartOK'
<1>1. CASE AttachReads
  <2>1. /\ job'.snap.proxy <=> (Up /\ host.file.plan.proxy)
        /\ job'.snap.state = host.state
    BY <1>1, AttachReadsIs, SnapshotIs
  <2>2. job # Idle
    BY <1>1, AttachReadsIs, IdleIs
  <2> QED BY <1>1, <2>1, <2>2, AttachReadsIs, StartMoves DEF Up
<1>2. CASE Consent
  <2>1. CASE Ended
    BY <1>2, <2>1, ConsentIs, StartEnds
  <2>2. CASE job'.at = "compile" /\ (wanted \/ tailnet) /\ job'.cmd = "start"
    BY <1>2, <2>2, ConsentIs, StartMoves
  <2> QED BY <1>2, <2>1, <2>2, ConsentIs
<1>3. CASE Compile
  <2>1. CASE Ended
    BY <1>3, <2>1, CompileIs, StartEnds
  <2>2. CASE job'.at \in {"write", "compare"} /\ job'.plan = Current
    <3>1. /\ job'.cmd = "start" => job.cmd = "start"
          /\ job'.cmd # "attach" /\ job.at = "compile" /\ job # Idle
          /\ UNCHANGED <<queue, wanted, halted, tailnet, cancelled>>
      BY <1>3, <2>2, CompileIs, EndedIs
    <3> QED BY <2>2, <3>1, StartMoves
  <2> QED BY <1>3, <2>1, <2>2, CompileIs
<1>4. CASE WritePlan
  BY <1>4, WritePlanIs, StartMoves
<1>5. CASE Compare
  BY <1>5, CompareIs, StartMoves
<1>6. CASE Succeeded
  <2>1. job # Idle
    BY <1>6, SucceededIs, IdleIs
  <2> QED BY <1>6, <2>1, SucceededIs, StartMoves
<1>7. CASE Refused
  <2>1. /\ job # Idle /\ HostException /\ job.at = "await"
        /\ UNCHANGED <<queue, wanted, halted, tailnet, cancelled>>
    BY <1>7, RefusedIs, IdleIs
  <2>2. CASE Ended
    BY <2>1, <2>2, StartEnds
  <2>3. CASE job.cmd \in {"reload", "switch", "stop"} /\ job'.at = "refresh" /\ job'.cmd = job.cmd
    BY <2>1, <2>3, StartMoves
  <2> QED BY <2>1, <2>2, <2>3, ExceptionGives
<1>8. CASE FollowUp
  BY <1>8, FollowUpIs, StartMoves
<1>9. CASE WriteBack
  <2>1. UNCHANGED <<wanted, halted, tailnet, cancelled, job>> /\ "sync" \in Commands
        /\ "sync" \notin Starters
    BY <1>9, WriteBackIs DEF Commands, Starters
  <2>2. CASE UNCHANGED queue
    BY <2>1, <2>2, StartStays
  <2>3. CASE Enqueue("sync")
    BY <2>1, <2>3, StartQueues DEF StartOK
  <2> QED BY <1>9, <2>2, <2>3, WriteBackIs
<1>10. CASE Debounced
  <2>1. UNCHANGED <<wanted, halted, tailnet, cancelled, job>> /\ "sync" \in Commands
        /\ "sync" \notin Starters /\ Enqueue("sync")
    BY <1>10, DebouncedIs DEF Commands, Starters
  <2> QED BY <2>1, StartQueues DEF StartOK
<1>11. CASE End
  BY <1>11, EndIs, StartEnds
<1> QED BY <1>1, <1>2, <1>3, <1>4, <1>5, <1>6, <1>7, <1>8, <1>9, <1>10, <1>11, StartBegins,
           StartReceives, StartAdopts DEF Coordinator

(* Every step of the engine.                                                *)
LEMMA StartBridges ==
  ASSUME Base, OneRequest, StartOK, Bridge
  PROVE  StartOK'
<1>1. Asking => job # Idle
  BY IdleIs DEF Asking
<1>2. CASE Serve \/ \E r \in wire : StopBegins(r)
  BY <1>2, ServeIs, StopBeginsIs, StartStays
<1>3. CASE CoreStarts
  BY <1>1, <1>3, CoreStartsIs, StartStays
<1>4. CASE StopEnds
  BY <1>1, <1>4, StopEndsIs, StartStays
<1>5. ASSUME NEW r \in wire, TakeUp(r) \/ SetMode(r)
      PROVE  StartOK'
  <2>1. CASE TakeUp(r)
    <3>1. job = Idle => job' = Idle
      BY <1>1, <2>1, TakeUpIs
    <3> QED BY <2>1, <3>1, TakeUpIs, StartStays
  <2>2. CASE SetMode(r)
    BY <1>1, <2>2, SetModeIs, StartStays
  <2> QED BY <1>5, <2>1, <2>2
<1> QED BY <1>2, <1>3, <1>4, <1>5 DEF Bridge

(* Every step of the user.                                                  *)
LEMMA StartUser ==
  ASSUME Base, StartOK, User
  PROVE  StartOK'
<1>0. /\ {"connect", "disconnect", "sync", "tailnetOn", "tailnetOff", "stopAll"} \subseteq Commands
      /\ "disconnect" \notin Starters /\ "sync" \notin Starters /\ "stopAll" \notin Starters
  BY DEF Commands, Starters
<1>1. CASE Toggle
  <2>1. CASE /\ Enqueue("disconnect") /\ ~wanted' /\ halted' = halted
             /\ cancelled' = (job.cmd = "start" /\ job.at = "consent")
    BY <1>0, <1>1, <2>1, ToggleIs, StartQueues
  <2>2. CASE Enqueue("connect") /\ wanted' /\ ~halted' /\ ~cancelled'
    <3>1. job' = job
      BY <1>1, ToggleIs
    <3>2. (Has(queue', {"attach"}) <=> Has(queue, {"attach"}))
      BY <1>0, <2>2, EnqueueOther
    <3>3. \A i \in 1 .. Len(queue') : queue'[i] = "attach" => i = 1
      BY <1>0, <2>2, EnqueueFirst
    <3> QED BY <2>2, <3>1, <3>2, <3>3 DEF StartOK
  <2> QED BY <1>1, <2>1, <2>2, ToggleIs
<1>2. CASE StopAll
  BY <1>0, <1>2, StopAllIs, StartQueues DEF StartOK
<1>3. CASE SetTailnetEnabled
  <2>1. PICK c \in {"tailnetOn", "tailnetOff"} : Enqueue(c)
    BY <1>3, SetTailnetIs
  <2>2. /\ ~cancelled' /\ UNCHANGED <<wanted, halted, job>>
    BY <1>3, SetTailnetIs
  <2> QED BY <1>0, <2>1, <2>2, StartQueues DEF StartOK
<1>4. CASE \E c \in Cfgs : Edit(c)
  BY <1>4, EditIs, StartStays
<1>5. ASSUME NEW m \in Modes, Choose(m)
      PROVE  StartOK'
  <2>1. UNCHANGED <<wanted, halted, tailnet, cancelled, job>>
    BY <1>5, ChooseIs
  <2>2. CASE UNCHANGED queue
    BY <2>1, <2>2, StartStays
  <2>3. CASE Enqueue("sync")
    BY <1>0, <2>1, <2>3, StartQueues DEF StartOK
  <2> QED BY <1>5, <2>2, <2>3, ChooseIs
<1> QED BY <1>1, <1>2, <1>3, <1>4, <1>5 DEF User

(* Every step.                                                              *)
LEMMA StartStep ==
  ASSUME Base, Base', OneRequest, StartOK, [Next]_vars
  PROVE  StartOK'
<1>1. CASE Environment
  <2>1. CASE HostStops \/ Restore \/ \E m \in Modes : PanelSets(m)
    BY <2>1, HostStopsIs, RestoreIs, PanelSetsIs, StartStays
  <2>2. CASE AnswerLost
    <3>1. /\ job # Idle /\ HostException /\ job.at \in {"read", "compare", "await"}
          /\ UNCHANGED <<queue, wanted, halted, tailnet, cancelled>>
      BY <2>2, AnswerLostIs, IdleIs
    <3>2. CASE Ended
      BY <3>1, <3>2, StartEnds
    <3>3. CASE job.cmd \in {"reload", "switch", "stop"} /\ job'.at = "refresh" /\ job'.cmd = job.cmd
      BY <3>1, <3>3, StartMoves
    <3> QED BY <3>1, <3>2, <3>3, ExceptionGives
  <2>3. CASE QueryFails
    <3>1. /\ job' = Answered /\ UNCHANGED <<queue, wanted, halted, tailnet, cancelled>>
          /\ job'.cmd = job.cmd /\ job'.plan = job.plan /\ job'.snap = job.snap
          /\ job'.at = IF job.at = "wait" THEN "end" ELSE job.at
          /\ job.at # "wait" => job' = job
      BY <2>3, QueryFailsIs, AnsweredIs
    <3>2. CASE job = Idle
      BY <3>1, <3>2, IdleIs, StartStays
    <3>3. CASE job # Idle
      BY <3>1, <3>3, StartMoves DEF StartOK
    <3> QED BY <3>2, <3>3
  <2>4. CASE DiskFails
    BY <2>4, DiskFailsIs, IdleIs, StartEnds
  <2>5. CASE Reopen
    <3>1. /\ ~wanted' /\ ~cancelled' /\ queue' = <<"attach">> /\ job' = Idle
      BY <2>5, ReopenIs
    <3>2. Len(queue') = 1
      BY <3>1
    <3> QED BY <3>1, <3>2, IdleIs DEF StartOK
  <2> QED BY <1>1, <2>1, <2>2, <2>3, <2>4, <2>5 DEF Environment
<1>2. CASE Poll
  BY <1>2, PollIs, StartStays
<1>3. CASE UNCHANGED vars
  BY <1>3, StartStays DEF vars, intent, settings, history
<1> QED BY <1>1, <1>2, <1>3, StartCoordinates, StartBridges, StartUser DEF Next

(* It begins with nothing taken back.                                       *)
LEMMA StartInit ==
  ASSUME Init
  PROVE  StartOK
<1>1. Len(queue) = 1 /\ ~halted /\ ~cancelled /\ job = Idle
  BY InitIs
<1> QED BY <1>1, IdleIs DEF StartOK

-----------------------------------------------------------------------------
(* The note of the hash.                                                    *)

(* A step that leaves the note and gets no start or reload done.            *)
LEMMA NoteMoves ==
  ASSUME Base, Base', Grows, NoteOK, noted' = noted,
         host'.hash \in {host.hash, None, noted},
         Done => job'.plan = job.plan, Done' <=> Done,
         Told /\ ~Done => hash' \in {hash, None, noted},
         attested' \in {attested, None} \/ (~Done /\ attested' = job.plan /\ job.cmd = "switch"),
         look'.fresh /\ look'.at = "served" =>
           \/ look.fresh /\ look.at = "served" /\ look'.snap = look.snap
           \/ look'.snap.hash = host.hash,
         job'.at = "adopt" =>
           \/ job.at = "adopt" /\ job'.snap = job.snap
           \/ job'.snap.hash = host.hash,
         job'.cmd = "switch" =>
           \/ job.cmd = "switch" /\ job'.plan = job.plan
           \/ job'.plan = hash /\ hash # None
  PROVE  NoteOK'
<1>1. Told' => Told
  BY Fewer
<1> QED BY <1>1 DEF NoteOK

(* The command stays where it is.                                           *)
LEMMA NoteStays ==
  ASSUME Base, Base', Grows, NoteOK, UNCHANGED <<noted, hash, attested, job>>,
         host'.hash \in {host.hash, None, noted},
         look'.fresh /\ look'.at = "served" =>
           \/ look.fresh /\ look.at = "served" /\ look'.snap = look.snap
           \/ look'.snap.hash = host.hash
  PROVE  NoteOK'
<1>1. Done' <=> Done
  BY DEF Done
<1> QED BY <1>1, NoteMoves

(* The command ends before it is done.                                      *)
LEMMA NoteEnds ==
  ASSUME Base, Base', Grows, NoteOK, UNCHANGED <<noted, host>>, ~Done, Ended,
         attested' \in {attested, None}, Told => hash' \in {hash, None, noted}
  PROVE  NoteOK'
<1>1. job'.cmd = "none" /\ job'.at = "idle" /\ ~look'.fresh
  BY EndedIs
<1>2. ~Done'
  BY <1>1 DEF Done
<1> QED BY <1>1, <1>2, NoteMoves

(* Something was lost: the note may say anything.                           *)
LEMMA NoteForgotten ==
  ASSUME ~Told'
  PROVE  NoteOK'
BY DEF NoteOK

(* Every step of the coordinator.                                           *)
LEMMA NoteCoordinates ==
  ASSUME Base, Base', Grows, NoteOK, Coordinator
  PROVE  NoteOK'
<1>1. CASE Begin
  <2>1. /\ ~look'.fresh /\ job'.answer = "none" /\ job'.cmd # "switch" /\ job'.at # "adopt"
        /\ job.at # "await"
        /\ UNCHANGED <<host, noted, hash, attested>>
    BY <1>1, BeginIs, IdleIs
  <2> QED BY <2>1, NoteMoves DEF Done
<1>2. CASE AttachReads
  <2>1. /\ job'.snap.hash = host.hash /\ look' = look /\ job'.at = "adopt" /\ job.at = "read"
        /\ job'.cmd = "attach"
        /\ UNCHANGED <<host, noted, hash, attested>>
    BY <1>2, AttachReadsIs, SnapshotIs
  <2> QED BY <2>1, NoteMoves DEF Done
<1>3. CASE AttachAdopts
  <2>1. expected \in Modes \cup {None}
    BY DEF Base, TypeOK
  <2>2. /\ hash' \in {hash, None, job.snap.hash} /\ attested' \in {attested, None}
        /\ UNCHANGED <<host, noted>> /\ job.at = "adopt"
    BY <1>3, <2>1, AttachAdoptsIs, AdoptIs
  <2>3. ~Done
    BY <2>2 DEF Done
  <2>4. Told => hash' \in {hash, None, noted}
    BY <2>2, <2>3 DEF NoteOK
  <2> QED BY <1>3, <2>2, <2>3, <2>4, NoteEnds DEF AttachAdopts
<1>4. CASE Consent
  <2>1. UNCHANGED <<host, noted>> /\ ~Done
    BY <1>4, ConsentIs DEF Done
  <2>2. CASE ShowStopped /\ Ended
    BY <2>1, <2>2, ShowStoppedIs, NoteEnds
  <2>3. CASE /\ job'.at = "compile" /\ job'.cmd = "start" /\ UNCHANGED <<hash, attested, look>>
    BY <2>1, <2>3, NoteMoves DEF Done
  <2> QED BY <1>4, <2>2, <2>3, ConsentIs
<1>5. CASE Compile
  <2>1. UNCHANGED <<host, noted>> /\ ~Done
    BY <1>5, CompileIs DEF Done
  <2>2. CASE Ended /\ hash' \in {hash, None} /\ attested' \in {attested, None}
    BY <2>1, <2>2, NoteEnds
  <2>3. CASE /\ job'.at = "write" /\ job'.cmd \in {"start", "reload"}
             /\ UNCHANGED <<hash, attested, look>>
    BY <2>1, <2>3, NoteMoves DEF Done
  <2>4. CASE /\ job'.at = "compare" /\ UNCHANGED <<hash, attested, look>>
             /\ job'.plan = Current /\ Current = hash
    <3>1. Current # None
      BY CurrentIs, NoneIs
    <3> QED BY <2>1, <2>4, <3>1, NoteMoves DEF Done
  <2> QED BY <1>5, <2>2, <2>3, <2>4, CompileIs, ShowStoppedIs
<1>6. CASE WritePlan
  <2>1. /\ job'.cmd # "switch" /\ job'.answer = "none" /\ job'.at = "await" /\ job.at = "write"
        /\ UNCHANGED <<host, noted, hash, attested, look>>
    BY <1>6, WritePlanIs
  <2> QED BY <2>1, NoteMoves DEF Done
<1>7. CASE Compare
  <2>1. /\ job.cmd = "switch" /\ job.at = "compare" /\ job'.plan = job.plan
        /\ job'.at \in {"await", "refresh"} /\ job'.answer = "none"
        /\ UNCHANGED <<host, noted, hash, look>>
        /\ attested' \in {attested, None, job.plan}
    BY <1>7, CompareIs, SwitchedIs
  <2> QED BY <2>1, NoteMoves DEF Done
<1>8. CASE Succeeded
  <2>1. /\ job.at = "await" /\ job.answer = "done" /\ job'.at = "refresh" /\ Arrives
        /\ job'.cmd = job.cmd /\ job'.plan = job.plan
        /\ UNCHANGED <<host, noted, look>>
    BY <1>8, SucceededIs
  <2>2. CASE Started
    <3>1. /\ Done /\ ~Done' /\ hash' = job.plan /\ attested' \in {job.plan, None}
          /\ job.cmd \in {"start", "reload"}
      BY <2>1, <2>2, StartedIs DEF Done
    <3>2. Told' => Told
      BY Fewer
    <3>3. Told' => ~(look.fresh /\ look.at = "served")
      <4>1. look.at = "served" /\ look.fresh => spent'["reorder"] > 0
        BY <2>1, ArrivesIs
      <4> QED BY <4>1 DEF Told
    <3> QED BY <2>1, <3>1, <3>2, <3>3 DEF NoteOK
  <2>3. CASE Switched
    <3>1. /\ job.cmd = "switch" /\ hash' = hash /\ attested' \in {job.plan, None} /\ ~Done /\ ~Done'
      BY <2>1, <2>3, SwitchedIs DEF Done
    <3> QED BY <2>1, <3>1, NoteMoves
  <2>4. CASE job.cmd = "stop" /\ ShowStopped
    BY <2>1, <2>4, ShowStoppedIs, NoteMoves DEF Done
  <2> QED BY <1>8, <2>2, <2>3, <2>4, SucceededIs
<1>9. CASE Refused
  <2>1. /\ HostException /\ job.at = "await" /\ ~Done
        /\ UNCHANGED <<host, noted>>
    BY <1>9, RefusedIs DEF Done
  <2>2. CASE Ended /\ hash' \in {hash, None} /\ attested' \in {attested, None}
    BY <2>1, <2>2, NoteEnds
  <2>3. CASE /\ job'.at = "refresh" /\ job'.cmd = job.cmd /\ job'.plan = job.plan
             /\ UNCHANGED <<hash, attested, look>>
    BY <2>1, <2>3, NoteMoves DEF Done
  <2> QED BY <2>1, <2>2, <2>3, ExceptionGives, ShowStoppedIs
<1>10. CASE FollowUp
  <2>1. /\ job'.at = "wait" /\ job.at = "refresh" /\ job'.cmd = job.cmd /\ job'.plan = job.plan
        /\ look' = look \/ look'.at = "sent"
        /\ UNCHANGED <<host, noted, hash, attested>>
    BY <1>10, FollowUpIs, AskIs
  <2> QED BY <2>1, NoteMoves DEF Done
<1>11. CASE Receive
  <2>1. /\ job'.snap = job.snap /\ job'.cmd = job.cmd /\ job'.plan = job.plan
        /\ job'.answer = job.answer
        /\ job'.at = IF job.at = "wait" THEN "end" ELSE job.at
    BY <1>11, ReceiveIs, AnsweredIs
  <2>2. /\ hash' = hash \/ (look.fresh /\ hash' \in {hash, None, look.snap.hash})
        /\ attested' \in {attested, None} /\ look.at = "served"
        /\ look'.at # "served"
    BY <1>11, ReceiveIs, AdoptIs, NoLookIs
  <2>3. UNCHANGED <<host, noted>>
    BY <1>11, ReceiveIs
  <2>4. Done' <=> Done
    BY <2>1 DEF Done
  <2>5. Told /\ ~Done => hash' \in {hash, None, noted}
    BY <2>2 DEF NoteOK
  <2> QED BY <2>1, <2>2, <2>3, <2>4, <2>5, NoteMoves
<1>12. CASE WriteBack \/ Debounced
  BY <1>12, WriteBackIs, DebouncedIs, NoLookIs, NoteStays
<1>13. CASE End
  BY <1>13, EndIs, NoteEnds DEF Done
<1> QED BY <1>1, <1>2, <1>3, <1>4, <1>5, <1>6, <1>7, <1>8, <1>9, <1>10, <1>11, <1>12, <1>13
        DEF Coordinator

(* The host moves on, and no start or reload gets done.                     *)
LEMMA NoteHosts ==
  ASSUME Base, Base', Grows, NoteOK, UNCHANGED <<noted, hash, attested, look>>,
         host'.hash \in {host.hash, None},
         job'.cmd = job.cmd, job'.plan = job.plan, job'.at = job.at, job'.snap = job.snap,
         Done' <=> Done
  PROVE  NoteOK'
BY NoteMoves

(* Every step of the engine.                                                *)
LEMMA NoteBridges ==
  ASSUME Base, Base', Grows, OneRequest, NoteOK, Bridge
  PROVE  NoteOK'
<1>1. CASE Serve
  BY <1>1, ServeIs, SnapshotIs, NoteStays
<1>2. CASE CoreStarts
  <2>1. /\ Held /\ exec.op \in {"start", "reload"}
        /\ job'.cmd = job.cmd /\ job'.plan = job.plan /\ job'.at = job.at
        /\ job'.snap = job.snap
        /\ ~exec.own => job' = job
        /\ UNCHANGED <<hash, look, attested>>
    BY <1>2, CoreStartsIs
  <2>2. exec.own => /\ exec.hash = job.plan /\ job.at = "await" /\ job.answer = "none"
                    /\ job.cmd \in {"start", "reload"}
    BY <2>1 DEF OneRequest, Answers, Asking, OpOf
  <2>3. CASE /\ host'.hash = exec.hash /\ noted' = exec.hash
             /\ exec.own => job'.answer = "done"
    <3>1. Told' => Told /\ Delivered
      BY Fewer DEF Told, Delivered
    <3>2. Told' => exec.own
      BY <2>1, <3>1 DEF OneRequest
    <3>3. exec.own => Done' /\ noted' = job'.plan
      BY <2>1, <2>2, <2>3 DEF Done
    <3> QED BY <2>3, <3>1, <3>2, <3>3 DEF NoteOK
  <2>4. CASE /\ host'.hash = None /\ noted' = noted
             /\ exec.own => job'.answer = "failed"
    <3>1. Done' <=> Done
      BY <2>1, <2>2, <2>4 DEF Done
    <3> QED BY <2>1, <2>4, <3>1, NoteHosts
  <2> QED BY <1>2, <2>3, <2>4, CoreStartsIs
<1>3. CASE StopEnds
  <2>1. /\ Held /\ exec.op = "stop" /\ host'.hash = None
        /\ job'.cmd = job.cmd /\ job'.plan = job.plan /\ job'.at = job.at
        /\ job'.snap = job.snap
        /\ ~exec.own => job' = job
        /\ UNCHANGED <<hash, look, attested, noted>>
    BY <1>3, StopEndsIs, StoppedIs
  <2>2. exec.own => job.cmd = "stop"
    BY <2>1 DEF OneRequest, Answers, OpOf, Base, TypeOK, JobOK, Jobs
  <2>3. Done' <=> Done
    BY <2>1, <2>2 DEF Done
  <2> QED BY <2>1, <2>3, NoteHosts
<1>4. ASSUME NEW r \in wire, TakeUp(r)
      PROVE  NoteOK'
  <2>1. /\ job'.cmd = job.cmd /\ job'.plan = job.plan /\ job'.at = job.at
        /\ job'.snap = job.snap
        /\ UNCHANGED <<hash, look, noted, attested>>
        /\ host' = host \/ host'.hash = None
        /\ job' = job \/ (job'.answer = "failed" /\ Asking)
    BY <1>4, TakeUpIs
  <2>2. Done' <=> Done
    BY <2>1 DEF Done, Asking
  <2> QED BY <2>1, <2>2, NoteHosts
<1>5. ASSUME NEW r \in wire, StopBegins(r)
      PROVE  NoteOK'
  BY <1>5, StopBeginsIs, NoteStays
<1>6. ASSUME NEW r \in wire, SetMode(r)
      PROVE  NoteOK'
  <2>1. /\ r.op = "setMode" /\ host'.hash = host.hash
        /\ job'.cmd = job.cmd /\ job'.plan = job.plan /\ job'.at = job.at
        /\ job'.snap = job.snap
        /\ ~r.own => job' = job
        /\ UNCHANGED <<hash, look, attested, noted>>
    BY <1>6, SetModeIs
  <2>2. r.own => job.cmd = "switch"
    BY <2>1 DEF OneRequest, Answers, OpOf, Base, TypeOK, JobOK, Jobs
  <2>3. Done' <=> Done
    BY <2>1, <2>2 DEF Done
  <2> QED BY <2>1, <2>3, NoteHosts
<1> QED BY <1>1, <1>2, <1>3, <1>4, <1>5, <1>6 DEF Bridge

(* Every step.                                                              *)
LEMMA NoteStep ==
  ASSUME Base, Base', Grows, OneRequest, NoteOK, [Next]_vars
  PROVE  NoteOK'
<1>1. CASE User
  BY <1>1, ToggleIs, StopAllIs, SetTailnetIs, EditIs, ChooseIs, NoteStays DEF User
<1>2. CASE Environment
  <2>1. CASE HostStops
    <3>1. host'.hash = None
      BY <2>1, HostStopsIs, StoppedIs
    <3> QED BY <2>1, <3>1, HostStopsIs, NoteStays
  <2>2. CASE Restore
    <3>1. host'.hash = noted
      BY <2>2, RestoreIs DEF Running
    <3> QED BY <2>2, <3>1, RestoreIs, NoteStays
  <2>3. CASE \E m \in Modes : PanelSets(m)
    BY <2>3, PanelSetsIs, NoteStays
  <2>4. CASE AnswerLost
    BY <2>4, AnswerLostIs, NoteForgotten DEF Told
  <2>5. CASE QueryFails
    BY <2>5, QueryFailsIs, SpendIs, NoteForgotten DEF Told, Kinds
  <2>6. CASE DiskFails
    BY <2>6, DiskFailsIs, SpendIs, NoteForgotten DEF Told, Kinds
  <2>7. CASE Reopen
    BY <2>7, ReopenIs, NoteForgotten DEF Told
  <2> QED BY <1>2, <2>1, <2>2, <2>3, <2>4, <2>5, <2>6, <2>7 DEF Environment
<1>3. CASE Poll
  BY <1>3, PollIs, AskIs, NoteStays
<1>4. CASE UNCHANGED vars
  BY <1>4, NoteStays DEF vars, shown, session, files, engine, history
<1> QED BY <1>1, <1>2, <1>3, <1>4, NoteCoordinates, NoteBridges DEF Next

(* It begins with the note of what was kept.                                *)
LEMMA NoteInit ==
  ASSUME Init
  PROVE  NoteOK
BY InitIs, IdleIs, NoLookIs DEF NoteOK, Done

-----------------------------------------------------------------------------
(* Where coordinator and host stand.                                        *)

(* What is known while nothing was disturbed.                               *)
LEMMA PlaceFacts ==
  ASSUME Base, OneRequest, StartOK, PlaceOK, Undisturbed
  PROVE  /\ Delivered /\ Filed /\ SeenOK /\ Placed
         /\ ~Asking => /\ wire = {} /\ ~Held
                       /\ host.state \in {"stopped", "failed", "running"}
         /\ Held => wire = {} /\ exec.own /\ Answers(exec)
         /\ \A r \in wire : wire \ {r} = {} /\ Answers(r) /\ r.own
         /\ job # Idle => ~Has(queue, {"attach"})
         /\ Up => host.file \in PlanFiles /\ host.hash \in Plans /\ host.hash # None
<1>1. Delivered /\ Filed /\ SeenOK /\ Placed
  BY DEF Undisturbed, Delivered, PlaceOK
<1>2. /\ \A r \in wire : r.own /\ Answers(r)
      /\ Held => exec.own /\ Answers(exec) /\ wire = {}
  <2>1. \A r \in wire : r.own /\ Answers(r)
    BY <1>1 DEF OneRequest
  <2>2. Held => exec.own
    BY <1>1 DEF OneRequest
  <2>3. Held => Answers(exec) /\ \A r \in wire : ~r.own
    BY <2>2 DEF OneRequest
  <2> QED BY <2>1, <2>2, <2>3
<1>3. \A r \in wire : wire \ {r} = {}
  BY <1>2 DEF OneRequest
<1>4. ~Asking => /\ wire = {} /\ ~Held
                 /\ host.state \in {"stopped", "failed", "running"}
  <2>1. ~Asking => wire = {} /\ ~Held
    BY <1>2 DEF Answers
  <2>2. ~Held => host.state \in {"stopped", "failed", "running"}
    BY HolderIs DEF Base, EngineOK
  <2> QED BY <2>1, <2>2
<1>5. job # Idle => ~Has(queue, {"attach"})
  BY DEF StartOK
<1>6. Up => host.file \in PlanFiles /\ host.hash \in Plans /\ host.hash # None
  BY NoneIs DEF Base, EngineOK, Up
<1> QED BY <1>1, <1>2, <1>3, <1>4, <1>5, <1>6

(* Nothing was disturbed before either.                                     *)
LEMMA PlaceGives ==
  ASSUME Base, Base', Grows, PlaceOK, Undisturbed'
  PROVE  /\ Undisturbed /\ Filed /\ SeenOK /\ Placed
         /\ spent["core"] > 0 => spent'["core"] > 0
<1>1. Undisturbed
  BY Fewer
<1>2. spent["core"] \in Nat /\ spent'["core"] \in Nat /\ spent["core"] <= spent'["core"]
  BY DEF Base, TypeOK, Grows, Kinds
<1> QED BY <1>1, <1>2 DEF PlaceOK

(* The command and the host stay where they are.                            *)
LEMMA PlaceStays ==
  ASSUME Base, Base', Grows, PlaceOK, UNCHANGED <<phase, sid, hash, job, wire, exec>>,
         host'.state = host.state, host'.session = host.session, host'.hash = host.hash,
         host'.file = host.file,
         Has(queue', {"attach"}) <=> Has(queue, {"attach"}),
         look'.fresh /\ look'.at = "served" =>
           (look.fresh /\ look.at = "served" /\ look'.snap = look.snap) \/ Same(look'.snap)
  PROVE  PlaceOK'
<1> SUFFICES ASSUME Undisturbed'
             PROVE  Filed' /\ SeenOK' /\ Placed'
  BY DEF PlaceOK
<1>1. /\ Undisturbed /\ Filed /\ SeenOK /\ Placed
      /\ spent["core"] > 0 => spent'["core"] > 0
  BY PlaceGives
<1>2. /\ Up' <=> Up
      /\ Named' <=> Named
      /\ Agreed' <=> Agreed
      /\ Opening' <=> Opening
      /\ Outstanding' <=> Outstanding
      /\ Done' <=> Done
      /\ \A s : Same(s)' <=> Same(s)
  BY DEF Up, Named, Agreed, Opening, Outstanding, Done, Same
<1>3. Filed'
  BY <1>1, <1>2 DEF Filed
<1>4. SeenOK'
  <2>1. Seen' => (Seen /\ look'.snap = look.snap) \/ Same(look'.snap)
    BY DEF Seen
  <2>2. job.at = "adopt" => Same(job.snap)'
    BY <1>1, <1>2 DEF SeenOK
  <2>3. Same(look'.snap) <=> Same(look.snap)'
    BY DEF Same, Up
  <2> QED BY <1>1, <1>2, <2>1, <2>2, <2>3 DEF SeenOK
<1>5. Placed'
  BY <1>1, <1>2 DEF Placed
<1> QED BY <1>3, <1>4, <1>5

(* The command ends, and coordinator and host agree.                        *)
LEMMA PlaceEnds ==
  ASSUME Base, Base', Grows, OneRequest, StartOK, PlaceOK, UNCHANGED <<host, wire, exec>>,
         job' = Idle, ~look'.fresh, ~Has(queue', {"attach"}),
         Undisturbed /\ Placed => Agreed'
  PROVE  PlaceOK'
<1> SUFFICES ASSUME Undisturbed'
             PROVE  Filed' /\ SeenOK' /\ Placed'
  BY DEF PlaceOK
<1>1. Undisturbed /\ Filed /\ SeenOK /\ Placed
  BY PlaceGives
<1>2. job'.at = "idle" /\ job'.cmd = "none" /\ job'.answer = "none"
  BY IdleIs
<1>3. ~Opening' /\ Agreed' /\ ~Seen' /\ ~Done'
  BY <1>1, <1>2 DEF Opening, Seen, Done
<1>4. Filed'
  BY <1>1 DEF Filed, Up
<1>5. SeenOK'
  BY <1>2, <1>3 DEF SeenOK
<1>6. Placed'
  BY <1>2, <1>3 DEF Placed
<1> QED BY <1>4, <1>5, <1>6

(* The next command begins.                                                 *)
LEMMA PlaceBegins ==
  ASSUME Base, Base', Grows, OneRequest, StartOK, PlaceOK, Begin
  PROVE  PlaceOK'
<1> SUFFICES ASSUME Undisturbed'
             PROVE  Filed' /\ SeenOK' /\ Placed'
  BY DEF PlaceOK
<1>1. /\ Undisturbed /\ Filed /\ SeenOK /\ Placed
      /\ spent["core"] > 0 => spent'["core"] > 0
  BY PlaceGives
<1>2. /\ job = Idle /\ queue # <<>> /\ queue' = Tail(queue) /\ ~look'.fresh
      /\ job'.answer = "none" /\ job.cmd = "none" /\ job.at = "idle"
      /\ UNCHANGED <<host, exec, sid, hash>>
  BY BeginIs, IdleIs
<1>3. ~Has(queue', {"attach"}) /\ (Has(queue, {"attach"}) <=> Head(queue) = "attach")
  BY <1>2, TailFirst, TailHas
<1>4. /\ Up' <=> Up
      /\ Named' <=> Named
      /\ ~Seen'
      /\ ~Done'
      /\ Opening <=> Head(queue) = "attach"
      /\ Opening' <=> job'.cmd = "attach"
  BY <1>2, <1>3 DEF Up, Named, Seen, Done, Opening
<1>5. Filed'
  <2>1. wire' = wire \/ wire' = wire \cup {Sent("stop", None, None)}
    BY BeginIs
  <2>2. Sent("stop", None, None).op = "stop"
    BY SentIs
  <2> QED BY <1>1, <1>2, <1>4, <2>1, <2>2 DEF Filed
<1>6. SeenOK'
  <2>1. job'.at # "adopt"
    BY BeginIs
  <2> QED BY <1>4, <2>1 DEF SeenOK
<1>7. Placed'
  <2>1. CASE job'.cmd = "attach" /\ job'.at = "read" /\ phase' = phase /\ Opening
    <3>1. job' # Idle /\ (Agreed' <=> Agreed)
      BY <1>4, <2>1, IdleIs DEF Agreed
    <3> QED BY <1>1, <1>2, <1>4, <2>1, <3>1 DEF Placed
  <2>2. CASE /\ job'.cmd = "sync" /\ job'.at = "compile" /\ phase' = phase /\ phase = "running"
             /\ ~Opening
    <3>1. Agreed /\ Up /\ Agreed'
      BY <1>1, <1>2, <1>4, <2>2 DEF Placed, Agreed
    <3> QED BY <1>4, <2>2, <3>1, IdleIs DEF Placed
  <2>3. CASE job' = Idle /\ phase' = phase /\ ~Opening
    <3>1. Agreed'
      BY <1>1, <1>2, <1>4, <2>3 DEF Placed, Agreed
    <3>2. job'.cmd = "none" /\ job'.at = "idle"
      BY <2>3, IdleIs
    <3> QED BY <1>4, <3>1, <3>2 DEF Placed
  <2>4. CASE /\ job'.cmd = "start" /\ job'.at = "consent" /\ phase' = "starting"
             /\ ~Connected(phase) /\ ~Opening
    <3>1. ~Up /\ job' # Idle
      BY <1>1, <1>2, <2>4, IdleIs DEF Placed, Agreed, Connected
    <3> QED BY <1>4, <2>4, <3>1 DEF Placed
  <2>5. CASE job'.cmd = "stop" /\ job'.at = "await" /\ job' # Idle
    BY <1>2, <1>4, <2>5 DEF Placed
  <2>6. Head(queue) \in {"connect", "tailnetOn", "tailnetOff"} => Head(queue) # "attach"
    OBVIOUS
  <2> QED BY <1>4, <2>1, <2>2, <2>3, <2>4, <2>5, <2>6, BeginIs
<1> QED BY <1>5, <1>6, <1>7

(* The snapshot the host gives now is of the session that runs now.         *)
LEMMA SnapshotSame ==
  ASSUME Base
  PROVE  Same(Snapshot)
BY DEF Snapshot, Same, Up

(* The snapshot of a host where nothing is under way is adopted.            *)
LEMMA AdoptSame ==
  ASSUME Base, UNCHANGED host, NEW snap \in Snapshots, NEW m \in Modes \cup {None},
         Adopt(snap, m), Same(snap), host.state \in {"stopped", "failed", "running"}
  PROVE  /\ Up => /\ sid' = host.session
                  /\ hash \in {None, host.hash} => hash' = host.hash
                  /\ phase' = IF phase = "reloading" THEN phase ELSE "running"
         /\ ~Up => phase' = IF phase \in BusyPhases THEN phase ELSE "stopped"
         /\ Up' <=> Up
         /\ Up /\ hash \in {None, host.hash} => Named'
         /\ ~Up => Named'
         /\ Named => Named'
<1>1. /\ Up => /\ sid' = host.session
               /\ hash' = IF hash = None THEN host.hash ELSE hash
               /\ phase' = IF phase = "reloading" THEN phase ELSE "running"
      /\ ~Up => phase' = IF phase \in BusyPhases THEN phase ELSE "stopped"
  BY AdoptIs DEF Same, Up
<1>2. Up' <=> Up
  BY DEF Up
<1>3. /\ Up /\ hash \in {None, host.hash} => Named'
      /\ ~Up => Named'
      /\ Named => Named'
  BY <1>1, <1>2 DEF Named
<1> QED BY <1>1, <1>2, <1>3

(* attach() reads the snapshot.                                             *)
LEMMA PlaceReads ==
  ASSUME Base, Base', Grows, OneRequest, StartOK, PlaceOK, AttachReads
  PROVE  PlaceOK'
<1> SUFFICES ASSUME Undisturbed'
             PROVE  Filed' /\ SeenOK' /\ Placed'
  BY DEF PlaceOK
<1>1. Undisturbed /\ Filed /\ SeenOK /\ Placed
  BY PlaceGives
<1>2. /\ job.at = "read" /\ job.cmd = "attach" /\ job'.at = "adopt" /\ job'.cmd = "attach"
      /\ job'.snap = Snapshot /\ job' # Idle
      /\ UNCHANGED <<phase, sid, hash, queue, look, host, exec, wire>>
  BY AttachReadsIs, IdleIs
<1>3. /\ Up' <=> Up
      /\ Named' <=> Named
      /\ Agreed' <=> Agreed
      /\ Opening /\ Opening'
      /\ Seen' <=> Seen
      /\ \A s : Same(s)' <=> Same(s)
  BY <1>2 DEF Up, Named, Agreed, Opening, Seen, Same
<1>4. Filed'
  BY <1>1, <1>2, <1>3 DEF Filed
<1>5. SeenOK'
  <2>1. Same(job'.snap)
    BY <1>2, SnapshotSame
  <2>2. Same(job.snap)'
    BY <1>2, <2>1 DEF Same, Up
  <2>3. Seen' => Same(look.snap)'
    BY <1>1, <1>2, <1>3 DEF SeenOK
  <2> QED BY <2>2, <2>3 DEF SeenOK
<1>6. Placed'
  BY <1>1, <1>2, <1>3 DEF Placed, Done
<1> QED BY <1>4, <1>5, <1>6

(* attach() adopts it.                                                      *)
LEMMA PlaceAttaches ==
  ASSUME Base, Base', Grows, OneRequest, StartOK, PlaceOK, AttachAdopts
  PROVE  PlaceOK'
<1>1. /\ job.at = "adopt" /\ job.cmd = "attach" /\ job.snap \in Snapshots /\ job # Idle
      /\ job' = Idle /\ ~look'.fresh /\ Adopt(job.snap, expected)
      /\ UNCHANGED <<host, exec, wire>>
  BY AttachAdoptsIs, IdleIs
<1>2. ~Has(queue', {"attach"})
  <2>1. ~Has(queue, {"attach"})
    BY <1>1 DEF StartOK
  <2>2. Enqueue("sync") \/ Enqueue("connect") \/ queue' = queue
    BY AttachAdoptsIs
  <2>3. "sync" \in Commands /\ "connect" \in Commands
    BY DEF Commands
  <2> QED BY <2>1, <2>2, <2>3, EnqueueOther
<1>3. ASSUME Undisturbed, Placed
      PROVE  Agreed'
  <2>1. SeenOK /\ host.state \in {"stopped", "failed", "running"}
    BY <1>1, <1>3, PlaceFacts DEF Asking
  <2>2. Same(job.snap) /\ expected \in Modes \cup {None}
    BY <1>1, <2>1 DEF SeenOK, Base, TypeOK
  <2>3. /\ (phase = "stopped" /\ hash = None) \/ Agreed
        /\ ~Up => phase = "stopped"
    BY <1>1, <1>3 DEF Placed, Opening
  <2>4. Up => hash \in {None, host.hash} /\ phase \in {"stopped", "running"}
    BY <2>3 DEF Agreed, Named
  <2>5. /\ Up' <=> Up
        /\ Named'
        /\ phase' = IF Up THEN "running" ELSE "stopped"
    BY <1>1, <2>1, <2>2, <2>3, <2>4, AdoptSame DEF BusyPhases
  <2> QED BY <2>5 DEF Agreed
<1> QED BY <1>1, <1>2, <1>3, PlaceEnds

(* The system was asked.                                                    *)
LEMMA PlaceConsents ==
  ASSUME Base, Base', Grows, OneRequest, StartOK, PlaceOK, Consent
  PROVE  PlaceOK'
<1>1. /\ job.at = "consent" /\ job.cmd = "start" /\ job # Idle
      /\ UNCHANGED <<host, exec, wire, queue>>
  BY ConsentIs
<1>2. ~Has(queue', {"attach"})
  BY <1>1 DEF StartOK
<1>3. CASE ShowStopped /\ Ended
  <2>1. job' = Idle /\ ~look'.fresh /\ phase' = "stopped"
    BY <1>3, EndedIs, ShowStoppedIs
  <2>2. Undisturbed /\ Placed => Agreed'
    BY <1>1, <2>1 DEF Placed, Agreed, Named, Up
  <2> QED BY <1>1, <1>2, <2>1, <2>2, PlaceEnds
<1>4. CASE /\ job'.at = "compile" /\ job'.cmd = "start" /\ job'.answer = "none"
           /\ UNCHANGED <<phase, sid, hash, look>>
  <2> SUFFICES ASSUME Undisturbed'
               PROVE  Filed' /\ SeenOK' /\ Placed'
    BY DEF PlaceOK
  <2>1. Undisturbed /\ Filed /\ SeenOK /\ Placed
    BY PlaceGives
  <2>2. /\ Up' <=> Up
        /\ Seen' <=> Seen
        /\ ~Opening'
        /\ job' # Idle
        /\ \A s : Same(s)' <=> Same(s)
    BY <1>1, <1>2, <1>4, IdleIs DEF Up, Seen, Opening, Same
  <2>3. Filed'
    BY <1>1, <2>1, <2>2 DEF Filed
  <2>4. SeenOK'
    BY <1>1, <1>4, <2>1, <2>2 DEF SeenOK
  <2>5. Placed'
    BY <1>1, <1>4, <2>1, <2>2 DEF Placed, Done
  <2> QED BY <2>3, <2>4, <2>5
<1> QED BY <1>3, <1>4, ConsentIs

(* A plan is compiled.                                                      *)
LEMMA PlaceCompiles ==
  ASSUME Base, Base', Grows, OneRequest, StartOK, PlaceOK, Compile
  PROVE  PlaceOK'
<1>1. /\ job.at = "compile" /\ job # Idle /\ job.cmd \in {"start", "sync"}
      /\ UNCHANGED <<host, exec, wire, queue>>
  BY CompileIs
<1>2. ~Has(queue', {"attach"})
  BY <1>1 DEF StartOK
<1>3. CASE job.cmd = "start" /\ ShowStopped /\ Ended
  <2>1. job' = Idle /\ ~look'.fresh /\ phase' = "stopped"
    BY <1>3, EndedIs, ShowStoppedIs
  <2>2. Undisturbed /\ Placed => Agreed'
    BY <1>1, <1>3, <2>1 DEF Placed, Agreed, Named, Up
  <2> QED BY <1>1, <1>2, <2>1, <2>2, PlaceEnds
<1>4. CASE job.cmd = "sync" /\ Ended /\ UNCHANGED <<phase, sid, hash>>
  <2>1. job' = Idle /\ ~look'.fresh
    BY <1>4, EndedIs
  <2>2. Undisturbed /\ Placed => Agreed'
    BY <1>1, <1>4, <2>1 DEF Placed, Agreed, Named, Up
  <2> QED BY <1>1, <1>2, <2>1, <2>2, PlaceEnds
<1>5. CASE /\ UNCHANGED <<sid, hash, look>>
           /\ job'.answer = "none"
           /\ \/ /\ job'.at = "write" /\ job'.cmd = "start" /\ job.cmd = "start"
                 /\ UNCHANGED phase
              \/ /\ job'.at = "write" /\ job'.cmd = "reload" /\ job.cmd = "sync"
                 /\ phase' = "reloading"
              \/ /\ job'.at = "compare" /\ job'.cmd = "switch" /\ job.cmd = "sync"
                 /\ UNCHANGED phase
  <2> SUFFICES ASSUME Undisturbed'
               PROVE  Filed' /\ SeenOK' /\ Placed'
    BY DEF PlaceOK
  <2>1. Undisturbed /\ Filed /\ SeenOK /\ Placed
    BY PlaceGives
  <2>2. /\ Up' <=> Up
        /\ Named' <=> Named
        /\ phase' = phase => (Agreed' <=> Agreed)
        /\ Seen' <=> Seen
        /\ ~Opening'
        /\ job' # Idle
        /\ \A s : Same(s)' <=> Same(s)
    BY <1>1, <1>2, <1>5, IdleIs DEF Up, Named, Agreed, Seen, Opening, Same
  <2>3. Filed'
    BY <1>1, <2>1, <2>2 DEF Filed
  <2>4. SeenOK'
    BY <1>1, <1>5, <2>1, <2>2 DEF SeenOK
  <2>5. Placed'
    <3>1. job.cmd = "sync" => Agreed /\ Up /\ Named
      BY <2>1 DEF Placed, Agreed
    <3>2. job.cmd = "start" => phase = "starting" /\ ~Up
      BY <1>1, <2>1 DEF Placed
    <3> QED BY <1>5, <2>2, <3>1, <3>2 DEF Placed, Done
  <2> QED BY <2>3, <2>4, <2>5
<1> QED BY <1>3, <1>4, <1>5, CompileIs

(* The plan is written, and the request goes out.                           *)
LEMMA PlaceWrites ==
  ASSUME Base, Base', Grows, OneRequest, StartOK, PlaceOK, WritePlan
  PROVE  PlaceOK'
<1> SUFFICES ASSUME Undisturbed'
             PROVE  Filed' /\ SeenOK' /\ Placed'
  BY DEF PlaceOK
<1>1. Undisturbed /\ Filed /\ SeenOK /\ Placed
  BY PlaceGives
<1>2. PICK r : r = Sent(job.cmd, job.plan, job.mode)
  OBVIOUS
<1>3. /\ job.at = "write" /\ job.cmd \in {"start", "reload"} /\ job # Idle
      /\ wire' = wire \cup {r} /\ r.op = job.cmd /\ r.sid = sid /\ r.own
      /\ job'.at = "await" /\ job'.cmd = job.cmd /\ job'.answer = "none"
      /\ UNCHANGED <<phase, sid, hash, queue, look, host, exec>>
  BY <1>2, WritePlanIs, SentIs
<1>4. wire = {}
  BY <1>1, <1>3, PlaceFacts DEF Asking
<1>5. /\ Up' <=> Up
      /\ Named' <=> Named
      /\ Seen' <=> Seen
      /\ ~Opening'
      /\ job' # Idle
      /\ \A s : Same(s)' <=> Same(s)
  BY <1>3, IdleIs DEF Up, Named, Seen, Opening, Same, StartOK
<1>6. job.cmd = "reload" => phase = "reloading" /\ Up /\ Named /\ r.sid = host.session
  BY <1>1, <1>3 DEF Placed, Named
<1>7. Filed'
  <2>1. \A q \in wire' : q = r
    BY <1>3, <1>4
  <2> QED BY <1>1, <1>3, <1>5, <1>6, <2>1 DEF Filed
<1>8. SeenOK'
  BY <1>1, <1>3, <1>5 DEF SeenOK
<1>9. Placed'
  <2>1. job.cmd = "start" => phase = "starting" /\ ~Up
    BY <1>1, <1>3 DEF Placed
  <2> QED BY <1>3, <1>5, <1>6, <2>1 DEF Placed, Done
<1> QED BY <1>7, <1>8, <1>9

(* The mode the session runs with is compared with the one it should.       *)
LEMMA PlaceCompares ==
  ASSUME Base, Base', Grows, OneRequest, StartOK, PlaceOK, Compare
  PROVE  PlaceOK'
<1> SUFFICES ASSUME Undisturbed'
             PROVE  Filed' /\ SeenOK' /\ Placed'
  BY DEF PlaceOK
<1>1. Undisturbed /\ Filed /\ SeenOK /\ Placed
  BY PlaceGives
<1>2. PICK r : r = Sent("setMode", None, job.mode)
  OBVIOUS
<1>3. /\ job.at = "compare" /\ job.cmd = "switch" /\ job # Idle /\ job.mode \in Modes
      /\ job'.at \in {"await", "refresh"} /\ job'.cmd = "switch" /\ job'.answer = "none"
      /\ UNCHANGED <<phase, sid, hash, queue, look, host, exec>>
  BY CompareIs, SwitchedIs
<1>4. /\ r.op = "setMode" /\ r.sid = sid /\ r.own
      /\ wire' = wire \/ wire' = wire \cup {r}
  BY <1>2, <1>3, CompareIs, SentIs
<1>5. /\ Up' <=> Up
      /\ Named' <=> Named
      /\ Agreed' <=> Agreed
      /\ Seen' <=> Seen
      /\ ~Opening'
      /\ job' # Idle
      /\ \A s : Same(s)' <=> Same(s)
  BY <1>3, IdleIs DEF Up, Named, Agreed, Seen, Opening, Same, StartOK
<1>6. Agreed /\ Up /\ Named /\ r.sid = host.session /\ phase = "running"
  BY <1>1, <1>3, <1>4 DEF Placed, Agreed, Named
<1>7. Filed'
  BY <1>1, <1>3, <1>4, <1>5, <1>6 DEF Filed
<1>8. SeenOK'
  BY <1>1, <1>3, <1>5 DEF SeenOK
<1>9. Placed'
  BY <1>3, <1>5, <1>6 DEF Placed, Done
<1> QED BY <1>7, <1>8, <1>9

(* Nothing is asked unless an answer is waited for.                         *)
LEMMA NoneOutstanding ==
  ASSUME OneRequest, ~Asking
  PROVE  ~Outstanding
BY DEF OneRequest, Answers, Outstanding

(* The request was carried out.                                             *)
LEMMA PlaceSucceeds ==
  ASSUME Base, Base', Grows, OneRequest, StartOK, PlaceOK, Succeeded
  PROVE  PlaceOK'
<1> SUFFICES ASSUME Undisturbed'
             PROVE  Filed' /\ SeenOK' /\ Placed'
  BY DEF PlaceOK
<1>1. Undisturbed /\ Filed /\ SeenOK /\ Placed
  BY PlaceGives
<1>2. /\ job.at = "await" /\ job.answer = "done" /\ Arrives /\ job # Idle
      /\ job'.at = "refresh" /\ job'.cmd = job.cmd
      /\ UNCHANGED <<queue, look, host, exec, wire>>
  BY SucceededIs, IdleIs
<1>3. ~Seen /\ ~Seen'
  <2>1. look.at = "served" /\ look.fresh => spent'["reorder"] > 0
    BY <1>2, ArrivesIs
  <2> QED BY <1>2, <2>1 DEF Undisturbed, Seen
<1>4. job.cmd \in {"start", "reload", "switch", "stop"}
  BY <1>2 DEF Base, JobOK
<1>5. /\ Up' <=> Up
      /\ ~Opening'
      /\ job' # Idle
      /\ ~Done'
  BY <1>2, <1>4, IdleIs DEF Up, Opening, StartOK, Done
<1>6. Agreed' /\ (job.cmd = "switch" => Up)
  <2>1. CASE Started
    <3>1. /\ job.cmd \in {"start", "reload"} /\ sid' = job.session /\ hash' = job.plan
          /\ phase' = "running"
      BY <2>1, StartedIs
    <3>2. Up /\ host.hash = job.plan /\ host.session = job.session
      BY <1>1, <1>2, <3>1 DEF Placed, Done
    <3> QED BY <1>2, <1>5, <3>1, <3>2 DEF Agreed, Named
  <2>2. CASE Switched
    <3>1. job.cmd = "switch" /\ UNCHANGED <<phase, sid, hash>>
      BY <2>2, SwitchedIs
    <3>2. Agreed /\ Up
      BY <1>1, <3>1 DEF Placed
    <3> QED BY <1>2, <1>5, <3>1, <3>2 DEF Agreed, Named
  <2>3. CASE job.cmd = "stop" /\ ShowStopped
    <3>1. ~Up /\ phase' = "stopped"
      BY <1>1, <1>2, <2>3, ShowStoppedIs DEF Placed
    <3> QED BY <1>5, <2>3, <3>1 DEF Agreed, Named
  <2> QED BY <2>1, <2>2, <2>3, SucceededIs
<1>7. Filed'
  BY <1>1, <1>2, <1>5 DEF Filed
<1>8. SeenOK'
  BY <1>2, <1>3 DEF SeenOK
<1>9. Placed'
  <2>1. Named' /\ phase' \in {"stopped", "running"} /\ (Up' => phase' = "running")
    BY <1>6 DEF Agreed
  <2>2. ~Outstanding'
    BY <1>2, NoneOutstanding DEF Asking, Outstanding
  <2> QED BY <1>2, <1>4, <1>5, <1>6, <2>1, <2>2 DEF Placed
<1> QED BY <1>7, <1>8, <1>9

(* The request was refused.                                                 *)
LEMMA PlaceRefuses ==
  ASSUME Base, Base', Grows, OneRequest, StartOK, PlaceOK, Refused
  PROVE  PlaceOK'
<1> SUFFICES ASSUME Undisturbed'
             PROVE  PlaceOK'
  BY DEF PlaceOK
<1>1. Undisturbed /\ Filed /\ SeenOK /\ Placed
  BY PlaceGives
<1>2. /\ job.at = "await" /\ job.answer = "failed" /\ Arrives /\ job # Idle /\ HostException
      /\ UNCHANGED <<queue, host, exec, wire>>
  BY RefusedIs, IdleIs
<1>3. ~Seen
  <2>1. look.at = "served" /\ look.fresh => spent'["reorder"] > 0
    BY <1>2, ArrivesIs
  <2> QED BY <1>2, <2>1 DEF Undisturbed, Seen
<1>4. job.cmd \in {"start", "reload"} /\ ~Has(queue', {"attach"}) /\ (Up' <=> Up)
  BY <1>1, <1>2 DEF Placed, StartOK, Up
<1>5. CASE job.cmd = "start" /\ ShowStopped /\ Ended
  <2>1. job' = Idle /\ ~look'.fresh /\ phase' = "stopped"
    BY <1>5, EndedIs, ShowStoppedIs
  <2>2. ~Up
    BY <1>1, <1>2, <1>5 DEF Placed
  <2>3. Agreed'
    BY <1>4, <2>1, <2>2 DEF Agreed, Named
  <2> QED BY <1>2, <1>4, <2>1, <2>3, PlaceEnds
<1>6. CASE /\ job.cmd = "reload" /\ job'.at = "refresh" /\ job'.cmd = job.cmd
           /\ phase' = "running" /\ UNCHANGED <<sid, hash, look>>
  <2>1. Named' /\ ~Seen' /\ ~Opening' /\ job' # Idle /\ ~Done'
    BY <1>1, <1>2, <1>3, <1>4, <1>6, IdleIs DEF Placed, Named, Seen, Opening, Done
  <2>2. Filed'
    BY <1>1, <1>2, <1>4 DEF Filed
  <2>3. SeenOK'
    BY <1>6, <2>1 DEF SeenOK
  <2>4. Placed'
    <3>1. ~Outstanding'
      BY <1>2, NoneOutstanding DEF Asking, Outstanding
    <3> QED BY <1>6, <2>1, <3>1 DEF Placed
  <2> QED BY <2>2, <2>3, <2>4 DEF PlaceOK
<1> QED BY <1>2, <1>4, <1>5, <1>6, ExceptionGives

(* The follow-up of a command asks.                                         *)
LEMMA PlaceFollows ==
  ASSUME Base, Base', Grows, OneRequest, StartOK, PlaceOK, FollowUp
  PROVE  PlaceOK'
<1> SUFFICES ASSUME Undisturbed'
             PROVE  Filed' /\ SeenOK' /\ Placed'
  BY DEF PlaceOK
<1>1. Undisturbed /\ Filed /\ SeenOK /\ Placed
  BY PlaceGives
<1>2. /\ job.at = "refresh" /\ job'.at = "wait" /\ job'.cmd = job.cmd /\ job # Idle
      /\ UNCHANGED <<phase, sid, hash, queue, host, exec, wire>>
  BY FollowUpIs
<1>3. job.cmd \in {"start", "reload", "switch", "stop"}
  BY <1>2 DEF Base, JobOK
<1>4. /\ Up' <=> Up
      /\ Named' <=> Named
      /\ Agreed' <=> Agreed
      /\ ~Opening'
      /\ ~Done'
      /\ job' # Idle
      /\ \A s : Same(s)' <=> Same(s)
  BY <1>2, <1>3, IdleIs DEF Up, Named, Agreed, Opening, Same, StartOK, Done
<1>5. Seen' => Same(look.snap) /\ look'.snap = look.snap
  <2>1. look'.at = "sent" \/ look' = look
    BY FollowUpIs, AskIs
  <2>2. Seen => Same(look.snap)
    BY <1>1, <1>2 DEF SeenOK
  <2> QED BY <2>1, <2>2 DEF Seen
<1>6. Filed'
  BY <1>1, <1>2, <1>4 DEF Filed
<1>7. SeenOK'
  <2>1. Seen' => Same(look.snap)'
    BY <1>2, <1>5 DEF Same, Up
  <2> QED BY <1>2, <2>1 DEF SeenOK
<1>8. Placed'
  <2>1. ~Outstanding'
    BY <1>2, NoneOutstanding DEF Asking, Outstanding
  <2> QED BY <1>1, <1>2, <1>3, <1>4, <2>1 DEF Placed
<1> QED BY <1>6, <1>7, <1>8

(* A snapshot that shows the session of now keeps what agrees.              *)
LEMMA AgreedAdopts ==
  ASSUME Base, UNCHANGED host, NEW snap \in Snapshots, NEW m \in Modes \cup {None},
         Adopt(snap, m), Same(snap), host.state \in {"stopped", "failed", "running"},
         Agreed
  PROVE  Agreed'
<1>1. /\ Named /\ phase = (IF Up THEN "running" ELSE "stopped")
      /\ Up => hash = host.hash
  BY DEF Agreed, Named
<1>2. /\ Named' /\ (Up' <=> Up)
      /\ phase' = (IF Up THEN "running" ELSE "stopped")
  BY <1>1, AdoptSame DEF BusyPhases
<1> QED BY <1>2 DEF Agreed

(* A snapshot of now is adopted while a request is not under way.           *)
LEMMA PlaceAdopts ==
  ASSUME Base, Base', OneRequest, StartOK, Filed, SeenOK, Placed,
         spent["core"] > 0 => spent'["core"] > 0,
         UNCHANGED <<queue, host, exec, wire>>, Between, look.at = "served", look.fresh,
         job' = Answered, look'.at # "served", job.at # "await",
         host.state \in {"stopped", "failed", "running"},
         NEW m \in Modes \cup {None}, Adopt(look.snap, m)
  PROVE  Filed' /\ SeenOK' /\ Placed'
<1>1. look.snap \in Snapshots /\ Same(look.snap)
  BY DEF Base, TypeOK, Looks, SeenOK, Seen
<1>2. /\ Up' <=> Up
      /\ ~Seen'
      /\ ~Done'
      /\ Opening' <=> Opening
      /\ Agreed => Agreed'
      /\ job'.cmd = job.cmd
      /\ job'.at = IF job.at = "wait" THEN "end" ELSE job.at
      /\ job'.snap = job.snap
      /\ job.at # "wait" => job' = job
      /\ ~Outstanding'
  <2>1. ~Outstanding'
    BY NoneOutstanding DEF Asking, Outstanding
  <2> QED BY <1>1, <2>1, AnsweredIs, AgreedAdopts DEF Up, Seen, Done, Opening
<1>3. job.at # "refresh"
  BY DEF Between
<1>4. Filed'
  BY <1>2 DEF Filed
<1>5. SeenOK'
  <2>1. job.at = "adopt" => Same(job.snap)'
    BY <1>2 DEF SeenOK, Same, Up
  <2> QED BY <1>2, <2>1 DEF SeenOK
<1>6. Placed'
  <2>1. CASE job = Idle
    <3>1. job' = Idle /\ ~Opening
      BY <2>1, <1>2, IdleIs DEF Between, Opening, Has
    <3>2. Agreed'
      BY <1>2, <2>1, <3>1 DEF Placed
    <3> QED BY <1>2, <3>1, <3>2, IdleIs DEF Placed
  <2>2. CASE job.cmd = "attach"
    <3>1. /\ job' = job /\ job # Idle /\ Opening
          /\ job.at \in {"read", "adopt"}
      BY <1>2, <2>2, IdleIs DEF Base, JobOK, Opening
    <3>2. /\ (phase = "stopped" /\ hash = None) \/ Agreed
          /\ ~Up => phase = "stopped"
      BY <3>1 DEF Placed
    <3>3. Up => hash \in {None, host.hash} /\ phase \in {"stopped", "running"}
      BY <3>2 DEF Agreed, Named
    <3>4. Named' /\ phase' = IF Up THEN "running" ELSE "stopped"
      BY <1>1, <3>2, <3>3, AdoptSame DEF BusyPhases
    <3>5. Agreed'
      BY <1>2, <3>4 DEF Agreed
    <3> QED BY <1>2, <2>2, <3>1, <3>4, <3>5 DEF Placed
  <2>3. CASE job.cmd = "start" /\ job.at \in {"consent", "compile", "write"}
    <3>1. phase = "starting" /\ ~Up /\ job' = job /\ job # Idle
      BY <1>2, <2>3, IdleIs DEF Placed
    <3>2. phase' = "starting" /\ ~Opening
      BY <1>1, <2>3, <3>1, AdoptSame DEF BusyPhases, Opening, StartOK
    <3> QED BY <1>2, <2>3, <3>1, <3>2 DEF Placed
  <2>4. CASE job.cmd \in {"sync", "switch"} /\ job.at \in {"compile", "compare"}
    <3>1. Agreed' /\ Up /\ job' = job /\ job # Idle /\ ~Opening
      BY <1>2, <2>4, IdleIs DEF Placed, Opening, StartOK
    <3> QED BY <1>2, <2>4, <3>1 DEF Placed
  <2>5. CASE job.cmd = "reload" /\ job.at = "write"
    <3>1. phase = "reloading" /\ Up /\ Named /\ job' = job /\ job # Idle /\ ~Opening
      BY <1>2, <2>5, IdleIs DEF Placed, Opening, StartOK
    <3>2. phase' = "reloading" /\ Named'
      BY <1>1, <3>1, AdoptSame DEF Named
    <3> QED BY <1>2, <2>5, <3>1, <3>2 DEF Placed
  <2>6. CASE job.at = "wait"
    <3>1. /\ phase \in {"stopped", "running"} /\ Named /\ job # Idle /\ ~Opening
          /\ job.cmd \in {"start", "reload", "switch", "stop"}
      BY <2>6, IdleIs DEF Placed, Opening, StartOK, Base, JobOK
    <3>2. /\ Named'
          /\ phase' = IF Up THEN "running" ELSE "stopped"
      BY <1>1, <3>1, AdoptSame DEF BusyPhases
    <3>3. Agreed' /\ job'.at = "end" /\ job' # Idle
      BY <1>2, <2>6, <3>2, IdleIs DEF Agreed
    <3>4. job.cmd = "switch" => Up
      BY DEF Placed
    <3> QED BY <1>2, <3>1, <3>3, <3>4 DEF Placed
  <2>7. CASE job.at = "end"
    <3>1. /\ Agreed' /\ job' = job /\ job # Idle /\ ~Opening
          /\ job.cmd \in {"start", "reload", "switch", "stop"}
      BY <1>2, <2>7, IdleIs DEF Placed, Opening, StartOK, Base, JobOK
    <3>2. job.cmd = "switch" => Up
      BY DEF Placed
    <3> QED BY <1>2, <2>7, <3>1, <3>2 DEF Placed
  <2> QED BY <1>3, <2>1, <2>2, <2>3, <2>4, <2>5, <2>6, <2>7
          DEF Base, TypeOK, JobOK, Jobs, Places
<1> QED BY <1>4, <1>5, <1>6

(* A snapshot is adopted while the answer to a request is waited for.       *)
LEMMA PlaceOverlaps ==
  ASSUME Base, Base', OneRequest, StartOK, Filed, SeenOK, Placed,
         spent["core"] > 0 => spent'["core"] > 0,
         UNCHANGED <<queue, host, exec, wire>>, look.at = "served", look.fresh,
         job' = job, look'.at # "served", job.at = "await",
         wire # {} \/ ~Asking => host.state \in {"stopped", "failed", "running"},
         NEW m \in Modes \cup {None}, Adopt(look.snap, m)
  PROVE  Filed' /\ SeenOK' /\ Placed'
<1>1. look.snap \in Snapshots
  BY DEF Base, TypeOK, Looks
<1>2. /\ Up' <=> Up
      /\ ~Seen'
      /\ Done' <=> Done
      /\ ~Opening'
      /\ Outstanding' <=> Outstanding
      /\ job # Idle
      /\ Outstanding => wire # {}
      /\ job.cmd \in {"start", "reload", "switch", "stop"}
  BY IdleIs DEF Up, Seen, Done, Opening, Outstanding, StartOK, Base, JobOK
<1>3. Filed'
  BY <1>2 DEF Filed
<1>4. SeenOK'
  BY <1>2 DEF SeenOK
<1>5. job.cmd = "switch" => Agreed' /\ Up
  <2> SUFFICES ASSUME job.cmd = "switch"
               PROVE  Agreed' /\ Up
    OBVIOUS
  <2>1. Agreed /\ Up /\ Same(look.snap)
    BY DEF Placed, SeenOK, Seen
  <2> QED BY <1>1, <2>1, AgreedAdopts DEF Up
<1>6. job.cmd = "reload" => phase' = "reloading"
  <2>1. job.cmd = "reload" => phase = "reloading"
    BY DEF Placed
  <2> QED BY <1>1, <2>1, AdoptIs DEF BusyPhases, Snapshots, States
<1>7. job.cmd = "reload" /\ Outstanding => Up /\ Named'
  <2> SUFFICES ASSUME job.cmd = "reload", Outstanding
               PROVE  Up /\ Named'
    OBVIOUS
  <2>1. Up /\ Named /\ Same(look.snap)
    BY DEF Placed, SeenOK, Seen
  <2> QED BY <1>1, <2>1, AdoptSame DEF Up
<1>8. job.cmd = "reload" /\ job.answer = "failed" => Named'
  <2> SUFFICES ASSUME job.cmd = "reload", job.answer = "failed", Up
               PROVE  Named'
    BY <1>2 DEF Named
  <2>1. Named /\ Same(look.snap)
    BY DEF Placed, SeenOK, Seen
  <2> QED BY <1>1, <2>1, AdoptSame DEF Up
<1>9. Placed'
  BY <1>2, <1>5, <1>6, <1>7, <1>8 DEF Placed, Done
<1> QED BY <1>3, <1>4, <1>9

(* A query is answered.                                                     *)
LEMMA PlaceReceives ==
  ASSUME Base, Base', Grows, OneRequest, StartOK, PlaceOK, Receive
  PROVE  PlaceOK'
<1> SUFFICES ASSUME Undisturbed'
             PROVE  PlaceOK'
  BY DEF PlaceOK
<1>1. /\ Undisturbed /\ Filed /\ SeenOK /\ Placed
      /\ spent["core"] > 0 => spent'["core"] > 0
  BY PlaceGives
<1>2. /\ look.at = "served" /\ job' = Answered /\ Between /\ look.snap \in Snapshots
      /\ UNCHANGED <<queue, host, exec, wire>>
  BY ReceiveIs
<1>3. CASE ~look.fresh /\ look' = NoLook /\ UNCHANGED <<phase, sid, hash>>
  <2>1. job' = job
    BY <1>2, <1>3, AnsweredIs DEF Base, LookOK
  <2>2. ~look'.fresh
    BY <1>3, NoLookIs
  <2> QED BY <1>2, <1>3, <2>1, <2>2, PlaceStays
<1>4. CASE look.fresh
  <2>1. PICK m \in Modes \cup {None} : Adopt(look.snap, m) /\ look'.at # "served"
    <3>1. NoLook.at # "served"
      BY NoLookIs
    <3> QED BY <1>4, <3>1, ReceiveIs
  <2>2. /\ ~Asking \/ wire # {} => host.state \in {"stopped", "failed", "running"}
        /\ job.at # "await" => ~Asking
    <3>1. ~Held => host.state \in {"stopped", "failed", "running"}
      BY HolderIs DEF Base, EngineOK
    <3> QED BY <1>1, <3>1, PlaceFacts DEF Asking
  <2>3. CASE job.at = "await"
    <3>1. job' = job
      BY <1>2, <2>3, AnsweredIs
    <3>2. Filed' /\ SeenOK' /\ Placed'
      BY <1>1, <1>2, <1>4, <2>1, <2>2, <2>3, <3>1, PlaceOverlaps
    <3> QED BY <3>2 DEF PlaceOK
  <2>4. CASE job.at # "await"
    <3>1. Filed' /\ SeenOK' /\ Placed'
      BY <1>1, <1>2, <1>4, <2>1, <2>2, <2>4, PlaceAdopts
    <3> QED BY <3>1 DEF PlaceOK
  <2> QED BY <2>3, <2>4
<1> QED BY <1>3, <1>4, ReceiveIs

(* A command ends.                                                          *)
LEMMA PlaceDone ==
  ASSUME Base, Base', Grows, OneRequest, StartOK, PlaceOK, End
  PROVE  PlaceOK'
<1>1. /\ job.at = "end" /\ job # Idle /\ Ended
      /\ UNCHANGED <<phase, sid, hash, queue, host, exec, wire>>
  BY EndIs
<1>2. job' = Idle /\ ~look'.fresh /\ ~Has(queue', {"attach"})
  BY <1>1, EndedIs DEF StartOK
<1>3. Undisturbed /\ Placed => Agreed'
  BY <1>1 DEF Placed, Agreed, Named, Up
<1> QED BY <1>1, <1>2, <1>3, PlaceEnds

(* Every step of the coordinator.                                           *)
LEMMA PlaceCoordinates ==
  ASSUME Base, Base', Grows, OneRequest, StartOK, PlaceOK, Coordinator
  PROVE  PlaceOK'
<1>1. CASE WriteBack
  <2>1. /\ look' = NoLook
        /\ Enqueue("sync") \/ queue' = queue
        /\ UNCHANGED <<phase, sid, hash, job, wire, exec, host>>
    BY <1>1, WriteBackIs
  <2>2. (Has(queue', {"attach"}) <=> Has(queue, {"attach"})) /\ ~look'.fresh
    BY <1>1, <2>1, WriteBackIs, EnqueueOther, NoLookIs DEF Commands
  <2> QED BY <2>1, <2>2, PlaceStays
<1>2. CASE Debounced
  <2>1. /\ Enqueue("sync") /\ UNCHANGED <<phase, sid, hash, job, look, wire, exec, host>>
    BY <1>2, DebouncedIs
  <2>2. Has(queue', {"attach"}) <=> Has(queue, {"attach"})
    BY <2>1, EnqueueOther DEF Commands
  <2> QED BY <2>1, <2>2, PlaceStays
<1> QED BY <1>1, <1>2, PlaceBegins, PlaceReads, PlaceAttaches, PlaceConsents, PlaceCompiles,
           PlaceWrites, PlaceCompares, PlaceSucceeds, PlaceRefuses, PlaceFollows,
           PlaceReceives, PlaceDone DEF Coordinator

(* The core starts, or fails to.                                            *)
LEMMA PlaceStarts ==
  ASSUME Base, Base', Grows, OneRequest, StartOK, PlaceOK, CoreStarts
  PROVE  PlaceOK'
<1> SUFFICES ASSUME Undisturbed'
             PROVE  Filed' /\ SeenOK' /\ Placed'
  BY DEF PlaceOK
<1>1. Undisturbed /\ Filed /\ SeenOK /\ Placed
  BY PlaceGives
<1>2. /\ Held /\ exec.op \in {"start", "reload"} /\ exec' = NoRequest
      /\ job'.at = job.at /\ job'.cmd = job.cmd /\ job'.plan = job.plan
      /\ UNCHANGED <<phase, sid, hash, queue, look, wire>>
  BY CoreStartsIs
<1>3. /\ wire = {} /\ exec.own /\ Asking /\ exec.hash = job.plan
      /\ job.cmd \in {"start", "reload"} /\ job # Idle /\ job' # Idle
  BY <1>1, <1>2, PlaceFacts, IdleIs DEF Answers, Asking, OpOf
<1>4. /\ exec'.op = "none" /\ wire' = {} /\ ~Outstanding' /\ ~Opening' /\ job'.at = "await"
      /\ job'.cmd = "reload" => phase' = "reloading"
  BY <1>1, <1>2, <1>3, HolderIs DEF Outstanding, Opening, StartOK, Asking, Placed
<1>5. CASE /\ host'.state = "running" /\ host'.hash = exec.hash /\ host'.session = host.born
           /\ host'.file = host.file /\ job'.answer = "done" /\ job'.session = host.born
  <2>1. Filed'
    BY <1>1, <1>2, <1>4, <1>5 DEF Filed, Up
  <2>2. SeenOK'
    BY <1>2, <1>3, <1>4, <1>5 DEF SeenOK
  <2>3. Placed'
    BY <1>2, <1>3, <1>4, <1>5 DEF Placed, Up
  <2> QED BY <2>1, <2>2, <2>3
<1>6. CASE host'.state = "failed" /\ spent'["core"] > 0 /\ job'.answer = "failed"
  <2>1. ~Up' /\ ~Done' /\ Named'
    BY <1>6 DEF Up, Done, Named
  <2>2. Filed'
    BY <1>4, <2>1 DEF Filed
  <2>3. SeenOK'
    BY <1>2, <1>3, <1>4, <2>1 DEF SeenOK
  <2>4. Placed'
    BY <1>2, <1>3, <1>4, <1>6, <2>1 DEF Placed
  <2> QED BY <2>2, <2>3, <2>4
<1> QED BY <1>3, <1>5, <1>6, CoreStartsIs

(* The session is stopped.                                                  *)
LEMMA PlaceStops ==
  ASSUME Base, Base', Grows, OneRequest, StartOK, PlaceOK, StopEnds
  PROVE  PlaceOK'
<1> SUFFICES ASSUME Undisturbed'
             PROVE  Filed' /\ SeenOK' /\ Placed'
  BY DEF PlaceOK
<1>1. Undisturbed /\ Filed /\ SeenOK /\ Placed
  BY PlaceGives
<1>2. /\ Held /\ exec.op = "stop" /\ exec' = NoRequest /\ ~Up'
      /\ exec.own => job'.answer = "done"
      /\ job'.at = job.at /\ job'.cmd = job.cmd
      /\ UNCHANGED <<phase, sid, hash, queue, look, wire>>
  BY StopEndsIs, StoppedIs DEF Up
<1>3. wire = {} /\ exec.own /\ Answers(exec)
  BY <1>1, <1>2, PlaceFacts
<1>4. Asking /\ job.cmd = "stop" /\ job # Idle /\ job' # Idle
  BY <1>2, <1>3, IdleIs DEF Answers, Asking, OpOf, Base, TypeOK, Jobs
<1>5. /\ exec'.op = "none" /\ wire' = {} /\ ~Outstanding' /\ ~Opening' /\ job'.at = "await"
      /\ job'.answer = "done"
  BY <1>2, <1>3, <1>4, HolderIs DEF Outstanding, Opening, StartOK, Asking
<1>6. Filed'
  BY <1>2, <1>5 DEF Filed
<1>7. SeenOK'
  BY <1>2, <1>4, <1>5 DEF SeenOK
<1>8. Placed'
  BY <1>2, <1>4, <1>5 DEF Placed, Done
<1> QED BY <1>6, <1>7, <1>8

(* A start or reload is taken up.                                           *)
LEMMA PlaceTakesUp ==
  ASSUME Base, Base', Grows, OneRequest, StartOK, PlaceOK, NEW r \in wire, TakeUp(r)
  PROVE  PlaceOK'
<1> SUFFICES ASSUME Undisturbed'
             PROVE  Filed' /\ SeenOK' /\ Placed'
  BY DEF PlaceOK
<1>1. Undisturbed /\ Filed /\ SeenOK /\ Placed
  BY PlaceGives
<1>2. /\ r \in Requests /\ r.op \in {"start", "reload"} /\ ~Held /\ wire' = wire \ {r}
      /\ job'.at = job.at /\ job'.cmd = job.cmd /\ job'.plan = job.plan
      /\ UNCHANGED <<phase, sid, hash, queue, look>>
  BY TakeUpIs
<1>3. wire' = {} /\ r.own /\ Answers(r)
  BY <1>1, <1>2, PlaceFacts
<1>4. /\ Asking /\ job.cmd = r.op /\ r.hash = job.plan /\ job # Idle /\ job' # Idle
      /\ Outstanding
  BY <1>2, <1>3, IdleIs DEF Answers, Asking, OpOf, Base, TypeOK, Jobs, Outstanding
<1>5. next.plan = r.hash /\ next # None
  <2>1. next = [plan |-> job.plan, mode |-> job.mode] /\ job.plan \in Plans /\ job.mode \in Modes
    BY <1>2, <1>4 DEF OneRequest, Asking, Base, JobOK
  <2>2. next \in PlanFiles
    BY <2>1 DEF PlanFiles
  <2> QED BY <1>4, <2>1, <2>2, NoneIs
<1>6. /\ r.op = "start" => ~Up
      /\ r.op = "reload" => Up /\ Named /\ phase = "reloading" /\ r.sid = host.session
  BY <1>1, <1>4 DEF Placed, Asking, Filed
<1>7. ~Rejects(r)
  BY <1>2, <1>5, <1>6 DEF Rejects, InSession, Up
<1>8. ~Outstanding' /\ ~Opening' /\ job'.at = "await"
  BY <1>2, <1>3, <1>4 DEF Outstanding, Opening, StartOK, Asking
<1>9. CASE UNCHANGED <<host, exec>> /\ job'.answer = "failed" /\ spent'["core"] > 0
  <2>1. (Up' <=> Up) /\ (Named' <=> Named) /\ ~Done' /\ \A s : Same(s)' <=> Same(s)
    BY <1>2, <1>9 DEF Up, Named, Done, Same
  <2>2. Filed'
    BY <1>1, <1>3, <1>9, <2>1 DEF Filed
  <2>3. SeenOK'
    <3>1. Seen' => Same(look.snap)
      BY <1>1, <1>2, <1>4 DEF SeenOK, Seen
    <3> QED BY <1>2, <1>8, <2>1, <3>1 DEF SeenOK
  <2>4. Placed'
    BY <1>2, <1>4, <1>6, <1>8, <1>9, <2>1 DEF Placed
  <2> QED BY <2>2, <2>3, <2>4
<1>10. CASE /\ exec' = r /\ host'.state = (IF r.op = "start" THEN "starting" ELSE "reloading")
            /\ host'.file = next /\ job' = job
  <2>1. ~Up' /\ ~Done' /\ Named'
    BY <1>4, <1>10 DEF Up, Done, Asking, Named
  <2>2. Filed'
    BY <1>3, <1>5, <1>10, <2>1 DEF Filed
  <2>3. SeenOK'
    BY <1>2, <1>4, <1>8, <2>1 DEF SeenOK
  <2>4. Placed'
    BY <1>2, <1>4, <1>6, <1>8, <1>10, <2>1 DEF Placed, Asking
  <2> QED BY <2>2, <2>3, <2>4
<1> QED BY <1>3, <1>7, <1>9, <1>10, TakeUpIs

(* A stop is taken up.                                                      *)
LEMMA PlaceStopping ==
  ASSUME Base, Base', Grows, OneRequest, StartOK, PlaceOK, NEW r \in wire, StopBegins(r)
  PROVE  PlaceOK'
<1> SUFFICES ASSUME Undisturbed'
             PROVE  Filed' /\ SeenOK' /\ Placed'
  BY DEF PlaceOK
<1>1. Undisturbed /\ Filed /\ SeenOK /\ Placed
  BY PlaceGives
<1>2. /\ r.op = "stop" /\ exec' = r /\ wire' = wire \ {r} /\ ~Up'
      /\ UNCHANGED <<phase, sid, hash, queue, look, job>>
  BY StopBeginsIs DEF Up
<1>3. wire' = {} /\ Answers(r)
  BY <1>1, <1>2, PlaceFacts
<1>4. /\ Asking /\ job.cmd = "stop" /\ job # Idle /\ ~Done' /\ ~Outstanding' /\ ~Opening'
  BY <1>2, <1>3, IdleIs
     DEF Answers, Asking, OpOf, Base, TypeOK, Jobs, Done, Outstanding, Opening, StartOK
<1>5. Filed'
  BY <1>2, <1>3 DEF Filed
<1>6. SeenOK'
  BY <1>2, <1>4 DEF SeenOK, Asking
<1>7. Placed'
  BY <1>2, <1>4 DEF Placed, Asking
<1> QED BY <1>5, <1>6, <1>7

(* The mode is switched.                                                    *)
LEMMA PlaceSwitches ==
  ASSUME Base, Base', Grows, OneRequest, StartOK, PlaceOK, NEW r \in wire, SetMode(r)
  PROVE  PlaceOK'
<1> SUFFICES ASSUME Undisturbed'
             PROVE  Filed' /\ SeenOK' /\ Placed'
  BY DEF PlaceOK
<1>1. Undisturbed /\ Filed /\ SeenOK /\ Placed
  BY PlaceGives
<1>2. /\ r.op = "setMode" /\ wire' = wire \ {r}
      /\ r.own => job'.answer = IF InSession(r) THEN "done" ELSE "failed"
      /\ host'.state = host.state /\ host'.session = host.session
      /\ host'.hash = host.hash /\ host'.file = host.file
      /\ job'.at = job.at /\ job'.cmd = job.cmd
      /\ UNCHANGED <<phase, sid, hash, queue, look, exec>>
  BY SetModeIs
<1>3. wire' = {} /\ Answers(r) /\ r.own
  BY <1>1, <1>2, PlaceFacts
<1>4. Asking /\ job.cmd = "switch" /\ job # Idle /\ job' # Idle
  BY <1>2, <1>3, IdleIs DEF Answers, Asking, OpOf, Base, TypeOK, Jobs
<1>5. Agreed /\ Up /\ InSession(r)
  BY <1>1, <1>2, <1>4 DEF Placed, Filed, InSession, Up
<1>6. /\ job'.answer = "done" /\ Up' /\ Named' /\ Agreed' /\ ~Done' /\ ~Outstanding' /\ ~Opening'
      /\ \A s : Same(s)' <=> Same(s)
  BY <1>2, <1>3, <1>4, <1>5
     DEF Agreed, Named, Up, Done, Outstanding, Opening, StartOK, Same
<1>7. Filed'
  BY <1>1, <1>2, <1>3, <1>5 DEF Filed, Up
<1>8. SeenOK'
  <2>1. Seen' => Same(look.snap)
    BY <1>1, <1>2, <1>4 DEF SeenOK, Seen
  <2> QED BY <1>2, <1>4, <1>6, <2>1 DEF SeenOK, Asking
<1>9. Placed'
  BY <1>2, <1>4, <1>6 DEF Placed, Asking
<1> QED BY <1>7, <1>8, <1>9

(* Every step.                                                              *)
LEMMA PlaceStep ==
  ASSUME Base, Base', Grows, OneRequest, StartOK, PlaceOK, [Next]_vars
  PROVE  PlaceOK'
<1>1. CASE Bridge
  <2>1. CASE Serve
    <3>1. Same(look'.snap)
      BY <2>1, ServeIs, SnapshotSame
    <3> QED BY <2>1, <3>1, ServeIs, PlaceStays
  <2> QED BY <1>1, <2>1, PlaceStarts, PlaceStops, PlaceTakesUp, PlaceStopping, PlaceSwitches
          DEF Bridge
<1>2. CASE User
  <2>1. UNCHANGED <<phase, sid, hash, job, look, wire, exec, host>>
    BY <1>2, ToggleIs, StopAllIs, SetTailnetIs, EditIs, ChooseIs DEF User
  <2>2. \/ queue' = queue
        \/ \E c \in {"connect", "disconnect", "stopAll", "tailnetOn", "tailnetOff", "sync"} :
             Enqueue(c)
    BY <1>2, ToggleIs, StopAllIs, SetTailnetIs, EditIs, ChooseIs DEF User
  <2>3. Has(queue', {"attach"}) <=> Has(queue, {"attach"})
    BY <2>2, EnqueueOther DEF Commands
  <2> QED BY <2>1, <2>3, PlaceStays
<1>3. CASE Environment
  <2>1. CASE HostStops \/ Restore \/ AnswerLost \/ QueryFails \/ DiskFails \/ Reopen
    <3>1. ~Undisturbed'
      BY <2>1, HostStopsIs, RestoreIs, AnswerLostIs, QueryFailsIs, DiskFailsIs, ReopenIs, SpendIs
         DEF Undisturbed, Kinds
    <3> QED BY <3>1 DEF PlaceOK
  <2>2. CASE \E m \in Modes : PanelSets(m)
    BY <2>2, PanelSetsIs, PlaceStays
  <2> QED BY <1>3, <2>1, <2>2 DEF Environment
<1>4. CASE Poll
  BY <1>4, PollIs, AskIs, PlaceStays
<1>5. CASE UNCHANGED vars
  BY <1>5, PlaceStays DEF vars, shown, session, engine
<1> QED BY <1>1, <1>2, <1>3, <1>4, <1>5, PlaceCoordinates DEF Next

(* It begins with the command that reads the host.                          *)
LEMMA PlaceInit ==
  ASSUME Init
  PROVE  PlaceOK
<1>1. /\ phase = "stopped" /\ hash = None /\ queue = <<"attach">> /\ job = Idle /\ look = NoLook
      /\ wire = {} /\ exec.op = "none"
      /\ \/ host.state = "stopped"
         \/ kept # None /\ host.hash = noted /\ host.file = kept /\ noted = kept.plan
  BY InitIs DEF NoRequest
<1>2. Opening
  BY <1>1 DEF Opening, Has
<1>3. job.at = "idle" /\ job.cmd = "none" /\ ~Seen /\ ~Done
  BY <1>1, IdleIs, NoLookIs DEF Seen, Done
<1>4. Filed
  BY <1>1 DEF Filed, Up
<1>5. SeenOK
  BY <1>3 DEF SeenOK
<1>6. Placed
  BY <1>1, <1>2, <1>3 DEF Placed
<1> QED BY <1>4, <1>5, <1>6 DEF PlaceOK

-----------------------------------------------------------------------------
(* What was compiled is what is saved.                                      *)

(* All of it held before, too.                                              *)
LEMMA LineGives ==
  ASSUME Base, Base', Grows, PlaceOK, InLineOK, Calm'
  PROVE  /\ Calm /\ Undisturbed /\ Filed /\ SeenOK /\ Placed /\ Heard /\ Compiled
         /\ spent["core"] = 0 /\ Undisturbed' /\ spent'["core"] = 0
<1>1. Calm
  BY Fewer
<1> QED BY <1>1 DEF Calm, PlaceOK, InLineOK

(* While the coordinator shows nothing, nothing it compiled is under way.   *)
LEMMA StoppedMeans ==
  ASSUME Base, Placed, Heard, phase = "stopped"
  PROVE  /\ job.at \notin {"write", "compare"}
         /\ job.at = "await" => job.cmd = "stop"
         /\ job.cmd # "switch"
         /\ ~Connected(phase)
<1>1. job.cmd # "switch"
  BY DEF Placed, Agreed
<1>2. /\ job.at = "compare" => job.cmd = "switch"
      /\ job.at = "write" => job.cmd \in {"start", "reload"}
      /\ job.at = "await" => job.cmd \in {"start", "reload", "switch", "stop"}
  BY DEF Base, JobOK
<1>3. job.at = "write" => FALSE
  BY <1>2 DEF Placed
<1>4. job.at = "await" => job.cmd \notin {"start", "reload"}
  BY DEF Placed, Heard
<1> QED BY <1>1, <1>2, <1>3, <1>4 DEF Connected

(* The coordinator and its command stay where they are.                     *)
LEMMA LineStays ==
  ASSUME Base, Base', Grows, PlaceOK, InLineOK,
         UNCHANGED <<phase, hash, expected, watching, due, queue, missed, wanted, tailnet, cfg,
                     mode>>,
         job'.at = job.at, job'.cmd = job.cmd, job'.plan = job.plan, job'.mode = job.mode,
         job.answer = "done" => job'.answer = "done",
         look'.at = "writing" <=> look.at = "writing",
         look.at = "writing" => look'.snap = look.snap,
         Seen' => (Seen /\ look'.snap = look.snap) \/ look'.snap.state = host.state
  PROVE  InLineOK'
<1> SUFFICES ASSUME Calm'
             PROVE  Heard' /\ Compiled'
  BY DEF InLineOK
<1>1. Placed /\ Heard /\ Compiled
  BY LineGives
<1>2. Current' = Current /\ \A p : Connected(p)' <=> Connected(p)
  BY DEF Current, Connected
<1>3. ASSUME job.cmd = "start", job.at = "await"
      PROVE  /\ phase = "running" => (Seen' => look'.snap.state = "running")
             /\ Seen' /\ look'.snap.state = "running" => job.answer = "done"
  <2>1. /\ phase = "running" => watching /\ job.answer = "done"
                                /\ (Seen => look.snap.state = "running")
        /\ Seen /\ look.snap.state = "running" => job.answer = "done"
    BY <1>1, <1>3 DEF Heard
  <2>2. host.state = "running" <=> job.answer = "done"
    BY <1>1, <1>3 DEF Placed, Done, Up
  <2> QED BY <2>1, <2>2
<1>4. Heard'
  BY <1>1, <1>2, <1>3 DEF Heard
<1>5. Compiled'
  BY <1>1, <1>2 DEF Compiled
<1> QED BY <1>4, <1>5

(* The user does something: a command follows it, or nobody heard it.       *)
LEMMA LineQueues ==
  ASSUME Base, Base', Grows, PlaceOK, InLineOK,
         UNCHANGED <<phase, hash, expected, watching, job, look>>,
         due' => due \/ watching,
         queue' # <<>> \/ due' \/ missed' \/ phase = "stopped"
  PROVE  InLineOK'
<1> SUFFICES ASSUME Calm'
             PROVE  Heard' /\ Compiled'
  BY DEF InLineOK
<1>1. Placed /\ Heard /\ Compiled
  BY LineGives
<1>2. (Seen' <=> Seen) /\ \A p : Connected(p)' <=> Connected(p)
  BY DEF Seen, Connected
<1>3. Heard'
  BY <1>1, <1>2 DEF Heard
<1>4. Compiled'
  BY <1>1, <1>2, StoppedMeans DEF Compiled
<1> QED BY <1>3, <1>4

(* The command ends, and nothing is shown any more.                         *)
LEMMA LineDrops ==
  ASSUME Base, Base', Grows, PlaceOK, InLineOK, job' = Idle, look'.at # "writing",
         phase' = "stopped", ~watching', ~due'
  PROVE  InLineOK'
<1>1. job'.at = "idle" /\ job'.cmd = "none" /\ ~Connected(phase)'
  BY IdleIs DEF Connected
<1>2. Heard'
  BY <1>1 DEF Heard
<1>3. Compiled'
  BY <1>1 DEF Compiled
<1> QED BY <1>2, <1>3 DEF InLineOK

(* The next command begins.                                                 *)
LEMMA LineBegins ==
  ASSUME Base, Base', Grows, OneRequest, StartOK, PlaceOK, InLineOK, Begin
  PROVE  InLineOK'
<1> SUFFICES ASSUME Calm'
             PROVE  Heard' /\ Compiled'
  BY DEF InLineOK
<1>1. Placed /\ Heard /\ Compiled
  BY LineGives
<1>2. /\ job = Idle /\ job.cmd = "none" /\ job.at = "idle" /\ look'.at = look.at
      /\ queue # <<>> /\ UNCHANGED <<hash, expected, watching, due>>
  BY BeginIs, IdleIs
<1>3. Head(queue) # "attach" => phase \in {"stopped", "running"}
  <2>1. Has(queue, {"attach"}) <=> Head(queue) = "attach" \/ Has(Tail(queue), {"attach"})
    BY <1>2, TailHas
  <2>2. ~Has(Tail(queue), {"attach"})
    BY <1>2, TailFirst
  <2>3. Head(queue) # "attach" => Agreed
    BY <1>1, <1>2, <2>1, <2>2 DEF Placed, Opening
  <2> QED BY <2>3 DEF Agreed
<1>4. CASE job'.at \in {"read", "compile"} /\ job'.cmd # "start" /\ phase' = phase
           /\ job'.cmd # "switch"
  BY <1>1, <1>2, <1>4 DEF Heard, Compiled, Connected
<1>5. CASE job' = Idle /\ phase' = phase /\ phase # "running" /\ Head(queue) # "attach"
  <2>1. phase' = "stopped" /\ phase = "stopped" /\ job'.at = "idle" /\ job'.cmd = "none"
    BY <1>3, <1>5, IdleIs
  <2>2. look'.at = "writing" => watching
    BY <1>1, <1>2, <2>1 DEF Heard
  <2>3. Heard'
    BY <1>1, <1>2, <2>1, <2>2 DEF Heard, Connected
  <2>4. Compiled'
    BY <2>1 DEF Compiled, Connected
  <2> QED BY <2>3, <2>4
<1>6. CASE /\ job'.cmd = "start" /\ job'.at = "consent" /\ phase' = "starting"
           /\ ~Connected(phase) /\ Head(queue) # "attach"
  <2>1. phase = "stopped"
    BY <1>3, <1>6 DEF Connected
  <2> QED BY <1>1, <1>2, <1>6, <2>1 DEF Heard, Compiled, Connected
<1>7. CASE job'.cmd = "stop" /\ job'.at = "await" /\ phase' = "stopping"
  BY <1>1, <1>2, <1>7 DEF Heard, Compiled, Connected
<1> QED BY <1>4, <1>5, <1>6, <1>7, BeginIs

(* attach() adopts the snapshot.                                            *)
LEMMA LineAttaches ==
  ASSUME Base, Base', Grows, OneRequest, StartOK, PlaceOK, InLineOK, AttachAdopts
  PROVE  InLineOK'
<1> SUFFICES ASSUME Calm'
             PROVE  InLineOK'
  BY DEF InLineOK
<1>1. SeenOK /\ Placed /\ Heard /\ Compiled /\ Undisturbed
  BY LineGives
<1>2. /\ job.at = "adopt" /\ job.cmd = "attach" /\ job.snap \in Snapshots
      /\ job' = Idle /\ job'.at = "idle" /\ job'.cmd = "none"
      /\ look'.at = look.at /\ ~look'.fresh
      /\ Adopt(job.snap, expected) /\ expected \in Modes \cup {None}
  BY AttachAdoptsIs DEF Base, TypeOK
<1>3. Same(job.snap) /\ host.state \in {"stopped", "failed", "running"}
  BY <1>1, <1>2, PlaceFacts DEF SeenOK, Asking
<1>4. CASE job.snap.state = "running" /\ Enqueue("sync")
  <2>1. queue' # <<>>
    BY <1>4, EnqueueIs DEF Commands
  <2>2. watching' = TRUE /\ phase' \in {"running", "reloading"}
    BY <1>2, <1>4, AdoptIs
  <2>3. watching'
    BY <2>2, Zenon
  <2>4. Heard'
    BY <1>2, <2>2, <2>3 DEF Heard
  <2>5. Compiled'
    BY <2>1 DEF Compiled
  <2> QED BY <2>4, <2>5 DEF InLineOK
<1>5. CASE job.snap.state # "running"
  <2>1. job.snap.state \in {"stopped", "failed"} /\ ~Up
    BY <1>3, <1>5 DEF Same, Up
  <2>2. phase = "stopped"
    BY <1>1, <1>2, <2>1 DEF Placed, Opening
  <2>3. phase' = "stopped" /\ watching' = Connected(phase') /\ due' = (due /\ Connected(phase'))
    BY <1>2, <2>1, <2>2, AdoptIs DEF BusyPhases
  <2>4. ~Connected(phase')
    BY <2>3 DEF Connected
  <2>5. ~watching' /\ ~due'
    BY <2>3, <2>4
  <2>6. look'.at # "writing"
    BY <1>1, <1>2, <2>2 DEF Heard
  <2> QED BY <1>2, <2>3, <2>5, <2>6, LineDrops
<1> QED BY <1>4, <1>5, AttachAdoptsIs

(* The system was asked.                                                    *)
LEMMA LineConsents ==
  ASSUME Base, Base', Grows, OneRequest, StartOK, PlaceOK, InLineOK, Consent
  PROVE  InLineOK'
<1> SUFFICES ASSUME Calm'
             PROVE  InLineOK'
  BY DEF InLineOK
<1>1. Placed /\ Heard
  BY LineGives
<1>2. job.at = "consent" /\ job.cmd = "start"
  BY ConsentIs
<1>3. phase = "starting" /\ ~watching /\ ~due /\ look.at # "writing"
  BY <1>1, <1>2 DEF Placed, Heard
<1>4. CASE ShowStopped /\ Ended
  <2>1. /\ job' = Idle /\ look'.at = look.at /\ phase' = "stopped" /\ watching' = FALSE
        /\ due' = FALSE
    BY <1>4, EndedIs, ShowStoppedIs
  <2>2. ~watching' /\ ~due'
    BY <2>1, Zenon
  <2> QED BY <1>3, <2>1, <2>2, LineDrops
<1>5. CASE /\ job'.at = "compile" /\ job'.cmd = "start"
           /\ UNCHANGED <<phase, watching, due, look>>
  <2>1. Heard'
    BY <1>3, <1>5 DEF Heard, Connected
  <2>2. Compiled'
    BY <1>5 DEF Compiled
  <2> QED BY <2>1, <2>2 DEF InLineOK
<1> QED BY <1>4, <1>5, ConsentIs

(* A plan is compiled from what is saved.                                   *)
LEMMA LineCompiles ==
  ASSUME Base, Base', Grows, OneRequest, StartOK, PlaceOK, InLineOK, Compile
  PROVE  InLineOK'
<1> SUFFICES ASSUME Calm'
             PROVE  InLineOK'
  BY DEF InLineOK
<1>1. Placed /\ Heard
  BY LineGives
<1>2. /\ job.at = "compile" /\ job.cmd \in {"start", "sync"} /\ missed' = ~Compiles
      /\ Current' = Current /\ mode' = mode
  BY CompileIs DEF Current
<1>3. /\ job.cmd = "start" => phase = "starting" /\ ~watching /\ ~due /\ look.at # "writing"
      /\ job.cmd = "sync" => phase = "running" /\ watching
  BY <1>1, <1>2 DEF Placed, Agreed, Heard, Connected
<1>4. CASE job.cmd = "start" /\ ShowStopped /\ Ended
  <2>1. /\ job' = Idle /\ look'.at = look.at /\ phase' = "stopped" /\ watching' = FALSE
        /\ due' = FALSE
    BY <1>4, EndedIs, ShowStoppedIs
  <2>2. ~watching' /\ ~due'
    BY <2>1, Zenon
  <2> QED BY <1>3, <1>4, <2>1, <2>2, LineDrops
<1>5. CASE job.cmd = "sync" /\ ~Compiles /\ Ended /\ UNCHANGED <<phase, watching, due>>
  <2>1. job'.cmd = "none" /\ job'.at = "idle" /\ missed'
    BY <1>2, <1>5, EndedIs
  <2>2. Heard'
    BY <1>3, <1>5, <2>1 DEF Heard
  <2>3. Compiled'
    BY <2>1 DEF Compiled
  <2> QED BY <2>2, <2>3 DEF InLineOK
<1>6. CASE /\ job'.at = "write" /\ job'.plan = Current /\ job'.mode = mode
           /\ \/ job.cmd = "start" /\ job'.cmd = "start" /\ UNCHANGED phase
              \/ job.cmd = "sync" /\ job'.cmd = "reload" /\ phase' = "reloading"
           /\ UNCHANGED <<watching, due, look>>
  <2>1. Heard'
    BY <1>3, <1>6 DEF Heard, Connected
  <2>2. Compiled'
    BY <1>2, <1>6 DEF Compiled
  <2> QED BY <2>1, <2>2 DEF InLineOK
<1>7. CASE /\ job.cmd = "sync" /\ Current = hash
           /\ job'.at = "compare" /\ job'.plan = Current /\ job'.mode = mode
           /\ job'.cmd = "switch" /\ expected' = mode
           /\ UNCHANGED <<phase, hash, watching, due, look>>
  <2>1. Heard'
    BY <1>3, <1>7 DEF Heard
  <2>2. Compiled'
    BY <1>2, <1>7 DEF Compiled
  <2> QED BY <2>1, <2>2 DEF InLineOK
<1> QED BY <1>4, <1>5, <1>6, <1>7, CompileIs

(* The plan is written, and the request goes out.                           *)
LEMMA LineWrites ==
  ASSUME Base, Base', Grows, OneRequest, StartOK, PlaceOK, InLineOK, WritePlan
  PROVE  InLineOK'
<1> SUFFICES ASSUME Calm'
             PROVE  Heard' /\ Compiled'
  BY DEF InLineOK
<1>1. SeenOK /\ Placed /\ Heard /\ Compiled
  BY LineGives
<1>2. /\ job.at = "write" /\ job.cmd \in {"start", "reload"}
      /\ job'.at = "await" /\ job'.cmd = job.cmd
      /\ job'.plan = job.plan /\ job'.mode = job.mode
      /\ UNCHANGED <<phase, hash, expected, watching, due, queue, missed, mode, look, host>>
      /\ Current' = Current
  BY WritePlanIs DEF Current
<1>3. job.cmd = "start" => phase = "starting" /\ ~(Seen /\ look.snap.state = "running")
  BY <1>1, <1>2 DEF Placed, SeenOK, Same, Up
<1>4. Heard'
  BY <1>1, <1>2, <1>3 DEF Heard, Connected, Seen
<1>5. Compiled'
  BY <1>1, <1>2 DEF Compiled
<1> QED BY <1>4, <1>5

(* The modes are compared.                                                  *)
LEMMA LineCompares ==
  ASSUME Base, Base', Grows, OneRequest, StartOK, PlaceOK, InLineOK, Compare
  PROVE  InLineOK'
<1> SUFFICES ASSUME Calm'
             PROVE  Heard' /\ Compiled'
  BY DEF InLineOK
<1>1. Placed /\ Heard /\ Compiled
  BY LineGives
<1>2. /\ job.at = "compare" /\ job.cmd = "switch"
      /\ job'.at \in {"await", "refresh"} /\ job'.cmd = "switch"
      /\ job'.plan = job.plan /\ job'.mode = job.mode
      /\ UNCHANGED <<phase, hash, expected, watching, due, queue, missed, mode, look>>
      /\ Current' = Current
  BY CompareIs, SwitchedIs DEF Current
<1>3. Heard'
  BY <1>1, <1>2 DEF Heard, Connected
<1>4. Compiled'
  BY <1>1, <1>2 DEF Compiled
<1> QED BY <1>3, <1>4

(* The request was carried out.                                             *)
LEMMA LineSucceeds ==
  ASSUME Base, Base', Grows, OneRequest, StartOK, PlaceOK, InLineOK, Succeeded
  PROVE  InLineOK'
<1> SUFFICES ASSUME Calm'
             PROVE  Heard' /\ Compiled'
  BY DEF InLineOK
<1>1. Placed /\ Heard /\ Compiled
  BY LineGives
<1>2. /\ job.at = "await" /\ job'.at = "refresh" /\ job'.cmd = job.cmd
      /\ UNCHANGED <<queue, missed, mode, look>>
      /\ Current' = Current
  BY SucceededIs DEF Current
<1>3. CASE Started
  <2>1. /\ job.cmd \in {"start", "reload"} /\ phase' = "running" /\ hash' = job.plan
        /\ expected' = job.mode /\ UNCHANGED <<watching, due>>
    BY <1>3, StartedIs
  <2>2. job.cmd = "reload" => phase = "reloading"
    BY <1>1, <1>2 DEF Placed
  <2>4. Heard'
    BY <1>1, <1>2, <2>1, <2>2 DEF Heard, Connected
  <2>5. Compiled'
    BY <1>1, <1>2, <2>1 DEF Compiled
  <2> QED BY <2>4, <2>5
<1>4. CASE Switched
  <2>1. job.cmd = "switch" /\ UNCHANGED <<phase, hash, expected, watching, due>>
    BY <1>4, SwitchedIs
  <2>2. Heard'
    BY <1>1, <1>2, <2>1 DEF Heard, Connected
  <2>3. Compiled'
    BY <1>1, <1>2, <2>1 DEF Compiled
  <2> QED BY <2>2, <2>3
<1>5. CASE job.cmd = "stop" /\ ShowStopped
  <2>1. phase' = "stopped" /\ watching' = FALSE /\ due' = FALSE
    BY <1>5, ShowStoppedIs
  <2>2. ~watching' /\ ~due' /\ ~Connected(phase)'
    BY <2>1, Zenon DEF Connected
  <2>3. Heard'
    BY <1>2, <1>5, <2>1, <2>2 DEF Heard
  <2>4. Compiled'
    BY <1>2, <1>5, <2>2 DEF Compiled
  <2> QED BY <2>3, <2>4
<1> QED BY <1>3, <1>4, <1>5, SucceededIs

(* A refusal was the core's.                                                *)
LEMMA LineRefuses ==
  ASSUME Base, Base', Grows, OneRequest, StartOK, PlaceOK, InLineOK, Refused
  PROVE  InLineOK'
<1>1. job.at = "await" /\ job.answer = "failed"
  BY RefusedIs
<1>2. Calm' => spent["core"] > 0 /\ spent["core"] = 0
  BY <1>1, LineGives DEF Placed
<1> QED BY <1>2 DEF InLineOK

(* The follow-up of a command asks.                                         *)
LEMMA LineFollows ==
  ASSUME Base, Base', Grows, OneRequest, StartOK, PlaceOK, InLineOK, FollowUp
  PROVE  InLineOK'
<1> SUFFICES ASSUME Calm'
             PROVE  Heard' /\ Compiled'
  BY DEF InLineOK
<1>1. Heard /\ Compiled
  BY LineGives
<1>2. /\ job.at = "refresh" /\ job'.at = "wait" /\ job'.cmd = job.cmd /\ job # Idle
      /\ UNCHANGED <<phase, hash, expected, watching, due, queue, missed, mode>>
      /\ Current' = Current
  BY FollowUpIs DEF Current
<1>3. look.at # "writing" /\ look'.at # "writing"
  <2>1. look.at = "writing" => ~look.fresh /\ look # NoLook
    BY <1>2, NoLookIs DEF Base, LookOK
  <2> QED BY <2>1, FollowUpIs, AskIs
<1>4. Heard'
  BY <1>1, <1>2, <1>3 DEF Heard, Connected
<1>5. Compiled'
  BY <1>1, <1>2, <1>3 DEF Compiled
<1> QED BY <1>4, <1>5

(* The panel's choice is saved.                                             *)
LEMMA LineWritesBack ==
  ASSUME Base, Base', Grows, OneRequest, StartOK, PlaceOK, InLineOK, WriteBack
  PROVE  InLineOK'
<1> SUFFICES ASSUME Calm'
             PROVE  Heard' /\ Compiled'
  BY DEF InLineOK
<1>1. Heard /\ Compiled /\ Placed
  BY LineGives
<1>2. /\ look.at = "writing" /\ look' = NoLook /\ mode' = look.snap.mode
      /\ UNCHANGED <<phase, hash, expected, watching, due, job, missed>>
      /\ Current' = Current
  BY WriteBackIs DEF Current
<1>3. look'.at = "none" /\ ~Seen'
  BY <1>2, NoLookIs DEF Seen
<1>4. Heard'
  BY <1>1, <1>2, <1>3 DEF Heard, Connected
<1>5. CASE Enqueue("sync")
  <2>1. queue' # <<>>
    BY <1>5, EnqueueIs DEF Commands
  <2> QED BY <1>4, <2>1 DEF Compiled
<1>6. CASE mode' = mode /\ queue' = queue
  <2>1. Compiled'
    BY <1>1, <1>2, <1>3, <1>6 DEF Compiled
  <2> QED BY <1>4, <2>1
<1>7. CASE ~watching
  <2>1. job.cmd = "stop" /\ job.at = "refresh" /\ ~Connected(phase)
    BY <1>1, <1>2, <1>7 DEF Heard
  <2>2. Compiled'
    BY <1>2, <2>1 DEF Compiled, Connected
  <2> QED BY <1>4, <2>2
<1> QED BY <1>5, <1>6, <1>7, WriteBackIs

(* A command ends.                                                          *)
LEMMA LineEnds ==
  ASSUME Base, Base', Grows, OneRequest, StartOK, PlaceOK, InLineOK, End
  PROVE  InLineOK'
<1> SUFFICES ASSUME Calm'
             PROVE  Heard' /\ Compiled'
  BY DEF InLineOK
<1>1. Heard /\ Compiled /\ Placed
  BY LineGives
<1>2. /\ job.at = "end" /\ job # Idle /\ job'.at = "idle" /\ job'.cmd = "none"
      /\ job.cmd = "start" => watching' = Connected(phase) /\ due' = (due /\ Connected(phase))
      /\ job.cmd # "start" => watching' = watching /\ due' = due
      /\ UNCHANGED <<phase, hash, expected, queue, missed, mode>>
      /\ Current' = Current
      /\ look'.at = look.at
  BY EndIs, EndedIs DEF Current, Schedule
<1>3. look.at # "writing"
  BY <1>2 DEF Base, LookOK
<1>4. phase \in {"stopped", "running"} /\ Connected(phase)' = Connected(phase)
  BY <1>1, <1>2 DEF Placed, Agreed, Connected
<1>5. phase = "stopped" => ~watching' /\ ~due'
  BY <1>1, <1>2 DEF Heard, Connected
<1>6. phase = "running" => watching' /\ (due' <=> due)
  <2>1. phase = "running" => Connected(phase)
    BY DEF Connected
  <2>2. job.cmd # "start" /\ phase = "running" => watching
    BY <1>1, <2>1 DEF Heard
  <2>3. phase = "running" /\ job.cmd = "start" => watching' = TRUE /\ (due' <=> due)
    BY <1>2, <2>1 DEF Base, TypeOK
  <2>4. watching' = TRUE => watching'
    BY Zenon
  <2> QED BY <1>2, <2>2, <2>3, <2>4 DEF Base, TypeOK
<1>7. Heard'
  BY <1>2, <1>3, <1>4, <1>5, <1>6 DEF Heard, Connected
<1>8. Compiled'
  BY <1>1, <1>2, <1>3, <1>4, <1>6 DEF Compiled, Connected
<1> QED BY <1>7, <1>8

(* What a command under way hears of a session that is there.               *)
LEMMA HeardAdopts ==
  ASSUME Base, Base', OneRequest, SeenOK, Placed, Heard, look.at = "served", look.fresh,
         look'.at = "writing" => look.snap.state = "running",
         job'.at = (IF job.at = "wait" THEN "end" ELSE job.at), job'.cmd = job.cmd,
         job'.answer = job.answer,
         look'.at # "served", NEW m \in Modes \cup {None}, Adopt(look.snap, m)
  PROVE  Heard'
<1>1. look.snap \in Snapshots /\ look.snap.state \in States
  BY DEF Base, TypeOK, Looks, Snapshots
<1>2. \A p : Connected(p)' <=> Connected(p)
  BY DEF Connected
<1>3. watching' = TRUE => watching'
  BY Zenon
<1>4. CASE look.snap.state = "running"
  <2>1. /\ phase' = (IF phase = "reloading" THEN phase ELSE "running")
        /\ watching' = TRUE
    BY <1>1, <1>4, AdoptIs
  <2>2. job.cmd = "start" /\ job.at = "await" => phase # "reloading" /\ job.answer = "done"
    BY <1>4 DEF Heard, Seen
  <2> QED BY <1>3, <2>1, <2>2 DEF Heard, Seen
<1>5. CASE look.snap.state \in {"stopped", "failed"}
  <2>1. /\ phase' = (IF phase \in BusyPhases THEN phase ELSE "stopped")
        /\ watching' = Connected(phase') /\ due' = (due /\ Connected(phase'))
    BY <1>1, <1>5, AdoptIs
  <2>2. job.cmd = "start" /\ job.at = "await" => phase = "starting"
    BY <1>5 DEF Heard, Seen
  <2>3. /\ Connected(phase') => watching'
        /\ ~Connected(phase') => ~watching' /\ ~due'
    BY <2>1, Zenon
  <2>4. look'.at # "writing"
    BY <1>5
  <2>5. /\ Connected(phase)' <=> Connected(phase')
        /\ phase' \in {"stopped", "starting"} => ~Connected(phase')
    BY DEF Connected
  <2>6. job.cmd = "start" /\ job.at = "await" => phase' = "starting"
    BY <2>1, <2>2 DEF BusyPhases
  <2> QED BY <2>3, <2>4, <2>5, <2>6 DEF Heard, Seen
<1>6. CASE look.snap.state \in BusyPhases
  <2>1. UNCHANGED <<phase, watching, due>>
    BY <1>1, <1>6, AdoptIs
  <2>2. look'.at # "writing" /\ look.snap.state # "running"
    BY <1>6 DEF BusyPhases
  <2>3. job.cmd = "start" /\ job.at = "await" => phase = "starting"
    BY <2>2 DEF Heard, Seen
  <2> QED BY <1>2, <2>1, <2>2, <2>3 DEF Heard, Seen
<1> QED BY <1>1, <1>4, <1>5, <1>6 DEF States, BusyPhases

(* Where a session is shown to be there, the snapshot says which one.       *)
LEMMA CompiledAdopts ==
  ASSUME Base, Base', OneRequest, Filed, SeenOK, Placed, Heard, Compiled, Between,
         look.at = "served", look.fresh, host.state \in {"stopped", "failed", "running"},
         UNCHANGED <<queue, missed, mode, tailnet, cfg>>, job' = Answered,
         job.at \in {"idle", "wait", "end"},
         NEW m \in Modes \cup {None}, Adopt(look.snap, m), wanted' = IntentAfter(look.snap),
         \/ m = expected
         \/ /\ m = look.snap.mode /\ job = Idle
            /\ look'.at = "writing" /\ look'.snap = look.snap
  PROVE  Compiled'
<1>1. /\ look.snap \in Snapshots /\ Same(look.snap) /\ wanted \in BOOLEAN
      /\ look.snap.proxy \in BOOLEAN /\ hash \in Plans \cup {None}
  BY DEF Base, TypeOK, Looks, Snapshots, SeenOK, Seen
<1>2. /\ job'.cmd = job.cmd /\ job'.plan = job.plan /\ job'.mode = job.mode
      /\ job'.at \in {"idle", "end"}
      /\ job # Idle <=> job.at # "idle"
  BY AnsweredIs, IdleIs DEF Base, JobOK
<1>3. Connected(phase') => /\ Up /\ phase = "running" /\ look.snap.state = "running"
                           /\ due' = due /\ expected' = m
                           /\ hash' = IF hash = None THEN host.hash ELSE hash
  <2>1. /\ job.at = "idle" => Agreed
        /\ job.at = "end" => Agreed
        /\ job.at = "wait" => phase \in {"stopped", "running"} /\ (Up => phase = "running")
    <3>1. job.at = "idle" => job = Idle /\ queue = <<>> /\ ~Opening
      BY IdleIs DEF Base, JobOK, Between, Opening, Has
    <3> QED BY <3>1 DEF Placed
  <2>2. phase \in {"stopped", "running"} /\ (Up => phase = "running")
    BY <2>1 DEF Agreed
  <2>3. CASE Up
    BY <1>1, <2>2, <2>3, AdoptIs DEF Same, Up
  <2>4. CASE ~Up
    <3>1. phase' = "stopped"
      BY <1>1, <2>2, <2>4, AdoptIs DEF Same, Up, BusyPhases
    <3> QED BY <3>1 DEF Connected
  <2> QED BY <2>3, <2>4
<1>4. job.cmd = "switch" => Connected(phase')
  <2>1. job.cmd = "switch" => Agreed /\ Up
    BY DEF Placed
  <2>2. Up /\ phase = "running" => phase' = "running"
    BY <1>1, AdoptIs DEF Same, Up
  <2> QED BY <2>1, <2>2 DEF Agreed, Connected
<1>5. Connected(phase') /\ queue' = <<>> /\ ~due' /\ ~missed' =>
        /\ hash = Current /\ expected = mode /\ hash' = hash /\ hash = host.hash
  <2> SUFFICES ASSUME Connected(phase'), queue' = <<>>, ~due', ~missed'
               PROVE  /\ hash = Current /\ expected = mode /\ hash' = hash /\ hash = host.hash
    OBVIOUS
  <2>1. Connected(phase) /\ queue = <<>> /\ ~due /\ ~missed /\ look.at # "writing"
    BY <1>3 DEF Connected
  <2>2. hash = Current /\ expected = mode
    BY <2>1 DEF Compiled
  <2>3. hash # None
    BY <2>2, CurrentIs, NoneIs
  <2>4. Named
    <3>1. job.at = "idle" => job = Idle /\ ~Opening
      BY <2>1, IdleIs DEF Base, JobOK, Opening, Has
    <3> QED BY <3>1 DEF Placed, Agreed
  <2> QED BY <1>3, <2>2, <2>3, <2>4 DEF Named
<1>6. Connected(phase') /\ hash = Current /\ hash = host.hash => Current' = Current
  <2> SUFFICES ASSUME Connected(phase'), hash = Current, hash = host.hash
               PROVE  wanted' = wanted
    BY DEF Current
  <2>1. CASE job # Idle
    BY <2>1 DEF IntentAfter
  <2>2. CASE job = Idle
    <3>1. wanted' = look.snap.proxy
      BY <1>3, <2>2 DEF IntentAfter
    <3>2. look.snap.proxy = host.file.plan.proxy
      <4>1. look.snap.proxy = (Up /\ host.file.plan.proxy) /\ host.file.plan = Current
        BY <1>1, <1>3 DEF Same, Filed
      <4>2. Current.proxy = wanted
        BY CurrentIs
      <4> QED BY <1>1, <1>3, <4>1, <4>2
    <3>3. host.file.plan.proxy = wanted
      BY <1>3, CurrentIs DEF Filed
    <3> QED BY <3>1, <3>2, <3>3
  <2> QED BY <2>1, <2>2
<1>7. Connected(phase)' <=> Connected(phase')
  BY DEF Connected
<1>8. job.cmd = "switch" => m = expected
  BY IdleIs
<1>9. ASSUME Connected(phase'), queue' = <<>>, ~due', ~missed'
      PROVE  /\ hash' = Current' /\ expected' = m
             /\ m = mode' \/ (m = look'.snap.mode /\ look'.at = "writing")
             /\ job.cmd = "switch" => m = mode'
  BY <1>3, <1>5, <1>6, <1>8, <1>9
<1> QED BY <1>2, <1>4, <1>7, <1>9 DEF Compiled

(* A snapshot changes nothing of what is compiled or sent.                  *)
LEMMA CompiledOverlaps ==
  ASSUME Base, Base', SeenOK, Placed, Heard, Compiled, look.at = "served", look.fresh,
         UNCHANGED <<queue, missed, mode>>, Current' = Current,
         job.at \notin {"idle", "wait", "end", "refresh"},
         job'.at = job.at, job'.cmd = job.cmd, job'.plan = job.plan, job'.mode = job.mode,
         Adopt(look.snap, expected)
  PROVE  Compiled'
<1>1. /\ look.snap \in Snapshots /\ look.snap.state \in States
      /\ expected \in Modes \cup {None}
  BY DEF Base, TypeOK, Looks, Snapshots
<1>2. /\ job.cmd = "switch" => job.at \in {"compare", "await"}
      /\ job.at = "compare" => job.cmd = "switch"
      /\ job.at = "write" => job.cmd \in {"start", "reload"}
      /\ job.at = "await" => job.cmd \in {"start", "reload", "switch", "stop"}
  BY DEF Base, JobOK, Jobs, TypeOK, Places
<1>3. job.cmd = "switch" => /\ look.snap.state = "running" /\ due' = due /\ expected' = expected
                            /\ hash # None => hash' = hash
  <2>1. job.cmd = "switch" => Up /\ Same(look.snap)
    BY DEF Placed, SeenOK, Seen
  <2> QED BY <1>1, <2>1, AdoptIs DEF Same, Up
<1>4. job.cmd = "reload" /\ job.at \in {"write", "await"} => (due' <=> due)
  <2>1. job.cmd = "reload" /\ job.at \in {"write", "await"} => phase = "reloading"
    BY DEF Placed
  <2>2. phase = "reloading" /\ look.snap.state \in {"stopped", "failed"} =>
          phase' = "reloading" /\ due' = (due /\ Connected(phase'))
    BY <1>1, AdoptIs DEF BusyPhases
  <2>3. phase' = "reloading" => Connected(phase')
    BY DEF Connected
  <2>4. look.snap.state \notin {"stopped", "failed"} => due' = due
    BY <1>1, AdoptIs DEF States, BusyPhases
  <2> QED BY <2>1, <2>2, <2>3, <2>4
<1>5. job.cmd = "start" /\ job.at \in {"write", "await"} => (due' <=> due)
  <2>1. /\ job.cmd = "start" /\ job.at = "write" => phase = "starting"
        /\ job.cmd = "start" /\ job.at = "await" /\ look.snap.state # "running" =>
             phase = "starting"
    BY DEF Placed, Heard, Seen
  <2>2. job.cmd = "start" /\ phase = "starting" => ~due
    BY DEF Heard
  <2>3. due' => due
    BY <1>1, AdoptIs
  <2>4. look.snap.state = "running" => due' = due
    BY <1>1, AdoptIs
  <2> QED BY <2>1, <2>2, <2>3, <2>4
<1>6. hash = Current => hash # None
  BY CurrentIs, NoneIs
<1> QED BY <1>2, <1>3, <1>4, <1>5, <1>6 DEF Compiled

(* A query is answered.                                                     *)
LEMMA LineReceives ==
  ASSUME Base, Base', Grows, OneRequest, StartOK, PlaceOK, InLineOK, Receive
  PROVE  InLineOK'
<1> SUFFICES ASSUME Calm'
             PROVE  InLineOK'
  BY DEF InLineOK
<1>1. /\ Undisturbed /\ Filed /\ SeenOK /\ Placed /\ Heard /\ Compiled
  BY LineGives
<1>2. /\ look.at = "served" /\ job' = Answered /\ Between /\ look.snap \in Snapshots
      /\ job'.at = (IF job.at = "wait" THEN "end" ELSE job.at) /\ job'.cmd = job.cmd
      /\ job'.plan = job.plan /\ job'.mode = job.mode /\ job'.answer = job.answer
      /\ UNCHANGED <<queue, missed, mode, tailnet, cfg>>
  BY ReceiveIs, AnsweredIs
<1>3. CASE /\ ~look.fresh /\ look' = NoLook
           /\ UNCHANGED <<phase, wanted, hash, expected, watching, due>>
  <2>1. job.at # "wait"
    BY <1>3 DEF Base, LookOK
  <2>2. look'.at = "none" /\ ~look'.fresh
    BY <1>3, NoLookIs
  <2> QED BY <1>2, <1>3, <2>1, <2>2, LineStays DEF Seen
<1>4. CASE look.fresh
  <2>1. PICK m \in Modes \cup {None} :
          /\ Adopt(look.snap, m)
          /\ \/ m = expected /\ look' = NoLook
             \/ /\ m = look.snap.mode /\ job = Idle /\ look.snap.state = "running"
                /\ look'.at = "writing" /\ look'.snap = look.snap
          /\ wanted' = IntentAfter(look.snap)
    BY <1>4, ReceiveIs
  <2>2. look'.at # "served" /\ (look'.at = "writing" => look.snap.state = "running")
    BY <2>1, NoLookIs
  <2>3. Heard'
    BY <1>1, <1>2, <1>4, <2>1, <2>2, HeardAdopts
  <2>4. CASE job.at \in {"idle", "wait", "end"}
    <3>1. host.state \in {"stopped", "failed", "running"}
      BY <1>1, <2>4, PlaceFacts DEF Asking
    <3>2. Compiled'
      BY <1>1, <1>2, <1>4, <2>1, <2>4, <3>1, CompiledAdopts
    <3> QED BY <2>3, <3>2 DEF InLineOK
  <2>5. CASE job.at \notin {"idle", "wait", "end", "refresh"}
    <3>1. job # Idle /\ m = expected /\ wanted' = wanted /\ Current' = Current
      <4>1. job # Idle
        BY <2>5, IdleIs
      <4> QED BY <1>2, <2>1, <4>1 DEF IntentAfter, Current
    <3>2. job'.at = job.at /\ job'.at \notin {"idle", "wait", "end", "refresh"}
      BY <1>2, <2>5
    <3>3. Compiled'
      BY <1>1, <1>2, <1>4, <2>1, <2>5, <3>1, <3>2, CompiledOverlaps
    <3> QED BY <2>3, <3>3 DEF InLineOK
  <2>6. job.at # "refresh"
    BY <1>2, <1>4 DEF Between
  <2> QED BY <2>4, <2>5, <2>6
<1> QED BY <1>3, <1>4, ReceiveIs

(* Every step.                                                              *)
LEMMA LineStep ==
  ASSUME Base, Base', Grows, OneRequest, StartOK, PlaceOK, InLineOK, [Next]_vars
  PROVE  InLineOK'
<1>1. CASE AttachReads
  <2>1. /\ job.cmd = "attach" /\ job'.at = "adopt" /\ job'.cmd = "attach"
        /\ UNCHANGED <<phase, watching, due, look>>
    BY <1>1, AttachReadsIs
  <2>2. Calm' => Heard
    BY LineGives
  <2>3. Calm' => Heard' /\ Compiled'
    BY <2>1, <2>2 DEF Heard, Compiled, Connected
  <2> QED BY <2>3 DEF InLineOK
<1>2. CASE Debounced
  <2>1. queue' # <<>>
    BY <1>2, DebouncedIs, EnqueueIs DEF Commands
  <2> QED BY <1>2, <2>1, DebouncedIs, LineQueues
<1>3. CASE Coordinator
  BY <1>1, <1>2, <1>3, LineBegins, LineAttaches, LineConsents, LineCompiles, LineWrites,
     LineCompares, LineSucceeds, LineRefuses, LineFollows, LineReceives, LineWritesBack,
     LineEnds DEF Coordinator
<1>4. CASE Bridge
  <2>1. CASE Serve
    <3>1. look'.at = "served" /\ look.at = "sent" /\ look'.snap.state = host.state
      BY <2>1, ServeIs, SnapshotIs
    <3> QED BY <2>1, <3>1, ServeIs, LineStays
  <2>2. ASSUME CoreStarts \/ StopEnds \/ \E r \in wire : TakeUp(r) \/ StopBegins(r) \/ SetMode(r)
        PROVE  InLineOK'
    <3>1. /\ job'.at = job.at /\ job'.cmd = job.cmd /\ job'.plan = job.plan
          /\ job'.mode = job.mode
          /\ UNCHANGED <<phase, hash, expected, watching, due, queue, missed, wanted, tailnet,
                         cfg, mode, look>>
      BY <2>2, CoreStartsIs, StopEndsIs, TakeUpIs, StopBeginsIs, SetModeIs
    <3>2. job' = job \/ Asking
      BY <2>2, CoreStartsIs, StopEndsIs, TakeUpIs, StopBeginsIs, SetModeIs
    <3>3. job.answer = "done" => job'.answer = "done"
      BY <3>2 DEF Asking
    <3> QED BY <3>1, <3>3, LineStays DEF Seen
  <2> QED BY <1>4, <2>1, <2>2 DEF Bridge
<1>5. CASE User
  <2>1. CASE Toggle
    <3>1. queue' # <<>>
      BY <2>1, ToggleIs, EnqueueIs DEF Commands
    <3> QED BY <2>1, <3>1, ToggleIs, LineQueues
  <2>2. CASE StopAll
    <3>1. queue' # <<>>
      BY <2>2, StopAllIs, EnqueueIs DEF Commands
    <3> QED BY <2>2, <3>1, StopAllIs, LineQueues
  <2>3. CASE SetTailnetEnabled
    <3>1. queue' # <<>>
      BY <2>3, SetTailnetIs, EnqueueIs DEF Commands
    <3>2. due' => due \/ watching
      BY <2>3, SetTailnetIs
    <3> QED BY <2>3, <3>1, <3>2, SetTailnetIs, LineQueues
  <2>4. ASSUME NEW c \in Cfgs, Edit(c)
        PROVE  InLineOK'
    <3>1. /\ due' = (due \/ watching)
          /\ missed' = (missed \/ (~watching /\ phase # "stopped"))
      BY <2>4, EditIs
    <3>2. (due' => due \/ watching) /\ (due' \/ missed' \/ phase = "stopped")
      BY <3>1
    <3> QED BY <2>4, <3>2, EditIs, LineQueues
  <2>5. ASSUME NEW m \in Modes, Choose(m)
        PROVE  InLineOK'
    <3>1. missed' = (missed \/ (~watching /\ phase # "stopped"))
      BY <2>5, ChooseIs
    <3>2. CASE watching /\ Enqueue("sync") /\ ~due'
      <4>1. queue' # <<>>
        BY <3>2, EnqueueIs DEF Commands
      <4> QED BY <2>5, <3>2, <4>1, ChooseIs, LineQueues
    <3>3. CASE ~watching /\ due' = due
      <4>1. missed' \/ phase = "stopped"
        BY <3>1, <3>3
      <4> QED BY <2>5, <3>3, <4>1, ChooseIs, LineQueues
    <3> QED BY <2>5, <3>2, <3>3, ChooseIs
  <2> QED BY <1>5, <2>1, <2>2, <2>3, <2>4, <2>5 DEF User
<1>6. CASE Environment
  <2>1. CASE HostStops \/ Restore \/ AnswerLost \/ QueryFails \/ DiskFails \/ Reopen
    <3>1. ~Calm'
      BY <2>1, HostStopsIs, RestoreIs, AnswerLostIs, QueryFailsIs, DiskFailsIs, ReopenIs, SpendIs
         DEF Calm, Undisturbed, Kinds
    <3> QED BY <3>1 DEF InLineOK
  <2>2. CASE \E m \in Modes : PanelSets(m)
    BY <2>2, PanelSetsIs, LineStays DEF Seen
  <2> QED BY <1>6, <2>1, <2>2 DEF Environment
<1>7. CASE Poll
  <2>1. look'.at = "sent" /\ look.at = "none"
    BY <1>7, PollIs, AskIs, NoLookIs
  <2> QED BY <1>7, <2>1, PollIs, LineStays DEF Seen
<1>8. CASE UNCHANGED vars
  BY <1>8, LineStays DEF Seen, vars, shown, session, follow, history, settings, intent
<1> QED BY <1>3, <1>4, <1>5, <1>6, <1>7, <1>8 DEF Next

(* It begins with nothing compiled.                                         *)
LEMMA LineInit ==
  ASSUME Init
  PROVE  InLineOK
<1>1. /\ phase = "stopped" /\ job.at = "idle" /\ job.cmd = "none" /\ look.at = "none"
      /\ ~watching /\ ~due
  BY InitIs, IdleIs, NoLookIs
<1> QED BY <1>1 DEF InLineOK, Heard, Compiled, Connected

-----------------------------------------------------------------------------
(* The invariant, and what it gives.                                        *)

IInv ==
  /\ Base
  /\ OneRequest
  /\ KeptOK
  /\ StartOK
  /\ NoteOK
  /\ PlaceOK
  /\ InLineOK

(* It holds at the start.                                                   *)
LEMMA IInvInit ==
  ASSUME Init
  PROVE  IInv
BY BaseInit, OneInit, KeptInit, StartInit, NoteInit, PlaceInit, LineInit DEF IInv

(* Every step keeps it.                                                     *)
LEMMA IInvStep ==
  ASSUME IInv, [Next]_vars
  PROVE  IInv'
<1>1. /\ Base /\ OneRequest /\ KeptOK /\ StartOK /\ NoteOK /\ PlaceOK /\ InLineOK
  BY DEF IInv
<1>2. Base' /\ Grows
  BY <1>1, BaseStep, Counts
<1>3. OneRequest' /\ KeptOK' /\ StartOK' /\ NoteOK' /\ PlaceOK' /\ InLineOK'
  BY <1>1, <1>2, OneStep, KeptStep, StartStep, NoteStep, PlaceStep, LineStep
<1> QED BY <1>2, <1>3 DEF IInv

(* The invariant always holds.                                              *)
LEMMA Always == Spec => []IInv
<1>1. Init => IInv
  BY IInvInit
<1>2. IInv /\ [Next]_vars => IInv'
  BY IInvStep
<1> QED BY <1>1, <1>2, PTL DEF Spec

(* With nothing under way nothing opens, and coordinator and host agree.    *)
LEMMA QuietAgrees ==
  ASSUME IInv, Undisturbed, Quiet
  PROVE  Agreed /\ Filed
<1>1. Filed /\ Placed /\ job = Idle /\ queue = <<>>
  BY DEF IInv, PlaceOK, Quiet
<1>2. ~Opening
  BY <1>1, IdleIs DEF Opening, Has
<1> QED BY <1>1, <1>2 DEF Placed

(* Coordinator, host gateway and engine stay within their types.            *)
THEOREM Typed == Spec => []TypeOK
<1>1. IInv => TypeOK
  BY DEF IInv, Base
<1> QED BY <1>1, Always, PTL

(* The plan the host restarts from is one a core has run, however starts,   *)
(* reloads and switches were refused, cut off by a failing disk or taken    *)
(* over by the host itself, if no request was left behind (_keepPlan()).    *)
THEOREM Kept == Spec => []KeptWasAccepted
<1>1. IInv => KeptWasAccepted
  BY DEF IInv, KeptOK, KeptWasAccepted
<1> QED BY <1>1, Always, PTL

(* The proxy is not started by what the user took back or what ended on its *)
(* own, whatever was lost, delayed or restarted on the way.                 *)
THEOREM NotUnwanted == Spec => []NoUnwantedStart
<1>1. ASSUME IInv
      PROVE  NoUnwantedStart
  <2>1. OneRequest /\ StartOK /\ wire \subseteq Requests
    BY <1>1 DEF IInv, Base, TypeOK
  <2>2. ASSUME halted, NEW r \in wire, r.own, r.op = "start", r.hash.proxy
        PROVE  FALSE
    <3>1. Answers(r)
      BY <2>1, <2>2 DEF OneRequest
    <3>2. job.at = "await" /\ job.cmd = "start" /\ r.hash = job.plan
      BY <2>2, <3>1 DEF Answers, Asking, OpOf
    <3> QED BY <2>1, <2>2, <3>2 DEF StartOK
  <2> QED BY <2>1, <2>2 DEF NoUnwantedStart, StartOK
<1> QED BY <1>1, Always, PTL

(* Once the commands are through, the coordinator shows and remembers the   *)
(* session that runs, and a port only for the plan that runs.               *)
THEOREM Agreeing == Spec => []Agrees
<1>1. ASSUME IInv
      PROVE  Agrees
  <2>1. ASSUME Undisturbed, Quiet
        PROVE  /\ phase \in {"stopped", "running"}
               /\ Connected(phase) <=> host.state = "running"
               /\ host.state = "running" => sid = host.session /\ hash = host.hash
    BY <1>1, <2>1, QuietAgrees DEF Agreed, Named, Up, Connected
  <2>2. ASSUME Told, Quiet, attested # None, host.state = "running"
        PROVE  attested = host.hash
    <3>1. NoteOK /\ ~Done /\ host.hash \in Plans
      BY <1>1, <2>2, IdleIs DEF IInv, Quiet, Done, Base, EngineOK
    <3> QED BY <2>2, <3>1, NoneIs DEF NoteOK
  <2> QED BY <2>1, <2>2 DEF Agrees
<1> QED BY <1>1, Always, PTL

(* A session that runs has the plan and the choices saved now, once nothing *)
(* is pending, every edit was heard and no core refused.                    *)
THEOREM InStep == Spec => []InLine
<1>1. ASSUME IInv, Undisturbed, NothingRefused, Quiet, ~due, ~missed, Connected(phase)
      PROVE  host.file.plan = Current /\ expected = mode
  <2>1. Agreed /\ Filed
    BY <1>1, QuietAgrees
  <2>2. Compiled
    BY <1>1 DEF IInv, InLineOK, Calm, NothingRefused
  <2>3. /\ job.at = "idle" /\ queue = <<>> /\ look.at # "writing"
    BY <1>1, IdleIs DEF Quiet
  <2>4. hash = Current /\ expected = mode
    BY <1>1, <2>2, <2>3 DEF Compiled
  <2>5. Up
    BY <1>1, <2>1 DEF Agreed, Connected
  <2> QED BY <2>1, <2>4, <2>5 DEF Agreed, Named, Filed
<1>2. IInv => InLine
  BY <1>1 DEF InLine
<1> QED BY <1>2, Always, PTL
=============================================================================
