------------------------- MODULE SystemProxyProofs -------------------------
(***************************************************************************)
(* What holds of the desktop's proxy settings for any number of settings,  *)
(* ports and requests, and for any edits, failures and crashes.            *)
(*                                                                         *)
(* The invariant says what the request under way knows: where it stands    *)
(* with a record in the journal, and, as long as the user changed nothing  *)
(* and commands do what they report (Clean), that what it has read is      *)
(* still there and that it gives back all that is not the user's.          *)
(***************************************************************************)
EXTENDS SystemProxy, TLAPS

Steps == Readings \cup {"idle", "save", "compare", "set", "drop"}

JobSet == [at : Steps, key : 1 .. N + 1, seen : Settings, expect : Settings,
           todo : SUBSET Keys, owned : SUBSET Keys, applies : BOOLEAN,
           then : {"done", "failed", "apply", "exit"}, port : Ports \cup {Off}]

Records == [before : Settings, port : Ports]

TypeOK ==
  /\ os \in Settings
  /\ journal \in Records \cup {NoJournal}
  /\ job \in JobSet
  /\ queue \in Seq(BOOLEAN)
  /\ last \in Ports \cup {Off, Nothing}
  /\ view \in [active : BOOLEAN, failed : BOOLEAN, known : BOOLEAN]
  /\ look \in [port : Ports \cup {Off}, stale : BOOLEAN]
  /\ session \in Ports \cup {Stopped, Moving, Unknown}
  /\ late \in [keys : SUBSET Keys, to : Settings]
  /\ own \in Settings
  /\ touched \subseteq Keys
  /\ blind \in BOOLEAN
  /\ budget \in Budgets

(* A request that is writing a takeover, or the original.                   *)
TakesOver(j) == j.at \in {"guard", "compare", "set"} /\ j.applies
GivesBack(j) == j.at \in {"guard", "compare", "set"} /\ ~j.applies

(* A request j and the record r: nothing is written without one, and a      *)
(* write expects only what the record accounts for.                         *)
Fits(j, r) ==
  /\ j.at \in {"before", "save"} => r = NoJournal
  /\ j.at \in {"active", "guard", "compare", "set", "verify", "current", "confirm", "drop"} =>
       r # NoJournal
  /\ TakesOver(j) \/ j.at = "verify" => r.port = j.port
  /\ TakesOver(j) \/ j.at \in {"active", "before", "save", "verify"} \/ j.then = "apply" =>
       j.port \in Ports
  /\ j.at = "save" => j.applies
  /\ j.at \notin Readings => j.key = 1
  /\ j.at \in {"guard", "compare", "set"} =>
       \A k \in Keys : j.expect[k] \in {r.before[k], Target[r.port][k]}

(* What is in force is the user's or what the record says we wrote.         *)
Recorded(o, r, w) ==
  IF r = NoJournal THEN o = w
  ELSE r.before = w /\ \A k \in Keys : o[k] \in {w[k], Target[r.port][k]}

(* What the request j knows of the settings o, the record r and what the    *)
(* last takeover found, w.                                                  *)
Knows(j, o, w) ==
  /\ j.at \in Readings => \A k \in Keys : k < j.key => j.seen[k] = o[k]
  /\ j.at = "save" => j.expect = w
  /\ j.at = "drop" => o = w
  /\ GivesBack(j) => o = j.expect
  /\ GivesBack(j) \/ j.at = "confirm" => \A k \in Keys \ j.owned : o[k] = w[k]

(* The user changed nothing since, commands do what they report, and no     *)
(* comparison of a restore went unanswered.                                 *)
Clean == touched = {} /\ Traceable

Intact == Clean => Recorded(os, journal, own) /\ Knows(job, os, own)

(* An inspection that is not stale may show what the intent is about.       *)
Viewed ==
  /\ view.active => last \in Ports
  /\ look # NoLook /\ ~look.stale => last \in Ports

(* Only a command can outlive its timeout.                                  *)
OnTime == late # NoWrite => ~Grouped /\ "late" \in Quirks

Inv == TypeOK /\ Fits(job, journal) /\ Intact /\ Viewed /\ OnTime

-----------------------------------------------------------------------------
(* Constants.                                                               *)

(* Where there are settings at all, Blank is some.                          *)
LEMMA BlankIs ==
  ASSUME NEW s \in Settings
  PROVE  Blank \in Settings
BY DEF Blank

(* A port is no intent but itself.                                          *)
LEMMA PortIs ==
  ASSUME NEW p \in Ports
  PROVE  /\ p \notin {Off, Nothing, Stopped, Moving, Unknown}
         /\ Target[p] \in Settings
BY ConstantsAssumption

(* The empty record names no port.                                          *)
LEMMA RecordIs ==
  ASSUME NEW r \in Records
  PROVE  r # NoJournal /\ r.before \in Settings /\ r.port \in Ports
         /\ Target[r.port] \in Settings
<1>1. r.port \in Ports /\ r.before \in Settings
  BY DEF Records
<1>2. Off \notin Ports
  BY ConstantsAssumption
<1>3. NoJournal.port = Off
  BY DEF NoJournal
<1> QED BY <1>1, <1>2, <1>3, ConstantsAssumption

(* No request is under way: nothing is known and nothing is needed.         *)
LEMMA IdleKnows ==
  ASSUME NEW s \in Settings
  PROVE  /\ Idle \in JobSet
         /\ \A r : Fits(Idle, r)
         /\ \A o, w : Knows(Idle, o, w)
<1>1. Blank \in Settings /\ 1 \in 1 .. N + 1
  BY BlankIs, ConstantsAssumption
<1>2. Idle \in JobSet
  BY <1>1 DEF Idle, JobSet, Steps
<1>3. /\ Idle.at = "idle" /\ Idle.key = 1 /\ Idle.then = "done"
  BY DEF Idle
<1> QED BY <1>2, <1>3 DEF Fits, Knows, TakesOver, GivesBack, Readings

-----------------------------------------------------------------------------
(* How requests end and what is shown.                                      *)

(* What the ends of a request leave alone or set.                           *)
ShownOK ==
  /\ last' \in Ports \cup {Off, Nothing}
  /\ view' \in [active : BOOLEAN, failed : BOOLEAN, known : BOOLEAN]
  /\ look' \in [port : Ports \cup {Off}, stale : BOOLEAN]
  /\ Viewed'

(* Whatever is newly shown outdates an inspection.                          *)
LEMMA ShowOutdates ==
  ASSUME look \in [port : Ports \cup {Off}, stale : BOOLEAN], NEW v, Show(v)
  PROVE  /\ look' \in [port : Ports \cup {Off}, stale : BOOLEAN]
         /\ look' = NoLook \/ look'.stale
         /\ view' = v
<1>1. look' = [look EXCEPT !.stale = look # NoLook] /\ view' = v
  BY DEF Show
<1>2. CASE look = NoLook
  <2>1. look' = NoLook
    BY <1>1, <1>2 DEF NoLook
  <2> QED BY <1>1, <1>2, <2>1
<1>3. CASE look # NoLook
  BY <1>1, <1>3
<1> QED BY <1>2, <1>3

LEMMA SucceedShows ==
  ASSUME TypeOK, NEW intent \in Ports \cup {Off}, Succeed(intent)
  PROVE  ShownOK /\ job' = Idle
<1>1. /\ look' \in [port : Ports \cup {Off}, stale : BOOLEAN]
      /\ look' = NoLook \/ look'.stale
      /\ view' = Shown(intent # Off)
  BY ShowOutdates DEF Succeed, TypeOK
<1>2. last' = intent /\ job' = Idle
  BY DEF Succeed
<1>3. view' \in [active : BOOLEAN, failed : BOOLEAN, known : BOOLEAN]
      /\ (view'.active => intent # Off)
  BY <1>1 DEF Shown
<1> QED BY <1>1, <1>2, <1>3 DEF ShownOK, Viewed

LEMMA FailShows ==
  ASSUME TypeOK, NEW then, Fail(then)
  PROVE  ShownOK /\ job' = Idle
<1>1. /\ look' \in [port : Ports \cup {Off}, stale : BOOLEAN]
      /\ look' = NoLook \/ look'.stale
      /\ view' = Failed
  BY ShowOutdates DEF Fail, TypeOK
<1>2. last' = last /\ job' = Idle
  BY DEF Fail
<1>3. view' \in [active : BOOLEAN, failed : BOOLEAN, known : BOOLEAN] /\ ~view'.active
  BY <1>1 DEF Failed
<1> QED BY <1>1, <1>2, <1>3 DEF ShownOK, Viewed, TypeOK

LEMMA StaysShown ==
  ASSUME TypeOK, Viewed, UNCHANGED shown
  PROVE  ShownOK
BY DEF shown, ShownOK, Viewed, TypeOK

LEMMA RestoredShows ==
  ASSUME TypeOK, Viewed, NEW then \in {"done", "failed", "apply", "exit"}, Restored(then)
  PROVE  /\ ShownOK
         /\ \/ job' = Idle
            \/ then = "apply" /\ job' = [job EXCEPT !.at = "before", !.key = 1, !.seen = Blank]
<1>1. CASE then = "done"
  BY <1>1, SucceedShows DEF Restored
<1>2. CASE then = "failed"
  BY <1>2, FailShows DEF Restored
<1>3. CASE then = "apply"
  BY <1>3, StaysShown DEF Restored, GoTo
<1>4. CASE then = "exit"
  <2>1. Show(Shown(FALSE)) /\ last' = last /\ job' = Idle
    BY <1>4 DEF Restored
  <2>2. /\ look' \in [port : Ports \cup {Off}, stale : BOOLEAN]
        /\ look' = NoLook \/ look'.stale
        /\ view' = Shown(FALSE)
    BY <2>1, ShowOutdates DEF TypeOK
  <2>3. view' \in [active : BOOLEAN, failed : BOOLEAN, known : BOOLEAN] /\ ~view'.active
    BY <2>2 DEF Shown
  <2> QED BY <2>1, <2>2, <2>3 DEF ShownOK, Viewed, TypeOK
<1> QED BY <1>1, <1>2, <1>3, <1>4

-----------------------------------------------------------------------------
(* Steps at which nothing is known yet.                                     *)

Fresh(j) ==
  /\ j.at \in {"idle", "active", "before", "guard", "verify", "current", "set"}
  /\ j.at \in Readings => j.key = 1
  /\ ~GivesBack(j)

LEMMA FreshKnows ==
  ASSUME NEW j \in JobSet, Fresh(j), NEW o, NEW w
  PROVE  Knows(j, o, w)
<1>1. j.key = 1 => ~ \E k \in Keys : k < j.key
  BY DEF Keys
<1> QED BY <1>1 DEF Fresh, Knows, GivesBack

(* What comes after a step when the settings it leaves are accounted for.   *)
After ==
  /\ job' \in JobSet
  /\ Fits(job', journal')
  /\ Knows(job', os', own')
  /\ ShownOK

(* A restore begins, or ends where there is no record.                      *)
LEMMA EnterRestoreKeeps ==
  ASSUME Inv, NEW port \in Ports \cup {Off},
         NEW then \in {"done", "failed", "apply", "exit"},
         EnterRestore(port, then),
         then = "apply" => journal # NoJournal /\ port \in Ports,
         UNCHANGED <<journal, budget>>
  PROVE  After
<1>1. TypeOK /\ Viewed /\ os \in Settings
  BY DEF Inv, TypeOK
<1>2. CASE journal = NoJournal
  <2>1. Restored(then) /\ then # "apply"
    BY <1>2 DEF EnterRestore
  <2>2. ShownOK /\ job' = Idle
    BY <1>1, <2>1, RestoredShows
  <2> QED BY <1>1, <2>2, IdleKnows DEF After
<1>3. CASE journal # NoJournal
  <2>1. PICK j : j = [Idle EXCEPT !.at = "current", !.port = port, !.then = then]
    OBVIOUS
  <2>2. job' = j /\ ShownOK
    BY <1>1, <1>3, <2>1, StaysShown DEF EnterRestore
  <2>3. j \in JobSet
    BY <1>1, <2>1, IdleKnows DEF JobSet, Steps, Readings
  <2>4. j.at = "current" /\ j.port = port /\ j.then = then /\ j.key = 1
    BY <2>1 DEF Idle
  <2>5. Fits(j, journal)
    BY <1>3, <2>4 DEF Fits, TakesOver, Readings
  <2>6. Fresh(j)
    BY <2>4 DEF Fresh, GivesBack
  <2>7. Fits(j, journal') /\ journal' = journal
    BY <2>5
  <2>8. Fits(job', journal')
    BY <2>2, <2>7 DEF Fits, Grouped
  <2> QED BY <2>2, <2>3, <2>6, <2>8, FreshKnows DEF After
<1> QED BY <1>2, <1>3

(* What is left is put together.                                            *)
LEMMA Together ==
  ASSUME Inv, After, os' \in Settings, journal' \in Records \cup {NoJournal},
         queue' \in Seq(BOOLEAN), session' \in Ports \cup {Stopped, Moving, Unknown},
         late' \in [keys : SUBSET Keys, to : Settings], own' \in Settings,
         touched' \subseteq Keys, blind' \in BOOLEAN, UNCHANGED budget,
         Clean' => Recorded(os', journal', own'), OnTime'
  PROVE  Inv'
<1>1. Fits(job, journal)'
  BY DEF After, Fits, Grouped, TakesOver
<1>2. Knows(job, os, own)'
  BY DEF After, Knows, GivesBack
<1>3. Recorded(os, journal, own)' <=> Recorded(os', journal', own')
  BY DEF Recorded
<1>4. TypeOK'
  BY DEF Inv, After, ShownOK, TypeOK
<1> QED BY <1>1, <1>2, <1>3, <1>4 DEF Inv, After, ShownOK, Intact

(* A step that leaves the settings, the record and the bounds alone.        *)
Quietly == UNCHANGED <<os, journal, session, late, own, touched, blind, budget>>

LEMMA QuietlyTogether ==
  ASSUME Inv, After, Quietly, queue' \in Seq(BOOLEAN)
  PROVE  Inv'
<1>1. Clean' = Clean /\ (Clean => Recorded(os, journal, own))
  BY DEF Quietly, Clean, Traceable, Inv, Intact, Grouped, Quirks
<1>2. OnTime' = OnTime
  BY DEF Quietly, OnTime, Grouped, Quirks
<1>3. Clean' => Recorded(os', journal', own')
  BY <1>1 DEF Quietly
<1> QED BY <1>2, <1>3, Together DEF Quietly, Inv, TypeOK

(* The steps that only read or decide.                                      *)

LEMMA BeginKeeps ==
  ASSUME Inv, Begin
  PROVE  Inv'
<1>1. Quietly
  BY DEF Begin, Quietly, outside, history
<1>2. queue' \in Seq(BOOLEAN)
  BY DEF Begin, Inv, TypeOK
<1>3. TypeOK /\ Viewed /\ os \in Settings /\ job = Idle
  BY DEF Inv, TypeOK, Begin
<1>4. CASE UNCHANGED <<job, shown>>
  <2>1. ShownOK /\ job' = Idle
    BY <1>3, <1>4, StaysShown
  <2>2. After
    BY <1>3, <2>1, IdleKnows DEF After
  <2> QED BY <1>1, <1>2, <2>2, QuietlyTogether
<1>5. CASE last' = Nothing /\ Show(Unsure) /\ UNCHANGED <<job, exit>>
  <2>1. /\ look' \in [port : Ports \cup {Off}, stale : BOOLEAN]
        /\ look' = NoLook \/ look'.stale
        /\ view' = Unsure
    BY <1>3, <1>5, ShowOutdates DEF TypeOK
  <2>2. view' \in [active : BOOLEAN, failed : BOOLEAN, known : BOOLEAN] /\ ~view'.active
    BY <2>1 DEF Unsure
  <2>3. ShownOK /\ job' = Idle
    BY <1>3, <1>5, <2>1, <2>2 DEF ShownOK, Viewed
  <2>4. After
    BY <1>3, <2>3, IdleKnows DEF After
  <2> QED BY <1>1, <1>2, <2>4, QuietlyTogether
<1>6. CASE Wanted /\ Intent # Unknown /\ session # Moving /\ EnterApply(session)
  <2>1. session \in Ports
    BY <1>6 DEF Wanted, Intent
  <2>2. CASE journal = NoJournal \/ Target[journal.port] = Target[session]
    <3>1. PICK j : j = [Idle EXCEPT !.at = IF journal = NoJournal THEN "before" ELSE "active",
                                    !.port = session]
      OBVIOUS
    <3>2. job' = j /\ ShownOK
      BY <1>3, <1>6, <2>2, <3>1, StaysShown DEF EnterApply
    <3>3. j \in JobSet
      BY <1>3, <2>1, <3>1, IdleKnows DEF JobSet, Steps, Readings
    <3>4. /\ j.at = IF journal = NoJournal THEN "before" ELSE "active"
          /\ j.port = session /\ j.then = "done" /\ j.key = 1
      BY <3>1 DEF Idle
    <3>5. Fits(j, journal)
      BY <2>1, <3>4 DEF Fits, TakesOver, Readings
    <3>6. Fresh(j)
      BY <3>4 DEF Fresh, GivesBack
    <3>7. Fits(job', journal')
      BY <1>1, <3>2, <3>5 DEF Fits, Grouped, Quietly
    <3>8. After
      BY <3>2, <3>3, <3>6, <3>7, FreshKnows DEF After
    <3> QED BY <1>1, <1>2, <3>8, QuietlyTogether
  <2>3. CASE ~(journal = NoJournal \/ Target[journal.port] = Target[session])
    <3>1. EnterRestore(session, "apply")
      BY <1>6, <2>3 DEF EnterApply
    <3>2. After
      BY <1>1, <2>1, <2>3, <3>1, EnterRestoreKeeps DEF Quietly
    <3> QED BY <1>1, <1>2, <3>2, QuietlyTogether
  <2> QED BY <2>2, <2>3
<1>7. CASE EnterRestore(Off, "done")
  <2>1. After
    BY <1>1, <1>7, EnterRestoreKeeps DEF Quietly
  <2> QED BY <1>1, <1>2, <2>1, QuietlyTogether
<1> QED BY <1>4, <1>5, <1>6, <1>7 DEF Begin

LEMMA ProxyActiveKeeps ==
  ASSUME Inv, ProxyActive
  PROVE  Inv'
<1>1. Quietly /\ queue' = queue
  BY DEF ProxyActive, Quietly, outside, history
<1>2. /\ job.at = "active" /\ job.port \in Ports /\ journal # NoJournal
      /\ TypeOK /\ os \in Settings
  BY DEF ProxyActive, ReadAll, Inv, Fits, TypeOK
<1>3. CASE Succeed(job.port)
  <2>1. ShownOK /\ job' = Idle
    BY <1>2, <1>3, SucceedShows
  <2> QED BY <1>1, <1>2, <2>1, IdleKnows, QuietlyTogether DEF After, TypeOK
<1>4. CASE EnterRestore(job.port, "apply")
  <2>1. After
    BY <1>1, <1>2, <1>4, EnterRestoreKeeps DEF Quietly
  <2> QED BY <1>1, <1>2, <2>1, QuietlyTogether DEF TypeOK
<1> QED BY <1>3, <1>4 DEF ProxyActive

LEMMA VerifyKeeps ==
  ASSUME Inv, Verify
  PROVE  Inv'
<1>1. Quietly /\ queue' = queue
  BY DEF Verify, Quietly, outside, history
<1>2. /\ job.at = "verify" /\ job.port \in Ports
      /\ TypeOK /\ os \in Settings
  BY DEF Verify, ReadAll, Inv, Fits, TypeOK
<1>3. CASE Succeed(job.port)
  <2>1. ShownOK /\ job' = Idle
    BY <1>2, <1>3, SucceedShows
  <2> QED BY <1>1, <1>2, <2>1, IdleKnows, QuietlyTogether DEF After, TypeOK
<1>4. CASE EnterRestore(job.port, "failed")
  <2>1. After
    BY <1>1, <1>2, <1>4, EnterRestoreKeeps DEF Quietly
  <2> QED BY <1>1, <1>2, <2>1, QuietlyTogether DEF TypeOK
<1> QED BY <1>3, <1>4 DEF Verify

LEMMA RestoreForExitKeeps ==
  ASSUME Inv, RestoreForExit
  PROVE  Inv'
<1>1. Quietly /\ queue' = queue
  BY DEF RestoreForExit, Quietly, outside, history
<1>2. After
  BY <1>1, EnterRestoreKeeps DEF RestoreForExit, Quietly
<1> QED BY <1>1, <1>2, QuietlyTogether DEF Inv, TypeOK

(* Where a step of the request that is not a write leads: nothing is shown, *)
(* and the new place of the request is given by its fields.                 *)
LEMMA GoesOn ==
  ASSUME Inv, UNCHANGED <<os, journal, session, late, own, touched, blind, budget, queue, shown>>,
         NEW j \in JobSet, job' = j, Fits(j, journal),
         Clean => Knows(j, os, own)
  PROVE  Inv'
<1>1. TypeOK'
  BY DEF Inv, TypeOK, shown
<1>2. Fits(job, journal)'
  BY DEF Fits, Grouped, TakesOver
<1>3. Knows(job, os, own)' <=> Knows(j, os, own)
  BY DEF Knows, GivesBack
<1>4. Recorded(os, journal, own)' <=> Recorded(os, journal, own)
  BY DEF Recorded
<1>5. Clean' = Clean /\ OnTime' = OnTime /\ Viewed' = Viewed
  BY DEF Clean, Traceable, Grouped, Quirks, OnTime, Viewed, shown
<1> QED BY <1>1, <1>2, <1>3, <1>4, <1>5 DEF Inv, Intact

LEMMA ChooseTakeoverKeeps ==
  ASSUME Inv, ChooseTakeover
  PROVE  Inv'
<1>1. UNCHANGED <<os, journal, session, late, own, touched, blind, budget, queue, shown>>
  BY DEF ChooseTakeover, outside, history
<1>2. job.at = "before" /\ job.key = N + 1 /\ job \in JobSet /\ journal = NoJournal
      /\ job.port \in Ports
  BY DEF ChooseTakeover, ReadAll, Inv, TypeOK, Fits
<1>3. PICK j : j = [Takeover(job.seen) EXCEPT !.at = "save"]
  OBVIOUS
<1>4. job.seen \in Settings /\ Blank \in Settings /\ 1 \in 1 .. N + 1
  BY <1>2, BlankIs, ConstantsAssumption DEF JobSet
<1>5. j \in JobSet
  BY <1>2, <1>3, <1>4 DEF Takeover, JobSet, Steps
<1>6. /\ j.at = "save" /\ j.key = 1 /\ j.expect = job.seen /\ j.applies
      /\ j.port = job.port /\ j.then = job.then
  BY <1>2, <1>3 DEF Takeover, JobSet
<1>7. Fits(j, journal)
  BY <1>2, <1>6 DEF Fits, TakesOver, Readings
<1>8. ASSUME Clean
      PROVE  Knows(j, os, own)
  <2>1. os = own /\ \A k \in Keys : k < N + 1 => job.seen[k] = os[k]
    BY <1>2, <1>8 DEF Inv, Intact, Recorded, Knows, Readings
  <2>2. \A k \in Keys : k < N + 1
    BY ConstantsAssumption DEF Keys
  <2>3. job.seen = own
    BY <1>4, <2>1, <2>2 DEF Inv, TypeOK, Settings
  <2> QED BY <1>6, <2>3 DEF Knows, GivesBack, Readings
<1>9. job' = j
  BY <1>3 DEF ChooseTakeover
<1> QED BY <1>1, <1>5, <1>7, <1>8, <1>9, GoesOn

(* Moving on within a request.                                              *)
LEMMA GoToIs ==
  ASSUME Inv, NEW step \in Steps, GoTo(step)
  PROVE  \E j \in JobSet :
           /\ job' = j /\ j.at = step /\ j.key = 1
           /\ j.expect = job.expect /\ j.todo = job.todo /\ j.owned = job.owned
           /\ j.applies = job.applies /\ j.then = job.then /\ j.port = job.port
<1>1. job \in JobSet /\ Blank \in Settings /\ 1 \in 1 .. N + 1
  BY BlankIs, ConstantsAssumption DEF Inv, TypeOK
<1>2. PICK j : j = [job EXCEPT !.at = step, !.key = 1, !.seen = Blank]
  OBVIOUS
<1>3. j \in JobSet
  BY <1>1, <1>2 DEF JobSet
<1>4. /\ job' = j /\ j.at = step /\ j.key = 1
      /\ j.expect = job.expect /\ j.todo = job.todo /\ j.owned = job.owned
      /\ j.applies = job.applies /\ j.then = job.then /\ j.port = job.port
  BY <1>1, <1>2 DEF GoTo, JobSet
<1> QED BY <1>3, <1>4

(* All that was read is what is there.                                      *)
LEMMA ReadAllIs ==
  ASSUME Inv, Clean, NEW step \in Readings, ReadAll(step)
  PROVE  job.seen = os
<1>1. \A k \in Keys : job.seen[k] = os[k]
  BY ConstantsAssumption DEF Inv, Intact, Knows, ReadAll, Keys
<1>2. job.seen \in Settings /\ os \in Settings
  BY DEF Inv, TypeOK, JobSet
<1> QED BY <1>1, <1>2 DEF Settings

(* A takeover gives up what it wrote; a restore never finds the group       *)
(* changed while all is clean.                                              *)
LEMMA OwnershipKeeps ==
  ASSUME Inv, OwnershipChanged, job.at \in {"guard", "compare"},
         Clean => job.applies,
         UNCHANGED <<os, journal, session, late, own, touched, blind, budget, queue>>
  PROVE  Inv'
<1>1. Quietly /\ queue' \in Seq(BOOLEAN) /\ job.port \in Ports \cup {Off} /\ job \in JobSet
      /\ journal # NoJournal
  BY DEF Quietly, Inv, TypeOK, JobSet, Fits
<1>2. CASE job.applies
  <2>1. After
    BY <1>1, <1>2, EnterRestoreKeeps DEF OwnershipChanged
  <2> QED BY <1>1, <2>1, QuietlyTogether
<1>3. CASE ~job.applies
  <2>1. GoTo("drop") /\ UNCHANGED shown
    BY <1>3 DEF OwnershipChanged
  <2>2. PICK j \in JobSet : job' = j /\ j.at = "drop" /\ j.key = 1 /\ j.then = job.then
                            /\ j.port = job.port
    BY <2>1, GoToIs DEF Steps
  <2>3. Fits(j, journal)
    BY <1>1, <2>2 DEF Fits, TakesOver, Inv
  <2>4. ~Clean
    BY <1>3
  <2> QED BY <2>1, <2>2, <2>3, <2>4, GoesOn
<1> QED BY <1>2, <1>3 DEF Inv, TypeOK, JobSet

LEMMA CheckExpectedKeeps ==
  ASSUME Inv, CheckExpected
  PROVE  Inv'
<1>1. UNCHANGED <<os, journal, session, late, own, touched, blind, budget, queue>>
  BY DEF CheckExpected, outside, history
<1>2. job.at = "guard" /\ ReadAll("guard") /\ job \in JobSet
  BY DEF CheckExpected, ReadAll, Inv, TypeOK
<1>3. CASE job.seen = job.expect /\ UNCHANGED shown
           /\ GoTo(IF Grouped THEN "compare" ELSE "set")
  <2>1. PICK j \in JobSet :
           /\ job' = j /\ j.at \in {"compare", "set"} /\ j.key = 1
           /\ j.expect = job.expect /\ j.owned = job.owned
           /\ j.applies = job.applies /\ j.then = job.then /\ j.port = job.port
    BY <1>3, GoToIs DEF Steps
  <2>2. Fits(j, journal)
    BY <1>2, <2>1 DEF Inv, Fits, TakesOver
  <2>3. Clean => Knows(j, os, own)
    BY <1>2, <2>1 DEF Inv, Intact, Knows, GivesBack, Readings
  <2> QED BY <1>1, <1>3, <2>1, <2>2, <2>3, GoesOn
<1>4. CASE job.seen # job.expect /\ OwnershipChanged
  <2>1. Clean => job.applies
    <3>1. ASSUME Clean, ~job.applies
          PROVE  FALSE
      <4>1. job.seen = os
        BY <1>2, <3>1, ReadAllIs DEF Readings
      <4>2. os = job.expect
        BY <1>2, <3>1 DEF Inv, Intact, Knows, GivesBack
      <4> QED BY <1>4, <4>1, <4>2
    <3> QED BY <3>1 DEF Inv, TypeOK, JobSet
  <2> QED BY <1>1, <1>2, <1>4, <2>1, OwnershipKeeps
<1> QED BY <1>3, <1>4 DEF CheckExpected, Matches

LEMMA CompareKeeps ==
  ASSUME Inv, Compare
  PROVE  Inv'
<1>1. UNCHANGED <<os, journal, session, late, own, touched, blind, budget, queue>>
  BY DEF Compare, outside
<1>2. job.at = "compare" /\ job \in JobSet
  BY DEF Compare, Inv, TypeOK
<1>3. CASE job' = [job EXCEPT !.at = "set"] /\ UNCHANGED shown
  <2>1. PICK j : j = [job EXCEPT !.at = "set"]
    OBVIOUS
  <2>2. /\ j \in JobSet /\ j.at = "set" /\ j.key = job.key
        /\ j.expect = job.expect /\ j.owned = job.owned
        /\ j.applies = job.applies /\ j.then = job.then /\ j.port = job.port
    BY <1>2, <2>1 DEF JobSet, Steps
  <2>3. Fits(j, journal)
    BY <1>2, <2>2 DEF Inv, Fits, TakesOver, Readings
  <2>4. Clean => Knows(j, os, own)
    BY <1>2, <2>2 DEF Inv, Intact, Knows, GivesBack, Readings
  <2> QED BY <1>1, <1>3, <2>1, <2>2, <2>3, <2>4, GoesOn
<1>4. CASE os # job.expect /\ OwnershipChanged
  <2>1. Clean => job.applies
    <3>1. Clean => ~GivesBack(job)
      BY <1>4 DEF Inv, Intact, Knows
    <3> QED BY <1>2, <3>1 DEF GivesBack
  <2> QED BY <1>1, <1>2, <1>4, <2>1, OwnershipKeeps
<1> QED BY <1>3, <1>4 DEF Compare, Matches

(* A comparison without an answer loses the record of a restore: nothing is *)
(* promised any more.                                                       *)
LEMMA CompareFailsKeeps ==
  ASSUME Inv, CompareFails
  PROVE  Inv'
<1>1. /\ UNCHANGED <<os, journal, session, late, own, touched, budget, queue>>
      /\ job.at = "compare" /\ OwnershipChanged /\ blind' = (blind \/ ~job.applies)
  BY DEF CompareFails, outside
<1>2. job \in JobSet /\ blind \in BOOLEAN /\ job.applies \in BOOLEAN
  BY DEF Inv, TypeOK, JobSet
<1>3. CASE job.applies
  <2>1. blind' = blind
    BY <1>1, <1>2, <1>3
  <2> QED BY <1>1, <1>3, <2>1, OwnershipKeeps
<1>4. CASE ~job.applies
  <2>1. GoTo("drop") /\ UNCHANGED shown
    BY <1>1, <1>4 DEF OwnershipChanged
  <2>2. PICK j \in JobSet : job' = j /\ j.at = "drop" /\ j.key = 1 /\ j.then = job.then
                            /\ j.port = job.port
    BY <2>1, GoToIs DEF Steps
  <2>3. Fits(job, journal)'
    BY <1>1, <2>2 DEF Fits, TakesOver, Inv
  <2>4. blind'
    BY <1>1, <1>2, <1>4
  <2>5. ~Clean'
    BY <2>4 DEF Clean, Traceable
  <2>6. TypeOK'
    BY <1>1, <1>2, <2>1, <2>2 DEF Inv, TypeOK, shown
  <2>7. OnTime' /\ Viewed'
    BY <1>1, <2>1 DEF Inv, OnTime, Viewed, Grouped, Quirks, shown
  <2> QED BY <2>3, <2>5, <2>6, <2>7 DEF Inv, Intact
<1> QED BY <1>2, <1>3, <1>4

LEMMA DecideRestoreKeeps ==
  ASSUME Inv, DecideRestore
  PROVE  Inv'
<1>1. UNCHANGED <<os, journal, session, late, own, touched, blind, budget, queue, shown>>
  BY DEF DecideRestore, outside, history
<1>2. job.at = "current" /\ ReadAll("current") /\ job \in JobSet /\ journal # NoJournal
      /\ journal \in Records
  BY DEF DecideRestore, ReadAll, Inv, TypeOK, Fits
<1>3. ASSUME Clean
      PROVE  /\ job.seen = os
             /\ journal.before = own
             /\ \A k \in Keys : os[k] \in {own[k], Target[journal.port][k]}
  BY <1>2, <1>3, ReadAllIs DEF Inv, Intact, Recorded, Readings
<1>4. CASE (ChangedExternally(job.seen) \/ Owned(job.seen) = {}) /\ GoTo("drop")
  <2>1. PICK j \in JobSet : job' = j /\ j.at = "drop" /\ j.key = 1 /\ j.then = job.then
                            /\ j.port = job.port
    BY <1>4, GoToIs DEF Steps
  <2>2. Fits(j, journal)
    BY <1>2, <2>1 DEF Fits, TakesOver, Inv
  <2>3. ASSUME Clean
        PROVE  os = own
    <3>1. \A k \in Keys : os[k] # Target[journal.port][k]
      BY <1>3, <1>4, <2>3 DEF ChangedExternally, Owned
    <3>2. os \in Settings /\ own \in Settings
      BY DEF Inv, TypeOK
    <3> QED BY <1>3, <2>3, <3>1, <3>2 DEF Settings
  <2>4. Clean => Knows(j, os, own)
    BY <2>1, <2>3 DEF Knows, GivesBack, Readings
  <2> QED BY <1>1, <2>1, <2>2, <2>4, GoesOn
<1>5. CASE /\ ~ChangedExternally(job.seen)
           /\ job' = [job EXCEPT !.at = "guard", !.key = 1, !.seen = Blank,
                                 !.expect = job.seen, !.todo = Owned(job.seen),
                                 !.owned = Owned(job.seen), !.applies = FALSE]
  <2>1. PICK owned \in SUBSET Keys : owned = Owned(job.seen)
    BY DEF Owned
  <2>2. PICK j : j = [job EXCEPT !.at = "guard", !.key = 1, !.seen = Blank,
                                 !.expect = job.seen, !.todo = owned,
                                 !.owned = owned, !.applies = FALSE]
    OBVIOUS
  <2>3. Blank \in Settings /\ job.seen \in Settings /\ 1 \in 1 .. N + 1
    BY <1>2, BlankIs, ConstantsAssumption DEF JobSet
  <2>4. j \in JobSet
    BY <1>2, <2>2, <2>3 DEF JobSet, Steps, Readings
  <2>5. /\ j.at = "guard" /\ j.key = 1 /\ j.expect = job.seen /\ j.owned = owned
        /\ ~j.applies /\ j.port = job.port /\ j.then = job.then
    BY <1>2, <2>2 DEF JobSet
  <2>6. Fits(j, journal)
    BY <1>2, <1>5, <2>5 DEF Fits, TakesOver, Inv, ChangedExternally, Readings
  <2>7. ASSUME Clean
        PROVE  Knows(j, os, own)
    <3>1. os = j.expect
      BY <1>3, <2>5, <2>7
    <3>2. \A k \in Keys \ owned : os[k] = own[k]
      BY <1>3, <2>1, <2>7 DEF Owned
    <3>3. ~ \E k \in Keys : k < 1
      BY DEF Keys
    <3> QED BY <2>5, <3>1, <3>2, <3>3 DEF Knows
  <2>8. job' = j
    BY <1>5, <2>1, <2>2
  <2> QED BY <1>1, <2>4, <2>6, <2>7, <2>8, GoesOn
<1> QED BY <1>4, <1>5 DEF DecideRestore

LEMMA ConfirmKeeps ==
  ASSUME Inv, Confirm
  PROVE  Inv'
<1>1. UNCHANGED <<os, journal, session, late, own, touched, blind, budget, queue>>
  BY DEF Confirm, outside, history
<1>2. job.at = "confirm" /\ ReadAll("confirm") /\ job \in JobSet /\ journal # NoJournal
      /\ TypeOK /\ os \in Settings /\ own \in Settings
  BY DEF Confirm, ReadAll, Inv, TypeOK, Fits
<1>3. CASE Holds /\ GoTo("drop") /\ UNCHANGED shown
  <2>1. PICK j \in JobSet : job' = j /\ j.at = "drop" /\ j.key = 1 /\ j.then = job.then
                            /\ j.port = job.port
    BY <1>3, GoToIs DEF Steps
  <2>2. Fits(j, journal)
    BY <1>2, <2>1 DEF Fits, TakesOver, Inv
  <2>3. ASSUME Clean
        PROVE  os = own
    <3>1. job.seen = os /\ journal.before = own
      BY <1>2, <2>3, ReadAllIs DEF Inv, Intact, Recorded, Readings
    <3>2. \A k \in Keys \ job.owned : os[k] = own[k]
      BY <1>2, <2>3 DEF Inv, Intact, Knows
    <3>3. \A k \in job.owned : os[k] = own[k]
      BY <1>3, <3>1 DEF Holds
    <3> QED BY <1>2, <3>2, <3>3 DEF Settings
  <2>4. Clean => Knows(j, os, own)
    BY <2>1, <2>3 DEF Knows, GivesBack, Readings
  <2> QED BY <1>1, <1>3, <2>1, <2>2, <2>4, GoesOn
<1>4. CASE Fail(job.then)
  <2>1. ShownOK /\ job' = Idle
    BY <1>2, <1>4, FailShows
  <2> QED BY <1>1, <1>2, <2>1, IdleKnows, QuietlyTogether DEF After, TypeOK, Quietly
<1> QED BY <1>3, <1>4 DEF Confirm

-----------------------------------------------------------------------------
(* Reading, and what is written.                                            *)

(* What was read stays true, and the first look before a takeover finds     *)
(* what is to be restored later.                                            *)
LEMMA ReadKeeps ==
  ASSUME Inv, Read
  PROVE  Inv'
<1>1. /\ UNCHANGED <<os, journal, session, late, blind, budget, queue, shown>>
      /\ job.at \in Readings /\ job.key <= N
  BY DEF Read, outside
<1>2. /\ TypeOK /\ job \in JobSet /\ os \in Settings /\ N \in Nat /\ Viewed
      /\ job.key \in 1 .. N + 1 /\ job.seen \in Settings
  BY ConstantsAssumption DEF Inv, TypeOK, JobSet
<1>3. PICK keys : keys = IF Grouped THEN Keys ELSE {job.key}
  OBVIOUS
<1>4. PICK seen : seen = [k \in Keys |-> IF k \in keys THEN os[k] ELSE job.seen[k]]
  OBVIOUS
<1>5. PICK key : key = IF Grouped THEN N + 1 ELSE job.key + 1
  OBVIOUS
<1>6. PICK j : j = [job EXCEPT !.seen = seen, !.key = key]
  OBVIOUS
<1>7. job' = j
  BY <1>2, <1>3, <1>4, <1>5, <1>6 DEF Read, JobSet
<1>8. seen \in Settings /\ key \in 1 .. N + 1
  BY <1>1, <1>2, <1>4, <1>5 DEF Settings
<1>9. /\ j.at = job.at /\ j.key = key /\ j.seen = seen /\ j.expect = job.expect
      /\ j.todo = job.todo /\ j.owned = job.owned
      /\ j.applies = job.applies /\ j.then = job.then /\ j.port = job.port
  BY <1>2, <1>6 DEF JobSet
<1>10. j \in JobSet
  BY <1>2, <1>6, <1>8 DEF JobSet
<1>11. Fits(j, journal')
  BY <1>1, <1>9 DEF Inv, Fits, TakesOver
<1>12. ASSUME \A k \in Keys : k < job.key => job.seen[k] = os[k]
       PROVE  \A k \in Keys : k < key => seen[k] = os[k]
  BY <1>1, <1>2, <1>3, <1>4, <1>5, <1>12 DEF Keys
<1>13. ShownOK
  BY <1>1, <1>2, StaysShown
<1>14. OnTime' /\ (Grouped' <=> Grouped) /\ Quirks' = Quirks
  BY <1>1 DEF Inv, OnTime, Grouped, Quirks
<1>15. CASE job.at = "before" /\ job.key = 1 /\ own' = os /\ touched' = {}
  <2>1. \A k \in Keys : k < key => seen[k] = os[k]
    BY <1>12, <1>15 DEF Keys
  <2>2. Knows(j, os, own')
    BY <1>9, <1>15, <2>1 DEF Knows, GivesBack
  <2>3. After
    BY <1>1, <1>7, <1>10, <1>11, <1>13, <2>2 DEF After
  <2>4. Recorded(os', journal', own')
    BY <1>1, <1>15 DEF Recorded, Inv, Fits
  <2> QED BY <1>1, <1>2, <1>14, <1>15, <2>3, <2>4, Together DEF TypeOK
<1>16. CASE UNCHANGED <<own, touched>>
  <2>1. ASSUME Clean
        PROVE  Knows(j, os, own)
    <3>1. \A k \in Keys : k < key => seen[k] = os[k]
      BY <1>1, <1>12, <2>1 DEF Inv, Intact, Knows
    <3> QED BY <1>1, <1>9, <2>1, <3>1 DEF Inv, Intact, Knows, GivesBack
  <2> QED BY <1>1, <1>7, <1>10, <1>11, <1>16, <2>1, GoesOn
<1> QED BY <1>15, <1>16 DEF Read

LEMMA SaveJournalKeeps ==
  ASSUME Inv, SaveJournal
  PROVE  Inv'
<1>1. /\ UNCHANGED <<os, session, late, own, touched, blind, budget, queue, shown>>
      /\ job.at = "save" /\ journal' = [before |-> job.expect, port |-> job.port]
  BY DEF SaveJournal, outside, history
<1>2. /\ TypeOK /\ Viewed /\ job \in JobSet /\ journal = NoJournal /\ job.applies
      /\ job.port \in Ports /\ job.expect \in Settings /\ job.key = 1
  BY <1>1 DEF Inv, TypeOK, Fits, JobSet, Readings
<1>3. journal' \in Records /\ journal' # NoJournal
  BY <1>1, <1>2, RecordIs DEF Records
<1>4. PICK j : j = [job EXCEPT !.at = "guard"]
  OBVIOUS
<1>5. /\ j.at = "guard" /\ j.key = 1 /\ j.expect = job.expect /\ j.applies
      /\ j.then = job.then /\ j.port = job.port
  BY <1>2, <1>4 DEF JobSet
<1>6. job' = j /\ j \in JobSet
  BY <1>2, <1>4 DEF SaveJournal, JobSet, Steps, Readings
<1>7. Fits(j, journal')
  BY <1>1, <1>2, <1>3, <1>5 DEF Fits, TakesOver, Readings
<1>8. Fresh(j)
  BY <1>5 DEF Fresh, GivesBack
<1>9. After
  BY <1>1, <1>2, <1>6, <1>7, <1>8, FreshKnows, StaysShown DEF After
<1>10. Clean' => Recorded(os', journal', own')
  <2>1. Clean' <=> Clean
    BY <1>1 DEF Clean, Traceable, Grouped, Quirks
  <2>2. Clean => os = own /\ job.expect = own
    BY <1>1, <1>2 DEF Inv, Intact, Recorded, Knows
  <2> QED BY <1>1, <1>3, <2>1, <2>2 DEF Recorded
<1>11. OnTime'
  BY <1>1 DEF Inv, OnTime, Grouped, Quirks
<1> QED BY <1>1, <1>2, <1>3, <1>9, <1>10, <1>11, Together DEF TypeOK

(* What a write leaves of clean settings is still accounted for.            *)
LEMMA WrittenIs ==
  ASSUME Inv, job.at = "set"
  PROVE  /\ \A s \in Settings : Written(s) \in Settings
         /\ Clean => Recorded(Written(os), journal, own)
         /\ Clean /\ ~job.applies => \A k \in Keys \ job.owned : Written(os)[k] = own[k]
<1>1. /\ job \in JobSet /\ journal \in Records /\ os \in Settings /\ own \in Settings
      /\ journal # NoJournal /\ job.applies \in BOOLEAN /\ job.expect \in Settings
      /\ job.applies => journal.port = job.port
  BY DEF Inv, TypeOK, Fits, TakesOver, JobSet
<1>2. Writing \in Settings
  BY <1>1, RecordIs DEF Writing
<1>3. \A s \in Settings : Written(s) \in Settings
  BY <1>1, <1>2 DEF Written, Settings
<1>4. \A k \in Keys : Written(os)[k] \in {Writing[k], os[k], job.expect[k]}
  BY DEF Written
<1>5. ASSUME Clean
      PROVE  /\ journal.before = own
             /\ \A k \in Keys : os[k] \in {own[k], Target[journal.port][k]}
  BY <1>1, <1>5 DEF Inv, Intact, Recorded
<1>6. ASSUME Clean
      PROVE  Recorded(Written(os), journal, own)
  <2>1. \A k \in Keys : Writing[k] \in {own[k], Target[journal.port][k]}
    BY <1>1, <1>5, <1>6 DEF Writing
  <2>2. \A k \in Keys : job.expect[k] \in {own[k], Target[journal.port][k]}
    BY <1>5, <1>6 DEF Inv, Fits
  <2> QED BY <1>1, <1>4, <1>5, <1>6, <2>1, <2>2 DEF Recorded
<1>7. ASSUME Clean, ~job.applies
      PROVE  \A k \in Keys \ job.owned : Written(os)[k] = own[k]
  <2>1. Writing = own
    BY <1>5, <1>7 DEF Writing
  <2>2. /\ \A k \in Keys \ job.owned : os[k] = own[k]
        /\ job.expect = os
    BY <1>7 DEF Inv, Intact, Knows, GivesBack
  <2> QED BY <1>4, <2>1, <2>2
<1> QED BY <1>3, <1>6, <1>7

(* Where a write leads.                                                     *)
LEMMA AfterSetIs ==
  ASSUME Inv, job.at = "set"
  PROVE  /\ AfterSet \in JobSet
         /\ AfterSet.at \in {"guard", "verify", "confirm"}
         /\ Grouped => AfterSet.at # "guard"
         /\ AfterSet.at = "verify" => job.applies
         /\ AfterSet.at = "confirm" => ~job.applies
         /\ AfterSet.key = 1 /\ AfterSet.expect = Written(job.expect)
         /\ AfterSet.owned = job.owned /\ AfterSet.applies = job.applies
         /\ Fits(AfterSet, journal)
<1>1. job \in JobSet /\ job.expect \in Settings /\ Written(job.expect) \in Settings
  BY WrittenIs DEF Inv, TypeOK, JobSet
<1>2. PICK at \in {"guard", "verify", "confirm"} :
         at = IF job.todo # NextKeys THEN "guard"
              ELSE IF job.applies THEN "verify" ELSE "confirm"
  OBVIOUS
<1>3. PICK todo \in SUBSET Keys : todo = job.todo \ NextKeys
  BY <1>1 DEF JobSet
<1>4. PICK expect \in Settings : expect = Written(job.expect)
  BY <1>1
<1>5. AfterSet = [job EXCEPT !.expect = expect, !.todo = todo, !.at = at]
  BY <1>1, <1>2, <1>3, <1>4 DEF AfterSet, JobSet
<1>6. PICK j : j = AfterSet
  OBVIOUS
<1>7. /\ j \in JobSet /\ j.at = at /\ j.expect = expect /\ j.key = job.key
      /\ j.owned = job.owned /\ j.applies = job.applies /\ j.then = job.then
      /\ j.port = job.port
  BY <1>1, <1>2, <1>3, <1>4, <1>5, <1>6 DEF JobSet, Steps, Readings
<1>8. job.key = 1
  BY DEF Inv, Fits, Readings
<1>9. Grouped => at # "guard"
  BY <1>2 DEF NextKeys
<1>10. (at = "verify" => job.applies) /\ (at = "confirm" => ~job.applies)
  BY <1>2
<1>11. \A k \in Keys : expect[k] \in {journal.before[k], Target[journal.port][k]}
  <2>1. \A k \in Keys : job.expect[k] \in {journal.before[k], Target[journal.port][k]}
    BY DEF Inv, Fits
  <2>2. \A k \in Keys : Writing[k] \in {journal.before[k], Target[journal.port][k]}
    BY DEF Writing, Inv, Fits, TakesOver
  <2> QED BY <1>4, <2>1, <2>2 DEF Written
<1>12. Fits(j, journal)
  BY <1>7, <1>8, <1>10, <1>11 DEF Inv, Fits, TakesOver
<1> QED BY <1>4, <1>6, <1>7, <1>8, <1>9, <1>10, <1>12

LEMMA SetKeeps ==
  ASSUME Inv, Set
  PROVE  Inv'
<1>1. UNCHANGED <<journal, session, late, own, touched, blind, budget, queue>> /\ job.at = "set"
  BY DEF Set, outside, history
<1>2. TypeOK /\ Viewed /\ job \in JobSet /\ os \in Settings
  BY DEF Inv, TypeOK
<1>3. Clean' <=> Clean
  BY <1>1 DEF Clean, Traceable, Grouped, Quirks
<1>4. os' = Written(os) /\ job' = AfterSet /\ UNCHANGED shown
  BY DEF Set
<1>5. os' \in Settings /\ (Clean => Recorded(os', journal, own))
  BY <1>1, <1>2, <1>4, WrittenIs
<1>6. Clean /\ ~job.applies => \A k \in Keys \ job.owned : os'[k] = own[k]
  BY <1>1, <1>4, WrittenIs
<1>7. Clean /\ ~job.applies => os' = Written(job.expect)
  BY <1>1, <1>4 DEF Inv, Intact, Knows, GivesBack
<1>8. PICK j \in JobSet :
        /\ job' = j /\ j.at \in {"guard", "verify", "confirm"}
        /\ j.at = "verify" => job.applies
        /\ j.at = "confirm" => ~job.applies
        /\ j.key = 1 /\ j.expect = Written(job.expect) /\ j.owned = job.owned
        /\ j.applies = job.applies /\ Fits(j, journal)
  BY <1>1, <1>4, AfterSetIs
<1>9. Clean => Knows(j, os', own)
  <2>1. ~ \E k \in Keys : k < 1
    BY DEF Keys
  <2> QED BY <1>6, <1>7, <1>8, <2>1 DEF Knows, GivesBack
<1>10. ShownOK
  BY <1>2, <1>4, StaysShown
<1>11. Fits(job, journal)'
  BY <1>1, <1>8 DEF Fits, TakesOver, Grouped
<1>12. Intact'
  <2>1. Knows(job, os, own)' <=> Knows(j, os', own)
    BY <1>1, <1>8 DEF Knows, GivesBack
  <2>2. Recorded(os, journal, own)' <=> Recorded(os', journal, own)
    BY <1>1 DEF Recorded
  <2> QED BY <1>3, <1>5, <1>9, <2>1, <2>2 DEF Intact
<1>13. OnTime'
  BY <1>1 DEF Inv, OnTime, Grouped, Quirks
<1>14. TypeOK'
  BY <1>1, <1>2, <1>5, <1>8, <1>10 DEF TypeOK, ShownOK
<1> QED BY <1>10, <1>11, <1>12, <1>13, <1>14 DEF Inv, ShownOK

LEMMA DropJournalKeeps ==
  ASSUME Inv, DropJournal
  PROVE  Inv'
<1>1. /\ UNCHANGED <<os, session, late, own, touched, blind, budget, queue>>
      /\ job.at = "drop" /\ journal' = NoJournal /\ Restored(job.then)
  BY DEF DropJournal, outside, history
<1>2. /\ TypeOK /\ Viewed /\ job \in JobSet /\ os \in Settings
      /\ job.then \in {"done", "failed", "apply", "exit"}
      /\ job.then = "apply" => job.port \in Ports
  BY DEF Inv, TypeOK, JobSet, Fits
<1>3. ShownOK
  BY <1>1, <1>2, RestoredShows
<1>4. After
  <2>1. CASE job' = Idle
    BY <1>2, <1>3, <2>1, IdleKnows DEF After
  <2>2. CASE job.then = "apply" /\ job' = [job EXCEPT !.at = "before", !.key = 1, !.seen = Blank]
    <3>1. PICK j \in JobSet :
            job' = j /\ j.at = "before" /\ j.key = 1 /\ j.then = job.then /\ j.port = job.port
      BY <2>2, GoToIs DEF GoTo, Steps, Readings
    <3>2. Fits(j, journal')
      BY <1>1, <1>2, <2>2, <3>1 DEF Fits, TakesOver, Readings
    <3>3. Fresh(j)
      BY <3>1 DEF Fresh, GivesBack
    <3> QED BY <1>3, <3>1, <3>2, <3>3, FreshKnows DEF After
  <2> QED BY <1>1, <1>2, <2>1, <2>2, RestoredShows
<1>5. Clean' => Recorded(os', journal', own')
  <2>1. Clean' <=> Clean
    BY <1>1 DEF Clean, Traceable, Grouped, Quirks
  <2>2. Clean => os = own
    BY <1>1 DEF Inv, Intact, Knows
  <2> QED BY <1>1, <2>1, <2>2 DEF Recorded
<1>6. OnTime'
  BY <1>1 DEF Inv, OnTime, Grouped, Quirks
<1> QED BY <1>1, <1>2, <1>4, <1>5, <1>6, Together DEF TypeOK

-----------------------------------------------------------------------------
(* Beside the request: inspections, the user, the core, faults.             *)

(* A step that leaves the request and the settings alone.                   *)
LEMMA BesideKeeps ==
  ASSUME Inv, UNCHANGED <<os, journal, job, late, own, touched, blind, budget>>, ShownOK,
         queue' \in Seq(BOOLEAN), session' \in Ports \cup {Stopped, Moving, Unknown}
  PROVE  Inv'
<1>1. TypeOK'
  BY DEF Inv, TypeOK, ShownOK
<1>2. Fits(job, journal)'
  BY DEF Inv, Fits, TakesOver, Grouped
<1>3. Intact'
  BY DEF Inv, Intact, Clean, Traceable, Grouped, Quirks, Recorded, Knows, GivesBack
<1>4. OnTime'
  BY DEF Inv, OnTime, Grouped, Quirks
<1> QED BY <1>1, <1>2, <1>3, <1>4 DEF Inv, ShownOK

LEMMA AskQueues ==
  ASSUME TypeOK, NEW requests \in Seq(BOOLEAN), Ask(requests)
  PROVE  queue' \in Seq(BOOLEAN)
<1>1. queue \in Seq(BOOLEAN) /\ queue \o requests \in Seq(BOOLEAN)
  BY DEF TypeOK
<1>2. queue' = IF exit = "no" THEN queue \o requests ELSE queue
  BY DEF Ask
<1>3. CASE exit = "no"
  BY <1>1, <1>2, <1>3
<1>4. CASE exit # "no"
  BY <1>1, <1>2, <1>4
<1> QED BY <1>3, <1>4

LEMMA QuestionsKeep ==
  ASSUME Inv,
         \/ AskExit
         \/ RetryCleanup
         \/ \E on \in BOOLEAN : SetSystemProxy(on)
         \/ \E to \in budget.ports \cup {Stopped, Moving, Unknown} : SessionMoves(to)
         \/ UNCHANGED vars
  PROVE  Inv'
<1>1. TypeOK /\ Viewed
  BY DEF Inv
<1>2. UNCHANGED <<os, journal, job, late, own, touched, blind, budget, last, view, look>>
  BY DEF AskExit, RetryCleanup, SetSystemProxy, SessionMoves, vars, shown, outside, history
<1>3. queue' \in Seq(BOOLEAN)
  <2>1. <<TRUE>> \in Seq(BOOLEAN) /\ <<FALSE>> \in Seq(BOOLEAN) /\ <<FALSE, TRUE>> \in Seq(BOOLEAN)
    OBVIOUS
  <2>2. CASE UNCHANGED queue
    BY <1>1, <2>2 DEF TypeOK
  <2>3. CASE Ask(<<TRUE>>) \/ Ask(<<FALSE>>) \/ Ask(<<FALSE, TRUE>>)
    BY <1>1, <2>1, <2>3, AskQueues
  <2> QED BY <2>2, <2>3 DEF AskExit, RetryCleanup, SetSystemProxy, SessionMoves, vars
<1>4. session' \in Ports \cup {Stopped, Moving, Unknown}
  <2>1. budget.ports \subseteq Ports
    BY <1>1, ConstantsAssumption DEF TypeOK, Budget
  <2> QED BY <1>1, <2>1
       DEF AskExit, RetryCleanup, SetSystemProxy, SessionMoves, vars, outside, TypeOK
<1>5. ShownOK
  BY <1>1, <1>2 DEF ShownOK, Viewed, TypeOK
<1> QED BY <1>2, <1>3, <1>4, <1>5, BesideKeeps

(* An inspection begins only while the intent is a port, and a changed      *)
(* intent makes it stale.                                                   *)
LEMMA InspectionKeeps ==
  ASSUME Inv, Inspect \/ Inspected \/ InspectionFails
  PROVE  Inv'
<1>1. TypeOK /\ Viewed /\ Off \notin Ports
  BY ConstantsAssumption DEF Inv
<1>2. UNCHANGED <<os, journal, job, late, own, touched, blind, budget, queue, session>>
  BY DEF Inspect, Inspected, InspectionFails, Fault, outside, history
<1>3. ShownOK
  <2>1. CASE last' = Nothing /\ Show(Unsure)
    <3>1. /\ look' \in [port : Ports \cup {Off}, stale : BOOLEAN]
          /\ look' = NoLook \/ look'.stale
          /\ view' = Unsure
      BY <1>1, <2>1, ShowOutdates DEF TypeOK
    <3>2. view' \in [active : BOOLEAN, failed : BOOLEAN, known : BOOLEAN] /\ ~view'.active
      BY <3>1 DEF Unsure
    <3> QED BY <2>1, <3>1, <3>2 DEF ShownOK, Viewed
  <2>2. CASE /\ view.active /\ session \in Ports \cup {Moving}
             /\ look' = [port |-> LookPort, stale |-> FALSE] /\ UNCHANGED <<last, view>>
    <3>1. last \in Ports /\ LookPort \in Ports
      BY <1>1, <2>2 DEF LookPort, Viewed
    <3>2. look' \in [port : Ports \cup {Off}, stale : BOOLEAN]
      BY <2>2, <3>1
    <3> QED BY <1>1, <2>2, <3>1, <3>2 DEF ShownOK, Viewed, TypeOK
  <2>3. CASE Inspected
    <3>1. /\ look # NoLook /\ look' = NoLook /\ last' = last
          /\ view' = IF look.stale THEN view ELSE Shown(os = Target[look.port])
      BY <2>3 DEF Inspected, Stale
    <3>2. NoLook \in [port : Ports \cup {Off}, stale : BOOLEAN]
      BY DEF NoLook
    <3>3. /\ view' \in [active : BOOLEAN, failed : BOOLEAN, known : BOOLEAN]
          /\ view'.active => last \in Ports
      <4>1. CASE look.stale
        BY <1>1, <3>1, <4>1 DEF TypeOK, Viewed
      <4>2. CASE ~look.stale
        <5>1. last \in Ports
          BY <1>1, <3>1, <4>2 DEF Viewed
        <5>2. view' = Shown(os = Target[look.port]) /\ (os = Target[look.port]) \in BOOLEAN
          BY <3>1, <4>2
        <5> QED BY <5>1, <5>2 DEF Shown
      <4> QED BY <4>1, <4>2
    <3> QED BY <1>1, <3>1, <3>2, <3>3 DEF ShownOK, Viewed, TypeOK
  <2>4. CASE InspectionFails
    <3>1. look' = NoLook /\ view' = Failed /\ last' = last
      BY <2>4 DEF InspectionFails
    <3>2. NoLook \in [port : Ports \cup {Off}, stale : BOOLEAN]
      BY DEF NoLook
    <3>3. view' \in [active : BOOLEAN, failed : BOOLEAN, known : BOOLEAN] /\ ~view'.active
      BY <3>1 DEF Failed
    <3> QED BY <1>1, <3>1, <3>2, <3>3 DEF ShownOK, Viewed, TypeOK
  <2> QED BY <2>1, <2>2, <2>3, <2>4 DEF Inspect
<1> QED BY <1>1, <1>2, <1>3, BesideKeeps DEF TypeOK

(* Another value for a setting ends the promise until the next takeover.    *)
LEMMA UserSetsKeeps ==
  ASSUME Inv, NEW k \in Keys, NEW v \in UserValues[k], UserSets(k, v)
  PROVE  Inv'
<1>1. /\ UNCHANGED <<journal, job, late, own, blind, budget, queue, session, last, view, look>>
      /\ os' = [os EXCEPT ![k] = v] /\ touched' = touched \cup {k}
  BY DEF UserSets, shown
<1>2. os' \in Settings /\ v \in Values
  BY <1>1, ConstantsAssumption DEF Inv, TypeOK, Settings
<1>3. TypeOK'
  BY <1>1, <1>2 DEF Inv, TypeOK
<1>4. Fits(job, journal)'
  BY <1>1 DEF Inv, Fits, TakesOver, Grouped
<1>5. ~Clean'
  BY <1>1 DEF Clean
<1>6. OnTime' /\ Viewed'
  BY <1>1 DEF Inv, OnTime, Viewed, Grouped, Quirks
<1> QED BY <1>3, <1>4, <1>5, <1>6 DEF Inv, Intact

LEMMA LateWriteKeeps ==
  ASSUME Inv, LateWrite
  PROVE  Inv'
<1>1. /\ UNCHANGED <<journal, job, own, touched, blind, budget, queue, session, last, view, look>>
      /\ os' = [k \in Keys |-> IF k \in late.keys THEN late.to[k] ELSE os[k]]
      /\ late' = NoWrite /\ late # NoWrite
  BY DEF LateWrite, shown, outside, history
<1>2. os' \in Settings
  BY <1>1 DEF Inv, TypeOK, Settings
<1>3. late' \in [keys : SUBSET Keys, to : Settings]
  BY <1>1, BlankIs DEF Inv, TypeOK, NoWrite
<1>4. TypeOK'
  BY <1>1, <1>2, <1>3 DEF Inv, TypeOK
<1>5. Fits(job, journal)'
  BY <1>1 DEF Inv, Fits, TakesOver, Grouped
<1>6. ~Clean'
  BY <1>1 DEF Clean, Traceable, Inv, OnTime, Grouped, Quirks
<1>7. OnTime' /\ Viewed'
  BY <1>1 DEF Inv, OnTime, Viewed
<1> QED BY <1>4, <1>5, <1>6, <1>7 DEF Inv, Intact

(* The recovery record cannot be read.                                      *)
LEMMA BeginFailsKeeps ==
  ASSUME Inv, BeginFails
  PROVE  Inv'
<1>1. Quietly /\ queue' \in Seq(BOOLEAN) /\ TypeOK /\ os \in Settings
  BY DEF BeginFails, Fault, Quietly, outside, history, Inv, TypeOK
<1>2. ShownOK /\ job' = Idle
  BY <1>1, FailShows DEF BeginFails
<1> QED BY <1>1, <1>2, IdleKnows, QuietlyTogether DEF After

(* A failed command may have had its effect or not; either way what is in   *)
(* force is accounted for.                                                  *)
LEMMA CommandFailsKeeps ==
  ASSUME Inv, CommandFails
  PROVE  Inv'
<1>1. UNCHANGED <<queue, session, own, touched, blind, budget>>
  BY DEF CommandFails, Fault, outside, history
<1>2. /\ TypeOK /\ Viewed /\ job \in JobSet /\ os \in Settings /\ own \in Settings
      /\ journal \in Records \cup {NoJournal} /\ job.expect \in Settings
      /\ job.port \in Ports \cup {Off} /\ job.then \in {"done", "failed", "apply", "exit"}
  BY DEF Inv, TypeOK, JobSet
<1>3. Clean' <=> Clean
  BY <1>1 DEF Clean, Traceable, Grouped, Quirks
<1>4. os' \in {os, Written(os)} /\ (os' # os => job.at = "set")
  BY DEF CommandFails
<1>5. os' \in Settings
  BY <1>2, <1>4, WrittenIs
<1>6. \/ journal' = journal
      \/ /\ job.at = "save"
         /\ journal' = [before |-> job.expect, port |-> job.port]
      \/ /\ job.at = "drop"
         /\ journal' = NoJournal
  BY DEF CommandFails
<1>7. job.at = "save" => /\ [before |-> job.expect, port |-> job.port] \in Records
                         /\ journal = NoJournal
  BY <1>2 DEF Inv, Fits, Records
<1>8. journal' \in Records \cup {NoJournal}
  BY <1>2, <1>6, <1>7
<1>9. ASSUME Clean
      PROVE  Recorded(os', journal', own)
  <2>1. CASE journal' = journal /\ os' = os
    BY <1>9, <2>1 DEF Inv, Intact, Recorded
  <2>2. CASE journal' = journal /\ os' # os
    <3>1. os' = Written(os) /\ job.at = "set"
      BY <1>4, <2>2
    <3> QED BY <1>9, <2>2, <3>1, WrittenIs
  <2>3. CASE job.at = "save" /\ journal' = [before |-> job.expect, port |-> job.port]
    <3>1. os' = os /\ os = own /\ job.expect = own
      BY <1>4, <1>7, <1>9, <2>3 DEF Inv, Intact, Recorded, Knows
    <3>2. journal' # NoJournal /\ journal'.before = own
      BY <1>7, <2>3, <3>1, RecordIs
    <3> QED BY <3>1, <3>2 DEF Recorded
  <2>4. CASE job.at = "drop" /\ journal' = NoJournal
    <3>1. os' = os /\ os = own
      BY <1>4, <1>9, <2>4 DEF Inv, Intact, Knows
    <3> QED BY <2>4, <3>1 DEF Recorded
  <2> QED BY <1>6, <2>1, <2>2, <2>3, <2>4
<1>10. /\ late' \in [keys : SUBSET Keys, to : Settings]
       /\ OnTime'
  <2>1. CASE late' = late
    BY <1>1, <1>2, <2>1 DEF Inv, TypeOK, OnTime, Grouped, Quirks
  <2>2. CASE "late" \in Quirks /\ job.at = "set"
             /\ late' = [keys |-> NextKeys, to |-> Writing]
    <3>1. job.todo \subseteq Keys /\ NextKeys \subseteq Keys
      BY <1>2 DEF JobSet, NextKeys
    <3>2. journal \in Records /\ (job.applies => journal.port = job.port)
      BY <1>2, <2>2 DEF Inv, Fits, TakesOver
    <3>3. Writing \in Settings
      BY <3>2, RecordIs DEF Writing
    <3>4. ~Grouped
      BY <1>2, <2>2, ConstantsAssumption DEF TypeOK, Grouped, Quirks
    <3> QED BY <1>1, <2>2, <3>1, <3>3, <3>4 DEF OnTime, Grouped, Quirks
  <2> QED BY <2>1, <2>2 DEF CommandFails
<1>11. After
  <2>1. CASE TakeoverWrites /\ EnterRestore(job.port, "failed")
    <3>1. journal' = journal
      BY <1>6, <2>1 DEF TakeoverWrites
    <3> QED BY <1>1, <1>2, <2>1, <3>1, EnterRestoreKeeps
  <2>2. CASE Fail(job.then)
    <3>1. ShownOK /\ job' = Idle
      BY <1>2, <2>2, FailShows
    <3> QED BY <1>2, <3>1, IdleKnows DEF After
  <2> QED BY <2>1, <2>2 DEF CommandFails
<1>12. Clean' => Recorded(os', journal', own')
  BY <1>1, <1>3, <1>9
<1> QED BY <1>1, <1>2, <1>5, <1>8, <1>10, <1>11, <1>12, Together DEF TypeOK

(* A write without effect on a grouped desktop is found out by what follows.*)
LEMMA WriteIgnoredKeeps ==
  ASSUME Inv, WriteIgnored
  PROVE  Inv'
<1>1. /\ UNCHANGED <<os, journal, session, late, own, touched, blind, budget, queue, shown>>
      /\ job.at = "set" /\ "ignored" \in Quirks /\ job' = AfterSet
  BY DEF WriteIgnored, Fault, outside, history
<1>2. PICK j \in JobSet :
        /\ job' = j /\ j.at \in {"guard", "verify", "confirm"}
        /\ Grouped => j.at # "guard"
        /\ j.at = "confirm" => ~job.applies
        /\ j.key = 1 /\ j.owned = job.owned /\ Fits(j, journal)
  BY <1>1, AfterSetIs
<1>3. ASSUME Clean
      PROVE  Knows(j, os, own)
  <2>1. j.at \in {"verify", "confirm"}
    BY <1>1, <1>2, <1>3 DEF Clean, Traceable
  <2>2. j.at = "confirm" => \A k \in Keys \ j.owned : os[k] = own[k]
    BY <1>1, <1>2, <1>3 DEF Inv, Intact, Knows, GivesBack
  <2>3. ~ \E k \in Keys : k < 1
    BY DEF Keys
  <2> QED BY <1>2, <2>1, <2>2, <2>3 DEF Knows, GivesBack
<1> QED BY <1>1, <1>2, <1>3, GoesOn

LEMMA RestartKeeps ==
  ASSUME Inv, Restart
  PROVE  Inv'
<1>1. /\ UNCHANGED <<os, journal, late, own, touched, blind, budget>>
      /\ job' = Idle /\ queue' = <<FALSE>> /\ last' = Nothing /\ view' = Unsure
      /\ look' = NoLook
  BY DEF Restart, history
<1>2. TypeOK /\ os \in Settings /\ queue' \in Seq(BOOLEAN)
  BY <1>1 DEF Inv, TypeOK
<1>3. session' \in Ports \cup {Stopped, Moving, Unknown}
  <2>1. budget.ports \subseteq Ports
    BY <1>2, ConstantsAssumption DEF TypeOK, Budget
  <2> QED BY <1>2, <2>1 DEF Restart, TypeOK
<1>4. ShownOK
  BY <1>1 DEF ShownOK, Viewed, Unsure, NoLook
<1>5. After
  BY <1>1, <1>2, <1>4, IdleKnows DEF After
<1>6. (Clean' => Recorded(os', journal', own')) /\ OnTime'
  BY <1>1 DEF Inv, Intact, Clean, Traceable, Recorded, OnTime, Grouped, Quirks
<1> QED BY <1>1, <1>2, <1>3, <1>5, <1>6, Together DEF TypeOK

-----------------------------------------------------------------------------
(* The invariant.                                                           *)

LEMMA InitKeeps ==
  ASSUME Init
  PROVE  Inv
<1>1. os \in Settings
  BY ConstantsAssumption DEF Init, Settings
<1>2. Blank \in Settings
  BY <1>1, BlankIs
<1>3. job = Idle /\ journal = NoJournal /\ own = os /\ touched = {} /\ blind = FALSE /\ late = NoWrite
      /\ look = NoLook /\ view = Unsure /\ last = Nothing /\ queue = <<FALSE>>
      /\ session = Stopped /\ budget \in Budgets
  BY DEF Init
<1>4. TypeOK
  <2>1. job \in JobSet
    BY <1>1, <1>3, IdleKnows
  <2>2. NoLook \in [port : Ports \cup {Off}, stale : BOOLEAN]
    BY DEF NoLook
  <2>3. Unsure \in [active : BOOLEAN, failed : BOOLEAN, known : BOOLEAN]
    BY DEF Unsure
  <2>4. NoWrite \in [keys : SUBSET Keys, to : Settings]
    BY <1>2 DEF NoWrite
  <2>5. queue \in Seq(BOOLEAN)
    BY <1>3
  <2> QED BY <1>1, <1>3, <2>1, <2>2, <2>3, <2>4, <2>5 DEF TypeOK
<1>5. Fits(job, journal) /\ Knows(job, os, own)
  BY <1>1, <1>3, IdleKnows
<1>6. Recorded(os, journal, own)
  BY <1>3 DEF Recorded
<1>7. Viewed /\ OnTime
  BY <1>3 DEF Viewed, OnTime, Unsure
<1> QED BY <1>4, <1>5, <1>6, <1>7 DEF Inv, Intact

LEMMA StepKeeps ==
  ASSUME Inv, [Next]_vars
  PROVE  Inv'
<1>1. CASE RequestNext
  BY <1>1, BeginKeeps, ReadKeeps, ProxyActiveKeeps, ChooseTakeoverKeeps, SaveJournalKeeps,
     CheckExpectedKeeps, CompareKeeps, SetKeeps, VerifyKeeps, DecideRestoreKeeps, ConfirmKeeps,
     DropJournalKeeps, RestoreForExitKeeps
     DEF RequestNext
<1>2. CASE InspectionNext
  BY <1>2, QuestionsKeep, InspectionKeeps DEF InspectionNext
<1>3. CASE FaultNext
  BY <1>3, BeginFailsKeeps, CommandFailsKeeps, CompareFailsKeeps, WriteIgnoredKeeps, InspectionKeeps,
     LateWriteKeeps, RestartKeeps
     DEF FaultNext
<1>4. CASE OutsideNext
  BY <1>4, UserSetsKeeps, QuestionsKeep DEF OutsideNext
<1>5. CASE UNCHANGED vars
  BY <1>5, QuestionsKeep
<1> QED BY <1>1, <1>2, <1>3, <1>4, <1>5 DEF Next

LEMMA Inductive == Spec => []Inv
<1>1. Init => Inv
  BY InitKeeps
<1>2. Inv /\ [Next]_vars => Inv'
  BY StepKeeps
<1> QED BY <1>1, <1>2, PTL DEF Spec

-----------------------------------------------------------------------------
(* What a write knows of the settings it replaces.                          *)

(* What was compared is still there, but for what the user chose since.     *)
Compared ==
  /\ raced \subseteq Keys
  /\ edits \in Nat
  /\ "late" \notin Quirks =>
       /\ job.at = "guard" =>
            \A k \in Keys : k < job.key => job.seen[k] = os[k] \/ k \in raced
       /\ job.at = "set" =>
            \A k \in Keys : job.expect[k] = os[k] \/ k \in raced

(* Where nothing has been compared yet, nothing has to be known.            *)
LEMMA NothingCompared ==
  ASSUME Compared, UNCHANGED <<raced, edits>>, job'.at # "set",
         job'.at = "guard" => job'.key = 1
  PROVE  Compared'
<1>1. ~ \E k \in Keys : k < 1
  BY DEF Keys
<1> QED BY <1>1 DEF Compared

(* Neither the end of a request nor a restore begins with a write.          *)
LEMMA RestoreGoes ==
  ASSUME TypeOK, NEW port, NEW then \in {"done", "failed", "apply", "exit"}
  PROVE  /\ \A intent : Succeed(intent) => job'.at = "idle"
         /\ \A t : Fail(t) => job'.at = "idle"
         /\ Restored(then) => job'.at \in {"idle", "before"}
         /\ EnterRestore(port, then) => job'.at \in {"idle", "before", "current"}
<1>1. Idle.at = "idle" /\ job \in JobSet
  BY DEF Idle, TypeOK
<1>2. \A intent : Succeed(intent) => job'.at = "idle"
  BY <1>1 DEF Succeed
<1>3. \A t : Fail(t) => job'.at = "idle"
  BY <1>1 DEF Fail
<1>4. ASSUME Restored(then)
      PROVE  job'.at \in {"idle", "before"}
  <2>1. CASE then = "done"
    BY <1>2, <1>4, <2>1 DEF Restored
  <2>2. CASE then = "failed"
    BY <1>3, <1>4, <2>2 DEF Restored
  <2>3. CASE then = "apply"
    BY <1>1, <1>4, <2>3 DEF Restored, GoTo, JobSet
  <2>4. CASE then = "exit"
    BY <1>1, <1>4, <2>4 DEF Restored
  <2> QED BY <2>1, <2>2, <2>3, <2>4
<1>5. ASSUME EnterRestore(port, then)
      PROVE  job'.at \in {"idle", "before", "current"}
  <2>1. CASE journal = NoJournal
    BY <1>4, <1>5, <2>1 DEF EnterRestore
  <2>2. CASE journal # NoJournal
    BY <1>5, <2>2 DEF EnterRestore, Idle
  <2> QED BY <2>1, <2>2
<1> QED BY <1>2, <1>3, <1>4, <1>5

LEMMA OwnershipGoes ==
  ASSUME Inv, OwnershipChanged
  PROVE  job'.at \in {"idle", "before", "current", "drop"}
<1>1. CASE job.applies
  BY <1>1, RestoreGoes DEF OwnershipChanged, Inv
<1>2. CASE ~job.applies
  BY <1>2, GoToIs DEF OwnershipChanged, Steps
<1> QED BY <1>1, <1>2 DEF Inv, TypeOK, JobSet

(* The steps of a request that compare nothing.                             *)
LEMMA OthersCompareNothing ==
  ASSUME Inv, Compared,
         \/ Begin \/ ProxyActive \/ ChooseTakeover \/ SaveJournal \/ Set \/ Verify
         \/ DecideRestore \/ Confirm \/ DropJournal \/ RestoreForExit
         \/ BeginFails \/ CommandFails \/ CompareFails \/ WriteIgnored \/ Restart
  PROVE  Compared'
<1>1. TypeOK /\ job \in JobSet /\ job.then \in {"done", "failed", "apply", "exit"}
  BY DEF Inv, TypeOK, JobSet
<1>2. UNCHANGED <<raced, edits>>
  BY DEF Begin, ProxyActive, ChooseTakeover, SaveJournal, Set, Verify, DecideRestore,
     Confirm, DropJournal, RestoreForExit, BeginFails, CommandFails, CompareFails,
     WriteIgnored, Restart, Fault, outside, history
<1>3. CASE Begin
  <2>1. CASE UNCHANGED job
    BY <1>2, <1>3, <2>1, NothingCompared DEF Begin, Idle
  <2>2. CASE EnterApply(session)
    <3>1. job'.at \in {"idle", "before", "current", "active"}
      BY <1>1, <2>2, RestoreGoes DEF EnterApply, Idle
    <3> QED BY <1>2, <3>1, NothingCompared
  <2>3. CASE EnterRestore(Off, "done")
    <3>1. job'.at \in {"idle", "before", "current"}
      BY <1>1, <2>3, RestoreGoes
    <3> QED BY <1>2, <3>1, NothingCompared
  <2> QED BY <1>3, <2>1, <2>2, <2>3 DEF Begin
<1>4. CASE ProxyActive \/ Verify \/ RestoreForExit
  <2>1. job'.at \in {"idle", "before", "current"}
    BY <1>1, <1>4, RestoreGoes DEF ProxyActive, Verify, RestoreForExit
  <2> QED BY <1>2, <2>1, NothingCompared
<1>5. CASE ChooseTakeover
  <2>1. job'.at = "save"
    BY <1>1, <1>5 DEF ChooseTakeover, Takeover, JobSet
  <2> QED BY <1>2, <2>1, NothingCompared
<1>6. CASE SaveJournal
  <2>1. job'.at = "guard" /\ job'.key = 1
    BY <1>1, <1>6 DEF SaveJournal, JobSet, Inv, Fits, Readings
  <2> QED BY <1>2, <2>1, NothingCompared
<1>7. CASE Set \/ WriteIgnored
  <2>1. job'.at \in {"guard", "verify", "confirm"} /\ job'.key = 1
    BY <1>7, AfterSetIs DEF Set, WriteIgnored
  <2> QED BY <1>2, <2>1, NothingCompared
<1>8. CASE DecideRestore
  <2>1. CASE GoTo("drop")
    <3>1. job'.at = "drop"
      BY <2>1, GoToIs DEF Steps
    <3> QED BY <1>2, <3>1, NothingCompared
  <2>2. CASE job' = [job EXCEPT !.at = "guard", !.key = 1, !.seen = Blank,
                                !.expect = job.seen, !.todo = Owned(job.seen),
                                !.owned = Owned(job.seen), !.applies = FALSE]
    <3>1. job'.at = "guard" /\ job'.key = 1
      BY <1>1, <2>2 DEF JobSet
    <3> QED BY <1>2, <3>1, NothingCompared
  <2> QED BY <1>8, <2>1, <2>2 DEF DecideRestore
<1>9. CASE Confirm
  <2>1. job'.at \in {"idle", "drop"}
    BY <1>1, <1>9, RestoreGoes, GoToIs DEF Confirm, Steps
  <2> QED BY <1>2, <2>1, NothingCompared
<1>10. CASE DropJournal
  <2>1. job'.at \in {"idle", "before"}
    BY <1>1, <1>10, RestoreGoes DEF DropJournal
  <2> QED BY <1>2, <2>1, NothingCompared
<1>11. CASE BeginFails \/ CommandFails
  <2>1. job'.at \in {"idle", "before", "current"}
    BY <1>1, <1>11, RestoreGoes DEF BeginFails, CommandFails
  <2> QED BY <1>2, <2>1, NothingCompared
<1>12. CASE CompareFails
  <2>1. job'.at \in {"idle", "before", "current", "drop"}
    BY <1>12, OwnershipGoes DEF CompareFails
  <2> QED BY <1>2, <2>1, NothingCompared
<1>13. CASE Restart
  <2>1. job'.at = "idle"
    BY <1>13 DEF Restart, Idle
  <2> QED BY <1>2, <2>1, NothingCompared
<1> QED BY <1>3, <1>4, <1>5, <1>6, <1>7, <1>8, <1>9, <1>10, <1>11, <1>12, <1>13

(* A comparison begins with nothing known, and adds what it reads.          *)
LEMMA ReadCompares ==
  ASSUME Inv, Compared, Read
  PROVE  Compared'
<1>1. /\ UNCHANGED <<os, budget, edits>> /\ job \in JobSet /\ os \in Settings
      /\ job.at \in Readings /\ job.key \in Nat /\ N \in Nat /\ job.key <= N
  BY ConstantsAssumption DEF Read, outside, Inv, TypeOK, JobSet
<1>2. raced' = IF job.at = "guard" /\ job.key = 1 THEN {} ELSE raced
  BY DEF Read
<1>3. PICK keys : keys = IF Grouped THEN Keys ELSE {job.key}
  OBVIOUS
<1>4. PICK seen : seen = [k \in Keys |-> IF k \in keys THEN os[k] ELSE job.seen[k]]
  OBVIOUS
<1>5. PICK key : key = IF Grouped THEN N + 1 ELSE job.key + 1
  OBVIOUS
<1>6. job'.at = job.at /\ job'.seen = seen /\ job'.key = key
  BY <1>1, <1>3, <1>4, <1>5 DEF Read, JobSet
<1>7. job.at # "set" /\ Quirks' = Quirks
  BY <1>1 DEF Readings, Quirks
<1>8. ASSUME "late" \notin Quirks, job.at = "guard", NEW k \in Keys, k < key
      PROVE  seen[k] = os[k] \/ k \in raced'
  <2>1. CASE k \in keys
    BY <1>4, <2>1
  <2>2. CASE k \notin keys
    <3>1. ~Grouped /\ k < job.key
      BY <1>1, <1>3, <1>5, <1>8, <2>2 DEF Keys
    <3>2. job.key # 1
      BY <3>1 DEF Keys
    <3>3. job.seen[k] = os[k] \/ k \in raced
      BY <1>8, <3>1 DEF Compared
    <3> QED BY <1>2, <1>4, <2>2, <3>2, <3>3
  <2> QED BY <2>1, <2>2
<1>9. raced' \subseteq Keys /\ edits' \in Nat
  BY <1>1, <1>2 DEF Compared
<1>10. "late" \notin Quirks /\ job.at = "guard" =>
         \A k \in Keys : k < job'.key => job'.seen[k] = os'[k] \/ k \in raced'
  BY <1>1, <1>6, <1>8
<1> QED BY <1>6, <1>7, <1>9, <1>10 DEF Compared

(* On GNOME the comparison is what has been read key by key.                *)
LEMMA CheckCompares ==
  ASSUME Inv, Compared, CheckExpected
  PROVE  Compared'
<1>1. UNCHANGED <<os, budget, raced, edits>> /\ job.at = "guard" /\ job.key = N + 1
  BY DEF CheckExpected, ReadAll, outside, history
<1>2. CASE job.seen = job.expect /\ GoTo(IF Grouped THEN "compare" ELSE "set")
  <2>1. job'.at \in {"compare", "set"} /\ job'.expect = job.expect
    BY <1>2, GoToIs DEF Steps
  <2>2. ASSUME "late" \notin Quirks, NEW k \in Keys
        PROVE  job'.expect[k] = os'[k] \/ k \in raced'
    <3>1. k < N + 1
      BY ConstantsAssumption DEF Keys
    <3> QED BY <1>1, <1>2, <2>1, <2>2, <3>1 DEF Compared
  <2>3. Quirks' = Quirks
    BY <1>1 DEF Quirks
  <2> QED BY <1>1, <2>1, <2>2, <2>3 DEF Compared
<1>3. CASE OwnershipChanged
  <2>1. job'.at \in {"idle", "before", "current", "drop"}
    BY <1>3, OwnershipGoes
  <2> QED BY <1>1, <2>1, NothingCompared
<1> QED BY <1>2, <1>3 DEF CheckExpected, Matches

(* On Windows the native call reads the group once more.                    *)
LEMMA CompareCompares ==
  ASSUME Inv, Compared, Compare
  PROVE  Compared'
<1>1. UNCHANGED <<os, budget, edits>> /\ raced' = {} /\ job \in JobSet
  BY DEF Compare, outside, Inv, TypeOK
<1>2. CASE os = job.expect /\ job' = [job EXCEPT !.at = "set"]
  <2>1. job'.at = "set" /\ job'.expect = os'
    BY <1>1, <1>2 DEF JobSet
  <2> QED BY <1>1, <2>1 DEF Compared
<1>3. CASE OwnershipChanged
  <2>1. job'.at \in {"idle", "before", "current", "drop"}
    BY <1>3, OwnershipGoes
  <2> QED BY <1>1, <2>1 DEF Compared
<1> QED BY <1>2, <1>3 DEF Compare, Matches

(* The user's edits are counted and remembered.                             *)
LEMMA UserSetsCompares ==
  ASSUME Inv, Compared, NEW k \in Keys, NEW v \in UserValues[k], UserSets(k, v)
  PROVE  Compared'
<1>1. /\ UNCHANGED <<job, budget>> /\ raced' = raced \cup {k} /\ edits' = edits + 1
      /\ os' = [os EXCEPT ![k] = v] /\ os \in Settings
  BY DEF UserSets, Inv, TypeOK
<1>2. \A q \in Keys : os'[q] = os[q] \/ q \in raced'
  BY <1>1 DEF Settings
<1>3. Quirks' = Quirks
  BY <1>1 DEF Quirks
<1> QED BY <1>1, <1>2, <1>3 DEF Compared

(* A command that outlives its timeout is the only other writer.            *)
LEMMA LateWriteCompares ==
  ASSUME Inv, Compared, LateWrite
  PROVE  Compared'
<1>1. UNCHANGED <<raced, edits, budget>> /\ late # NoWrite
  BY DEF LateWrite, outside, history
<1>2. "late" \in Quirks'
  BY <1>1 DEF Inv, OnTime, Quirks
<1> QED BY <1>1, <1>2 DEF Compared

LEMMA ComparedStep ==
  ASSUME Inv, Compared, [Next]_vars
  PROVE  Compared'
<1>1. CASE UNCHANGED <<os, job, raced, edits, budget>>
  BY <1>1 DEF Compared, Quirks
<1>2. CASE RequestNext
  BY <1>2, OthersCompareNothing, ReadCompares, CheckCompares, CompareCompares DEF RequestNext
<1>3. CASE InspectionNext
  BY <1>1, <1>3 DEF InspectionNext, RetryCleanup, Inspect, Inspected, outside, history
<1>4. CASE FaultNext
  <2>1. CASE InspectionFails
    BY <1>1, <2>1 DEF InspectionFails, Fault, outside, history
  <2> QED BY <1>4, <2>1, OthersCompareNothing, LateWriteCompares DEF FaultNext
<1>5. CASE OutsideNext
  <2>1. CASE \/ \E on \in BOOLEAN : SetSystemProxy(on)
             \/ \E to \in budget.ports \cup {Stopped, Moving, Unknown} : SessionMoves(to)
             \/ AskExit
    BY <1>1, <2>1 DEF SetSystemProxy, SessionMoves, AskExit, outside, history
  <2> QED BY <1>5, <2>1, UserSetsCompares DEF OutsideNext
<1>6. CASE UNCHANGED vars
  BY <1>1, <1>6 DEF vars, outside, history
<1> QED BY <1>2, <1>3, <1>4, <1>5, <1>6 DEF Next

LEMMA Comparing == Spec => []Compared
<1>1. Init => Compared
  BY DEF Init, Compared, Idle
<1>2. Inv /\ Compared /\ [Next]_vars => Compared'
  BY ComparedStep
<1> QED BY <1>1, <1>2, Inductive, PTL DEF Spec

(* Only the user and a write of the app change the settings.                *)
LEMMA WhoWrites ==
  ASSUME Inv, edits \in Nat, [Next]_vars, "late" \notin Quirks, os' # os, edits' = edits
  PROVE  job.at = "set"
<1>1. CASE RequestNext
  BY <1>1 DEF RequestNext, Begin, Read, ProxyActive, ChooseTakeover, SaveJournal,
     CheckExpected, Compare, Set, Verify, DecideRestore, Confirm, DropJournal, RestoreForExit
<1>2. CASE InspectionNext
  BY <1>2 DEF InspectionNext, RetryCleanup, Inspect, Inspected
<1>3. CASE FaultNext
  <2>1. ~LateWrite
    BY DEF LateWrite, Inv, OnTime
  <2>2. CASE CommandFails
    BY <2>2 DEF CommandFails
  <2> QED BY <1>3, <2>1, <2>2
       DEF FaultNext, BeginFails, CompareFails, WriteIgnored, InspectionFails, Restart
<1>4. CASE OutsideNext
  <2>1. ASSUME NEW k \in Keys, NEW v \in UserValues[k], UserSets(k, v)
        PROVE  edits' = edits + 1
    BY <2>1 DEF UserSets
  <2>2. ~ \E k \in Keys : \E v \in UserValues[k] : UserSets(k, v)
    BY <2>1
  <2> QED BY <1>4, <2>2 DEF OutsideNext, SetSystemProxy, SessionMoves, AskExit
<1>5. CASE UNCHANGED vars
  BY <1>5 DEF vars
<1> QED BY <1>1, <1>2, <1>3, <1>4, <1>5 DEF Next

-----------------------------------------------------------------------------
(* The results.                                                             *)

(* The settings, the record, the request under way and what is shown keep   *)
(* their types.  (DesktopProxyController, DesktopSystemProxy)               *)
THEOREM Typed == Spec => [](TypeOK /\ raced \subseteq Keys)
<1>1. Inv => TypeOK
  BY DEF Inv
<1> QED BY <1>1, Inductive, Comparing, PTL DEF Compared

(* The settings the last takeover found are in force, or in the record with *)
(* nothing in force but theirs and ours, between any two steps.             *)
(* (apply, restore)                                                         *)
THEOREM Recovering == Spec => []Recoverable
<1>1. Inv => Recoverable
  BY DEF Inv, Intact, Recorded, Clean, Recoverable
<1> QED BY <1>1, Inductive, PTL

(* The proxy is shown to be on only for a port.  (reconcile, inspection)    *)
THEOREM Intending == Spec => []ActiveIsIntended
<1>1. Inv => ActiveIsIntended
  BY DEF Inv, Viewed, ActiveIsIntended
<1> QED BY <1>1, Inductive, PTL

(* A write replaces only what the record accounts for and what the user     *)
(* chose after the comparison had begun.  (write)                           *)
LEMMA ForeignStep ==
  ASSUME Inv, Compared, [Next]_vars, "late" \notin Quirks, os' # os, edits' = edits
  PROVE  \A k \in Keys : \/ os[k] \in {journal.before[k], Target[journal.port][k]}
                         \/ k \in raced
<1>1. job.at = "set"
  BY WhoWrites DEF Compared
<1>2. \A k \in Keys : job.expect[k] \in {journal.before[k], Target[journal.port][k]}
  BY <1>1 DEF Inv, Fits
<1>3. \A k \in Keys : job.expect[k] = os[k] \/ k \in raced
  BY <1>1 DEF Compared
<1> QED BY <1>2, <1>3

(* A value of another proxy is overwritten only when it was chosen after    *)
(* the comparison had begun.  (apply, restore, write)                       *)
THEOREM Keeping == Spec => ForeignGroupIsKept
<1>1. Inv /\ Compared /\ [Next]_vars =>
        [ "late" \notin Quirks /\ os' # os /\ edits' = edits =>
            \A k \in Keys : \/ os[k] \in {journal.before[k], Target[journal.port][k]}
                            \/ k \in raced ]_vars
  BY ForeignStep
<1> QED BY <1>1, Inductive, Comparing, PTL DEF Spec, ForeignGroupIsKept
=============================================================================
