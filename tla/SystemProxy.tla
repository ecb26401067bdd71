---------------------------- MODULE SystemProxy ----------------------------
(***************************************************************************)
(* The desktop system proxy: DesktopProxyController decides, one request   *)
(* at a time, whether the proxy settings of the user's session should      *)
(* point at the running core, and DesktopSystemProxy takes the settings    *)
(* over and gives them back.                                               *)
(*                                                                         *)
(* The settings belong to the user, who may change them at any moment.  A  *)
(* durable journal of the values before and after a takeover is written    *)
(* first, so that a crash between any two steps loses nothing.  On GNOME   *)
(* every key is read and set by a command of its own; on Windows one       *)
(* system call reads all of them and one writes all of them (Grouped).     *)
(* Neither desktop compares and writes in one step.                        *)
(***************************************************************************)
EXTENDS Naturals, Sequences

CONSTANTS
  N,             \* number of settings of the group, written in this order
  Values,        \* values a setting may have
  UserValues,    \* the values a user chooses for each setting
  Ports,         \* ports a core may listen on
  Target,        \* the settings that point at each port
  Budgets,       \* the desktops, and what can happen on them, see Budget
  MaxQueue       \* bound: reconcile requests behind the one under way

Keys == 1..N

Settings == [Keys -> Values]

(* A session is the port of a connected core, or one of these.              *)
Stopped == "stopped"
Moving  == "moving"   \* starting, stopping or reloading
Unknown == "unknown"  \* connected, and no plan attests the port

(* The intents besides a port: give the settings back; none carried out.    *)
Off     == "off"
Nothing == "nothing"

(***************************************************************************)
(* A desktop, and the bounds of one behaviour: on a grouped desktop one    *)
(* call reads all keys and one call writes them; commands that are "late"  *)
(* outlive their timeout, ones that are "ignored" report success without   *)
(* effect; the core listens on some of the ports; the user changes         *)
(* the settings, the preference and the session change, and commands fail  *)
(* or the process dies, so many times.                                     *)
(***************************************************************************)
Budget == [grouped : BOOLEAN, quirks : SUBSET {"late", "ignored"},
           ports : SUBSET Ports, edits : Nat, changes : Nat, faults : Nat]

ASSUME ConstantsAssumption ==
  /\ N \in Nat \ {0}
  /\ UserValues \in [Keys -> SUBSET Values]
  /\ Target \in [Ports -> Settings]
  /\ Ports \cap {Stopped, Moving, Unknown, Off, Nothing} = {}
  /\ Budgets \subseteq Budget
  /\ \A b \in Budgets : b.grouped => "late" \notin b.quirks  \* a native call has no timeout
  /\ MaxQueue \in Nat

VARIABLES
  os,       \* the proxy settings of the user's desktop session
  journal,  \* the durable recovery record
  job,      \* the request under way
  queue,    \* the requests behind it: is each one forced?
  last,     \* _last: the intent carried out last
  view,     \* the state shown to the user
  look,     \* the periodic inspection under way
  pref,     \* the saved preference
  session,  \* the core's session
  exit,     \* _exiting: "no", "asked", or "done" when the process has quit
  late,     \* a write whose command timed out and has not died
  own,      \* history: the settings the last takeover found
  touched,  \* history: the keys the user changed since
  blind,    \* history: a restore gave up because its comparison got no answer
  raced,    \* history: the keys the user changed since the last comparison began
  budget,   \* bound: the desktop and the budget of this behaviour
  edits, changes, faults  \* bounds: how many so far

shown == <<last, view, look, exit>>
outside == <<pref, session, budget, edits, changes>>
history == <<own, touched, blind, raced>>
vars == <<os, journal, job, queue, shown, outside, late, history, faults>>

Grouped == budget.grouped

Quirks == budget.quirks

Blank == CHOOSE s \in Settings : TRUE

NoJournal == [before |-> Blank, port |-> Off]

(* The steps of a request that read the settings first.                     *)
Readings == {"active", "before", "guard", "verify", "current", "confirm"}

(* key is the next key to read; expect and todo are the "expected" and the  *)
(* remaining keys of the "values" of a write; owned are the keys a restore  *)
(* writes; applies: the write is a takeover; then: what follows a restore.  *)
Idle == [at |-> "idle", key |-> 1, seen |-> Blank, expect |-> Blank,
         todo |-> {}, owned |-> {}, applies |-> FALSE, then |-> "done", port |-> Off]

Shown(active) == [active |-> active, failed |-> FALSE, known |-> TRUE]
Failed        == [active |-> FALSE, failed |-> TRUE, known |-> FALSE]
Unsure        == [active |-> FALSE, failed |-> FALSE, known |-> FALSE]

NoLook == [port |-> Off, stale |-> FALSE]

NoWrite == [keys |-> {}, to |-> Blank]

-----------------------------------------------------------------------------
Init ==
  /\ os \in {s \in Settings : \A k \in Keys : s[k] \in UserValues[k]}
  /\ journal = NoJournal
  /\ job = Idle
  /\ queue = <<FALSE>>
  /\ last = Nothing
  /\ view = Unsure
  /\ look = NoLook
  /\ pref \in BOOLEAN
  /\ session = Stopped
  /\ exit = "no"
  /\ late = NoWrite
  /\ own = os
  /\ touched = {}
  /\ blind = FALSE
  /\ raced = {}
  /\ budget \in Budgets
  /\ edits = 0
  /\ changes = 0
  /\ faults = 0

(* Every assignment of the state is a new object: an inspection that began  *)
(* with the old one is stale.                                               *)
Show(v) ==
  /\ view' = v
  /\ look' = [look EXCEPT !.stale = look # NoLook]

GoTo(step) == job' = [job EXCEPT !.at = step, !.key = 1, !.seen = Blank]

(***************************************************************************)
(* How a request ends, and what follows a restore.                         *)
(***************************************************************************)
Succeed(intent) ==
  /\ job' = Idle
  /\ Show(Shown(intent # Off))
  /\ last' = intent
  /\ UNCHANGED exit

Fail(then) ==
  /\ job' = Idle
  /\ Show(Failed)
  /\ exit' = IF then = "exit" THEN "no" ELSE exit
  /\ UNCHANGED last

Restored(then) ==
  CASE then = "done"   -> Succeed(Off)
    [] then = "failed" -> Fail(then)
    [] then = "apply"  -> GoTo("before") /\ UNCHANGED shown
    [] then = "exit"   -> /\ job' = Idle
                          /\ Show(Shown(FALSE))
                          /\ exit' = "done"
                          /\ UNCHANGED last

(* restore() reads the journal first: without one there is nothing to do.   *)
EnterRestore(port, then) ==
  IF journal = NoJournal THEN Restored(then)
  ELSE /\ job' = [Idle EXCEPT !.at = "current", !.port = port, !.then = then]
       /\ UNCHANGED shown

-----------------------------------------------------------------------------
(***************************************************************************)
(* The queue of the controller.                                            *)
(***************************************************************************)
Wanted == pref /\ session \in Ports \cup {Unknown}

Intent == IF Wanted THEN session ELSE Off

(* Mutated form of Skips: a forced request is skipped like any other.       *)
SkipsForced(forced) == last = Intent

(* An intent that was carried out already is left alone.                    *)
Skips(forced) == ~forced /\ last = Intent

(* Requests of a process that is quitting return at once.                   *)
Ask(requests) ==
  /\ Len(queue) + Len(requests) <= MaxQueue
  /\ queue' = IF exit = "no" THEN queue \o requests ELSE queue

(* apply() returns when its own earlier takeover still stands, and gives an *)
(* older one back before it reads what to restore later.                    *)
EnterApply(port) ==
  IF journal = NoJournal \/ Target[journal.port] = Target[port]
  THEN /\ job' = [Idle EXCEPT !.at = IF journal = NoJournal THEN "before"
                                     ELSE "active",
                              !.port = port]
       /\ UNCHANGED shown
  ELSE EnterRestore(port, "apply")

Begin ==
  /\ job = Idle
  /\ queue # <<>>
  /\ queue' = Tail(queue)
  /\ \/ /\ exit # "no" \/ session = Moving \/ Skips(Head(queue))
        /\ UNCHANGED <<job, shown>>
     \/ /\ exit = "no"
        /\ Intent = Unknown
        /\ last' = Nothing
        /\ Show(Unsure)
        /\ UNCHANGED <<job, exit>>
     \/ /\ exit = "no"
        /\ session # Moving
        /\ Intent # Unknown
        /\ ~Skips(Head(queue))
        /\ IF Wanted THEN EnterApply(session) ELSE EnterRestore(Off, "done")
  /\ UNCHANGED <<os, journal, outside, late, history, faults>>

-----------------------------------------------------------------------------
(***************************************************************************)
(* The steps of a takeover and of a restore.                               *)
(***************************************************************************)

(* One call reads the whole group, or one command a key.                    *)
Read ==
  /\ job.at \in Readings
  /\ job.key <= N
  /\ LET keys == IF Grouped THEN Keys ELSE {job.key} IN
     job' = [job EXCEPT !.seen = [k \in Keys |-> IF k \in keys THEN os[k] ELSE @[k]],
                        !.key = IF Grouped THEN N + 1 ELSE @ + 1]
  /\ IF job.at = "before" /\ job.key = 1
     THEN own' = os /\ touched' = {}
     ELSE UNCHANGED <<own, touched>>
  /\ raced' = IF job.at = "guard" /\ job.key = 1 THEN {} ELSE raced
  /\ UNCHANGED <<os, journal, queue, shown, outside, late, blind, faults>>

ReadAll(step) == job.at = step /\ job.key = N + 1

ProxyActive ==
  /\ ReadAll("active")
  /\ IF job.seen = Target[job.port] THEN Succeed(job.port)
     ELSE EnterRestore(job.port, "apply")
  /\ UNCHANGED <<os, journal, queue, outside, late, history, faults>>

(* What the takeover will write and what it expects to find.                *)
Takeover(before) ==
  [job EXCEPT !.key = 1, !.seen = Blank, !.expect = before,
              !.todo = Keys, !.applies = TRUE]

ChooseTakeover ==
  /\ ReadAll("before")
  /\ job' = [Takeover(job.seen) EXCEPT !.at = "save"]
  /\ UNCHANGED <<os, journal, queue, shown, outside, late, history, faults>>

SaveJournal ==
  /\ job.at = "save"
  /\ journal' = [before |-> job.expect, port |-> job.port]
  /\ job' = [job EXCEPT !.at = "guard"]
  /\ UNCHANGED <<os, queue, shown, outside, late, history, faults>>

(* Settings that changed since they were read are not ours any more: a      *)
(* takeover gives up what it wrote, a restore gives up the group.           *)
OwnershipChanged ==
  IF job.applies THEN EnterRestore(job.port, "failed")
  ELSE GoTo("drop") /\ UNCHANGED shown

(* Mutated form of Matches: nothing is compared before a write.             *)
NeverCompares(found) == TRUE

Matches(found) == found = job.expect

CheckExpected ==
  /\ ReadAll("guard")
  /\ IF Matches(job.seen)
     THEN GoTo(IF Grouped THEN "compare" ELSE "set") /\ UNCHANGED shown
     ELSE OwnershipChanged
  /\ UNCHANGED <<os, journal, queue, outside, late, history, faults>>

(* The native write reads the group once more before it sets it.            *)
Compare ==
  /\ job.at = "compare"
  /\ IF Matches(os) THEN job' = [job EXCEPT !.at = "set"] /\ UNCHANGED shown
     ELSE OwnershipChanged
  /\ raced' = {}
  /\ UNCHANGED <<os, journal, queue, outside, late, own, touched, blind, faults>>

Writing == IF job.applies THEN Target[job.port] ELSE journal.before

(* The keys the next native call or command writes.                         *)
NextKeys ==
  IF Grouped THEN job.todo
  ELSE {k \in job.todo : \A q \in job.todo : k <= q}

(* The native call writes the keys that are not asked for as well, with the *)
(* values that were read before the comparison.                             *)
Written(settings) ==
  [k \in Keys |-> IF k \in NextKeys THEN Writing[k]
                  ELSE IF Grouped THEN job.expect[k] ELSE settings[k]]

AfterSet ==
  [job EXCEPT !.expect = Written(@),
              !.todo = @ \ NextKeys,
              !.at = IF job.todo # NextKeys THEN "guard"
                     ELSE IF job.applies THEN "verify" ELSE "confirm"]

Set ==
  /\ job.at = "set"
  /\ os' = Written(os)
  /\ job' = AfterSet
  /\ UNCHANGED <<journal, queue, shown, outside, late, history, faults>>

Verify ==
  /\ ReadAll("verify")
  /\ IF job.seen = Target[job.port] THEN Succeed(job.port)
     ELSE EnterRestore(job.port, "failed")
  /\ UNCHANGED <<os, journal, queue, outside, late, history, faults>>

(* Mutated form of ChangedExternally: a group that was written halfway is   *)
(* somebody else's.                                                         *)
ChangedUnlessOurs(current) == current # Target[journal.port]

(* Mode and endpoints are one group: a single value that is neither the     *)
(* original nor ours makes the whole group somebody else's.                 *)
ChangedExternally(current) ==
  \E k \in Keys : current[k] \notin {journal.before[k], Target[journal.port][k]}

Owned(current) == {k \in Keys : current[k] = Target[journal.port][k]}

DecideRestore ==
  /\ ReadAll("current")
  /\ IF ChangedExternally(job.seen) \/ Owned(job.seen) = {}
     THEN GoTo("drop")
     ELSE job' = [job EXCEPT !.at = "guard", !.key = 1, !.seen = Blank,
                             !.expect = job.seen, !.todo = Owned(job.seen),
                             !.owned = Owned(job.seen), !.applies = FALSE]
  /\ UNCHANGED <<os, journal, queue, shown, outside, late, history, faults>>

Holds == \A k \in job.owned : job.seen[k] = journal.before[k]

(* The restored values are read back before the record is given up.         *)
Confirm ==
  /\ ReadAll("confirm")
  /\ IF Holds THEN GoTo("drop") /\ UNCHANGED shown ELSE Fail(job.then)
  /\ UNCHANGED <<os, journal, queue, outside, late, history, faults>>

DropJournal ==
  /\ job.at = "drop"
  /\ journal' = NoJournal
  /\ Restored(job.then)
  /\ UNCHANGED <<os, queue, outside, late, history, faults>>

-----------------------------------------------------------------------------
(***************************************************************************)
(* Quitting: the runtime has stopped, the queue is awaited, and the        *)
(* settings are given back without asking what is wanted.                  *)
(***************************************************************************)
AskExit ==
  /\ exit = "no"
  /\ session = Stopped
  /\ exit' = "asked"
  /\ UNCHANGED <<os, journal, job, queue, last, view, look, outside, late,
                 history, faults>>

RestoreForExit ==
  /\ exit = "asked"
  /\ job = Idle
  /\ queue = <<>>
  /\ EnterRestore(Off, "exit")
  /\ UNCHANGED <<os, journal, queue, outside, late, history, faults>>

(***************************************************************************)
(* The periodic inspection runs beside the queue.  It repeats a failed     *)
(* cleanup, never a failed takeover, and otherwise only looks.             *)
(***************************************************************************)
RetryCleanup ==
  /\ view.failed
  /\ exit = "no"
  /\ ~Wanted
  /\ Ask(<<TRUE>>)
  /\ UNCHANGED <<os, journal, job, shown, outside, late, history, faults>>

LookPort == IF session = Moving THEN last ELSE session

Inspect ==
  /\ view.active
  /\ exit = "no"
  /\ look = NoLook
  /\ \/ /\ session \notin Ports
        /\ last' = Nothing
        /\ Show(Unsure)
     \/ /\ session \in Ports \cup {Moving}
        /\ look' = [port |-> LookPort, stale |-> FALSE]
        /\ UNCHANGED <<last, view>>
  /\ UNCHANGED <<os, journal, job, queue, exit, outside, late, history, faults>>

(* Mutated form of Stale: whatever the inspection saw is shown.             *)
NeverStale == FALSE

Stale == look.stale

Inspected ==
  /\ look # NoLook
  /\ look' = NoLook
  /\ view' = IF Stale THEN view ELSE Shown(os = Target[look.port])
  /\ UNCHANGED <<os, journal, job, queue, last, exit, outside, late, history,
                 faults>>

-----------------------------------------------------------------------------
(***************************************************************************)
(* Faults.  A failed command may have had its effect or not.  A command    *)
(* that timed out is not killed and may have it at any later time, and one *)
(* may report success without having any.                                  *)
(***************************************************************************)
Fault ==
  /\ faults < budget.faults
  /\ faults' = faults + 1
  /\ UNCHANGED <<outside, history>>

(* The recovery record cannot be read.                                      *)
BeginFails ==
  /\ Fault
  /\ job = Idle
  /\ queue # <<>>
  /\ exit = "no"
  /\ session # Moving
  /\ Intent # Unknown
  /\ ~Skips(Head(queue))
  /\ queue' = Tail(queue)
  /\ Fail("done")
  /\ UNCHANGED <<os, journal, late>>

TakeoverWrites ==
  \/ job.at = "verify"
  \/ job.at \in {"guard", "set"} /\ job.applies

(* A takeover that fails after its record was saved gives back at once what *)
(* it may have written; everything else leaves the record as it is.         *)
CommandFails ==
  /\ Fault
  /\ job.at \notin {"idle", "compare"}
  /\ os' \in {os, IF job.at = "set" THEN Written(os) ELSE os}
  /\ journal' \in {journal,
                   CASE job.at = "save" -> [before |-> job.expect, port |-> job.port]
                     [] job.at = "drop" -> NoJournal
                     [] OTHER -> journal}
  /\ late' \in {late, IF "late" \in Quirks /\ job.at = "set" /\ os' = os
                      THEN [keys |-> NextKeys, to |-> Writing] ELSE late}
  /\ IF TakeoverWrites THEN EnterRestore(job.port, "failed") ELSE Fail(job.then)
  /\ UNCHANGED queue

(* When the native write cannot read the group, it answers as if the group  *)
(* had changed: a restore gives its record up with our values in force.     *)
CompareFails ==
  /\ faults < budget.faults
  /\ faults' = faults + 1
  /\ job.at = "compare"
  /\ OwnershipChanged
  /\ blind' = (blind \/ ~job.applies)
  /\ UNCHANGED <<os, journal, queue, outside, late, own, touched, raced>>

(* A write is accepted and has no effect.                                   *)
WriteIgnored ==
  /\ Fault
  /\ "ignored" \in Quirks
  /\ job.at = "set"
  /\ job' = AfterSet
  /\ UNCHANGED <<os, journal, queue, shown, late>>

InspectionFails ==
  /\ Fault
  /\ look # NoLook
  /\ look' = NoLook
  /\ view' = Failed
  /\ UNCHANGED <<os, journal, job, queue, last, exit, late>>

LateWrite ==
  /\ late # NoWrite
  /\ os' = [k \in Keys |-> IF k \in late.keys THEN late.to[k] ELSE os[k]]
  /\ late' = NoWrite
  /\ UNCHANGED <<journal, job, queue, shown, outside, history, faults>>

(* The process dies anywhere, or quits, and is started again; a core of the *)
(* helper outlives it, and its port is known when its plan is.              *)
Restart ==
  /\ faults < budget.faults
  /\ faults' = faults + 1
  /\ job' = Idle
  /\ queue' = <<FALSE>>
  /\ last' = Nothing
  /\ view' = Unsure
  /\ look' = NoLook
  /\ exit' = "no"
  /\ session' \in IF session = Stopped THEN {Stopped}
                  ELSE IF session = Moving THEN {Stopped, Unknown} \cup budget.ports
                  ELSE {session, Unknown}
  /\ UNCHANGED <<os, journal, late, history, pref, budget, edits, changes>>

-----------------------------------------------------------------------------
(***************************************************************************)
(* The user, another program of the desktop, and the core.                 *)
(***************************************************************************)
UserSets(k, v) ==
  /\ edits < budget.edits
  /\ edits' = edits + 1
  /\ v # os[k]
  /\ os' = [os EXCEPT ![k] = v]
  /\ touched' = touched \cup {k}
  /\ raced' = raced \cup {k}
  /\ UNCHANGED <<journal, job, queue, shown, pref, session, budget, changes, late,
                 own, blind, faults>>

(* Saving the preference wakes the controller twice: as a change of the     *)
(* settings, and by force.                                                  *)
SetSystemProxy(on) ==
  /\ changes < budget.changes
  /\ exit # "done"
  /\ changes' = changes + 1
  /\ pref' = on
  /\ Ask(<<FALSE, TRUE>>)
  /\ UNCHANGED <<os, journal, job, shown, session, budget, edits, late,
                 history, faults>>

SessionMoves(to) ==
  /\ changes < budget.changes
  /\ exit # "done"
  /\ to # session
  /\ changes' = changes + 1
  /\ session' = to
  /\ Ask(<<FALSE>>)
  /\ UNCHANGED <<os, journal, job, shown, pref, budget, edits, late, history,
                 faults>>

-----------------------------------------------------------------------------
RequestNext ==
  \/ Begin
  \/ Read
  \/ ProxyActive
  \/ ChooseTakeover
  \/ SaveJournal
  \/ CheckExpected
  \/ Compare
  \/ Set
  \/ Verify
  \/ DecideRestore
  \/ Confirm
  \/ DropJournal
  \/ RestoreForExit

InspectionNext == RetryCleanup \/ Inspect \/ Inspected

FaultNext ==
  \/ BeginFails
  \/ CommandFails
  \/ CompareFails
  \/ WriteIgnored
  \/ InspectionFails
  \/ LateWrite
  \/ Restart

OutsideNext ==
  \/ \E k \in Keys : \E v \in UserValues[k] : UserSets(k, v)
  \/ \E on \in BOOLEAN : SetSystemProxy(on)
  \/ \E to \in budget.ports \cup {Stopped, Moving, Unknown} : SessionMoves(to)
  \/ AskExit

Next == RequestNext \/ InspectionNext \/ FaultNext \/ OutsideNext

Spec == Init /\ [][Next]_vars

(***************************************************************************)
(* Commands return or time out, the event loop runs the queue, and the     *)
(* inspection timer keeps firing.  Users, cores and faults owe nothing.    *)
(***************************************************************************)
Fairness ==
  /\ WF_vars(RequestNext)
  /\ WF_vars(RetryCleanup)
  /\ WF_vars(Inspected)

FairSpec == Spec /\ Fairness

-----------------------------------------------------------------------------
(***************************************************************************)
(* Properties.                                                             *)
(***************************************************************************)

(* What the takeover changed can be undone: commands end when they time out *)
(* and do what they report (or one call writes the group), and no restore   *)
(* gave its record up because its comparison was not answered.              *)
Traceable == ~blind /\ (Grouped \/ Quirks = {})

(* The settings the last takeover found are not lost: unless the user       *)
(* changed something since, either they are in force, or the durable record *)
(* holds them and every setting is theirs or the one the record says we     *)
(* wrote.  It holds between any two steps, so a crash, a failed command, a  *)
(* half-written group or a change of the port never strands the session on  *)
(* a dead proxy.  Two things do: a command that does not end when it times  *)
(* out or does not do what it reports, on desktops that write key by key;   *)
(* and a native write whose own reading of the settings fails, which is     *)
(* answered as a change by somebody else and makes a restore drop the       *)
(* record (desktop_channels.cpp:299 and 318, system_proxy.dart:127-129).    *)
Recoverable ==
  touched = {} /\ Traceable =>
    IF journal = NoJournal THEN os = own
    ELSE /\ journal.before = own
         /\ \A k \in Keys : os[k] \in {own[k], Target[journal.port][k]}

(* The state never says the system proxy is on unless the intent carried    *)
(* out last was to point it at a port: an inspection that was overtaken by  *)
(* a restore does not bring the old answer back.                            *)
ActiveIsIntended == view.active => last \in Ports

(* The app writes only a group that is wholly the user's recorded original  *)
(* or ours, but for values the user chose after the comparison before the   *)
(* write had begun: a value of another proxy chosen at any earlier time,    *)
(* also between two settings of a half-written group, stops it.  Neither    *)
(* desktop has a compare-and-set, so the later ones are overwritten.        *)
ForeignGroupIsKept ==
  [][ "late" \notin Quirks /\ os' # os /\ edits' = edits =>
        \A k \in Keys : \/ os[k] \in {journal.before[k], Target[journal.port][k]}
                        \/ k \in raced ]_vars

(* What a restore owes, under the conditions of Recoverable.                *)
GivenBack == touched = {} /\ Traceable => os = own

(* When the core has stopped or the preference is off for good, then in the *)
(* end no record is left and nothing is under way, whatever failed, crashed *)
(* or was asked in between; and unless the user changed them, the settings  *)
(* are those the last takeover found, where commands end when they time out *)
(* and do what they report and every comparison was answered.               *)
Cleanup ==
  <>[](session # Moving /\ ~Wanted) =>
    <>[](journal = NoJournal /\ job = Idle /\ GivenBack)
=============================================================================
