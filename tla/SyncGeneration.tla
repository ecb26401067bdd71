--------------------------- MODULE SyncGeneration ---------------------------
(***************************************************************************)
(* Sync generations of one account: how a device joins a space that the    *)
(* service has replaced, how one device rebuilds it from its own content,  *)
(* and how the steady state of SyncOutbox goes on in it.                   *)
(*                                                                         *)
(* A run of SyncEngine first reads the lifecycle status and adopts the     *)
(* generation it names (_prepareLifecycle), sends the control request a    *)
(* user confirmed or an earlier run left behind, uploads a rebuild it      *)
(* owns, and pulls the whole space once; what follows are the steps of     *)
(* SyncOutbox.  Content, mirrors and envelopes are its slot, cursor, log.  *)
(*                                                                         *)
(* Users edit at any moment, exchanges are lost, runs die between any two  *)
(* transactions, requests arrive long after they were given up, receipts   *)
(* expire, another device takes over, and the space is replaced again.     *)
(***************************************************************************)
EXTENDS Naturals, Sequences, FiniteSets

CONSTANTS
  Devices,    \* installations signed in to the account
  Records,    \* record identities, ordered as the outbox orders them
  Values,     \* payloads, the tombstone among them
  Tombstone,  \* the content of a deleted record
  Absent,     \* "no document": differs from every payload
  MaxTime,    \* the time users edit at; what is older was edited before
  Starts      \* the situations behaviours begin in, with their bounds

VARIABLES
  log, head, verdict, now, wire,                    \* SyncOutbox: the service
  slot, cursor, active, pc, page, batch, edits, faults,  \* and the devices
  space,   \* service: the current generation, its backup and its attempt
  done,    \* service: control operations it has committed, its receipts
  mail,    \* control requests that were sent and may arrive, or arrive again
  scope,   \* device database: the generation bound, the attempt, the control
  entries, \* device database: the content frozen for the attempt
  stage,   \* device database: pages of a full pull that is not published
  life,    \* device: where the run stands before its steady state
  then,    \* device: where it goes on after a control request
  hand,    \* device: records of a staged push the service has answered
  seen,    \* device: the lifecycle status read last
  intent,  \* device: the rebuild a user has confirmed for the next run
  own,     \* history: a user's content the service has never had
  left     \* bounds: events of each kind that may still happen

outbox == <<log, head, verdict, now, wire, slot, cursor, active, pc, page, batch,
            edits, faults>>
cloud == <<space, done, mail>>
database == <<scope, entries, stage>>
memory == <<life, then, hand, seen, intent>>
history == <<own, left>>
vars == <<outbox, cloud, database, memory, history>>

Outbox == INSTANCE SyncOutbox WITH
  Lifecycle <- TRUE, Skewed <- FALSE,
  MaxEdits <- [d \in Devices |-> 0], MaxFaults <- 0

(***************************************************************************)
(* An attempt is known by the device that opened it and the number that    *)
(* device gave it, which stand for the identifiers the service hands out.  *)
(* A control operation is known by its attempt and what it does to it; the *)
(* identifier and the body it is sent with are frozen in scope.control.    *)
(***************************************************************************)
None == <<>>

NoOp == [id |-> None, action |-> "none", gen |-> 0, expect |-> None, listed |-> {}]

NoEntry == [val |-> Absent, at |-> 0, acked |-> TRUE]

NoEntries == [r \in Records |-> NoEntry]

NoAttempt == [id |-> None, listed |-> {}, staged |-> NoEntries]

NoStage == [head |-> 0, cursor |-> 0, complete |-> FALSE, revs |-> {}]

NoStatus == [gen |-> 0, origin |-> "none", backup |-> "none", attempt |-> None]

Status == [gen |-> space.gen, origin |-> space.origin, backup |-> space.backup,
           attempt |-> space.attempt.id]

NoIntent == [action |-> "none", saw |-> NoStatus]

OpOf(op) == <<op.id, IF op.action \in {"start", "claim"} THEN "open" ELSE op.action>>

(* The attempt of this device that the service has confirmed to it.         *)
Mine(d) == IF scope[d].bound THEN <<d, scope[d].local>> ELSE None

(* The status shows a rebuild in progress that is this device's own.        *)
Owned(d) ==
  /\ seen[d].backup = "rebuilding"
  /\ scope[d].bound
  /\ seen[d].attempt = Mine(d)

Go(d, phase) == life' = [life EXCEPT ![d] = phase]

(* A run ends; a confirmed intent it was given is rejected with it.         *)
EndRun(d) ==
  /\ life' = [life EXCEPT ![d] = "idle"]
  /\ then' = [then EXCEPT ![d] = "none"]
  /\ hand' = [hand EXCEPT ![d] = {}]
  /\ intent' = [intent EXCEPT ![d] = NoIntent]
  /\ pc' = [pc EXCEPT ![d] = "idle"]
  /\ page' = [page EXCEPT ![d] = Outbox!NoPage]
  /\ batch' = [batch EXCEPT ![d] = Outbox!NoBatch]

(* The records of the service and its rulings, and what SyncOutbox bounds.  *)
UnchangedService == UNCHANGED <<log, head, verdict, now, wire>>

UnchangedBounds == UNCHANGED <<active, edits, faults>>

Give(kind) ==
  /\ left[kind] > 0
  /\ left' = [left EXCEPT ![kind] = @ - 1]

(***************************************************************************)
(* History: the content a user of the device made and the service never    *)
(* had, Absent once it has: it holds it, it has ruled on it, or content    *)
(* that protocol 1 only queued was replaced by a record that is not older. *)
(***************************************************************************)
Settled(d, r, v) ==
  \/ \E k \in DOMAIN log' : log'[k].rec = r /\ log'[k].val = v
  \/ \E m \in wire :
       m.id \in DOMAIN verdict' /\ m.id[1] = d /\ m.id[2] = r /\ m.val = v
  \/ /\ ~slot[d][r].merge
     /\ slot'[d][r].rrev > slot[d][r].rrev
     /\ slot[d][r].at <= slot'[d][r].rat

(* A candidate of the device that is bound to the record is its content.    *)
Authored(d, r) ==
  LET was == slot[d][r]
      is  == slot'[d][r]
  IN  IF was.cand # Outbox!NoEdit /\ is.cand = Outbox!NoEdit
         /\ is.val = was.cand.val /\ is.val # was.val
      THEN is.val
      ELSE own[d][r]

Accounts ==
  own' = [d \in Devices |-> [r \in Records |->
            IF Settled(d, r, Authored(d, r)) THEN Absent ELSE Authored(d, r)]]

-----------------------------------------------------------------------------
(* The current revisions of a space of these records, by record.            *)
HeadsOf(records) ==
  {current \in [Records -> 0..Len(records)] :
     /\ \A r \in Records : current[r] > 0 => records[current[r]].rec = r
     /\ \A k \in DOMAIN records : k <= current[records[k].rec]}

(***************************************************************************)
(* A situation a behaviour may begin in: a space of this service, and the  *)
(* databases of devices that are in none of its generations yet.  A device *)
(* that knows none may know the records of the space, if that continues    *)
(* the history of protocol 1.                                              *)
(***************************************************************************)
WellFormed(s) ==
  /\ s \in Outbox!Slot
  /\ Outbox!Bound(s) => s.at \in Outbox!Times
  /\ s.rrev > 0 => s.rval \in Values /\ s.rat \in Outbox!Times
  /\ Outbox!Dirty(s) => s.pend.n = s.n /\ s.pend.val = s.val
  /\ s.fly # Outbox!NoEnvelope => s.fly.n <= s.n

(* What was sent last is what is queued, or is older.                       *)
SentInOrder(s) == Outbox!Dirty(s) /\ s.fly.n = s.pend.n => s.fly = s.pend

(* Content the service never had is marked, or queued with nothing equal to *)
(* it in the mirror; and what was sent before it does not stand alone.      *)
Holds(s, v) ==
  /\ s.val = v
  /\ s.merge \/ (Outbox!Dirty(s) /\ (s.rrev > 0 => s.rval # v))
  /\ s.fly # Outbox!NoEnvelope => Outbox!Dirty(s)

(* A device in step with a space: its mirrors are records of the space, and *)
(* its cursor passed none that it has not mirrored.                         *)
InStep(records, row, position) ==
  /\ position <= Len(records)
  /\ \A r \in Records :
       LET rev == row[r].rrev IN
       /\ rev > 0 =>
            /\ rev <= Len(records)
            /\ records[rev] = [rec |-> r, val |-> row[r].rval, at |-> row[r].rat]
       /\ \A k \in 1..position : records[k].rec = r => k <= rev

IsStart(start) ==
  /\ start.log \in Seq(Outbox!Published)
  /\ start.gen \in Nat \ {0}
  /\ start.origin \in {"legacy", "initial", "rebuilt"}
  /\ start.backup \in {"rebuildRequired", "ready"}
  /\ start.origin # "rebuilt" => start.backup = "ready"
  /\ start.bound \in [Devices -> Nat]
  /\ start.cursor \in [Devices -> Nat]
  /\ start.slot \in [Devices -> [Records -> Outbox!Slot]]
  /\ \A d \in Devices :
       /\ start.bound[d] < start.gen
       /\ start.bound[d] = 0 /\ start.origin = "legacy" =>
            InStep(start.log, start.slot[d], start.cursor[d])
       /\ \A r \in Records :
            /\ WellFormed(start.slot[d][r])
            /\ SentInOrder(start.slot[d][r])
            /\ start.own[d][r] \in Values \cup {Absent}
            /\ start.own[d][r] # Absent => Holds(start.slot[d][r], start.own[d][r])

ASSUME GenerationAssumption ==
  /\ Records \subseteq Nat
  /\ IsFiniteSet(Records)
  /\ Tombstone \in Values
  /\ Absent \notin Values
  /\ MaxTime \in Nat \ {0}
  /\ \A start \in Starts : IsStart(start)

Init ==
  \E start \in Starts :
    /\ log = start.log
    /\ head \in HeadsOf(start.log)
    /\ verdict = [id \in {} |-> [applied |-> TRUE, rev |-> 0]]
    /\ now = MaxTime
    /\ wire = {}
    /\ slot = start.slot
    /\ cursor = start.cursor
    /\ active = [d \in Devices |-> TRUE]
    /\ pc = [d \in Devices |-> "idle"]
    /\ page = [d \in Devices |-> Outbox!NoPage]
    /\ batch = [d \in Devices |-> Outbox!NoBatch]
    /\ edits = [d \in Devices |-> 0]
    /\ faults = 0
    /\ space = [gen |-> start.gen, origin |-> start.origin, backup |-> start.backup,
                attempt |-> NoAttempt]
    /\ done = {}
    /\ mail = {}
    /\ scope = [d \in Devices |->
                  [gen |-> start.bound[d], backup |-> "ready", boot |-> TRUE,
                   local |-> 0, bound |-> FALSE, control |-> NoOp, n |-> 0]]
    /\ entries = [d \in Devices |-> NoEntries]
    /\ stage = [d \in Devices |-> NoStage]
    /\ life = [d \in Devices |-> "idle"]
    /\ then = [d \in Devices |-> "none"]
    /\ hand = [d \in Devices |-> {}]
    /\ seen = [d \in Devices |-> NoStatus]
    /\ intent = [d \in Devices |-> NoIntent]
    /\ own = [d \in Devices |-> [r \in Records |-> start.own[d][r]]]
    /\ left = start.left

-----------------------------------------------------------------------------
(***************************************************************************)
(* The run up to its steady state (_prepareLifecycle).                     *)
(***************************************************************************)
ReadStatus(d) ==
  /\ life[d] = "idle"
  /\ seen' = [seen EXCEPT ![d] = Status]
  /\ Go(d, "adopt")
  /\ UNCHANGED <<outbox, cloud, database, then, hand, intent, history>>

(* Mutated forms of Retired: only what is marked already is kept as an edit; *)
(* the cursor's mirrors are kept.                                            *)
RetiredUnmarked(s) ==
  [s EXCEPT !.rval = Absent, !.rat = 0, !.rrev = 0, !.n = 0,
            !.pend = Outbox!NoEnvelope, !.fly = Outbox!NoEnvelope]

RetiredMirrored(s) ==
  [s EXCEPT !.merge = @ \/ (IF s.rrev = 0 THEN Outbox!Dirty(s) ELSE s.val # s.rval),
            !.n = 0, !.pend = Outbox!NoEnvelope, !.fly = Outbox!NoEnvelope]

(* A document outlives its generation: what differs from the mirror that is *)
(* given up, or was queued and never mirrored, is retained as an edit.      *)
Retired(s) ==
  [s EXCEPT !.merge = @ \/ (IF s.rrev = 0 THEN Outbox!Dirty(s) ELSE s.val # s.rval),
            !.rval = Absent, !.rat = 0, !.rrev = 0, !.n = 0,
            !.pend = Outbox!NoEnvelope, !.fly = Outbox!NoEnvelope]

(* adoptGeneration: the same generation only learns its backup state, one   *)
(* that continues the history of protocol 1 takes everything over, any      *)
(* other archives what the device kept for the old one.                     *)
Adopt(d) ==
  /\ life[d] = "adopt"
  /\ Go(d, "activate")
  /\ IF scope[d].gen = seen[d].gen
     THEN /\ scope' = [scope EXCEPT ![d].backup = seen[d].backup]
          /\ UNCHANGED <<slot, cursor, entries, stage>>
     ELSE IF scope[d].gen = 0 /\ seen[d].origin = "legacy"
     THEN /\ scope' = [scope EXCEPT ![d].gen = seen[d].gen,
                                    ![d].backup = seen[d].backup]
          /\ UNCHANGED <<slot, cursor, entries, stage>>
     ELSE /\ scope' = [scope EXCEPT ![d] =
                         [@ EXCEPT !.gen = seen[d].gen, !.backup = seen[d].backup,
                                   !.boot = FALSE, !.local = 0, !.bound = FALSE,
                                   !.control = NoOp]]
          /\ slot' = [slot EXCEPT ![d] = [r \in Records |-> Retired(slot[d][r])]]
          /\ cursor' = [cursor EXCEPT ![d] = 0]
          /\ entries' = [entries EXCEPT ![d] = NoEntries]
          /\ stage' = [stage EXCEPT ![d] = NoStage]
  /\ UnchangedService /\ UnchangedBounds
  /\ Accounts
  /\ UNCHANGED <<pc, page, batch, cloud, then, hand, seen, intent, left>>

(* The generation is activated only as it was seen; a control request left  *)
(* over from an earlier run is sent again as it was.                        *)
Activate(d) ==
  /\ life[d] = "activate"
  /\ IF seen[d] # Status
     THEN /\ EndRun(d)
          /\ UNCHANGED mail
     ELSE IF scope[d].control = NoOp
     THEN /\ Go(d, "attempt")
          /\ UNCHANGED <<mail, then, hand, intent, pc, page, batch>>
     ELSE /\ Go(d, "await")
          /\ then' = [then EXCEPT ![d] = "attempt"]
          /\ mail' = mail \cup {scope[d].control}
          /\ UNCHANGED <<hand, intent, pc, page, batch>>
  /\ UnchangedService /\ UnchangedBounds
  /\ UNCHANGED <<slot, cursor, space, done, database, seen, history>>

(* cancelRebuild: the attempt is archived and its frozen content with it.   *)
Cancelled(s) ==
  [s EXCEPT !.backup = "rebuildRequired", !.local = 0, !.bound = FALSE]

Abandoned(d) ==
  /\ scope[d].local # 0
  /\ \/ seen[d].backup = "ready"
     \/ seen[d].attempt # Mine(d)
     \/ ~scope[d].bound

(* An attempt that is not the current one, or that the service never        *)
(* confirmed, is put away before the device does anything else.             *)
Quarantine(d) ==
  /\ life[d] = "attempt"
  /\ Go(d, "intent")
  /\ IF Abandoned(d)
     THEN /\ scope' = [scope EXCEPT ![d] =
                         [Cancelled(@) EXCEPT !.backup = seen[d].backup]]
          /\ entries' = [entries EXCEPT ![d] = NoEntries]
     ELSE UNCHANGED <<scope, entries>>
  /\ UNCHANGED <<outbox, cloud, stage, then, hand, seen, intent, history>>

-----------------------------------------------------------------------------
(***************************************************************************)
(* What a user asked for, and the control requests it takes.               *)
(***************************************************************************)

(* saveRebuildControl commits the operation and its body before the first   *)
(* request leaves; a run that dies in between has sent what never arrives.  *)
Send(d, op, next) ==
  /\ scope' = [scope EXCEPT ![d].control = op]
  /\ mail' = mail \cup {op}
  /\ then' = [then EXCEPT ![d] = next]
  /\ Go(d, "await")

Without(d) ==
  /\ life[d] = "intent"
  /\ intent[d] = NoIntent
  /\ Go(d, "upload")
  /\ UNCHANGED <<outbox, cloud, database, then, hand, seen, intent, history>>

(* The user confirmed what the status showed; a status that moved since     *)
(* refuses the intent and ends the run.                                     *)
Matches(d) == intent[d].saw = seen[d]

Resumes(d) == intent[d].action \in {"start", "claim"} /\ Owned(d)

Applies(d) ==
  /\ Matches(d)
  /\ CASE intent[d].action = "cancel" -> Owned(d)
       [] intent[d].action = "start"  -> seen[d].backup = "rebuildRequired"
       [] intent[d].action = "claim"  -> seen[d].backup = "rebuilding"

Refuse(d) ==
  /\ life[d] = "intent"
  /\ intent[d] # NoIntent
  /\ ~(Applies(d) \/ (Matches(d) /\ Resumes(d)))
  /\ EndRun(d)
  /\ UnchangedService /\ UnchangedBounds
  /\ UNCHANGED <<slot, cursor, cloud, database, seen, history>>

Resume(d) ==
  /\ life[d] = "intent"
  /\ Matches(d)
  /\ Resumes(d)
  /\ Go(d, "upload")
  /\ intent' = [intent EXCEPT ![d] = NoIntent]
  /\ UNCHANGED <<outbox, cloud, database, then, hand, seen, history>>

CancelRebuild(d) ==
  /\ life[d] = "intent"
  /\ intent[d].action = "cancel"
  /\ Applies(d)
  /\ Send(d, [id |-> Mine(d), action |-> "cancel", gen |-> scope[d].gen,
              expect |-> Mine(d), listed |-> {}], "upload")
  /\ intent' = [intent EXCEPT ![d] = NoIntent]
  /\ UNCHANGED <<outbox, space, done, entries, stage, hand, seen, history>>

(* prepareRebuild binds the device's candidates, but queues nothing.        *)
Chosen(s) ==
  [Outbox!Bind([s EXCEPT !.pend = Outbox!NoEnvelope, !.fly = Outbox!NoEnvelope])
     EXCEPT !.pend = Outbox!NoEnvelope, !.n = s.n]

Frozen(s) ==
  IF s.val \in {Absent, Tombstone} THEN NoEntry
  ELSE [val |-> s.val, at |-> s.at, acked |-> FALSE]

(* beginRebuild: the chosen device's live content at this moment becomes    *)
(* the manifest of a new attempt; later edits do not touch it.              *)
BeginRebuild(d) ==
  /\ life[d] = "intent"
  /\ intent[d].action \in {"start", "claim"}
  /\ Applies(d)
  /\ ~Resumes(d)
  /\ scope[d].backup # "ready"
  /\ scope[d].control = NoOp
  /\ slot' = [slot EXCEPT ![d] = [r \in Records |-> Chosen(slot[d][r])]]
  /\ entries' = [entries EXCEPT ![d] = [r \in Records |-> Frozen(slot'[d][r])]]
  /\ scope' = [scope EXCEPT ![d] =
                 [@ EXCEPT !.backup = "rebuilding", !.bound = FALSE,
                           !.local = scope[d].n + 1, !.n = scope[d].n + 1]]
  /\ Go(d, "open")
  /\ UnchangedService /\ UnchangedBounds
  /\ Accounts
  /\ UNCHANGED <<cursor, pc, page, batch, cloud, stage, then, hand, seen, intent, left>>

Listed(d) == {r \in Records : entries[d][r] # NoEntry}

(* The attempt to be taken over is the one the user saw.                    *)
OpenAttempt(d) ==
  /\ life[d] = "open"
  /\ Send(d, [id |-> <<d, scope[d].local>>, action |-> intent[d].action,
              gen |-> scope[d].gen, listed |-> Listed(d),
              expect |-> IF intent[d].action = "claim" THEN seen[d].attempt ELSE None],
          "upload")
  /\ intent' = [intent EXCEPT ![d] = NoIntent]
  /\ UNCHANGED <<outbox, space, done, entries, stage, hand, seen, history>>

-----------------------------------------------------------------------------
(***************************************************************************)
(* The service (SYNC_PROTOCOL, sections 4 and 5): an operation is committed *)
(* once, with its receipt, under the generation and attempt it names.      *)
(***************************************************************************)
Current(op) ==
  /\ space.backup = "rebuilding"
  /\ space.attempt.id = op.expect

Complete == {r \in Records : space.attempt.staged[r] # NoEntry} = space.attempt.listed

Accepts(op) ==
  /\ op.gen = space.gen
  /\ CASE op.action = "start"    -> space.backup = "rebuildRequired"
       [] op.action = "claim"    -> Current(op)
       [] op.action = "cancel"   -> Current(op)
       [] op.action = "complete" -> Current(op) /\ Complete

(* What was staged becomes the space, its records numbered in some order.   *)
Orders(listed) ==
  {order \in [1..Cardinality(listed) -> listed] :
     \A r \in listed : \E k \in DOMAIN order : order[k] = r}

Published(order) ==
  [k \in DOMAIN order |->
     [rec |-> order[k], val |-> space.attempt.staged[order[k]].val,
      at |-> space.attempt.staged[order[k]].at]]

ServeControl(op) ==
  /\ OpOf(op) \notin done
  /\ Accepts(op)
  /\ done' = done \cup {OpOf(op)}
  /\ \/ /\ op.action \in {"start", "claim"}
        /\ space' = [space EXCEPT !.backup = "rebuilding",
                                  !.attempt = [id |-> op.id, listed |-> op.listed,
                                               staged |-> NoEntries]]
        /\ UNCHANGED <<log, head>>
     \/ /\ op.action = "cancel"
        /\ space' = [space EXCEPT !.backup = "rebuildRequired", !.attempt = NoAttempt]
        /\ UNCHANGED <<log, head>>
     \/ /\ op.action = "complete"
        /\ space' = [space EXCEPT !.backup = "ready", !.attempt = NoAttempt]
        /\ \E order \in Orders(space.attempt.listed) : log' = Published(order)
        /\ head' \in HeadsOf(log')
  /\ UnchangedBounds
  /\ UNCHANGED <<verdict, now, wire, slot, cursor, pc, page, batch, mail, database,
                 memory, left>>
  /\ Accounts

(* The space ends with its subscription, and a later one begins empty.      *)
(* Requests for the old one are refused from here on.                       *)
Retire ==
  /\ Give("retire")
  /\ space' = [gen |-> space.gen + 1, origin |-> "rebuilt",
               backup |-> "rebuildRequired", attempt |-> NoAttempt]
  /\ log' = <<>>
  /\ head' = [r \in Records |-> 0]
  /\ verdict' = [id \in {} |-> [applied |-> TRUE, rev |-> 0]]
  /\ wire' = {}
  /\ UnchangedBounds
  /\ UNCHANGED <<now, slot, cursor, pc, page, batch, done, mail, database, memory, own>>

(* Receipts are kept for a week, longer than any request travels.           *)
ExpireReceipt ==
  /\ Give("expire")
  /\ \E receipt \in done :
       /\ \A d \in Devices : life[d] = "await" => OpOf(scope[d].control) # receipt
       /\ done' = done \ {receipt}
       /\ mail' = {op \in mail : OpOf(op) # receipt}
  /\ UNCHANGED <<outbox, space, database, memory, own>>

-----------------------------------------------------------------------------
(***************************************************************************)
(* Answers to control requests (_sendRebuildControl).                      *)
(***************************************************************************)

(* Mutated form of Rejected: the request is kept although it was refused.   *)
RejectedKept(s) == Cancelled(s)

(* A confirmed rejection gives the user a choice again.                     *)
Rejected(s) == [Cancelled(s) EXCEPT !.control = NoOp]

AnswerControl(d) ==
  /\ life[d] = "await"
  /\ scope[d].control \in mail
  /\ OpOf(scope[d].control) \in done
  /\ Go(d, "verify")
  /\ UNCHANGED <<outbox, cloud, database, then, hand, seen, intent, history>>

RejectControl(d) ==
  /\ life[d] = "await"
  /\ OpOf(scope[d].control) \notin done
  /\ ~Accepts(scope[d].control)
  /\ scope' = [scope EXCEPT ![d] = Rejected(@)]
  /\ entries' = [entries EXCEPT ![d] = NoEntries]
  /\ EndRun(d)
  /\ UnchangedService /\ UnchangedBounds
  /\ UNCHANGED <<slot, cursor, cloud, stage, seen, history>>

(* A receipt says what happened first; only a status read after it says     *)
(* what is so now.                                                          *)
Verify(d) ==
  /\ life[d] = "verify"
  /\ seen' = [seen EXCEPT ![d] = Status]
  /\ IF space.gen # scope[d].gen
     THEN EndRun(d)
     ELSE Go(d, "settle") /\ UNCHANGED <<then, hand, intent, pc, page, batch>>
  /\ UnchangedService /\ UnchangedBounds
  /\ UNCHANGED <<slot, cursor, cloud, database, history>>

Granted(d) == seen[d].attempt = scope[d].control.id

(* Mutated form of Changed: what was published is not looked at again.      *)
ChangedNever(s, e) == FALSE

(* Edited since its content was frozen.                                     *)
Changed(s, e) == s.val # e.val

(* completeRebuild: the frozen content is the space; what was edited since  *)
(* is retained, the rest has nothing left to merge.                         *)
CompleteRebuild(d) ==
  /\ \A r \in Records : entries[d][r].acked
  /\ slot' = [slot EXCEPT ![d] =
       [r \in Records |->
          IF entries[d][r] = NoEntry THEN slot[d][r]
          ELSE [slot[d][r] EXCEPT !.merge = Changed(slot[d][r], entries[d][r])]]]
  /\ entries' = [entries EXCEPT ![d] = NoEntries]
  /\ cursor' = [cursor EXCEPT ![d] = 0]
  /\ scope' = [scope EXCEPT ![d] =
       [@ EXCEPT !.backup = "ready", !.local = 0, !.bound = FALSE, !.boot = FALSE,
                 !.control = NoOp]]

Settle(d) ==
  LET action == scope[d].control.action IN
  /\ life[d] = "settle"
  /\ \/ /\ action \in {"start", "claim"}
        /\ IF Granted(d)
           THEN /\ scope' = [scope EXCEPT ![d] = [@ EXCEPT !.bound = TRUE,
                                                           !.control = NoOp]]
                /\ UNCHANGED entries
           ELSE /\ scope' = [scope EXCEPT ![d] = Rejected(@)]
                /\ entries' = [entries EXCEPT ![d] = NoEntries]
        /\ Go(d, "reread")
        /\ UNCHANGED <<slot, cursor, then, hand, intent, pc, page, batch>>
     \/ /\ action = "cancel"
        /\ scope' = [scope EXCEPT ![d] = Rejected(@)]
        /\ entries' = [entries EXCEPT ![d] = NoEntries]
        /\ Go(d, "reread")
        /\ UNCHANGED <<slot, cursor, then, hand, intent, pc, page, batch>>
     \/ /\ action = "complete"
        /\ seen[d].backup = "ready"
        /\ CompleteRebuild(d)
        /\ Go(d, "reread")
        /\ UNCHANGED <<then, hand, intent, pc, page, batch>>
     \/ /\ action = "complete"
        /\ seen[d].backup # "ready"
        /\ EndRun(d)
        /\ UNCHANGED <<slot, cursor, scope, entries>>
  /\ UnchangedService /\ UnchangedBounds
  /\ Accounts
  /\ UNCHANGED <<cloud, stage, seen, left>>

Reread(d) ==
  /\ life[d] = "reread"
  /\ seen' = [seen EXCEPT ![d] = Status]
  /\ Go(d, then[d])
  /\ UNCHANGED <<outbox, cloud, database, then, hand, intent, history>>

-----------------------------------------------------------------------------
(***************************************************************************)
(* The upload of an attempt (_uploadRebuild).                              *)
(***************************************************************************)
Upload(d) ==
  /\ life[d] = "upload"
  /\ Go(d, IF Owned(d) THEN "staging" ELSE "verdict")
  /\ UNCHANGED <<outbox, cloud, database, then, hand, seen, intent, history>>

Unacked(d) == {r \in Records : ~entries[d][r].acked}

IsCurrent(d) == space.gen = scope[d].gen /\ space.attempt.id = Mine(d)

(* The service stages a prefix of what is sent, under the attempt it names. *)
StagePush(d) ==
  /\ life[d] = "staging"
  /\ Unacked(d) # {}
  /\ IF IsCurrent(d)
     THEN /\ \E batch_ \in SUBSET Unacked(d) :
               /\ batch_ # {}
               /\ Outbox!IsPrefix(batch_, Unacked(d))
               /\ space' = [space EXCEPT !.attempt.staged =
                    [r \in Records |-> IF r \in batch_
                                       THEN [entries[d][r] EXCEPT !.acked = TRUE]
                                       ELSE @[r]]]
               /\ hand' = [hand EXCEPT ![d] = batch_]
          /\ Go(d, "staged")
          /\ UNCHANGED <<then, intent, pc, page, batch>>
     ELSE EndRun(d) /\ UNCHANGED space
  /\ UnchangedService /\ UnchangedBounds
  /\ UNCHANGED <<slot, cursor, done, mail, database, seen, history>>

(* commitRebuildPrefix                                                      *)
CommitStaged(d) ==
  /\ life[d] = "staged"
  /\ entries' = [entries EXCEPT ![d] =
       [r \in Records |-> [entries[d][r] EXCEPT !.acked = @ \/ r \in hand[d]]]]
  /\ hand' = [hand EXCEPT ![d] = {}]
  /\ Go(d, "progress")
  /\ UNCHANGED <<outbox, cloud, scope, stage, then, seen, intent, history>>

Progress(d) ==
  /\ life[d] = "progress"
  /\ seen' = [seen EXCEPT ![d] = Status]
  /\ IF IsCurrent(d)
     THEN Go(d, "staging") /\ UNCHANGED <<then, hand, intent, pc, page, batch>>
     ELSE EndRun(d)
  /\ UnchangedService /\ UnchangedBounds
  /\ UNCHANGED <<slot, cursor, cloud, database, history>>

CompleteAttempt(d) ==
  /\ life[d] = "staging"
  /\ Unacked(d) = {}
  /\ Send(d, [id |-> Mine(d), action |-> "complete", gen |-> scope[d].gen,
              expect |-> Mine(d), listed |-> {}], "verdict")
  /\ UNCHANGED <<outbox, space, done, entries, stage, hand, seen, intent, history>>

(* Only a space that is ready is synchronised with.                         *)
Verdict(d) ==
  /\ life[d] = "verdict"
  /\ IF seen[d].backup = "ready"
     THEN /\ Go(d, IF scope[d].boot THEN "run" ELSE "pull")
          /\ then' = [then EXCEPT ![d] = "none"]
          /\ UNCHANGED <<hand, intent, pc, page, batch>>
     ELSE EndRun(d)
  /\ UnchangedService /\ UnchangedBounds
  /\ UNCHANGED <<slot, cursor, cloud, database, seen, history>>

-----------------------------------------------------------------------------
(***************************************************************************)
(* The full pull (_fullPull): pages are staged until one unchanged head has *)
(* been received completely, then everything becomes visible at once.      *)
(***************************************************************************)
Readable(d) == space.gen = scope[d].gen /\ space.backup = "ready"

Owed(d) == {head[r] : r \in {q \in Records : head[q] > stage[d].cursor}}

(* A page of a head that moved discards what is staged.  The code begins    *)
(* anew at most twice, then the run ends: either may come first here.       *)
Discard(d) ==
  /\ stage' = [stage EXCEPT ![d] = NoStage]
  /\ \/ UNCHANGED <<life, then, hand, intent, pc, page, batch>>
     \/ EndRun(d)

Begun(d) == stage[d].cursor > 0 \/ stage[d].complete

FullPage(d) ==
  /\ life[d] = "pull"
  /\ ~stage[d].complete
  /\ \/ /\ ~Readable(d)
        /\ EndRun(d)
        /\ UNCHANGED stage
     \/ /\ Readable(d)
        /\ Begun(d) /\ stage[d].head # Len(log)
        /\ Discard(d)
     \/ /\ Readable(d)
        /\ Begun(d) => stage[d].head = Len(log)
        /\ \E next \in IF Owed(d) = {} THEN {stage[d].cursor} ELSE Owed(d) :
             stage' = [stage EXCEPT ![d] =
               [head |-> Len(log), cursor |-> next,
                complete |-> ~\E k \in Owed(d) : k > next,
                revs |-> @.revs \cup {k \in Owed(d) : k <= next}]]
        /\ UNCHANGED <<life, then, hand, intent, pc, page, batch>>
  /\ UnchangedService /\ UnchangedBounds
  /\ UNCHANGED <<slot, cursor, cloud, scope, entries, seen, history>>

ConfirmPull(d) ==
  /\ life[d] = "pull"
  /\ stage[d].complete
  /\ seen' = [seen EXCEPT ![d] = Status]
  /\ \/ /\ space.gen # scope[d].gen
        /\ EndRun(d)
        /\ UNCHANGED stage
     \/ /\ space.gen = scope[d].gen
        /\ stage[d].head # Len(log) \/ space.backup # "ready"
        /\ Discard(d)
     \/ /\ Readable(d)
        /\ stage[d].head = Len(log)
        /\ Go(d, "publish")
        /\ UNCHANGED <<stage, then, hand, intent, pc, page, batch>>
  /\ UnchangedService /\ UnchangedBounds
  /\ UNCHANGED <<slot, cursor, cloud, scope, entries, history>>

(* publishFullPull: the records become mirrors and content in one           *)
(* transaction, and only then is the device part of the generation.  Pages  *)
(* of a space that has been replaced are dropped here, where the code shows *)
(* them until the next run retires them.                                    *)
PublishFullPull(d) ==
  /\ life[d] = "publish"
  /\ IF space.gen # scope[d].gen
     THEN /\ EndRun(d)
          /\ UNCHANGED <<slot, cursor, scope, stage>>
     ELSE /\ slot' = [slot EXCEPT ![d] = [r \in Records |->
               LET revs == {k \in stage[d].revs : log[k].rec = r}
                   s == IF revs = {} THEN slot[d][r]
                        ELSE Outbox!Project(Outbox!Observe(slot[d][r],
                               Outbox!AsRecord(CHOOSE k \in revs : TRUE), TRUE))
               IN  IF seen[d].origin = "rebuilt" THEN Outbox!Project(s)
                   ELSE Outbox!Project(Outbox!Bind(s))]]
          /\ cursor' = [cursor EXCEPT ![d] = stage[d].head]
          /\ scope' = [scope EXCEPT ![d].boot = TRUE]
          /\ stage' = [stage EXCEPT ![d] = NoStage]
          /\ Go(d, "run")
          /\ UNCHANGED <<then, hand, intent, pc, page, batch>>
  /\ UnchangedService /\ UnchangedBounds
  /\ Accounts
  /\ UNCHANGED <<cloud, entries, seen, left>>

-----------------------------------------------------------------------------
(***************************************************************************)
(* The steady state: the worker of SyncOutbox.  Every request names the    *)
(* generation; the service refuses one that is not current.  An answer     *)
(* given before the space was replaced is taken as if committed before.    *)
(***************************************************************************)
Steady(d) ==
  /\ life[d] = "run"
  /\ Accounts
  /\ UNCHANGED <<cloud, database, then, hand, seen, intent, left>>

Refused(d) ==
  /\ life[d] = "run"
  /\ space.gen # scope[d].gen
  /\ \/ pc[d] \in {"pull", "page", "sent"}
     \/ pc[d] = "push" /\ Outbox!Selected(d) # {}
  /\ EndRun(d)
  /\ UnchangedService /\ UnchangedBounds
  /\ UNCHANGED <<slot, cursor, cloud, database, seen, history>>

StartRun(d) ==
  /\ Outbox!StartRun(d)
  /\ scope[d].backup = "ready"
  /\ Steady(d)
  /\ UNCHANGED life

(* reconcileAccount queues nothing while the backup is not known to be ready. *)
StartUnready(d) ==
  /\ pc[d] = "idle"
  /\ scope[d].backup # "ready"
  /\ pc' = [pc EXCEPT ![d] = "pull"]
  /\ UnchangedService /\ UnchangedBounds
  /\ UNCHANGED <<slot, cursor, page, batch, life>>
  /\ Steady(d)

PullPage(d) ==
  /\ space.gen = scope[d].gen
  /\ Outbox!PullPage(d)
  /\ Steady(d)
  /\ UNCHANGED life

CommitPullPage(d) ==
  /\ space.gen = scope[d].gen
  /\ Outbox!CommitPullPage(d)
  /\ Steady(d)
  /\ UNCHANGED life

(* In a space rebuilt after the end of another nothing of the device joins  *)
(* by itself: content of no account stays for its user to decide on.        *)
JoinRebuilt(d) ==
  /\ pc[d] = "bind"
  /\ seen[d].origin = "rebuilt"
  /\ slot' = [slot EXCEPT ![d] = [r \in Records |-> Outbox!Project(slot[d][r])]]
  /\ pc' = [pc EXCEPT ![d] = "push"]
  /\ UnchangedService /\ UnchangedBounds
  /\ UNCHANGED <<cursor, page, batch, life>>
  /\ Steady(d)

CompleteBootstrap(d) ==
  /\ seen[d].origin # "rebuilt"
  /\ Outbox!CompleteBootstrap(d)
  /\ Steady(d)
  /\ UNCHANGED life

PreparePush(d) ==
  /\ space.gen = scope[d].gen
  /\ Outbox!PreparePush(d)
  /\ Steady(d)
  /\ UNCHANGED life

CommitPushPrefix(d) ==
  /\ space.gen = scope[d].gen
  /\ Outbox!CommitPushPrefix(d)
  /\ Steady(d)
  /\ UNCHANGED life

FinishRun(d) ==
  /\ Outbox!FinishRun(d)
  /\ Steady(d)
  /\ Go(d, "idle")

Rule(m) ==
  /\ Outbox!ApplyMutation(m) \/ Outbox!SupersedeMutation(m)
  /\ Accounts
  /\ UNCHANGED <<cloud, database, memory, left>>

-----------------------------------------------------------------------------
(***************************************************************************)
(* Users and faults.                                                       *)
(***************************************************************************)

(* An edit is queued only where it could be sent (_edited, _freeze); in a   *)
(* generation every edit is retained until the service has ruled on it.     *)
Queues(d) ==
  /\ scope[d].boot
  /\ scope[d].gen = 0 \/ scope[d].backup = "ready"

(* History: content the service has had, in the space it holds, as the      *)
(* mirror of protocol 1, or in the space this device's attempt became.      *)
AttemptDone(d) ==
  /\ scope[d].local # 0
  /\ \/ <<<<d, scope[d].local>>, "complete">> \in done
     \/ scope[d].control.action = "complete" /\ life[d] \in {"verify", "settle"}

Had(d, r, v) ==
  \/ \E k \in DOMAIN log : log[k].rec = r /\ log[k].val = v
  \/ scope[d].gen = 0 /\ slot[d][r].rrev > 0 /\ slot[d][r].rval = v
  \/ AttemptDone(d) /\ entries[d][r] # NoEntry /\ entries[d][r].val = v

Edit(d, r, v) ==
  LET s == slot[d][r] IN
  /\ Give("edit")
  /\ Outbox!OwnsRow(d, s)
  /\ v # s.val
  /\ slot' = [slot EXCEPT ![d][r] =
       [Outbox!SaveLocal(s, v, now, Queues(d)) EXCEPT !.merge = scope[d].gen # 0]]
  /\ own' = [own EXCEPT ![d][r] = IF Had(d, r, v) THEN Absent ELSE v]
  /\ UnchangedService /\ UnchangedBounds
  /\ UNCHANGED <<cursor, pc, page, batch, cloud, database, memory>>

(* The user confirms an action on the status the device shows.  One that is *)
(* asked for during a run waits for its end, and is no different then.      *)
Ask(d, action) ==
  /\ Give("ask")
  /\ life[d] = "idle"
  /\ seen[d] # NoStatus
  /\ intent[d] = NoIntent
  /\ action = "start" <=> seen[d].backup = "rebuildRequired"
  /\ seen[d].backup # "ready"
  /\ intent' = [intent EXCEPT ![d] = [action |-> action, saw |-> seen[d]]]
  /\ UNCHANGED <<outbox, cloud, database, life, then, hand, seen, own>>

(* A failed exchange or a dead process: the database, the requests on their *)
(* way and what the service has committed stay as they are.                 *)
Fail(d) ==
  /\ Give("fault")
  /\ life[d] # "idle"
  /\ EndRun(d)
  /\ UnchangedService /\ UnchangedBounds
  /\ UNCHANGED <<slot, cursor, cloud, database, seen, own>>

-----------------------------------------------------------------------------
Prepare(d) ==
  \/ ReadStatus(d)
  \/ Adopt(d)
  \/ Activate(d)
  \/ Quarantine(d)
  \/ Without(d)
  \/ Refuse(d)
  \/ Resume(d)
  \/ CancelRebuild(d)
  \/ BeginRebuild(d)
  \/ OpenAttempt(d)
  \/ AnswerControl(d)
  \/ RejectControl(d)
  \/ Verify(d)
  \/ Settle(d)
  \/ Reread(d)
  \/ Upload(d)
  \/ StagePush(d)
  \/ CommitStaged(d)
  \/ Progress(d)
  \/ CompleteAttempt(d)
  \/ Verdict(d)
  \/ FullPage(d)
  \/ ConfirmPull(d)
  \/ PublishFullPull(d)

Synchronise(d) ==
  \/ StartRun(d)
  \/ StartUnready(d)
  \/ PullPage(d)
  \/ CommitPullPage(d)
  \/ JoinRebuilt(d)
  \/ CompleteBootstrap(d)
  \/ PreparePush(d)
  \/ CommitPushPrefix(d)
  \/ FinishRun(d)
  \/ Refused(d)

UserNext(d) ==
  \/ \E r \in Records, v \in Values : Edit(d, r, v)
  \/ \E action \in {"start", "claim", "cancel"} : Ask(d, action)

ServiceNext ==
  \/ \E op \in mail : ServeControl(op)
  \/ \E m \in wire : Rule(m)

Next ==
  \/ \E d \in Devices : Prepare(d) \/ Synchronise(d) \/ UserNext(d) \/ Fail(d)
  \/ ServiceNext
  \/ Retire
  \/ ExpireReceipt

Spec == Init /\ [][Next]_vars

(***************************************************************************)
(* The periodic, edit and retry triggers keep starting runs, and a service *)
(* that can be reached answers what it received.  Users, faults and the    *)
(* subscription owe nothing.                                               *)
(***************************************************************************)
Fairness ==
  /\ \A d \in Devices : WF_vars(Prepare(d) \/ Synchronise(d))
  /\ WF_vars(ServiceNext)

FairSpec == Spec /\ Fairness

-----------------------------------------------------------------------------
(***************************************************************************)
(* Properties.                                                             *)
(***************************************************************************)

(* What a user wrote and the service never had is never lost, however often *)
(* the space is replaced, rebuilt from here or from another device, joined, *)
(* taken over or given up meanwhile: it is still the content of the record, *)
(* and marked so that the device will offer it to the service.              *)
EditsAreKept ==
  \A d \in Devices, r \in Records :
    LET s == slot[d][r] IN
    own[d][r] # Absent => s.val = own[d][r] /\ (s.merge \/ Outbox!Dirty(s))

(* A device in the current generation knows nothing of an earlier one: what *)
(* it takes for the service's records are records of this generation, and   *)
(* its cursor passed none that it has not mirrored.                         *)
ScopeIsClean ==
  \A d \in Devices, r \in Records :
    LET s == slot[d][r] IN
    scope[d].gen = space.gen =>
      /\ s.rrev > 0 =>
           /\ s.rrev <= Len(log)
           /\ log[s.rrev] = [rec |-> r, val |-> s.rval, at |-> s.rat]
      /\ scope[d].boot /\ head[r] <= cursor[d] => s.rrev = head[r]

(* An attempt that a crash, a takeover or another device's publication left *)
(* on a device, and a control request whose answer was lost, are brought to *)
(* an end by the following runs, without the user; and once the space is    *)
(* ready every device joins it and ends with its content, nothing queued.   *)
Joined(d) ==
  /\ scope[d].gen = space.gen
  /\ scope[d].boot
  /\ \A r \in Records :
       LET s == slot[d][r] IN
       /\ s.pend = Outbox!NoEnvelope
       /\ s.fly = Outbox!NoEnvelope
       /\ head[r] > 0 => s.rrev = head[r] /\ s.val = s.rval

Settles ==
  <>[](\A d \in Devices :
         /\ scope[d].local = 0
         /\ scope[d].control = NoOp
         /\ space.backup = "ready" => Joined(d))
=============================================================================
