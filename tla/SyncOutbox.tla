----------------------------- MODULE SyncOutbox -----------------------------
(***************************************************************************)
(* Steady-state cloud sync of one account: SyncRepository's mirrors and    *)
(* two-slot outbox, driven by the serial worker of SyncEngine, against the *)
(* record store of the cloud service.                                      *)
(*                                                                         *)
(* A device keeps, for every record, its local canonical content, the      *)
(* mirror of the newest server record it has observed, a PENDING envelope  *)
(* (the latest edit, still replaceable) and an IN-FLIGHT envelope (a body  *)
(* that may have reached the server and whose result is unknown).  Users   *)
(* edit at any moment, HTTP exchanges are lost or answered late, the       *)
(* worker dies between any two of its transactions, and the session can be *)
(* left and resumed while requests are still on the wire.                  *)
(*                                                                         *)
(* The account is already bootstrapped (an empty account pulls nothing),   *)
(* one sync generation is bound, and its backup is ready.                  *)
(***************************************************************************)
EXTENDS Naturals, Sequences

CONSTANTS
  Devices,    \* installations signed in to the account
  Records,    \* record identities, ordered as the outbox orders them
  Values,     \* payloads, the tombstone among them
  Tombstone,  \* the content of a deleted record
  Absent,     \* "no document": differs from every payload
  MaxTime,    \* bound: edit times and the server clock range over 1..MaxTime
  Skewed,     \* device clocks are unrelated to the server's, or equal to it
  MaxEdits,   \* bound: user edits of each device
  MaxFaults,  \* bound: lost exchanges, dead workers and sign-outs, together
  Lifecycle   \* protocol 2: documents belong to a bound sync generation

ASSUME ConstantsAssumption ==
  /\ Records \subseteq Nat
  /\ Tombstone \in Values
  /\ Absent \notin Values
  /\ MaxTime \in Nat \ {0}
  /\ Skewed \in BOOLEAN
  /\ MaxEdits \in [Devices -> Nat]
  /\ MaxFaults \in Nat
  /\ Lifecycle \in BOOLEAN

VARIABLES
  log,      \* server: every record version committed, at its revision
  head,     \* server: current revision of each record, 0 when it has none
  verdict,  \* server: idempotency store, mutation identity -> first result
  now,      \* server clock
  wire,     \* requests sent and possibly delivered, once or more, at any time
  slot,     \* device database: document, mirror and outbox of each record
  cursor,   \* device database: sync_state.cursor
  active,   \* device: the account is the signed-in one
  pc,       \* device: where the one sync worker stands
  page,     \* device: the pull response in the worker's hands
  batch,    \* device: the envelopes of the push request under way
  edits,    \* bound: edits made so far on each device
  faults    \* bound: faults so far

server == <<log, head, verdict>>
database == <<slot, cursor>>
worker == <<pc, page, batch>>
vars == <<server, now, wire, database, active, worker, edits, faults>>

Times == 1..MaxTime

Phases == {"idle", "pull", "page", "bind", "push", "sent"}

(***************************************************************************)
(* A record version committed by the server, with its revision.            *)
(***************************************************************************)
Published == [rec : Records, val : Values, at : Times]

AsRecord(rev) == [val |-> log[rev].val, at |-> log[rev].at, rev |-> rev]

Mutation == [id : Devices \X Records \X (Nat \ {0}), val : Values, at : Times]

Result == [applied : BOOLEAN, rev : Nat \ {0}]

NoEnvelope == [n |-> 0, val |-> Absent, at |-> 0]

Envelope == [n : Nat \ {0}, val : Values, at : Times]

NoEdit == [val |-> Absent, at |-> 0]

Edit == [val : Values, at : Times]

(***************************************************************************)
(* One row of sync_documents joined with its row of sync_meta.  "dirty" of *)
(* sync_meta is written together with the pending slot and is true exactly *)
(* when the slot is full.  cand is an unbound document of the same record  *)
(* identity that owns the effective business row: content made here that   *)
(* belongs to no account yet.  The identities are those of the singletons  *)
(* (policy, selection), which every device may create on its own; for the  *)
(* other types an identity is a fresh UUID and the two never meet.         *)
(***************************************************************************)
Slot == [val : Values \cup {Absent}, at : Nat, merge : BOOLEAN,
         rval : Values \cup {Absent}, rat : Nat, rrev : Nat,
         pend : Envelope \cup {NoEnvelope}, fly : Envelope \cup {NoEnvelope},
         n : Nat, cand : Edit \cup {NoEdit}]

EmptySlot == [val |-> Absent, at |-> 0, merge |-> FALSE,
              rval |-> Absent, rat |-> 0, rrev |-> 0,
              pend |-> NoEnvelope, fly |-> NoEnvelope,
              n |-> 0, cand |-> NoEdit]

NoPage == [revs |-> {}, next |-> 0, more |-> FALSE]

NoBatch == [r \in Records |-> NoEnvelope]

Dirty(s) == s.pend # NoEnvelope

Bound(s) == s.val # Absent

-----------------------------------------------------------------------------
(***************************************************************************)
(* The repository's transactions on one record.                            *)
(***************************************************************************)

(* A fresh mutation identity takes the pending slot; a frozen body that may *)
(* have been sent keeps the other one.                                      *)
Freeze(s) ==
  [s EXCEPT !.n = @ + 1,
            !.pend = [n |-> s.n + 1, val |-> s.val, at |-> s.at]]

(* A semantically unchanged payload keeps its time and mutation identity.   *)
SaveLocal(s, v, t, enqueue) ==
  LET saved == [s EXCEPT !.val = v, !.at = t, !.merge = Lifecycle]
  IN  IF s.val = v THEN s
      ELSE IF enqueue THEN Freeze(saved)
      ELSE saved

(* Retained content that nothing was ever queued for joins an equal mirror. *)
AlreadyMerged(s, record) ==
  /\ s.merge
  /\ ~Dirty(s)
  /\ s.fly = NoEnvelope
  /\ s.val = record.val

TakesRemote(s, record) ==
  /\ ~s.merge \/ AlreadyMerged(s, record)
  /\ ~(Dirty(s) /\ s.at > record.at)

(* Mutated forms of Observe: a newer local edit hides the record from the   *)
(* mirror; any revision moves the mirror.                                   *)
ObserveUnlessEdited(s, record, applyLocal) ==
  IF s.rrev >= record.rev \/ (applyLocal /\ ~TakesRemote(s, record)) THEN s
  ELSE [s EXCEPT !.rval = record.val, !.rat = record.at, !.rrev = record.rev,
                 !.val = IF applyLocal THEN record.val ELSE @,
                 !.at = IF applyLocal THEN record.at ELSE @,
                 !.merge = IF applyLocal THEN FALSE ELSE @,
                 !.pend = IF applyLocal THEN NoEnvelope ELSE @]

ObserveAnyRevision(s, record, applyLocal) ==
  LET mirrored == [s EXCEPT !.rval = record.val, !.rat = record.at,
                            !.rrev = record.rev]
  IN  IF applyLocal /\ TakesRemote(s, record)
      THEN [mirrored EXCEPT !.val = record.val, !.at = record.at,
                            !.merge = FALSE, !.pend = NoEnvelope]
      ELSE mirrored

(* Observing a server record: an older revision than the mirror is ignored, *)
(* a newer one always moves the mirror and sometimes the local content.     *)
Observe(s, record, applyLocal) ==
  LET mirrored == [s EXCEPT !.rval = record.val, !.rat = record.at,
                            !.rrev = record.rev]
  IN  IF s.rrev >= record.rev THEN s
      ELSE IF applyLocal /\ TakesRemote(s, record)
      THEN [mirrored EXCEPT !.val = record.val, !.at = record.at,
                            !.merge = FALSE, !.pend = NoEnvelope]
      ELSE mirrored

(* Mutated form of ResultRecord: the time that was asked for is mirrored    *)
(* instead of the time the server granted.                                  *)
ResultAtSentTime(sent, result) ==
  IF result.applied
  THEN [val |-> sent.val, at |-> sent.at, rev |-> result.rev]
  ELSE AsRecord(result.rev)

(* The record a result stands for: the sent body at its effective time, or  *)
(* the winner the server recorded when it first ruled.                      *)
ResultRecord(sent, result) ==
  IF result.applied
  THEN [val |-> sent.val, at |-> log[result.rev].at, rev |-> result.rev]
  ELSE AsRecord(result.rev)

(* Mutated form of Acknowledge: every result settles the record, later      *)
(* edits included.                                                          *)
AcknowledgeAlways(s, sent, result) ==
  LET seen == Observe(s, ResultRecord(sent, result), FALSE)
  IN  [seen EXCEPT !.val = seen.rval, !.at = seen.rat, !.merge = FALSE,
                   !.pend = NoEnvelope, !.fly = NoEnvelope]

(* An acknowledged result: only the slot that was sent is cleared, and the  *)
(* mirror becomes local content unless a later edit is waiting.             *)
Acknowledge(s, sent, result) ==
  LET wasCurrent == s.pend.n = sent.n
      seen       == Observe(s, ResultRecord(sent, result), FALSE)
      settled    == IF wasCurrent \/ ~Dirty(s)
                    THEN [seen EXCEPT !.val = seen.rval, !.at = seen.rat,
                                      !.merge = FALSE]
                    ELSE seen
  IN  [settled EXCEPT !.pend = IF wasCurrent THEN NoEnvelope ELSE @,
                      !.fly = IF s.fly.n = sent.n THEN NoEnvelope ELSE @]

(* Mutated form of Reconcile: a record that is already queued is not looked *)
(* at again.                                                                *)
ReconcileClean(s) ==
  IF Bound(s) /\ ~Dirty(s) /\ s.rval # s.val THEN Freeze(s) ELSE s

(* Queue what differs from the last thing queued, or else from the mirror.  *)
Reconcile(s) ==
  LET queued   == IF Dirty(s) THEN s.pend.val ELSE s.rval
      untouched == Lifecycle /\ ~Dirty(s) /\ s.rrev = 0 /\ ~s.merge
  IN  IF Bound(s) /\ ~untouched /\ queued # s.val THEN Freeze(s) ELSE s

(* Binding an unbound candidate: a new document, or an edit of the existing *)
(* document when the candidate is strictly newer.                           *)
Bind(s) ==
  LET bound == [s EXCEPT !.val = s.cand.val, !.at = s.cand.at,
                         !.merge = Lifecycle, !.cand = NoEdit]
      freed == [s EXCEPT !.cand = NoEdit]
  IN  IF s.cand = NoEdit THEN s
      ELSE IF ~Bound(s) THEN Freeze(bound)
      ELSE IF s.cand.at > s.at THEN SaveLocal(freed, s.cand.val, s.cand.at, TRUE)
      ELSE freed

(* Projecting a document writes its content into the business row and makes *)
(* the document its owner; a candidate without the row is never bound.      *)
Project(s) ==
  IF /\ s.rrev > 0
     /\ ~s.merge
     /\ ~(Dirty(s) /\ s.at > s.rat)
     /\ s.val # Tombstone
  THEN [s EXCEPT !.cand = NoEdit]
  ELSE s

-----------------------------------------------------------------------------
Init ==
  /\ log = <<>>
  /\ head = [r \in Records |-> 0]
  /\ verdict = [id \in {} |-> [applied |-> TRUE, rev |-> 0]]
  /\ now = 1
  /\ wire = {}
  /\ slot = [d \in Devices |-> [r \in Records |-> EmptySlot]]
  /\ cursor = [d \in Devices |-> 0]
  /\ active = [d \in Devices |-> TRUE]
  /\ pc = [d \in Devices |-> "idle"]
  /\ page = [d \in Devices |-> NoPage]
  /\ batch = [d \in Devices |-> NoBatch]
  /\ edits = [d \in Devices |-> 0]
  /\ faults = 0

(***************************************************************************)
(* The user saves or deletes content at time t of the device's own clock,  *)
(* which may be wrong and may be set back between two edits.               *)
(***************************************************************************)
DeviceClock == IF Skewed THEN Times ELSE {now}

EditSlot(d, r, s) ==
  /\ edits[d] < MaxEdits[d]
  /\ edits' = [edits EXCEPT ![d] = @ + 1]
  /\ slot' = [slot EXCEPT ![d][r] = s]
  /\ UNCHANGED <<server, now, wire, cursor, active, worker, faults>>

(* The row a document of the account owns, or would own: a deleted record   *)
(* has no row, and only the signed-in account claims the next one.          *)
OwnsRow(d, s) ==
  /\ s.cand = NoEdit
  /\ Bound(s)
  /\ active[d] \/ s.val # Tombstone

(* An edit of the account's document is queued at once only while that      *)
(* account is signed in.                                                    *)
EditBound(d, r, v, t) ==
  /\ OwnsRow(d, slot[d][r])
  /\ EditSlot(d, r, SaveLocal(slot[d][r], v, t, active[d]))

(* Content of no account stays an unbound candidate.                        *)
EditUnbound(d, r, v, t) ==
  LET s == slot[d][r] IN
  /\ ~OwnsRow(d, s)
  /\ IF v = Tombstone
     THEN s.cand # NoEdit /\ EditSlot(d, r, [s EXCEPT !.cand = NoEdit])
     ELSE EditSlot(d, r, [s EXCEPT !.cand = [val |-> v, at |-> t]])

(***************************************************************************)
(* The worker.  A run is one pass of SyncEngine._run; every step between   *)
(* two awaits is a step here, every repository transaction one action.     *)
(***************************************************************************)
StartRun(d) ==
  /\ pc[d] = "idle"
  /\ active[d]
  /\ slot' = [slot EXCEPT ![d] = [r \in Records |-> Reconcile(slot[d][r])]]
  /\ pc' = [pc EXCEPT ![d] = "pull"]
  /\ UNCHANGED <<server, now, wire, cursor, active, page, batch, edits, faults>>

(* What the server still owes a reader at this cursor.                      *)
Owed(d) == {head[r] : r \in {q \in Records : head[q] > cursor[d]}}

(* Mutated form of PageCursor: the account's highest revision.              *)
PageCursorAtHead(d) == Len(log)

(* nextCursor of a page: the last revision it returns.                      *)
PageCursor(d) == page[d].next

(* The server answers with the lowest of the current records; the byte and  *)
(* count budgets cut the page after any of them.                            *)
PullPage(d) ==
  /\ pc[d] = "pull"
  /\ \E next \in IF Owed(d) = {} THEN {cursor[d]} ELSE Owed(d) :
       page' = [page EXCEPT ![d] =
                  [revs |-> {k \in Owed(d) : k <= next},
                   next |-> next,
                   more |-> \E k \in Owed(d) : k > next]]
  /\ pc' = [pc EXCEPT ![d] = "page"]
  /\ UNCHANGED <<server, now, wire, database, active, batch, edits, faults>>

(* Records, mirrors, cursor and projected rows are committed together.      *)
CommitPullPage(d) ==
  /\ pc[d] = "page"
  /\ slot' = [slot EXCEPT ![d] =
       [r \in Records |->
          IF \E k \in page[d].revs : log[k].rec = r
          THEN LET k == CHOOSE k \in page[d].revs : log[k].rec = r
               IN  Project(Observe(slot[d][r], AsRecord(k), TRUE))
          ELSE Project(slot[d][r])]]
  /\ cursor' = [cursor EXCEPT ![d] = PageCursor(d)]
  /\ pc' = [pc EXCEPT ![d] = IF page[d].more THEN "pull" ELSE "bind"]
  /\ page' = [page EXCEPT ![d] = NoPage]
  /\ UNCHANGED <<server, now, wire, active, batch, edits, faults>>

CompleteBootstrap(d) ==
  /\ pc[d] = "bind"
  /\ slot' = [slot EXCEPT ![d] = [r \in Records |-> Project(Bind(slot[d][r]))]]
  /\ pc' = [pc EXCEPT ![d] = "push"]
  /\ UNCHANGED <<server, now, wire, cursor, active, page, batch, edits, faults>>

(* Unknown results are resent first and alone; only then fresh edits.       *)
Unresolved(d) == {r \in Records : slot[d][r].fly # NoEnvelope}

Selected(d) ==
  IF Unresolved(d) # {} THEN Unresolved(d)
  ELSE {r \in Records : Dirty(slot[d][r])}

(* Mutated form of Outgoing: the newest body takes the request.             *)
OutgoingNewest(s) == IF Dirty(s) THEN s.pend ELSE s.fly

Outgoing(s) == IF s.fly # NoEnvelope THEN s.fly ELSE s.pend

IsPrefix(part, whole) ==
  /\ part \subseteq whole
  /\ \A r \in part, q \in whole : q < r => q \in part

(* The transaction that seals the in-flight slots, and the request it is    *)
(* for: a worker that dies in between has sent a request nobody answers.    *)
PreparePush(d) ==
  /\ pc[d] = "push"
  /\ Selected(d) # {}
  /\ \E sent \in SUBSET Selected(d) :
       /\ sent # {}
       /\ IsPrefix(sent, Selected(d))
       /\ batch' = [batch EXCEPT ![d] =
            [r \in Records |-> IF r \in sent THEN Outgoing(slot[d][r])
                               ELSE NoEnvelope]]
       /\ slot' = [slot EXCEPT ![d] =
            [r \in Records |->
               IF r \in sent
               THEN [slot[d][r] EXCEPT !.fly = Outgoing(slot[d][r])]
               ELSE slot[d][r]]]
       /\ wire' = wire \cup
            {[id |-> <<d, r, Outgoing(slot[d][r]).n>>,
              val |-> Outgoing(slot[d][r]).val,
              at |-> Outgoing(slot[d][r]).at] : r \in sent}
  /\ pc' = [pc EXCEPT ![d] = "sent"]
  /\ UNCHANGED <<server, now, cursor, active, page, edits, faults>>

(* Nothing left to send: the run ends in success.                           *)
FinishRun(d) ==
  /\ pc[d] = "push"
  /\ Selected(d) = {}
  /\ pc' = [pc EXCEPT ![d] = "idle"]
  /\ UNCHANGED <<server, now, wire, database, active, page, batch, edits, faults>>

InBatch(d) == {r \in Records : batch[d][r] # NoEnvelope}

Identity(d, r) == <<d, r, batch[d][r].n>>

(* The response covers a processed prefix; each of its results is applied   *)
(* in the same transaction, and the next round resends the rest.            *)
CommitPushPrefix(d) ==
  /\ pc[d] = "sent"
  /\ \E done \in SUBSET InBatch(d) :
       /\ done # {}
       /\ IsPrefix(done, InBatch(d))
       /\ \A r \in done : Identity(d, r) \in DOMAIN verdict
       /\ slot' = [slot EXCEPT ![d] =
            [r \in Records |->
               Project(IF r \in done
                       THEN Acknowledge(slot[d][r], batch[d][r],
                                        verdict[Identity(d, r)])
                       ELSE slot[d][r])]]
  /\ pc' = [pc EXCEPT ![d] = "push"]
  /\ batch' = [batch EXCEPT ![d] = NoBatch]
  /\ UNCHANGED <<server, now, wire, cursor, active, page, edits, faults>>

(***************************************************************************)
(* Faults.  An exchange that fails or is never answered, and a process     *)
(* that dies, both leave the database and the wire as they are.            *)
(***************************************************************************)
StopWorker(d) ==
  /\ pc' = [pc EXCEPT ![d] = "idle"]
  /\ page' = [page EXCEPT ![d] = NoPage]
  /\ batch' = [batch EXCEPT ![d] = NoBatch]

FailRun(d) ==
  /\ pc[d] # "idle"
  /\ faults < MaxFaults
  /\ faults' = faults + 1
  /\ StopWorker(d)
  /\ UNCHANGED <<server, now, wire, database, active, edits>>

(* Leaving the session moves the worker's epoch: whatever the run had in    *)
(* hand is refused by the identity guard of its next transaction.           *)
SignOut(d) ==
  /\ active[d]
  /\ faults < MaxFaults
  /\ faults' = faults + 1
  /\ active' = [active EXCEPT ![d] = FALSE]
  /\ StopWorker(d)
  /\ UNCHANGED <<server, now, wire, database, edits>>

SignIn(d) ==
  /\ ~active[d]
  /\ active' = [active EXCEPT ![d] = TRUE]
  /\ UNCHANGED <<server, now, wire, database, worker, edits, faults>>

(***************************************************************************)
(* The cloud service (SYNC_PROTOCOL 5 to 7): one transaction per mutation, *)
(* the effective time never exceeds the server clock, a record is replaced *)
(* only by a strictly later edit, and a mutation identity that was ruled   *)
(* on before is answered from the stored result.                           *)
(***************************************************************************)
EffectiveTime(m) == IF m.at < now THEN m.at ELSE now

Wins(m, r) == head[r] > 0 => EffectiveTime(m) > log[head[r]].at

Decide(m, result) ==
  verdict' = [id \in DOMAIN verdict \cup {m.id} |->
                IF id = m.id THEN result ELSE verdict[id]]

ApplyMutation(m) ==
  LET r == m.id[2] IN
  /\ m.id \notin DOMAIN verdict
  /\ Wins(m, r)
  /\ log' = Append(log, [rec |-> r, val |-> m.val, at |-> EffectiveTime(m)])
  /\ head' = [head EXCEPT ![r] = Len(log) + 1]
  /\ Decide(m, [applied |-> TRUE, rev |-> Len(log) + 1])
  /\ UNCHANGED <<now, wire, database, active, worker, edits, faults>>

SupersedeMutation(m) ==
  LET r == m.id[2] IN
  /\ m.id \notin DOMAIN verdict
  /\ ~Wins(m, r)
  /\ Decide(m, [applied |-> FALSE, rev |-> head[r]])
  /\ UNCHANGED <<log, head, now, wire, database, active, worker, edits, faults>>

Tick ==
  /\ now < MaxTime
  /\ now' = now + 1
  /\ UNCHANGED <<server, wire, database, active, worker, edits, faults>>

-----------------------------------------------------------------------------
UserNext(d) ==
  \E r \in Records, v \in Values, t \in DeviceClock :
    EditBound(d, r, v, t) \/ EditUnbound(d, r, v, t)

WorkerNext(d) ==
  \/ StartRun(d)
  \/ PullPage(d)
  \/ CommitPullPage(d)
  \/ CompleteBootstrap(d)
  \/ PreparePush(d)
  \/ FinishRun(d)
  \/ CommitPushPrefix(d)

SessionNext(d) == FailRun(d) \/ SignOut(d) \/ SignIn(d)

ServerNext ==
  \/ \E m \in wire : ApplyMutation(m) \/ SupersedeMutation(m)
  \/ Tick

Next ==
  \/ \E d \in Devices : UserNext(d) \/ WorkerNext(d) \/ SessionNext(d)
  \/ ServerNext

Spec == Init /\ [][Next]_vars

(***************************************************************************)
(* The periodic, edit and retry triggers keep starting runs on a device    *)
(* that is signed in, and a reachable service answers what it received.    *)
(* Users, sign-ins and the clock owe nothing.                              *)
(***************************************************************************)
Fairness ==
  /\ \A d \in Devices : WF_vars(WorkerNext(d))
  /\ WF_vars(\E m \in wire : ApplyMutation(m) \/ SupersedeMutation(m))

FairSpec == Spec /\ Fairness

-----------------------------------------------------------------------------
(***************************************************************************)
(* Properties.                                                             *)
(***************************************************************************)

(* The shape of every variable.                                             *)
TypeOK ==
  /\ log \in Seq(Published)
  /\ head \in [Records -> Nat]
  /\ DOMAIN verdict \subseteq Devices \X Records \X (Nat \ {0})
  /\ \A id \in DOMAIN verdict : verdict[id] \in Result
  /\ now \in Times
  /\ wire \subseteq Mutation
  /\ slot \in [Devices -> [Records -> Slot]]
  /\ cursor \in [Devices -> Nat]
  /\ active \in [Devices -> BOOLEAN]
  /\ pc \in [Devices -> Phases]
  /\ page \in [Devices -> [revs : SUBSET Nat, next : Nat, more : BOOLEAN]]
  /\ batch \in [Devices -> [Records -> Envelope \cup {NoEnvelope}]]
  /\ edits \in [Devices -> Nat]
  /\ faults \in Nat

(* A mirror is the server's own record at its revision, even when it was    *)
(* rebuilt on the device from the body it sent and the result that came     *)
(* back: after lost answers, resends and later edits of the same record.    *)
MirrorIsPublished ==
  \A d \in Devices, r \in Records :
    LET s == slot[d][r] IN
    s.rrev > 0 =>
      /\ s.rrev <= Len(log)
      /\ log[s.rrev] = [rec |-> r, val |-> s.rval, at |-> s.rat]

(* The cursor never passes a record the device has not mirrored: records    *)
(* that move between pages, pages cut anywhere and results that arrive      *)
(* before the pull of the same revision leave no hole behind the cursor.    *)
CursorLeavesNoHole ==
  \A d \in Devices, r \in Records :
    head[r] <= cursor[d] => slot[d][r].rrev = head[r]

(* A request whose result is unknown is never forgotten: as long as the     *)
(* server could still rule on it for the first time, its device holds the   *)
(* very body it sent in the in-flight slot, whatever was edited, pulled,    *)
(* lost or restarted meanwhile.  So a device never has two unresolved       *)
(* versions of one record, and never resends an identity with another body. *)
UnknownResultIsHeld ==
  \A m \in wire :
    m.id \notin DOMAIN verdict =>
      slot[m.id[1]][m.id[2]].fly = [n |-> m.id[3], val |-> m.val, at |-> m.at]

(* While a run is under way, content that differs from its mirror is queued *)
(* with exactly that content, or retained for an explicit merge: the worker *)
(* cannot reach its push loop with an edit it does not know of.             *)
RunKnowsEveryEdit ==
  \A d \in Devices, r \in Records :
    LET s == slot[d][r] IN
    pc[d] # "idle" /\ Bound(s) =>
      /\ Dirty(s) => s.pend.val = s.val
      /\ s.val # s.rval => Dirty(s) \/ s.merge

(* Retained content that nothing is queued for.  A run begins with such an  *)
(* edit when it undid another one while signed out (Reconcile).             *)
Unqueued(s) == s.merge /\ ~Dirty(s)

(* Content of the account's document changes without the user only by       *)
(* taking the newest mirror, and only when the content was not an edit of   *)
(* its own, or is not newer than the mirror, or the server has ruled on it, *)
(* or, if nothing was queued for it, on the version it followed; or else a  *)
(* strictly newer candidate of this device replaces it.                     *)
EditYieldsOnlyToAVerdict ==
  [][\A d \in Devices, r \in Records :
       LET s == slot[d][r]
           t == slot'[d][r]
       IN  Bound(s) /\ t.val # s.val /\ edits' = edits =>
             \/ /\ t.val = t.rval
                /\ t.at = t.rat
                /\ \/ s.val = s.rval
                   \/ s.at <= t.at
                   \/ /\ s.pend.val = s.val
                      /\ <<d, r, s.pend.n>> \in DOMAIN verdict
                   \/ Unqueued(s) /\ <<d, r, s.fly.n>> \in DOMAIN verdict
             \/ t.val = s.cand.val /\ s.cand.at > s.at]_vars

(* Nothing a device observes takes it back: neither a replayed old result   *)
(* nor a page read before a push moves a mirror to an earlier revision or a *)
(* cursor to an earlier position.                                           *)
NothingRegresses ==
  [][\A d \in Devices :
       /\ cursor'[d] >= cursor[d]
       /\ \A r \in Records : slot'[d][r].rrev >= slot[d][r].rrev]_vars

(* When the users, the faults and the sign-outs stop, every signed-in       *)
(* device ends with nothing queued and with the server's current content of *)
(* every record, whatever the clocks said, a clock far ahead included.      *)
InSync(d, r) ==
  LET s == slot[d][r] IN
  /\ s.pend = NoEnvelope
  /\ s.fly = NoEnvelope
  /\ s.cand = NoEdit
  /\ s.rrev = head[r]
  /\ s.val = s.rval

Converges ==
  <>[](\A d \in Devices : active[d] => \A r \in Records : InSync(d, r))
=============================================================================
