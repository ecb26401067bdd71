-------------------------- MODULE SyncOutboxProofs --------------------------
(***************************************************************************)
(* The theorems of SyncOutbox, for every value of its constants.           *)
(*                                                                         *)
(* First what every step does to the slots: lemmas on the repository's     *)
(* transactions, the inductive form of type correctness, and a             *)
(* classification of the steps.  The invariant is then built in layers:    *)
(* types, requests and their identities, the record store, the mirrors and *)
(* the cursor, then what becomes of an edit: a run knows every one,        *)
(* and content yields only to the newest mirror, a verdict or a newer      *)
(* candidate.  Each layer is preserved given the ones below it.            *)
(***************************************************************************)
EXTENDS SyncOutbox, TLAPS

(* The values an outbox slot takes: full or empty.                          *)
Envelopes == Envelope \cup {NoEnvelope}

(* A slot of its type in which content and mirror are payloads with a       *)
(* time, and the pending envelope is the newest one frozen.                 *)
GoodSlot(s) ==
  /\ s \in Slot
  /\ Bound(s) => s.at \in Times
  /\ s.rrev > 0 => s.rval \in Values /\ s.rat \in Times
  /\ Dirty(s) => s.pend.n = s.n

(* The mirror of a record did not move.                                     *)
SameMirror(s, t) == t.rval = s.rval /\ t.rat = s.rat /\ t.rrev = s.rrev

(* At most one envelope was frozen, or the pending one was dropped.         *)
Queued(s, t) ==
  \/ t.n = s.n /\ t.pend \in {s.pend, NoEnvelope}
  \/ t.n = s.n + 1 /\ t.pend.n = t.n /\ t.pend # NoEnvelope

(* A device's own transaction: neither the mirror nor the in-flight slot    *)
(* moves.                                                                   *)
Local(s, t) == SameMirror(s, t) /\ t.fly = s.fly /\ Queued(s, t)

(* An empty outbox slot is told from a full one by its number.              *)
LEMMA EnvelopeFacts ==
  /\ NoEnvelope \notin Envelope
  /\ \A e \in Envelopes : e # NoEnvelope => e.n \in Nat \ {0}
  /\ NoEnvelope.n = 0
BY DEF Envelope, Envelopes, NoEnvelope

(* Freezing keeps a slot well formed and touches only the pending           *)
(* envelope.                                                                *)
LEMMA FreezeGood ==
  ASSUME NEW s, GoodSlot(s), Bound(s), NEW t, t = Freeze(s)
  PROVE  /\ GoodSlot(t)
         /\ Local(s, t)
<1> DEFINE e == [n |-> s.n + 1, val |-> s.val, at |-> s.at]
           w == s.n + 1
<1>1. s.n \in Nat /\ s.val \in Values /\ s.at \in Times /\ s \in Slot
  BY DEF GoodSlot, Slot, Bound
<1>2. e \in Envelope /\ e.n = w
  BY <1>1 DEF Envelope
<1>3. e \in Envelopes /\ e # NoEnvelope /\ w \in Nat
  BY <1>1, <1>2, EnvelopeFacts DEF Envelopes
<1>4. t = [s EXCEPT !.n = w, !.pend = e]
  BY DEF Freeze
<1> HIDE DEF e
<1>5. /\ t \in Slot
      /\ t.n = w /\ t.pend = e
      /\ t.val = s.val /\ t.at = s.at
      /\ t.fly = s.fly /\ SameMirror(s, t)
  <2> HIDE DEF w
  <2> QED
    BY <1>1, <1>3, <1>4 DEF Slot, Envelopes, SameMirror
<1>6. GoodSlot(t)
  BY <1>1, <1>2, <1>3, <1>5 DEF GoodSlot, Bound, Dirty, SameMirror
<1> QED
  BY <1>2, <1>3, <1>5, <1>6 DEF Local, Queued

(* Saving an edit is a local transaction, queued or not.                    *)
LEMMA SaveLocalGood ==
  ASSUME NEW s, GoodSlot(s), NEW v \in Values, NEW a \in Times,
         NEW b \in BOOLEAN, NEW t, t = SaveLocal(s, v, a, b)
  PROVE  GoodSlot(t) /\ Local(s, t)
<1> DEFINE saved == [s EXCEPT !.val = v, !.at = a, !.merge = Lifecycle]
<1>1. s \in Slot /\ Lifecycle \in BOOLEAN /\ a \in Nat /\ v # Absent
  BY ConstantsAssumption DEF GoodSlot, Times
<1>2. /\ saved \in Slot
      /\ saved.val = v /\ saved.at = a
      /\ SameMirror(s, saved)
      /\ saved.pend = s.pend /\ saved.fly = s.fly /\ saved.n = s.n
  BY <1>1 DEF Slot, SameMirror
<1> HIDE DEF saved
<1>3. GoodSlot(saved) /\ Bound(saved)
  BY <1>1, <1>2 DEF GoodSlot, Bound, Dirty, SameMirror
<1>4. t = s \/ t = Freeze(saved) \/ t = saved
  BY DEF SaveLocal, saved
<1>5. Local(s, s) /\ Local(s, saved)
  BY <1>2 DEF Local, SameMirror, Queued
<1>6. ASSUME t = Freeze(saved) PROVE GoodSlot(t) /\ Local(s, t)
  <2>1. GoodSlot(t) /\ Local(saved, t)
    BY <1>3, <1>6, FreezeGood
  <2> QED
    BY <1>2, <2>1 DEF Local, SameMirror, Queued
<1> QED
  BY <1>3, <1>4, <1>5, <1>6

(* Queueing what differs from the mirror is a local transaction.            *)
LEMMA ReconcileGood ==
  ASSUME NEW s, GoodSlot(s), NEW t, t = Reconcile(s)
  PROVE  GoodSlot(t) /\ Local(s, t)
<1>1. t = s \/ (Bound(s) /\ t = Freeze(s))
  BY DEF Reconcile
<1>2. Local(s, s)
  BY DEF Local, SameMirror, Queued
<1> QED
  BY <1>1, <1>2, FreezeGood

(* Making, replacing or dropping an unbound candidate is a local            *)
(* transaction that queues nothing.                                         *)
LEMMA CandidateGood ==
  ASSUME NEW s, GoodSlot(s), NEW c \in Edit \cup {NoEdit},
         NEW t, t = [s EXCEPT !.cand = c]
  PROVE  GoodSlot(t) /\ Local(s, t) /\ t.pend = s.pend /\ t.n = s.n
<1>1. /\ t \in Slot
      /\ t.val = s.val /\ t.at = s.at /\ SameMirror(s, t)
      /\ t.pend = s.pend /\ t.fly = s.fly /\ t.n = s.n
  BY DEF GoodSlot, Slot, SameMirror
<1> QED
  BY <1>1 DEF GoodSlot, Local, Queued, SameMirror, Bound, Dirty

(* Projecting a document into its business row queues nothing.              *)
LEMMA ProjectGood ==
  ASSUME NEW s, GoodSlot(s), NEW t, t = Project(s)
  PROVE  GoodSlot(t) /\ Local(s, t) /\ t.pend = s.pend /\ t.n = s.n
<1>1. t = s \/ t = [s EXCEPT !.cand = NoEdit]
  BY DEF Project
<1>2. Local(s, s)
  BY DEF Local, SameMirror, Queued
<1> QED
  BY <1>1, <1>2, CandidateGood

(* Binding a candidate is a local transaction, whichever branch it takes.   *)
LEMMA BindGood ==
  ASSUME NEW s, GoodSlot(s), NEW t, t = Bind(s)
  PROVE  GoodSlot(t) /\ Local(s, t)
<1> DEFINE bound == [s EXCEPT !.val = s.cand.val, !.at = s.cand.at,
                              !.merge = Lifecycle, !.cand = NoEdit]
           freed == [s EXCEPT !.cand = NoEdit]
<1>1. Local(s, s)
  BY DEF Local, SameMirror, Queued
<1>2. CASE s.cand = NoEdit
  BY <1>1, <1>2 DEF Bind
<1>3. CASE s.cand # NoEdit
  <2>1. s \in Slot /\ Lifecycle \in BOOLEAN /\ s.cand \in Edit
    BY <1>3, ConstantsAssumption DEF GoodSlot, Slot
  <2>2. /\ s.cand.val \in Values /\ s.cand.val # Absent
        /\ s.cand.at \in Times /\ s.cand.at \in Nat
    BY <2>1, ConstantsAssumption DEF Edit, Times
  <2>3. GoodSlot(freed) /\ Local(s, freed) /\ freed.pend = s.pend /\ freed.n = s.n
    BY CandidateGood
  <2>4. /\ bound \in Slot
        /\ bound.val = s.cand.val /\ bound.at = s.cand.at
        /\ SameMirror(s, bound)
        /\ bound.pend = s.pend /\ bound.fly = s.fly /\ bound.n = s.n
    BY <2>1, <2>2 DEF Slot, SameMirror
  <2> HIDE DEF bound, freed
  <2>5. GoodSlot(bound) /\ Bound(bound)
    BY <2>2, <2>4 DEF GoodSlot, Bound, Dirty, SameMirror
  <2>6. \/ t = Freeze(bound)
        \/ t = SaveLocal(freed, s.cand.val, s.cand.at, TRUE)
        \/ t = freed
    BY <1>3 DEF Bind, bound, freed
  <2>7. ASSUME t = Freeze(bound) PROVE GoodSlot(t) /\ Local(s, t)
    <3>1. GoodSlot(t) /\ Local(bound, t)
      BY <2>5, <2>7, FreezeGood
    <3> QED
      BY <2>4, <3>1 DEF Local, SameMirror, Queued
  <2>8. ASSUME t = SaveLocal(freed, s.cand.val, s.cand.at, TRUE)
        PROVE  GoodSlot(t) /\ Local(s, t)
    <3>1. GoodSlot(t) /\ Local(freed, t)
      BY <2>2, <2>3, <2>8, SaveLocalGood
    <3> QED
      BY <2>3, <3>1 DEF Local, SameMirror, Queued
  <2> QED
    BY <2>3, <2>6, <2>7, <2>8
<1> QED
  BY <1>2, <1>3

(* A server record as the wire carries it.                                  *)
Record == [val : Values, at : Times, rev : Nat \ {0}]

(* Observing a record moves the mirror to it, unless the mirror is at       *)
(* least as new.                                                            *)
Observed(s, t, record) ==
  IF s.rrev >= record.rev THEN SameMirror(s, t)
  ELSE t.rval = record.val /\ t.rat = record.at /\ t.rrev = record.rev

(* Observing a record keeps the slot well formed, leaves the in-flight      *)
(* envelope alone and at most drops the pending one.                        *)
LEMMA ObserveGood ==
  ASSUME NEW s, GoodSlot(s), NEW record \in Record, NEW b \in BOOLEAN,
         NEW t, t = Observe(s, record, b)
  PROVE  /\ GoodSlot(t) /\ Observed(s, t, record)
         /\ t.fly = s.fly /\ t.n = s.n
         /\ t.pend \in {s.pend, NoEnvelope}
<1> DEFINE mirrored == [s EXCEPT !.rval = record.val, !.rat = record.at,
                                 !.rrev = record.rev]
           taken == [mirrored EXCEPT !.val = record.val, !.at = record.at,
                                     !.merge = FALSE, !.pend = NoEnvelope]
<1>1. /\ s \in Slot
      /\ record.val \in Values /\ record.at \in Times /\ record.rev \in Nat \ {0}
      /\ record.at \in Nat /\ record.val # Absent /\ s.rrev \in Nat
  BY ConstantsAssumption DEF GoodSlot, Record, Times, Slot
<1>2. /\ mirrored \in Slot
      /\ mirrored.rval = record.val /\ mirrored.rat = record.at
      /\ mirrored.rrev = record.rev
      /\ mirrored.val = s.val /\ mirrored.at = s.at
      /\ mirrored.pend = s.pend /\ mirrored.fly = s.fly /\ mirrored.n = s.n
  BY <1>1 DEF Slot
<1> HIDE DEF mirrored
<1>3. /\ taken \in Slot
      /\ taken.rval = record.val /\ taken.rat = record.at
      /\ taken.rrev = record.rev
      /\ taken.val = record.val /\ taken.at = record.at
      /\ taken.pend = NoEnvelope /\ taken.fly = s.fly /\ taken.n = s.n
  BY <1>1, <1>2 DEF Slot
<1> HIDE DEF taken
<1>4. GoodSlot(mirrored)
  BY <1>1, <1>2 DEF GoodSlot, Bound, Dirty
<1>5. GoodSlot(taken)
  BY <1>1, <1>3 DEF GoodSlot, Bound, Dirty
<1>6. IF s.rrev >= record.rev THEN t = s
      ELSE t = mirrored \/ (b /\ t = taken)
  BY DEF Observe, taken, mirrored
<1> QED
  BY <1>1, <1>2, <1>3, <1>4, <1>5, <1>6 DEF Observed, SameMirror

(* Observing a record as a mirror only leaves content and outbox alone.     *)
LEMMA MirrorKeepsContent ==
  ASSUME NEW s \in Slot, NEW record, NEW t, t = Observe(s, record, FALSE)
  PROVE  t.pend = s.pend /\ t.val = s.val /\ t.at = s.at
<1> DEFINE v == record.val
           a == record.at
           k == record.rev
           mirrored == [s EXCEPT !.rval = v, !.rat = a, !.rrev = k]
<1>1. t = s \/ t = mirrored
  BY DEF Observe
<1> HIDE DEF v, a, k
<1> QED
  BY <1>1 DEF Slot

(* Acknowledging a result observes the record it stands for and clears      *)
(* exactly the envelopes that carry the number that was sent.               *)
LEMMA AcknowledgeGood ==
  ASSUME NEW s, GoodSlot(s), NEW sent \in Envelope, NEW result \in Result,
         ResultRecord(sent, result) \in Record,
         NEW t, t = Acknowledge(s, sent, result)
  PROVE  /\ GoodSlot(t) /\ Observed(s, t, ResultRecord(sent, result))
         /\ t.n = s.n
         /\ t.pend = IF s.pend.n = sent.n THEN NoEnvelope ELSE s.pend
         /\ t.fly = IF s.fly.n = sent.n THEN NoEnvelope ELSE s.fly
<1> DEFINE record == ResultRecord(sent, result)
           seen == Observe(s, record, FALSE)
           settled == [seen EXCEPT !.val = seen.rval, !.at = seen.rat,
                                   !.merge = FALSE]
           base == IF s.pend.n = sent.n \/ ~Dirty(s) THEN settled ELSE seen
           p == IF s.pend.n = sent.n THEN NoEnvelope ELSE s.pend
           f == IF s.fly.n = sent.n THEN NoEnvelope ELSE s.fly
<1> HIDE DEF record
<1>0. /\ record \in Record /\ record.rev \in Nat \ {0}
      /\ s \in Slot /\ s.rrev \in Nat
  BY DEF record, Record, GoodSlot, Slot
<1>1. /\ GoodSlot(seen) /\ Observed(s, seen, record)
      /\ seen.fly = s.fly /\ seen.n = s.n /\ seen.pend = s.pend
      /\ seen.val = s.val /\ seen.at = s.at
  <2>1. seen = Observe(s, record, FALSE)
    OBVIOUS
  <2> HIDE DEF seen
  <2> QED
    <3>1. GoodSlot(seen) /\ Observed(s, seen, record) /\ seen.fly = s.fly /\ seen.n = s.n
      BY <2>1, <1>0, ObserveGood
    <3>2. seen.pend = s.pend /\ seen.val = s.val /\ seen.at = s.at
      BY <2>1, <1>0, MirrorKeepsContent
    <3> QED BY <3>1, <3>2
<1> HIDE DEF seen
<1>2. /\ seen.rrev > 0 /\ seen.rval \in Values /\ seen.rat \in Times
      /\ seen \in Slot /\ seen.rval # Absent /\ seen.rat \in Nat
  <2>1. seen.rrev > 0 /\ seen \in Slot
    BY <1>0, <1>1 DEF Observed, SameMirror, GoodSlot
  <2> QED
    BY <1>1, <2>1, ConstantsAssumption DEF GoodSlot, Times
<1>3. /\ settled \in Slot
      /\ settled.val = seen.rval /\ settled.at = seen.rat
      /\ SameMirror(seen, settled)
      /\ settled.pend = s.pend /\ settled.fly = s.fly /\ settled.n = s.n
  BY <1>1, <1>2 DEF Slot, SameMirror
<1> HIDE DEF settled
<1>4. /\ base \in Slot
      /\ Bound(base) => base.at \in Times
      /\ SameMirror(seen, base)
      /\ base.pend = s.pend /\ base.fly = s.fly /\ base.n = s.n
  BY <1>1, <1>2, <1>3 DEF GoodSlot, Bound, SameMirror
<1> HIDE DEF base
<1>5. p \in Envelopes /\ f \in Envelopes
  BY <1>0 DEF Slot, Envelopes
<1>6. t = [base EXCEPT !.pend = p, !.fly = f]
  <2>1. t = [base EXCEPT !.pend = IF s.pend.n = sent.n THEN NoEnvelope ELSE @,
                         !.fly = IF s.fly.n = sent.n THEN NoEnvelope ELSE @]
    BY DEF Acknowledge, base, settled, seen, record
  <2> QED
    BY <1>4, <2>1 DEF Slot
<1>7. p = IF s.pend.n = sent.n THEN NoEnvelope ELSE s.pend
  OBVIOUS
<1>8. f = IF s.fly.n = sent.n THEN NoEnvelope ELSE s.fly
  OBVIOUS
<1> HIDE DEF p, f
<1>9. /\ t \in Slot
      /\ t.pend = p /\ t.fly = f
      /\ t.val = base.val /\ t.at = base.at
      /\ t.n = s.n /\ SameMirror(seen, t)
  BY <1>4, <1>5, <1>6 DEF Slot, Envelopes, SameMirror
<1>10. GoodSlot(t)
  BY <1>1, <1>2, <1>4, <1>7, <1>9 DEF GoodSlot, Bound, Dirty, SameMirror
<1>11. Observed(s, t, record)
  BY <1>1, <1>9 DEF Observed, SameMirror
<1> QED
  BY <1>7, <1>8, <1>9, <1>10, <1>11 DEF record

(* Every revision held anywhere is one the server has published.            *)
LogOK ==
  /\ \A r \in Records : head[r] <= Len(log)
  /\ \A id \in DOMAIN verdict : verdict[id].rev <= Len(log)
  /\ \A d \in Devices : \A k \in page[d].revs : k \in 1..Len(log)

(* Every slot of every device is well formed.                               *)
SlotsGood == \A d \in Devices, r \in Records : GoodSlot(slot[d][r])

(* The strengthening of TypeOK that is inductive: handlers read the log at  *)
(* revisions they were given, and freeze content with the time it has.      *)
TypeInv == TypeOK /\ LogOK /\ SlotsGood

(* A step in which every slot makes a local transaction or none.            *)
QuietSlots ==
  /\ slot' \in [Devices -> [Records -> Slot]]
  /\ \A d \in Devices, r \in Records :
       GoodSlot(slot'[d][r]) /\ Local(slot[d][r], slot'[d][r])

(* A quiet step touches no request, no result and no cursor either.         *)
QuietStep == QuietSlots /\ UNCHANGED <<log, head, verdict, wire, cursor>>

(* Doing nothing is a local transaction.                                    *)
LEMMA LocalReflexive == \A s : Local(s, s)
BY DEF Local, SameMirror, Queued

(* A step that touches no slot is quiet for all of them.                    *)
LEMMA UntouchedSlotsQuiet ==
  ASSUME TypeInv, UNCHANGED slot
  PROVE  QuietSlots
BY LocalReflexive DEF QuietSlots, TypeInv, TypeOK, SlotsGood

(* A local transaction on one slot is quiet for all of them.                *)
LEMMA MovedSlotQuiet ==
  ASSUME TypeInv, NEW d \in Devices, NEW r \in Records, NEW t,
         GoodSlot(t), Local(slot[d][r], t),
         slot' = [slot EXCEPT ![d][r] = t]
  PROVE  QuietSlots
<1>1. t \in Slot /\ slot \in [Devices -> [Records -> Slot]]
  BY DEF GoodSlot, TypeInv, TypeOK
<1>2. slot' \in [Devices -> [Records -> Slot]]
  BY <1>1
<1>3. ASSUME NEW e \in Devices, NEW q \in Records
      PROVE  GoodSlot(slot'[e][q]) /\ Local(slot[e][q], slot'[e][q])
  <2>1. slot'[e][q] = IF e = d /\ q = r THEN t ELSE slot[e][q]
    BY <1>1
  <2>2. GoodSlot(slot[e][q]) /\ Local(slot[e][q], slot[e][q])
    BY LocalReflexive DEF TypeInv, SlotsGood
  <2> QED
    BY <2>1, <2>2
<1> QED
  BY <1>2, <1>3 DEF QuietSlots

(* Local transactions on the slots of one device are quiet for all of       *)
(* them.                                                                    *)
LEMMA MovedRowQuiet ==
  ASSUME TypeInv, NEW d \in Devices, NEW row,
         row \in [Records -> Slot],
         \A r \in Records : GoodSlot(row[r]) /\ Local(slot[d][r], row[r]),
         slot' = [slot EXCEPT ![d] = row]
  PROVE  QuietSlots
<1>1. slot \in [Devices -> [Records -> Slot]]
  BY DEF TypeInv, TypeOK
<1>2. slot' \in [Devices -> [Records -> Slot]]
  BY <1>1
<1>3. ASSUME NEW e \in Devices, NEW q \in Records
      PROVE  GoodSlot(slot'[e][q]) /\ Local(slot[e][q], slot'[e][q])
  <2>1. slot'[e][q] = IF e = d THEN row[q] ELSE slot[e][q]
    BY <1>1
  <2>2. GoodSlot(slot[e][q]) /\ Local(slot[e][q], slot[e][q])
    BY LocalReflexive DEF TypeInv, SlotsGood
  <2> QED
    BY <2>1, <2>2
<1> QED
  BY <1>2, <1>3 DEF QuietSlots

(* A user's edit is a quiet step.                                           *)
LEMMA EditsQuiet ==
  ASSUME TypeInv, NEW d \in Devices, UserNext(d)
  PROVE  QuietStep
<1> PICK r \in Records, v \in Values, a \in DeviceClock :
      EditBound(d, r, v, a) \/ EditUnbound(d, r, v, a)
  BY DEF UserNext
<1>1. a \in Times
  BY DEF DeviceClock, TypeInv, TypeOK
<1>2. GoodSlot(slot[d][r])
  BY DEF TypeInv, SlotsGood
<1>3. CASE EditBound(d, r, v, a)
  <2> DEFINE t == SaveLocal(slot[d][r], v, a, active[d])
  <2>1. /\ slot' = [slot EXCEPT ![d][r] = t]
        /\ UNCHANGED <<log, head, verdict, wire, cursor>>
    BY <1>3 DEF EditBound, EditSlot, server
  <2>2. t = SaveLocal(slot[d][r], v, a, active[d]) /\ active[d] \in BOOLEAN
    BY DEF TypeInv, TypeOK
  <2> HIDE DEF t
  <2>3. GoodSlot(t) /\ Local(slot[d][r], t)
    BY <1>1, <1>2, <2>2, SaveLocalGood
  <2> QED
    BY <2>1, <2>3, MovedSlotQuiet DEF QuietStep
<1>4. CASE EditUnbound(d, r, v, a)
  <2>1. PICK c \in Edit \cup {NoEdit} :
          EditSlot(d, r, [slot[d][r] EXCEPT !.cand = c])
    <3>1. [val |-> v, at |-> a] \in Edit
      BY <1>1 DEF Edit
    <3> QED
      BY <1>4, <3>1 DEF EditUnbound
  <2> DEFINE t == [slot[d][r] EXCEPT !.cand = c]
  <2>2. /\ slot' = [slot EXCEPT ![d][r] = t]
        /\ UNCHANGED <<log, head, verdict, wire, cursor>>
    BY <2>1 DEF EditSlot, server
  <2>3. t = [slot[d][r] EXCEPT !.cand = c]
    OBVIOUS
  <2> HIDE DEF t
  <2>4. GoodSlot(t) /\ Local(slot[d][r], t)
    BY <1>2, <2>3, CandidateGood
  <2> QED
    BY <2>2, <2>4, MovedSlotQuiet DEF QuietStep
<1> QED
  BY <1>3, <1>4

(* The enqueue pass that starts a run is a quiet step.                      *)
LEMMA StartRunQuiet ==
  ASSUME TypeInv, NEW d \in Devices, StartRun(d)
  PROVE  QuietStep
<1> DEFINE row == [r \in Records |-> Reconcile(slot[d][r])]
<1>1. /\ slot' = [slot EXCEPT ![d] = row]
      /\ UNCHANGED <<log, head, verdict, wire, cursor>>
  BY DEF StartRun, server
<1>2. ASSUME NEW r \in Records
      PROVE  GoodSlot(row[r]) /\ Local(slot[d][r], row[r])
  <2>1. GoodSlot(slot[d][r]) /\ row[r] = Reconcile(slot[d][r])
    BY DEF TypeInv, SlotsGood
  <2> HIDE DEF row
  <2> QED
    BY <2>1, ReconcileGood
<1>3. row \in [Records -> Slot]
  BY <1>2 DEF GoodSlot
<1> HIDE DEF row
<1> QED
  BY <1>1, <1>2, <1>3, MovedRowQuiet DEF QuietStep

(* Binding the candidates is a quiet step.                                  *)
LEMMA CompleteBootstrapQuiet ==
  ASSUME TypeInv, NEW d \in Devices, CompleteBootstrap(d)
  PROVE  QuietStep
<1> DEFINE row == [r \in Records |-> Project(Bind(slot[d][r]))]
<1>1. /\ slot' = [slot EXCEPT ![d] = row]
      /\ UNCHANGED <<log, head, verdict, wire, cursor>>
  BY DEF CompleteBootstrap, server
<1>2. ASSUME NEW r \in Records
      PROVE  GoodSlot(row[r]) /\ Local(slot[d][r], row[r])
  <2> DEFINE s == slot[d][r]
             b == Bind(s)
             t == row[r]
  <2>1. GoodSlot(s) /\ b = Bind(s) /\ t = Project(b)
    BY DEF TypeInv, SlotsGood
  <2> HIDE DEF s, b, t, row
  <2>2. GoodSlot(b) /\ Local(s, b)
    BY <2>1, BindGood
  <2>3. GoodSlot(t) /\ Local(b, t) /\ t.pend = b.pend /\ t.n = b.n
    BY <2>1, <2>2, ProjectGood
  <2>4. GoodSlot(t) /\ Local(s, t)
    BY <2>2, <2>3 DEF Local, SameMirror, Queued
  <2> QED
    BY <2>4 DEF s, t
<1>3. row \in [Records -> Slot]
  BY <1>2 DEF GoodSlot
<1> HIDE DEF row
<1> QED
  BY <1>1, <1>2, <1>3, MovedRowQuiet DEF QuietStep

(* A step that replaces the slots of one device, all well formed.           *)
RowGood(d) ==
  /\ slot' \in [Devices -> [Records -> Slot]]
  /\ \A r \in Records : GoodSlot(slot'[d][r])
  /\ \A e \in Devices \ {d} : slot'[e] = slot[e]

(* Replacing the slots of one device by well-formed ones is such a step.    *)
LEMMA RowReplaced ==
  ASSUME TypeInv, NEW d \in Devices, NEW row,
         \A r \in Records : GoodSlot(row[r]),
         row = [r \in Records |-> row[r]],
         slot' = [slot EXCEPT ![d] = row]
  PROVE  RowGood(d) /\ slot'[d] = row
<1>1. slot \in [Devices -> [Records -> Slot]]
  BY DEF TypeInv, TypeOK
<1>2. row \in [Records -> Slot]
  BY DEF GoodSlot
<1> QED
  BY <1>1, <1>2 DEF RowGood

(* What applying a pull page does to one record.                            *)
Pulled(d, r) ==
  LET s == slot[d][r]
      t == slot'[d][r]
  IN  /\ t.fly = s.fly
      /\ t.n = s.n
      /\ t.pend \in {s.pend, NoEnvelope}
      /\ IF \E k \in page[d].revs : log[k].rec = r
         THEN \E k \in page[d].revs :
                log[k].rec = r /\ Observed(s, t, AsRecord(k))
         ELSE SameMirror(s, t)

(* Every published revision is a record of the wire's type.                 *)
LEMMA PageRecord ==
  ASSUME TypeInv, NEW k \in 1..Len(log)
  PROVE  AsRecord(k) \in Record /\ AsRecord(k).rev = k
<1>1. log[k] \in Published
  BY DEF TypeInv, TypeOK
<1> QED
  BY <1>1 DEF AsRecord, Record, Published

(* Applying a page observes its records and leaves every in-flight          *)
(* envelope alone.                                                          *)
LEMMA CommitPullPageEffect ==
  ASSUME TypeInv, NEW d \in Devices, CommitPullPage(d)
  PROVE  RowGood(d) /\ \A r \in Records : Pulled(d, r)
<1> DEFINE row == [r \in Records |->
          IF \E k \in page[d].revs : log[k].rec = r
          THEN LET k == CHOOSE k \in page[d].revs : log[k].rec = r
               IN  Project(Observe(slot[d][r], AsRecord(k), TRUE))
          ELSE Project(slot[d][r])]
<1>1. slot' = [slot EXCEPT ![d] = row]
  BY DEF CommitPullPage
<1>2. ASSUME NEW r \in Records
      PROVE  /\ GoodSlot(row[r])
             /\ row[r].fly = slot[d][r].fly
             /\ row[r].n = slot[d][r].n
             /\ row[r].pend \in {slot[d][r].pend, NoEnvelope}
             /\ IF \E k \in page[d].revs : log[k].rec = r
                THEN \E k \in page[d].revs :
                       log[k].rec = r /\ Observed(slot[d][r], row[r], AsRecord(k))
                ELSE SameMirror(slot[d][r], row[r])
  <2> DEFINE s == slot[d][r]
             t == row[r]
  <2>0. GoodSlot(s)
    BY DEF TypeInv, SlotsGood
  <2>1. CASE \E k \in page[d].revs : log[k].rec = r
    <3> DEFINE k == CHOOSE k \in page[d].revs : log[k].rec = r
               o == Observe(s, AsRecord(k), TRUE)
    <3>1. k \in page[d].revs /\ log[k].rec = r
      BY <2>1
    <3>2. t = Project(o) /\ o = Observe(s, AsRecord(k), TRUE)
      BY <2>1
    <3> HIDE DEF k, s, t, row, o
    <3>3. k \in 1..Len(log)
      BY <3>1 DEF TypeInv, LogOK
    <3>4. AsRecord(k) \in Record
      BY <3>3, PageRecord
    <3>5. /\ GoodSlot(o) /\ Observed(s, o, AsRecord(k))
          /\ o.fly = s.fly /\ o.n = s.n
          /\ o.pend \in {s.pend, NoEnvelope}
      BY <2>0, <3>2, <3>4, ObserveGood
    <3>6. GoodSlot(t) /\ Local(o, t) /\ t.pend = o.pend /\ t.n = o.n
      BY <3>2, <3>5, ProjectGood
    <3>7. Observed(s, t, AsRecord(k))
      BY <3>5, <3>6 DEF Observed, Local, SameMirror
    <3>8. /\ GoodSlot(t) /\ t.fly = s.fly /\ t.n = s.n
          /\ t.pend \in {s.pend, NoEnvelope}
      BY <3>5, <3>6 DEF Local
    <3> QED
      BY <2>1, <3>1, <3>7, <3>8 DEF s, t
  <2>2. CASE ~\E k \in page[d].revs : log[k].rec = r
    <3>1. t = Project(s)
      BY <2>2
    <3> HIDE DEF s, t, row
    <3>2. GoodSlot(t) /\ Local(s, t) /\ t.pend = s.pend /\ t.n = s.n
      BY <2>0, <3>1, ProjectGood
    <3> QED
      BY <2>2, <3>2 DEF Local, s, t
  <2> QED
    BY <2>1, <2>2
<1>3. row = [r \in Records |-> row[r]]
  OBVIOUS
<1> HIDE DEF row
<1>4. RowGood(d) /\ slot'[d] = row
  BY <1>1, <1>2, <1>3, RowReplaced
<1>5. ASSUME NEW r \in Records PROVE Pulled(d, r)
  BY <1>2, <1>4 DEF Pulled
<1> QED
  BY <1>4, <1>5

(* What sealing a push request does to one record.                          *)
Sent(d, r) ==
  LET s == slot[d][r]
      t == slot'[d][r]
      e == batch'[d][r]
  IN  /\ SameMirror(s, t)
      /\ t.n = s.n
      /\ t.pend = s.pend
      /\ \/ t.fly = s.fly /\ e = NoEnvelope
         \/ t.fly = e /\ e \in Envelope /\ e = Outgoing(s)

(* The mutation an envelope becomes on the wire.                            *)
Message(d, r, e) == [id |-> <<d, r, e.n>>, val |-> e.val, at |-> e.at]

(* A push request carries exactly the envelopes sealed in flight by the     *)
(* same transaction.                                                        *)
LEMMA PreparePushEffect ==
  ASSUME TypeInv, NEW d \in Devices, PreparePush(d)
  PROVE  /\ RowGood(d)
         /\ \A r \in Records : Sent(d, r)
         /\ batch' \in [Devices -> [Records -> Envelopes]]
         /\ \A e \in Devices \ {d} : batch'[e] = batch[e]
         /\ wire' = wire \cup {Message(d, r, batch'[d][r]) :
                                 r \in {q \in Records : batch'[d][q] # NoEnvelope}}
         /\ UNCHANGED <<log, head, verdict, cursor, page>>
<1> PICK sent \in SUBSET Selected(d) :
       /\ batch' = [batch EXCEPT ![d] =
            [r \in Records |-> IF r \in sent THEN Outgoing(slot[d][r])
                               ELSE NoEnvelope]]
       /\ slot' = [slot EXCEPT ![d] =
            [r \in Records |->
               IF r \in sent
               THEN [slot[d][r] EXCEPT !.fly = Outgoing(slot[d][r])]
               ELSE slot[d][r]]]
       /\ wire' = wire \cup
            {[id |-> <<d, r, Outgoing(slot[d][r]).n>>,
              val |-> Outgoing(slot[d][r]).val,
              at |-> Outgoing(slot[d][r]).at] : r \in sent}
  BY DEF PreparePush
<1> DEFINE out == [r \in Records |-> IF r \in sent THEN Outgoing(slot[d][r])
                                     ELSE NoEnvelope]
           row == [r \in Records |->
                     IF r \in sent
                     THEN [slot[d][r] EXCEPT !.fly = Outgoing(slot[d][r])]
                     ELSE slot[d][r]]
<1>1. ASSUME NEW r \in sent
      PROVE  r \in Records /\ Outgoing(slot[d][r]) \in Envelope
  <2>1. r \in Records /\ slot[d][r] \in Slot
    BY DEF Selected, Unresolved, TypeInv, SlotsGood, GoodSlot
  <2>2. slot[d][r].fly # NoEnvelope \/ slot[d][r].pend # NoEnvelope
    BY <2>1 DEF Selected, Unresolved, Dirty
  <2> QED
    BY <2>1, <2>2 DEF Outgoing, Slot
<1>2. ASSUME NEW r \in Records
      PROVE  /\ GoodSlot(row[r])
             /\ SameMirror(slot[d][r], row[r])
             /\ row[r].n = slot[d][r].n
             /\ row[r].pend = slot[d][r].pend
             /\ \/ row[r].fly = slot[d][r].fly /\ out[r] = NoEnvelope
                \/ row[r].fly = out[r] /\ out[r] \in Envelope
                   /\ out[r] = Outgoing(slot[d][r])
  <2> DEFINE s == slot[d][r]
             t == row[r]
             f == Outgoing(slot[d][r])
  <2>0. GoodSlot(s) /\ s \in Slot
    BY DEF TypeInv, SlotsGood, GoodSlot
  <2>1. CASE r \in sent
    <3>1. t = [s EXCEPT !.fly = f] /\ out[r] = f
      BY <2>1
    <3>2. f \in Envelopes /\ f \in Envelope
      BY <1>1, <2>1 DEF Envelopes
    <3>3. f = Outgoing(slot[d][r])
      OBVIOUS
    <3> HIDE DEF s, t, f, out, row
    <3>4. /\ t \in Slot /\ t.fly = f /\ SameMirror(s, t)
          /\ t.val = s.val /\ t.at = s.at
          /\ t.n = s.n /\ t.pend = s.pend
      BY <2>0, <3>1, <3>2 DEF Slot, Envelopes, SameMirror
    <3>5. GoodSlot(t)
      BY <2>0, <3>4 DEF GoodSlot, Bound, Dirty, SameMirror
    <3> QED
      BY <3>1, <3>2, <3>3, <3>4, <3>5 DEF s, t
  <2>2. CASE r \notin sent
    BY <2>0, <2>2 DEF SameMirror
  <2> QED
    BY <2>1, <2>2
<1>3. row = [r \in Records |-> row[r]]
  OBVIOUS
<1>4. out \in [Records -> Envelopes]
  BY <1>1 DEF Envelopes
<1>5. slot' = [slot EXCEPT ![d] = row] /\ batch' = [batch EXCEPT ![d] = out]
  OBVIOUS
<1>6. {[id |-> <<d, r, Outgoing(slot[d][r]).n>>,
        val |-> Outgoing(slot[d][r]).val,
        at |-> Outgoing(slot[d][r]).at] : r \in sent}
      = {Message(d, r, out[r]) : r \in {q \in Records : out[q] # NoEnvelope}}
  <2>1. \A r \in Records : out[r] # NoEnvelope <=> r \in sent
    BY <1>1, EnvelopeFacts
  <2>2. {q \in Records : out[q] # NoEnvelope} = sent
    BY <1>1, <2>1
  <2>3. \A r \in sent : out[r] = Outgoing(slot[d][r])
    BY <1>1
  <2> HIDE DEF out
  <2> QED
    BY <2>2, <2>3 DEF Message
<1> HIDE DEF row, out
<1>7. RowGood(d) /\ slot'[d] = row
  BY <1>2, <1>3, <1>5, RowReplaced
<1>8. batch \in [Devices -> [Records -> Envelopes]]
  BY DEF TypeInv, TypeOK, Envelopes
<1>9. /\ batch' \in [Devices -> [Records -> Envelopes]]
      /\ batch'[d] = out
      /\ \A e \in Devices \ {d} : batch'[e] = batch[e]
  BY <1>4, <1>5, <1>8
<1>10. UNCHANGED <<log, head, verdict, cursor, page>>
  BY DEF PreparePush, server
<1>11. \A r \in Records : Sent(d, r)
  BY <1>2, <1>7, <1>9 DEF Sent
<1>12. wire' = wire \cup {Message(d, r, batch'[d][r]) :
                           r \in {q \in Records : batch'[d][q] # NoEnvelope}}
  BY <1>6, <1>9
<1> QED
  BY <1>7, <1>9, <1>10, <1>11, <1>12

(* What applying the results of a push does to one record.                  *)
Answered(d, r) ==
  LET s == slot[d][r]
      t == slot'[d][r]
      e == batch[d][r]
      id == Identity(d, r)
  IN  /\ t.n = s.n
      /\ \/ SameMirror(s, t) /\ t.pend = s.pend /\ t.fly = s.fly
         \/ /\ e \in Envelope
            /\ id \in DOMAIN verdict
            /\ ResultRecord(e, verdict[id]) \in Record
            /\ Observed(s, t, ResultRecord(e, verdict[id]))
            /\ t.pend = IF s.pend.n = e.n THEN NoEnvelope ELSE s.pend
            /\ t.fly = IF s.fly.n = e.n THEN NoEnvelope ELSE s.fly

(* Every stored result stands for a record of the wire's type.              *)
LEMMA ResultIsRecord ==
  ASSUME TypeInv, NEW e \in Envelope, NEW id \in DOMAIN verdict
  PROVE  /\ verdict[id] \in Result
         /\ ResultRecord(e, verdict[id]) \in Record
         /\ ResultRecord(e, verdict[id]).rev = verdict[id].rev
         /\ verdict[id].rev \in 1..Len(log)
<1>1. verdict[id] \in Result /\ verdict[id].rev \in 1..Len(log)
  BY DEF TypeInv, TypeOK, LogOK, Result
<1>2. log[verdict[id].rev] \in Published
  BY <1>1 DEF TypeInv, TypeOK
<1>3. AsRecord(verdict[id].rev) \in Record /\ AsRecord(verdict[id].rev).rev = verdict[id].rev
  BY <1>1, PageRecord
<1> QED
  BY <1>1, <1>2, <1>3 DEF ResultRecord, Record, Envelope, Published

(* Applying the results of a processed prefix acknowledges its records and  *)
(* no other.                                                                *)
LEMMA CommitPushPrefixEffect ==
  ASSUME TypeInv, NEW d \in Devices, CommitPushPrefix(d)
  PROVE  /\ RowGood(d)
         /\ \A r \in Records : Answered(d, r)
         /\ batch' = [batch EXCEPT ![d] = NoBatch]
         /\ UNCHANGED <<log, head, verdict, wire, cursor, page>>
<1> PICK done \in SUBSET InBatch(d) :
       /\ \A r \in done : Identity(d, r) \in DOMAIN verdict
       /\ slot' = [slot EXCEPT ![d] =
            [r \in Records |->
               Project(IF r \in done
                       THEN Acknowledge(slot[d][r], batch[d][r],
                                        verdict[Identity(d, r)])
                       ELSE slot[d][r])]]
  BY DEF CommitPushPrefix
<1> DEFINE row == [r \in Records |->
               Project(IF r \in done
                       THEN Acknowledge(slot[d][r], batch[d][r],
                                        verdict[Identity(d, r)])
                       ELSE slot[d][r])]
<1>1. slot' = [slot EXCEPT ![d] = row]
  OBVIOUS
<1>2. ASSUME NEW r \in Records
      PROVE  /\ GoodSlot(row[r])
             /\ row[r].n = slot[d][r].n
             /\ \/ /\ SameMirror(slot[d][r], row[r])
                   /\ row[r].pend = slot[d][r].pend /\ row[r].fly = slot[d][r].fly
                \/ /\ batch[d][r] \in Envelope
                   /\ Identity(d, r) \in DOMAIN verdict
                   /\ ResultRecord(batch[d][r], verdict[Identity(d, r)]) \in Record
                   /\ Observed(slot[d][r], row[r],
                               ResultRecord(batch[d][r], verdict[Identity(d, r)]))
                   /\ row[r].pend = IF slot[d][r].pend.n = batch[d][r].n
                                    THEN NoEnvelope ELSE slot[d][r].pend
                   /\ row[r].fly = IF slot[d][r].fly.n = batch[d][r].n
                                   THEN NoEnvelope ELSE slot[d][r].fly
  <2> DEFINE s == slot[d][r]
             e == batch[d][r]
             x == verdict[Identity(d, r)]
             a == Acknowledge(s, e, x)
             t == row[r]
  <2>0. GoodSlot(s)
    BY DEF TypeInv, SlotsGood
  <2>1. CASE r \in done
    <3>1. e \in Envelope /\ Identity(d, r) \in DOMAIN verdict
      BY <2>1 DEF InBatch, TypeInv, TypeOK
    <3>2. x \in Result /\ ResultRecord(e, x) \in Record
      BY <3>1, ResultIsRecord
    <3>3. t = Project(a) /\ a = Acknowledge(s, e, x)
      BY <2>1
    <3> HIDE DEF s, e, x, a, t, row
    <3>4. /\ GoodSlot(a) /\ Observed(s, a, ResultRecord(e, x))
          /\ a.n = s.n
          /\ a.pend = IF s.pend.n = e.n THEN NoEnvelope ELSE s.pend
          /\ a.fly = IF s.fly.n = e.n THEN NoEnvelope ELSE s.fly
      BY <2>0, <3>1, <3>2, <3>3, AcknowledgeGood
    <3>5. GoodSlot(t) /\ Local(a, t) /\ t.pend = a.pend /\ t.n = a.n
      BY <3>3, <3>4, ProjectGood
    <3>6. Observed(s, t, ResultRecord(e, x)) /\ t.fly = a.fly
      BY <3>4, <3>5 DEF Observed, Local, SameMirror
    <3> QED
      BY <3>1, <3>2, <3>4, <3>5, <3>6 DEF s, e, x, t
  <2>2. CASE r \notin done
    <3>1. t = Project(s)
      BY <2>2
    <3> HIDE DEF s, t, row
    <3>2. GoodSlot(t) /\ Local(s, t) /\ t.pend = s.pend /\ t.n = s.n
      BY <2>0, <3>1, ProjectGood
    <3> QED
      BY <3>2 DEF Local, s, t
  <2> QED
    BY <2>1, <2>2
<1>3. row = [r \in Records |-> row[r]]
  OBVIOUS
<1> HIDE DEF row
<1>4. RowGood(d) /\ slot'[d] = row
  <2>1. \A r \in Records : GoodSlot(row[r])
    BY <1>2
  <2> QED
    BY <1>1, <1>3, <2>1, RowReplaced
<1>5. \A r \in Records : Answered(d, r)
  BY <1>2, <1>4 DEF Answered
<1>6. /\ batch' = [batch EXCEPT ![d] = NoBatch]
      /\ UNCHANGED <<log, head, verdict, wire, cursor, page>>
  BY DEF CommitPushPrefix, server
<1> QED
  BY <1>4, <1>5, <1>6

(* The strengthening holds of a bootstrapped empty account.                 *)
LEMMA TypeInvInit == Init => TypeInv
<1> SUFFICES ASSUME Init PROVE TypeInv
  OBVIOUS
<1>1. EmptySlot \in Slot
  BY DEF EmptySlot, Slot
<1>2. GoodSlot(EmptySlot)
  BY <1>1 DEF GoodSlot, EmptySlot, Bound, Dirty
<1>3. SlotsGood
  BY <1>2 DEF SlotsGood, Init
<1>4. log = <<>> /\ log \in Seq(Published) /\ Len(log) = 0
  BY DEF Init
<1>5. DOMAIN verdict = {}
  BY DEF Init
<1>6. LogOK
  BY <1>4, <1>5 DEF LogOK, Init, NoPage
<1>7. TypeOK
  BY <1>1, <1>4, <1>5, ConstantsAssumption
  DEF TypeOK, Init, Times, Phases, NoPage, NoBatch
<1> QED
  BY <1>3, <1>6, <1>7 DEF TypeInv

(* A quiet step keeps the strengthening when the variables it says nothing  *)
(* about keep their types.                                                  *)
LEMMA QuietTypes ==
  ASSUME TypeInv, QuietStep,
         now' \in Times, active' \in [Devices -> BOOLEAN],
         pc' \in [Devices -> Phases],
         page' \in [Devices -> [revs : SUBSET Nat, next : Nat, more : BOOLEAN]],
         \A d \in Devices : \A k \in page'[d].revs : k \in 1..Len(log),
         batch' \in [Devices -> [Records -> Envelope \cup {NoEnvelope}]],
         edits' \in [Devices -> Nat], faults' \in Nat
  PROVE  TypeInv'
<1>1. UNCHANGED <<log, head, verdict, wire, cursor>>
  BY DEF QuietStep
<1>2. slot' \in [Devices -> [Records -> Slot]] /\ SlotsGood'
  BY DEF QuietStep, QuietSlots, SlotsGood
<1>3. LogOK'
  BY <1>1 DEF LogOK, TypeInv
<1>4. TypeOK'
  BY <1>1, <1>2 DEF TypeOK, TypeInv
<1> QED
  BY <1>2, <1>3, <1>4 DEF TypeInv

(* Every step of the worker, the users, the session and the server keeps    *)
(* the strengthening.                                                       *)
LEMMA TypeInvNext == TypeInv /\ [Next]_vars => TypeInv'
<1> SUFFICES ASSUME TypeInv, [Next]_vars PROVE TypeInv'
  OBVIOUS
<1> USE DEF server, database, worker
<1>0. /\ now \in Times /\ active \in [Devices -> BOOLEAN]
      /\ pc \in [Devices -> Phases]
      /\ page \in [Devices -> [revs : SUBSET Nat, next : Nat, more : BOOLEAN]]
      /\ \A d \in Devices : \A k \in page[d].revs : k \in 1..Len(log)
      /\ batch \in [Devices -> [Records -> Envelope \cup {NoEnvelope}]]
      /\ edits \in [Devices -> Nat] /\ faults \in Nat
  BY DEF TypeInv, TypeOK, LogOK
<1>stop. ASSUME NEW d \in Devices, StopWorker(d)
         PROVE  /\ pc' \in [Devices -> Phases]
                /\ page' \in [Devices -> [revs : SUBSET Nat, next : Nat, more : BOOLEAN]]
                /\ \A e \in Devices : \A k \in page'[e].revs : k \in 1..Len(log)
                /\ batch' \in [Devices -> [Records -> Envelope \cup {NoEnvelope}]]
  BY <1>0, <1>stop DEF StopWorker, Phases, NoPage, NoBatch
<1>1. CASE UNCHANGED vars
  <2>1. QuietStep
    BY <1>1, UntouchedSlotsQuiet DEF QuietStep, vars
  <2> QED
    BY <1>0, <1>1, <2>1, QuietTypes DEF vars
<1>2. ASSUME NEW d \in Devices, UserNext(d) PROVE TypeInv'
  <2>1. QuietStep
    BY <1>2, EditsQuiet
  <2>2. edits' \in [Devices -> Nat] /\ UNCHANGED <<now, active, worker, faults>>
    BY <1>0, <1>2 DEF UserNext, EditBound, EditUnbound, EditSlot
  <2> QED
    BY <1>0, <2>1, <2>2, QuietTypes
<1>3. ASSUME NEW d \in Devices, StartRun(d) PROVE TypeInv'
  <2>1. QuietStep
    BY <1>3, StartRunQuiet
  <2>2. /\ pc' \in [Devices -> Phases]
        /\ UNCHANGED <<now, active, page, batch, edits, faults>>
    BY <1>0, <1>3 DEF StartRun, Phases
  <2> QED
    BY <1>0, <2>1, <2>2, QuietTypes
<1>4. ASSUME NEW d \in Devices, PullPage(d) PROVE TypeInv'
  <2>1. QuietStep
    BY <1>4, UntouchedSlotsQuiet DEF QuietStep, PullPage
  <2>2. /\ pc' \in [Devices -> Phases]
        /\ UNCHANGED <<now, active, batch, edits, faults>>
    BY <1>0, <1>4 DEF PullPage, Phases
  <2>3. Owed(d) \subseteq 1..Len(log) /\ cursor[d] \in Nat
    BY DEF Owed, TypeInv, TypeOK, LogOK
  <2>n. (IF Owed(d) = {} THEN {cursor[d]} ELSE Owed(d)) \subseteq Nat
    BY <2>3
  <2>4. PICK next \in IF Owed(d) = {} THEN {cursor[d]} ELSE Owed(d) :
          page' = [page EXCEPT ![d] =
                     [revs |-> {k \in Owed(d) : k <= next},
                      next |-> next,
                      more |-> \E k \in Owed(d) : k > next]]
    BY <1>4 DEF PullPage
  <2> DEFINE p == [revs |-> {k \in Owed(d) : k <= next},
                   next |-> next,
                   more |-> \E k \in Owed(d) : k > next]
  <2>5. /\ p \in [revs : SUBSET Nat, next : Nat, more : BOOLEAN]
        /\ p.revs \subseteq 1..Len(log)
    BY <2>3, <2>n
  <2>6. page' = [page EXCEPT ![d] = p]
    BY <2>4
  <2> HIDE DEF p
  <2>7. /\ page' \in [Devices -> [revs : SUBSET Nat, next : Nat, more : BOOLEAN]]
        /\ \A e \in Devices : \A k \in page'[e].revs : k \in 1..Len(log)
    BY <1>0, <2>5, <2>6
  <2> QED
    BY <1>0, <2>1, <2>2, <2>7, QuietTypes
<1>5. ASSUME NEW d \in Devices, CommitPullPage(d) PROVE TypeInv'
  <2>1. slot' \in [Devices -> [Records -> Slot]] /\ SlotsGood'
    BY <1>5, CommitPullPageEffect DEF RowGood, SlotsGood, TypeInv
  <2>2. /\ UNCHANGED <<log, head, verdict, wire, now, active, batch, edits, faults>>
        /\ pc' \in [Devices -> Phases]
        /\ cursor' \in [Devices -> Nat]
        /\ page' = [page EXCEPT ![d] = NoPage]
    BY <1>0, <1>5 DEF CommitPullPage, Phases, PageCursor, TypeInv, TypeOK
  <2>3. /\ page' \in [Devices -> [revs : SUBSET Nat, next : Nat, more : BOOLEAN]]
        /\ \A e \in Devices : \A k \in page'[e].revs : k \in 1..Len(log)
    BY <1>0, <2>2 DEF NoPage
  <2>4. LogOK'
    BY <2>2, <2>3 DEF LogOK, TypeInv
  <2>5. TypeOK'
    BY <2>1, <2>2, <2>3 DEF TypeOK, TypeInv
  <2> QED
    BY <2>1, <2>4, <2>5 DEF TypeInv
<1>6. ASSUME NEW d \in Devices, CompleteBootstrap(d) PROVE TypeInv'
  <2>1. QuietStep
    BY <1>6, CompleteBootstrapQuiet
  <2>2. /\ pc' \in [Devices -> Phases]
        /\ UNCHANGED <<now, active, page, batch, edits, faults>>
    BY <1>0, <1>6 DEF CompleteBootstrap, Phases
  <2> QED
    BY <1>0, <2>1, <2>2, QuietTypes
<1>7. ASSUME NEW d \in Devices, PreparePush(d) PROVE TypeInv'
  <2>1. /\ RowGood(d)
        /\ batch' \in [Devices -> [Records -> Envelopes]]
        /\ wire' = wire \cup {Message(d, r, batch'[d][r]) :
                                r \in {q \in Records : batch'[d][q] # NoEnvelope}}
        /\ UNCHANGED <<log, head, verdict, cursor, page>>
    BY <1>7, PreparePushEffect
  <2>2. slot' \in [Devices -> [Records -> Slot]] /\ SlotsGood'
    BY <2>1 DEF RowGood, SlotsGood, TypeInv
  <2>3. pc' \in [Devices -> Phases] /\ UNCHANGED <<now, active, edits, faults>>
    BY <1>0, <1>7 DEF PreparePush, Phases
  <2>4. ASSUME NEW r \in Records, batch'[d][r] # NoEnvelope
        PROVE  Message(d, r, batch'[d][r]) \in Mutation
    <3>1. batch'[d][r] \in Envelope
      BY <2>1, <2>4 DEF Envelopes
    <3> QED
      BY <3>1 DEF Message, Mutation, Envelope
  <2>5. wire' \subseteq Mutation
    BY <2>1, <2>4 DEF TypeInv, TypeOK
  <2>6. LogOK'
    BY <2>1 DEF LogOK, TypeInv
  <2>7. TypeOK'
    BY <2>1, <2>2, <2>3, <2>5 DEF TypeOK, TypeInv, Envelopes
  <2> QED
    BY <2>2, <2>6, <2>7 DEF TypeInv
<1>8. ASSUME NEW d \in Devices, FinishRun(d) PROVE TypeInv'
  <2>1. QuietStep
    BY <1>8, UntouchedSlotsQuiet DEF QuietStep, FinishRun
  <2>2. /\ pc' \in [Devices -> Phases]
        /\ UNCHANGED <<now, active, page, batch, edits, faults>>
    BY <1>0, <1>8 DEF FinishRun, Phases
  <2> QED
    BY <1>0, <2>1, <2>2, QuietTypes
<1>9. ASSUME NEW d \in Devices, CommitPushPrefix(d) PROVE TypeInv'
  <2>1. /\ RowGood(d)
        /\ batch' = [batch EXCEPT ![d] = NoBatch]
        /\ UNCHANGED <<log, head, verdict, wire, cursor, page>>
    BY <1>9, CommitPushPrefixEffect
  <2>2. slot' \in [Devices -> [Records -> Slot]] /\ SlotsGood'
    BY <2>1 DEF RowGood, SlotsGood, TypeInv
  <2>3. pc' \in [Devices -> Phases] /\ UNCHANGED <<now, active, edits, faults>>
    BY <1>0, <1>9 DEF CommitPushPrefix, Phases
  <2>4. batch' \in [Devices -> [Records -> Envelope \cup {NoEnvelope}]]
    BY <1>0, <2>1 DEF NoBatch
  <2>5. LogOK'
    BY <2>1 DEF LogOK, TypeInv
  <2>6. TypeOK'
    BY <2>1, <2>2, <2>3, <2>4 DEF TypeOK, TypeInv
  <2> QED
    BY <2>2, <2>5, <2>6 DEF TypeInv
<1>10. ASSUME NEW d \in Devices, SessionNext(d) PROVE TypeInv'
  <2>1. /\ UNCHANGED <<slot, log, head, verdict, wire, cursor, now, edits>>
        /\ faults' \in Nat /\ active' \in [Devices -> BOOLEAN]
        /\ StopWorker(d) \/ UNCHANGED worker
    <3>1. CASE FailRun(d)
      BY <1>0, <3>1 DEF FailRun
    <3>2. CASE SignOut(d)
      BY <1>0, <3>2 DEF SignOut
    <3>3. CASE SignIn(d)
      BY <1>0, <3>3 DEF SignIn
    <3> QED
      BY <1>10, <3>1, <3>2, <3>3 DEF SessionNext
  <2>2. QuietStep
    BY <2>1, UntouchedSlotsQuiet DEF QuietStep
  <2> QED
    BY <1>0, <1>stop, <2>1, <2>2, QuietTypes
<1>11. ASSUME NEW m \in wire, ApplyMutation(m) PROVE TypeInv'
  <2>1. /\ m.id \in Devices \X Records \X (Nat \ {0}) /\ m.id[2] \in Records
        /\ m.val \in Values /\ m.at \in Times
    BY DEF TypeInv, TypeOK, Mutation
  <2>2. EffectiveTime(m) \in Times
    BY <1>0, <2>1 DEF EffectiveTime
  <2> DEFINE p == [rec |-> m.id[2], val |-> m.val, at |-> EffectiveTime(m)]
             x == [applied |-> TRUE, rev |-> Len(log) + 1]
  <2>3. /\ log' = Append(log, p)
        /\ head' = [head EXCEPT ![m.id[2]] = Len(log) + 1]
        /\ verdict' = [id \in DOMAIN verdict \cup {m.id} |->
                         IF id = m.id THEN x ELSE verdict[id]]
        /\ UNCHANGED <<slot, wire, cursor, now, active, pc, page, batch, edits, faults>>
    BY <1>11 DEF ApplyMutation, Decide
  <2>4. p \in Published /\ x \in Result /\ x.rev = Len(log) + 1
    BY <2>1, <2>2 DEF Published, Result, TypeInv, TypeOK
  <2> HIDE DEF p, x
  <2>5. log' \in Seq(Published) /\ Len(log') = Len(log) + 1 /\ Len(log) \in Nat
    BY <2>3, <2>4 DEF TypeInv, TypeOK
  <2>6. \A id \in DOMAIN verdict' :
           verdict'[id] \in Result /\ verdict'[id].rev <= Len(log')
    BY <2>3, <2>4, <2>5 DEF TypeInv, TypeOK, LogOK, Result
  <2>7. head' \in [Records -> Nat] /\ \A r \in Records : head'[r] <= Len(log')
    BY <2>1, <2>3, <2>5 DEF TypeInv, TypeOK, LogOK
  <2>8. LogOK'
    <3>1. \A d \in Devices : \A k \in page'[d].revs : k \in 1..Len(log')
      BY <1>0, <2>3, <2>5
    <3> QED
      BY <2>6, <2>7, <3>1 DEF LogOK
  <2>9. TypeOK'
    BY <2>1, <2>3, <2>5, <2>6, <2>7 DEF TypeOK, TypeInv
  <2>10. SlotsGood'
    BY <2>3 DEF SlotsGood, TypeInv
  <2> QED
    BY <2>8, <2>9, <2>10 DEF TypeInv
<1>12. ASSUME NEW m \in wire, SupersedeMutation(m) PROVE TypeInv'
  <2>1. m.id \in Devices \X Records \X (Nat \ {0}) /\ m.id[2] \in Records
    BY DEF TypeInv, TypeOK, Mutation
  <2> DEFINE x == [applied |-> FALSE, rev |-> head[m.id[2]]]
  <2>2. /\ verdict' = [id \in DOMAIN verdict \cup {m.id} |->
                         IF id = m.id THEN x ELSE verdict[id]]
        /\ head[m.id[2]] > 0
        /\ UNCHANGED <<slot, log, head, wire, cursor, now, active, pc, page, batch, edits, faults>>
    BY <1>12 DEF SupersedeMutation, Decide, Wins
  <2>3. x \in Result /\ x.rev <= Len(log)
    BY <2>1, <2>2 DEF Result, TypeInv, TypeOK, LogOK
  <2> HIDE DEF x
  <2>4. \A id \in DOMAIN verdict' :
           verdict'[id] \in Result /\ verdict'[id].rev <= Len(log)
    BY <2>2, <2>3 DEF TypeInv, TypeOK, LogOK
  <2>5. LogOK'
    BY <2>2, <2>4 DEF LogOK, TypeInv
  <2>6. TypeOK'
    BY <2>1, <2>2, <2>4 DEF TypeOK, TypeInv
  <2>7. SlotsGood'
    BY <2>2 DEF SlotsGood, TypeInv
  <2> QED
    BY <2>5, <2>6, <2>7 DEF TypeInv
<1>13. CASE Tick
  <2>1. QuietStep
    BY <1>13, UntouchedSlotsQuiet DEF QuietStep, Tick
  <2>2. now' \in Times /\ UNCHANGED <<active, worker, edits, faults>>
    BY <1>0, <1>13, ConstantsAssumption DEF Tick, Times
  <2> QED
    BY <1>0, <2>1, <2>2, QuietTypes
<1> QED
  BY <1>1, <1>2, <1>3, <1>4, <1>5, <1>6, <1>7, <1>8, <1>9, <1>10, <1>11, <1>12, <1>13
  DEF Next, WorkerNext, ServerNext

(* Every step is quiet or one of the four that move requests, results and   *)
(* mirrors.                                                                 *)
LEMMA StepKinds ==
  ASSUME TypeInv, [Next]_vars
  PROVE  \/ QuietStep
         \/ \E d \in Devices : CommitPullPage(d)
         \/ \E d \in Devices : PreparePush(d)
         \/ \E d \in Devices : CommitPushPrefix(d)
         \/ \E m \in wire : ApplyMutation(m) \/ SupersedeMutation(m)
<1> USE DEF server, database, worker
<1>1. CASE UNCHANGED vars
  BY <1>1, UntouchedSlotsQuiet DEF QuietStep, vars
<1>2. ASSUME NEW d \in Devices, SessionNext(d) PROVE QuietStep
  <2>1. UNCHANGED <<slot, log, head, verdict, wire, cursor>>
    BY <1>2 DEF SessionNext, FailRun, SignOut, SignIn
  <2> QED
    BY <2>1, UntouchedSlotsQuiet DEF QuietStep
<1>3. ASSUME NEW d \in Devices, PullPage(d) \/ FinishRun(d) PROVE QuietStep
  BY <1>3, UntouchedSlotsQuiet DEF QuietStep, PullPage, FinishRun
<1>4. CASE Tick
  BY <1>4, UntouchedSlotsQuiet DEF QuietStep, Tick
<1> QED
  BY <1>1, <1>2, <1>3, <1>4, EditsQuiet, StartRunQuiet, CompleteBootstrapQuiet
  DEF Next, WorkerNext, ServerNext

-----------------------------------------------------------------------------

(* A request names a device, a record and an envelope number.               *)
LEMMA WireShape ==
  ASSUME TypeInv, NEW m \in wire
  PROVE  /\ m.id = <<m.id[1], m.id[2], m.id[3]>>
         /\ m.id[1] \in Devices /\ m.id[2] \in Records /\ m.id[3] \in Nat \ {0}
         /\ m.val \in Values /\ m.at \in Times
BY DEF TypeInv, TypeOK, Mutation

(* No step forgets a request whose result is unknown: it could only be      *)
(* cleared by the result of the very identity, which is then ruled on.      *)
LEMMA UnknownResultIsHeldNext ==
  TypeInv /\ UnknownResultIsHeld /\ [Next]_vars => UnknownResultIsHeld'
<1> SUFFICES ASSUME TypeInv, UnknownResultIsHeld, [Next]_vars,
                    NEW m \in wire', m.id \notin DOMAIN verdict'
             PROVE  slot'[m.id[1]][m.id[2]].fly
                      = [n |-> m.id[3], val |-> m.val, at |-> m.at]
  BY DEF UnknownResultIsHeld
<1> DEFINE body == [n |-> m.id[3], val |-> m.val, at |-> m.at]
           c == m.id[1]
           q == m.id[2]
<1>1. CASE QuietStep
  <2>1. m \in wire /\ m.id \notin DOMAIN verdict
    BY <1>1 DEF QuietStep
  <2>2. slot'[c][q].fly = slot[c][q].fly
    BY <1>1, <2>1, WireShape DEF QuietStep, QuietSlots, Local
  <2> QED
    BY <2>1, <2>2 DEF UnknownResultIsHeld
<1>2. ASSUME NEW d \in Devices, CommitPullPage(d)
      PROVE  slot'[c][q].fly = body
  <2>1. m \in wire /\ m.id \notin DOMAIN verdict
    BY <1>2 DEF CommitPullPage, server
  <2>2. slot'[c][q].fly = slot[c][q].fly
    BY <1>2, <2>1, WireShape, CommitPullPageEffect DEF RowGood, Pulled
  <2> QED
    BY <2>1, <2>2 DEF UnknownResultIsHeld
<1>3. ASSUME NEW d \in Devices, PreparePush(d)
      PROVE  slot'[c][q].fly = body
  <2>1. /\ RowGood(d) /\ \A r \in Records : Sent(d, r)
        /\ batch' \in [Devices -> [Records -> Envelopes]]
        /\ wire' = wire \cup {Message(d, r, batch'[d][r]) :
                                r \in {x \in Records : batch'[d][x] # NoEnvelope}}
        /\ verdict' = verdict
    BY <1>3, PreparePushEffect
  <2>2. CASE m \in wire
    <3>1. slot[c][q].fly = body /\ c \in Devices /\ q \in Records
      BY <2>1, <2>2, WireShape DEF UnknownResultIsHeld
    <3>2. body.n # 0
      BY <2>2, WireShape
    <3>3. slot[c][q].fly # NoEnvelope
      BY <3>1, <3>2, EnvelopeFacts
    <3>4. CASE c = d
      <4>1. Sent(d, q)
        BY <2>1, <3>1
      <4>2. slot'[d][q].fly \in {slot[d][q].fly, Outgoing(slot[d][q])}
        BY <4>1 DEF Sent
      <4> QED
        BY <3>1, <3>3, <3>4, <4>2 DEF Outgoing
    <3>5. CASE c # d
      BY <2>1, <3>1, <3>5 DEF RowGood
    <3> QED
      BY <3>4, <3>5
  <2>3. CASE m \notin wire
    <3>1. PICK r \in Records :
            batch'[d][r] # NoEnvelope /\ m = Message(d, r, batch'[d][r])
      BY <2>1, <2>3
    <3>2. batch'[d][r] \in Envelope
      BY <2>1, <3>1 DEF Envelopes
    <3>3. Sent(d, r)
      BY <2>1
    <3>4. slot'[d][r].fly = batch'[d][r]
      BY <3>1, <3>3 DEF Sent
    <3>5. c = d /\ q = r /\ body = batch'[d][r]
      BY <3>1, <3>2 DEF Message, Envelope
    <3> QED
      BY <3>4, <3>5
  <2> QED
    BY <2>2, <2>3
<1>4. ASSUME NEW d \in Devices, CommitPushPrefix(d)
      PROVE  slot'[c][q].fly = body
  <2>1. /\ RowGood(d) /\ \A r \in Records : Answered(d, r)
        /\ UNCHANGED <<wire, verdict>>
    BY <1>4, CommitPushPrefixEffect
  <2>2. /\ slot[c][q].fly = body /\ c \in Devices /\ q \in Records
        /\ m.id = <<c, q, m.id[3]>> /\ m.id \notin DOMAIN verdict
    BY <2>1, WireShape DEF UnknownResultIsHeld
  <2>3. CASE c = d
    <3>1. Answered(d, q)
      BY <2>1, <2>2
    <3>2. \/ slot'[d][q].fly = slot[d][q].fly
          \/ /\ Identity(d, q) \in DOMAIN verdict
             /\ slot'[d][q].fly = IF slot[d][q].fly.n = batch[d][q].n
                                  THEN NoEnvelope ELSE slot[d][q].fly
      BY <3>1 DEF Answered
    <3>3. slot[d][q].fly.n = batch[d][q].n => Identity(d, q) = m.id
      BY <2>2, <2>3 DEF Identity
    <3> QED
      BY <2>2, <2>3, <3>2, <3>3
  <2>4. CASE c # d
    BY <2>1, <2>2, <2>4 DEF RowGood
  <2> QED
    BY <2>3, <2>4
<1>5. ASSUME NEW x \in wire, ApplyMutation(x) \/ SupersedeMutation(x)
      PROVE  slot'[c][q].fly = body
  <2>1. UNCHANGED <<wire, slot>> /\ DOMAIN verdict \subseteq DOMAIN verdict'
    BY <1>5 DEF ApplyMutation, SupersedeMutation, Decide, database
  <2> QED
    BY <2>1 DEF UnknownResultIsHeld
<1> QED
  BY <1>1, <1>2, <1>3, <1>4, <1>5, StepKinds

(* Type correctness: every variable keeps its shape, for any number of      *)
(* devices, records, values, edits and faults (sync_repository.dart, the    *)
(* outbox and mirror columns).                                              *)
THEOREM TypeCorrect == Spec => []TypeOK
<1>1. Spec => []TypeInv
  BY TypeInvInit, TypeInvNext, PTL DEF Spec
<1>2. TypeInv => TypeOK
  BY DEF TypeInv
<1> QED
  BY <1>1, <1>2, PTL

(* SyncRepository never forgets or replaces a sent body the server has not  *)
(* ruled on, whatever is edited, pulled, lost or restarted meanwhile.       *)
THEOREM HeldUntilRuled == Spec => []UnknownResultIsHeld
<1>1. Init => UnknownResultIsHeld
  BY DEF Init, UnknownResultIsHeld
<1>2. Spec => []TypeInv
  BY TypeInvInit, TypeInvNext, PTL DEF Spec
<1> QED
  BY <1>1, <1>2, UnknownResultIsHeldNext, PTL DEF Spec

(* An identity names one body, forever: requests, the in-flight slots and   *)
(* the batch in hand agree, results belong to requests, and a pending       *)
(* envelope that is already on the wire is the one in flight.               *)
WireInv ==
  /\ \A m1, m2 \in wire : m1.id = m2.id => m1 = m2
  /\ \A id \in DOMAIN verdict : \E m \in wire : m.id = id
  /\ \A m \in wire : m.id[3] <= slot[m.id[1]][m.id[2]].n
  /\ \A d \in Devices, r \in Records :
       /\ slot[d][r].fly # NoEnvelope => Message(d, r, slot[d][r].fly) \in wire
       /\ batch[d][r] # NoEnvelope => Message(d, r, batch[d][r]) \in wire
       /\ \A m \in wire :
            Dirty(slot[d][r]) /\ m.id = <<d, r, slot[d][r].pend.n>> =>
              slot[d][r].fly = slot[d][r].pend

(* What a step that sends nothing may do to a slot.                         *)
ReachOf(s, t) ==
  /\ t.n >= s.n
  /\ t.fly \in {s.fly, NoEnvelope}
  /\ \/ t.pend = s.pend /\ (t.fly = s.fly \/ s.fly # s.pend)
     \/ t.pend = NoEnvelope
     \/ t.pend.n > s.n

(* A step that sends nothing keeps identities unique.                       *)
LEMMA WireUntouched ==
  ASSUME TypeInv, TypeInv', WireInv,
         wire' = wire, DOMAIN verdict' \subseteq {m.id : m \in wire},
         \A d \in Devices, r \in Records :
           /\ ReachOf(slot[d][r], slot'[d][r])
           /\ batch'[d][r] \in {batch[d][r], NoEnvelope}
  PROVE  WireInv'
<1>1. \A m \in wire : m.id[3] <= slot'[m.id[1]][m.id[2]].n
  <2> SUFFICES ASSUME NEW m \in wire PROVE m.id[3] <= slot'[m.id[1]][m.id[2]].n
    OBVIOUS
  <2> DEFINE s == slot[m.id[1]][m.id[2]]
             t == slot'[m.id[1]][m.id[2]]
  <2>0. s \in Slot /\ t \in Slot /\ ReachOf(s, t) /\ m.id[3] \in Nat
    <3>1. m.id[1] \in Devices /\ m.id[2] \in Records /\ m.id[3] \in Nat
      BY WireShape
    <3>2. /\ slot \in [Devices -> [Records -> Slot]]
          /\ slot' \in [Devices -> [Records -> Slot]]
      BY DEF TypeInv, TypeOK
    <3>3. s \in Slot /\ t \in Slot
      BY <3>1, <3>2
    <3> QED
      BY <3>1, <3>3
  <2>1. s.n \in Nat /\ t.n \in Nat /\ t.n >= s.n
    BY <2>0 DEF Slot, ReachOf
  <2>2. m.id[3] <= s.n
    BY DEF WireInv
  <2> QED
    BY <2>0, <2>1, <2>2
<1>2. ASSUME NEW d \in Devices, NEW r \in Records
      PROVE  /\ slot'[d][r].fly # NoEnvelope => Message(d, r, slot'[d][r].fly) \in wire
             /\ batch'[d][r] # NoEnvelope => Message(d, r, batch'[d][r]) \in wire
  <2>1. /\ slot'[d][r].fly \in {slot[d][r].fly, NoEnvelope}
        /\ batch'[d][r] \in {batch[d][r], NoEnvelope}
    BY DEF ReachOf
  <2>2. /\ slot[d][r].fly # NoEnvelope => Message(d, r, slot[d][r].fly) \in wire
        /\ batch[d][r] # NoEnvelope => Message(d, r, batch[d][r]) \in wire
    BY DEF WireInv
  <2>3. slot'[d][r].fly # NoEnvelope => Message(d, r, slot'[d][r].fly) \in wire
    BY <2>1, <2>2, Zenon
  <2>4. batch'[d][r] # NoEnvelope => Message(d, r, batch'[d][r]) \in wire
    BY <2>1, <2>2, Zenon
  <2> QED BY <2>3, <2>4
<1>3. ASSUME NEW d \in Devices, NEW r \in Records, NEW m \in wire,
             Dirty(slot'[d][r]), m.id = <<d, r, slot'[d][r].pend.n>>
      PROVE  slot'[d][r].fly = slot'[d][r].pend
  <2> DEFINE s == slot[d][r]
             t == slot'[d][r]
  <2>1. /\ s.n \in Nat /\ s.pend \in Envelopes /\ t.pend \in Envelopes
        /\ t.pend # NoEnvelope
        /\ ReachOf(s, t)
        /\ m.id[3] <= s.n /\ m.id[3] = t.pend.n /\ t.pend.n \in Nat
        /\ m.id[3] \in Nat
    <3>1. s \in Slot /\ t \in Slot
      BY DEF TypeInv, TypeOK
    <3>2. m.id[1] = d /\ m.id[2] = r /\ m.id[3] = t.pend.n
      BY <1>3
    <3>3. m.id[3] <= s.n /\ m.id[3] \in Nat
      BY <3>2, WireShape DEF WireInv
    <3> QED
      BY <1>3, <3>1, <3>2, <3>3 DEF Slot, Envelopes, Dirty
  <2>2. ~(t.pend.n > s.n)
    BY <2>1
  <2>3. t.pend = s.pend
    BY <2>1, <2>2 DEF ReachOf
  <2>4. s.fly = s.pend
    BY <1>3, <2>1, <2>3 DEF WireInv, Dirty
  <2> QED
    BY <2>1, <2>2, <2>3, <2>4 DEF ReachOf
<1> QED
  BY <1>1, <1>2, <1>3 DEF WireInv

(* Nothing has been sent at first.                                          *)
LEMMA WireInvInit == Init => WireInv
BY DEF Init, WireInv, NoBatch, EmptySlot, Dirty

(* A local transaction sends nothing.                                       *)
LEMMA QueuedReaches ==
  ASSUME NEW s \in Slot, NEW t \in Slot, t.fly = s.fly, Queued(s, t)
  PROVE  ReachOf(s, t)
BY DEF Queued, ReachOf, Slot

(* The batch in hand is kept or dropped.                                    *)
BatchKept ==
  \A d \in Devices, r \in Records : batch'[d][r] \in {batch[d][r], NoEnvelope}

(* Only the transaction that seals a push request fills the batch.          *)
LEMMA BatchSteps ==
  ASSUME TypeInv, [Next]_vars
  PROVE  BatchKept \/ \E d \in Devices : PreparePush(d)
<1>1. batch \in [Devices -> [Records -> Envelopes]]
  BY DEF TypeInv, TypeOK, Envelopes
<1>2. ASSUME NEW d \in Devices, batch' = [batch EXCEPT ![d] = NoBatch]
      PROVE  BatchKept
  BY <1>1, <1>2 DEF NoBatch, BatchKept
<1>3. ASSUME UNCHANGED batch PROVE BatchKept
  BY <1>3 DEF BatchKept
<1>4. ASSUME NEW d \in Devices, UserNext(d) PROVE UNCHANGED batch
  BY <1>4 DEF UserNext, EditBound, EditUnbound, EditSlot, worker
<1>5. ASSUME NEW d \in Devices, SessionNext(d)
      PROVE  UNCHANGED batch \/ batch' = [batch EXCEPT ![d] = NoBatch]
  BY <1>5 DEF SessionNext, FailRun, SignOut, SignIn, StopWorker, worker
<1>6. ASSUME NEW d \in Devices, WorkerNext(d)
      PROVE  \/ UNCHANGED batch
             \/ PreparePush(d)
             \/ batch' = [batch EXCEPT ![d] = NoBatch]
  BY <1>6 DEF WorkerNext, StartRun, PullPage, CommitPullPage, CompleteBootstrap,
              FinishRun, CommitPushPrefix
<1>7. CASE ServerNext
  <2>1. UNCHANGED batch
    BY <1>7 DEF ServerNext, ApplyMutation, SupersedeMutation, Tick, worker
  <2> QED
    BY <1>3, <2>1
<1> QED
  BY <1>2, <1>3, <1>4, <1>5, <1>6, <1>7 DEF Next, vars, worker

(* A new request takes a number no request has: the pending envelope was    *)
(* frozen with a fresh one, and is sent only when nothing is in flight.     *)
LEMMA WireInvNext ==
  TypeInv /\ TypeInv' /\ WireInv /\ [Next]_vars => WireInv'
<1> SUFFICES ASSUME TypeInv, TypeInv', WireInv, [Next]_vars PROVE WireInv'
  OBVIOUS
<1>0. /\ \A d \in Devices, r \in Records : slot[d][r] \in Slot /\ slot'[d][r] \in Slot
      /\ DOMAIN verdict \subseteq {m.id : m \in wire}
  <2>1. slot \in [Devices -> [Records -> Slot]] /\ slot' \in [Devices -> [Records -> Slot]]
    BY DEF TypeInv, TypeOK
  <2>2. DOMAIN verdict \subseteq {m.id : m \in wire}
    BY DEF WireInv
  <2> QED
    BY <2>1, <2>2
<1>r. \A d \in Devices, r \in Records :
        slot'[d][r] = slot[d][r] => ReachOf(slot[d][r], slot'[d][r])
  BY <1>0 DEF ReachOf, Slot
<1>1. ASSUME NEW d \in Devices, PreparePush(d) PROVE WireInv'
  <2>1. /\ RowGood(d)
        /\ \A r \in Records : Sent(d, r)
        /\ batch' \in [Devices -> [Records -> Envelopes]]
        /\ \A e \in Devices \ {d} : batch'[e] = batch[e]
        /\ wire' = wire \cup {Message(d, r, batch'[d][r]) :
                                r \in {q \in Records : batch'[d][q] # NoEnvelope}}
        /\ verdict' = verdict
    BY <1>1, PreparePushEffect
  <2>2. ASSUME NEW m \in wire' \ wire
        PROVE  \E r \in Records :
                 /\ m = Message(d, r, batch'[d][r])
                 /\ batch'[d][r] = slot[d][r].pend
                 /\ slot[d][r].fly = NoEnvelope
                 /\ slot'[d][r].fly = slot[d][r].pend
                 /\ Dirty(slot[d][r])
                 /\ m.id = <<d, r, slot[d][r].pend.n>>
    <3>1. PICK r \in Records :
            batch'[d][r] # NoEnvelope /\ m = Message(d, r, batch'[d][r])
      BY <2>1
    <3>2. Sent(d, r)
      BY <2>1
    <3>3. slot'[d][r].fly = batch'[d][r] /\ batch'[d][r] = Outgoing(slot[d][r])
      BY <3>1, <3>2 DEF Sent
    <3>4. slot[d][r].fly = NoEnvelope
      BY <2>2, <3>1, <3>3 DEF WireInv, Outgoing
    <3>5. batch'[d][r] = slot[d][r].pend
      BY <3>3, <3>4 DEF Outgoing
    <3> QED
      BY <3>1, <3>3, <3>4, <3>5 DEF Message, Dirty
  <2>3. ASSUME NEW m \in wire' \ wire, NEW x \in wire
        PROVE  m.id # x.id
    <3>1. PICK r \in Records :
            /\ slot[d][r].fly = NoEnvelope
            /\ Dirty(slot[d][r])
            /\ m.id = <<d, r, slot[d][r].pend.n>>
      BY <2>2
    <3>2. x.id = m.id => slot[d][r].fly = slot[d][r].pend
      BY <3>1 DEF WireInv
    <3> QED
      BY <3>1, <3>2 DEF Dirty
  <2>4. \A m1, m2 \in wire' : m1.id = m2.id => m1 = m2
    <3> SUFFICES ASSUME NEW m1 \in wire', NEW m2 \in wire', m1.id = m2.id
                 PROVE  m1 = m2
      OBVIOUS
    <3>1. CASE m1 \in wire /\ m2 \in wire
      BY <3>1 DEF WireInv
    <3>2. CASE m1 \notin wire /\ m2 \notin wire
      <4>1. PICK r1 \in Records :
              m1 = Message(d, r1, batch'[d][r1]) /\ m1.id = <<d, r1, slot[d][r1].pend.n>>
        BY <2>2, <3>2
      <4>2. PICK r2 \in Records :
              m2 = Message(d, r2, batch'[d][r2]) /\ m2.id = <<d, r2, slot[d][r2].pend.n>>
        BY <2>2, <3>2
      <4>3. r1 = r2
        BY <4>1, <4>2
      <4> QED
        BY <4>1, <4>2, <4>3
    <3> QED
      BY <2>3, <3>1, <3>2
  <2>5. \A id \in DOMAIN verdict' : \E m \in wire' : m.id = id
    BY <2>1 DEF WireInv
  <2>6. \A e \in Devices, r \in Records :
          slot'[e][r].n = slot[e][r].n /\ slot'[e][r].pend = slot[e][r].pend
    BY <2>1 DEF RowGood, Sent
  <2>7. ASSUME NEW m \in wire' PROVE m.id[3] <= slot'[m.id[1]][m.id[2]].n
    <3>1. CASE m \in wire
      BY <2>6, <3>1, WireShape DEF WireInv
    <3>2. CASE m \notin wire
      <4>1. PICK r \in Records :
              Dirty(slot[d][r]) /\ m.id = <<d, r, slot[d][r].pend.n>>
        BY <2>2, <3>2
      <4>2. slot[d][r].pend.n = slot[d][r].n /\ slot[d][r].n \in Nat
        BY <1>0, <4>1 DEF TypeInv, SlotsGood, GoodSlot, Slot
      <4> QED
        BY <2>6, <4>1, <4>2
    <3> QED
      BY <3>1, <3>2
  <2>8. ASSUME NEW e \in Devices, NEW r \in Records
        PROVE  /\ slot'[e][r].fly # NoEnvelope => Message(e, r, slot'[e][r].fly) \in wire'
               /\ batch'[e][r] # NoEnvelope => Message(e, r, batch'[e][r]) \in wire'
    <3>1. CASE e = d
      <4>1. batch'[d][r] # NoEnvelope => Message(d, r, batch'[d][r]) \in wire'
        BY <2>1
      <4>2. slot'[d][r].fly \in {slot[d][r].fly, batch'[d][r]}
        BY <2>1 DEF Sent
      <4>3. slot[d][r].fly # NoEnvelope => Message(d, r, slot[d][r].fly) \in wire'
        BY <2>1 DEF WireInv
      <4> QED
        BY <3>1, <4>1, <4>2, <4>3
    <3>2. CASE e # d
      BY <2>1, <3>2 DEF RowGood, WireInv
    <3> QED
      BY <3>1, <3>2
  <2>9. ASSUME NEW e \in Devices, NEW r \in Records, NEW m \in wire',
               Dirty(slot'[e][r]), m.id = <<e, r, slot'[e][r].pend.n>>
        PROVE  slot'[e][r].fly = slot'[e][r].pend
    <3>1. CASE m \in wire
      <4>1. slot[e][r].fly = slot[e][r].pend /\ slot[e][r].fly # NoEnvelope
        BY <2>6, <2>9, <3>1 DEF WireInv, Dirty
      <4>2. CASE e = d
        <5>1. Sent(d, r)
          BY <2>1
        <5>2. slot'[d][r].fly \in {slot[d][r].fly, Outgoing(slot[d][r])}
          BY <5>1 DEF Sent
        <5> QED
          BY <2>6, <4>1, <4>2, <5>2 DEF Outgoing
      <4>3. CASE e # d
        BY <2>1, <4>1, <4>3 DEF RowGood
      <4> QED
        BY <4>2, <4>3
    <3>2. CASE m \notin wire
      <4>1. PICK q \in Records :
              /\ slot'[d][q].fly = slot[d][q].pend
              /\ m.id = <<d, q, slot[d][q].pend.n>>
        BY <2>2, <3>2
      <4>2. e = d /\ r = q
        BY <2>9, <4>1
      <4> QED
        BY <2>6, <4>1, <4>2
    <3> QED
      BY <3>1, <3>2
  <2> QED
    BY <2>4, <2>5, <2>7, <2>8, <2>9 DEF WireInv
<1>2. CASE QuietStep /\ BatchKept
  <2>1. wire' = wire /\ verdict' = verdict
    BY <1>2 DEF QuietStep
  <2>2. \A d \in Devices, r \in Records : ReachOf(slot[d][r], slot'[d][r])
    BY <1>0, <1>2, QueuedReaches DEF QuietStep, QuietSlots, Local
  <2> QED
    BY <1>0, <1>2, <2>1, <2>2, WireUntouched DEF BatchKept
<1>3. ASSUME NEW d \in Devices, CommitPullPage(d), BatchKept PROVE WireInv'
  <2>1. wire' = wire /\ verdict' = verdict
    BY <1>3 DEF CommitPullPage, server
  <2>2. RowGood(d) /\ \A r \in Records : Pulled(d, r)
    BY <1>3, CommitPullPageEffect
  <2>3. ASSUME NEW r \in Records PROVE ReachOf(slot[d][r], slot'[d][r])
    BY <1>0, <2>2 DEF Pulled, ReachOf, Slot
  <2>4. \A e \in Devices, r \in Records : ReachOf(slot[e][r], slot'[e][r])
    BY <1>r, <2>2, <2>3 DEF RowGood
  <2> QED
    BY <1>0, <1>3, <2>1, <2>4, WireUntouched DEF BatchKept
<1>4. ASSUME NEW d \in Devices, CommitPushPrefix(d), BatchKept PROVE WireInv'
  <2>1. /\ RowGood(d) /\ \A r \in Records : Answered(d, r)
        /\ UNCHANGED <<wire, verdict>>
    BY <1>4, CommitPushPrefixEffect
  <2>2. ASSUME NEW r \in Records PROVE ReachOf(slot[d][r], slot'[d][r])
    <3>1. Answered(d, r)
      BY <2>1
    <3> QED
      BY <1>0, <3>1 DEF Answered, ReachOf, Slot
  <2>3. \A e \in Devices, r \in Records : ReachOf(slot[e][r], slot'[e][r])
    BY <1>r, <2>1, <2>2 DEF RowGood
  <2> QED
    BY <1>0, <1>4, <2>1, <2>3, WireUntouched DEF BatchKept
<1>5. ASSUME NEW x \in wire, ApplyMutation(x) \/ SupersedeMutation(x), BatchKept
      PROVE  WireInv'
  <2>1. wire' = wire /\ slot' = slot /\ DOMAIN verdict' = DOMAIN verdict \cup {x.id}
    BY <1>5 DEF ApplyMutation, SupersedeMutation, Decide, database
  <2>2. \A e \in Devices, r \in Records : ReachOf(slot[e][r], slot'[e][r])
    BY <1>r, <2>1
  <2> QED
    BY <1>0, <1>5, <2>1, <2>2, WireUntouched DEF BatchKept
<1> QED
  BY <1>1, <1>2, <1>3, <1>4, <1>5, StepKinds, BatchSteps

(* The record store: heads point at their records, no revision is past the  *)
(* head of its record, and a stored result names a revision of the record   *)
(* and, when applied, with the body that asked for it.                      *)
ServerInv ==
  /\ \A r \in Records : head[r] > 0 => log[head[r]].rec = r
  /\ \A k \in 1..Len(log) : k <= head[log[k].rec]
  /\ \A id \in DOMAIN verdict : log[verdict[id].rev].rec = id[2]
  /\ \A m \in wire :
       m.id \in DOMAIN verdict /\ verdict[m.id].applied =>
         log[verdict[m.id].rev].val = m.val

(* A published revision is a record version.                                *)
LEMMA LogEntry ==
  ASSUME TypeInv, NEW k \in 1..Len(log)
  PROVE  log[k] \in Published /\ log[k].rec \in Records
<1>1. log \in Seq(Published)
  BY DEF TypeInv, TypeOK
<1>2. log[k] \in Published
  BY <1>1
<1> QED
  BY <1>2 DEF Published

(* The record store of an empty account.                                    *)
LEMMA ServerInvInit == Init => ServerInv
BY DEF Init, ServerInv

(* Ruling on a request keeps the record store consistent, because an        *)
(* identity names one body.                                                 *)
LEMMA ServerInvNext ==
  TypeInv /\ WireInv /\ WireInv' /\ ServerInv /\ [Next]_vars => ServerInv'
<1> SUFFICES ASSUME TypeInv, WireInv, WireInv', ServerInv, [Next]_vars
             PROVE  ServerInv'
  OBVIOUS
<1>0. /\ log \in Seq(Published) /\ Len(log) \in Nat
      /\ head \in [Records -> Nat] /\ \A r \in Records : head[r] <= Len(log)
      /\ \A id \in DOMAIN verdict : verdict[id].rev \in 1..Len(log)
  BY DEF TypeInv, TypeOK, LogOK, Result
<1>1. ASSUME UNCHANGED <<log, head, verdict, wire>> PROVE ServerInv'
  BY <1>1 DEF ServerInv
<1>2. ASSUME NEW d \in Devices, PreparePush(d) PROVE ServerInv'
  <2>1. wire \subseteq wire' /\ UNCHANGED <<log, head, verdict>>
    BY <1>2, PreparePushEffect
  <2>2. ASSUME NEW m \in wire', m.id \in DOMAIN verdict PROVE m \in wire
    <3>1. PICK x \in wire : x.id = m.id
      BY <2>2 DEF WireInv
    <3> QED
      BY <2>1, <3>1 DEF WireInv
  <2> QED
    BY <2>1, <2>2 DEF ServerInv
<1>3. ASSUME NEW m \in wire, ApplyMutation(m) PROVE ServerInv'
  <2> DEFINE p == [rec |-> m.id[2], val |-> m.val, at |-> EffectiveTime(m)]
             n == Len(log) + 1
  <2>1. /\ log' = Append(log, p)
        /\ head' = [head EXCEPT ![m.id[2]] = n]
        /\ verdict' = [id \in DOMAIN verdict \cup {m.id} |->
                         IF id = m.id THEN [applied |-> TRUE, rev |-> n]
                         ELSE verdict[id]]
        /\ wire' = wire
        /\ m.id[2] \in Records
    BY <1>3, WireShape DEF ApplyMutation, Decide
  <2>2. p.rec = m.id[2] /\ p.val = m.val
    OBVIOUS
  <2> HIDE DEF p
  <2>3. Len(log') = n /\ log'[n] = p /\ \A k \in 1..Len(log) : log'[k] = log[k]
    BY <1>0, <2>1
  <2>4. \A r \in Records : head'[r] = IF r = m.id[2] THEN n ELSE head[r]
    BY <1>0, <2>1
  <2>5. \A r \in Records : head'[r] > 0 => log'[head'[r]].rec = r
    BY <1>0, <2>2, <2>3, <2>4 DEF ServerInv
  <2>6. \A k \in 1..Len(log') : k <= head'[log'[k].rec]
    <3> SUFFICES ASSUME NEW k \in 1..Len(log') PROVE k <= head'[log'[k].rec]
      OBVIOUS
    <3>1. CASE k = n
      BY <1>0, <2>1, <2>2, <2>3, <2>4, <3>1
    <3>2. CASE k # n
      <4>1. k \in 1..Len(log) /\ log'[k] = log[k] /\ k <= head[log[k].rec]
        BY <1>0, <2>3, <3>2 DEF ServerInv
      <4>2. log[k] \in Published /\ log[k].rec \in Records
        BY <4>1, LogEntry
      <4> QED
        BY <1>0, <2>4, <4>1, <4>2
    <3> QED
      BY <3>1, <3>2
  <2>7. \A id \in DOMAIN verdict' :
           verdict'[id].rev = IF id = m.id THEN n ELSE verdict[id].rev
    BY <2>1
  <2>8. \A id \in DOMAIN verdict' : log'[verdict'[id].rev].rec = id[2]
    <3> SUFFICES ASSUME NEW id \in DOMAIN verdict'
                 PROVE  log'[verdict'[id].rev].rec = id[2]
      OBVIOUS
    <3>1. CASE id = m.id
      BY <2>2, <2>3, <2>7, <3>1
    <3>2. CASE id # m.id
      <4>1. id \in DOMAIN verdict /\ verdict'[id].rev = verdict[id].rev
        BY <2>1, <2>7, <3>2
      <4> QED
        BY <1>0, <2>3, <4>1 DEF ServerInv
    <3> QED
      BY <3>1, <3>2
  <2>9. \A x \in wire' :
           x.id \in DOMAIN verdict' /\ verdict'[x.id].applied =>
             log'[verdict'[x.id].rev].val = x.val
    <3> SUFFICES ASSUME NEW x \in wire, x.id \in DOMAIN verdict', verdict'[x.id].applied
                 PROVE  log'[verdict'[x.id].rev].val = x.val
      BY <2>1
    <3>1. CASE x.id = m.id
      <4>1. x = m
        BY <3>1 DEF WireInv
      <4> QED
        BY <2>2, <2>3, <2>7, <4>1
    <3>2. CASE x.id # m.id
      <4>1. x.id \in DOMAIN verdict /\ verdict'[x.id] = verdict[x.id]
        BY <2>1, <3>2
      <4> QED
        BY <1>0, <2>3, <4>1 DEF ServerInv
    <3> QED
      BY <3>1, <3>2
  <2> QED
    BY <2>5, <2>6, <2>8, <2>9 DEF ServerInv
<1>4. ASSUME NEW m \in wire, SupersedeMutation(m) PROVE ServerInv'
  <2>1. /\ UNCHANGED <<log, head, wire>>
        /\ verdict' = [id \in DOMAIN verdict \cup {m.id} |->
                         IF id = m.id THEN [applied |-> FALSE, rev |-> head[m.id[2]]]
                         ELSE verdict[id]]
        /\ head[m.id[2]] > 0 /\ m.id[2] \in Records
    BY <1>4, WireShape DEF SupersedeMutation, Decide, Wins
  <2>2. \A id \in DOMAIN verdict' : log[verdict'[id].rev].rec = id[2]
    BY <2>1 DEF ServerInv
  <2>3. \A x \in wire :
           x.id \in DOMAIN verdict' /\ verdict'[x.id].applied =>
             log[verdict'[x.id].rev].val = x.val
    BY <2>1 DEF ServerInv
  <2> QED
    BY <2>1, <2>2, <2>3 DEF ServerInv
<1>5. QuietStep => UNCHANGED <<log, head, verdict, wire>>
  BY DEF QuietStep
<1>6. ASSUME NEW d \in Devices, CommitPullPage(d) \/ CommitPushPrefix(d)
      PROVE  UNCHANGED <<log, head, verdict, wire>>
  BY <1>6 DEF CommitPullPage, CommitPushPrefix, server
<1> QED
  BY <1>1, <1>2, <1>3, <1>4, <1>5, <1>6, StepKinds

(* No mirror exists at first.                                               *)
LEMMA MirrorIsPublishedInit == Init => MirrorIsPublished
BY DEF Init, MirrorIsPublished, EmptySlot

(* The mirror of one record is what the server published.                   *)
MirrorOf(s, r) ==
  s.rrev > 0 =>
    /\ s.rrev <= Len(log)
    /\ log[s.rrev] = [rec |-> r, val |-> s.rval, at |-> s.rat]

(* Observing what was published leaves a mirror of what was published.      *)
LEMMA ObservedMirror ==
  ASSUME TypeInv, NEW r \in Records, NEW s, NEW t, MirrorOf(s, r),
         NEW record \in Record, record.rev \in 1..Len(log),
         log[record.rev] = [rec |-> r, val |-> record.val, at |-> record.at],
         Observed(s, t, record)
  PROVE  MirrorOf(t, r)
BY DEF Observed, SameMirror, MirrorOf

(* A mirror rebuilt from the sent body and its result is the published      *)
(* record: the result belongs to that body.                                 *)
LEMMA MirrorIsPublishedNext ==
  TypeInv /\ WireInv /\ ServerInv /\ MirrorIsPublished /\ [Next]_vars
    => MirrorIsPublished'
<1> SUFFICES ASSUME TypeInv, WireInv, ServerInv, MirrorIsPublished, [Next]_vars
             PROVE  MirrorIsPublished'
  OBVIOUS
<1>0. \A d \in Devices, r \in Records : MirrorOf(slot[d][r], r)
  BY DEF MirrorIsPublished, MirrorOf
<1>1. ASSUME log' = log,
             \A d \in Devices, r \in Records : MirrorOf(slot'[d][r], r)
      PROVE  MirrorIsPublished'
  BY <1>1 DEF MirrorIsPublished, MirrorOf
<1>2. ASSUME log' = log,
             \A d \in Devices, r \in Records : SameMirror(slot[d][r], slot'[d][r])
      PROVE  MirrorIsPublished'
  BY <1>0, <1>1, <1>2 DEF SameMirror, MirrorOf
<1>3. CASE QuietStep
  BY <1>2, <1>3 DEF QuietStep, QuietSlots, Local
<1>4. ASSUME NEW d \in Devices, CommitPullPage(d) PROVE MirrorIsPublished'
  <2>1. /\ RowGood(d) /\ \A r \in Records : Pulled(d, r)
        /\ log' = log
    BY <1>4, CommitPullPageEffect DEF CommitPullPage, server
  <2>2. ASSUME NEW r \in Records PROVE MirrorOf(slot'[d][r], r)
    <3>1. Pulled(d, r)
      BY <2>1
    <3>2. CASE SameMirror(slot[d][r], slot'[d][r])
      BY <1>0, <3>2 DEF SameMirror, MirrorOf
    <3>3. ASSUME NEW k \in page[d].revs, log[k].rec = r,
                 Observed(slot[d][r], slot'[d][r], AsRecord(k))
          PROVE  MirrorOf(slot'[d][r], r)
      <4>1. k \in 1..Len(log)
        BY DEF TypeInv, LogOK
      <4>2. log[k] \in Published
        BY <4>1 DEF TypeInv, TypeOK
      <4>3. log[k] = [rec |-> r, val |-> AsRecord(k).val, at |-> AsRecord(k).at]
        BY <3>3, <4>2 DEF Published, AsRecord
      <4>4. AsRecord(k) \in Record /\ AsRecord(k).rev = k
        BY <4>1, PageRecord
      <4> QED
        BY <1>0, <3>3, <4>1, <4>3, <4>4, ObservedMirror
    <3> QED
      BY <3>1, <3>2, <3>3 DEF Pulled
  <2> QED
    BY <1>0, <1>1, <2>1, <2>2 DEF RowGood
<1>5. ASSUME NEW d \in Devices, PreparePush(d) PROVE MirrorIsPublished'
  <2>1. RowGood(d) /\ (\A r \in Records : Sent(d, r)) /\ log' = log
    BY <1>5, PreparePushEffect
  <2>2. \A e \in Devices, r \in Records : SameMirror(slot[e][r], slot'[e][r])
    BY <2>1 DEF RowGood, Sent, SameMirror
  <2> QED
    BY <1>2, <2>1, <2>2
<1>6. ASSUME NEW d \in Devices, CommitPushPrefix(d) PROVE MirrorIsPublished'
  <2>1. RowGood(d) /\ (\A r \in Records : Answered(d, r)) /\ log' = log
    BY <1>6, CommitPushPrefixEffect
  <2>2. ASSUME NEW r \in Records PROVE MirrorOf(slot'[d][r], r)
    <3> DEFINE e == batch[d][r]
               id == Identity(d, r)
               x == verdict[id]
    <3>1. Answered(d, r)
      BY <2>1
    <3>2. CASE SameMirror(slot[d][r], slot'[d][r])
      BY <1>0, <3>2 DEF SameMirror, MirrorOf
    <3>3. CASE /\ e \in Envelope
               /\ id \in DOMAIN verdict
               /\ Observed(slot[d][r], slot'[d][r], ResultRecord(e, x))
      <4>1. /\ x \in Result
            /\ ResultRecord(e, x) \in Record
            /\ ResultRecord(e, x).rev = x.rev
            /\ x.rev \in 1..Len(log)
        BY <3>3, ResultIsRecord
      <4>2. log[x.rev] \in Published
        BY <4>1, LogEntry
      <4>3. log[x.rev].rec = r
        BY <3>3 DEF ServerInv, Identity
      <4>4. x.applied => log[x.rev].val = e.val
        <5>1. e # NoEnvelope
          BY <3>3, EnvelopeFacts
        <5>2. Message(d, r, e) \in wire
          BY <5>1 DEF WireInv
        <5>3. Message(d, r, e).id = id /\ Message(d, r, e).val = e.val
          BY DEF Message, Identity
        <5> QED
          BY <3>3, <5>2, <5>3 DEF ServerInv
      <4>5. log[x.rev] = [rec |-> r, val |-> ResultRecord(e, x).val,
                          at |-> ResultRecord(e, x).at]
        BY <4>2, <4>3, <4>4 DEF ResultRecord, AsRecord, Published
      <4> QED
        BY <1>0, <3>3, <4>1, <4>5, ObservedMirror
    <3> QED
      BY <3>1, <3>2, <3>3 DEF Answered
  <2> QED
    BY <1>0, <1>1, <2>1, <2>2 DEF RowGood
<1>7. ASSUME NEW m \in wire, ApplyMutation(m) \/ SupersedeMutation(m)
      PROVE  MirrorIsPublished'
  <2>1. slot' = slot
    BY <1>7 DEF ApplyMutation, SupersedeMutation, database
  <2>2. /\ Len(log) \in Nat /\ Len(log') >= Len(log) /\ Len(log') \in Nat
        /\ \A k \in 1..Len(log) : log'[k] = log[k]
    <3>1. log \in Seq(Published)
      BY DEF TypeInv, TypeOK
    <3>2. CASE ApplyMutation(m)
      <4> DEFINE p == [rec |-> m.id[2], val |-> m.val, at |-> EffectiveTime(m)]
      <4>1. log' = Append(log, p)
        BY <3>2 DEF ApplyMutation
      <4> HIDE DEF p
      <4> QED
        BY <3>1, <4>1
    <3>3. CASE SupersedeMutation(m)
      BY <3>1, <3>3 DEF SupersedeMutation
    <3> QED
      BY <1>7, <3>2, <3>3
  <2>3. \A d \in Devices, r \in Records : slot[d][r].rrev \in Nat
    BY DEF TypeInv, TypeOK, Slot
  <2> QED
    BY <2>1, <2>2, <2>3 DEF MirrorIsPublished
<1> QED
  BY <1>3, <1>4, <1>5, <1>6, <1>7, StepKinds

(* Observing never takes a mirror back.                                     *)
LEMMA ObservedForward ==
  ASSUME NEW s \in Slot, NEW t, NEW record \in Record, Observed(s, t, record)
  PROVE  t.rrev >= s.rrev /\ t.rrev >= record.rev
BY DEF Observed, SameMirror, Record, Slot

(* No step takes a mirror back.                                             *)
LEMMA MirrorsForward ==
  ASSUME TypeInv, [Next]_vars, NEW e \in Devices, NEW q \in Records
  PROVE  slot'[e][q].rrev >= slot[e][q].rrev
<1>0. slot[e][q] \in Slot /\ slot[e][q].rrev \in Nat
  BY DEF TypeInv, TypeOK, Slot
<1>1. ASSUME SameMirror(slot[e][q], slot'[e][q])
      PROVE  slot'[e][q].rrev >= slot[e][q].rrev
  BY <1>0, <1>1 DEF SameMirror
<1>2. CASE QuietStep
  BY <1>1, <1>2 DEF QuietStep, QuietSlots, Local
<1>3. CASE slot'[e] = slot[e]
  BY <1>0, <1>3
<1>4. ASSUME CommitPullPage(e)
      PROVE  slot'[e][q].rrev >= slot[e][q].rrev
  <2>1. Pulled(e, q)
    BY <1>4, CommitPullPageEffect
  <2>2. ASSUME NEW k \in page[e].revs, Observed(slot[e][q], slot'[e][q], AsRecord(k))
        PROVE  slot'[e][q].rrev >= slot[e][q].rrev
    <3>1. k \in 1..Len(log)
      BY DEF TypeInv, LogOK
    <3> QED
      BY <1>0, <2>2, <3>1, PageRecord, ObservedForward
  <2> QED
    BY <1>1, <2>1, <2>2 DEF Pulled
<1>5. ASSUME PreparePush(e)
      PROVE  slot'[e][q].rrev >= slot[e][q].rrev
  BY <1>1, <1>5, PreparePushEffect DEF Sent
<1>6. ASSUME CommitPushPrefix(e)
      PROVE  slot'[e][q].rrev >= slot[e][q].rrev
  <2>1. Answered(e, q)
    BY <1>6, CommitPushPrefixEffect
  <2> QED
    BY <1>0, <1>1, <2>1, ObservedForward DEF Answered
<1>7. ASSUME NEW d \in Devices \ {e},
             CommitPullPage(d) \/ PreparePush(d) \/ CommitPushPrefix(d)
      PROVE  slot'[e] = slot[e]
  <2>1. RowGood(d)
    BY <1>7, CommitPullPageEffect, PreparePushEffect, CommitPushPrefixEffect
  <2> QED
    BY <2>1 DEF RowGood
<1>8. ASSUME NEW m \in wire, ApplyMutation(m) \/ SupersedeMutation(m)
      PROVE  slot'[e] = slot[e]
  BY <1>8 DEF ApplyMutation, SupersedeMutation, database
<1> QED
  BY <1>2, <1>3, <1>4, <1>5, <1>6, <1>7, <1>8, StepKinds

(* A pull page in hand: it reaches no further than the log, and every       *)
(* record whose head lies between the cursor and its end is in it.          *)
PageSound(d) ==
  /\ cursor[d] <= page[d].next
  /\ page[d].next <= Len(log)
  /\ \A k, l \in page[d].revs : log[k].rec = log[l].rec => k = l
  /\ \A r \in Records :
       cursor[d] < head[r] /\ head[r] <= page[d].next => head[r] \in page[d].revs

(* The inductive form of CursorLeavesNoHole: it needs what the page in      *)
(* hand still promises, though records have moved since it was read.        *)
CursorInv ==
  /\ \A d \in Devices : cursor[d] <= Len(log)
  /\ \A d \in Devices : pc[d] = "page" => PageSound(d)
  /\ CursorLeavesNoHole

(* Nothing has been published at first.                                     *)
LEMMA CursorInvInit == Init => CursorInv
BY DEF Init, CursorInv, CursorLeavesNoHole, EmptySlot

(* Only applying a page moves the cursor, and only reading one puts it in   *)
(* the worker's hands.                                                      *)
LEMMA PageSteps ==
  ASSUME TypeInv, [Next]_vars, NEW d \in Devices
  PROVE  /\ cursor'[d] = cursor[d] \/ CommitPullPage(d)
         /\ pc'[d] = "page" =>
              \/ pc[d] = "page" /\ page'[d] = page[d] /\ cursor'[d] = cursor[d]
              \/ PullPage(d)
<1> USE DEF server, database, worker
<1>0. /\ cursor \in [Devices -> Nat] /\ pc \in [Devices -> Phases]
      /\ page \in [Devices -> [revs : SUBSET Nat, next : Nat, more : BOOLEAN]]
  BY DEF TypeInv, TypeOK
<1> DEFINE Kept == pc'[d] = pc[d] /\ page'[d] = page[d] /\ cursor'[d] = cursor[d]
           Left == pc'[d] # "page" /\ cursor'[d] = cursor[d]
<1>1. CASE UNCHANGED vars
  BY <1>1 DEF vars
<1>2. ASSUME NEW e \in Devices, UserNext(e) PROVE Kept
  BY <1>2 DEF UserNext, EditBound, EditUnbound, EditSlot
<1>3. ASSUME NEW e \in Devices, SessionNext(e) PROVE Kept \/ Left
  BY <1>0, <1>3 DEF SessionNext, FailRun, SignOut, SignIn, StopWorker
<1>4. ASSUME NEW e \in Devices,
             StartRun(e) \/ CompleteBootstrap(e) \/ PreparePush(e)
               \/ FinishRun(e) \/ CommitPushPrefix(e)
      PROVE  Kept \/ Left
  BY <1>0, <1>4 DEF StartRun, CompleteBootstrap, PreparePush, FinishRun, CommitPushPrefix
<1>5. ASSUME NEW e \in Devices, PullPage(e)
      PROVE  cursor'[d] = cursor[d] /\ (Kept \/ PullPage(d))
  <2>1. cursor'[d] = cursor[d] /\ (e # d => Kept)
    BY <1>0, <1>5 DEF PullPage
  <2> QED
    BY <1>5, <2>1
<1>6. ASSUME NEW e \in Devices, CommitPullPage(e)
      PROVE  Kept \/ (CommitPullPage(d) /\ pc'[d] # "page")
  <2>1. e # d => Kept
    BY <1>0, <1>6 DEF CommitPullPage
  <2>2. e = d => pc'[d] # "page"
    BY <1>0, <1>6 DEF CommitPullPage
  <2> QED
    BY <1>6, <2>1, <2>2
<1>7. CASE ServerNext
  BY <1>7 DEF ServerNext, ApplyMutation, SupersedeMutation, Tick
<1> QED
  BY <1>1, <1>2, <1>3, <1>4, <1>5, <1>6, <1>7 DEF Next, WorkerNext

(* Only an applied mutation moves a head, and it moves it past everything   *)
(* published.                                                               *)
LEMMA HeadSteps ==
  ASSUME TypeInv, [Next]_vars
  PROVE  \/ UNCHANGED <<log, head>>
         \/ /\ UNCHANGED <<slot, cursor, page, pc>>
            /\ Len(log') = Len(log) + 1
            /\ \A k \in 1..Len(log) : log'[k] = log[k]
            /\ \A r \in Records : head'[r] \in {head[r], Len(log) + 1}
<1>1. ASSUME NEW m \in wire, ApplyMutation(m)
      PROVE  /\ UNCHANGED <<slot, cursor, page, pc>>
             /\ Len(log') = Len(log) + 1
             /\ \A k \in 1..Len(log) : log'[k] = log[k]
             /\ \A r \in Records : head'[r] \in {head[r], Len(log) + 1}
  <2> DEFINE p == [rec |-> m.id[2], val |-> m.val, at |-> EffectiveTime(m)]
  <2>1. log \in Seq(Published) /\ head \in [Records -> Nat]
    BY DEF TypeInv, TypeOK
  <2>2. /\ log' = Append(log, p) /\ head' = [head EXCEPT ![m.id[2]] = Len(log) + 1]
        /\ UNCHANGED <<slot, cursor, page, pc>>
    BY <1>1 DEF ApplyMutation, database, worker
  <2> HIDE DEF p
  <2> QED
    BY <2>1, <2>2
<1>2. ASSUME NEW m \in wire, SupersedeMutation(m) PROVE UNCHANGED <<log, head>>
  BY <1>2 DEF SupersedeMutation
<1>3. ASSUME NEW d \in Devices, CommitPullPage(d) \/ PreparePush(d) \/ CommitPushPrefix(d)
      PROVE  UNCHANGED <<log, head>>
  BY <1>3 DEF CommitPullPage, PreparePush, CommitPushPrefix, server
<1> QED
  BY <1>1, <1>2, <1>3, StepKinds DEF QuietStep

(* A record that moves while a page is in hand moves past the page's end;   *)
(* one that does not is in the page, and is mirrored when the cursor        *)
(* passes it.                                                               *)
LEMMA CursorInvNext ==
  /\ TypeInv /\ TypeInv' /\ ServerInv /\ ServerInv'
  /\ MirrorIsPublished /\ MirrorIsPublished'
  /\ CursorInv /\ [Next]_vars
  => CursorInv'
<1> SUFFICES ASSUME TypeInv, TypeInv', ServerInv, ServerInv',
                    MirrorIsPublished, MirrorIsPublished', CursorInv, [Next]_vars
             PROVE  CursorInv'
  OBVIOUS
<1>0. /\ Len(log) \in Nat /\ Len(log') \in Nat
      /\ cursor \in [Devices -> Nat] /\ cursor' \in [Devices -> Nat]
      /\ head \in [Records -> Nat] /\ head' \in [Records -> Nat]
  <2>1. Len(log) \in Nat /\ cursor \in [Devices -> Nat] /\ head \in [Records -> Nat]
    BY DEF TypeInv, TypeOK
  <2>2. Len(log') \in Nat /\ cursor' \in [Devices -> Nat] /\ head' \in [Records -> Nat]
    BY DEF TypeInv, TypeOK
  <2> QED
    BY <2>1, <2>2
<1>t. \A d \in Devices :
        /\ page[d].next \in Nat /\ page[d].revs \subseteq 1..Len(log)
  BY DEF TypeInv, TypeOK, LogOK
<1>1. Len(log') >= Len(log)
  BY <1>0, HeadSteps
<1>2. ASSUME NEW d \in Devices PROVE cursor'[d] <= Len(log')
  <2>1. CASE cursor'[d] = cursor[d]
    BY <1>0, <1>1, <2>1 DEF CursorInv
  <2>2. CASE CommitPullPage(d)
    <3>1. PageSound(d) /\ cursor'[d] = page[d].next
      BY <1>0, <2>2 DEF CursorInv, CommitPullPage, PageCursor
    <3> QED
      BY <1>0, <1>1, <1>t, <3>1 DEF PageSound
  <2> QED
    BY <2>1, <2>2, PageSteps
<1>3. ASSUME NEW d \in Devices, pc'[d] = "page" PROVE PageSound(d)'
  <2>1. CASE PullPage(d)
    <3>1. /\ UNCHANGED <<log, head, cursor>>
          /\ page \in [Devices -> [revs : SUBSET Nat, next : Nat, more : BOOLEAN]]
      BY <2>1 DEF PullPage, server, database, TypeInv, TypeOK
    <3>2. PICK next \in IF Owed(d) = {} THEN {cursor[d]} ELSE Owed(d) :
            page' = [page EXCEPT ![d] = [revs |-> {k \in Owed(d) : k <= next},
                                         next |-> next,
                                         more |-> \E k \in Owed(d) : k > next]]
      BY <2>1 DEF PullPage
    <3>3. page'[d].next = next /\ page'[d].revs = {k \in Owed(d) : k <= next}
      BY <3>1, <3>2
    <3>4. \A k \in Owed(d) :
             /\ k \in Nat /\ cursor[d] < k /\ k <= Len(log)
             /\ \E r \in Records : k = head[r] /\ log[k].rec = r
      BY <1>0 DEF Owed, TypeInv, LogOK, ServerInv
    <3>5. next \in Nat /\ cursor[d] <= next /\ next <= Len(log)
      BY <1>0, <3>2, <3>4 DEF CursorInv
    <3>6. \A k, l \in Owed(d) : log[k].rec = log[l].rec => k = l
      BY <3>4
    <3>7. \A r \in Records : cursor[d] < head[r] => head[r] \in Owed(d)
      BY <1>0 DEF Owed
    <3> QED
      BY <3>1, <3>3, <3>5, <3>6, <3>7 DEF PageSound
  <2>2. CASE pc[d] = "page" /\ page'[d] = page[d] /\ cursor'[d] = cursor[d]
    <3>1. PageSound(d)
      BY <2>2 DEF CursorInv
    <3>2. CASE UNCHANGED <<log, head>>
      BY <2>2, <3>1, <3>2 DEF PageSound
    <3>3. CASE /\ Len(log') = Len(log) + 1
               /\ \A k \in 1..Len(log) : log'[k] = log[k]
               /\ \A r \in Records : head'[r] \in {head[r], Len(log) + 1}
      <4>1. page'[d].next <= Len(log') /\ cursor'[d] <= page'[d].next
        BY <1>0, <1>t, <2>2, <3>1, <3>3 DEF PageSound
      <4>2. \A k, l \in page'[d].revs : log'[k].rec = log'[l].rec => k = l
        BY <1>t, <2>2, <3>1, <3>3 DEF PageSound
      <4>3. \A r \in Records :
               cursor'[d] < head'[r] /\ head'[r] <= page'[d].next
                 => head'[r] \in page'[d].revs
        BY <1>0, <1>t, <2>2, <3>1, <3>3 DEF PageSound
      <4> QED
        BY <4>1, <4>2, <4>3 DEF PageSound
    <3> QED
      BY <3>2, <3>3, HeadSteps
  <2> QED
    BY <1>3, <2>1, <2>2, PageSteps
<1>4. ASSUME NEW d \in Devices, NEW r \in Records, head'[r] <= cursor'[d]
      PROVE  slot'[d][r].rrev = head'[r]
  <2>0. slot[d][r] \in Slot /\ slot[d][r].rrev \in Nat /\ slot'[d][r].rrev \in Nat
    <3>1. slot[d][r] \in Slot
      BY DEF TypeInv, TypeOK
    <3>2. slot'[d][r] \in Slot
      BY DEF TypeInv, TypeOK
    <3> QED
      BY <3>1, <3>2 DEF Slot
  <2>1. slot'[d][r].rrev <= head'[r]
    <3>1. slot'[d][r].rrev > 0 =>
            slot'[d][r].rrev \in 1..Len(log') /\ log'[slot'[d][r].rrev].rec = r
      <4> SUFFICES ASSUME slot'[d][r].rrev > 0
                   PROVE  slot'[d][r].rrev \in 1..Len(log')
                          /\ log'[slot'[d][r].rrev].rec = r
        OBVIOUS
      <4> DEFINE k == slot'[d][r].rrev
      <4>1. /\ k <= Len(log')
            /\ log'[k] = [rec |-> r, val |-> slot'[d][r].rval, at |-> slot'[d][r].rat]
        BY DEF MirrorIsPublished
      <4> QED
        BY <1>0, <2>0, <4>1
    <3> QED
      BY <1>0, <2>0, <3>1 DEF ServerInv
  <2>2. slot'[d][r].rrev >= slot[d][r].rrev
    BY MirrorsForward
  <2>3. CASE head[r] <= cursor[d] /\ head'[r] = head[r]
    <3>1. slot[d][r].rrev = head[r]
      BY <2>3 DEF CursorInv, CursorLeavesNoHole
    <3> QED
      BY <1>0, <2>0, <2>1, <2>2, <2>3, <3>1
  <2>4. CASE cursor'[d] = cursor[d]
    <3>1. cursor[d] <= Len(log) /\ head'[r] = head[r]
      BY <1>0, <1>4, <2>4, HeadSteps DEF CursorInv
    <3> QED
      BY <1>4, <2>3, <2>4, <3>1
  <2>5. CASE CommitPullPage(d)
    <3>1. /\ UNCHANGED <<log, head>> /\ PageSound(d) /\ cursor'[d] = page[d].next
          /\ Pulled(d, r)
      <4>1. cursor' = [cursor EXCEPT ![d] = PageCursor(d)] /\ pc[d] = "page"
            /\ UNCHANGED <<log, head>>
        BY <2>5 DEF CommitPullPage, server
      <4> QED
        BY <1>0, <2>5, <4>1, CommitPullPageEffect DEF CursorInv, PageCursor
    <3>2. CASE head[r] > cursor[d]
      <4>1. head[r] \in page[d].revs /\ head[r] > 0
        BY <1>0, <1>4, <3>1, <3>2 DEF PageSound
      <4>2. log[head[r]].rec = r
        BY <4>1 DEF ServerInv
      <4>3. PICK k \in page[d].revs :
              log[k].rec = r /\ Observed(slot[d][r], slot'[d][r], AsRecord(k))
        BY <3>1, <4>1, <4>2 DEF Pulled
      <4>4. k = head[r]
        BY <3>1, <4>1, <4>2, <4>3 DEF PageSound
      <4>5. AsRecord(k) \in Record /\ AsRecord(k).rev = k
        BY <1>t, PageRecord
      <4>6. slot'[d][r].rrev >= k
        BY <2>0, <4>3, <4>5, ObservedForward
      <4> QED
        BY <1>0, <2>0, <2>1, <3>1, <4>4, <4>6
    <3> QED
      BY <1>0, <2>3, <3>1, <3>2
  <2> QED
    BY <2>4, <2>5, PageSteps
<1> QED
  BY <1>2, <1>3, <1>4 DEF CursorInv, CursorLeavesNoHole

(* Every mirror is the record the server published at its revision,         *)
(* although the client rebuilds applied ones from the body it sent          *)
(* (sync_repository.dart, _acknowledge).                                    *)
THEOREM SpecMirrorIsPublished == Spec => []MirrorIsPublished
<1>1. Init => TypeInv /\ WireInv /\ ServerInv /\ MirrorIsPublished
  BY TypeInvInit, WireInvInit, ServerInvInit, MirrorIsPublishedInit
<1>2. /\ TypeInv /\ WireInv /\ ServerInv /\ MirrorIsPublished /\ [Next]_vars
      => TypeInv' /\ WireInv' /\ ServerInv' /\ MirrorIsPublished'
  BY TypeInvNext, WireInvNext, ServerInvNext, MirrorIsPublishedNext
<1> QED
  BY <1>1, <1>2, PTL DEF Spec

(* The whole inductive invariant.                                           *)
IInv == TypeInv /\ WireInv /\ ServerInv /\ MirrorIsPublished /\ CursorInv

(* The inductive invariant holds of every behaviour.                        *)
LEMMA IInvHolds == Spec => []IInv
<1>1. Init => IInv
  BY TypeInvInit, WireInvInit, ServerInvInit, MirrorIsPublishedInit, CursorInvInit DEF IInv
<1>2. IInv /\ [Next]_vars => IInv'
  BY TypeInvNext, WireInvNext, ServerInvNext, MirrorIsPublishedNext, CursorInvNext DEF IInv
<1> QED
  BY <1>1, <1>2, PTL DEF Spec

(* Incremental pull misses nothing: whatever lies behind a device's cursor  *)
(* is in its mirrors at the server's current revision, with pages cut       *)
(* anywhere and records moving between them.                                *)
THEOREM SpecCursorLeavesNoHole == Spec => []CursorLeavesNoHole
<1>1. IInv => CursorLeavesNoHole
  BY DEF IInv, CursorInv
<1> QED
  BY <1>1, IInvHolds, PTL

(* Under the invariant no step takes a cursor or a mirror back.             *)
LEMMA ForwardSteps ==
  IInv /\ [Next]_vars =>
    \A d \in Devices :
      /\ cursor'[d] >= cursor[d]
      /\ \A r \in Records : slot'[d][r].rrev >= slot[d][r].rrev
<1> SUFFICES ASSUME IInv, [Next]_vars, NEW d \in Devices
             PROVE  cursor'[d] >= cursor[d]
  BY MirrorsForward DEF IInv
<1>1. cursor \in [Devices -> Nat] /\ page[d].next \in Nat
  BY DEF IInv, TypeInv, TypeOK
<1>2. CASE cursor'[d] = cursor[d]
  BY <1>1, <1>2
<1>3. CASE CommitPullPage(d)
  <2>1. PageSound(d) /\ cursor'[d] = page[d].next
    BY <1>1, <1>3 DEF IInv, CursorInv, CommitPullPage, PageCursor
  <2> QED
    BY <1>1, <2>1 DEF PageSound
<1> QED
  BY <1>2, <1>3, PageSteps DEF IInv

(* No replayed result and no page read before a push moves a mirror or a    *)
(* cursor backwards.                                                        *)
THEOREM SpecNothingRegresses == Spec => NothingRegresses
<1>1. Spec => []IInv
  BY IInvHolds
<1>2. IInv /\ [Next]_vars =>
        [\A d \in Devices :
           /\ cursor'[d] >= cursor[d]
           /\ \A r \in Records : slot'[d][r].rrev >= slot[d][r].rrev]_vars
  BY ForwardSteps
<1> QED
  BY <1>1, <1>2, PTL DEF Spec, NothingRegresses

-----------------------------------------------------------------------------

(* In protocol 2 content without a mirror is kept for an explicit merge, so *)
(* that the enqueue pass never takes it for one it need not look at.        *)
Retained(s) == Lifecycle /\ Bound(s) /\ s.rrev = 0 => s.merge

(* What a run knows of one record.                                          *)
Known(s) ==
  Bound(s) =>
    /\ Dirty(s) => s.pend.val = s.val
    /\ s.val # s.rval => Dirty(s) \/ s.merge

(* Content, mirror and queue of a record are as they were.                  *)
SameContent(s, t) ==
  /\ t.val = s.val /\ t.at = s.at /\ t.merge = s.merge
  /\ t.pend = s.pend /\ SameMirror(s, t)

(* Both facts are about content, mirror and queue alone.                    *)
LEMMA SameContentKeeps ==
  ASSUME NEW s, NEW t, SameContent(s, t)
  PROVE  /\ Retained(s) => Retained(t)
         /\ Known(s) => Known(t)
BY DEF SameContent, SameMirror, Retained, Known, Bound, Dirty

(* Freezing queues the content exactly as it is.                            *)
LEMMA FreezeContent ==
  ASSUME NEW s, GoodSlot(s), Bound(s), NEW t, t = Freeze(s)
  PROVE  /\ t.val = s.val /\ t.at = s.at /\ t.merge = s.merge
         /\ SameMirror(s, t)
         /\ Dirty(t) /\ t.pend.val = s.val
<1> DEFINE e == [n |-> s.n + 1, val |-> s.val, at |-> s.at]
           w == s.n + 1
<1>1. s \in Slot /\ t = [s EXCEPT !.n = w, !.pend = e]
  BY DEF GoodSlot, Freeze
<1>2. e.val = s.val /\ e.val # Absent
  BY DEF Bound
<1>3. e # NoEnvelope
  BY <1>2 DEF NoEnvelope
<1> HIDE DEF e, w
<1> QED
  BY <1>1, <1>2, <1>3 DEF Slot, SameMirror, Dirty

(* A frozen slot is known and, if it was retained, stays so.                *)
LEMMA FreezeKnows ==
  ASSUME NEW s, GoodSlot(s), Bound(s), NEW t, t = Freeze(s)
  PROVE  Known(t) /\ (Retained(s) => Retained(t))
BY FreezeContent DEF Known, Retained, Bound, SameMirror

(* A saved edit is the content afterwards; saved by the signed-in account,  *)
(* it is queued.                                                            *)
LEMMA SaveLocalKnows ==
  ASSUME NEW s, GoodSlot(s), NEW v \in Values, NEW a \in Times,
         NEW b \in BOOLEAN, NEW t, t = SaveLocal(s, v, a, b)
  PROVE  /\ t.val = v
         /\ Retained(s) => Retained(t)
         /\ b /\ Known(s) => Known(t)
<1> DEFINE saved == [s EXCEPT !.val = v, !.at = a, !.merge = Lifecycle]
<1>1. s \in Slot /\ Lifecycle \in BOOLEAN /\ a \in Nat /\ v # Absent
  BY ConstantsAssumption DEF GoodSlot, Times
<1>2. /\ saved \in Slot
      /\ saved.val = v /\ saved.at = a /\ saved.merge = Lifecycle
      /\ SameMirror(s, saved)
      /\ saved.pend = s.pend /\ saved.fly = s.fly /\ saved.n = s.n
  BY <1>1 DEF Slot, SameMirror
<1> HIDE DEF saved
<1>3. GoodSlot(saved) /\ Bound(saved) /\ Retained(saved)
  BY <1>1, <1>2 DEF GoodSlot, Bound, Dirty, SameMirror, Retained
<1>4. IF s.val = v THEN t = s ELSE IF b THEN t = Freeze(saved) ELSE t = saved
  BY DEF SaveLocal, saved
<1>5. ASSUME t = Freeze(saved) PROVE t.val = v /\ Retained(t) /\ Known(t)
  BY <1>2, <1>3, <1>5, FreezeContent, FreezeKnows
<1> QED
  BY <1>2, <1>3, <1>4, <1>5

(* After the enqueue pass the run knows the record, whatever it found.      *)
LEMMA ReconcileKnows ==
  ASSUME NEW s, GoodSlot(s), Retained(s), NEW t, t = Reconcile(s)
  PROVE  t.val = s.val /\ Retained(t) /\ Known(t)
<1>1. CASE t = s
  <2>1. Bound(s) =>
          \/ Lifecycle /\ ~Dirty(s) /\ s.rrev = 0 /\ ~s.merge
          \/ (IF Dirty(s) THEN s.pend.val ELSE s.rval) = s.val
    <3> SUFFICES ASSUME Bound(s),
                        ~(Lifecycle /\ ~Dirty(s) /\ s.rrev = 0 /\ ~s.merge),
                        (IF Dirty(s) THEN s.pend.val ELSE s.rval) # s.val
                 PROVE  FALSE
      OBVIOUS
    <3>1. t = Freeze(s)
      BY DEF Reconcile
    <3>2. t.pend.val = s.val /\ Dirty(t)
      BY <3>1, FreezeContent
    <3>3. t.n = s.n + 1 /\ s.n \in Nat
      BY <3>1 DEF Freeze, GoodSlot, Slot
    <3> QED
      BY <1>1, <3>3
  <2> QED
    BY <1>1, <2>1 DEF Retained, Known
<1>2. CASE Bound(s) /\ t = Freeze(s)
  BY <1>2, FreezeContent, FreezeKnows
<1>3. t = s \/ (Bound(s) /\ t = Freeze(s))
  BY DEF Reconcile
<1> QED
  BY <1>1, <1>2, <1>3

(* An unbound candidate is not the account's content.                       *)
LEMMA CandidateKnows ==
  ASSUME NEW s, GoodSlot(s), NEW c, NEW t, t = [s EXCEPT !.cand = c]
  PROVE  SameContent(s, t)
BY DEF GoodSlot, Slot, SameContent, SameMirror

(* Projecting writes the business row, not the document.                    *)
LEMMA ProjectKnows ==
  ASSUME NEW s, GoodSlot(s), NEW t, t = Project(s)
  PROVE  SameContent(s, t)
<1>1. t = s \/ t = [s EXCEPT !.cand = NoEdit]
  BY DEF Project
<1>2. SameContent(s, s)
  BY DEF SameContent, SameMirror
<1> QED
  BY <1>1, <1>2, CandidateKnows

(* Binding replaces content only by a strictly newer candidate, and queues  *)
(* what it binds.                                                           *)
LEMMA BindKnows ==
  ASSUME NEW s, GoodSlot(s), Retained(s), Known(s), NEW t, t = Bind(s)
  PROVE  /\ Retained(t) /\ Known(t)
         /\ Bound(s) /\ t.val # s.val => t.val = s.cand.val /\ s.cand.at > s.at
<1> DEFINE bound == [s EXCEPT !.val = s.cand.val, !.at = s.cand.at,
                              !.merge = Lifecycle, !.cand = NoEdit]
           freed == [s EXCEPT !.cand = NoEdit]
<1>1. CASE s.cand = NoEdit
  BY <1>1 DEF Bind
<1>2. CASE s.cand # NoEdit
  <2>1. s \in Slot /\ Lifecycle \in BOOLEAN /\ s.cand \in Edit
    BY <1>2, ConstantsAssumption DEF GoodSlot, Slot
  <2>2. /\ s.cand.val \in Values /\ s.cand.val # Absent
        /\ s.cand.at \in Times /\ s.cand.at \in Nat
    BY <2>1, ConstantsAssumption DEF Edit, Times
  <2>3. GoodSlot(freed) /\ SameContent(s, freed)
    BY CandidateGood, CandidateKnows
  <2>4. /\ bound \in Slot
        /\ bound.val = s.cand.val /\ bound.at = s.cand.at
        /\ bound.merge = Lifecycle
        /\ SameMirror(s, bound)
        /\ bound.pend = s.pend /\ bound.fly = s.fly /\ bound.n = s.n
    BY <2>1, <2>2 DEF Slot, SameMirror
  <2>5. \/ t = Freeze(bound) /\ ~Bound(s)
        \/ t = SaveLocal(freed, s.cand.val, s.cand.at, TRUE) /\ s.cand.at > s.at
        \/ t = freed
    BY <1>2 DEF Bind
  <2> HIDE DEF bound, freed
  <2>6. GoodSlot(bound) /\ Bound(bound) /\ Retained(bound)
    BY <2>2, <2>4 DEF GoodSlot, Bound, Dirty, SameMirror, Retained
  <2>7. Retained(freed) /\ Known(freed) /\ freed.val = s.val
    BY <2>3, SameContentKeeps DEF SameContent
  <2>8. ASSUME t = Freeze(bound) PROVE Retained(t) /\ Known(t)
    BY <2>6, <2>8, FreezeKnows
  <2>9. ASSUME t = SaveLocal(freed, s.cand.val, s.cand.at, TRUE)
        PROVE  Retained(t) /\ Known(t) /\ t.val = s.cand.val
    <3> DEFINE v == s.cand.val
               a == s.cand.at
    <3>1. /\ v \in Values /\ a \in Times /\ TRUE \in BOOLEAN
          /\ GoodSlot(freed) /\ Retained(freed) /\ Known(freed)
          /\ t = SaveLocal(freed, v, a, TRUE)
      BY <2>2, <2>3, <2>7, <2>9
    <3> HIDE DEF v, a
    <3>2. t.val = v /\ Retained(t) /\ Known(t)
      BY <3>1, SaveLocalKnows
    <3> QED
      BY <3>2 DEF v
  <2> QED
    BY <2>5, <2>7, <2>8, <2>9
<1> QED
  BY <1>1, <1>2

(* What a slot shows of content that left for the mirror.                   *)
TookMirror(t) == t.val = t.rval /\ t.at = t.rat

(* Pulling a record takes content only for a mirror at least as new, or     *)
(* when the content was no edit.                                            *)
LEMMA ObserveKnows ==
  ASSUME NEW s, GoodSlot(s), Retained(s), Known(s), NEW record \in Record,
         NEW t, t = Observe(s, record, TRUE)
  PROVE  /\ Retained(t) /\ Known(t)
         /\ Bound(s) /\ t.val # s.val =>
              TookMirror(t) /\ (s.val = s.rval \/ s.at <= t.at)
<1> DEFINE v == record.val
           a == record.at
           k == record.rev
           mirrored == [s EXCEPT !.rval = v, !.rat = a, !.rrev = k]
           taken == [mirrored EXCEPT !.val = v, !.at = a,
                                     !.merge = FALSE, !.pend = NoEnvelope]
<1>1. /\ s \in Slot /\ s.at \in Nat /\ s.rrev \in Nat
      /\ v \in Values /\ a \in Times /\ a \in Nat /\ k \in Nat \ {0}
  BY DEF GoodSlot, Record, Times, Slot
<1>2. \/ t = s
      \/ t = mirrored /\ ~TakesRemote(s, record)
      \/ t = taken /\ TakesRemote(s, record)
  BY DEF Observe
<1>3. /\ TakesRemote(s, record) =>
           /\ ~s.merge \/ s.val = v
           /\ ~(Dirty(s) /\ s.at > a)
      /\ ~TakesRemote(s, record) => s.merge \/ Dirty(s)
  BY DEF TakesRemote, AlreadyMerged
<1> HIDE DEF v, a, k
<1>4. /\ mirrored \in Slot
      /\ mirrored.rval = v /\ mirrored.rat = a /\ mirrored.rrev = k
      /\ mirrored.val = s.val /\ mirrored.at = s.at
      /\ mirrored.merge = s.merge /\ mirrored.pend = s.pend
  BY <1>1 DEF Slot
<1> HIDE DEF mirrored
<1>5. /\ taken.rval = v /\ taken.rat = a /\ taken.rrev = k
      /\ taken.val = v /\ taken.at = a
      /\ taken.merge = FALSE /\ taken.pend = NoEnvelope
  BY <1>1, <1>4 DEF Slot
<1> HIDE DEF taken
<1>6. CASE t = mirrored /\ ~TakesRemote(s, record)
  BY <1>1, <1>3, <1>4, <1>6 DEF Retained, Known, Bound, Dirty
<1>7. CASE t = taken /\ TakesRemote(s, record)
  <2>1. Retained(t) /\ Known(t) /\ TookMirror(t)
    BY <1>1, <1>5, <1>7 DEF Retained, Known, Dirty, TookMirror
  <2>2. ASSUME Bound(s), t.val # s.val PROVE s.val = s.rval \/ s.at <= t.at
    <3>1. ~s.merge /\ ~(Dirty(s) /\ s.at > a)
      BY <1>3, <1>5, <1>7, <2>2
    <3>2. CASE Dirty(s)
      <4>1. t.at = a /\ ~(s.at > a)
        BY <1>5, <1>7, <3>1, <3>2
      <4>2. s.at \in Nat /\ a \in Nat
        BY <1>1
      <4>3. s.at <= a
        BY <4>1, <4>2
      <4> QED
        BY <4>1, <4>3
    <3>3. CASE ~Dirty(s)
      <4>1. s.val # s.rval => Dirty(s) \/ s.merge
        BY <2>2 DEF Known
      <4> QED
        BY <3>1, <3>3, <4>1
    <3> QED
      BY <3>2, <3>3
  <2> QED
    BY <2>1, <2>2
<1> QED
  BY <1>2, <1>6, <1>7

(* A result takes content only if it rules on the newest version queued, or *)
(* nothing is queued.                                                       *)
LEMMA AcknowledgeKnows ==
  ASSUME NEW s, GoodSlot(s), Retained(s), Known(s),
         NEW sent \in Envelope, NEW result \in Result,
         ResultRecord(sent, result) \in Record,
         NEW t, t = Acknowledge(s, sent, result)
  PROVE  /\ Retained(t) /\ Known(t)
         /\ t.val # s.val =>
              TookMirror(t) /\ (s.pend.n = sent.n \/ ~Dirty(s))
<1> DEFINE record == ResultRecord(sent, result)
           seen == Observe(s, record, FALSE)
           settled == [seen EXCEPT !.val = seen.rval, !.at = seen.rat,
                                   !.merge = FALSE]
           ruled == s.pend.n = sent.n \/ ~Dirty(s)
           base == IF ruled THEN settled ELSE seen
           p == IF s.pend.n = sent.n THEN NoEnvelope ELSE s.pend
           f == IF s.fly.n = sent.n THEN NoEnvelope ELSE s.fly
<1> HIDE DEF record
<1>1. /\ GoodSlot(seen) /\ Observed(s, seen, record)
      /\ seen.pend = s.pend /\ seen.val = s.val
      /\ s.rrev \in Nat /\ record.rev \in Nat \ {0}
  <2>1. record \in Record /\ s \in Slot /\ s.rrev \in Nat
    BY DEF record, GoodSlot, Slot
  <2>2. GoodSlot(seen) /\ Observed(s, seen, record)
    BY <2>1, ObserveGood
  <2>3. seen.pend = s.pend /\ seen.val = s.val
    BY <2>1, MirrorKeepsContent
  <2> QED
    BY <2>1, <2>2, <2>3 DEF Record
<1>2. /\ seen.merge = s.merge
      /\ seen.rrev \in Nat \ {0} /\ seen \in Slot
      /\ seen.rval \in Values /\ seen.rat \in Times /\ seen.rat \in Nat
  <2>1. seen.merge = s.merge
    <3> DEFINE v == record.val
               a == record.at
               k == record.rev
               mirrored == [s EXCEPT !.rval = v, !.rat = a, !.rrev = k]
    <3>1. seen = s \/ seen = mirrored
      BY DEF Observe
    <3>2. s \in Slot
      BY DEF GoodSlot
    <3> HIDE DEF v, a, k, seen
    <3> QED
      BY <3>1, <3>2 DEF Slot
  <2> HIDE DEF seen
  <2>2. seen \in Slot /\ seen.rrev \in Nat \ {0}
    BY <1>1 DEF GoodSlot, Slot, Observed, SameMirror
  <2> QED
    BY <1>1, <2>1, <2>2 DEF GoodSlot, Times
<1> HIDE DEF seen
<1>3. /\ settled \in Slot
      /\ settled.val = seen.rval /\ settled.at = seen.rat
      /\ settled.merge = FALSE /\ SameMirror(seen, settled)
      /\ settled.pend = s.pend
  BY <1>1, <1>2, ConstantsAssumption DEF Slot, SameMirror
<1> HIDE DEF settled
<1>4. base \in Slot /\ p \in Envelopes /\ f \in Envelopes
  BY <1>2, <1>3 DEF GoodSlot, Slot, Envelopes
<1>5. t = [base EXCEPT !.pend = p, !.fly = f]
  <2>1. t = [base EXCEPT !.pend = IF s.pend.n = sent.n THEN NoEnvelope ELSE @,
                         !.fly = IF s.fly.n = sent.n THEN NoEnvelope ELSE @]
    BY DEF Acknowledge, settled, seen, record
  <2>2. base.pend = s.pend /\ base.fly = s.fly
    <3>1. seen.fly = s.fly
      <4>1. record \in Record
        BY DEF record
      <4> QED
        BY <4>1, ObserveGood DEF seen
    <3>2. settled.fly = s.fly
      BY <1>2, <3>1 DEF settled, Slot
    <3> QED
      BY <1>1, <1>3, <3>1, <3>2
  <2> HIDE DEF base
  <2> QED
    BY <1>4, <2>1, <2>2 DEF Slot
<1>6. /\ ruled => /\ base.val = seen.rval /\ base.at = seen.rat
                  /\ SameMirror(seen, base)
      /\ ~ruled => base = seen
      /\ p = IF s.pend.n = sent.n THEN NoEnvelope ELSE s.pend
  BY <1>3
<1> HIDE DEF base, p, f
<1>7. /\ t.val = base.val /\ t.at = base.at /\ t.merge = base.merge
      /\ SameMirror(base, t) /\ t.pend = p
  BY <1>4, <1>5 DEF Slot, SameMirror
<1>8. CASE ruled
  <2>1. TookMirror(t) /\ t.rrev # 0
    BY <1>2, <1>6, <1>7, <1>8 DEF TookMirror, SameMirror
  <2>2. p = NoEnvelope
    BY <1>6, <1>8 DEF Dirty
  <2> QED
    BY <1>7, <1>8, <2>1, <2>2 DEF Retained, Known, Dirty, TookMirror
<1>9. CASE ~ruled
  <2>1. t.val = s.val /\ t.pend = s.pend /\ Dirty(s) /\ t.rrev # 0
    BY <1>1, <1>2, <1>6, <1>7, <1>9 DEF SameMirror
  <2> QED
    BY <2>1 DEF Retained, Known, Bound, Dirty
<1> QED
  BY <1>8, <1>9

(* The envelope in the worker's hands is the one sealed in flight.          *)
HeldEnvelope(d, r) ==
  batch[d][r] # NoEnvelope => slot[d][r].fly = batch[d][r]

(* A run belongs to the signed-in account, knows every record, and every    *)
(* document without a mirror is retained.  The last is what keeps the       *)
(* enqueue pass from skipping an edit, the first what has every edit made   *)
(* during a run queued at once.                                             *)
EditInv ==
  /\ \A d \in Devices, r \in Records : Retained(slot[d][r]) /\ HeldEnvelope(d, r)
  /\ \A d \in Devices :
       pc[d] # "idle" => active[d] /\ \A r \in Records : Known(slot[d][r])

(* What a step may make of one record's content when it is no edit.         *)
Yields(d, r) ==
  LET s == slot[d][r]
      t == slot'[d][r]
  IN  Bound(s) /\ t.val # s.val =>
        \/ /\ t.val = t.rval
           /\ t.at = t.rat
           /\ \/ s.val = s.rval
              \/ s.at <= t.at
              \/ /\ s.pend.val = s.val
                 /\ <<d, r, s.pend.n>> \in DOMAIN verdict
              \/ Unqueued(s) /\ <<d, r, s.fly.n>> \in DOMAIN verdict
        \/ t.val = s.cand.val /\ s.cand.at > s.at

(* The facts a step rests on, for one record.                               *)
LEMMA EditFacts ==
  ASSUME TypeInv, EditInv, NEW d \in Devices, NEW r \in Records
  PROVE  /\ GoodSlot(slot[d][r]) /\ Retained(slot[d][r]) /\ HeldEnvelope(d, r)
         /\ pc[d] # "idle" => active[d] /\ Known(slot[d][r])
BY DEF TypeInv, SlotsGood, EditInv

(* Nothing runs and nothing is held at first.                               *)
LEMMA EditInvInit == Init => EditInv
BY DEF Init, EditInv, HeldEnvelope, NoBatch, Retained, Bound, EmptySlot

(* A step that touches no slot keeps the invariant, if its device is signed *)
(* in where it still runs and holds no other envelope.                      *)
LEMMA EditInvUntouched ==
  ASSUME EditInv, UNCHANGED slot, BatchKept,
         \A d \in Devices : pc'[d] # "idle" => active'[d] /\ pc[d] # "idle"
  PROVE  EditInv'
<1>1. \A d \in Devices, r \in Records :
        Retained(slot[d][r])' /\ HeldEnvelope(d, r)'
  BY DEF EditInv, BatchKept, HeldEnvelope, Retained, Bound
<1>2. \A d \in Devices :
        pc'[d] # "idle" => active'[d] /\ \A r \in Records : Known(slot'[d][r])
  BY DEF EditInv
<1> QED
  BY <1>1, <1>2 DEF EditInv

(* A step of one device keeps the invariant when it keeps it for that       *)
(* device.                                                                  *)
LEMMA EditInvRow ==
  ASSUME EditInv, NEW d \in Devices,
         \A e \in Devices \ {d} :
           /\ slot'[e] = slot[e] /\ batch'[e] = batch[e]
           /\ pc'[e] = pc[e] /\ active'[e] = active[e],
         \A r \in Records : Retained(slot'[d][r]) /\ HeldEnvelope(d, r)',
         pc'[d] # "idle" => active'[d] /\ \A r \in Records : Known(slot'[d][r])
  PROVE  EditInv'
<1>1. ASSUME NEW e \in Devices, NEW r \in Records
      PROVE  Retained(slot'[e][r]) /\ HeldEnvelope(e, r)'
  <2>1. CASE e # d
    BY <2>1 DEF EditInv, HeldEnvelope
  <2> QED
    BY <2>1
<1>2. ASSUME NEW e \in Devices, pc'[e] # "idle"
      PROVE  active'[e] /\ \A r \in Records : Known(slot'[e][r])
  <2>1. CASE e # d
    BY <1>2, <2>1 DEF EditInv
  <2> QED
    BY <1>2, <2>1
<1> QED
  BY <1>1, <1>2 DEF EditInv

(* An edit by its user: queued at once when the account is signed in, and   *)
(* otherwise found by the next enqueue pass.                                *)
LEMMA UserEdits ==
  ASSUME TypeInv, EditInv, NEW d \in Devices, UserNext(d)
  PROVE  EditInv'
<1> PICK r \in Records, v \in Values, a \in DeviceClock :
      EditBound(d, r, v, a) \/ EditUnbound(d, r, v, a)
  BY DEF UserNext
<1> DEFINE s == slot[d][r]
           t == slot'[d][r]
<1>1. /\ GoodSlot(s) /\ Retained(s)
      /\ pc[d] # "idle" => active[d] /\ Known(s)
      /\ a \in Times /\ active[d] \in BOOLEAN
  BY EditFacts DEF DeviceClock, TypeInv, TypeOK
<1>2. /\ slot \in [Devices -> [Records -> Slot]]
      /\ UNCHANGED <<pc, active, batch>>
  BY DEF EditBound, EditUnbound, EditSlot, worker, TypeInv, TypeOK
<1>3. PICK x : slot' = [slot EXCEPT ![d][r] = x]
               /\ \/ x = SaveLocal(s, v, a, active[d])
                  \/ \E c : x = [s EXCEPT !.cand = c]
  BY DEF EditBound, EditUnbound, EditSlot
<1>4. /\ t = x
      /\ \A q \in Records \ {r} : slot'[d][q] = slot[d][q]
      /\ \A e \in Devices \ {d} : slot'[e] = slot[e]
  BY <1>2, <1>3
<1> HIDE DEF s, t
<1>5. /\ t.fly = s.fly /\ Retained(t)
      /\ active[d] /\ Known(s) => Known(t)
  <2>1. CASE x = SaveLocal(s, v, a, active[d])
    <3>1. t.fly = s.fly
      BY <1>1, <1>4, <2>1, SaveLocalGood DEF Local
    <3>2. Retained(t) /\ (active[d] /\ Known(s) => Known(t))
      BY <1>1, <1>4, <2>1, SaveLocalKnows
    <3> QED
      BY <3>1, <3>2
  <2>2. CASE \E c : x = [s EXCEPT !.cand = c]
    <3>1. PICK c : x = [s EXCEPT !.cand = c]
      BY <2>2
    <3>2. SameContent(s, t) /\ t.fly = s.fly
      BY <1>1, <1>4, <3>1, CandidateKnows DEF GoodSlot, Slot
    <3> QED
      BY <1>1, <3>2, SameContentKeeps
  <2> QED
    BY <1>3, <2>1, <2>2
<1>6. ASSUME NEW q \in Records
      PROVE  /\ Retained(slot'[d][q]) /\ HeldEnvelope(d, q)'
             /\ pc'[d] # "idle" => Known(slot'[d][q])
  <2>1. CASE q = r
    <3>1. HeldEnvelope(d, r)
      BY EditFacts
    <3> QED
      BY <1>1, <1>2, <1>5, <2>1, <3>1 DEF HeldEnvelope, s, t
  <2>2. CASE q # r
    <3>1. slot'[d][q] = slot[d][q]
      BY <1>4, <2>2
    <3> QED
      BY <1>2, <3>1, EditFacts DEF HeldEnvelope
  <2> QED
    BY <2>1, <2>2
<1>7. pc'[d] # "idle" => active'[d]
  BY <1>1, <1>2
<1> QED
  BY <1>2, <1>4, <1>6, <1>7, EditInvRow

(* The enqueue pass that starts a run leaves it with no edit it does not    *)
(* know, and changes no content.                                            *)
LEMMA StartKnows ==
  ASSUME TypeInv, EditInv, NEW d \in Devices, StartRun(d)
  PROVE  EditInv' /\ \A e \in Devices, r \in Records : Yields(e, r)
<1>1. /\ slot \in [Devices -> [Records -> Slot]]
      /\ slot' = [slot EXCEPT ![d] = [r \in Records |-> Reconcile(slot[d][r])]]
      /\ pc' = [pc EXCEPT ![d] = "pull"] /\ pc \in [Devices -> Phases]
      /\ active[d] /\ UNCHANGED <<active, batch>>
  BY DEF StartRun, TypeInv, TypeOK
<1>2. /\ \A r \in Records : slot'[d][r] = Reconcile(slot[d][r])
      /\ \A e \in Devices \ {d} : slot'[e] = slot[e] /\ pc'[e] = pc[e]
  BY <1>1
<1>3. ASSUME NEW r \in Records
      PROVE  /\ Retained(slot'[d][r]) /\ Known(slot'[d][r])
             /\ slot'[d][r].val = slot[d][r].val /\ HeldEnvelope(d, r)'
  <2> DEFINE s == slot[d][r]
             t == slot'[d][r]
  <2>1. GoodSlot(s) /\ Retained(s) /\ HeldEnvelope(d, r) /\ t = Reconcile(s)
    BY <1>2, EditFacts
  <2> HIDE DEF s, t
  <2>2. Retained(t) /\ Known(t) /\ t.val = s.val /\ t.fly = s.fly
    BY <2>1, ReconcileKnows, ReconcileGood DEF Local
  <2> QED
    BY <1>1, <2>1, <2>2 DEF HeldEnvelope, s, t
<1>4. EditInv'
  BY <1>1, <1>2, <1>3, EditInvRow
<1>5. ASSUME NEW e \in Devices, NEW r \in Records PROVE Yields(e, r)
  BY <1>2, <1>3 DEF Yields
<1> QED
  BY <1>4, <1>5

(* Applying a page: what is taken is at least as new as what yields.        *)
LEMMA PullKnows ==
  ASSUME TypeInv, EditInv, NEW d \in Devices, CommitPullPage(d)
  PROVE  EditInv' /\ \A e \in Devices, r \in Records : Yields(e, r)
<1> DEFINE Chosen(r) == CHOOSE k \in page[d].revs : log[k].rec = r
           Seen(r) == IF \E k \in page[d].revs : log[k].rec = r
                      THEN Observe(slot[d][r], AsRecord(Chosen(r)), TRUE)
                      ELSE slot[d][r]
<1>1. /\ slot \in [Devices -> [Records -> Slot]]
      /\ slot' = [slot EXCEPT ![d] = [r \in Records |-> Project(Seen(r))]]
      /\ pc[d] # "idle" /\ UNCHANGED <<active, batch>>
      /\ \A e \in Devices \ {d} : pc'[e] = pc[e]
  BY DEF CommitPullPage, TypeInv, TypeOK
<1>2. /\ \A r \in Records : slot'[d][r] = Project(Seen(r))
      /\ \A e \in Devices \ {d} : slot'[e] = slot[e]
  BY <1>1
<1>3. ASSUME NEW r \in Records
      PROVE  /\ Retained(slot'[d][r]) /\ Known(slot'[d][r])
             /\ HeldEnvelope(d, r)' /\ Yields(d, r)
  <2> DEFINE s == slot[d][r]
             t == slot'[d][r]
             o == Seen(r)
  <2>1. GoodSlot(s) /\ Retained(s) /\ Known(s) /\ HeldEnvelope(d, r) /\ t = Project(o)
    BY <1>1, <1>2, EditFacts
  <2>2. \/ o = s
        \/ \E x \in Record : o = Observe(s, x, TRUE)
    <3>1. CASE \E k \in page[d].revs : log[k].rec = r
      <4>1. Chosen(r) \in 1..Len(log)
        BY <3>1 DEF TypeInv, LogOK
      <4>2. AsRecord(Chosen(r)) \in Record
        BY <4>1, PageRecord
      <4> QED
        BY <3>1, <4>2
    <3> QED
      BY <3>1
  <2> HIDE DEF s, t, o, Seen
  <2>3. /\ GoodSlot(o) /\ o.fly = s.fly /\ Retained(o) /\ Known(o)
        /\ Bound(s) /\ o.val # s.val =>
             TookMirror(o) /\ (s.val = s.rval \/ s.at <= o.at)
    <3>1. ASSUME NEW x \in Record, o = Observe(s, x, TRUE)
          PROVE  /\ GoodSlot(o) /\ o.fly = s.fly /\ Retained(o) /\ Known(o)
                 /\ Bound(s) /\ o.val # s.val =>
                      TookMirror(o) /\ (s.val = s.rval \/ s.at <= o.at)
      <4>1. TRUE \in BOOLEAN
        OBVIOUS
      <4>2. GoodSlot(o) /\ o.fly = s.fly
        BY <2>1, <3>1, <4>1, ObserveGood
      <4>3. /\ Retained(o) /\ Known(o)
            /\ Bound(s) /\ o.val # s.val =>
                 TookMirror(o) /\ (s.val = s.rval \/ s.at <= o.at)
        BY <2>1, <3>1, ObserveKnows
      <4> QED
        BY <4>2, <4>3
    <3> QED
      BY <2>1, <2>2, <3>1
  <2>4. SameContent(o, t) /\ t.fly = o.fly
    BY <2>1, <2>3, ProjectKnows, ProjectGood DEF Local
  <2>5. Retained(t) /\ Known(t) /\ t.fly = s.fly
    BY <2>3, <2>4, SameContentKeeps
  <2>6. Bound(s) /\ t.val # s.val =>
          t.val = t.rval /\ t.at = t.rat /\ (s.val = s.rval \/ s.at <= t.at)
    BY <2>3, <2>4 DEF SameContent, SameMirror, TookMirror
  <2> QED
    BY <1>1, <2>1, <2>5, <2>6 DEF HeldEnvelope, Yields, s, t
<1>4. EditInv'
  <2>1. pc[d] # "idle" => active[d]
    BY DEF EditInv
  <2> QED
    BY <1>1, <1>2, <1>3, <2>1, EditInvRow
<1>5. ASSUME NEW e \in Devices, NEW r \in Records PROVE Yields(e, r)
  BY <1>2, <1>3 DEF Yields
<1> QED
  BY <1>4, <1>5

(* Binding: a candidate replaces content only when it is strictly newer.    *)
LEMMA BootstrapKnows ==
  ASSUME TypeInv, EditInv, NEW d \in Devices, CompleteBootstrap(d)
  PROVE  EditInv' /\ \A e \in Devices, r \in Records : Yields(e, r)
<1>1. /\ slot \in [Devices -> [Records -> Slot]]
      /\ slot' = [slot EXCEPT ![d] = [r \in Records |-> Project(Bind(slot[d][r]))]]
      /\ pc[d] # "idle" /\ UNCHANGED <<active, batch>>
      /\ \A e \in Devices \ {d} : pc'[e] = pc[e]
  BY DEF CompleteBootstrap, TypeInv, TypeOK
<1>2. /\ \A r \in Records : slot'[d][r] = Project(Bind(slot[d][r]))
      /\ \A e \in Devices \ {d} : slot'[e] = slot[e]
  BY <1>1
<1>3. ASSUME NEW r \in Records
      PROVE  /\ Retained(slot'[d][r]) /\ Known(slot'[d][r])
             /\ HeldEnvelope(d, r)' /\ Yields(d, r)
  <2> DEFINE s == slot[d][r]
             t == slot'[d][r]
             b == Bind(s)
  <2>1. /\ GoodSlot(s) /\ Retained(s) /\ Known(s) /\ HeldEnvelope(d, r)
        /\ t = Project(b) /\ b = Bind(s)
    BY <1>1, <1>2, EditFacts
  <2> HIDE DEF s, t, b
  <2>2. GoodSlot(b) /\ b.fly = s.fly
    BY <2>1, BindGood DEF Local
  <2>3. /\ Retained(b) /\ Known(b)
        /\ Bound(s) /\ b.val # s.val => b.val = s.cand.val /\ s.cand.at > s.at
    BY <2>1, BindKnows
  <2>4. SameContent(b, t) /\ t.fly = b.fly
    BY <2>1, <2>2, ProjectKnows, ProjectGood DEF Local
  <2>5. Retained(t) /\ Known(t) /\ t.fly = s.fly
    BY <2>2, <2>3, <2>4, SameContentKeeps
  <2>6. Bound(s) /\ t.val # s.val => t.val = s.cand.val /\ s.cand.at > s.at
    BY <2>3, <2>4 DEF SameContent
  <2> QED
    BY <1>1, <2>1, <2>5, <2>6 DEF HeldEnvelope, Yields, s, t
<1>4. EditInv'
  <2>1. pc[d] # "idle" => active[d]
    BY DEF EditInv
  <2> QED
    BY <1>1, <1>2, <1>3, <2>1, EditInvRow
<1>5. ASSUME NEW e \in Devices, NEW r \in Records PROVE Yields(e, r)
  BY <1>2, <1>3 DEF Yields
<1> QED
  BY <1>4, <1>5

(* Sealing a push request changes no content, and what is sealed is what is *)
(* in the worker's hands.                                                   *)
LEMMA PrepareKnows ==
  ASSUME TypeInv, EditInv, NEW d \in Devices, PreparePush(d)
  PROVE  EditInv' /\ \A e \in Devices, r \in Records : Yields(e, r)
<1> DEFINE Sealed(sent) ==
      [r \in Records |-> IF r \in sent
                         THEN [slot[d][r] EXCEPT !.fly = Outgoing(slot[d][r])]
                         ELSE slot[d][r]]
      Held(sent) ==
      [r \in Records |-> IF r \in sent THEN Outgoing(slot[d][r]) ELSE NoEnvelope]
<1>1. /\ slot \in [Devices -> [Records -> Slot]]
      /\ batch \in [Devices -> [Records -> Envelopes]]
      /\ pc[d] # "idle" /\ UNCHANGED active
      /\ \A e \in Devices \ {d} : pc'[e] = pc[e]
  BY DEF PreparePush, TypeInv, TypeOK, Envelopes
<1>2. PICK sent \in SUBSET Records :
        /\ slot' = [slot EXCEPT ![d] = Sealed(sent)]
        /\ batch' = [batch EXCEPT ![d] = Held(sent)]
  <2>1. Selected(d) \subseteq Records
    BY DEF Selected, Unresolved
  <2> QED
    BY <2>1 DEF PreparePush
<1>3. /\ slot'[d] = Sealed(sent) /\ batch'[d] = Held(sent)
      /\ \A e \in Devices \ {d} : slot'[e] = slot[e] /\ batch'[e] = batch[e]
  BY <1>1, <1>2
<1>4. ASSUME NEW r \in Records
      PROVE  /\ Retained(slot'[d][r]) /\ Known(slot'[d][r])
             /\ HeldEnvelope(d, r)' /\ slot'[d][r].val = slot[d][r].val
  <2> DEFINE s == slot[d][r]
             t == slot'[d][r]
             f == Outgoing(slot[d][r])
  <2>1. /\ GoodSlot(s) /\ s \in Slot /\ Retained(s) /\ Known(s)
        /\ IF r \in sent THEN t = [s EXCEPT !.fly = f] /\ batch'[d][r] = f
                         ELSE t = s /\ batch'[d][r] = NoEnvelope
    BY <1>1, <1>3, EditFacts DEF GoodSlot
  <2> HIDE DEF s, t, f, Sealed, Held
  <2>2. SameContent(s, t) /\ (r \in sent => t.fly = f)
    BY <2>1 DEF Slot, SameContent, SameMirror
  <2>3. Retained(t) /\ Known(t)
    BY <2>1, <2>2, SameContentKeeps
  <2>4. HeldEnvelope(d, r)'
    BY <2>1, <2>2 DEF HeldEnvelope, t
  <2> QED
    BY <2>2, <2>3, <2>4 DEF SameContent, s, t
<1>5. EditInv'
  <2>1. pc[d] # "idle" => active[d]
    BY DEF EditInv
  <2> QED
    BY <1>1, <1>3, <1>4, <2>1, EditInvRow
<1>6. ASSUME NEW e \in Devices, NEW r \in Records PROVE Yields(e, r)
  BY <1>3, <1>4 DEF Yields
<1> QED
  BY <1>5, <1>6

(* The answer of a push: content yields to it only when the server has      *)
(* ruled on that very content, or on the version in flight when nothing is  *)
(* queued.                                                                  *)
LEMMA AnswerKnows ==
  ASSUME TypeInv, EditInv, NEW d \in Devices, CommitPushPrefix(d)
  PROVE  EditInv' /\ \A e \in Devices, r \in Records : Yields(e, r)
<1> DEFINE Acked(r) == Acknowledge(slot[d][r], batch[d][r], verdict[Identity(d, r)])
           Base(done, r) == IF r \in done THEN Acked(r) ELSE slot[d][r]
<1>1. /\ slot \in [Devices -> [Records -> Slot]]
      /\ batch \in [Devices -> [Records -> Envelopes]]
      /\ batch' = [batch EXCEPT ![d] = NoBatch]
      /\ pc[d] # "idle" /\ UNCHANGED active
      /\ \A e \in Devices \ {d} : pc'[e] = pc[e]
  BY DEF CommitPushPrefix, TypeInv, TypeOK, Envelopes
<1>2. PICK done \in SUBSET InBatch(d) :
        /\ \A r \in done : Identity(d, r) \in DOMAIN verdict
        /\ slot' = [slot EXCEPT ![d] = [r \in Records |-> Project(Base(done, r))]]
  BY DEF CommitPushPrefix
<1>3. /\ \A r \in Records : slot'[d][r] = Project(Base(done, r))
      /\ \A e \in Devices \ {d} : slot'[e] = slot[e] /\ batch'[e] = batch[e]
      /\ \A r \in Records : batch'[d][r] = NoEnvelope
  BY <1>1, <1>2 DEF NoBatch
<1>4. ASSUME NEW r \in Records
      PROVE  /\ Retained(slot'[d][r]) /\ Known(slot'[d][r])
             /\ HeldEnvelope(d, r)' /\ Yields(d, r)
  <2> DEFINE s == slot[d][r]
             t == slot'[d][r]
             e == batch[d][r]
             x == verdict[Identity(d, r)]
             o == Base(done, r)
  <2>1. /\ GoodSlot(s) /\ Retained(s) /\ Known(s) /\ t = Project(o)
        /\ e # NoEnvelope => s.fly = e
    BY <1>1, <1>3, EditFacts DEF HeldEnvelope
  <2>2. CASE r \in done
    <3>1. /\ e \in Envelope /\ e # NoEnvelope
          /\ Identity(d, r) \in DOMAIN verdict
          /\ Identity(d, r) = <<d, r, e.n>>
      BY <1>1, <1>2, <2>2 DEF InBatch, Envelopes, Identity
    <3>2. x \in Result /\ ResultRecord(e, x) \in Record
      BY <3>1, ResultIsRecord
    <3>3. o = Acknowledge(s, e, x)
      BY <2>2
    <3> HIDE DEF s, t, e, x, o, Base
    <3>4. /\ GoodSlot(o) /\ Retained(o) /\ Known(o)
          /\ o.val # s.val =>
               TookMirror(o) /\ (s.pend.n = e.n \/ ~Dirty(s))
      BY <2>1, <3>1, <3>2, <3>3, AcknowledgeGood, AcknowledgeKnows
    <3>5. SameContent(o, t)
      BY <2>1, <3>4, ProjectKnows
    <3>6. Retained(t) /\ Known(t)
      BY <3>4, <3>5, SameContentKeeps
    <3>7. Yields(d, r)
      <4> SUFFICES ASSUME Bound(s), t.val # s.val
                   PROVE  \/ /\ t.val = t.rval
                             /\ t.at = t.rat
                             /\ \/ s.val = s.rval
                                \/ s.at <= t.at
                                \/ /\ s.pend.val = s.val
                                   /\ <<d, r, s.pend.n>> \in DOMAIN verdict
                                \/ Unqueued(s) /\ <<d, r, s.fly.n>> \in DOMAIN verdict
                          \/ t.val = s.cand.val /\ s.cand.at > s.at
        BY DEF Yields, s, t
      <4>1. t.val = t.rval /\ t.at = t.rat /\ (s.pend.n = e.n \/ ~Dirty(s))
        BY <3>4, <3>5 DEF SameContent, SameMirror, TookMirror
      <4>2. CASE Dirty(s)
        <5>1. s.pend.val = s.val /\ s.pend.n = e.n
          BY <2>1, <4>1, <4>2 DEF Known
        <5> QED
          BY <3>1, <4>1, <5>1
      <4>3. CASE ~Dirty(s)
        <5>1. s.val = s.rval \/ s.merge
          BY <2>1, <4>3 DEF Known
        <5>2. s.fly.n = e.n
          BY <2>1, <3>1
        <5> QED
          BY <3>1, <4>1, <4>3, <5>1, <5>2 DEF Unqueued
      <4> QED
        BY <4>2, <4>3
    <3> QED
      BY <1>3, <3>6, <3>7 DEF HeldEnvelope, t
  <2>3. CASE r \notin done
    <3>1. t = Project(s)
      BY <1>3, <2>3
    <3> HIDE DEF s, t
    <3>2. SameContent(s, t)
      BY <2>1, <3>1, ProjectKnows
    <3>3. Retained(t) /\ Known(t) /\ t.val = s.val
      BY <2>1, <3>2, SameContentKeeps DEF SameContent
    <3> QED
      BY <1>3, <3>3 DEF HeldEnvelope, Yields, s, t
  <2> QED
    BY <2>2, <2>3
<1>5. EditInv'
  <2>1. pc[d] # "idle" => active[d]
    BY DEF EditInv
  <2> QED
    BY <1>1, <1>3, <1>4, <2>1, EditInvRow
<1>6. ASSUME NEW e \in Devices, NEW r \in Records PROVE Yields(e, r)
  BY <1>3, <1>4 DEF Yields
<1> QED
  BY <1>5, <1>6

(* Every step is an edit, moves nothing a record shows, or is one of the    *)
(* worker's transactions above.                                             *)
LEMMA EditSteps ==
  TypeInv /\ EditInv /\ [Next]_vars =>
    EditInv' /\ (edits' = edits => \A d \in Devices, r \in Records : Yields(d, r))
<1> SUFFICES ASSUME TypeInv, EditInv, [Next]_vars
             PROVE  /\ EditInv'
                    /\ edits' = edits => \A d \in Devices, r \in Records : Yields(d, r)
  OBVIOUS
<1> USE DEF server, database, worker
<1>0. /\ pc \in [Devices -> Phases] /\ active \in [Devices -> BOOLEAN]
      /\ edits \in [Devices -> Nat]
      /\ \A d \in Devices : pc[d] # "idle" => active[d]
  BY DEF TypeInv, TypeOK, EditInv
<1>1. UNCHANGED slot => \A d \in Devices, r \in Records : Yields(d, r)
  BY DEF Yields
<1>2. ASSUME NEW d \in Devices, UserNext(d) PROVE edits' # edits
  <2>1. edits' = [edits EXCEPT ![d] = @ + 1]
    BY <1>2 DEF UserNext, EditBound, EditUnbound, EditSlot
  <2>2. edits'[d] = edits[d] + 1 /\ edits[d] \in Nat
    BY <1>0, <2>1
  <2> QED
    BY <2>2
<1>4. ASSUME UNCHANGED <<slot, batch, pc, active>> PROVE EditInv'
  BY <1>0, <1>4, EditInvUntouched DEF BatchKept
<1>5. ASSUME NEW d \in Devices, SessionNext(d) PROVE EditInv' /\ UNCHANGED slot
  <2>1. CASE SignIn(d)
    BY <1>0, <2>1, EditInvUntouched DEF SignIn, BatchKept
  <2>2. CASE FailRun(d) \/ SignOut(d)
    <3>1. /\ UNCHANGED slot /\ pc' = [pc EXCEPT ![d] = "idle"]
          /\ batch' = [batch EXCEPT ![d] = NoBatch]
          /\ active' = active \/ active' = [active EXCEPT ![d] = FALSE]
      BY <2>2 DEF FailRun, SignOut, StopWorker
    <3>2. \A e \in Devices : pc'[e] # "idle" => active'[e] /\ pc[e] # "idle"
      BY <1>0, <3>1
    <3>3. BatchKept
      BY <3>1 DEF BatchKept, NoBatch, TypeInv, TypeOK
    <3> QED
      BY <3>1, <3>2, <3>3, EditInvUntouched
  <2> QED
    BY <1>5, <2>1, <2>2 DEF SessionNext, SignIn
<1>6. ASSUME NEW d \in Devices, PullPage(d) \/ FinishRun(d)
      PROVE  EditInv' /\ UNCHANGED slot
  <2>1. /\ UNCHANGED <<slot, batch, active>>
        /\ pc[d] # "idle"
        /\ \E p : pc' = [pc EXCEPT ![d] = p]
    BY <1>6 DEF PullPage, FinishRun
  <2>2. \A e \in Devices : pc'[e] # "idle" => active'[e] /\ pc[e] # "idle"
    BY <1>0, <2>1
  <2> QED
    BY <2>1, <2>2, EditInvUntouched DEF BatchKept
<1>7. ASSUME ServerNext PROVE UNCHANGED <<slot, batch, pc, active>>
  BY <1>7 DEF ServerNext, ApplyMutation, SupersedeMutation, Tick
<1>8. ASSUME UNCHANGED vars PROVE UNCHANGED <<slot, batch, pc, active>>
  BY <1>8 DEF vars
<1> QED
  BY <1>1, <1>2, <1>4, <1>5, <1>6, <1>7, <1>8, UserEdits, StartKnows, PullKnows,
     BootstrapKnows, PrepareKnows, AnswerKnows
  DEF Next, WorkerNext

(* The invariant of edits holds of every behaviour.                         *)
LEMMA EditInvHolds == Spec => [](TypeInv /\ EditInv)
<1>1. Init => TypeInv /\ EditInv
  BY TypeInvInit, EditInvInit
<1>2. TypeInv /\ EditInv /\ [Next]_vars => TypeInv' /\ EditInv'
  BY TypeInvNext, EditSteps
<1> QED
  BY <1>1, <1>2, PTL DEF Spec

(* While SyncEngine runs, content that differs from its mirror is queued    *)
(* exactly as it is, or retained for an explicit merge, however edits and   *)
(* sign-outs interleave with the run (sync_repository.dart,                 *)
(* reconcileAccount).                                                       *)
THEOREM SpecRunKnowsEveryEdit == Spec => []RunKnowsEveryEdit
<1>1. EditInv => RunKnowsEveryEdit
  BY DEF EditInv, RunKnowsEveryEdit, Known
<1> QED
  BY <1>1, EditInvHolds, PTL

(* Content is never overwritten behind its user's back: SyncRepository      *)
(* gives it up for the newest mirror when that is at least as new or the    *)
(* server has ruled, and for a strictly newer candidate.                    *)
THEOREM SpecEditYieldsOnlyToAVerdict == Spec => EditYieldsOnlyToAVerdict
<1> DEFINE Step == \A d \in Devices, r \in Records :
       LET s == slot[d][r]
           t == slot'[d][r]
       IN  Bound(s) /\ t.val # s.val /\ edits' = edits =>
             \/ /\ t.val = t.rval
                /\ t.at = t.rat
                /\ \/ s.val = s.rval
                   \/ s.at <= t.at
                   \/ /\ s.pend.val = s.val
                      /\ <<d, r, s.pend.n>> \in DOMAIN verdict
                   \/ Unqueued(s) /\ <<d, r, s.fly.n>> \in DOMAIN verdict
             \/ t.val = s.cand.val /\ s.cand.at > s.at
<1>1. TypeInv /\ EditInv /\ [Next]_vars => [Step]_vars
  BY EditSteps DEF Yields
<1> QED
  BY <1>1, EditInvHolds, PTL DEF Spec, EditYieldsOnlyToAVerdict
=============================================================================
