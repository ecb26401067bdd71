------------------------ MODULE SyncGenerationProofs ------------------------
(***************************************************************************)
(* What holds of the generations of an account for any devices, records    *)
(* and payloads, from any situation IsStart allows, and for any number of  *)
(* edits, faults, takeovers and replacements: a device of the current      *)
(* generation has nothing of an earlier one, and no edit is lost.          *)
(*                                                                         *)
(* Rows first: what each transaction does to one row of the outbox         *)
(* (SyncOutboxProofs has these facts of its own actions; here they are     *)
(* said again for rows that outlive a generation).  Then the parts of the  *)
(* inductive invariant IInv, each with what a step of a device and a step  *)
(* of the service does to it.  A part may rest on the others before the    *)
(* step and on those proved before it after the step.                      *)
(***************************************************************************)
EXTENDS SyncGeneration, FiniteSetTheorems, TLAPS

(* The facts about rows that were proved for SyncOutbox.                   *)
P == INSTANCE SyncOutboxProofs WITH
  Lifecycle <- TRUE, Skewed <- FALSE,
  MaxEdits <- [d \in Devices |-> 0], MaxFaults <- 0

(* What SyncOutbox assumes of its constants holds of those it is given.    *)
LEMMA OutboxConstants == P!ConstantsAssumption
<1>1. [d \in Devices |-> 0] \in [Devices -> Nat]
  OBVIOUS
<1> QED
  BY GenerationAssumption, <1>1 DEF P!ConstantsAssumption

(* A row that is well formed here is one of SyncOutbox.                    *)
LEMMA RowsAgree ==
  ASSUME NEW s
  PROVE  WellFormed(s) <=> /\ P!GoodSlot(s)
                           /\ Outbox!Dirty(s) => s.pend.val = s.val
                           /\ s.fly # Outbox!NoEnvelope => s.fly.n <= s.n
BY DEF WellFormed, P!GoodSlot, Outbox!Bound, P!Bound, Outbox!Dirty, P!Dirty,
       Outbox!NoEnvelope, P!NoEnvelope, Outbox!Slot, P!Slot, Outbox!Times, P!Times,
       Outbox!Envelope, P!Envelope, Outbox!NoEdit, P!NoEdit, Outbox!Edit, P!Edit

(* What a row holds, field by field.                                       *)
LEMMA RowFields ==
  ASSUME NEW s, WellFormed(s)
  PROVE  /\ s \in Outbox!Slot
         /\ s.val \in Values \cup {Absent} /\ s.at \in Nat /\ s.merge \in BOOLEAN
         /\ s.rval \in Values \cup {Absent} /\ s.rat \in Nat /\ s.rrev \in Nat
         /\ s.pend \in Outbox!Envelope \cup {Outbox!NoEnvelope}
         /\ s.fly \in Outbox!Envelope \cup {Outbox!NoEnvelope}
         /\ s.n \in Nat
         /\ s.cand \in Outbox!Edit \cup {Outbox!NoEdit}
BY DEF WellFormed, Outbox!Slot

(* An envelope has a number, and the empty slot has none.                  *)
LEMMA EnvelopeFacts ==
  /\ Outbox!NoEnvelope \notin Outbox!Envelope
  /\ Outbox!NoEnvelope.n = 0
  /\ \A e \in Outbox!Envelope : e.n \in Nat \ {0} /\ e.val \in Values /\ e.at \in Outbox!Times
BY DEF Outbox!Envelope, Outbox!NoEnvelope

(* Something of the row is queued, or was sent and not answered.           *)
Sealed(s) == s.pend # Outbox!NoEnvelope \/ s.fly # Outbox!NoEnvelope

(* The mirror of a record did not move.                                    *)
SameMirror(s, t) == t.rval = s.rval /\ t.rat = s.rat /\ t.rrev = s.rrev

(* What a transaction that sends nothing may do to an outbox.              *)
Reach(s, t) ==
  /\ t.n >= s.n
  /\ t.fly \in {s.fly, Outbox!NoEnvelope}
  /\ \/ t.pend = s.pend /\ (t.fly = s.fly \/ s.fly # s.pend)
     \/ t.pend = Outbox!NoEnvelope
     \/ t.pend.n > s.n

(* A transaction that only drops an envelope, or none.                     *)
LEMMA ReachSame ==
  ASSUME NEW s, NEW t, s.n \in Nat, t.n = s.n, t.fly = s.fly,
         t.pend = s.pend \/ t.pend = Outbox!NoEnvelope
  PROVE  Reach(s, t)
BY DEF Reach

(* Content, mark and outbox did not move.                                  *)
SameContent(s, t) ==
  t.val = s.val /\ t.at = s.at /\ t.merge = s.merge /\ t.pend = s.pend /\ t.n = s.n

(* Freezing fills the pending slot with the content, and nothing else.     *)
LEMMA FreezeRow ==
  ASSUME NEW s, WellFormed(s), Outbox!Bound(s), NEW t, t = Outbox!Freeze(s)
  PROVE  /\ WellFormed(t) /\ SameMirror(s, t) /\ Reach(s, t)
         /\ Outbox!Dirty(t) /\ t.fly = s.fly /\ t.cand = s.cand
         /\ t.val = s.val /\ t.at = s.at /\ t.merge = s.merge
         /\ t.n = s.n + 1 /\ t.pend.n = s.n + 1
<1>1. P!GoodSlot(s) /\ P!Bound(s) /\ t = P!Freeze(s)
  BY RowsAgree DEF Outbox!Bound, P!Bound, Outbox!Freeze, P!Freeze
<1>2. P!GoodSlot(t) /\ P!Local(s, t)
  BY <1>1, OutboxConstants, P!FreezeGood
<1>3. /\ s \in Outbox!Slot /\ s.val \in Values /\ s.at \in Outbox!Times /\ s.n \in Nat
      /\ s.fly # Outbox!NoEnvelope => s.fly.n <= s.n
      /\ s.fly # Outbox!NoEnvelope => s.fly \in Outbox!Envelope
  BY RowFields DEF WellFormed, Outbox!Bound
<1> DEFINE e == [n |-> s.n + 1, val |-> s.val, at |-> s.at]
           w == s.n + 1
<1>4. t = [s EXCEPT !.n = w, !.pend = e]
  BY DEF Outbox!Freeze
<1>5. e # Outbox!NoEnvelope /\ e.n = w /\ e.val = s.val /\ w \in Nat /\ w > s.n
  BY <1>3 DEF Outbox!NoEnvelope
<1> HIDE DEF e, w
<1>6. /\ t.pend = e /\ t.n = w /\ t.fly = s.fly /\ t.val = s.val /\ t.at = s.at
      /\ t.merge = s.merge /\ t.cand = s.cand /\ SameMirror(s, t)
  BY <1>3, <1>4 DEF Outbox!Slot, SameMirror
<1>7. s.fly # Outbox!NoEnvelope => s.fly.n <= w
  BY <1>3, <1>5, EnvelopeFacts
<1>8. WellFormed(t)
  BY <1>2, <1>5, <1>6, <1>7, RowsAgree
<1> QED
  BY <1>3, <1>5, <1>6, <1>8 DEF Outbox!Dirty, Reach, w

(* A row with new content, and the mark the generation asks for.           *)
Edited(s, v, a, q, b) == [Outbox!SaveLocal(s, v, a, q) EXCEPT !.merge = b]

(* Saving new content, queued or not, with the mark the generation asks    *)
(* for: what is queued already is replaced, never left behind.             *)
LEMMA EditRow ==
  ASSUME NEW s, WellFormed(s), NEW v \in Values, NEW a \in Outbox!Times,
         NEW q \in BOOLEAN, NEW b \in BOOLEAN, v # s.val, Outbox!Dirty(s) => q,
         NEW t, t = Edited(s, v, a, q, b)
  PROVE  /\ WellFormed(t) /\ SameMirror(s, t) /\ Reach(s, t)
         /\ t.val = v /\ t.merge = b /\ t.fly = s.fly /\ t.cand = s.cand
         /\ Outbox!Dirty(t) <=> q
<1> DEFINE saved == [s EXCEPT !.val = v, !.at = a, !.merge = TRUE]
           moved == [s EXCEPT !.val = v, !.at = a, !.merge = b]
           u == [s EXCEPT !.val = v, !.at = a, !.merge = b, !.pend = Outbox!NoEnvelope]
<1>1. /\ s \in Outbox!Slot /\ a \in Nat /\ v # Absent /\ s.n \in Nat
      /\ s.fly # Outbox!NoEnvelope => s.fly.n <= s.n
  BY RowFields, GenerationAssumption DEF WellFormed, Outbox!Times
<1>2. /\ u \in Outbox!Slot /\ u.val = v /\ u.at = a /\ u.merge = b
      /\ u.fly = s.fly /\ u.n = s.n /\ u.cand = s.cand /\ u.pend = Outbox!NoEnvelope
      /\ SameMirror(s, u)
  BY <1>1 DEF Outbox!Slot, SameMirror
<1>3. WellFormed(u) /\ Outbox!Bound(u)
  <2> HIDE DEF u
  <2> QED BY <1>1, <1>2 DEF WellFormed, Outbox!Bound, Outbox!Dirty, SameMirror
<1>4. CASE ~q
  <2>1. s.pend = Outbox!NoEnvelope
    BY <1>4 DEF Outbox!Dirty
  <2>2. t = u
    BY <1>1, <1>4, <2>1 DEF Edited, Outbox!SaveLocal, Outbox!Slot
  <2> HIDE DEF u
  <2>3. /\ WellFormed(t) /\ SameMirror(s, t) /\ t.val = v /\ t.merge = b
        /\ t.fly = s.fly /\ t.cand = s.cand /\ t.n = s.n /\ t.pend = Outbox!NoEnvelope
    BY <1>2, <1>3, <2>2
  <2> QED
    BY <1>1, <1>4, <2>3 DEF Outbox!Dirty, Reach
<1>5. CASE q
  <2>1. t = Outbox!Freeze(u)
    <3>1. t = [Outbox!Freeze(saved) EXCEPT !.merge = b]
      BY <1>5 DEF Edited, Outbox!SaveLocal
    <3> QED
      BY <1>1, <3>1 DEF Outbox!Freeze, Outbox!Slot
  <2> HIDE DEF u
  <2>2. /\ WellFormed(t) /\ SameMirror(u, t) /\ Reach(u, t) /\ Outbox!Dirty(t)
        /\ t.fly = u.fly /\ t.cand = u.cand /\ t.val = u.val /\ t.merge = u.merge
        /\ t.n = u.n + 1 /\ t.pend.n = u.n + 1
    BY <1>3, <2>1, FreezeRow
  <2> QED
    BY <1>1, <1>2, <1>5, <2>2 DEF Reach, SameMirror
<1> QED
  BY <1>4, <1>5

(* Reconciling queues what is not queued as it is, and changes no content. *)
LEMMA ReconcileRow ==
  ASSUME NEW s, WellFormed(s), NEW t, t = Outbox!Reconcile(s)
  PROVE  /\ WellFormed(t) /\ SameMirror(s, t) /\ Reach(s, t)
         /\ t.val = s.val /\ t.at = s.at /\ t.merge = s.merge
         /\ t.fly = s.fly /\ t.cand = s.cand
         /\ Outbox!Dirty(s) => Outbox!Dirty(t)
<1>1. t = s \/ (Outbox!Bound(s) /\ t = Outbox!Freeze(s))
  BY DEF Outbox!Reconcile
<1>2. s.n \in Nat
  BY RowFields
<1> QED
  BY <1>1, <1>2, FreezeRow DEF SameMirror, Reach

(* Projecting a document at most drops a candidate.                        *)
LEMMA ProjectRow ==
  ASSUME NEW s, WellFormed(s), NEW t, t = Outbox!Project(s)
  PROVE  /\ WellFormed(t) /\ SameMirror(s, t) /\ SameContent(s, t) /\ t.fly = s.fly
         /\ t.cand \in {s.cand, Outbox!NoEdit}
<1>1. t = s \/ t = [s EXCEPT !.cand = Outbox!NoEdit]
  BY DEF Outbox!Project
<1>2. s \in Outbox!Slot
  BY RowFields
<1>3. /\ t \in Outbox!Slot /\ SameMirror(s, t) /\ SameContent(s, t) /\ t.fly = s.fly
      /\ t.cand \in {s.cand, Outbox!NoEdit}
  BY <1>1, <1>2 DEF Outbox!Slot, SameMirror, SameContent
<1> QED
  BY <1>3 DEF WellFormed, SameMirror, SameContent, Outbox!Bound, Outbox!Dirty

(* Binding a candidate leaves the document alone, or makes the candidate   *)
(* its content: marked, and queued.                                        *)
Joins(s, t) ==
  /\ s.cand # Outbox!NoEdit
  /\ t.cand = Outbox!NoEdit
  /\ t.val = s.cand.val
  /\ t.val # s.val
  /\ t.merge
  /\ Outbox!Dirty(t)

(* What binding a candidate does to a row.                                 *)
LEMMA BindRow ==
  ASSUME NEW s, WellFormed(s), NEW t, t = Outbox!Bind(s)
  PROVE  /\ WellFormed(t) /\ SameMirror(s, t) /\ Reach(s, t) /\ t.fly = s.fly
         /\ SameContent(s, t) \/ Joins(s, t)
<1> DEFINE c == s.cand
           bound == [s EXCEPT !.val = c.val, !.at = c.at, !.merge = TRUE,
                              !.cand = Outbox!NoEdit]
           freed == [s EXCEPT !.cand = Outbox!NoEdit]
<1>1. s \in Outbox!Slot /\ s.n \in Nat /\ c \in Outbox!Edit \cup {Outbox!NoEdit}
  BY RowFields
<1>2. CASE c = Outbox!NoEdit
  BY <1>1, <1>2 DEF Outbox!Bind, SameMirror, Reach, SameContent
<1>3. CASE c # Outbox!NoEdit
  <2>1. c.val \in Values /\ c.at \in Outbox!Times /\ c.val # Absent /\ c.at \in Nat
    BY <1>1, <1>3, GenerationAssumption DEF Outbox!Edit, Outbox!Times
  <2>2. /\ freed \in Outbox!Slot /\ SameMirror(s, freed) /\ SameContent(s, freed)
        /\ freed.fly = s.fly /\ freed.cand = Outbox!NoEdit
    BY <1>1 DEF Outbox!Slot, Outbox!NoEdit, SameMirror, SameContent
  <2>3. WellFormed(freed)
    <3> HIDE DEF freed
    <3> QED
      BY <2>2 DEF WellFormed, SameMirror, SameContent, Outbox!Bound, Outbox!Dirty
  <2>4. CASE ~Outbox!Bound(s)
    <3>1. s.pend = Outbox!NoEnvelope
      BY <2>4, <1>1, EnvelopeFacts, GenerationAssumption
      DEF WellFormed, Outbox!Bound, Outbox!Dirty, Outbox!Slot
    <3>2. /\ bound \in Outbox!Slot /\ bound.val = c.val /\ bound.at = c.at
          /\ bound.merge = TRUE /\ bound.cand = Outbox!NoEdit /\ SameMirror(s, bound)
          /\ bound.fly = s.fly /\ bound.n = s.n /\ bound.pend = s.pend
      BY <1>1, <2>1 DEF Outbox!Slot, Outbox!NoEdit, SameMirror
    <3>3. t = Outbox!Freeze(bound)
      BY <1>3, <2>4 DEF Outbox!Bind
    <3> HIDE DEF bound
    <3>4. WellFormed(bound) /\ Outbox!Bound(bound)
      BY <2>1, <3>1, <3>2 DEF WellFormed, SameMirror, Outbox!Bound, Outbox!Dirty
    <3>5. /\ WellFormed(t) /\ SameMirror(bound, t) /\ Reach(bound, t) /\ Outbox!Dirty(t)
          /\ t.fly = bound.fly /\ t.cand = bound.cand /\ t.val = bound.val
          /\ t.merge = bound.merge
      BY <3>3, <3>4, FreezeRow
    <3> QED
      BY <1>3, <2>1, <2>4, <3>1, <3>2, <3>5 DEF SameMirror, Reach, Joins, Outbox!Bound
  <2>5. CASE Outbox!Bound(s) /\ (~(c.at > s.at) \/ c.val = s.val)
    <3>1. t = freed
      BY <1>3, <2>2, <2>5 DEF Outbox!Bind, Outbox!SaveLocal, SameContent
    <3> HIDE DEF freed
    <3> QED
      BY <1>1, <2>2, <2>3, <3>1 DEF SameContent, Reach, SameMirror
  <2>6. CASE Outbox!Bound(s) /\ c.at > s.at /\ c.val # s.val
    <3> DEFINE u == [bound EXCEPT !.pend = Outbox!NoEnvelope]
    <3>1. t = Outbox!SaveLocal(freed, c.val, c.at, TRUE)
      BY <1>3, <2>6 DEF Outbox!Bind
    <3>2. /\ u \in Outbox!Slot /\ u.val = c.val /\ u.at = c.at /\ u.merge = TRUE
          /\ u.cand = Outbox!NoEdit /\ u.fly = s.fly /\ u.n = s.n
          /\ u.pend = Outbox!NoEnvelope /\ SameMirror(s, u)
      BY <1>1, <2>1 DEF Outbox!Slot, Outbox!NoEdit, SameMirror
    <3>3. t = Outbox!Freeze(u)
      <4>1. t = Outbox!Freeze([freed EXCEPT !.val = c.val, !.at = c.at, !.merge = TRUE])
        BY <2>2, <2>6, <3>1 DEF Outbox!SaveLocal, SameContent
      <4> QED
        BY <1>1, <4>1 DEF Outbox!Freeze, Outbox!Slot
    <3> HIDE DEF u
    <3>4. WellFormed(u) /\ Outbox!Bound(u)
      BY <2>1, <3>2 DEF WellFormed, SameMirror, Outbox!Bound, Outbox!Dirty
    <3>5. /\ WellFormed(t) /\ SameMirror(u, t) /\ Outbox!Dirty(t)
          /\ t.fly = u.fly /\ t.cand = u.cand /\ t.val = u.val /\ t.merge = u.merge
          /\ t.n = u.n + 1 /\ t.pend.n = u.n + 1
      BY <3>3, <3>4, FreezeRow
    <3> QED
      BY <1>1, <1>3, <2>6, <3>2, <3>5 DEF SameMirror, Reach, Joins
  <2> QED
    BY <2>4, <2>5, <2>6
<1> QED
  BY <1>2, <1>3

(* A server record as a page or an answer carries it.                      *)
Record == [val : Values, at : Outbox!Times, rev : Nat \ {0}]

(* The mirror is at the record, or was at least as new already.            *)
Observed(s, t, record) ==
  IF s.rrev >= record.rev THEN SameMirror(s, t)
  ELSE t.rval = record.val /\ t.rat = record.at /\ t.rrev = record.rev

(* The record has become the content: it was equal to it, or nothing was   *)
(* marked and the record is not older.                                     *)
Took(s, t, record) ==
  /\ t.val = record.val
  /\ s.rrev < record.rev
  /\ t.rrev = record.rev /\ t.rat = record.at
  /\ ~t.merge
  /\ t.pend = Outbox!NoEnvelope
  /\ \/ s.val = record.val
     \/ ~s.merge /\ (Outbox!Dirty(s) => s.at <= record.at)

(* Observing a record moves the mirror to it; the content stays as it was, *)
(* or becomes the record's.                                                *)
LEMMA ObserveRow ==
  ASSUME NEW s, WellFormed(s), NEW record \in Record,
         NEW t, t = Outbox!Observe(s, record, TRUE)
  PROVE  /\ WellFormed(t) /\ Observed(s, t, record) /\ Reach(s, t)
         /\ t.fly = s.fly /\ t.cand = s.cand /\ t.n = s.n
         /\ SameContent(s, t) \/ Took(s, t, record)
<1> DEFINE v == record.val
           a == record.at
           k == record.rev
           mirrored == [s EXCEPT !.rval = v, !.rat = a, !.rrev = k]
           taken == [mirrored EXCEPT !.val = v, !.at = a, !.merge = FALSE,
                                     !.pend = Outbox!NoEnvelope]
<1>1. /\ s \in Outbox!Slot /\ s.rrev \in Nat /\ s.n \in Nat /\ s.at \in Nat
      /\ v \in Values /\ v # Absent /\ a \in Outbox!Times /\ a \in Nat
      /\ k \in Nat /\ k > 0
  BY RowFields, GenerationAssumption DEF Record, Outbox!Times
<1>2. \/ s.rrev >= k /\ t = s
      \/ s.rrev < k /\ t = mirrored
      \/ s.rrev < k /\ Outbox!TakesRemote(s, record) /\ t = taken
  BY <1>1 DEF Outbox!Observe
<1>a. record.val = v /\ record.at = a /\ record.rev = k
  OBVIOUS
<1> HIDE DEF v, a, k
<1>3. CASE s.rrev >= k /\ t = s
  <2>1. Observed(s, t, record)
    BY <1>1, <1>3 DEF Observed, SameMirror, k
  <2>2. WellFormed(t)
    BY <1>3
  <2>3. SameContent(s, t) /\ t.fly = s.fly /\ t.cand = s.cand /\ t.n = s.n
    BY <1>3 DEF SameContent
  <2>4. Reach(s, t)
    BY <1>1, <2>3, ReachSame DEF SameContent
  <2> QED BY <2>1, <2>2, <2>3, <2>4
<1>4. CASE s.rrev < k /\ t = mirrored
  <2>1. /\ t \in Outbox!Slot /\ SameContent(s, t) /\ t.rval = v /\ t.rat = a /\ t.rrev = k
        /\ t.fly = s.fly /\ t.cand = s.cand
    BY <1>1, <1>4 DEF Outbox!Slot, SameContent
  <2>2. WellFormed(t)
    BY <1>1, <2>1 DEF WellFormed, SameContent, Outbox!Bound, Outbox!Dirty
  <2>3. Reach(s, t) /\ t.n = s.n
    BY <1>1, <2>1, ReachSame DEF SameContent
  <2>4. Observed(s, t, record)
    <3>1. ~(s.rrev >= k)
      BY <1>1, <1>4
    <3> HIDE DEF mirrored
    <3> QED
      BY <1>a, <2>1, <3>1 DEF Observed
  <2> QED
    BY <2>1, <2>2, <2>3, <2>4
<1>5. CASE s.rrev < k /\ Outbox!TakesRemote(s, record) /\ t = taken
  <2>1. /\ t \in Outbox!Slot /\ t.rval = v /\ t.rat = a /\ t.rrev = k
        /\ t.val = v /\ t.at = a /\ t.merge = FALSE /\ t.pend = Outbox!NoEnvelope
        /\ t.fly = s.fly /\ t.cand = s.cand /\ t.n = s.n
    BY <1>1, <1>5 DEF Outbox!Slot
  <2>2. WellFormed(t)
    BY <1>1, <2>1 DEF WellFormed, Outbox!Bound, Outbox!Dirty
  <2>3. s.val = v \/ (~s.merge /\ (Outbox!Dirty(s) => s.at <= a))
    BY <1>1, <1>5 DEF Outbox!TakesRemote, Outbox!AlreadyMerged, v, a
  <2>4. Reach(s, t)
    BY <1>1, <2>1, ReachSame
  <2>5. Observed(s, t, record)
    <3>1. ~(s.rrev >= k)
      BY <1>1, <1>5
    <3> HIDE DEF taken, mirrored
    <3> QED
      BY <1>a, <2>1, <3>1 DEF Observed
  <2>6. Took(s, t, record)
    <3> HIDE DEF taken, mirrored
    <3> QED
      BY <1>a, <1>5, <2>1, <2>3 DEF Took
  <2> QED
    BY <2>1, <2>2, <2>4, <2>5, <2>6
<1> QED
  BY <1>2, <1>3, <1>4, <1>5

(* An answer settles the row it was current for, and otherwise only clears *)
(* the envelope it answers and moves the mirror.                           *)
Acknowledges(s, t, sent) ==
  /\ s.pend.n = sent.n \/ ~Outbox!Dirty(s)
  /\ t.val = t.rval
  /\ ~t.merge
  /\ t.pend = Outbox!NoEnvelope

(* What an answer of the service does to a row.                            *)
LEMMA AcknowledgeRow ==
  ASSUME NEW s, WellFormed(s), NEW sent \in Outbox!Envelope, NEW result \in Outbox!Result,
         NEW record \in Record, record = Outbox!ResultRecord(sent, result),
         s.fly = sent, s.pend.n = sent.n => s.pend = sent,
         NEW t, t = Outbox!Acknowledge(s, sent, result)
  PROVE  /\ WellFormed(t) /\ Observed(s, t, record) /\ Reach(s, t) /\ t.cand = s.cand
         /\ t.fly = Outbox!NoEnvelope
         /\ \/ Acknowledges(s, t, sent)
            \/ /\ t.val = s.val /\ t.merge = s.merge /\ t.pend = s.pend
               /\ s.pend.n # sent.n /\ Outbox!Dirty(s)
<1> DEFINE observed == Outbox!Observe(s, record, FALSE)
           v == record.val
           a == record.at
           k == record.rev
           mirrored == [s EXCEPT !.rval = v, !.rat = a, !.rrev = k]
           current == s.pend.n = sent.n
<1>1. /\ s \in Outbox!Slot /\ s.rrev \in Nat /\ s.n \in Nat
      /\ v \in Values /\ v # Absent /\ a \in Outbox!Times /\ a \in Nat
      /\ k \in Nat /\ k > 0 /\ sent.n \in Nat \ {0} /\ sent # Outbox!NoEnvelope
      /\ s.pend \in Outbox!Envelope \cup {Outbox!NoEnvelope}
  BY RowFields, GenerationAssumption, EnvelopeFacts DEF Record, Outbox!Times
<1>2. /\ s.rrev >= k => observed = s
      /\ ~(s.rrev >= k) => observed = mirrored
  BY <1>1 DEF Outbox!Observe
<1>3. /\ observed \in Outbox!Slot /\ observed.val = s.val /\ observed.merge = s.merge
      /\ observed.at = s.at /\ observed.pend = s.pend
      /\ observed.n = s.n /\ observed.fly = s.fly /\ observed.cand = s.cand
      /\ Observed(s, observed, record)
      /\ observed.rrev > 0 /\ observed.rval \in Values /\ observed.rat \in Outbox!Times
  <2> HIDE DEF v, a, k
  <2>1. CASE s.rrev >= k
    <3>1. observed = s
      BY <1>2, <2>1
    <3> HIDE DEF observed
    <3> QED
      BY <1>1, <2>1, <3>1 DEF Observed, SameMirror, k, WellFormed
  <2>2. CASE ~(s.rrev >= k)
    <3>1. observed = mirrored
      BY <1>2, <2>2
    <3> HIDE DEF observed
    <3> QED
      BY <1>1, <2>2, <3>1 DEF Outbox!Slot, Observed, v, a, k
  <2> QED
    BY <2>1, <2>2
<1>4. WellFormed(observed) /\ observed.rval # Absent
  <2> HIDE DEF observed
  <2> QED BY <1>3, GenerationAssumption DEF WellFormed, Outbox!Bound, Outbox!Dirty
<1>5. CASE current \/ ~Outbox!Dirty(s)
  <2>0. s.pend.n # sent.n => s.pend = Outbox!NoEnvelope
    BY <1>5 DEF Outbox!Dirty
  <2>1. t = [observed EXCEPT !.val = observed.rval, !.at = observed.rat, !.merge = FALSE,
                          !.pend = Outbox!NoEnvelope, !.fly = Outbox!NoEnvelope]
    <3>1. t = [[observed EXCEPT !.val = observed.rval, !.at = observed.rat, !.merge = FALSE]
                 EXCEPT !.pend = IF current THEN Outbox!NoEnvelope ELSE @,
                        !.fly = IF s.fly.n = sent.n THEN Outbox!NoEnvelope ELSE @]
      BY <1>5 DEF Outbox!Acknowledge
    <3> HIDE DEF observed
    <3> QED
      BY <1>3, <2>0, <3>1 DEF Outbox!Slot
  <2> HIDE DEF observed
  <2>2. /\ t \in Outbox!Slot /\ t.val = observed.rval /\ t.at = observed.rat /\ t.merge = FALSE
        /\ t.pend = Outbox!NoEnvelope /\ t.fly = Outbox!NoEnvelope /\ t.n = s.n
        /\ t.cand = s.cand /\ SameMirror(observed, t)
    BY <1>3, <2>1 DEF Outbox!Slot, SameMirror, Outbox!Times
  <2>3. WellFormed(t)
    BY <1>3, <1>4, <2>2 DEF WellFormed, SameMirror, Outbox!Bound, Outbox!Dirty
  <2> QED
    BY <1>1, <1>3, <1>5, <2>2, <2>3 DEF Observed, SameMirror, Reach, Acknowledges
<1>6. CASE ~current /\ Outbox!Dirty(s)
  <2>1. t = [observed EXCEPT !.fly = Outbox!NoEnvelope]
    <3>1. t = [observed EXCEPT !.pend = IF current THEN Outbox!NoEnvelope ELSE @,
                            !.fly = IF s.fly.n = sent.n THEN Outbox!NoEnvelope ELSE @]
      BY <1>6 DEF Outbox!Acknowledge
    <3> HIDE DEF observed
    <3> QED
      BY <1>3, <1>6, <3>1 DEF Outbox!Slot
  <2> HIDE DEF observed
  <2>2. /\ t \in Outbox!Slot /\ SameContent(s, t) /\ t.fly = Outbox!NoEnvelope
        /\ t.cand = s.cand /\ SameMirror(observed, t)
    BY <1>3, <2>1 DEF Outbox!Slot, SameMirror, SameContent
  <2>3. WellFormed(t)
    BY <1>3, <1>4, <2>2 DEF WellFormed, SameMirror, SameContent, Outbox!Bound, Outbox!Dirty
  <2> QED
    BY <1>1, <1>3, <1>6, <2>2, <2>3 DEF Observed, SameMirror, SameContent, Reach
<1> QED
  BY <1>5, <1>6

(* Sealing an envelope for a request moves nothing else.                   *)
LEMMA SendRow ==
  ASSUME NEW s, WellFormed(s), Sealed(s),
         NEW t, t = [s EXCEPT !.fly = Outbox!Outgoing(s)]
  PROVE  /\ WellFormed(t) /\ SameMirror(s, t) /\ SameContent(s, t) /\ t.cand = s.cand
         /\ t.fly = Outbox!Outgoing(s) /\ t.fly \in Outbox!Envelope
         /\ t.fly.n <= s.n
         /\ t.fly = s.fly \/ (s.fly = Outbox!NoEnvelope /\ t.fly = s.pend)
<1> DEFINE e == Outbox!Outgoing(s)
<1>1. s \in Outbox!Slot /\ s.n \in Nat
  BY RowFields
<1>2. /\ e \in Outbox!Envelope /\ e # Outbox!NoEnvelope /\ e.n <= s.n
      /\ e = s.fly \/ (s.fly = Outbox!NoEnvelope /\ e = s.pend)
  BY RowFields, EnvelopeFacts DEF WellFormed, Sealed, Outbox!Outgoing, Outbox!Dirty
<1> HIDE DEF e
<1>3. t = [s EXCEPT !.fly = e]
  BY DEF e
<1>4. /\ t \in Outbox!Slot /\ SameMirror(s, t) /\ SameContent(s, t) /\ t.cand = s.cand
      /\ t.fly = e
  BY <1>1, <1>2, <1>3 DEF Outbox!Slot, SameMirror, SameContent
<1> QED
  BY <1>2, <1>4 DEF WellFormed, SameMirror, SameContent, Outbox!Bound, Outbox!Dirty, e

(* What a repository transaction makes of a row it has observed: content,  *)
(* mirror and request stay, or a candidate becomes the content.            *)
Merged(u, t) ==
  /\ WellFormed(t) /\ SameMirror(u, t) /\ Reach(u, t) /\ t.fly = u.fly
  /\ \/ SameContent(u, t)
     \/ Joins(u, t)

(* Showing the service's record is a merge.                                *)
LEMMA ProjectMerges ==
  ASSUME NEW u, WellFormed(u), NEW t, t = Outbox!Project(u)
  PROVE  Merged(u, t)
<1>1. /\ WellFormed(t) /\ SameMirror(u, t) /\ SameContent(u, t) /\ t.fly = u.fly
  BY ProjectRow
<1>2. Reach(u, t)
  BY <1>1, RowFields, ReachSame DEF SameContent
<1> QED
  BY <1>1, <1>2 DEF Merged

(* Binding a candidate and showing the record is one, too.                 *)
LEMMA BindMerges ==
  ASSUME NEW u, WellFormed(u), NEW t, t = Outbox!Project(Outbox!Bind(u))
  PROVE  Merged(u, t)
<1> DEFINE b == Outbox!Bind(u)
<1>1. /\ WellFormed(b) /\ SameMirror(u, b) /\ Reach(u, b) /\ b.fly = u.fly
      /\ SameContent(u, b) \/ Joins(u, b)
  BY BindRow
<1>2. t = Outbox!Project(b)
  OBVIOUS
<1> HIDE DEF b
<1>3. /\ WellFormed(t) /\ SameMirror(b, t) /\ SameContent(b, t) /\ t.fly = b.fly
      /\ t.cand \in {b.cand, Outbox!NoEdit}
  BY <1>1, <1>2, ProjectRow
<1>4. SameMirror(u, t) /\ Reach(u, t) /\ t.fly = u.fly
  BY <1>1, <1>3 DEF SameMirror, SameContent, Reach
<1>5. SameContent(u, t) \/ Joins(u, t)
  <2>1. CASE SameContent(u, b)
    BY <1>3, <2>1 DEF SameContent
  <2>2. CASE Joins(u, b)
    BY <1>3, <2>2 DEF SameContent, Joins, Outbox!Dirty
  <2> QED BY <1>1, <2>1, <2>2
<1> QED
  BY <1>3, <1>4, <1>5 DEF Merged

(* The content a user of the row made, after a step from s to t.           *)
AuthorOf(s, t, v) ==
  IF s.cand # Outbox!NoEdit /\ t.cand = Outbox!NoEdit /\ t.val = s.cand.val /\ t.val # s.val
  THEN t.val ELSE v

(* Content the service never had stays the content, queued or marked; it   *)
(* yields only to a record that is equal to it, or not older than it.      *)
LEMMA MergeHolds ==
  ASSUME NEW s, WellFormed(s), NEW v, v # Absent => Holds(s, v), NEW record, NEW u,
         u = s \/ (record \in Record /\ u = Outbox!Observe(s, record, TRUE)),
         NEW t, Merged(u, t), NEW w, w = AuthorOf(s, t, v), w # Absent
  PROVE  \/ Holds(t, w)
         \/ u # s /\ w = record.val
         \/ ~s.merge /\ t.rrev > s.rrev /\ s.at <= t.rat
<1>0. w = v \/ (w = t.val /\ t.val = s.cand.val /\ t.val # s.val)
  BY DEF AuthorOf
<1>1. \/ SameContent(s, u) /\ u.cand = s.cand /\ u.fly = s.fly
         /\ (SameMirror(s, u) \/ (u # s /\ u.rval = record.val))
      \/ Took(s, u, record)
  <2>1. CASE u = s
    BY <2>1 DEF SameContent, SameMirror
  <2>2. CASE u # s /\ record \in Record /\ u = Outbox!Observe(s, record, TRUE)
    <3>1. /\ Observed(s, u, record) /\ u.fly = s.fly /\ u.cand = s.cand
          /\ SameContent(s, u) \/ Took(s, u, record)
      BY <2>2, ObserveRow
    <3> QED
      BY <2>2, <3>1 DEF Observed
  <2> QED BY <2>1, <2>2
<1>2. CASE SameContent(s, u) /\ u.cand = s.cand /\ u.fly = s.fly
           /\ (SameMirror(s, u) \/ (u # s /\ u.rval = record.val))
  <2>1. CASE SameContent(u, t)
    <3>1. t.val = s.val /\ w = v /\ Holds(s, v)
      BY <1>0, <1>2, <2>1 DEF SameContent
    <3>2. /\ t.merge = s.merge /\ t.pend = s.pend /\ t.fly = s.fly
          /\ SameMirror(s, t) \/ (u # s /\ t.rval = record.val)
      BY <1>2, <2>1 DEF SameContent, SameMirror, Merged
    <3> QED
      BY <3>1, <3>2 DEF Holds, SameMirror, Outbox!Dirty
  <2>2. CASE Joins(u, t)
    <3>1. w = t.val
      BY <1>2, <2>2 DEF Joins, AuthorOf, SameContent
    <3> QED
      BY <2>2, <3>1 DEF Joins, Holds
  <2> QED BY <2>1, <2>2 DEF Merged
<1>3. CASE Took(s, u, record)
  <2>0. u # s /\ u.cand = s.cand
    <3>1. u # s
      BY <1>3, RowFields DEF Took
    <3> QED BY <3>1, ObserveRow
  <2>1. CASE SameContent(u, t)
    <3>1. t.val = record.val /\ t.rrev = record.rev /\ t.rat = record.at
      BY <1>3, <2>1 DEF SameContent, Took, Merged, SameMirror
    <3>2. CASE w = t.val
      BY <2>0, <3>1, <3>2
    <3>3. CASE w = v /\ s.val = record.val
      BY <2>0, <3>1, <3>3 DEF Holds
    <3>4. CASE w = v /\ ~s.merge /\ (Outbox!Dirty(s) => s.at <= record.at)
      <4>1. Outbox!Dirty(s)
        BY <3>4 DEF Holds
      <4>2. record.rev > s.rrev
        BY <2>0, <1>3, RowFields DEF Took, Record
      <4> QED
        BY <3>1, <3>4, <4>1, <4>2
    <3> QED
      BY <1>0, <1>3, <3>2, <3>3, <3>4 DEF Took
  <2>2. CASE Joins(u, t)
    <3>1. w = t.val
      BY <2>0, <2>2, <1>0 DEF Joins, AuthorOf, Holds
    <3> QED
      BY <2>2, <3>1 DEF Joins, Holds
  <2> QED BY <2>1, <2>2 DEF Merged
<1> QED
  BY <1>1, <1>2, <1>3

(* An answer takes such content away only with a ruling on that content, or*)
(* with a record that is equal to it.                                      *)
LEMMA AcknowledgeHolds ==
  ASSUME NEW s, WellFormed(s), NEW v, v # Absent, Holds(s, v),
         NEW sent \in Outbox!Envelope, NEW result \in Outbox!Result,
         NEW record \in Record, record = Outbox!ResultRecord(sent, result),
         s.fly = sent, s.pend.n = sent.n => s.pend = sent,
         NEW u, u = Outbox!Acknowledge(s, sent, result),
         NEW t, t = Outbox!Project(u)
  PROVE  \/ Holds(t, v)
         \/ v = record.val
         \/ v = sent.val
<1>1. /\ WellFormed(u) /\ Observed(s, u, record) /\ u.fly = Outbox!NoEnvelope
      /\ \/ Acknowledges(s, u, sent)
         \/ /\ u.val = s.val /\ u.merge = s.merge /\ u.pend = s.pend
            /\ s.pend.n # sent.n /\ Outbox!Dirty(s)
  BY AcknowledgeRow
<1>2. SameMirror(u, t) /\ SameContent(u, t) /\ t.fly = u.fly
  BY <1>1, ProjectRow
<1>3. sent # Outbox!NoEnvelope
  BY EnvelopeFacts
<1>4. CASE Acknowledges(s, u, sent)
  <2>1. Outbox!Dirty(s)
    BY <1>3 DEF Holds
  <2>2. s.pend = sent /\ s.pend.val = s.val
    BY <1>4, <2>1 DEF Acknowledges, WellFormed
  <2> QED
    BY <2>2 DEF Holds
<1>5. CASE /\ u.val = s.val /\ u.merge = s.merge /\ u.pend = s.pend
           /\ s.pend.n # sent.n /\ Outbox!Dirty(s)
  <2>1. SameMirror(s, u) \/ u.rval = record.val
    BY <1>1 DEF Observed
  <2> QED
    BY <1>1, <1>2, <1>5, <2>1 DEF Holds, SameMirror, SameContent, Outbox!Dirty
<1> QED
  BY <1>1, <1>4, <1>5

(* A document that outlives its generation knows no record of the next, and*)
(* still holds what the service never had.                                 *)
LEMMA RetiredRow ==
  ASSUME NEW s, WellFormed(s), NEW t, t = Retired(s)
  PROVE  /\ WellFormed(t) /\ t.rrev = 0 /\ ~Sealed(t) /\ t.cand = s.cand /\ t.val = s.val
         /\ \A v : Holds(s, v) => Holds(t, v)
<1> DEFINE m == s.merge \/ (IF s.rrev = 0 THEN Outbox!Dirty(s) ELSE s.val # s.rval)
<1>1. s \in Outbox!Slot /\ s.merge \in BOOLEAN /\ s.rrev \in Nat
  BY RowFields
<1>2. t = [s EXCEPT !.merge = m,
            !.rval = Absent, !.rat = 0, !.rrev = 0, !.n = 0,
            !.pend = Outbox!NoEnvelope, !.fly = Outbox!NoEnvelope]
  BY DEF Retired
<1>3. m \in BOOLEAN
  BY <1>1 DEF Outbox!Dirty
<1>4. \A v : Holds(s, v) => m
  BY <1>1 DEF Holds
<1> HIDE DEF m
<1>5. /\ t \in Outbox!Slot /\ t.val = s.val /\ t.at = s.at /\ t.merge = m
      /\ t.rrev = 0 /\ t.pend = Outbox!NoEnvelope /\ t.fly = Outbox!NoEnvelope
      /\ t.cand = s.cand
  <2> DEFINE none == Outbox!NoEnvelope
             zero == 0
  <2>1. /\ none \in Outbox!Envelope \cup {Outbox!NoEnvelope}
        /\ Absent \in Values \cup {Absent} /\ zero \in Nat
    OBVIOUS
  <2>2. t = [s EXCEPT !.merge = m, !.rval = Absent, !.rat = zero, !.rrev = zero,
                      !.n = zero, !.pend = none, !.fly = none]
    BY <1>2
  <2>3. none = Outbox!NoEnvelope /\ zero = 0
    OBVIOUS
  <2> HIDE DEF none, zero
  <2>4. /\ t \in Outbox!Slot /\ t.val = s.val /\ t.at = s.at /\ t.merge = m
        /\ t.rrev = zero /\ t.pend = none /\ t.fly = none /\ t.cand = s.cand
    BY <1>1, <1>3, <2>1, <2>2 DEF Outbox!Slot
  <2> QED BY <2>3, <2>4
<1>6. WellFormed(t)
  BY <1>5 DEF WellFormed, Outbox!Bound, Outbox!Dirty
<1>7. \A v : Holds(s, v) => Holds(t, v)
  BY <1>4, <1>5 DEF Holds
<1> QED
  BY <1>5, <1>6, <1>7 DEF Sealed

(* The content chosen for a rebuild is the row's, or its candidate's.      *)
LEMMA ChosenRow ==
  ASSUME NEW s, WellFormed(s), ~Sealed(s), NEW t, t = Chosen(s)
  PROVE  /\ WellFormed(t) /\ SameMirror(s, t) /\ ~Sealed(t) /\ t.n = s.n
         /\ \A v, w : /\ v # Absent => Holds(s, v)
                      /\ w = AuthorOf(s, t, v)
                      /\ w # Absent
                      => Holds(t, w)
<1> DEFINE b == Outbox!Bind(s)
<1>1. s \in Outbox!Slot /\ s.pend = Outbox!NoEnvelope /\ s.fly = Outbox!NoEnvelope
      /\ s.n \in Nat
  BY RowFields DEF Sealed
<1>2. t = [b EXCEPT !.pend = Outbox!NoEnvelope, !.n = s.n]
  <2>1. [s EXCEPT !.pend = Outbox!NoEnvelope, !.fly = Outbox!NoEnvelope] = s
    BY <1>1 DEF Outbox!Slot
  <2> QED
    BY <2>1 DEF Chosen
<1>3. /\ WellFormed(b) /\ SameMirror(s, b) /\ b.fly = s.fly
      /\ SameContent(s, b) \/ Joins(s, b)
  BY BindRow
<1> HIDE DEF b
<1>4. /\ t \in Outbox!Slot /\ SameMirror(s, t) /\ t.n = s.n /\ t.pend = Outbox!NoEnvelope
      /\ t.fly = Outbox!NoEnvelope /\ t.val = b.val /\ t.at = b.at /\ t.merge = b.merge
      /\ t.cand = b.cand
  BY <1>1, <1>2, <1>3, RowFields DEF Outbox!Slot, SameMirror
<1>5. WellFormed(t)
  BY <1>3, <1>4 DEF WellFormed, SameMirror, Outbox!Bound, Outbox!Dirty
<1>6. ASSUME NEW v, NEW w, v # Absent => Holds(s, v), w = AuthorOf(s, t, v), w # Absent
      PROVE  Holds(t, w)
  <2>1. CASE SameContent(s, b)
    BY <1>1, <1>4, <1>6, <2>1 DEF SameContent, AuthorOf, Holds, Outbox!Dirty
  <2>2. CASE Joins(s, b)
    BY <1>4, <1>6, <2>2 DEF Joins, AuthorOf, Holds
  <2> QED BY <1>3, <2>1, <2>2
<1> QED
  BY <1>4, <1>5, <1>6 DEF Sealed

(***************************************************************************)
(* Types.                                                                  *)
(***************************************************************************)
(* The steps of a run, before its steady state.                            *)
Lives == {"idle", "adopt", "activate", "attempt", "intent", "open", "await", "verify",
          "settle", "reread", "upload", "staging", "staged", "progress", "verdict",
          "pull", "publish", "run"}

(* How a space came to be.                                                 *)
Origins == {"none", "legacy", "initial", "rebuilt"}

(* What is known of the backup of a space.                                 *)
Backups == {"none", "rebuildRequired", "rebuilding", "ready"}

(* What a control request may ask for.                                     *)
Actions == {"start", "claim", "cancel", "complete"}

(* Attempts are counted from one.                                          *)
Ids == Devices \X (Nat \ {0})

(* Control requests.                                                       *)
Ops == [id : Ids, action : Actions, gen : Nat, expect : Ids \cup {None},
        listed : SUBSET Records]

(* What is frozen of a record for an attempt.                              *)
Entries == [val : Values, at : Outbox!Times, acked : BOOLEAN] \cup {NoEntry}

(* The attempt the service has open.                                       *)
Attempts == [id : Ids \cup {None}, listed : SUBSET Records, staged : [Records -> Entries]]

(* The current generation.                                                 *)
Spaces == [gen : Nat \ {0}, origin : Origins, backup : Backups, attempt : Attempts]

(* What a device knows of its generation.                                  *)
Scopes == [gen : Nat, backup : Backups, boot : BOOLEAN, local : Nat, bound : BOOLEAN,
           control : Ops \cup {NoOp}, n : Nat]

(* Pages that are not published.                                           *)
Stages == [head : Nat, cursor : Nat, complete : BOOLEAN, revs : SUBSET Nat]

(* What a status says.                                                     *)
Statuses == [gen : Nat, origin : Origins, backup : Backups, attempt : Ids \cup {None}]

(* What a user confirmed, and on which status.                             *)
Intents == [action : {"none", "start", "claim", "cancel"}, saw : Statuses]

(* A page of the steady state.                                             *)
Pages == [revs : SUBSET Nat, next : Nat, more : BOOLEAN]

(* The shape of the service's variables.                                   *)
ServiceType ==
  /\ log \in Seq(Outbox!Published)
  /\ head \in [Records -> Nat]
  /\ \A id \in DOMAIN verdict : verdict[id] \in Outbox!Result
  /\ now \in Outbox!Times
  /\ wire \subseteq Outbox!Mutation
  /\ space \in Spaces
  /\ done \subseteq Ids \X {"open", "cancel", "complete"}
  /\ mail \subseteq Ops

(* The shape of a device's variables.                                      *)
DeviceType ==
  /\ slot \in [Devices -> [Records -> Outbox!Slot]]
  /\ cursor \in [Devices -> Nat]
  /\ pc \in [Devices -> Outbox!Phases]
  /\ page \in [Devices -> Pages]
  /\ batch \in [Devices -> [Records -> Outbox!Envelope \cup {Outbox!NoEnvelope}]]
  /\ scope \in [Devices -> Scopes]
  /\ entries \in [Devices -> [Records -> Entries]]
  /\ stage \in [Devices -> Stages]
  /\ life \in [Devices -> Lives]
  /\ then \in [Devices -> Lives \cup {"none"}]
  /\ hand \in [Devices -> SUBSET Records]
  /\ seen \in [Devices -> Statuses]
  /\ intent \in [Devices -> Intents]
  /\ own \in [Devices -> [Records -> Values \cup {Absent}]]

(* The rows of every device are well formed.                               *)
SlotsGood == \A d \in Devices, r \in Records : WellFormed(slot[d][r])

(* The type invariant.                                                     *)
TypeOK == ServiceType /\ DeviceType /\ SlotsGood

(***************************************************************************)
(* Where a device stands in its generation.                                *)
(***************************************************************************)
(* Only a rebuilt space can be without its records.                        *)
SpaceOK ==
  /\ space.origin # "none"
  /\ space.origin # "rebuilt" => space.backup = "ready"

(* What a device read of the space is of a generation it has had.          *)
SeenOK(d) ==
  LET t == seen[d] IN
  /\ t.gen <= space.gen
  /\ t.gen > 0 /\ t.origin # "rebuilt" => t.backup = "ready"
  /\ t.gen = space.gen =>
       t.origin = space.origin /\ (t.backup = "ready" => space.backup = "ready")
  /\ life[d] # "idle" => t.gen > 0 /\ scope[d].gen <= t.gen
  /\ scope[d].gen <= space.gen

(* Before its first generation.                                            *)
Unbound(d) ==
  /\ life[d] \in {"idle", "adopt"}
  /\ scope[d].backup = "ready"
  /\ scope[d].boot
  /\ scope[d].local = 0
  /\ scope[d].control = NoOp
  /\ stage[d] = NoStage

(* The steps that wait for the end of a control request.                   *)
Controlled == {"await", "verify", "settle"}

(* The steps no control request is open at.                                *)
Free == {"attempt", "intent", "open", "upload", "staging", "staged", "progress", "reread",
         "verdict", "pull", "publish", "run"}

(* Which control request a run has open, and which attempt, at each step.  *)
PlaceOK(d) ==
  LET s == scope[d] IN
  /\ life[d] \in Controlled => s.control # NoOp
  /\ life[d] \in Free => s.control = NoOp
  /\ life[d] \in Controlled \cup {"reread"} => then[d] \in {"attempt", "upload", "verdict"}
  /\ life[d] = "open" => s.local # 0 /\ intent[d].action \in {"start", "claim"}
  /\ life[d] \in {"staging", "staged", "progress"} => s.bound
  /\ s.bound => s.local # 0
  /\ s.control # NoOp => s.local # 0 /\ s.control.id = <<d, s.local>>
  /\ pc[d] # "idle" => life[d] = "run"
  /\ life[d] = "run" => s.boot
  /\ life[d] \in {"publish", "run"} => seen[d].gen = s.gen /\ seen[d].backup = "ready"
  /\ life[d] \in {"pull", "publish"} => ~s.boot

(* A device that is part of its generation has nothing to ask for, and saw *)
(* a space that was ready.                                                 *)
PartOK(d) ==
  LET s == scope[d] IN
  s.boot =>
    /\ s.control = NoOp
    /\ life[d] \in {"idle", "adopt", "activate", "attempt", "intent", "upload", "verdict",
                    "run"}
    /\ life[d] \notin {"idle", "adopt"} => seen[d].gen = s.gen
    /\ seen[d].gen = s.gen => seen[d].backup = "ready"
    /\ space.gen = s.gen => space.backup = "ready"

(* Only a rebuilt space has attempts, and states that are not ready.       *)
RebuiltOK(d) ==
  LET s == scope[d] IN
  s.control # NoOp \/ s.local # 0 \/ s.backup # "ready" =>
    /\ seen[d].gen = s.gen => seen[d].origin = "rebuilt"
    /\ space.gen = s.gen => space.origin = "rebuilt"

(* All of that, for a device before and in its generations.                *)
PhaseOK(d) ==
  /\ SeenOK(d)
  /\ PlaceOK(d)
  /\ scope[d].gen = 0 => Unbound(d)
  /\ scope[d].gen > 0 => PartOK(d) /\ RebuiltOK(d)

(* Where the service and its devices stand.                                *)
PhaseInv == SpaceOK /\ \A d \in Devices : PhaseOK(d)

(***************************************************************************)
(* Attempts.                                                               *)
(***************************************************************************)
(* A request names an attempt its device has opened, and lists its         *)
(* records.                                                                *)
AboutAttempt(d, op) ==
  /\ op.action = "complete" => op.expect = op.id
  /\ op.id[1] = d =>
       /\ op.id[2] <= scope[d].n
       /\ op.id[2] = scope[d].local /\ op.action \in {"start", "claim"} =>
            op.listed = Listed(d)

(* What the service has of a device's present attempt is what the device   *)
(* froze for it.                                                           *)
StagedOK(d) ==
  LET t == space.attempt IN
  /\ t.id # None /\ t.id[1] = d => t.id[2] <= scope[d].n
  /\ t.id = <<d, scope[d].local>> =>
       /\ t.listed = Listed(d)
       /\ \A r \in Records : t.staged[r] # NoEntry => t.staged[r].val = entries[d][r].val

(* Attempts are numbered, and what is under way is about the one it names. *)
AttemptInv ==
  \A d \in Devices :
    /\ scope[d].local <= scope[d].n
    /\ \A op \in mail : AboutAttempt(d, op)
    /\ scope[d].control # NoOp => AboutAttempt(d, scope[d].control)
    /\ \A receipt \in done : receipt[1][1] = d => receipt[1][2] <= scope[d].n
    /\ StagedOK(d)

(***************************************************************************)
(* The outbox within a generation.                                         *)
(***************************************************************************)
(* In a generation nothing is queued or sent before the device is part of  *)
(* it.                                                                     *)
QueueInv ==
  \A d \in Devices, r \in Records :
    scope[d].gen > 0 /\ Sealed(slot[d][r]) => scope[d].boot /\ scope[d].backup = "ready"

(* The log continues what the device knows: its generation is the current  *)
(* one, or both go back to protocol 1.                                     *)
Of(d) == scope[d].gen = space.gen \/ (scope[d].gen = 0 /\ space.origin = "legacy")

(* A request under way is what its row sent, and nothing was sent after    *)
(* what is queued.                                                         *)
WireOK(d, r) ==
  LET s == slot[d][r] IN
  /\ SentInOrder(s)
  /\ \A m \in wire : m.id[1] = d /\ m.id[2] = r =>
       /\ m.id[3] <= s.n
       /\ s.fly # Outbox!NoEnvelope /\ m.id[3] = s.fly.n =>
             m.val = s.fly.val /\ m.at = s.fly.at
       /\ s.pend # Outbox!NoEnvelope /\ m.id[3] = s.pend.n => s.fly = s.pend
  /\ batch[d][r] # Outbox!NoEnvelope =>
       /\ pc[d] = "sent"
       /\ batch[d][r] = s.fly
       /\ scope[d].gen = space.gen => [id |-> <<d, r, batch[d][r].n>>, val |-> batch[d][r].val, at |-> batch[d][r].at] \in wire

(* Requests under way are of the current generation, and no two of them    *)
(* differ under one identity.                                              *)
WireInv ==
  /\ \A m1, m2 \in wire : m1.id = m2.id => m1 = m2
  /\ \A m \in wire : scope[m.id[1]].gen = space.gen
  /\ wire # {} => space.backup = "ready"
  /\ \A d \in Devices, r \in Records : WireOK(d, r)

(* A ruling answers a request that was sent, by a record of the log; an    *)
(* applied one by its content.                                             *)
VerdictInv ==
  \A id \in DOMAIN verdict :
    /\ \E m \in wire : m.id = id
    /\ verdict[id].rev \in DOMAIN log
    /\ log[verdict[id].rev].rec = id[2]
    /\ \A m \in wire : m.id = id /\ verdict[id].applied => log[verdict[id].rev].val = m.val

(* The current revision of a record is its last in the log.                *)
HeadInv ==
  /\ \A r \in Records : head[r] > 0 => head[r] \in DOMAIN log /\ log[head[r]].rec = r
  /\ \A k \in DOMAIN log : k <= head[log[k].rec]

(***************************************************************************)
(* Mirrors.                                                                *)
(***************************************************************************)
(* A mirror is a record of the log.                                        *)
MirrorOK(d, r) ==
  LET s == slot[d][r] IN
  s.rrev > 0 =>
    /\ s.rrev <= Len(log)
    /\ log[s.rrev] = [rec |-> r, val |-> s.rval, at |-> s.rat]

(* The cursor passed no current record that is not mirrored.               *)
CursorOK(d) ==
  /\ cursor[d] <= Len(log)
  /\ \A r \in Records : head[r] <= cursor[d] => slot[d][r].rrev = head[r]

(* A page has the current record of each identity the cursor is to pass.   *)
PageOK(d) ==
  pc[d] = "page" =>
    /\ cursor[d] <= page[d].next
    /\ page[d].next <= Len(log)
    /\ page[d].revs \subseteq DOMAIN log
    /\ \A j, k \in page[d].revs : log[j].rec = log[k].rec => j = k
    /\ \A r \in Records :
         cursor[d] < head[r] /\ head[r] <= page[d].next => head[r] \in page[d].revs

(* What is staged is, up to its cursor, all of one head: while the head    *)
(* has not moved its revisions are the current ones, one for each record.  *)
StageOK(d) ==
  LET t == stage[d] IN
  /\ t.head <= Len(log)
  /\ t.cursor <= t.head
  /\ t.revs \subseteq 1..t.head
  /\ \A j, k \in t.revs : log[j].rec = log[k].rec => j = k
  /\ \A k \in t.revs : k <= t.cursor
  /\ t.head = Len(log) => \A k \in t.revs : k = head[log[k].rec]
  /\ \A r \in Records : head[r] \in 1..t.cursor => head[r] \in t.revs
  /\ t.complete => \A r \in Records : head[r] \in 1..t.head => head[r] \in t.revs

(* Mirrors, cursors and pages are of the space the device takes them for;  *)
(* a space that is not ready has none.                                     *)
MirrorInv ==
  \A d \in Devices :
    /\ Of(d) => \A r \in Records : MirrorOK(d, r)
    /\ Of(d) /\ space.backup # "ready" => \A r \in Records : slot[d][r].rrev = 0
    /\ Of(d) /\ scope[d].boot => CursorOK(d)
    /\ scope[d].gen = space.gen => PageOK(d) /\ StageOK(d)
    /\ scope[d].gen = space.gen /\ space.backup # "ready" => stage[d] = NoStage
    /\ life[d] = "publish" => stage[d].complete

(***************************************************************************)
(* A device that has no publication under way has none behind it: its      *)
(* present attempt was never asked to be published.                        *)
(***************************************************************************)
Unsent(d) ==
  scope[d].local # 0 /\ scope[d].control.action # "complete" =>
    /\ \A op \in mail : op.id = <<d, scope[d].local>> => op.action # "complete"
    /\ <<<<d, scope[d].local>>, "complete">> \notin done

(* A publication nobody asked for is on no way.                            *)
CompleteInv == \A d \in Devices : Unsent(d)

(***************************************************************************)
(* Edits.                                                                  *)
(***************************************************************************)
(* What the service never had is held by its row, and is not what the      *)
(* device's own published attempt has.                                     *)
EditInv ==
  \A d \in Devices, r \in Records :
    /\ own[d][r] # Absent => Holds(slot[d][r], own[d][r])
    /\ AttemptDone(d) /\ entries[d][r] # NoEntry => own[d][r] # entries[d][r].val

(* What the steps preserve together: none of the parts is inductive alone. *)
IInv ==
  /\ TypeOK
  /\ PhaseInv
  /\ AttemptInv
  /\ CompleteInv
  /\ QueueInv
  /\ WireInv
  /\ VerdictInv
  /\ HeadInv
  /\ MirrorInv
  /\ EditInv

-----------------------------------------------------------------------------
(***************************************************************************)
(* What a step of one device leaves alone.                                 *)
(***************************************************************************)
(* All that a device may do.                                               *)
DeviceStep(d) == Prepare(d) \/ Synchronise(d) \/ UserNext(d) \/ Fail(d)

(* Another device's database and run.                                      *)
Still(e) ==
  /\ slot'[e] = slot[e] /\ cursor'[e] = cursor[e]
  /\ pc'[e] = pc[e] /\ page'[e] = page[e] /\ batch'[e] = batch[e]
  /\ scope'[e] = scope[e] /\ entries'[e] = entries[e] /\ stage'[e] = stage[e]
  /\ life'[e] = life[e] /\ then'[e] = then[e] /\ hand'[e] = hand[e]
  /\ seen'[e] = seen[e] /\ intent'[e] = intent[e]

(* A step of one device leaves the others as they are.                     *)
Aside(d) == \A e \in Devices : e # d => Still(e)

(* The end of a run moves that device's run only.                          *)
LEMMA EndRunAside ==
  ASSUME DeviceType, NEW d \in Devices, EndRun(d),
         UNCHANGED <<slot, cursor, seen>>,
         \A e \in Devices : e # d =>
           scope'[e] = scope[e] /\ entries'[e] = entries[e] /\ stage'[e] = stage[e]
  PROVE  Aside(d)
BY DEF EndRun, DeviceType, Aside, Still

(* The first steps of a run, and its control requests.                     *)
LEMMA PrepareAside ==
  ASSUME DeviceType, NEW d \in Devices, Prepare(d)
  PROVE  Aside(d)
<1>1. ASSUME ReadStatus(d) PROVE Aside(d)
  BY <1>1 DEF ReadStatus, Go, DeviceType, Aside, Still, outbox, database
<1>2. ASSUME Adopt(d) PROVE Aside(d)
  BY <1>2 DEF Adopt, Go, DeviceType, Aside, Still
<1>3. ASSUME Activate(d) PROVE Aside(d)
  <2>1. CASE EndRun(d)
    BY <1>3, <2>1, EndRunAside DEF Activate, database
  <2>2. CASE ~EndRun(d)
    BY <1>3, <2>2 DEF Activate, Go, database, DeviceType, Aside, Still
  <2> QED BY <2>1, <2>2
<1>4. ASSUME Quarantine(d) PROVE Aside(d)
  BY <1>4 DEF Quarantine, Go, DeviceType, Aside, Still, outbox
<1>5. ASSUME Without(d) PROVE Aside(d)
  BY <1>5 DEF Without, Go, DeviceType, Aside, Still, outbox, database
<1>6. ASSUME Refuse(d) PROVE Aside(d)
  BY <1>6, EndRunAside DEF Refuse, database
<1>7. ASSUME Resume(d) PROVE Aside(d)
  BY <1>7 DEF Resume, Go, DeviceType, Aside, Still, outbox, database
<1>8. ASSUME CancelRebuild(d) PROVE Aside(d)
  BY <1>8 DEF CancelRebuild, Send, Go, DeviceType, Aside, Still, outbox
<1>9. ASSUME BeginRebuild(d) PROVE Aside(d)
  BY <1>9 DEF BeginRebuild, Go, DeviceType, Aside, Still
<1>10. ASSUME OpenAttempt(d) PROVE Aside(d)
  BY <1>10 DEF OpenAttempt, Send, Go, DeviceType, Aside, Still, outbox
<1>11. ASSUME AnswerControl(d) PROVE Aside(d)
  BY <1>11 DEF AnswerControl, Go, DeviceType, Aside, Still, outbox, database
<1>12. ASSUME RejectControl(d) PROVE Aside(d)
  BY <1>12 DEF RejectControl, EndRun, DeviceType, Aside, Still
<1>13. ASSUME Verify(d) PROVE Aside(d)
  BY <1>13 DEF Verify, EndRun, Go, database, DeviceType, Aside, Still
<1>14. ASSUME Settle(d) PROVE Aside(d)
  <2> USE DEF DeviceType, Aside, Still
  <2>1. CASE EndRun(d) /\ UNCHANGED <<slot, cursor, scope, entries, stage, seen>>
    BY <2>1, EndRunAside
  <2>2. CASE /\ Go(d, "reread")
             /\ UNCHANGED <<then, hand, intent, pc, page, batch, stage, seen>>
             /\ CompleteRebuild(d)
    BY <2>2 DEF Go, CompleteRebuild
  <2>3. CASE /\ Go(d, "reread")
             /\ UNCHANGED <<slot, cursor, then, hand, intent, pc, page, batch, stage, seen>>
             /\ \/ scope' = [scope EXCEPT ![d] = [@ EXCEPT !.bound = TRUE,
                                                           !.control = NoOp]]
                   /\ UNCHANGED entries
                \/ scope' = [scope EXCEPT ![d] = Rejected(@)]
                   /\ entries' = [entries EXCEPT ![d] = NoEntries]
    BY <2>3 DEF Go
  <2> HIDE DEF DeviceType, Aside, Still
  <2> QED BY <1>14, <2>1, <2>2, <2>3 DEF Settle
<1>15. ASSUME Reread(d) PROVE Aside(d)
  BY <1>15 DEF Reread, Go, DeviceType, Aside, Still, outbox, database
<1>16. ASSUME Upload(d) PROVE Aside(d)
  BY <1>16 DEF Upload, Go, DeviceType, Aside, Still, outbox, database
<1>17. ASSUME StagePush(d) PROVE Aside(d)
  <2>1. CASE EndRun(d)
    BY <1>17, <2>1, EndRunAside DEF StagePush, database
  <2>2. CASE ~EndRun(d)
    BY <1>17, <2>2 DEF StagePush, Go, database, DeviceType, Aside, Still
  <2> QED BY <2>1, <2>2
<1>18. ASSUME CommitStaged(d) PROVE Aside(d)
  BY <1>18 DEF CommitStaged, Go, DeviceType, Aside, Still, outbox
<1>19. ASSUME Progress(d) PROVE Aside(d)
  BY <1>19 DEF Progress, EndRun, Go, database, DeviceType, Aside, Still
<1>20. ASSUME CompleteAttempt(d) PROVE Aside(d)
  BY <1>20 DEF CompleteAttempt, Send, Go, DeviceType, Aside, Still, outbox
<1>21. ASSUME Verdict(d) PROVE Aside(d)
  BY <1>21 DEF Verdict, EndRun, Go, database, DeviceType, Aside, Still
<1>22. ASSUME FullPage(d) PROVE Aside(d)
  <2> USE DEF DeviceType, Aside, Still
  <2>1. CASE EndRun(d)
    BY <1>22, <2>1 DEF FullPage, Discard, EndRun
  <2>2. CASE ~EndRun(d)
    BY <1>22, <2>2 DEF FullPage, Discard
  <2> QED BY <2>1, <2>2
<1>23. ASSUME ConfirmPull(d) PROVE Aside(d)
  <2> USE DEF DeviceType, Aside, Still
  <2>1. CASE EndRun(d)
    BY <1>23, <2>1 DEF ConfirmPull, Discard, EndRun
  <2>2. CASE ~EndRun(d)
    BY <1>23, <2>2 DEF ConfirmPull, Discard, Go
  <2> QED BY <2>1, <2>2
<1>24. ASSUME PublishFullPull(d) PROVE Aside(d)
  <2> USE DEF DeviceType, Aside, Still
  <2>1. CASE EndRun(d) /\ UNCHANGED <<slot, cursor, scope, stage, entries, seen>>
    BY <2>1, EndRunAside
  <2>2. CASE ~(space.gen # scope[d].gen)
    BY <1>24, <2>2 DEF PublishFullPull, Go
  <2> HIDE DEF DeviceType, Aside, Still
  <2> QED BY <1>24, <2>1, <2>2 DEF PublishFullPull
<1> QED
  BY <1>1, <1>2, <1>3, <1>4, <1>5, <1>6, <1>7, <1>8, <1>9, <1>10, <1>11, <1>12, <1>13,
     <1>14, <1>15, <1>16, <1>17, <1>18, <1>19, <1>20, <1>21, <1>22, <1>23, <1>24
  DEF Prepare

(* The steps of the steady state.                                          *)
LEMMA SynchroniseAside ==
  ASSUME DeviceType, NEW d \in Devices, Synchronise(d)
  PROVE  Aside(d)
<1> USE DEF DeviceType, Aside, Still, Steady, database
<1>1. ASSUME StartRun(d) PROVE Aside(d)
  BY <1>1 DEF StartRun, Outbox!StartRun
<1>2. ASSUME StartUnready(d) PROVE Aside(d)
  BY <1>2 DEF StartUnready
<1>3. ASSUME PullPage(d) PROVE Aside(d)
  BY <1>3 DEF PullPage, Outbox!PullPage, Outbox!database
<1>4. ASSUME CommitPullPage(d) PROVE Aside(d)
  BY <1>4 DEF CommitPullPage, Outbox!CommitPullPage
<1>5. ASSUME JoinRebuilt(d) PROVE Aside(d)
  BY <1>5 DEF JoinRebuilt
<1>6. ASSUME CompleteBootstrap(d) PROVE Aside(d)
  BY <1>6 DEF CompleteBootstrap, Outbox!CompleteBootstrap
<1>7. ASSUME PreparePush(d) PROVE Aside(d)
  BY <1>7 DEF PreparePush, Outbox!PreparePush
<1>8. ASSUME CommitPushPrefix(d) PROVE Aside(d)
  BY <1>8 DEF CommitPushPrefix, Outbox!CommitPushPrefix
<1>9. ASSUME FinishRun(d) PROVE Aside(d)
  BY <1>9 DEF FinishRun, Outbox!FinishRun, Outbox!database, Go
<1>10. ASSUME Refused(d) PROVE Aside(d)
  BY <1>10, EndRunAside DEF Refused
<1> QED
  BY <1>1, <1>2, <1>3, <1>4, <1>5, <1>6, <1>7, <1>8, <1>9, <1>10 DEF Synchronise

(* A step of one device is a step of no other.                             *)
LEMMA OthersStill ==
  ASSUME DeviceType, NEW d \in Devices, DeviceStep(d)
  PROVE  Aside(d)
<1>1. ASSUME NEW r \in Records, NEW v \in Values, Edit(d, r, v) PROVE Aside(d)
  BY <1>1 DEF Edit, DeviceType, Aside, Still, database, memory
<1>2. ASSUME NEW action, Ask(d, action) PROVE Aside(d)
  BY <1>2 DEF Ask, DeviceType, Aside, Still, outbox, database
<1>3. ASSUME Fail(d) PROVE Aside(d)
  BY <1>3, EndRunAside DEF Fail, database
<1> QED
  BY <1>1, <1>2, <1>3, PrepareAside, SynchroniseAside DEF DeviceStep, UserNext

(* The service's side of a device's step: only a staged push writes there, *)
(* into the attempt.                                                       *)
SameSpace ==
  /\ space'.gen = space.gen /\ space'.origin = space.origin
  /\ space'.backup = space.backup
  /\ space'.attempt.id = space.attempt.id /\ space'.attempt.listed = space.attempt.listed

(* The steps that send a control request.                                  *)
Sends(d) == Activate(d) \/ CancelRebuild(d) \/ OpenAttempt(d) \/ CompleteAttempt(d)

(* The steps that write to the rows.                                       *)
Writes(d) ==
  \/ Adopt(d) \/ BeginRebuild(d) \/ Settle(d) \/ PublishFullPull(d)
  \/ StartRun(d) \/ CommitPullPage(d) \/ JoinRebuilt(d) \/ CompleteBootstrap(d)
  \/ PreparePush(d) \/ CommitPushPrefix(d)
  \/ \E r \in Records, v \in Values : Edit(d, r, v)

(* What a device's step leaves as it is, but for the steps that are named. *)
Stays(d) ==
  /\ UNCHANGED <<log, head, verdict, now, done>>
  /\ SameSpace
  /\ space' = space \/ StagePush(d)
  /\ wire' = wire \/ PreparePush(d)
  /\ mail' = mail \/ Sends(d)
  /\ slot' = slot \/ Writes(d)

(* A staged push changes nothing of the space but what is staged.          *)
LEMMA StagePushSpace ==
  ASSUME TypeOK, NEW d \in Devices, StagePush(d)
  PROVE  SameSpace
<1> DEFINE a == space.attempt
<1>0. space \in Spaces /\ a \in Attempts
  BY DEF TypeOK, ServiceType, Spaces
<1>1. CASE space' = space
  BY <1>1 DEF SameSpace
<1>2. CASE space' # space
  <2>1. PICK staged : space' = [space EXCEPT !.attempt = [a EXCEPT !.staged = staged]]
    <3>1. PICK part : space' = [space EXCEPT !.attempt.staged =
                    [r \in Records |-> IF r \in part
                                       THEN [entries[d][r] EXCEPT !.acked = TRUE]
                                       ELSE @[r]]]
      BY <1>2 DEF StagePush
    <3> QED BY <3>1
  <2> QED
    BY <1>0, <2>1 DEF Spaces, Attempts, SameSpace
<1> QED BY <1>1, <1>2

(* So it is with the steps before the steady state.                        *)
LEMMA PrepareStays ==
  ASSUME TypeOK, NEW d \in Devices, Prepare(d)
  PROVE  Stays(d)
<1> USE DEF outbox, cloud, UnchangedService, Stays, SameSpace
<1>1. ASSUME ReadStatus(d) PROVE Stays(d)
  BY <1>1 DEF ReadStatus
<1>2. ASSUME Adopt(d) PROVE Stays(d)
  BY <1>2 DEF Adopt, Writes
<1>3. ASSUME Activate(d) PROVE Stays(d)
  BY <1>3 DEF Activate, Sends
<1>4. ASSUME Quarantine(d) PROVE Stays(d)
  BY <1>4 DEF Quarantine
<1>5. ASSUME Without(d) PROVE Stays(d)
  BY <1>5 DEF Without
<1>6. ASSUME Refuse(d) PROVE Stays(d)
  BY <1>6 DEF Refuse
<1>7. ASSUME Resume(d) PROVE Stays(d)
  BY <1>7 DEF Resume
<1>8. ASSUME CancelRebuild(d) PROVE Stays(d)
  BY <1>8 DEF CancelRebuild, Sends
<1>9. ASSUME BeginRebuild(d) PROVE Stays(d)
  BY <1>9 DEF BeginRebuild, Writes
<1>10. ASSUME OpenAttempt(d) PROVE Stays(d)
  BY <1>10 DEF OpenAttempt, Sends
<1>11. ASSUME AnswerControl(d) PROVE Stays(d)
  BY <1>11 DEF AnswerControl
<1>12. ASSUME RejectControl(d) PROVE Stays(d)
  BY <1>12 DEF RejectControl
<1>13. ASSUME Verify(d) PROVE Stays(d)
  BY <1>13 DEF Verify
<1>14. ASSUME Settle(d) PROVE Stays(d)
  BY <1>14 DEF Settle, Writes
<1>15. ASSUME Reread(d) PROVE Stays(d)
  BY <1>15 DEF Reread
<1>16. ASSUME Upload(d) PROVE Stays(d)
  BY <1>16 DEF Upload
<1>17. ASSUME StagePush(d) PROVE Stays(d)
  BY <1>17, StagePushSpace DEF StagePush
<1>18. ASSUME CommitStaged(d) PROVE Stays(d)
  BY <1>18 DEF CommitStaged
<1>19. ASSUME Progress(d) PROVE Stays(d)
  BY <1>19 DEF Progress
<1>20. ASSUME CompleteAttempt(d) PROVE Stays(d)
  BY <1>20 DEF CompleteAttempt, Sends
<1>21. ASSUME Verdict(d) PROVE Stays(d)
  BY <1>21 DEF Verdict
<1>22. ASSUME FullPage(d) PROVE Stays(d)
  BY <1>22 DEF FullPage
<1>23. ASSUME ConfirmPull(d) PROVE Stays(d)
  BY <1>23 DEF ConfirmPull
<1>24. ASSUME PublishFullPull(d) PROVE Stays(d)
  BY <1>24 DEF PublishFullPull, Writes
<1> QED
  BY <1>1, <1>2, <1>3, <1>4, <1>5, <1>6, <1>7, <1>8, <1>9, <1>10, <1>11, <1>12, <1>13,
     <1>14, <1>15, <1>16, <1>17, <1>18, <1>19, <1>20, <1>21, <1>22, <1>23, <1>24
  DEF Prepare

(* So it is with the steady state.                                         *)
LEMMA SynchroniseStays ==
  ASSUME TypeOK, NEW d \in Devices, Synchronise(d)
  PROVE  Stays(d)
<1> USE DEF cloud, UnchangedService, Stays, SameSpace, Steady, Outbox!server,
            Outbox!database
<1>1. ASSUME StartRun(d) PROVE Stays(d)
  BY <1>1 DEF StartRun, Outbox!StartRun, Writes
<1>2. ASSUME StartUnready(d) PROVE Stays(d)
  BY <1>2 DEF StartUnready
<1>3. ASSUME PullPage(d) PROVE Stays(d)
  BY <1>3 DEF PullPage, Outbox!PullPage
<1>4. ASSUME CommitPullPage(d) PROVE Stays(d)
  BY <1>4 DEF CommitPullPage, Outbox!CommitPullPage, Writes
<1>5. ASSUME JoinRebuilt(d) PROVE Stays(d)
  BY <1>5 DEF JoinRebuilt, Writes
<1>6. ASSUME CompleteBootstrap(d) PROVE Stays(d)
  BY <1>6 DEF CompleteBootstrap, Outbox!CompleteBootstrap, Writes
<1>7. ASSUME PreparePush(d) PROVE Stays(d)
  BY <1>7 DEF PreparePush, Outbox!PreparePush, Writes
<1>8. ASSUME CommitPushPrefix(d) PROVE Stays(d)
  BY <1>8 DEF CommitPushPrefix, Outbox!CommitPushPrefix, Writes
<1>9. ASSUME FinishRun(d) PROVE Stays(d)
  BY <1>9 DEF FinishRun, Outbox!FinishRun
<1>10. ASSUME Refused(d) PROVE Stays(d)
  BY <1>10 DEF Refused
<1> QED
  BY <1>1, <1>2, <1>3, <1>4, <1>5, <1>6, <1>7, <1>8, <1>9, <1>10 DEF Synchronise

(* So it is with every step of a device.                                   *)
LEMMA ServiceStays ==
  ASSUME TypeOK, NEW d \in Devices, DeviceStep(d)
  PROVE  Stays(d)
<1> USE DEF outbox, cloud, UnchangedService, Stays, SameSpace
<1>1. ASSUME NEW r \in Records, NEW v \in Values, Edit(d, r, v) PROVE Stays(d)
  BY <1>1 DEF Edit, Writes
<1>2. ASSUME NEW action, Ask(d, action) PROVE Stays(d)
  BY <1>2 DEF Ask
<1>3. ASSUME Fail(d) PROVE Stays(d)
  BY <1>3 DEF Fail
<1> HIDE DEF Stays
<1> QED
  BY <1>1, <1>2, <1>3, PrepareStays, SynchroniseStays DEF DeviceStep, UserNext

-----------------------------------------------------------------------------
(***************************************************************************)
(* Phases.                                                                 *)
(***************************************************************************)
(* The fields of a device's variables.                                     *)
LEMMA DeviceFields ==
  ASSUME TypeOK, NEW d \in Devices
  PROVE  /\ scope[d] \in Scopes /\ seen[d] \in Statuses /\ space \in Spaces
         /\ scope[d].gen \in Nat /\ scope[d].boot \in BOOLEAN /\ scope[d].local \in Nat
         /\ scope[d].bound \in BOOLEAN /\ scope[d].n \in Nat
         /\ scope[d].backup \in Backups /\ scope[d].control \in Ops \cup {NoOp}
         /\ seen[d].gen \in Nat /\ seen[d].backup \in Backups /\ seen[d].origin \in Origins
         /\ space.gen \in Nat \ {0} /\ space.backup \in Backups /\ space.origin \in Origins
         /\ space.attempt \in Attempts /\ space.attempt.id \in Ids \cup {None}
         /\ seen[d].attempt \in Ids \cup {None}
         /\ life[d] \in Lives
BY DEF TypeOK, ServiceType, DeviceType, Scopes, Statuses, Spaces, Attempts

(* A device nobody touched stands where it stood.                          *)
LEMMA PhaseStill ==
  ASSUME NEW e \in Devices, PhaseOK(e), Still(e), SameSpace
  PROVE  PhaseOK(e)'
BY DEF PhaseOK, SeenOK, PlaceOK, Unbound, PartOK, RebuiltOK, Still, SameSpace

(* A run may end at any of its steps.                                      *)
LEMMA PhaseEndRun ==
  ASSUME TypeOK, NEW d \in Devices, PhaseOK(d), EndRun(d), SameSpace,
         scope'[d] = scope[d], seen'[d] = seen[d], stage'[d] = stage[d]
  PROVE  PhaseOK(d)'
<1>1. /\ life'[d] = "idle" /\ then'[d] = "none" /\ pc'[d] = "idle"
  BY DEF EndRun, TypeOK, DeviceType
<1> QED
  BY <1>1, DeviceFields
  DEF PhaseOK, SeenOK, PlaceOK, Unbound, PartOK, RebuiltOK, SameSpace, Controlled, Free

(* A run may also end with a status read after its request was served.     *)
LEMMA PhaseEndReread ==
  ASSUME TypeOK, NEW d \in Devices, SpaceOK, PhaseOK(d), EndRun(d), SameSpace,
         scope'[d] = scope[d], seen' = [seen EXCEPT ![d] = Status],
         stage'[d] = stage[d] \/ (stage'[d] = NoStage)
  PROVE  PhaseOK(d)'
<1>1. /\ life'[d] = "idle" /\ then'[d] = "none" /\ pc'[d] = "idle"
      /\ seen'[d] = Status
  BY DEF EndRun, TypeOK, DeviceType
<1> QED
  BY <1>1, DeviceFields
  DEF PhaseOK, SeenOK, PlaceOK, Unbound, PartOK, RebuiltOK, SameSpace, Controlled, Free,
      Status, SpaceOK

(* The steps of one device keep its phase in order.                        *)
LEMMA PhasePrepare ==
  ASSUME TypeOK, SpaceOK, NEW d \in Devices, PhaseOK(d), Prepare(d)
  PROVE  PhaseOK(d)'
<1>0. /\ SameSpace
      /\ scope[d] \in Scopes /\ seen[d] \in Statuses /\ space \in Spaces
      /\ scope[d].gen \in Nat /\ scope[d].boot \in BOOLEAN /\ scope[d].local \in Nat
      /\ scope[d].bound \in BOOLEAN /\ scope[d].n \in Nat
      /\ scope[d].backup \in Backups /\ scope[d].control \in Ops \cup {NoOp}
      /\ seen[d].gen \in Nat /\ seen[d].backup \in Backups /\ seen[d].origin \in Origins
      /\ space.gen \in Nat \ {0} /\ space.backup \in Backups /\ space.origin \in Origins
      /\ life[d] \in Lives
  BY DeviceFields, PrepareStays DEF Stays
<1>t. /\ life \in [Devices -> Lives] /\ then \in [Devices -> Lives \cup {"none"}]
      /\ seen \in [Devices -> Statuses] /\ scope \in [Devices -> Scopes]
      /\ stage \in [Devices -> Stages] /\ pc \in [Devices -> Outbox!Phases]
  BY DEF TypeOK, DeviceType
<1> DEFINE Goal == PhaseOK(d)'
<1> USE DEF PhaseOK, SeenOK, PlaceOK, Unbound, PartOK, RebuiltOK, SameSpace, Controlled, Free,
            outbox, database
<1>1. ASSUME ReadStatus(d) PROVE Goal
  BY <1>1, <1>0, <1>t DEF ReadStatus, Go, Status, SpaceOK
<1>2. ASSUME Adopt(d) PROVE Goal
  <2>0. life[d] = "adopt" /\ life'[d] = "activate" /\ then'[d] = then[d] /\ pc'[d] = pc[d]
        /\ seen'[d] = seen[d]
    BY <1>2, <1>t DEF Adopt, Go
  <2>1. CASE scope[d].gen = seen[d].gen
    <3>1. scope' = [scope EXCEPT ![d].backup = seen[d].backup] /\ stage' = stage
      BY <1>2, <2>1 DEF Adopt
    <3>2. scope'[d] = [scope[d] EXCEPT !.backup = seen[d].backup]
      BY <3>1, <1>t
    <3> QED
      BY <1>0, <2>0, <2>1, <3>1, <3>2 DEF Scopes
  <2>2. CASE scope[d].gen # seen[d].gen /\ scope[d].gen = 0 /\ seen[d].origin = "legacy"
    <3>1. /\ scope' = [scope EXCEPT ![d].gen = seen[d].gen,
                                    ![d].backup = seen[d].backup]
          /\ stage' = stage
      BY <1>2, <2>2 DEF Adopt
    <3>2. scope'[d] = [scope[d] EXCEPT !.gen = seen[d].gen, !.backup = seen[d].backup]
      BY <3>1, <1>t
    <3>3. /\ scope'[d].gen = seen[d].gen /\ scope'[d].backup = seen[d].backup
          /\ scope'[d].boot = scope[d].boot /\ scope'[d].local = scope[d].local
          /\ scope'[d].bound = scope[d].bound /\ scope'[d].control = scope[d].control
      BY <1>0, <3>2 DEF Scopes
    <3>4. /\ scope[d].boot /\ scope[d].local = 0 /\ scope[d].control = NoOp
          /\ ~scope[d].bound /\ seen[d].gen > 0 /\ seen[d].backup = "ready"
      BY <1>0, <2>0, <2>2
    <3>5. SeenOK(d)' /\ PlaceOK(d)'
      BY <1>0, <2>0, <2>2, <3>3, <3>4
    <3>6. scope'[d].gen > 0 /\ PartOK(d)' /\ RebuiltOK(d)'
      BY <1>0, <2>0, <2>2, <3>3, <3>4
    <3> QED
      BY <1>0, <3>5, <3>6
  <2>3. CASE scope[d].gen # seen[d].gen /\ ~(scope[d].gen = 0 /\ seen[d].origin = "legacy")
    <3>1. /\ scope'[d] = [scope[d] EXCEPT !.gen = seen[d].gen, !.backup = seen[d].backup,
                                          !.boot = FALSE, !.local = 0, !.bound = FALSE,
                                          !.control = NoOp]
          /\ stage'[d] = NoStage
      BY <1>2, <1>t, <2>3 DEF Adopt
    <3> QED
      BY <1>0, <2>0, <2>3, <3>1 DEF Scopes, SpaceOK
  <2> QED BY <2>1, <2>2, <2>3
<1>3. ASSUME Activate(d) PROVE Goal
  <2>1. CASE seen[d] # Status
    BY <1>3, <2>1, PhaseEndRun, <1>0 DEF Activate
  <2>2. CASE seen[d] = Status
    BY <1>3, <2>2, <1>0, <1>t DEF Activate, Go, Status
  <2> QED BY <2>1, <2>2
<1>4. ASSUME Quarantine(d) PROVE Goal
  <2>1. CASE Abandoned(d)
    <3>1. scope'[d] = [[scope[d] EXCEPT !.backup = "rebuildRequired", !.local = 0,
                                        !.bound = FALSE] EXCEPT !.backup = seen[d].backup]
      BY <1>4, <2>1, <1>t DEF Quarantine, Cancelled
    <3>2. /\ life[d] = "attempt" /\ life'[d] = "intent" /\ pc' = pc /\ seen' = seen
          /\ stage' = stage /\ then' = then
      BY <1>4, <1>t DEF Quarantine, Go
    <3> QED
      BY <1>0, <3>1, <3>2 DEF Scopes
  <2>2. CASE ~Abandoned(d)
    BY <1>4, <2>2, <1>0, <1>t DEF Quarantine, Go
  <2> QED BY <2>1, <2>2
<1>5. ASSUME Without(d) PROVE Goal
  BY <1>5, <1>0, <1>t DEF Without, Go
<1>6. ASSUME Refuse(d) PROVE Goal
  BY <1>6, PhaseEndRun, <1>0 DEF Refuse
<1>7. ASSUME Resume(d) PROVE Goal
  BY <1>7, <1>0, <1>t DEF Resume, Go
<1>8. ASSUME CancelRebuild(d) PROVE Goal
  <2> DEFINE op == [id |-> Mine(d), action |-> "cancel", gen |-> scope[d].gen,
                    expect |-> Mine(d), listed |-> {}]
  <2>1. op # NoOp /\ op.id = Mine(d)
    BY DEF NoOp
  <2> HIDE DEF op
  <2>2. /\ scope'[d] = [scope[d] EXCEPT !.control = op] /\ life'[d] = "await"
        /\ then'[d] = "upload" /\ life[d] = "intent" /\ Owned(d)
        /\ stage' = stage /\ seen' = seen /\ pc' = pc
    BY <1>8, <1>t DEF CancelRebuild, Send, Go, Applies, op
  <2> QED
    BY <1>0, <2>1, <2>2 DEF Scopes, Owned, Mine
<1>9. ASSUME BeginRebuild(d) PROVE Goal
  <2> DEFINE s == [scope[d] EXCEPT !.backup = "rebuilding", !.bound = FALSE,
                                   !.local = scope[d].n + 1, !.n = scope[d].n + 1]
  <2>a. scope' = [scope EXCEPT ![d] = s]
    BY <1>9 DEF BeginRebuild
  <2>b. scope'[d] = s
    <3> HIDE DEF s
    <3> QED BY <2>a, <1>t
  <2>1. /\ scope'[d] = [scope[d] EXCEPT !.backup = "rebuilding", !.bound = FALSE,
                                        !.local = scope[d].n + 1, !.n = scope[d].n + 1]
        /\ life'[d] = "open" /\ life[d] = "intent"
        /\ stage' = stage /\ seen' = seen /\ pc' = pc /\ then' = then
        /\ intent' = intent /\ intent[d].action \in {"start", "claim"}
    <3> HIDE DEF s
    <3>1. /\ life'[d] = "open" /\ life[d] = "intent"
          /\ stage' = stage /\ seen' = seen /\ pc' = pc /\ then' = then
          /\ intent' = intent /\ intent[d].action \in {"start", "claim"}
      BY <1>9, <1>t DEF BeginRebuild, Go
    <3> QED BY <2>b, <3>1 DEF s
  <2>2. seen[d].backup = "rebuildRequired" \/ seen[d].backup = "rebuilding"
    BY <1>9 DEF BeginRebuild, Applies
  <2> QED
    BY <1>0, <2>1, <2>2 DEF Scopes, SpaceOK
<1>10. ASSUME OpenAttempt(d) PROVE Goal
  <2> DEFINE op == [id |-> <<d, scope[d].local>>, action |-> intent[d].action,
              gen |-> scope[d].gen, listed |-> Listed(d),
              expect |-> IF intent[d].action = "claim" THEN seen[d].attempt ELSE None]
  <2>1. op # NoOp /\ op.id = <<d, scope[d].local>>
    <3>1. op.id # None
      BY DEF None
    <3> QED BY <3>1 DEF NoOp
  <2> HIDE DEF op
  <2>2. /\ scope'[d] = [scope[d] EXCEPT !.control = op] /\ life'[d] = "await"
        /\ then'[d] = "upload" /\ life[d] = "open"
        /\ stage' = stage /\ seen' = seen /\ pc' = pc
    BY <1>10, <1>t DEF OpenAttempt, Send, Go, op
  <2> QED
    BY <1>0, <2>1, <2>2 DEF Scopes
<1>11. ASSUME AnswerControl(d) PROVE Goal
  BY <1>11, <1>0, <1>t DEF AnswerControl, Go
<1>12. ASSUME RejectControl(d) PROVE Goal
  <2>1. /\ scope'[d] = [scope[d] EXCEPT !.backup = "rebuildRequired", !.local = 0,
                                        !.bound = FALSE, !.control = NoOp]
        /\ stage' = stage /\ seen' = seen
    BY <1>12, <1>0, <1>t DEF RejectControl, Rejected, Cancelled, Scopes
  <2>2. /\ life'[d] = "idle" /\ then'[d] = "none" /\ pc'[d] = "idle" /\ life[d] = "await"
    BY <1>12, <1>t DEF EndRun, RejectControl
  <2> QED
    BY <1>0, <2>1, <2>2 DEF Scopes
<1>13. ASSUME Verify(d) PROVE Goal
  <2>1. CASE space.gen # scope[d].gen
    BY <1>13, <2>1, PhaseEndReread, <1>0 DEF Verify
  <2>2. CASE space.gen = scope[d].gen
    BY <1>13, <2>2, <1>0, <1>t DEF Verify, Go, Status, SpaceOK
  <2> QED BY <2>1, <2>2
<1>14. ASSUME Settle(d) PROVE Goal
  <2>0. life[d] = "settle" /\ seen' = seen /\ stage' = stage
    BY <1>14 DEF Settle
  <2>1. CASE /\ Go(d, "reread") /\ UNCHANGED <<then, pc>>
             /\ scope' = [scope EXCEPT ![d] = [@ EXCEPT !.bound = TRUE, !.control = NoOp]]
    <3>1. /\ scope'[d] = [scope[d] EXCEPT !.bound = TRUE, !.control = NoOp]
          /\ life'[d] = "reread" /\ then' = then /\ pc' = pc
      BY <2>1, <1>t DEF Go
    <3> QED BY <1>0, <2>0, <3>1 DEF Scopes
  <2>2. CASE /\ Go(d, "reread") /\ UNCHANGED <<then, pc>>
             /\ scope' = [scope EXCEPT ![d] = Rejected(@)]
    <3>1. /\ scope'[d] = [scope[d] EXCEPT !.backup = "rebuildRequired", !.local = 0,
                                        !.bound = FALSE, !.control = NoOp]
          /\ life'[d] = "reread" /\ then' = then /\ pc' = pc
      BY <2>2, <1>0, <1>t DEF Go, Rejected, Cancelled, Scopes
    <3> QED BY <1>0, <2>0, <3>1 DEF Scopes
  <2>3. CASE /\ Go(d, "reread") /\ UNCHANGED <<then, pc>> /\ CompleteRebuild(d)
    <3>1. /\ scope'[d] = [scope[d] EXCEPT !.backup = "ready", !.local = 0, !.bound = FALSE,
                                          !.boot = FALSE, !.control = NoOp]
          /\ life'[d] = "reread" /\ then' = then /\ pc' = pc
      BY <2>3, <1>t DEF Go, CompleteRebuild
    <3> QED BY <1>0, <2>0, <3>1 DEF Scopes
  <2>4. CASE EndRun(d) /\ scope' = scope
    BY <2>0, <2>4, PhaseEndRun, <1>0
  <2> QED BY <1>14, <2>1, <2>2, <2>3, <2>4 DEF Settle
<1>15. ASSUME Reread(d) PROVE Goal
  BY <1>15, <1>0, <1>t DEF Reread, Go, Status, SpaceOK
<1>16. ASSUME Upload(d) PROVE Goal
  <2>1. /\ life'[d] = IF Owned(d) THEN "staging" ELSE "verdict"
        /\ UNCHANGED <<scope, stage, then, seen, pc>> /\ life[d] = "upload"
    BY <1>16, <1>t DEF Upload, Go
  <2> QED
    BY <1>0, <2>1 DEF Owned
<1>17. ASSUME StagePush(d) PROVE Goal
  <2>1. CASE EndRun(d)
    BY <1>17, <2>1, PhaseEndRun, <1>0 DEF StagePush
  <2>2. CASE ~EndRun(d)
    <3>1. life'[d] = "staged" /\ UNCHANGED <<then, pc, scope, seen, stage>>
          /\ life[d] = "staging"
      BY <1>17, <2>2, <1>t DEF StagePush, Go
    <3> QED BY <1>0, <3>1
  <2> QED BY <2>1, <2>2
<1>18. ASSUME CommitStaged(d) PROVE Goal
  BY <1>18, <1>0, <1>t DEF CommitStaged, Go
<1>19. ASSUME Progress(d) PROVE Goal
  <2>1. CASE ~IsCurrent(d)
    BY <1>19, <2>1, PhaseEndReread, <1>0 DEF Progress
  <2>2. CASE IsCurrent(d)
    <3>1. /\ life'[d] = "staging" /\ UNCHANGED <<then, pc, scope, stage>>
          /\ life[d] = "progress" /\ seen'[d] = Status /\ space.gen = scope[d].gen
      BY <1>19, <2>2, <1>t DEF Progress, Go, IsCurrent
    <3> QED BY <1>0, <3>1 DEF Status, SpaceOK
  <2> QED BY <2>1, <2>2
<1>20. ASSUME CompleteAttempt(d) PROVE Goal
  <2> DEFINE op == [id |-> Mine(d), action |-> "complete", gen |-> scope[d].gen,
                    expect |-> Mine(d), listed |-> {}]
  <2>1. op # NoOp /\ op.id = Mine(d)
    BY DEF NoOp
  <2> HIDE DEF op
  <2>2. /\ scope'[d] = [scope[d] EXCEPT !.control = op] /\ life'[d] = "await"
        /\ then'[d] = "verdict" /\ life[d] = "staging"
        /\ stage' = stage /\ seen' = seen /\ pc' = pc
    BY <1>20, <1>t DEF CompleteAttempt, Send, Go, op
  <2> QED
    BY <1>0, <2>1, <2>2 DEF Scopes, Mine
<1>21. ASSUME Verdict(d) PROVE Goal
  <2>1. CASE EndRun(d)
    BY <1>21, <2>1, PhaseEndRun, <1>0 DEF Verdict
  <2>2. CASE ~EndRun(d)
    <3>1. /\ life'[d] = (IF scope[d].boot THEN "run" ELSE "pull")
          /\ UNCHANGED <<pc, scope, seen, stage>> /\ then'[d] = "none"
          /\ life[d] = "verdict" /\ seen[d].backup = "ready"
      BY <1>21, <2>2, <1>t DEF Verdict, Go
    <3> QED BY <1>0, <3>1
  <2> QED BY <2>1, <2>2
<1>22. ASSUME FullPage(d) PROVE Goal
  <2>0. scope[d].gen # 0 /\ scope' = scope /\ seen' = seen
    BY <1>22 DEF FullPage
  <2>1. CASE EndRun(d)
    <3>1. /\ life'[d] = "idle" /\ then'[d] = "none" /\ pc'[d] = "idle"
      BY <2>1, <1>t DEF EndRun
    <3> QED
      BY <1>0, <2>0, <3>1
  <2>2. CASE ~EndRun(d)
    <3>1. UNCHANGED <<life, then, pc, intent>>
      BY <1>22, <2>2 DEF FullPage, Discard
    <3> QED BY <1>0, <2>0, <3>1
  <2> QED BY <2>1, <2>2
<1>23. ASSUME ConfirmPull(d) PROVE Goal
  <2>0. /\ scope[d].gen # 0 /\ scope' = scope /\ seen'[d] = Status /\ life[d] = "pull"
    BY <1>23, <1>t DEF ConfirmPull
  <2>1. CASE EndRun(d)
    <3>1. /\ life'[d] = "idle" /\ then'[d] = "none" /\ pc'[d] = "idle"
      BY <2>1, <1>t DEF EndRun
    <3> QED
      BY <1>0, <2>0, <3>1 DEF Status, SpaceOK
  <2>2. CASE ~EndRun(d)
    <3>1. /\ UNCHANGED <<then, pc>>
          /\ \/ life' = life
             \/ life'[d] = "publish" /\ space.gen = scope[d].gen /\ space.backup = "ready"
      BY <1>23, <2>2, <1>t DEF ConfirmPull, Discard, Go, Readable
    <3> QED BY <1>0, <2>0, <3>1 DEF Status, SpaceOK
  <2> QED BY <2>1, <2>2
<1>24. ASSUME PublishFullPull(d) PROVE Goal
  <2>1. CASE space.gen # scope[d].gen
    BY <1>24, <2>1, PhaseEndRun, <1>0 DEF PublishFullPull
  <2>2. CASE space.gen = scope[d].gen
    <3>1. /\ scope' = [scope EXCEPT ![d].boot = TRUE] /\ stage'[d] = NoStage
          /\ life'[d] = "run" /\ UNCHANGED <<then, pc, seen>> /\ life[d] = "publish"
      BY <1>24, <2>2, <1>t DEF PublishFullPull, Go
    <3>2. scope'[d] = [scope[d] EXCEPT !.boot = TRUE]
      BY <3>1, <1>t
    <3> QED BY <1>0, <2>2, <3>1, <3>2 DEF Scopes
  <2> QED BY <2>1, <2>2
<1> HIDE DEF Goal
<1>q. Goal
  BY <1>1, <1>2, <1>3, <1>4, <1>5, <1>6, <1>7, <1>8, <1>9, <1>10, <1>11, <1>12, <1>13,
     <1>14, <1>15, <1>16, <1>17, <1>18, <1>19, <1>20, <1>21, <1>22, <1>23, <1>24
  DEF Prepare
<1> QED BY <1>q DEF Goal

(* The steady state keeps a device where it may be.                        *)
LEMMA PhaseSynchronise ==
  ASSUME TypeOK, SpaceOK, NEW d \in Devices, PhaseOK(d), Synchronise(d)
  PROVE  PhaseOK(d)'
<1>0. SameSpace
  BY SynchroniseStays DEF Stays
<1>t. /\ life \in [Devices -> Lives] /\ pc \in [Devices -> Outbox!Phases]
  BY DEF TypeOK, DeviceType
<1> DEFINE Kept == scope' = scope /\ seen' = seen /\ stage' = stage /\ then' = then
                     /\ intent' = intent
           Goal == PhaseOK(d)'
<1> USE DEF Steady, database
<1>1. ASSUME Kept, life' = life, life[d] = "run" PROVE Goal
  BY <1>0, <1>1
  DEF PhaseOK, SeenOK, PlaceOK, Unbound, PartOK, RebuiltOK, SameSpace, Controlled, Free
<1>2. ASSUME Kept, life'[d] = "idle", pc'[d] = "idle" PROVE Goal
  BY <1>0, <1>2, DeviceFields
  DEF PhaseOK, SeenOK, PlaceOK, Unbound, PartOK, RebuiltOK, SameSpace, Controlled, Free
<1>3. CASE Refused(d)
  BY <1>0, <1>3, PhaseEndRun DEF Refused
<1>4. CASE FinishRun(d)
  <2>1. Kept /\ life'[d] = "idle" /\ pc'[d] = "idle"
    BY <1>4, <1>t DEF FinishRun, Go, Outbox!FinishRun
  <2> HIDE DEF Kept
  <2> QED BY <1>2, <2>1
<1>5. CASE ~Refused(d) /\ ~FinishRun(d)
  <2>1. Kept /\ life' = life /\ life[d] = "run"
    BY <1>5 DEF Synchronise, StartRun, StartUnready, PullPage, CommitPullPage, JoinRebuilt,
      CompleteBootstrap, PreparePush, CommitPushPrefix
  <2> HIDE DEF Kept
  <2> QED BY <1>1, <2>1
<1> QED BY <1>3, <1>4, <1>5 DEF Goal

(* The steps of one device keep its phase in order.                        *)
(* So does every step of the device.                                       *)
LEMMA PhaseDevice ==
  ASSUME TypeOK, SpaceOK, NEW d \in Devices, PhaseOK(d), DeviceStep(d)
  PROVE  PhaseOK(d)'
<1>0. SameSpace
  BY ServiceStays DEF Stays
<1>1. ASSUME NEW r \in Records, NEW v \in Values, Edit(d, r, v) PROVE PhaseOK(d)'
  BY <1>0, <1>1 DEF Edit, database, memory, PhaseOK, SeenOK, PlaceOK, Unbound, PartOK,
     RebuiltOK, SameSpace
<1>2. ASSUME NEW action, Ask(d, action) PROVE PhaseOK(d)'
  BY <1>0, <1>2 DEF Ask, outbox, database, PhaseOK, SeenOK, PlaceOK, Unbound, PartOK,
     RebuiltOK, SameSpace
<1>3. ASSUME Fail(d) PROVE PhaseOK(d)'
  BY <1>0, <1>3, PhaseEndRun DEF Fail, database
<1> QED
  BY <1>1, <1>2, <1>3, PhasePrepare, PhaseSynchronise DEF DeviceStep, UserNext

(* The service's own steps, and the requests it serves, touch no device.   *)
Remote == (\E op \in mail : ServeControl(op)) \/ (\E m \in wire : Rule(m)) \/ Retire
            \/ ExpireReceipt

(* What only devices write.                                                *)
Untouched == UNCHANGED <<now, slot, cursor, pc, page, batch, database, memory>>

(* The service by itself writes nothing of a device.                       *)
LEMMA RemoteUntouched ==
  ASSUME Remote
  PROVE  Untouched
<1>1. ASSUME NEW op, ServeControl(op) PROVE Untouched
  BY <1>1 DEF ServeControl, Untouched
<1>2. ASSUME NEW m, Rule(m) PROVE Untouched
  BY <1>2 DEF Rule, Outbox!ApplyMutation, Outbox!SupersedeMutation, Outbox!database,
              Outbox!worker, Untouched
<1>3. ASSUME Retire PROVE Untouched
  BY <1>3 DEF Retire, Untouched
<1>4. ASSUME ExpireReceipt PROVE Untouched
  BY <1>4 DEF ExpireReceipt, outbox, Untouched
<1> QED BY <1>1, <1>2, <1>3, <1>4 DEF Remote

(* What the service's steps do to the space.                               *)
Opens(op) ==
  /\ op.action \in {"start", "claim"}
  /\ space.backup \in {"rebuildRequired", "rebuilding"}
  /\ space' = [space EXCEPT !.backup = "rebuilding",
                            !.attempt = [id |-> op.id, listed |-> op.listed,
                                         staged |-> NoEntries]]
  /\ UNCHANGED <<log, head>>

(* A request that ends the attempt it names.                               *)
Cancels(op) ==
  /\ op.action = "cancel"
  /\ space.backup = "rebuilding"
  /\ space' = [space EXCEPT !.backup = "rebuildRequired", !.attempt = NoAttempt]
  /\ UNCHANGED <<log, head>>

(* A request that makes the staged records the space.                      *)
Completes(op) ==
  /\ op.action = "complete"
  /\ space.backup = "rebuilding"
  /\ space.attempt.id = op.expect
  /\ Complete
  /\ space' = [space EXCEPT !.backup = "ready", !.attempt = NoAttempt]
  /\ \E order \in Orders(space.attempt.listed) : log' = Published(order)
  /\ head' \in HeadsOf(log')

(* An accepted request opens, ends or publishes an attempt.                *)
LEMMA ServeCases ==
  ASSUME TypeOK, NEW op \in mail, ServeControl(op)
  PROVE  /\ op.gen = space.gen
         /\ Opens(op) \/ Cancels(op) \/ Completes(op)
<1>1. op.action \in Actions
  BY DEF TypeOK, ServiceType, Ops
<1>2. CASE op.action = "start"
  BY <1>2 DEF ServeControl, Accepts, Opens
<1>3. CASE op.action = "claim"
  BY <1>3 DEF ServeControl, Accepts, Current, Opens
<1>4. CASE op.action = "cancel"
  BY <1>4 DEF ServeControl, Accepts, Current, Cancels
<1>5. CASE op.action = "complete"
  BY <1>5 DEF ServeControl, Accepts, Current, Completes
<1> QED BY <1>1, <1>2, <1>3, <1>4, <1>5 DEF Actions

(* How a remote step moves the space: it is retired, or served, or stays.  *)
(* The space is replaced by an empty one.                                  *)
Replaced ==
  /\ space'.gen = space.gen + 1 /\ space'.origin = "rebuilt"
  /\ space'.backup = "rebuildRequired" /\ space'.attempt = NoAttempt

(* The generation and its origin stay.                                     *)
Served ==
  /\ space'.gen = space.gen /\ space'.origin = space.origin
  /\ space.backup # "ready" /\ space'.backup # "none"

(* What the service's steps may do to the space.                           *)
LEMMA RemoteSpace ==
  ASSUME TypeOK, Remote
  PROVE  Replaced \/ Served \/ space' = space
<1>0. space \in Spaces
  BY DEF TypeOK, ServiceType
<1>1. ASSUME NEW op \in mail, ServeControl(op) PROVE Served
  <2>1. CASE Opens(op)
    BY <1>0, <2>1 DEF Opens, Served, Spaces
  <2>2. CASE Cancels(op)
    BY <1>0, <2>2 DEF Cancels, Served, Spaces
  <2>3. CASE Completes(op)
    BY <1>0, <2>3 DEF Completes, Served, Spaces
  <2> QED BY <1>1, <2>1, <2>2, <2>3, ServeCases
<1>2. ASSUME NEW m, Rule(m) PROVE space' = space
  BY <1>2 DEF Rule, cloud
<1>3. ASSUME Retire PROVE Replaced
  BY <1>3 DEF Retire, Replaced
<1>4. ASSUME ExpireReceipt PROVE space' = space
  BY <1>4 DEF ExpireReceipt
<1> QED BY <1>1, <1>2, <1>3, <1>4 DEF Remote

(* The service's steps leave every device where it may be.                 *)
LEMMA PhaseRemote ==
  ASSUME TypeOK, SpaceOK, NEW d \in Devices, PhaseOK(d), Remote
  PROVE  PhaseOK(d)'
<1>0. /\ scope'[d] = scope[d] /\ seen'[d] = seen[d] /\ stage'[d] = stage[d]
      /\ life'[d] = life[d] /\ then'[d] = then[d] /\ pc'[d] = pc[d]
      /\ intent'[d] = intent[d]
  BY RemoteUntouched DEF Untouched, database, memory
<1>1. /\ scope[d].gen \in Nat /\ seen[d].gen \in Nat /\ space.gen \in Nat \ {0}
      /\ scope[d].boot \in BOOLEAN
  BY DeviceFields
<1>2. PlaceOK(d)' /\ (Unbound(d) => Unbound(d)')
  BY <1>0 DEF PhaseOK, PlaceOK, Unbound
<1>3. CASE space' = space
  BY <1>0, <1>3 DEF PhaseOK, SeenOK, PlaceOK, Unbound, PartOK, RebuiltOK
<1>4. CASE Served
  <2>1. SeenOK(d)'
    BY <1>0, <1>1, <1>4 DEF Served, PhaseOK, SeenOK
  <2>2. PartOK(d) => PartOK(d)'
    BY <1>0, <1>1, <1>4 DEF Served, PartOK
  <2>3. RebuiltOK(d) => RebuiltOK(d)'
    BY <1>0, <1>1, <1>4 DEF Served, RebuiltOK
  <2> QED BY <1>0, <1>2, <2>1, <2>2, <2>3 DEF PhaseOK
<1>5. CASE Replaced
  <2>1. SeenOK(d)'
    BY <1>0, <1>1, <1>5 DEF Replaced, PhaseOK, SeenOK
  <2>2. PartOK(d) => PartOK(d)'
    BY <1>0, <1>1, <1>5 DEF Replaced, PartOK, PhaseOK, SeenOK
  <2>3. RebuiltOK(d) => RebuiltOK(d)'
    BY <1>0, <1>1, <1>5 DEF Replaced, RebuiltOK, PhaseOK, SeenOK
  <2> QED BY <1>0, <1>2, <2>1, <2>2, <2>3 DEF PhaseOK
<1> QED BY <1>3, <1>4, <1>5, RemoteSpace

(* All steps do.                                                           *)
LEMMA PhaseNext ==
  ASSUME TypeOK, PhaseInv, Next
  PROVE  PhaseInv'
<1>1. ASSUME NEW d \in Devices, DeviceStep(d)
      PROVE  SpaceOK' /\ \A e \in Devices : PhaseOK(e)'
  <2>1. SameSpace /\ Aside(d)
    BY <1>1, ServiceStays, OthersStill DEF Stays, TypeOK
  <2>2. SpaceOK'
    BY <2>1 DEF SameSpace, SpaceOK, PhaseInv
  <2>3. ASSUME NEW e \in Devices PROVE PhaseOK(e)'
    <3>1. CASE e = d
      BY <1>1, <3>1, PhaseDevice DEF PhaseInv
    <3>2. CASE e # d
      BY <2>1, <3>2, PhaseStill DEF PhaseInv, Aside
    <3> QED BY <3>1, <3>2
  <2> QED BY <2>2, <2>3
<1>2. ASSUME Remote PROVE SpaceOK' /\ \A e \in Devices : PhaseOK(e)'
  <2>1. SpaceOK'
    BY <1>2, RemoteSpace DEF PhaseInv, SpaceOK, Replaced, Served
  <2>2. ASSUME NEW e \in Devices PROVE PhaseOK(e)'
    BY <1>2, PhaseRemote DEF PhaseInv
  <2> QED BY <2>1, <2>2
<1> QED
  BY <1>1, <1>2 DEF Next, ServiceNext, Remote, DeviceStep, PhaseInv

-----------------------------------------------------------------------------
(***************************************************************************)
(* What a step of a device does to one of its rows.                        *)
(***************************************************************************)
(* A revision of the space is a record a page can carry.                   *)
LEMMA RecordOf ==
  ASSUME TypeOK, NEW k \in DOMAIN log
  PROVE  /\ Outbox!AsRecord(k) \in Record
         /\ Outbox!AsRecord(k).val = log[k].val /\ Outbox!AsRecord(k).at = log[k].at
         /\ Outbox!AsRecord(k).rev = k
         /\ log[k] \in Outbox!Published /\ log[k].rec \in Records
<1>1. log[k] \in Outbox!Published /\ k \in Nat \ {0}
  BY DEF TypeOK, ServiceType
<1> QED BY <1>1 DEF Outbox!AsRecord, Outbox!Published, Record

(* A record of the space is observed, or none.                             *)
Reads(r, s, u) ==
  \/ u = s
  \/ \E k \in DOMAIN log : log[k].rec = r /\ u = Outbox!Observe(s, Outbox!AsRecord(k), TRUE)

(* The row is pulled, and projected.                                       *)
Pulls(r, s, t) == \E u : Reads(r, s, u) /\ t = Outbox!Project(u)

(* A row is merged with what was read of its record.                       *)
Merges(r, s, t) == \E u : Reads(r, s, u) /\ WellFormed(u) /\ Merged(u, t)

(* The row of a record whose envelope the service has ruled on.            *)
Answers(d, r, s, t) ==
  LET sent   == batch[d][r]
      result == verdict[Outbox!Identity(d, r)]
  IN  /\ Outbox!Identity(d, r) \in DOMAIN verdict
      /\ sent \in Outbox!Envelope
      /\ s.fly = sent
      /\ s.pend.n = sent.n => s.pend = sent
      /\ [id |-> <<d, r, sent.n>>, val |-> sent.val, at |-> sent.at] \in wire
      /\ result \in Outbox!Result
      /\ result.rev \in DOMAIN log
      /\ log[result.rev].rec = r
      /\ result.applied => log[result.rev].val = sent.val
      /\ t = Outbox!Project(Outbox!Acknowledge(s, sent, result))

(* The row of a record is well formed.                                     *)
Row(d, r) == WellFormed(slot[d][r])

(* What was read into a well-formed row is one.                            *)
LEMMA ReadsRow ==
  ASSUME TypeOK, NEW r, NEW s, WellFormed(s), NEW u, Reads(r, s, u)
  PROVE  WellFormed(u)
<1>1. CASE u = s
  BY <1>1
<1>2. ASSUME NEW k \in DOMAIN log, u = Outbox!Observe(s, Outbox!AsRecord(k), TRUE)
      PROVE  WellFormed(u)
  BY <1>2, RecordOf, ObserveRow
<1> QED BY <1>1, <1>2 DEF Reads

(* A page is committed.                                                    *)
LEMMA PullRow ==
  ASSUME TypeOK, MirrorInv, NEW d \in Devices, NEW r \in Records, CommitPullPage(d)
  PROVE  Pulls(r, slot[d][r], slot'[d][r]) /\ Merges(r, slot[d][r], slot'[d][r])
<1> DEFINE s == slot[d][r]
           t == slot'[d][r]
           some == \E k \in page[d].revs : log[k].rec = r
           k0 == CHOOSE k \in page[d].revs : log[k].rec = r
<1>1. WellFormed(s) /\ slot \in [Devices -> [Records -> Outbox!Slot]]
  BY DEF TypeOK, SlotsGood, DeviceType
<1>2. t = IF some THEN Outbox!Project(Outbox!Observe(s, Outbox!AsRecord(k0), TRUE))
          ELSE Outbox!Project(s)
  BY <1>1 DEF CommitPullPage, Outbox!CommitPullPage
<1>3. page[d].revs \subseteq DOMAIN log
  BY DEF CommitPullPage, Outbox!CommitPullPage, MirrorInv, PageOK
<1>4. some => k0 \in DOMAIN log /\ log[k0].rec = r
  BY <1>3
<1> HIDE DEF some, k0, s, t
<1>5. PICK u : Reads(r, s, u) /\ t = Outbox!Project(u)
  BY <1>2, <1>4 DEF Reads
<1>6. WellFormed(u)
  BY <1>1, <1>5, ReadsRow
<1> QED
  BY <1>5, <1>6, ProjectMerges DEF Merges, Pulls, s, t

(* A full pull is published.                                               *)
LEMMA PublishRow ==
  ASSUME TypeOK, MirrorInv, NEW d \in Devices, NEW r \in Records, PublishFullPull(d),
         space.gen = scope[d].gen
  PROVE  Merges(r, slot[d][r], slot'[d][r])
<1> DEFINE s == slot[d][r]
           t == slot'[d][r]
           revs == {k \in stage[d].revs : log[k].rec = r}
           k0 == CHOOSE k \in revs : TRUE
           u == IF revs = {} THEN s
                ELSE Outbox!Project(Outbox!Observe(s, Outbox!AsRecord(k0), TRUE))
           o == Outbox!Observe(s, Outbox!AsRecord(k0), TRUE)
<1>1. WellFormed(s) /\ slot \in [Devices -> [Records -> Outbox!Slot]]
  BY DEF TypeOK, SlotsGood, DeviceType
<1>2. t = IF seen[d].origin = "rebuilt" THEN Outbox!Project(u)
          ELSE Outbox!Project(Outbox!Bind(u))
  <2> DEFINE rows == [q \in Records |->
               LET ks == {k \in stage[d].revs : log[k].rec = q}
                   x == IF ks = {} THEN slot[d][q]
                        ELSE Outbox!Project(Outbox!Observe(slot[d][q],
                               Outbox!AsRecord(CHOOSE k \in ks : TRUE), TRUE))
               IN  IF seen[d].origin = "rebuilt" THEN Outbox!Project(x)
                   ELSE Outbox!Project(Outbox!Bind(x))]
  <2>1. slot' = [slot EXCEPT ![d] = rows]
    BY DEF PublishFullPull
  <2>2. rows[r] = IF seen[d].origin = "rebuilt" THEN Outbox!Project(u)
                  ELSE Outbox!Project(Outbox!Bind(u))
    OBVIOUS
  <2> HIDE DEF rows
  <2>3. slot'[d] = rows
    BY <1>1, <2>1
  <2> QED BY <2>2, <2>3
<1>3. revs # {} => k0 \in DOMAIN log /\ log[k0].rec = r
  <2>1. StageOK(d)
    BY DEF MirrorInv
  <2>2. stage[d].revs \subseteq DOMAIN log
    <3>1. stage[d] \in Stages /\ log \in Seq(Outbox!Published)
      BY DEF TypeOK, ServiceType, DeviceType
    <3> QED BY <2>1, <3>1 DEF StageOK, Stages
  <2>3. revs # {} => k0 \in revs
    OBVIOUS
  <2> QED BY <2>2, <2>3
<1>4. u = s \/ (Reads(r, s, o) /\ u = Outbox!Project(o))
  BY <1>3 DEF Reads
<1> HIDE DEF u, k0, revs, s, t, o
<1>5. PICK w : Reads(r, s, w) /\ (u = w \/ u = Outbox!Project(w))
  BY <1>4 DEF Reads
<1>6. WellFormed(w)
  BY <1>1, <1>5, ReadsRow
<1>7. WellFormed(u) /\ (u = w \/ (Merged(w, u) /\ SameContent(w, u) /\ u.cand \in {w.cand, Outbox!NoEdit}))
  BY <1>5, <1>6, ProjectMerges, ProjectRow
<1>8. Merged(u, t)
  BY <1>2, <1>7, ProjectMerges, BindMerges
<1>9. Merged(w, t)
  <2>1. CASE u = w
    BY <1>8, <2>1
  <2>2. CASE Merged(w, u) /\ SameContent(w, u) /\ u.cand \in {w.cand, Outbox!NoEdit}
    <3>1. WellFormed(t) /\ SameMirror(w, t) /\ t.fly = w.fly
      BY <1>8, <2>2 DEF Merged, SameMirror
    <3>2. SameContent(w, t) \/ Joins(w, t)
      <4>1. CASE SameContent(u, t)
        BY <2>2, <4>1 DEF SameContent
      <4>2. CASE Joins(u, t)
        BY <2>2, <4>2 DEF SameContent, Joins
      <4> QED BY <1>8, <4>1, <4>2 DEF Merged
    <3>3. Reach(w, t)
      BY <1>8, <2>2 DEF Merged, Reach, SameContent
    <3> QED BY <3>1, <3>2, <3>3 DEF Merged
  <2> QED BY <1>7, <2>1, <2>2
<1> QED
  BY <1>5, <1>6, <1>9 DEF Merges, s, t

(* Nothing is read, and candidates may join.                               *)
LEMMA JoinRow ==
  ASSUME TypeOK, NEW d \in Devices, NEW r \in Records,
         JoinRebuilt(d) \/ CompleteBootstrap(d)
  PROVE  Merges(r, slot[d][r], slot'[d][r])
<1> DEFINE s == slot[d][r]
           t == slot'[d][r]
<1>1. WellFormed(s) /\ slot \in [Devices -> [Records -> Outbox!Slot]]
  BY DEF TypeOK, SlotsGood, DeviceType
<1>2. t = Outbox!Project(s) \/ t = Outbox!Project(Outbox!Bind(s))
  BY <1>1 DEF JoinRebuilt, CompleteBootstrap, Outbox!CompleteBootstrap
<1>3. Merged(s, t)
  BY <1>1, <1>2, ProjectMerges, BindMerges
<1> QED
  BY <1>1, <1>3 DEF Merges, Reads

(* A prefix of a push is answered.                                         *)
LEMMA AnswerRow ==
  ASSUME TypeOK, WireInv, VerdictInv, NEW d \in Devices, NEW r \in Records,
         CommitPushPrefix(d)
  PROVE  \/ Answers(d, r, slot[d][r], slot'[d][r])
         \/ Pulls(r, slot[d][r], slot'[d][r]) /\ Merges(r, slot[d][r], slot'[d][r])
<1> DEFINE s == slot[d][r]
           t == slot'[d][r]
           sent == batch[d][r]
           id == Outbox!Identity(d, r)
           message == [id |-> <<d, r, sent.n>>, val |-> sent.val, at |-> sent.at]
<1>1. /\ WellFormed(s) /\ slot \in [Devices -> [Records -> Outbox!Slot]]
      /\ batch \in [Devices -> [Records -> Outbox!Envelope \cup {Outbox!NoEnvelope}]]
  BY DEF TypeOK, SlotsGood, DeviceType
<1>2. PICK done_ \in SUBSET Outbox!InBatch(d) :
        /\ \A q \in done_ : Outbox!Identity(d, q) \in DOMAIN verdict
        /\ slot' = [slot EXCEPT ![d] =
            [q \in Records |->
               Outbox!Project(IF q \in done_
                       THEN Outbox!Acknowledge(slot[d][q], batch[d][q],
                                        verdict[Outbox!Identity(d, q)])
                       ELSE slot[d][q])]]
  BY DEF CommitPushPrefix, Outbox!CommitPushPrefix
<1>3. CASE r \notin done_
  <2>1. t = Outbox!Project(s)
    BY <1>1, <1>2, <1>3
  <2> QED
    BY <1>1, <2>1, ProjectMerges DEF Merges, Pulls, Reads
<1>4. CASE r \in done_
  <2>1. t = Outbox!Project(Outbox!Acknowledge(s, sent, verdict[id])) /\ id \in DOMAIN verdict
    BY <1>1, <1>2, <1>4
  <2>2. sent \in Outbox!Envelope /\ sent # Outbox!NoEnvelope
    BY <1>1, <1>2, <1>4, EnvelopeFacts DEF Outbox!InBatch
  <2>3. sent = s.fly /\ message \in wire
    BY <2>2 DEF WireInv, WireOK, CommitPushPrefix
  <2>4. message.id = <<d, r, sent.n>> /\ id = <<d, r, sent.n>>
    BY DEF Outbox!Identity
  <2> HIDE DEF sent, id, message
  <2>5. s.pend.n = sent.n => s.pend = sent
    <3>1. s.pend \in Outbox!Envelope \cup {Outbox!NoEnvelope}
      BY <1>1, RowFields
    <3>2. CASE s.pend = Outbox!NoEnvelope
      BY <2>2, <3>2, EnvelopeFacts
    <3>3. CASE s.pend # Outbox!NoEnvelope
      <4>1. message.id[1] = d /\ message.id[2] = r /\ message.id[3] = sent.n
        BY <2>4
      <4>2. s.pend # Outbox!NoEnvelope /\ message.id[3] = s.pend.n => s.fly = s.pend
        BY <2>3, <4>1 DEF WireInv, WireOK
      <4> QED BY <2>3, <3>3, <4>1, <4>2
    <3> QED BY <3>2, <3>3
  <2>6. /\ verdict[id] \in Outbox!Result
        /\ verdict[id].rev \in DOMAIN log
        /\ log[verdict[id].rev].rec = r
        /\ verdict[id].applied => log[verdict[id].rev].val = sent.val
    <3>1. verdict[id] \in Outbox!Result
      BY <2>1 DEF TypeOK, ServiceType
    <3>2. id[2] = r /\ message.val = sent.val /\ message.id = id
      BY <2>4 DEF message
    <3> QED BY <2>1, <2>3, <3>1, <3>2 DEF VerdictInv
  <2> QED
    BY <2>1, <2>2, <2>3, <2>5, <2>6 DEF Answers, sent, id, message
<1> QED BY <1>3, <1>4

(* The row of an answered record, and the record of its result.            *)
LEMMA AnsweredRow ==
  ASSUME TypeOK, NEW d \in Devices, NEW r \in Records, NEW s, WellFormed(s), NEW t,
         Answers(d, r, s, t),
         s.rrev > 0 => s.rrev \in DOMAIN log
                         /\ log[s.rrev] = [rec |-> r, val |-> s.rval, at |-> s.rat]
  PROVE  \E k \in DOMAIN log :
           /\ log[k].rec = r
           /\ WellFormed(t) /\ Reach(s, t) /\ Observed(s, t, Outbox!AsRecord(k))
           /\ t.fly = Outbox!NoEnvelope
           /\ \A v, w : /\ v # Absent => Holds(s, v)
                        /\ w = AuthorOf(s, t, v)
                        /\ w # Absent
                        => \/ Holds(t, w)
                           \/ w = batch[d][r].val
                           \/ \E j \in DOMAIN log : log[j].rec = r /\ log[j].val = w
<1> DEFINE sent == batch[d][r]
           result == verdict[Outbox!Identity(d, r)]
           u == Outbox!Acknowledge(s, sent, result)
           record == Outbox!ResultRecord(sent, result)
           k == result.rev
<1>1. /\ sent \in Outbox!Envelope /\ s.fly = sent /\ (s.pend.n = sent.n => s.pend = sent)
      /\ result \in Outbox!Result /\ k \in DOMAIN log /\ log[k].rec = r
      /\ result.applied => log[k].val = sent.val
      /\ t = Outbox!Project(u)
  BY DEF Answers
<1>2. record = Outbox!AsRecord(k)
  BY <1>1 DEF Outbox!ResultRecord, Outbox!AsRecord
<1>3. record \in Record /\ record.val = log[k].val
  BY <1>1, <1>2, RecordOf
<1> HIDE DEF sent, result, record, k
<1>4. /\ WellFormed(u) /\ Observed(s, u, record) /\ Reach(s, u) /\ u.cand = s.cand
      /\ u.fly = Outbox!NoEnvelope
      /\ \/ Acknowledges(s, u, sent)
         \/ /\ u.val = s.val /\ u.merge = s.merge /\ u.pend = s.pend
            /\ s.pend.n # sent.n /\ Outbox!Dirty(s)
  BY <1>1, <1>3, AcknowledgeRow DEF record
<1>5. ASSUME NEW v, v # Absent, Holds(s, v)
      PROVE  Holds(t, v) \/ v = record.val \/ v = sent.val
  BY <1>1, <1>3, <1>5, AcknowledgeHolds DEF record
<1> HIDE DEF u
<1>6. WellFormed(t) /\ SameMirror(u, t) /\ SameContent(u, t) /\ t.fly = u.fly
  BY <1>1, <1>4, ProjectRow
<1>7. Observed(s, t, record) /\ Reach(s, t) /\ t.fly = Outbox!NoEnvelope
  BY <1>4, <1>6 DEF Observed, SameMirror, SameContent, Reach
<1>8. ASSUME NEW v, NEW w, v # Absent => Holds(s, v), w = AuthorOf(s, t, v), w # Absent
      PROVE  \/ Holds(t, w)
             \/ w = sent.val
             \/ \E j \in DOMAIN log : log[j].rec = r /\ log[j].val = w
  <2>1. CASE w = v
    BY <1>1, <1>3, <1>5, <1>8, <2>1
  <2>2. CASE w # v
    <3>1. w = t.val /\ t.val # s.val
      BY <1>8, <2>2 DEF AuthorOf
    <3>2. u.val = u.rval /\ s.fly = sent
      BY <1>1, <1>4, <1>6, <3>1 DEF Acknowledges, SameContent
    <3> QED
      <4>1. CASE ~(s.rrev >= record.rev)
        BY <1>1, <1>3, <1>4, <1>6, <3>1, <3>2, <4>1 DEF Observed, SameContent
      <4>2. CASE s.rrev >= record.rev
        <5>1. w = s.rval
          BY <1>4, <1>6, <3>1, <3>2, <4>2 DEF Observed, SameContent, SameMirror
        <5>2. s.rrev > 0
          BY <1>3, <4>2, RowFields DEF Record
        <5> QED BY <5>1, <5>2
      <4> QED BY <4>1, <4>2
  <2> QED BY <2>1, <2>2
<1>9. Observed(s, t, Outbox!AsRecord(k)) /\ WellFormed(t)
  BY <1>2, <1>6, <1>7
<1> QED
  BY <1>1, <1>7, <1>8, <1>9 DEF sent

(***************************************************************************)
(* Every way a step of a device moves one of its rows.                     *)
(***************************************************************************)
(* The device gives the old generation up.                                 *)
Retires(d) ==
  /\ Adopt(d)
  /\ scope[d].gen # seen[d].gen
  /\ ~(scope[d].gen = 0 /\ seen[d].origin = "legacy")

(* A published attempt marks what was edited since it was frozen.          *)
Remarks(d, r, s, t) ==
  /\ entries[d][r] # NoEntry
  /\ t = [s EXCEPT !.merge = Changed(s, entries[d][r])]

(* Whatever step changes a row changes it in one of these ways.            *)
Moved(d, r, s, t) ==
  \/ t = s
  \/ Retires(d) /\ t = Retired(s)
  \/ BeginRebuild(d) /\ ~Sealed(s) /\ t = Chosen(s)
  \/ Settle(d) /\ CompleteRebuild(d) /\ Remarks(d, r, s, t)
  \/ Merges(r, s, t)
  \/ StartRun(d) /\ t = Outbox!Reconcile(s)
  \/ PreparePush(d) /\ Sealed(s) /\ t = [s EXCEPT !.fly = Outbox!Outgoing(s)]
  \/ CommitPushPrefix(d) /\ Answers(d, r, s, t)
  \/ \E v \in Values : /\ Edit(d, r, v)
                       /\ t = Edited(s, v, now, Queues(d), scope[d].gen # 0)

(* What is known of a row before the step.                                 *)
Known == TypeOK /\ PhaseInv /\ QueueInv /\ WireInv /\ VerdictInv /\ MirrorInv

(* Where an attempt may begin nothing is queued or sent.                   *)
LEMMA BeginsUnsealed ==
  ASSUME TypeOK, PhaseInv, QueueInv, NEW d \in Devices, BeginRebuild(d), NEW r \in Records
  PROVE  ~Sealed(slot[d][r])
<1>1. life[d] = "intent" /\ seen[d].backup # "ready"
  BY DEF BeginRebuild, Applies
<1>2. scope[d].gen \in Nat /\ scope[d].boot \in BOOLEAN
  BY DeviceFields
<1>3. PhaseOK(d)
  BY DEF PhaseInv
<1>4. scope[d].gen > 0
  BY <1>1, <1>2, <1>3 DEF PhaseOK, Unbound
<1>5. ~scope[d].boot
  BY <1>1, <1>3, <1>4 DEF PhaseOK, PartOK
<1> QED BY <1>4, <1>5 DEF QueueInv

(* The steps of a device change a row in no other way.                     *)
LEMMA RowStep ==
  ASSUME Known, NEW d \in Devices, DeviceStep(d), NEW r \in Records
  PROVE  Moved(d, r, slot[d][r], slot'[d][r])
<1>0. slot \in [Devices -> [Records -> Outbox!Slot]]
  BY DEF Known, TypeOK, DeviceType
<1> DEFINE s == slot[d][r]
           t == slot'[d][r]
<1>1. CASE slot' = slot
  BY <1>1 DEF Moved
<1>2. ASSUME Adopt(d) PROVE Moved(d, r, s, t)
  <2>1. CASE Retires(d)
    <3>1. t = Retired(s)
      BY <1>0, <2>1 DEF Adopt, Retires
    <3> QED BY <2>1, <3>1 DEF Moved
  <2>2. CASE ~Retires(d)
    <3>1. t = s
      BY <1>0, <1>2, <2>2 DEF Adopt, Retires
    <3> QED BY <3>1 DEF Moved
  <2> QED BY <2>1, <2>2
<1>3. ASSUME BeginRebuild(d) PROVE Moved(d, r, s, t)
  <2>1. t = Chosen(s)
    BY <1>0, <1>3 DEF BeginRebuild
  <2> QED BY <1>3, <2>1, BeginsUnsealed DEF Moved, Known
<1>4. ASSUME Settle(d) PROVE Moved(d, r, s, t)
  <2>1. CASE CompleteRebuild(d)
    <3>1. t = IF entries[d][r] = NoEntry THEN s
              ELSE [s EXCEPT !.merge = Changed(s, entries[d][r])]
      BY <1>0, <2>1 DEF CompleteRebuild
    <3> QED BY <1>4, <2>1, <3>1 DEF Moved, Remarks
  <2>2. CASE ~CompleteRebuild(d)
    <3>1. slot' = slot
      BY <1>4, <2>2 DEF Settle
    <3> QED BY <3>1 DEF Moved
  <2> QED BY <2>1, <2>2
<1>5. ASSUME PublishFullPull(d) PROVE Moved(d, r, s, t)
  <2>1. CASE space.gen = scope[d].gen
    BY <1>5, <2>1, PublishRow DEF Moved, Known
  <2>2. CASE space.gen # scope[d].gen
    <3>1. slot' = slot
      BY <1>5, <2>2 DEF PublishFullPull
    <3> QED BY <3>1 DEF Moved
  <2> QED BY <2>1, <2>2
<1>6. ASSUME StartRun(d) PROVE Moved(d, r, s, t)
  <2>1. t = Outbox!Reconcile(s)
    BY <1>0, <1>6 DEF StartRun, Outbox!StartRun
  <2> QED BY <1>6, <2>1 DEF Moved
<1>7. ASSUME CommitPullPage(d) PROVE Moved(d, r, s, t)
  BY <1>7, PullRow DEF Moved, Known
<1>8. ASSUME JoinRebuilt(d) \/ CompleteBootstrap(d) PROVE Moved(d, r, s, t)
  BY <1>8, JoinRow DEF Moved, Known
<1>9. ASSUME PreparePush(d) PROVE Moved(d, r, s, t)
  <2>1. PICK sent \in SUBSET Outbox!Selected(d) :
          slot' = [slot EXCEPT ![d] =
            [q \in Records |->
               IF q \in sent
               THEN [slot[d][q] EXCEPT !.fly = Outbox!Outgoing(slot[d][q])]
               ELSE slot[d][q]]]
    BY <1>9 DEF PreparePush, Outbox!PreparePush
  <2>2. t = IF r \in sent THEN [s EXCEPT !.fly = Outbox!Outgoing(s)] ELSE s
    BY <1>0, <2>1
  <2>3. r \in sent => Sealed(s)
    BY DEF Outbox!Selected, Outbox!Unresolved, Outbox!Dirty, Sealed
  <2> QED BY <1>9, <2>2, <2>3 DEF Moved
<1>10. ASSUME CommitPushPrefix(d) PROVE Moved(d, r, s, t)
  BY <1>10, AnswerRow DEF Moved, Known
<1>11. ASSUME NEW q \in Records, NEW v \in Values, Edit(d, q, v) PROVE Moved(d, r, s, t)
  <2>1. CASE q = r
    <3>1. t = Edited(s, v, now, Queues(d), scope[d].gen # 0)
      BY <1>0, <1>11, <2>1 DEF Edit, Edited
    <3> QED BY <1>11, <2>1, <3>1 DEF Moved
  <2>2. CASE q # r
    <3>1. t = s
      BY <1>0, <1>11, <2>2 DEF Edit
    <3> QED BY <3>1 DEF Moved
  <2> QED BY <2>1, <2>2
<1> QED
  BY <1>1, <1>2, <1>3, <1>4, <1>5, <1>6, <1>7, <1>8, <1>9, <1>10, <1>11, ServiceStays
  DEF Stays, Writes, Known

(* A change of the mark alone.                                             *)
LEMMA RemarkRow ==
  ASSUME NEW s, WellFormed(s), NEW d, NEW r, NEW t, Remarks(d, r, s, t)
  PROVE  /\ WellFormed(t) /\ SameMirror(s, t) /\ Reach(s, t)
         /\ t.val = s.val /\ t.at = s.at /\ t.pend = s.pend /\ t.fly = s.fly
         /\ t.n = s.n /\ t.cand = s.cand
         /\ t.merge = Changed(s, entries[d][r])
<1> DEFINE b == Changed(s, entries[d][r])
<1>1. b \in BOOLEAN /\ t = [s EXCEPT !.merge = b] /\ s \in Outbox!Slot /\ s.n \in Nat
  BY RowFields DEF Changed, Remarks
<1> HIDE DEF b
<1>2. /\ t \in Outbox!Slot /\ SameMirror(s, t) /\ t.merge = b
      /\ t.val = s.val /\ t.at = s.at /\ t.pend = s.pend /\ t.fly = s.fly
      /\ t.n = s.n /\ t.cand = s.cand
  BY <1>1 DEF Outbox!Slot, SameMirror
<1>3. WellFormed(t)
  BY <1>2 DEF WellFormed, SameMirror, Outbox!Bound, Outbox!Dirty
<1> QED BY <1>1, <1>2, <1>3, ReachSame DEF b

(* An edit is queued where something is queued already.                    *)
LEMMA EditQueues ==
  ASSUME Known, NEW d \in Devices, NEW r \in Records, Outbox!Dirty(slot[d][r])
  PROVE  Queues(d)
<1>1. scope[d].gen \in Nat /\ PhaseOK(d)
  BY DeviceFields DEF Known, PhaseInv
<1>2. CASE scope[d].gen = 0
  BY <1>1, <1>2 DEF PhaseOK, Unbound, Queues
<1>3. CASE scope[d].gen > 0
  BY <1>3 DEF Known, QueueInv, Sealed, Outbox!Dirty, Queues
<1> QED BY <1>1, <1>2, <1>3

(* What an edit does to a row.                                             *)
LEMMA EditedRow ==
  ASSUME Known, NEW d \in Devices, NEW r \in Records, NEW v \in Values, Edit(d, r, v),
         NEW t, t = Edited(slot[d][r], v, now, Queues(d), scope[d].gen # 0)
  PROVE  /\ WellFormed(t) /\ SameMirror(slot[d][r], t) /\ Reach(slot[d][r], t)
         /\ t.val = v /\ t.merge = (scope[d].gen # 0) /\ t.fly = slot[d][r].fly
         /\ t.cand = slot[d][r].cand
         /\ Outbox!Dirty(t) <=> Queues(d)
<1> DEFINE s == slot[d][r]
           q == Queues(d)
           b == scope[d].gen # 0
<1>1. WellFormed(s) /\ now \in Outbox!Times /\ scope[d].boot \in BOOLEAN
  BY DeviceFields DEF Known, TypeOK, SlotsGood, ServiceType
<1>2. q \in BOOLEAN /\ b \in BOOLEAN /\ v # s.val
  BY <1>1 DEF Queues, Edit
<1>3. Outbox!Dirty(s) => q
  BY EditQueues
<1> HIDE DEF q, b, s
<1>4. t = Edited(s, v, now, q, b)
  BY DEF q, b, s
<1>5. /\ WellFormed(t) /\ SameMirror(s, t) /\ Reach(s, t)
      /\ t.val = v /\ t.merge = b /\ t.fly = s.fly /\ t.cand = s.cand
      /\ Outbox!Dirty(t) <=> q
  BY <1>1, <1>2, <1>3, <1>4, EditRow
<1> QED BY <1>5 DEF q, b, s

(* The mirror of a record that moved holds a record of the space.          *)
MirrorMoves(r, s, t) ==
  \/ SameMirror(s, t)
  \/ \E k \in DOMAIN log :
       /\ log[k] = [rec |-> r, val |-> t.rval, at |-> t.rat]
       /\ t.rrev = k
       /\ k > s.rrev

(* A mirror moves to the record that was read.                             *)
LEMMA ObservedMirror ==
  ASSUME TypeOK, NEW r, NEW s, s.rrev \in Nat, NEW t, NEW k \in DOMAIN log, log[k].rec = r,
         Observed(s, t, Outbox!AsRecord(k))
  PROVE  MirrorMoves(r, s, t)
<1>1. log[k] \in Outbox!Published /\ k \in Nat
  BY DEF TypeOK, ServiceType
<1>2. /\ Outbox!AsRecord(k).val = log[k].val /\ Outbox!AsRecord(k).at = log[k].at
      /\ Outbox!AsRecord(k).rev = k
  BY RecordOf
<1>3. CASE s.rrev >= k
  BY <1>2, <1>3 DEF Observed, MirrorMoves
<1>4. CASE ~(s.rrev >= k)
  <2>1. t.rval = log[k].val /\ t.rat = log[k].at /\ t.rrev = k
    BY <1>2, <1>4 DEF Observed
  <2>2. log[k] = [rec |-> r, val |-> t.rval, at |-> t.rat]
    BY <1>1, <2>1 DEF Outbox!Published
  <2>3. k > s.rrev
    BY <1>1, <1>4
  <2> QED BY <2>1, <2>2, <2>3 DEF MirrorMoves
<1> QED BY <1>3, <1>4

(* So it does where the row is merged as well.                             *)
LEMMA MergesMirror ==
  ASSUME TypeOK, NEW r, NEW s, WellFormed(s), NEW t, Merges(r, s, t)
  PROVE  /\ WellFormed(t) /\ MirrorMoves(r, s, t) /\ Reach(s, t) /\ t.fly = s.fly
<1>1. PICK u : Reads(r, s, u) /\ WellFormed(u) /\ Merged(u, t)
  BY DEF Merges
<1>2. WellFormed(t) /\ SameMirror(u, t) /\ Reach(u, t) /\ t.fly = u.fly
  BY <1>1 DEF Merged
<1>3. CASE u = s
  BY <1>2, <1>3 DEF MirrorMoves
<1>4. ASSUME NEW k \in DOMAIN log, log[k].rec = r,
             u = Outbox!Observe(s, Outbox!AsRecord(k), TRUE)
      PROVE  MirrorMoves(r, s, t) /\ Reach(s, t) /\ t.fly = s.fly
  <2> DEFINE record == Outbox!AsRecord(k)
  <2>0. record \in Record /\ u = Outbox!Observe(s, record, TRUE)
    BY <1>4, RecordOf
  <2> HIDE DEF record
  <2>1. /\ Observed(s, u, record) /\ Reach(s, u) /\ u.fly = s.fly /\ u.n = s.n
        /\ SameContent(s, u) \/ Took(s, u, record)
    BY <2>0, ObserveRow
  <2>2. Observed(s, t, Outbox!AsRecord(k))
    BY <1>2, <2>1 DEF Observed, SameMirror, record
  <2>3. MirrorMoves(r, s, t)
    BY <1>4, <2>2, ObservedMirror, RowFields
  <2>4. Reach(s, t)
    <3>1. u.n = s.n /\ s.n \in Nat /\ t.n \in Nat
      BY <1>2, <2>1, RowFields
    <3>2. u.pend = s.pend \/ u.pend = Outbox!NoEnvelope
      BY <2>1 DEF SameContent, Took
    <3> QED BY <1>2, <2>1, <3>1, <3>2 DEF Reach
  <2> QED BY <1>2, <2>1, <2>3, <2>4
<1> QED BY <1>1, <1>2, <1>3, <1>4 DEF Reads

(* A mirror is a record of the space a device is in.                       *)
LEMMA MirrorKnown ==
  ASSUME TypeOK, MirrorInv, NEW d \in Devices, Of(d), NEW r \in Records, slot[d][r].rrev > 0
  PROVE  /\ slot[d][r].rrev \in DOMAIN log
         /\ log[slot[d][r].rrev] = [rec |-> r, val |-> slot[d][r].rval, at |-> slot[d][r].rat]
<1>1. slot[d][r].rrev \in Nat /\ log \in Seq(Outbox!Published)
  BY RowFields DEF TypeOK, SlotsGood, ServiceType
<1>2. MirrorOK(d, r)
  BY DEF MirrorInv
<1> QED BY <1>1, <1>2 DEF MirrorOK

(* What every step that neither retires nor sends a row keeps of it.       *)
LEMMA MovedRow ==
  ASSUME Known, NEW d \in Devices, DeviceStep(d), NEW r \in Records, NEW s,
         s = slot[d][r], NEW t, Moved(d, r, s, t)
  PROVE  /\ WellFormed(t)
         /\ ~Retires(d) => MirrorMoves(r, s, t)
         /\ ~Retires(d) /\ ~PreparePush(d) => Reach(s, t)
<1>0. WellFormed(s) /\ TypeOK
  BY DEF Known, TypeOK, SlotsGood
<1> DEFINE Good == /\ WellFormed(t)
                   /\ ~Retires(d) => MirrorMoves(r, s, t)
                   /\ ~Retires(d) /\ ~PreparePush(d) => Reach(s, t)
<1>1. CASE t = s
  BY <1>0, <1>1, RowFields, ReachSame DEF MirrorMoves, SameMirror
<1>2. CASE Retires(d) /\ t = Retired(s)
  BY <1>0, <1>2, RetiredRow
<1>3. CASE BeginRebuild(d) /\ ~Sealed(s) /\ t = Chosen(s)
  <2>1. WellFormed(t) /\ SameMirror(s, t) /\ t.n = s.n /\ ~Sealed(t)
    BY <1>0, <1>3, ChosenRow
  <2>2. Reach(s, t)
    BY <1>0, <1>3, <2>1, RowFields, ReachSame DEF Sealed
  <2> QED BY <2>1, <2>2 DEF MirrorMoves
<1>4. CASE Remarks(d, r, s, t)
  BY <1>0, <1>4, RemarkRow DEF MirrorMoves
<1>5. CASE Merges(r, s, t)
  BY <1>0, <1>5, MergesMirror
<1>6. CASE t = Outbox!Reconcile(s)
  BY <1>0, <1>6, ReconcileRow DEF MirrorMoves
<1>7. CASE PreparePush(d) /\ Sealed(s) /\ t = [s EXCEPT !.fly = Outbox!Outgoing(s)]
  BY <1>0, <1>7, SendRow DEF MirrorMoves
<1>8. CASE CommitPushPrefix(d) /\ Answers(d, r, s, t)
  <2>0. s.rrev > 0 => s.rrev \in DOMAIN log
                        /\ log[s.rrev] = [rec |-> r, val |-> s.rval, at |-> s.rat]
    BY <1>0, <1>8, MirrorKnown DEF Known, CommitPushPrefix, Of
  <2>1. PICK k \in DOMAIN log :
           /\ log[k].rec = r
           /\ WellFormed(t) /\ Reach(s, t) /\ Observed(s, t, Outbox!AsRecord(k))
    BY <1>0, <1>8, <2>0, AnsweredRow
  <2> QED BY <1>0, <2>1, ObservedMirror, RowFields
<1>9. ASSUME NEW v \in Values, Edit(d, r, v),
             t = Edited(s, v, now, Queues(d), scope[d].gen # 0)
      PROVE  Good
  BY <1>9, EditedRow DEF MirrorMoves
<1> QED
  BY <1>1, <1>2, <1>3, <1>4, <1>5, <1>6, <1>7, <1>8, <1>9 DEF Moved

-----------------------------------------------------------------------------
(***************************************************************************)
(* Types.                                                                  *)
(***************************************************************************)
(* A row keeps its place: what is written is a function of the records.    *)
Shaped(d) ==
  \/ \E f : DOMAIN f = Records /\ f = [r \in Records |-> f[r]] /\ slot' = [slot EXCEPT ![d] = f]

(* The steps write rows for every record.                                  *)
LEMMA SlotShape ==
  ASSUME TypeOK, NEW d \in Devices, DeviceStep(d)
  PROVE  Shaped(d)
<1>0. slot \in [Devices -> [Records -> Outbox!Slot]]
  BY DEF TypeOK, DeviceType
<1>2. CASE slot' = slot
  <2>1. slot' = [slot EXCEPT ![d] = slot[d]]
    BY <1>0, <1>2
  <2> QED BY <1>0, <2>1 DEF Shaped
<1>3. CASE Adopt(d)
  <2>1. CASE Retires(d)
    BY <2>1 DEF Adopt, Retires, Shaped
  <2>2. CASE ~Retires(d)
    BY <1>2, <1>3, <2>2 DEF Adopt, Retires
  <2> QED BY <2>1, <2>2
<1>4. CASE BeginRebuild(d)
  BY <1>4 DEF BeginRebuild, Shaped
<1>5. CASE Settle(d)
  <2>1. CASE CompleteRebuild(d)
    BY <2>1 DEF CompleteRebuild, Shaped
  <2>2. CASE ~CompleteRebuild(d)
    <3>1. slot' = slot
      BY <1>5, <2>2 DEF Settle
    <3> QED BY <1>2, <3>1
  <2> QED BY <2>1, <2>2
<1>6. CASE PublishFullPull(d)
  <2>1. CASE space.gen = scope[d].gen
    <3> DEFINE rows == [q \in Records |->
                 LET ks == {k \in stage[d].revs : log[k].rec = q}
                     x == IF ks = {} THEN slot[d][q]
                          ELSE Outbox!Project(Outbox!Observe(slot[d][q],
                                 Outbox!AsRecord(CHOOSE k \in ks : TRUE), TRUE))
                 IN  IF seen[d].origin = "rebuilt" THEN Outbox!Project(x)
                     ELSE Outbox!Project(Outbox!Bind(x))]
    <3>1. slot' = [slot EXCEPT ![d] = rows]
      BY <1>6, <2>1 DEF PublishFullPull
    <3>2. DOMAIN rows = Records /\ rows = [q \in Records |-> rows[q]]
      OBVIOUS
    <3> HIDE DEF rows
    <3> QED BY <3>1, <3>2 DEF Shaped
  <2>2. CASE space.gen # scope[d].gen
    <3>1. slot' = slot
      BY <1>6, <2>2 DEF PublishFullPull
    <3> QED BY <1>2, <3>1
  <2> QED BY <2>1, <2>2
<1>7. CASE StartRun(d)
  BY <1>7 DEF StartRun, Outbox!StartRun, Shaped
<1>8. CASE CommitPullPage(d)
  BY <1>8 DEF CommitPullPage, Outbox!CommitPullPage, Shaped
<1>9. CASE JoinRebuilt(d)
  BY <1>9 DEF JoinRebuilt, Shaped
<1>10. CASE CompleteBootstrap(d)
  BY <1>10 DEF CompleteBootstrap, Outbox!CompleteBootstrap, Shaped
<1>11. CASE PreparePush(d)
  BY <1>11 DEF PreparePush, Outbox!PreparePush, Shaped
<1>12. CASE CommitPushPrefix(d)
  BY <1>12 DEF CommitPushPrefix, Outbox!CommitPushPrefix, Shaped
<1>13. ASSUME NEW q \in Records, NEW v \in Values, Edit(d, q, v) PROVE Shaped(d)
  <2>1. PICK x : slot' = [slot EXCEPT ![d][q] = x]
    BY <1>13 DEF Edit
  <2>2. slot' = [slot EXCEPT ![d] = [slot[d] EXCEPT ![q] = x]]
    BY <2>1
  <2> QED BY <1>0, <2>2 DEF Shaped
<1> QED
  BY <1>2, <1>3, <1>4, <1>5, <1>6, <1>7, <1>8, <1>9, <1>10, <1>11, <1>12, <1>13,
     ServiceStays DEF Stays, Writes

(* Rows stay well formed.                                                  *)
LEMMA SlotsNext ==
  ASSUME Known, NEW d \in Devices, DeviceStep(d)
  PROVE  /\ slot' \in [Devices -> [Records -> Outbox!Slot]]
         /\ SlotsGood'
<1>0. /\ slot \in [Devices -> [Records -> Outbox!Slot]] /\ TypeOK
      /\ \A e \in Devices : e # d => slot'[e] = slot[e]
  BY OthersStill DEF Known, TypeOK, DeviceType, Aside, Still
<1>1. ASSUME NEW r \in Records PROVE WellFormed(slot'[d][r])
  BY RowStep, MovedRow
<1>2. \A r \in Records : slot'[d][r] \in Outbox!Slot
  BY <1>1, RowFields
<1>3. slot' \in [Devices -> [Records -> Outbox!Slot]]
  <2>1. PICK f : DOMAIN f = Records /\ f = [r \in Records |-> f[r]]
                   /\ slot' = [slot EXCEPT ![d] = f]
    BY <1>0, SlotShape DEF Shaped
  <2>2. slot'[d] = f
    BY <1>0, <2>1
  <2>3. f \in [Records -> Outbox!Slot]
    BY <1>2, <2>1, <2>2
  <2> QED BY <1>0, <2>1, <2>3
<1>4. SlotsGood'
  BY <1>0, <1>1 DEF SlotsGood, TypeOK
<1> QED BY <1>3, <1>4

(* The history holds content, or nothing.                                  *)
LEMMA OwnNext ==
  ASSUME TypeOK, slot' \in [Devices -> [Records -> Outbox!Slot]], Accounts
  PROVE  own' \in [Devices -> [Records -> Values \cup {Absent}]]
<1>1. ASSUME NEW d \in Devices, NEW r \in Records
      PROVE  Authored(d, r) \in Values \cup {Absent}
  BY DEF TypeOK, DeviceType, Authored, Outbox!Slot
<1> QED BY <1>1 DEF Accounts

(* The worker's and the run's own variables.                               *)
RunType ==
  /\ cursor \in [Devices -> Nat]
  /\ pc \in [Devices -> Outbox!Phases]
  /\ page \in [Devices -> Pages]
  /\ batch \in [Devices -> [Records -> Outbox!Envelope \cup {Outbox!NoEnvelope}]]
  /\ scope \in [Devices -> Scopes]
  /\ entries \in [Devices -> [Records -> Entries]]
  /\ stage \in [Devices -> Stages]
  /\ life \in [Devices -> Lives]
  /\ then \in [Devices -> Lives \cup {"none"}]
  /\ hand \in [Devices -> SUBSET Records]
  /\ seen \in [Devices -> Statuses]
  /\ intent \in [Devices -> Intents]

(* The constants of those types.                                           *)
LEMMA Blanks ==
  /\ NoEntries \in [Records -> Entries]
  /\ NoStage \in Stages
  /\ NoIntent \in Intents
  /\ NoStatus \in Statuses
  /\ Outbox!NoPage \in Pages
  /\ Outbox!NoBatch \in [Records -> Outbox!Envelope \cup {Outbox!NoEnvelope}]
  /\ NoAttempt \in Attempts
  /\ "idle" \in Outbox!Phases /\ "idle" \in Lives
BY DEF NoEntries, Entries, NoStage, Stages, NoIntent, Intents, NoStatus, Statuses, Origins,
  Backups, Outbox!NoPage, Pages, Outbox!NoBatch, NoAttempt, Attempts, Outbox!Phases, Lives

(* A status read is one.                                                   *)
LEMMA StatusType ==
  ASSUME space \in Spaces
  PROVE  Status \in Statuses
BY DEF Spaces, Attempts, Status, Statuses

(* A run may end at any step, as far as types go.                          *)
LEMMA EndRunType ==
  ASSUME RunType, NEW d \in Devices, EndRun(d)
  PROVE  /\ pc' \in [Devices -> Outbox!Phases]
         /\ page' \in [Devices -> Pages]
         /\ batch' \in [Devices -> [Records -> Outbox!Envelope \cup {Outbox!NoEnvelope}]]
         /\ life' \in [Devices -> Lives]
         /\ then' \in [Devices -> Lives \cup {"none"}]
         /\ hand' \in [Devices -> SUBSET Records]
         /\ intent' \in [Devices -> Intents]
<1>1. /\ page' = [page EXCEPT ![d] = Outbox!NoPage]
      /\ batch' = [batch EXCEPT ![d] = Outbox!NoBatch]
      /\ intent' = [intent EXCEPT ![d] = NoIntent]
  BY DEF EndRun
<1> QED
  BY <1>1, Blanks DEF EndRun, RunType, Outbox!Phases, Lives

(* A control operation of the device.                                      *)
LEMMA SendType ==
  ASSUME RunType, mail \subseteq Ops, NEW d \in Devices, NEW op \in Ops, NEW next \in Lives,
         Send(d, op, next)
  PROVE  /\ scope' \in [Devices -> Scopes] /\ mail' \subseteq Ops
         /\ then' \in [Devices -> Lives \cup {"none"}] /\ life' \in [Devices -> Lives]
<1>1. scope' = [scope EXCEPT ![d] = [scope[d] EXCEPT !.control = op]]
  BY DEF Send
<1>0. scope[d] \in Scopes
  BY DEF RunType
<1>2. [scope[d] EXCEPT !.control = op] \in Scopes
  BY <1>0 DEF Scopes
<1> HIDE DEF Scopes
<1>3. scope' \in [Devices -> Scopes]
  BY <1>1, <1>2 DEF RunType
<1> QED
  BY <1>3 DEF Send, Go, RunType, Lives

(* A function changed at one device keeps its type.                        *)
LEMMA Put ==
  ASSUME NEW S, NEW f \in [Devices -> S], NEW d \in Devices, NEW x \in S, NEW g,
         g = [f EXCEPT ![d] = x]
  PROVE  g \in [Devices -> S]
OBVIOUS

(* Confirming an entry keeps it an entry.                                  *)
LEMMA EntryMark ==
  ASSUME NEW e \in Entries, NEW b \in BOOLEAN, e = NoEntry => b
  PROVE  /\ [e EXCEPT !.acked = b] \in Entries
         /\ [e EXCEPT !.acked = b] = NoEntry <=> e = NoEntry
         /\ [e EXCEPT !.acked = b].val = e.val
<1>1. CASE e = NoEntry
  <2>1. [e EXCEPT !.acked = b] = NoEntry
    <3>1. b = TRUE
      BY <1>1
    <3>2. [NoEntry EXCEPT !.acked = TRUE] = NoEntry
      <4>1. /\ NoEntry \in [val : {Absent}, at : {0}, acked : {TRUE}]
            /\ NoEntry.acked = TRUE
        BY DEF NoEntry
      <4>2. [NoEntry EXCEPT !.acked = NoEntry.acked] = NoEntry
        BY <4>1
      <4> QED BY <4>1, <4>2
    <3> QED BY <1>1, <3>1, <3>2
  <2> QED BY <1>1, <2>1 DEF Entries
<1>2. CASE e # NoEntry
  <2>1. e \in [val : Values, at : Outbox!Times, acked : BOOLEAN]
    BY <1>2 DEF Entries
  <2>2. /\ [e EXCEPT !.acked = b] \in [val : Values, at : Outbox!Times, acked : BOOLEAN]
        /\ [e EXCEPT !.acked = b].val = e.val
    BY <2>1
  <2>3. e.val # NoEntry.val
    BY <2>1, GenerationAssumption DEF NoEntry
  <2> QED BY <1>2, <2>2, <2>3 DEF Entries
<1> QED BY <1>1, <1>2

(* The steps before the steady state keep the types.                       *)
LEMMA PrepareType ==
  ASSUME TypeOK, RunType, SlotsGood', NEW d \in Devices, PhaseOK(d), Prepare(d)
  PROVE  RunType' /\ mail' \subseteq Ops /\ space' \in Spaces
<1>0. /\ space \in Spaces /\ mail \subseteq Ops /\ Status \in Statuses
      /\ head \in [Records -> Nat] /\ log \in Seq(Outbox!Published)
  BY StatusType DEF TypeOK, ServiceType
<1>f. /\ scope[d] \in Scopes /\ seen[d] \in Statuses
      /\ scope[d].gen \in Nat /\ scope[d].boot \in BOOLEAN /\ scope[d].local \in Nat
      /\ scope[d].bound \in BOOLEAN /\ scope[d].n \in Nat
      /\ scope[d].backup \in Backups /\ scope[d].control \in Ops \cup {NoOp}
      /\ seen[d].gen \in Nat /\ seen[d].backup \in Backups
      /\ seen[d].attempt \in Ids \cup {None}
  BY DeviceFields
<1>c. /\ NoOp \in Ops \cup {NoOp} /\ FALSE \in BOOLEAN /\ TRUE \in BOOLEAN /\ 0 \in Nat
      /\ "ready" \in Backups /\ "rebuilding" \in Backups /\ "rebuildRequired" \in Backups
  BY DEF Backups
<1> DEFINE Goal == RunType' /\ mail' \subseteq Ops /\ space' \in Spaces
<1>g. \A phase \in Lives : Go(d, phase) => life' \in [Devices -> Lives]
  BY DEF Go, RunType
<1>l. /\ "adopt" \in Lives /\ "activate" \in Lives /\ "attempt" \in Lives /\ "intent" \in Lives
      /\ "open" \in Lives /\ "await" \in Lives /\ "verify" \in Lives /\ "settle" \in Lives
      /\ "reread" \in Lives /\ "upload" \in Lives /\ "staging" \in Lives /\ "staged" \in Lives
      /\ "progress" \in Lives /\ "verdict" \in Lives /\ "pull" \in Lives /\ "publish" \in Lives
      /\ "run" \in Lives
  BY DEF Lives
<1> USE DEF outbox, cloud, database, UnchangedService
<1>1. ASSUME ReadStatus(d) PROVE Goal
  BY <1>0, <1>1, <1>g, <1>l DEF ReadStatus, RunType
<1>2. ASSUME Adopt(d) PROVE Goal
  <2>1. /\ life' \in [Devices -> Lives]
        /\ UNCHANGED <<pc, page, batch, mail, space, then, hand, seen, intent>>
    BY <1>2, <1>g, <1>l DEF Adopt
  <2>2. /\ cursor' \in [Devices -> Nat] /\ entries' \in [Devices -> [Records -> Entries]]
        /\ stage' \in [Devices -> Stages]
    <3>1. CASE Retires(d)
      <4>1. /\ cursor' = [cursor EXCEPT ![d] = 0] /\ entries' = [entries EXCEPT ![d] = NoEntries]
            /\ stage' = [stage EXCEPT ![d] = NoStage]
        BY <3>1 DEF Adopt, Retires
      <4> QED BY <4>1, Blanks, Put, <1>c DEF RunType
    <3>2. CASE ~Retires(d)
      BY <1>2, <3>2 DEF Adopt, Retires, RunType
    <3> QED BY <3>1, <3>2
  <2>3. scope' \in [Devices -> Scopes]
    <3>1. CASE scope[d].gen = seen[d].gen
      <4>1. scope' = [scope EXCEPT ![d] = [scope[d] EXCEPT !.backup = seen[d].backup]]
        BY <1>2, <3>1 DEF Adopt
      <4>2. [scope[d] EXCEPT !.backup = seen[d].backup] \in Scopes
        BY <1>f DEF Scopes
      <4> QED BY <4>1, <4>2, Put DEF RunType
    <3>2. CASE scope[d].gen # seen[d].gen /\ scope[d].gen = 0 /\ seen[d].origin = "legacy"
      <4>1. scope' = [scope EXCEPT ![d] = [scope[d] EXCEPT !.gen = seen[d].gen,
                                                           !.backup = seen[d].backup]]
        BY <1>2, <3>2 DEF Adopt
      <4>2. [scope[d] EXCEPT !.gen = seen[d].gen, !.backup = seen[d].backup] \in Scopes
        BY <1>f DEF Scopes
      <4> QED BY <4>1, <4>2, Put DEF RunType
    <3>3. CASE scope[d].gen # seen[d].gen /\ ~(scope[d].gen = 0 /\ seen[d].origin = "legacy")
      <4> DEFINE s == [scope[d] EXCEPT !.gen = seen[d].gen, !.backup = seen[d].backup,
                                   !.boot = FALSE, !.local = 0, !.bound = FALSE,
                                   !.control = NoOp]
      <4>1. scope' = [scope EXCEPT ![d] = s]
        BY <1>2, <3>3 DEF Adopt
      <4>2. s \in Scopes
        BY <1>f, <1>c DEF Scopes
      <4> QED BY <4>1, <4>2, Put DEF RunType
    <3> QED BY <3>1, <3>2, <3>3
  <2> QED BY <1>0, <2>1, <2>2, <2>3 DEF RunType
<1>3. ASSUME Activate(d) PROVE Goal
  <2>1. CASE seen[d] # Status
    BY <1>0, <1>3, <2>1, EndRunType DEF Activate, RunType
  <2>2. CASE seen[d] = Status /\ scope[d].control = NoOp
    BY <1>0, <1>3, <2>2, <1>g, <1>l DEF Activate, RunType
  <2>3. CASE seen[d] = Status /\ scope[d].control # NoOp
    <3>1. mail' \subseteq Ops
      BY <1>0, <1>f, <1>3, <2>3 DEF Activate
    <3>2. then' \in [Devices -> Lives \cup {"none"}]
      BY <1>3, <2>3, <1>l DEF Activate, RunType
    <3> QED BY <1>0, <1>3, <2>3, <3>1, <3>2, <1>g, <1>l DEF Activate, RunType
  <2> QED BY <2>1, <2>2, <2>3
<1>4. ASSUME Quarantine(d) PROVE Goal
  <2>1. /\ life' \in [Devices -> Lives] /\ entries' \in [Devices -> [Records -> Entries]]
    BY <1>4, <1>g, <1>l, Blanks DEF Quarantine, RunType
  <2>2. scope' \in [Devices -> Scopes]
    <3>1. CASE Abandoned(d)
      <4> DEFINE s == [Cancelled(scope[d]) EXCEPT !.backup = seen[d].backup]
      <4>1. scope' = [scope EXCEPT ![d] = s]
        BY <1>4, <3>1 DEF Quarantine
      <4>2. s \in Scopes
        BY <1>f, <1>c DEF Scopes, Cancelled
      <4> QED BY <4>1, <4>2, Put DEF RunType
    <3>2. CASE ~Abandoned(d)
      BY <1>4, <3>2 DEF Quarantine, RunType
    <3> QED BY <3>1, <3>2
  <2> QED BY <1>0, <1>4, <2>1, <2>2 DEF Quarantine, RunType
<1>5. ASSUME Without(d) PROVE Goal
  BY <1>0, <1>5, <1>g, <1>l DEF Without, RunType
<1>6. ASSUME Refuse(d) PROVE Goal
  BY <1>0, <1>6, EndRunType DEF Refuse, RunType
<1>7. ASSUME Resume(d) PROVE Goal
  <2>1. intent' \in [Devices -> Intents]
    BY <1>7, Blanks DEF Resume, RunType
  <2> QED BY <1>0, <1>7, <1>g, <1>l, <2>1 DEF Resume, RunType
<1>8. ASSUME CancelRebuild(d) PROVE Goal
  <2> DEFINE op == [id |-> Mine(d), action |-> "cancel", gen |-> scope[d].gen,
                    expect |-> Mine(d), listed |-> {}]
  <2>1. scope[d].bound /\ scope[d].local # 0
    BY <1>8 DEF CancelRebuild, Applies, Owned, PhaseOK, PlaceOK
  <2>2. Mine(d) \in Ids
    BY <1>f, <2>1 DEF Mine, Ids
  <2>3. op \in Ops
    BY <1>f, <2>2 DEF Ops, Actions
  <2> HIDE DEF op
  <2>4. Send(d, op, "upload") /\ intent' = [intent EXCEPT ![d] = NoIntent]
    BY <1>8 DEF CancelRebuild, op
  <2>5. intent' \in [Devices -> Intents]
    BY <2>4, Blanks DEF RunType
  <2>6. /\ scope' \in [Devices -> Scopes] /\ mail' \subseteq Ops
        /\ then' \in [Devices -> Lives \cup {"none"}] /\ life' \in [Devices -> Lives]
    BY <1>0, <1>l, <2>3, <2>4, SendType
  <2> QED BY <1>0, <1>8, <2>5, <2>6 DEF CancelRebuild, RunType
<1>9. ASSUME BeginRebuild(d) PROVE Goal
  <2> DEFINE m == scope[d].n + 1
             s == [scope[d] EXCEPT !.backup = "rebuilding", !.bound = FALSE,
                                   !.local = m, !.n = m]
  <2>1. scope' = [scope EXCEPT ![d] = s]
    BY <1>9 DEF BeginRebuild
  <2>2. s \in Scopes
    <3>1. m \in Nat
      BY <1>f
    <3> HIDE DEF m
    <3> QED BY <1>f, <1>c, <3>1 DEF Scopes
  <2> HIDE DEF s
  <2>3. scope' \in [Devices -> Scopes]
    BY <2>1, <2>2, Put DEF RunType
  <2>4. entries' \in [Devices -> [Records -> Entries]]
    <3>1. ASSUME NEW r \in Records PROVE Frozen(slot'[d][r]) \in Entries
      BY RowFields DEF Frozen, Entries, WellFormed, SlotsGood, Outbox!Bound
    <3> QED BY <1>9, <3>1 DEF BeginRebuild, RunType
  <2> QED BY <1>0, <1>9, <1>g, <1>l, <2>3, <2>4 DEF BeginRebuild, RunType
<1>10. ASSUME OpenAttempt(d) PROVE Goal
  <2> DEFINE op == [id |-> <<d, scope[d].local>>, action |-> intent[d].action,
              gen |-> scope[d].gen, listed |-> Listed(d),
              expect |-> IF intent[d].action = "claim" THEN seen[d].attempt ELSE None]
  <2>1. scope[d].local # 0 /\ intent[d].action \in {"start", "claim"}
    BY <1>10 DEF OpenAttempt, PhaseOK, PlaceOK
  <2>2. op \in Ops
    BY <1>f, <2>1 DEF Ops, Actions, Ids, Listed
  <2> HIDE DEF op
  <2>4. Send(d, op, "upload") /\ intent' = [intent EXCEPT ![d] = NoIntent]
    BY <1>10 DEF OpenAttempt, op
  <2>5. intent' \in [Devices -> Intents]
    BY <2>4, Blanks DEF RunType
  <2>6. /\ scope' \in [Devices -> Scopes] /\ mail' \subseteq Ops
        /\ then' \in [Devices -> Lives \cup {"none"}] /\ life' \in [Devices -> Lives]
    BY <1>0, <1>l, <2>2, <2>4, SendType
  <2> QED BY <1>0, <1>10, <2>5, <2>6 DEF OpenAttempt, RunType
<1>11. ASSUME AnswerControl(d) PROVE Goal
  BY <1>0, <1>11, <1>g, <1>l DEF AnswerControl, RunType
<1>r. Rejected(scope[d]) \in Scopes
  BY <1>f, <1>c DEF Scopes, Rejected, Cancelled
<1>12. ASSUME RejectControl(d) PROVE Goal
  <2>1. scope' \in [Devices -> Scopes] /\ entries' \in [Devices -> [Records -> Entries]]
    BY <1>12, <1>r, Put, Blanks DEF RejectControl, RunType
  <2> QED BY <1>0, <1>12, <2>1, EndRunType DEF RejectControl, RunType
<1>13. ASSUME Verify(d) PROVE Goal
  <2>1. seen' \in [Devices -> Statuses]
    BY <1>0, <1>13, Put DEF Verify, RunType
  <2>2. CASE space.gen # scope[d].gen
    BY <1>0, <1>13, <2>1, <2>2, EndRunType DEF Verify, RunType
  <2>3. CASE space.gen = scope[d].gen
    BY <1>0, <1>13, <2>1, <2>3, <1>g, <1>l DEF Verify, RunType
  <2> QED BY <2>2, <2>3
<1>14. ASSUME Settle(d) PROVE Goal
  <2>0. UNCHANGED <<stage, seen, mail, space>>
    BY <1>14 DEF Settle
  <2>1. CASE /\ Go(d, "reread")
             /\ UNCHANGED <<cursor, then, hand, intent, pc, page, batch, entries>>
             /\ scope' = [scope EXCEPT ![d] = [scope[d] EXCEPT !.bound = TRUE, !.control = NoOp]]
    <3>1. [scope[d] EXCEPT !.bound = TRUE, !.control = NoOp] \in Scopes
      BY <1>f, <1>c DEF Scopes
    <3>2. scope' \in [Devices -> Scopes]
      BY <2>1, <3>1, Put DEF RunType
    <3> QED BY <1>0, <1>g, <1>l, <2>0, <2>1, <3>2 DEF RunType
  <2>2. CASE /\ Go(d, "reread") /\ UNCHANGED <<cursor, then, hand, intent, pc, page, batch>>
             /\ scope' = [scope EXCEPT ![d] = Rejected(scope[d])]
             /\ entries' = [entries EXCEPT ![d] = NoEntries]
    <3>1. scope' \in [Devices -> Scopes] /\ entries' \in [Devices -> [Records -> Entries]]
      BY <2>2, <1>r, Put, Blanks DEF RunType
    <3> QED BY <1>0, <1>g, <1>l, <2>0, <2>2, <3>1 DEF RunType
  <2>3. CASE /\ Go(d, "reread") /\ UNCHANGED <<then, hand, intent, pc, page, batch>>
             /\ CompleteRebuild(d)
    <3> DEFINE s == [scope[d] EXCEPT !.backup = "ready", !.local = 0, !.bound = FALSE,
                                     !.boot = FALSE, !.control = NoOp]
    <3>1. scope' = [scope EXCEPT ![d] = s] /\ s \in Scopes
      BY <1>f, <1>c, <2>3 DEF CompleteRebuild, Scopes
    <3> HIDE DEF s
    <3>2. scope' \in [Devices -> Scopes]
      BY <3>1, Put DEF RunType
    <3>3. cursor' \in [Devices -> Nat] /\ entries' \in [Devices -> [Records -> Entries]]
      BY <2>3, Put, Blanks DEF CompleteRebuild, RunType
    <3> QED BY <1>0, <1>g, <1>l, <2>0, <2>3, <3>2, <3>3 DEF RunType
  <2>4. CASE EndRun(d) /\ UNCHANGED <<cursor, scope, entries>>
    BY <1>0, <2>0, <2>4, EndRunType DEF RunType
  <2> HIDE DEF Goal
  <2> QED BY <1>14, <2>1, <2>2, <2>3, <2>4 DEF Settle
<1>15. ASSUME Reread(d) PROVE Goal
  <2>1. then[d] \in Lives
    BY <1>15, <1>l DEF Reread, PhaseOK, PlaceOK, Controlled
  <2>2. seen' \in [Devices -> Statuses] /\ life' \in [Devices -> Lives]
    BY <1>0, <1>15, <1>g, <2>1, Put DEF Reread, RunType
  <2> QED BY <1>0, <1>15, <2>2 DEF Reread, RunType
<1>16. ASSUME Upload(d) PROVE Goal
  BY <1>0, <1>16, <1>g, <1>l DEF Upload, RunType
<1>17. ASSUME StagePush(d) PROVE Goal
  <2>1. CASE ~IsCurrent(d)
    BY <1>0, <1>17, <2>1, EndRunType DEF StagePush, RunType
  <2>2. CASE IsCurrent(d)
    <3>1. PICK part \in SUBSET Unacked(d) :
            /\ space' = [space EXCEPT !.attempt.staged =
                    [r \in Records |-> IF r \in part
                                       THEN [entries[d][r] EXCEPT !.acked = TRUE]
                                       ELSE @[r]]]
            /\ hand' = [hand EXCEPT ![d] = part]
      BY <1>17, <2>2 DEF StagePush
    <3>2. hand' \in [Devices -> SUBSET Records]
      BY <3>1 DEF Unacked, RunType
    <3>3. space' \in Spaces
      <4> DEFINE staged == [r \in Records |-> IF r \in part
                                       THEN [entries[d][r] EXCEPT !.acked = TRUE]
                                       ELSE space.attempt.staged[r]]
                 a == [space.attempt EXCEPT !.staged = staged]
      <4>1. space.attempt \in Attempts /\ space.attempt.staged \in [Records -> Entries]
        BY <1>0 DEF Spaces, Attempts
      <4>2. ASSUME NEW e \in Entries PROVE [e EXCEPT !.acked = TRUE] \in Entries
        BY EntryMark
      <4>3. staged \in [Records -> Entries]
        BY <4>1, <4>2 DEF RunType
      <4>4. space' = [space EXCEPT !.attempt = a]
        BY <3>1
      <4> HIDE DEF staged
      <4>5. a \in Attempts
        BY <4>1, <4>3 DEF Attempts
      <4> HIDE DEF a
      <4> QED BY <1>0, <4>4, <4>5 DEF Spaces
    <3> QED BY <1>0, <1>17, <2>2, <3>2, <3>3, <1>g, <1>l DEF StagePush, RunType
  <2> QED BY <2>1, <2>2
<1>18. ASSUME CommitStaged(d) PROVE Goal
  <2>1. entries' \in [Devices -> [Records -> Entries]]
    <3> DEFINE f == [r \in Records |-> [entries[d][r] EXCEPT !.acked = @ \/ r \in hand[d]]]
    <3>1. ASSUME NEW r \in Records PROVE f[r] \in Entries
      <4> DEFINE e == entries[d][r]
                 b == e.acked \/ r \in hand[d]
      <4>1. e \in Entries
        BY DEF RunType
      <4>2. e.acked \in BOOLEAN
        <5>1. CASE e = NoEntry
          BY <5>1 DEF NoEntry
        <5>2. CASE e # NoEntry
          BY <4>1, <5>2 DEF Entries
        <5> QED BY <5>1, <5>2
      <4>3. b \in BOOLEAN /\ (e = NoEntry => b)
        BY <4>2 DEF NoEntry
      <4>4. f[r] = [e EXCEPT !.acked = b]
        OBVIOUS
      <4> HIDE DEF e, b, f
      <4> QED BY <4>1, <4>3, <4>4, EntryMark
    <3>2. entries' = [entries EXCEPT ![d] = f] /\ f = [r \in Records |-> f[r]]
      BY <1>18 DEF CommitStaged
    <3> HIDE DEF f
    <3> QED BY <3>1, <3>2 DEF RunType
  <2>2. hand' \in [Devices -> SUBSET Records]
    BY <1>18 DEF CommitStaged, RunType
  <2> QED BY <1>0, <1>18, <1>g, <1>l, <2>1, <2>2 DEF CommitStaged, RunType
<1>19. ASSUME Progress(d) PROVE Goal
  <2>1. seen' \in [Devices -> Statuses]
    BY <1>0, <1>19, Put DEF Progress, RunType
  <2>2. CASE ~IsCurrent(d)
    BY <1>0, <1>19, <2>1, <2>2, EndRunType DEF Progress, RunType
  <2>3. CASE IsCurrent(d)
    BY <1>0, <1>19, <2>1, <2>3, <1>g, <1>l DEF Progress, RunType
  <2> QED BY <2>2, <2>3
<1>20. ASSUME CompleteAttempt(d) PROVE Goal
  <2> DEFINE op == [id |-> Mine(d), action |-> "complete", gen |-> scope[d].gen,
                    expect |-> Mine(d), listed |-> {}]
  <2>1. scope[d].bound /\ scope[d].local # 0
    BY <1>20 DEF CompleteAttempt, PhaseOK, PlaceOK
  <2>2. Mine(d) \in Ids
    BY <1>f, <2>1 DEF Mine, Ids
  <2>3. op \in Ops
    BY <1>f, <2>2 DEF Ops, Actions
  <2> HIDE DEF op
  <2>4. Send(d, op, "verdict")
    BY <1>20 DEF CompleteAttempt, op
  <2>6. /\ scope' \in [Devices -> Scopes] /\ mail' \subseteq Ops
        /\ then' \in [Devices -> Lives \cup {"none"}] /\ life' \in [Devices -> Lives]
    BY <1>0, <1>l, <2>3, <2>4, SendType
  <2> QED BY <1>0, <1>20, <2>6 DEF CompleteAttempt, RunType
<1>21. ASSUME Verdict(d) PROVE Goal
  <2>1. CASE seen[d].backup # "ready"
    BY <1>0, <1>21, <2>1, EndRunType DEF Verdict, RunType
  <2>2. CASE seen[d].backup = "ready"
    BY <1>0, <1>21, <2>2, <1>g, <1>l DEF Verdict, RunType
  <2> QED BY <2>1, <2>2
<1>22. ASSUME FullPage(d) PROVE Goal
  <2>1. stage' \in [Devices -> Stages]
    <3>1. stage[d] \in Stages /\ stage[d].cursor \in Nat /\ Owed(d) \subseteq Nat
          /\ stage[d].revs \subseteq Nat /\ Len(log) \in Nat
      BY <1>0 DEF RunType, Stages, Owed
    <3>2. CASE stage' = stage \/ stage' = [stage EXCEPT ![d] = NoStage]
      BY <3>2, Blanks, Put DEF RunType
    <3>3. ASSUME NEW next \in IF Owed(d) = {} THEN {stage[d].cursor} ELSE Owed(d),
             stage' = [stage EXCEPT ![d] =
               [head |-> Len(log), cursor |-> next,
                complete |-> ~\E k \in Owed(d) : k > next,
                revs |-> stage[d].revs \cup {k \in Owed(d) : k <= next}]]
          PROVE stage' \in [Devices -> Stages]
      <4> DEFINE complete == ~\E k \in Owed(d) : k > next
                 revs == stage[d].revs \cup {k \in Owed(d) : k <= next}
                 x == [head |-> Len(log), cursor |-> next, complete |-> complete, revs |-> revs]
      <4>1. next \in Nat /\ complete \in BOOLEAN /\ revs \subseteq Nat
        BY <3>1
      <4> HIDE DEF complete, revs
      <4>2. x \in Stages
        BY <3>1, <4>1 DEF Stages
      <4>3. stage' = [stage EXCEPT ![d] = x]
        BY <3>3 DEF complete, revs
      <4> HIDE DEF x
      <4> QED BY <4>2, <4>3, Put DEF RunType
    <3> QED BY <1>22, <3>2, <3>3 DEF FullPage, Discard
  <2>2. CASE EndRun(d)
    BY <1>0, <1>22, <2>1, <2>2, EndRunType DEF FullPage, RunType
  <2>3. CASE UNCHANGED <<life, then, hand, intent, pc, page, batch>>
    BY <1>0, <1>22, <2>1, <2>3 DEF FullPage, RunType
  <2> HIDE DEF Goal
  <2> QED BY <1>22, <2>2, <2>3 DEF FullPage, Discard
<1>23. ASSUME ConfirmPull(d) PROVE Goal
  <2>1. stage' \in [Devices -> Stages] /\ seen' \in [Devices -> Statuses]
    BY <1>0, <1>23, Blanks, Put DEF ConfirmPull, Discard, RunType
  <2>2. CASE EndRun(d)
    BY <1>0, <1>23, <2>1, <2>2, EndRunType DEF ConfirmPull, RunType
  <2>3. CASE UNCHANGED <<then, hand, intent, pc, page, batch>> /\ (life' = life \/ Go(d, "publish"))
    BY <1>0, <1>23, <2>1, <2>3, <1>g, <1>l DEF ConfirmPull, RunType
  <2> HIDE DEF Goal
  <2> QED BY <1>23, <2>2, <2>3 DEF ConfirmPull, Discard
<1>24. ASSUME PublishFullPull(d) PROVE Goal
  <2>1. CASE space.gen # scope[d].gen
    BY <1>0, <1>24, <2>1, EndRunType DEF PublishFullPull, RunType
  <2>2. CASE space.gen = scope[d].gen
    <3>1. cursor' = [cursor EXCEPT ![d] = stage[d].head] /\ stage[d].head \in Nat
      BY <1>24, <2>2 DEF PublishFullPull, RunType, Stages
    <3>2. cursor' \in [Devices -> Nat] /\ stage' \in [Devices -> Stages]
      BY <1>24, <2>2, <3>1, Blanks, Put DEF PublishFullPull, RunType
    <3>3. [scope[d] EXCEPT !.boot = TRUE] \in Scopes
      BY <1>f DEF Scopes
    <3>4. scope' = [scope EXCEPT ![d] = [scope[d] EXCEPT !.boot = TRUE]]
      BY <1>24, <2>2 DEF PublishFullPull
    <3>5. scope' \in [Devices -> Scopes]
      BY <3>3, <3>4, Put DEF RunType
    <3> QED BY <1>0, <1>24, <2>2, <3>2, <3>5, <1>g, <1>l DEF PublishFullPull, RunType
  <2> QED BY <2>1, <2>2
<1> HIDE DEF Goal
<1>q. Goal
  BY <1>1, <1>2, <1>3, <1>4, <1>5, <1>6, <1>7, <1>8, <1>9, <1>10, <1>11, <1>12, <1>13,
     <1>14, <1>15, <1>16, <1>17, <1>18, <1>19, <1>20, <1>21, <1>22, <1>23, <1>24
  DEF Prepare
<1> QED BY <1>q DEF Goal

(* The worker's steps.                                                     *)
LEMMA SynchroniseType ==
  ASSUME TypeOK, RunType, slot' \in [Devices -> [Records -> Outbox!Slot]], WireInv, VerdictInv,
         MirrorInv, NEW d \in Devices, Synchronise(d)
  PROVE  RunType' /\ mail' \subseteq Ops /\ space' \in Spaces /\ wire' \subseteq Outbox!Mutation
<1>0. /\ space \in Spaces /\ mail \subseteq Ops /\ wire \subseteq Outbox!Mutation
      /\ head \in [Records -> Nat]
  BY DEF TypeOK, ServiceType
<1>p. \A x \in Outbox!Phases : [pc EXCEPT ![d] = x] \in [Devices -> Outbox!Phases]
  BY DEF RunType
<1>l. /\ "pull" \in Outbox!Phases /\ "page" \in Outbox!Phases /\ "bind" \in Outbox!Phases
      /\ "push" \in Outbox!Phases /\ "sent" \in Outbox!Phases /\ "idle" \in Outbox!Phases
  BY DEF Outbox!Phases
<1> DEFINE Goal == RunType' /\ mail' \subseteq Ops /\ space' \in Spaces
                     /\ wire' \subseteq Outbox!Mutation
<1> USE DEF Steady, cloud, database, UnchangedService, Outbox!database, Outbox!server
<1>1. ASSUME StartRun(d) PROVE Goal
  BY <1>0, <1>1, <1>p, <1>l DEF StartRun, Outbox!StartRun, RunType
<1>2. ASSUME StartUnready(d) PROVE Goal
  BY <1>0, <1>2, <1>p, <1>l DEF StartUnready, RunType
<1>3. ASSUME PullPage(d) PROVE Goal
  <2>1. PICK next \in IF Outbox!Owed(d) = {} THEN {cursor[d]} ELSE Outbox!Owed(d) :
       page' = [page EXCEPT ![d] =
                  [revs |-> {k \in Outbox!Owed(d) : k <= next},
                   next |-> next,
                   more |-> \E k \in Outbox!Owed(d) : k > next]]
    BY <1>3 DEF PullPage, Outbox!PullPage
  <2> DEFINE revs == {k \in Outbox!Owed(d) : k <= next}
             more == \E k \in Outbox!Owed(d) : k > next
             x == [revs |-> revs, next |-> next, more |-> more]
  <2>2. revs \subseteq Nat /\ next \in Nat /\ more \in BOOLEAN
    <3>1. Outbox!Owed(d) \subseteq Nat /\ cursor[d] \in Nat
      BY <1>0 DEF Outbox!Owed, RunType
    <3> QED BY <3>1
  <2>3. page' = [page EXCEPT ![d] = x]
    BY <2>1
  <2> HIDE DEF revs, more
  <2>4. x \in Pages
    BY <2>2 DEF Pages
  <2> HIDE DEF x
  <2>5. page' \in [Devices -> Pages]
    BY <2>3, <2>4, Put DEF RunType
  <2> QED
    BY <1>0, <1>3, <1>p, <1>l, <2>5 DEF PullPage, Outbox!PullPage, RunType
<1>4. ASSUME CommitPullPage(d) PROVE Goal
  <2>1. cursor' = [cursor EXCEPT ![d] = page[d].next] /\ page[d].next \in Nat
    BY <1>4 DEF CommitPullPage, Outbox!CommitPullPage, Outbox!PageCursor, RunType, Pages
  <2>2. cursor' \in [Devices -> Nat]
    BY <2>1, Put DEF RunType
  <2>3. page' \in [Devices -> Pages]
    <3>1. page' = [page EXCEPT ![d] = Outbox!NoPage]
      BY <1>4 DEF CommitPullPage, Outbox!CommitPullPage
    <3> QED BY <3>1, Blanks, Put DEF RunType
  <2>4. pc' \in [Devices -> Outbox!Phases]
    BY <1>4, <1>p, <1>l DEF CommitPullPage, Outbox!CommitPullPage
  <2> QED
    BY <1>0, <1>4, <2>2, <2>3, <2>4 DEF CommitPullPage, Outbox!CommitPullPage, RunType
<1>5. ASSUME JoinRebuilt(d) PROVE Goal
  BY <1>0, <1>5, <1>p, <1>l DEF JoinRebuilt, RunType
<1>6. ASSUME CompleteBootstrap(d) PROVE Goal
  BY <1>0, <1>6, <1>p, <1>l DEF CompleteBootstrap, Outbox!CompleteBootstrap, RunType
<1>7. ASSUME PreparePush(d) PROVE Goal
  <2>1. PICK sent \in SUBSET Outbox!Selected(d) :
       /\ batch' = [batch EXCEPT ![d] =
            [r \in Records |-> IF r \in sent THEN Outbox!Outgoing(slot[d][r])
                               ELSE Outbox!NoEnvelope]]
       /\ wire' = wire \cup
            {[id |-> <<d, r, Outbox!Outgoing(slot[d][r]).n>>,
              val |-> Outbox!Outgoing(slot[d][r]).val,
              at |-> Outbox!Outgoing(slot[d][r]).at] : r \in sent}
    BY <1>7 DEF PreparePush, Outbox!PreparePush
  <2>2. ASSUME NEW r \in sent
        PROVE  Outbox!Outgoing(slot[d][r]) \in Outbox!Envelope /\ r \in Records
    <3>1. r \in Records /\ Sealed(slot[d][r]) /\ WellFormed(slot[d][r])
      BY DEF Outbox!Selected, Outbox!Unresolved, Outbox!Dirty, Sealed, TypeOK, SlotsGood
    <3> QED BY <3>1, SendRow
  <2>3. batch' \in [Devices -> [Records -> Outbox!Envelope \cup {Outbox!NoEnvelope}]]
    <3> DEFINE f == [r \in Records |-> IF r \in sent THEN Outbox!Outgoing(slot[d][r])
                               ELSE Outbox!NoEnvelope]
    <3>1. f \in [Records -> Outbox!Envelope \cup {Outbox!NoEnvelope}]
      BY <2>2
    <3> HIDE DEF f
    <3>2. batch' = [batch EXCEPT ![d] = f]
      BY <2>1 DEF f
    <3> QED BY <3>1, <3>2, Put DEF RunType
  <2>4. wire' \subseteq Outbox!Mutation
    BY <1>0, <2>1, <2>2 DEF Outbox!Mutation, Outbox!Envelope
  <2> QED
    BY <1>0, <1>7, <1>p, <1>l, <2>3, <2>4 DEF PreparePush, Outbox!PreparePush, RunType
<1>8. ASSUME CommitPushPrefix(d) PROVE Goal
  <2>1. batch' \in [Devices -> [Records -> Outbox!Envelope \cup {Outbox!NoEnvelope}]]
    <3>1. batch' = [batch EXCEPT ![d] = Outbox!NoBatch]
      BY <1>8 DEF CommitPushPrefix, Outbox!CommitPushPrefix
    <3> QED BY <3>1, Blanks, Put DEF RunType
  <2> QED
    BY <1>0, <1>8, <1>p, <1>l, <2>1 DEF CommitPushPrefix, Outbox!CommitPushPrefix, RunType
<1>9. ASSUME FinishRun(d) PROVE Goal
  BY <1>0, <1>9, <1>p, <1>l, Blanks DEF FinishRun, Outbox!FinishRun, Go, RunType
<1>10. ASSUME Refused(d) PROVE Goal
  BY <1>0, <1>10, EndRunType DEF Refused, RunType
<1> HIDE DEF Goal
<1>q. Goal
  BY <1>1, <1>2, <1>3, <1>4, <1>5, <1>6, <1>7, <1>8, <1>9, <1>10 DEF Synchronise
<1> QED BY <1>q DEF Goal

(* Nothing is sent before the steady state.                                *)
LEMMA PrepareWire ==
  ASSUME TypeOK, NEW d \in Devices, Prepare(d)
  PROVE  wire' = wire
<1> USE DEF outbox, UnchangedService
<1>1. CASE Adopt(d) \/ BeginRebuild(d) \/ Settle(d) \/ PublishFullPull(d)
  BY <1>1 DEF Adopt, BeginRebuild, Settle, PublishFullPull
<1>2. CASE ReadStatus(d) \/ Activate(d) \/ Quarantine(d) \/ Without(d) \/ Refuse(d)
           \/ Resume(d) \/ CancelRebuild(d) \/ OpenAttempt(d)
  BY <1>2 DEF ReadStatus, Activate, Quarantine, Without, Refuse, Resume, CancelRebuild,
     OpenAttempt
<1>3. CASE AnswerControl(d) \/ RejectControl(d) \/ Verify(d) \/ Reread(d) \/ Upload(d)
           \/ StagePush(d) \/ CommitStaged(d) \/ Progress(d)
  BY <1>3 DEF AnswerControl, RejectControl, Verify, Reread, Upload, StagePush,
     CommitStaged, Progress
<1>4. CASE CompleteAttempt(d) \/ Verdict(d) \/ FullPage(d) \/ ConfirmPull(d)
  BY <1>4 DEF CompleteAttempt, Verdict, FullPage, ConfirmPull
<1> QED BY <1>1, <1>2, <1>3, <1>4 DEF Prepare

(* Every step accounts for the content it may settle.                      *)
Counted(d) ==
  \/ own' = own /\ slot' = slot
  \/ Accounts
  \/ \E r \in Records, v \in Values : Edit(d, r, v)

(* So does every step of a device account for what it settles.             *)
LEMMA DeviceCounted ==
  ASSUME NEW d \in Devices, DeviceStep(d)
  PROVE  Counted(d)
<1> USE DEF Counted, history, outbox
<1>1. ASSUME Synchronise(d) PROVE Counted(d)
  BY <1>1 DEF Synchronise, StartRun, StartUnready, PullPage, CommitPullPage, JoinRebuilt,
     CompleteBootstrap, PreparePush, CommitPushPrefix, FinishRun, Refused, Steady
<1>2. ASSUME Prepare(d) PROVE Counted(d)
  <2>1. CASE Adopt(d) \/ BeginRebuild(d) \/ Settle(d) \/ PublishFullPull(d)
    BY <2>1 DEF Adopt, BeginRebuild, Settle, PublishFullPull
  <2>2. CASE ReadStatus(d) \/ Activate(d) \/ Quarantine(d) \/ Without(d) \/ Refuse(d)
             \/ Resume(d) \/ CancelRebuild(d) \/ OpenAttempt(d)
    BY <2>2 DEF ReadStatus, Activate, Quarantine, Without, Refuse, Resume, CancelRebuild,
       OpenAttempt
  <2>3. CASE AnswerControl(d) \/ RejectControl(d) \/ Verify(d) \/ Reread(d) \/ Upload(d)
             \/ StagePush(d) \/ CommitStaged(d) \/ Progress(d)
    BY <2>3 DEF AnswerControl, RejectControl, Verify, Reread, Upload, StagePush,
       CommitStaged, Progress
  <2>4. CASE CompleteAttempt(d) \/ Verdict(d) \/ FullPage(d) \/ ConfirmPull(d)
    BY <2>4 DEF CompleteAttempt, Verdict, FullPage, ConfirmPull
  <2> HIDE DEF Counted
  <2> QED BY <1>2, <2>1, <2>2, <2>3, <2>4 DEF Prepare
<1>3. ASSUME NEW action, Ask(d, action) PROVE Counted(d)
  BY <1>3 DEF Ask
<1>4. ASSUME Fail(d) PROVE Counted(d)
  BY <1>4 DEF Fail
<1> QED BY <1>1, <1>2, <1>3, <1>4 DEF DeviceStep, UserNext

(* The steps of devices keep the types.                                    *)
LEMMA TypeDevice ==
  ASSUME Known, NEW d \in Devices, DeviceStep(d)
  PROVE  TypeOK'
<1>0. TypeOK /\ PhaseOK(d) /\ WireInv /\ VerdictInv /\ MirrorInv
  BY DEF Known, PhaseInv
<1>1. RunType /\ own \in [Devices -> [Records -> Values \cup {Absent}]]
  BY <1>0 DEF TypeOK, DeviceType, RunType
<1>2. slot' \in [Devices -> [Records -> Outbox!Slot]] /\ SlotsGood'
  BY SlotsNext
<1>3. Stays(d) /\ Counted(d)
  BY <1>0, ServiceStays, DeviceCounted
<1>4. /\ mail \subseteq Ops /\ space \in Spaces /\ wire \subseteq Outbox!Mutation
  BY <1>0 DEF TypeOK, ServiceType
<1> DEFINE Goal == RunType' /\ mail' \subseteq Ops /\ space' \in Spaces
                     /\ wire' \subseteq Outbox!Mutation
<1>5. Goal
  <2>1. CASE Prepare(d)
    <3>1. RunType' /\ mail' \subseteq Ops /\ space' \in Spaces
      BY <1>0, <1>1, <1>2, <2>1, PrepareType
    <3>2. wire' = wire
      BY <1>0, <1>3, <2>1, PrepareWire
    <3> QED BY <1>4, <3>1, <3>2
  <2>2. CASE Synchronise(d)
    BY <1>0, <1>1, <1>2, <2>2, SynchroniseType
  <2>3. ASSUME NEW r \in Records, NEW v \in Values, Edit(d, r, v) PROVE Goal
    BY <1>1, <1>4, <2>3 DEF Edit, UnchangedService, cloud, database, memory, RunType
  <2>4. ASSUME NEW action \in {"start", "claim", "cancel"}, Ask(d, action) PROVE Goal
    <3>1. intent' = [intent EXCEPT ![d] = [action |-> action, saw |-> seen[d]]]
      BY <2>4 DEF Ask
    <3>2. [action |-> action, saw |-> seen[d]] \in Intents
      BY <1>1 DEF Intents, RunType
    <3>3. intent' \in [Devices -> Intents]
      BY <1>1, <3>1, <3>2, Put DEF RunType
    <3> QED
      BY <1>1, <1>4, <2>4, <3>3 DEF Ask, outbox, cloud, database, RunType
  <2>5. CASE Fail(d)
    BY <1>1, <1>4, <2>5, EndRunType DEF Fail, UnchangedService, cloud, database, RunType
  <2> HIDE DEF Goal
  <2> QED BY <2>1, <2>2, <2>3, <2>4, <2>5 DEF DeviceStep, UserNext
<1>6. own' \in [Devices -> [Records -> Values \cup {Absent}]]
  <2>1. CASE Accounts
    BY <1>0, <1>2, <2>1, OwnNext
  <2>2. ASSUME NEW r \in Records, NEW v \in Values, Edit(d, r, v)
        PROVE  own' \in [Devices -> [Records -> Values \cup {Absent}]]
    <3> DEFINE x == IF Had(d, r, v) THEN Absent ELSE v
    <3>1. own' = [own EXCEPT ![d][r] = x] /\ x \in Values \cup {Absent}
      BY <2>2 DEF Edit
    <3> HIDE DEF x
    <3> QED BY <1>1, <3>1
  <2> QED BY <1>1, <1>3, <2>1, <2>2 DEF Counted
<1>7. ServiceType'
  BY <1>0, <1>3, <1>5 DEF TypeOK, ServiceType, Stays
<1>8. DeviceType'
  BY <1>2, <1>5, <1>6 DEF DeviceType, RunType
<1> QED BY <1>2, <1>7, <1>8 DEF TypeOK

(* What the service may publish is a space.                                *)
LEMMA PublishedType ==
  ASSUME TypeOK, Complete, NEW order \in Orders(space.attempt.listed)
  PROVE  /\ Published(order) \in Seq(Outbox!Published)
         /\ \A k \in DOMAIN Published(order) :
              /\ Published(order)[k].rec \in space.attempt.listed
              /\ space.attempt.staged[Published(order)[k].rec] # NoEntry
              /\ Published(order)[k].val = space.attempt.staged[Published(order)[k].rec].val
         /\ \A r \in space.attempt.listed :
              \E k \in DOMAIN Published(order) : Published(order)[k].rec = r
<1> DEFINE listed == space.attempt.listed
           n == Cardinality(listed)
           staged == space.attempt.staged
<1>1. listed \subseteq Records /\ staged \in [Records -> Entries]
  BY DEF TypeOK, ServiceType, Spaces, Attempts
<1>2. n \in Nat
  BY <1>1, GenerationAssumption, FS_Subset, FS_CardinalityType
<1>3. /\ order \in [1..n -> listed]
      /\ \A r \in listed : \E k \in 1..n : order[k] = r
  BY DEF Orders
<1>4. \A r \in listed : staged[r] # NoEntry
  BY DEF Complete
<1>5. \A r \in listed : staged[r] \in [val : Values, at : Outbox!Times, acked : BOOLEAN]
  BY <1>1, <1>4 DEF Entries
<1>6. Published(order) = [k \in 1..n |->
        [rec |-> order[k], val |-> staged[order[k]].val, at |-> staged[order[k]].at]]
  BY <1>3 DEF Published
<1> HIDE DEF listed, n, staged
<1>7. Published(order) \in [1..n -> Outbox!Published]
  BY <1>1, <1>3, <1>5, <1>6 DEF Outbox!Published
<1>8. Published(order) \in Seq(Outbox!Published)
  BY <1>2, <1>7
<1>9. \A k \in 1..n : /\ Published(order)[k].rec = order[k]
                      /\ Published(order)[k].val = staged[order[k]].val
  BY <1>6
<1>10. DOMAIN Published(order) = 1..n
  BY <1>6
<1>11. /\ \A k \in DOMAIN Published(order) :
              /\ Published(order)[k].rec \in listed
              /\ staged[Published(order)[k].rec] # NoEntry
              /\ Published(order)[k].val = staged[Published(order)[k].rec].val
       /\ \A r \in listed :
              \E k \in DOMAIN Published(order) : Published(order)[k].rec = r
  BY <1>3, <1>4, <1>9, <1>10
<1> QED BY <1>8, <1>11 DEF listed, staged

(* The service's steps keep the types.                                     *)
LEMMA TypeRemote ==
  ASSUME TypeOK, VerdictInv, Remote
  PROVE  TypeOK'
<1>0. /\ space \in Spaces /\ mail \subseteq Ops /\ wire \subseteq Outbox!Mutation
      /\ log \in Seq(Outbox!Published) /\ head \in [Records -> Nat] /\ now \in Outbox!Times
      /\ done \subseteq Ids \X {"open", "cancel", "complete"}
      /\ \A id \in DOMAIN verdict : verdict[id] \in Outbox!Result
  BY DEF TypeOK, ServiceType
<1>1. Untouched
  BY RemoteUntouched
<1>2. SlotsGood' /\ slot' \in [Devices -> [Records -> Outbox!Slot]]
  BY <1>1 DEF TypeOK, SlotsGood, DeviceType, Untouched
<1>3. own' = own \/ Accounts
  BY DEF Remote, ServeControl, Rule, Retire, ExpireReceipt
<1>4. own' \in [Devices -> [Records -> Values \cup {Absent}]]
  BY <1>2, <1>3, OwnNext DEF TypeOK, DeviceType
<1>5. DeviceType'
  BY <1>1, <1>2, <1>4 DEF TypeOK, DeviceType, Untouched, database, memory
<1>6. ASSUME NEW op \in mail, ServeControl(op) PROVE ServiceType'
  <2>0. UNCHANGED <<verdict, now, wire, mail>> /\ done' = done \cup {OpOf(op)}
    BY <1>6 DEF ServeControl
  <2>1. done' \subseteq Ids \X {"open", "cancel", "complete"}
    BY <1>0, <2>0 DEF OpOf, Ops, Actions
  <2>2. space.attempt \in Attempts /\ op \in Ops
    BY <1>0 DEF Spaces
  <2>3. ASSUME space' \in Spaces, log' \in Seq(Outbox!Published), head' \in [Records -> Nat]
        PROVE  ServiceType'
    BY <1>0, <2>0, <2>1, <2>3 DEF ServiceType
  <2>4. CASE Opens(op)
    <3> DEFINE a == [id |-> op.id, listed |-> op.listed, staged |-> NoEntries]
    <3>1. a \in Attempts
      BY <2>2, Blanks DEF Ops, Attempts
    <3> HIDE DEF a
    <3>2. space' = [space EXCEPT !.backup = "rebuilding", !.attempt = a] /\ log' = log /\ head' = head
      BY <2>4 DEF Opens, a
    <3>3. space' \in Spaces
      BY <1>0, <3>1, <3>2 DEF Spaces, Backups
    <3> QED BY <1>0, <2>3, <3>2, <3>3
  <2>5. CASE Cancels(op)
    <3>1. space' \in Spaces
      BY <1>0, <2>5, Blanks DEF Cancels, Spaces, Backups
    <3> QED BY <1>0, <2>3, <2>5, <3>1 DEF Cancels
  <2>6. CASE Completes(op)
    <3>1. space' \in Spaces
      BY <1>0, <2>6, Blanks DEF Completes, Spaces, Backups
    <3>2. log' \in Seq(Outbox!Published)
      BY <2>6, PublishedType DEF Completes
    <3>3. head' \in [Records -> 0..Len(log')]
      BY <2>6 DEF Completes, HeadsOf
    <3>4. head' \in [Records -> Nat]
      BY <3>2, <3>3
    <3> QED BY <2>3, <3>1, <3>2, <3>4
  <2> QED BY <1>6, <2>4, <2>5, <2>6, ServeCases
<1>7. ASSUME NEW m \in wire, Rule(m) PROVE ServiceType'
  <2> DEFINE r == m.id[2]
  <2>0. UNCHANGED <<space, done, mail, now, wire>>
    BY <1>7 DEF Rule, cloud, Outbox!ApplyMutation, Outbox!SupersedeMutation
  <2>1. r \in Records /\ m.val \in Values /\ m.at \in Outbox!Times
    BY <1>0 DEF Outbox!Mutation
  <2>2. Outbox!EffectiveTime(m) \in Outbox!Times
    BY <1>0, <2>1 DEF Outbox!EffectiveTime
  <2>3. Len(log) \in Nat
    BY <1>0
  <2>4. ASSUME NEW result \in Outbox!Result, Outbox!Decide(m, result)
        PROVE  \A id \in DOMAIN verdict' : verdict'[id] \in Outbox!Result
    BY <1>0, <2>4 DEF Outbox!Decide
  <2>5. CASE Outbox!ApplyMutation(m)
    <3> DEFINE result == [applied |-> TRUE, rev |-> Len(log) + 1]
    <3>1. result \in Outbox!Result /\ Outbox!Decide(m, result)
      BY <2>3, <2>5 DEF Outbox!Result, Outbox!ApplyMutation
    <3> HIDE DEF result
    <3>2. log' \in Seq(Outbox!Published) /\ head' \in [Records -> Nat]
      BY <1>0, <2>1, <2>2, <2>3, <2>5 DEF Outbox!ApplyMutation, Outbox!Published
    <3> QED BY <1>0, <2>0, <2>4, <3>1, <3>2 DEF ServiceType
  <2>6. CASE Outbox!SupersedeMutation(m)
    <3> DEFINE result == [applied |-> FALSE, rev |-> head[r]]
    <3>1. Outbox!Decide(m, result) /\ log' = log /\ head' = head /\ head[r] \in Nat
          /\ head[r] > 0
      BY <1>0, <2>1, <2>6 DEF Outbox!SupersedeMutation, Outbox!Wins
    <3>2. result \in Outbox!Result
      BY <3>1 DEF Outbox!Result
    <3> HIDE DEF result
    <3> QED BY <1>0, <2>0, <2>4, <3>1, <3>2 DEF ServiceType
  <2> QED BY <1>7, <2>5, <2>6 DEF Rule
<1>8. ASSUME Retire PROVE ServiceType'
  <2>1. space' \in Spaces
    BY <1>0, <1>8, Blanks DEF Retire, Spaces, Origins, Backups
  <2> QED BY <1>0, <1>8, <2>1 DEF Retire, ServiceType
<1>9. ASSUME ExpireReceipt PROVE ServiceType'
  BY <1>0, <1>9 DEF ExpireReceipt, outbox, ServiceType
<1>10. ServiceType'
  BY <1>6, <1>7, <1>8, <1>9 DEF Remote
<1> QED BY <1>2, <1>5, <1>10 DEF TypeOK

-----------------------------------------------------------------------------
(***************************************************************************)
(* Attempts.                                                               *)
(***************************************************************************)
(* The device keeps its attempt, or has none, or a new one.                *)
SameAttempt(d) ==
  /\ scope'[d].local = scope[d].local
  /\ \A r \in Records : /\ entries'[d][r].val = entries[d][r].val
                        /\ entries'[d][r] = NoEntry <=> entries[d][r] = NoEntry

(* What a step of a device may do to its attempt: keep it, drop it or      *)
(* begin the next, and ask for something about the one it has.             *)
AttemptMoves(d) ==
  /\ scope'[d].n >= scope[d].n
  /\ scope'[d].local <= scope'[d].n
  /\ scope'[d].local = 0 \/ scope'[d].local > scope[d].n \/ SameAttempt(d)
  /\ \/ scope'[d].control = NoOp
     \/ scope'[d].control = scope[d].control /\ SameAttempt(d)
     \/ LET op == scope'[d].control IN
        /\ op.id = <<d, scope'[d].local>>
        /\ op.action = "complete" => op.expect = op.id
        /\ op.action \in {"start", "claim"} => op.listed = {r \in Records : entries'[d][r] # NoEntry}
  /\ \A op \in mail' : op \in mail \/ (op = scope'[d].control /\ op # NoOp)

(* What a control request about an attempt is known by is not nothing.     *)
LEMMA AttemptKept ==
  ASSUME AttemptInv, NEW d \in Devices, scope[d].n \in Nat,
         scope'[d] = scope[d] \/ (/\ scope'[d].n = scope[d].n
                                  /\ scope'[d].local = scope[d].local
                                  /\ scope'[d].control \in {scope[d].control, NoOp}),
         entries'[d] = entries[d], mail' = mail
  PROVE  AttemptMoves(d)
BY DEF AttemptMoves, SameAttempt, AttemptInv

(* An attempt that is dropped.                                             *)
LEMMA AttemptDropped ==
  ASSUME AttemptInv, NEW d \in Devices, scope[d].n \in Nat,
         scope'[d].n = scope[d].n, scope'[d].local = 0, scope'[d].control = NoOp,
         mail' = mail
  PROVE  AttemptMoves(d)
BY DEF AttemptMoves

(* A request about the attempt the device has.                             *)
LEMMA AttemptAsks ==
  ASSUME TypeOK, AttemptInv, NEW d \in Devices, NEW op, NEW next, Send(d, op, next),
         op.id = <<d, scope[d].local>>, op # NoOp,
         op.action = "complete" => op.expect = op.id,
         op.action \in {"start", "claim"} => op.listed = Listed(d),
         entries' = entries
  PROVE  AttemptMoves(d)
<1>1. scope \in [Devices -> Scopes] /\ scope[d].n \in Nat
  BY DeviceFields DEF TypeOK, DeviceType
<1>2. scope' = [scope EXCEPT ![d] = [scope[d] EXCEPT !.control = op]] /\ mail' = mail \cup {op}
  BY DEF Send
<1>3. scope'[d] = [scope[d] EXCEPT !.control = op]
  BY <1>1, <1>2
<1>4. /\ scope'[d].n = scope[d].n /\ scope'[d].local = scope[d].local
      /\ scope'[d].control = op
  BY <1>1, <1>3 DEF Scopes
<1> QED
  BY <1>1, <1>2, <1>4 DEF AttemptMoves, SameAttempt, AttemptInv, Listed

(* The steps before the steady state do no more than this to the attempt.  *)
LEMMA AttemptPrepare ==
  ASSUME TypeOK, PhaseInv, AttemptInv, NEW d \in Devices, Prepare(d)
  PROVE  AttemptMoves(d)
<1>0. /\ scope[d] \in Scopes /\ scope[d].n \in Nat /\ scope[d].local \in Nat
      /\ PlaceOK(d) /\ scope[d].local <= scope[d].n
  BY DeviceFields DEF PhaseInv, PhaseOK, AttemptInv
<1>t. /\ scope \in [Devices -> Scopes] /\ entries \in [Devices -> [Records -> Entries]]
      /\ life \in [Devices -> Lives]
  BY DEF TypeOK, DeviceType
<1> DEFINE Goal == AttemptMoves(d)
<1>k. ASSUME scope' = scope, entries' = entries, mail' = mail PROVE Goal
  BY <1>0, <1>k, AttemptKept
<1>1. CASE ReadStatus(d) \/ Without(d) \/ Refuse(d) \/ Resume(d) \/ AnswerControl(d) \/ Verify(d)
           \/ Reread(d) \/ Upload(d)
  <2>1. scope' = scope /\ entries' = entries /\ mail' = mail
    BY <1>1 DEF ReadStatus, Without, Refuse, Resume, AnswerControl, Verify, Reread, Upload,
       cloud, database
  <2> QED BY <1>k, <2>1
<1>2. CASE StagePush(d) \/ Progress(d) \/ Verdict(d) \/ FullPage(d) \/ ConfirmPull(d)
  <2>1. scope' = scope /\ entries' = entries /\ mail' = mail
    BY <1>2 DEF StagePush, Progress, Verdict, FullPage, ConfirmPull, cloud, database
  <2> QED BY <1>k, <2>1
<1>3. ASSUME Adopt(d) PROVE Goal
  <2>0. mail' = mail
    BY <1>3 DEF Adopt, cloud
  <2>1. CASE Retires(d)
    <3>1. scope'[d] = [scope[d] EXCEPT !.gen = seen[d].gen, !.backup = seen[d].backup,
                                       !.boot = FALSE, !.local = 0, !.bound = FALSE,
                                       !.control = NoOp]
      BY <1>t, <2>1 DEF Adopt, Retires
    <3>2. scope'[d].n = scope[d].n /\ scope'[d].local = 0 /\ scope'[d].control = NoOp
      BY <1>0, <3>1 DEF Scopes
    <3> QED BY <1>0, <2>0, <3>2, AttemptDropped
  <2>2. CASE ~Retires(d)
    <3>1. entries' = entries
      BY <1>3, <2>2 DEF Adopt, Retires
    <3>2. \/ scope' = [scope EXCEPT ![d].backup = seen[d].backup]
          \/ scope' = [scope EXCEPT ![d].gen = seen[d].gen, ![d].backup = seen[d].backup]
      BY <1>3, <2>2 DEF Adopt, Retires
    <3>3. \/ scope'[d] = [scope[d] EXCEPT !.backup = seen[d].backup]
          \/ scope'[d] = [scope[d] EXCEPT !.gen = seen[d].gen, !.backup = seen[d].backup]
      BY <1>t, <3>2
    <3>4. /\ scope'[d].n = scope[d].n /\ scope'[d].local = scope[d].local
          /\ scope'[d].control = scope[d].control
      BY <1>0, <3>3 DEF Scopes
    <3> QED BY <1>0, <2>0, <3>1, <3>4, AttemptKept
  <2> QED BY <2>1, <2>2
<1>4. ASSUME Activate(d) PROVE Goal
  <2>1. scope' = scope /\ entries' = entries
    BY <1>4 DEF Activate, database
  <2>2. mail' = mail \/ (mail' = mail \cup {scope[d].control} /\ scope[d].control # NoOp)
    BY <1>4 DEF Activate
  <2> QED BY <1>0, <2>1, <2>2 DEF AttemptMoves, SameAttempt
<1>5. ASSUME Quarantine(d) PROVE Goal
  <2>0. mail' = mail /\ life[d] = "attempt"
    BY <1>5 DEF Quarantine, cloud
  <2>1. CASE Abandoned(d)
    <3>1. scope'[d] = [[scope[d] EXCEPT !.backup = "rebuildRequired", !.local = 0,
                                        !.bound = FALSE] EXCEPT !.backup = seen[d].backup]
      BY <1>5, <2>1, <1>t DEF Quarantine, Cancelled
    <3>2. /\ scope'[d].n = scope[d].n /\ scope'[d].local = 0
          /\ scope'[d].control = scope[d].control
      BY <1>0, <3>1 DEF Scopes
    <3>3. scope[d].control = NoOp
      BY <1>0, <2>0 DEF PlaceOK, Free
    <3> QED BY <1>0, <2>0, <3>2, <3>3, AttemptDropped
  <2>2. CASE ~Abandoned(d)
    BY <1>5, <1>k, <2>0, <2>2 DEF Quarantine
  <2> QED BY <2>1, <2>2
<1>6. ASSUME CancelRebuild(d) PROVE Goal
  <2> DEFINE op == [id |-> Mine(d), action |-> "cancel", gen |-> scope[d].gen,
                    expect |-> Mine(d), listed |-> {}]
  <2>1. Send(d, op, "upload") /\ entries' = entries /\ scope[d].bound
    BY <1>6 DEF CancelRebuild, Applies, Owned
  <2>2. /\ op.id = <<d, scope[d].local>> /\ op # NoOp /\ op.action = "cancel"
    BY <2>1 DEF Mine, NoOp
  <2> HIDE DEF op
  <2> QED BY <2>1, <2>2, AttemptAsks
<1>7. ASSUME BeginRebuild(d) PROVE Goal
  <2>1. scope'[d] = [scope[d] EXCEPT !.backup = "rebuilding", !.bound = FALSE,
                                     !.local = scope[d].n + 1, !.n = scope[d].n + 1]
    BY <1>7, <1>t DEF BeginRebuild
  <2>2. /\ scope'[d].n = scope[d].n + 1 /\ scope'[d].local = scope[d].n + 1
        /\ scope'[d].control = scope[d].control
    BY <1>0, <2>1 DEF Scopes
  <2>3. scope[d].control = NoOp /\ mail' = mail
    BY <1>7 DEF BeginRebuild, cloud
  <2> QED BY <1>0, <2>2, <2>3 DEF AttemptMoves
<1>8. ASSUME OpenAttempt(d) PROVE Goal
  <2> DEFINE op == [id |-> <<d, scope[d].local>>, action |-> intent[d].action,
              gen |-> scope[d].gen, listed |-> Listed(d),
              expect |-> IF intent[d].action = "claim" THEN seen[d].attempt ELSE None]
  <2>1. Send(d, op, "upload") /\ entries' = entries /\ life[d] = "open"
    BY <1>8 DEF OpenAttempt
  <2>2. intent[d].action \in {"start", "claim"}
    BY <1>0, <2>1 DEF PlaceOK
  <2>3. /\ op.id = <<d, scope[d].local>> /\ op # NoOp /\ op.action # "complete"
        /\ op.listed = Listed(d)
    BY <2>2 DEF NoOp
  <2> HIDE DEF op
  <2> QED BY <2>1, <2>3, AttemptAsks
<1>9. ASSUME RejectControl(d) PROVE Goal
  <2>1. scope'[d] = [[scope[d] EXCEPT !.backup = "rebuildRequired", !.local = 0,
                                      !.bound = FALSE] EXCEPT !.control = NoOp]
    BY <1>9, <1>t DEF RejectControl, Rejected, Cancelled
  <2>2. scope'[d].n = scope[d].n /\ scope'[d].local = 0 /\ scope'[d].control = NoOp
    BY <1>0, <2>1 DEF Scopes
  <2>3. mail' = mail
    BY <1>9 DEF RejectControl, cloud
  <2> QED BY <1>0, <2>2, <2>3, AttemptDropped
<1>10. ASSUME Settle(d) PROVE Goal
  <2>0. mail' = mail
    BY <1>10 DEF Settle, cloud
  <2>1. CASE scope' = [scope EXCEPT ![d] = Rejected(scope[d])]
    <3>1. scope'[d] = [[scope[d] EXCEPT !.backup = "rebuildRequired", !.local = 0,
                                        !.bound = FALSE] EXCEPT !.control = NoOp]
      BY <2>1, <1>t DEF Rejected, Cancelled
    <3>2. scope'[d].n = scope[d].n /\ scope'[d].local = 0 /\ scope'[d].control = NoOp
      BY <1>0, <3>1 DEF Scopes
    <3> QED BY <1>0, <2>0, <3>2, AttemptDropped
  <2>2. CASE CompleteRebuild(d)
    <3>1. scope'[d] = [scope[d] EXCEPT !.backup = "ready", !.local = 0, !.bound = FALSE,
                                       !.boot = FALSE, !.control = NoOp]
      BY <2>2, <1>t DEF CompleteRebuild
    <3>2. scope'[d].n = scope[d].n /\ scope'[d].local = 0 /\ scope'[d].control = NoOp
      BY <1>0, <3>1 DEF Scopes
    <3> QED BY <1>0, <2>0, <3>2, AttemptDropped
  <2>3. CASE /\ scope' = [scope EXCEPT ![d] = [scope[d] EXCEPT !.bound = TRUE, !.control = NoOp]]
             /\ entries' = entries
    <3>1. scope'[d] = [scope[d] EXCEPT !.bound = TRUE, !.control = NoOp]
      BY <2>3, <1>t
    <3>2. /\ scope'[d].n = scope[d].n /\ scope'[d].local = scope[d].local
          /\ scope'[d].control = NoOp
      BY <1>0, <3>1 DEF Scopes
    <3> QED BY <1>0, <2>0, <2>3, <3>2, AttemptKept
  <2>4. CASE scope' = scope /\ entries' = entries
    BY <1>k, <2>0, <2>4
  <2> QED BY <1>10, <2>1, <2>2, <2>3, <2>4 DEF Settle
<1>11. ASSUME CommitStaged(d) PROVE Goal
  <2>1. scope' = scope /\ mail' = mail
    BY <1>11 DEF CommitStaged, cloud
  <2>2. ASSUME NEW r \in Records
        PROVE  /\ entries'[d][r].val = entries[d][r].val
               /\ entries'[d][r] = NoEntry <=> entries[d][r] = NoEntry
    <3> DEFINE e == entries[d][r]
               b == e.acked \/ r \in hand[d]
    <3>1. entries'[d][r] = [e EXCEPT !.acked = b]
      BY <1>11, <1>t DEF CommitStaged
    <3>2. e \in Entries /\ b \in BOOLEAN /\ (e = NoEntry => b)
      BY <1>t DEF Entries, NoEntry
    <3> HIDE DEF e, b
    <3>3. /\ [e EXCEPT !.acked = b] = NoEntry <=> e = NoEntry
          /\ [e EXCEPT !.acked = b].val = e.val
      BY <3>2, EntryMark
    <3> QED BY <3>1, <3>3 DEF e
  <2> QED BY <1>0, <2>1, <2>2 DEF AttemptMoves, SameAttempt
<1>12. ASSUME CompleteAttempt(d) PROVE Goal
  <2> DEFINE op == [id |-> Mine(d), action |-> "complete", gen |-> scope[d].gen,
                    expect |-> Mine(d), listed |-> {}]
  <2>1. Send(d, op, "verdict") /\ entries' = entries /\ life[d] = "staging"
    BY <1>12 DEF CompleteAttempt
  <2>2. scope[d].bound
    BY <1>0, <2>1 DEF PlaceOK
  <2>3. /\ op.id = <<d, scope[d].local>> /\ op # NoOp /\ op.action = "complete"
        /\ op.expect = op.id
    BY <2>2 DEF Mine, NoOp
  <2> HIDE DEF op
  <2> QED BY <2>1, <2>3, AttemptAsks
<1>13. ASSUME PublishFullPull(d) PROVE Goal
  <2>1. entries' = entries /\ mail' = mail
    BY <1>13 DEF PublishFullPull, cloud
  <2>2. scope' = scope \/ scope' = [scope EXCEPT ![d] = [scope[d] EXCEPT !.boot = TRUE]]
    BY <1>13 DEF PublishFullPull
  <2>3. scope'[d] = scope[d] \/ scope'[d] = [scope[d] EXCEPT !.boot = TRUE]
    BY <1>t, <2>2
  <2>4. scope'[d].n = scope[d].n /\ scope'[d].local = scope[d].local
         /\ scope'[d].control = scope[d].control
    BY <1>0, <2>3 DEF Scopes
  <2> QED BY <1>0, <2>1, <2>4, AttemptKept
<1> QED
  BY <1>1, <1>2, <1>3, <1>4, <1>5, <1>6, <1>7, <1>8, <1>9, <1>10, <1>11, <1>12, <1>13
  DEF Prepare

(* No step of a device does.                                               *)
LEMMA AttemptMoved ==
  ASSUME TypeOK, PhaseInv, AttemptInv, NEW d \in Devices, DeviceStep(d)
  PROVE  AttemptMoves(d)
<1>0. scope[d].n \in Nat
  BY DeviceFields
<1>1. CASE Synchronise(d)
  <2>1. scope' = scope /\ entries' = entries /\ mail' = mail
    BY <1>1 DEF Synchronise, StartRun, StartUnready, PullPage, CommitPullPage, JoinRebuilt,
       CompleteBootstrap, PreparePush, CommitPushPrefix, FinishRun, Refused, Steady, cloud, database
  <2> QED BY <1>0, <2>1, AttemptKept
<1>2. CASE UserNext(d) \/ Fail(d)
  <2>1. scope' = scope /\ entries' = entries /\ mail' = mail
    BY <1>2 DEF UserNext, Edit, Ask, Fail, cloud, database
  <2> QED BY <1>0, <2>1, AttemptKept
<1> QED BY <1>1, <1>2, AttemptPrepare DEF DeviceStep

(* An attempt is not nothing.                                              *)
LEMMA IdFacts ==
  ASSUME NEW id \in Ids \cup {None}
  PROVE  /\ \A d, n : id = <<d, n>> => id \in Ids /\ id[1] = d /\ id[2] = n /\ n > 0
         /\ id # None => id \in Ids /\ id[1] \in Devices /\ id[2] \in Nat \ {0} /\ id = <<id[1], id[2]>>
BY DEF Ids, None

(* The invariant of attempts, of one device.                               *)
AttemptOK(d) ==
  /\ scope[d].local <= scope[d].n
  /\ \A op \in mail : AboutAttempt(d, op)
  /\ scope[d].control # NoOp => AboutAttempt(d, scope[d].control)
  /\ \A receipt \in done : receipt[1][1] = d => receipt[1][2] <= scope[d].n
  /\ StagedOK(d)

(* What was said about a device's attempts stays said.                     *)
LEMMA AboutKept ==
  ASSUME TypeOK, NEW d \in Devices, AttemptMoves(d), scope'[d].local \in Nat, scope'[d].n \in Nat,
         NEW op \in Ops, AboutAttempt(d, op)
  PROVE  AboutAttempt(d, op)'
<1>1. op.id \in Ids /\ scope[d].n \in Nat /\ scope[d].local \in Nat
  BY DeviceFields DEF Ops
<1>2. op.id[2] \in Nat \ {0}
  BY <1>1 DEF Ids
<1> QED
  BY <1>1, <1>2 DEF AttemptMoves, SameAttempt, AboutAttempt, Listed

(* What is staged stays what was frozen.                                   *)
LEMMA StagedKept ==
  ASSUME TypeOK, AttemptInv, PhaseInv, NEW d \in Devices, DeviceStep(d), AttemptMoves(d),
         scope'[d].local \in Nat, scope'[d].n \in Nat
  PROVE  StagedOK(d)'
<1> DEFINE t == space.attempt
           u == space'.attempt
<1>0. /\ t \in Attempts /\ t.id \in Ids \cup {None} /\ space \in Spaces
      /\ scope[d].n \in Nat /\ scope[d].local \in Nat
      /\ StagedOK(d) /\ entries \in [Devices -> [Records -> Entries]]
  BY DeviceFields DEF AttemptInv, TypeOK, DeviceType
<1>1. u.id = t.id /\ u.listed = t.listed
  BY ServiceStays DEF Stays, SameSpace
<1>2. t.id # None /\ t.id[1] = d => t.id[2] <= scope'[d].n /\ t.id[2] <= scope[d].n
                                      /\ t.id[2] \in Nat \ {0}
  BY <1>0, IdFacts DEF StagedOK, AttemptMoves
<1>3. ASSUME t.id = <<d, scope'[d].local>>
      PROVE  SameAttempt(d) /\ t.id = <<d, scope[d].local>>
  <2>1. t.id # None /\ t.id[1] = d /\ t.id[2] = scope'[d].local /\ scope'[d].local > 0
    BY <1>0, <1>3, IdFacts DEF None, Ids
  <2>2. ~(scope'[d].local > scope[d].n)
    BY <1>0, <1>2, <2>1
  <2>3. SameAttempt(d)
    BY <2>1, <2>2 DEF AttemptMoves
  <2> QED BY <1>3, <2>3 DEF SameAttempt
<1>4. ASSUME t.id = <<d, scope'[d].local>>, NEW r \in Records, u.staged[r] # NoEntry
      PROVE  u.staged[r].val = entries[d][r].val
  <2>1. t.staged[r] # NoEntry => t.staged[r].val = entries[d][r].val
    BY <1>0, <1>3, <1>4 DEF StagedOK
  <2>2. CASE space' = space
    BY <1>4, <2>1, <2>2
  <2>3. CASE space' # space
    <3>1. PICK part \in SUBSET Unacked(d) : space' = [space EXCEPT !.attempt.staged =
                    [q \in Records |-> IF q \in part
                                       THEN [entries[d][q] EXCEPT !.acked = TRUE]
                                       ELSE @[q]]]
      BY <2>3, ServiceStays DEF StagePush, Stays
    <3> DEFINE rows == [q \in Records |-> IF q \in part
                                       THEN [entries[d][q] EXCEPT !.acked = TRUE]
                                       ELSE t.staged[q]]
    <3>2. space' = [space EXCEPT !.attempt = [t EXCEPT !.staged = rows]]
      BY <3>1
    <3>3. rows[r] = IF r \in part THEN [entries[d][r] EXCEPT !.acked = TRUE] ELSE t.staged[r]
      OBVIOUS
    <3> HIDE DEF rows
    <3>4. u.staged = rows
      BY <1>0, <3>2 DEF Spaces, Attempts
    <3>5. entries[d][r] \in Entries
      BY <1>0
    <3>6. entries[d][r] # NoEntry => [entries[d][r] EXCEPT !.acked = TRUE].val = entries[d][r].val
      BY <3>5, EntryMark
    <3>7. entries[d][r] = NoEntry => [entries[d][r] EXCEPT !.acked = TRUE].val = entries[d][r].val
      BY <3>5, EntryMark
    <3> QED BY <1>4, <2>1, <3>3, <3>4, <3>6, <3>7
  <2> QED BY <2>2, <2>3
<1>5. ASSUME t.id = <<d, scope'[d].local>>
      PROVE  t.listed = Listed(d)' /\ \A r \in Records : u.staged[r] # NoEntry => u.staged[r].val = entries'[d][r].val
  <2>1. SameAttempt(d) /\ t.listed = Listed(d)
    BY <1>0, <1>3, <1>5 DEF StagedOK
  <2>2. Listed(d)' = Listed(d)
    BY <2>1 DEF SameAttempt, Listed
  <2>3. ASSUME NEW r \in Records, u.staged[r] # NoEntry
        PROVE  u.staged[r].val = entries'[d][r].val
    BY <1>4, <1>5, <2>1, <2>3 DEF SameAttempt
  <2> QED BY <2>1, <2>2, <2>3
<1> QED
  BY <1>1, <1>2, <1>5 DEF StagedOK

(* The steps of devices keep the attempts in order.                        *)
LEMMA AttemptDevice ==
  ASSUME TypeOK, TypeOK', PhaseInv, AttemptInv, NEW d \in Devices, DeviceStep(d)
  PROVE  AttemptInv'
<1>0. /\ AttemptMoves(d) /\ Aside(d) /\ Stays(d)
      /\ mail \subseteq Ops /\ mail' \subseteq Ops
      /\ scope' \in [Devices -> Scopes] /\ scope \in [Devices -> Scopes]
      /\ space \in Spaces /\ space.attempt.id \in Ids \cup {None}
  BY AttemptMoved, OthersStill, ServiceStays, DeviceFields DEF TypeOK, DeviceType, ServiceType
<1>1. AttemptOK(d)'
  <2>0. /\ scope[d].n \in Nat /\ scope[d].local \in Nat
        /\ scope'[d].n \in Nat /\ scope'[d].local \in Nat
        /\ scope[d].control \in Ops \cup {NoOp} /\ scope'[d].control \in Ops \cup {NoOp}
    BY <1>0 DEF Scopes
  <2>1. AttemptOK(d)
    BY DEF AttemptInv, AttemptOK
  <2>2. (scope[d].control # NoOp => AboutAttempt(d, scope[d].control))'
    <3>c. ASSUME NEW op, op = scope'[d].control, op # NoOp => AboutAttempt(d, op)'
          PROVE  (scope[d].control # NoOp => AboutAttempt(d, scope[d].control))'
      BY <3>c DEF AboutAttempt, Listed
    <3>1. CASE scope'[d].control = scope[d].control /\ SameAttempt(d)
      <4> DEFINE op == scope[d].control
      <4>1. op \in Ops \cup {NoOp} /\ (op # NoOp => AboutAttempt(d, op)) /\ op = scope'[d].control
        BY <2>0, <2>1, <3>1 DEF AttemptOK
      <4> HIDE DEF op
      <4>2. ASSUME op # NoOp PROVE AboutAttempt(d, scope[d].control)'
        <5>1. PICK o \in Ops : o = scope'[d].control /\ AboutAttempt(d, o)
          BY <4>1, <4>2
        <5>2. AboutAttempt(d, o)'
          BY <1>0, <2>0, <5>1, AboutKept
        <5> QED BY <5>1, <5>2 DEF AboutAttempt, Listed
      <4> QED BY <4>1, <4>2
    <3>2. ASSUME NEW op, op = scope'[d].control,
                 op.id = <<d, scope'[d].local>>,
                 op.action = "complete" => op.expect = op.id,
                 op.action \in {"start", "claim"} =>
                   op.listed = {r \in Records : entries'[d][r] # NoEntry}
          PROVE  AboutAttempt(d, op)'
      <4>1. op.id[1] = d /\ op.id[2] = scope'[d].local /\ scope'[d].local <= scope'[d].n
        BY <1>0, <3>2 DEF AttemptMoves
      <4> QED BY <3>2, <4>1 DEF AboutAttempt, Listed
    <3>3. CASE LET op == scope'[d].control IN
               /\ op.id = <<d, scope'[d].local>>
               /\ op.action = "complete" => op.expect = op.id
               /\ op.action \in {"start", "claim"} =>
                    op.listed = {r \in Records : entries'[d][r] # NoEntry}
      <4>1. PICK o : o = scope'[d].control
        OBVIOUS
      <4> QED BY <3>c, <3>2, <3>3, <4>1
    <3> QED BY <1>0, <3>1, <3>3 DEF AttemptMoves
  <2>3. ASSUME NEW op \in mail' PROVE AboutAttempt(d, op)'
    <3>1. CASE op \in mail
      BY <1>0, <2>0, <2>1, <3>1, AboutKept DEF AttemptOK
    <3>2. CASE op = scope'[d].control /\ op # NoOp
      BY <2>2, <3>2 DEF AboutAttempt, Listed
    <3> QED BY <1>0, <3>1, <3>2 DEF AttemptMoves
  <2>4. \A receipt \in done' : receipt[1][1] = d => receipt[1][2] <= scope'[d].n
    <3>1. done' = done /\ done \subseteq Ids \X {"open", "cancel", "complete"}
      BY <1>0 DEF Stays, TypeOK, ServiceType
    <3>2. \A receipt \in done : receipt[1][2] \in Nat
      BY <3>1 DEF Ids
    <3> QED BY <1>0, <2>0, <2>1, <3>1, <3>2 DEF AttemptOK, AttemptMoves
  <2>5. StagedOK(d)'
    BY <1>0, <2>0, StagedKept
  <2> QED BY <1>0, <2>2, <2>3, <2>4, <2>5 DEF AttemptOK, AttemptMoves
<1>2. ASSUME NEW e \in Devices, e # d PROVE AttemptOK(e)'
  <2>1. AttemptOK(e) /\ scope'[e] = scope[e] /\ entries'[e] = entries[e] /\ done' = done
    BY <1>0, <1>2 DEF AttemptInv, AttemptOK, Aside, Still, Stays
  <2>2. Listed(e)' = Listed(e)
    BY <2>1 DEF Listed
  <2>3. ASSUME NEW op \in mail' PROVE AboutAttempt(e, op)'
    <3>1. CASE op \in mail
      BY <2>1, <2>2, <3>1 DEF AttemptOK, AboutAttempt
    <3>2. CASE op = scope'[d].control /\ op # NoOp
      <4>1. op.action = "complete" => op.expect = op.id
        BY <1>1, <3>2 DEF AttemptOK, AboutAttempt
      <4>2. op.id[1] = d
        <5>1. PlaceOK(d)
          BY DEF PhaseInv, PhaseOK
        <5> QED BY <1>0, <3>2, <5>1 DEF AttemptMoves, PlaceOK
      <4> QED BY <1>2, <4>1, <4>2 DEF AboutAttempt
    <3> QED BY <1>0, <3>1, <3>2 DEF AttemptMoves
  <2>4. StagedOK(e)'
    <3>1. SameSpace /\ StagedOK(e)
      BY <1>0, <2>1 DEF Stays, AttemptOK
    <3>2. CASE space' = space
      BY <2>1, <2>2, <3>1, <3>2 DEF StagedOK
    <3>3. CASE space' # space
      <4>1. StagePush(d) /\ IsCurrent(d) /\ life[d] = "staging" /\ PlaceOK(d)
        BY <1>0, <3>3 DEF Stays, StagePush, PhaseInv, PhaseOK
      <4>2. space.attempt.id = <<d, scope[d].local>>
        BY <4>1 DEF PlaceOK, IsCurrent, Mine
      <4>3. space.attempt.id[1] # e
        BY <1>2, <4>2
      <4>4. space.attempt.id # <<e, scope[e].local>>
        BY <4>3
      <4> QED BY <2>1, <3>1, <4>3, <4>4 DEF StagedOK, SameSpace
    <3> QED BY <3>2, <3>3
  <2> QED BY <2>1, <2>2, <2>3, <2>4 DEF AttemptOK, AboutAttempt
<1> QED BY <1>1, <1>2 DEF AttemptInv, AttemptOK

(* The service's steps do.                                                 *)
LEMMA AttemptRemote ==
  ASSUME TypeOK, AttemptInv, Remote
  PROVE  AttemptInv'
<1>0. /\ scope' = scope /\ entries' = entries /\ mail \subseteq Ops
      /\ done \subseteq Ids \X {"open", "cancel", "complete"} /\ space \in Spaces
  BY RemoteUntouched DEF TypeOK, ServiceType, Untouched, database
<1>1. SUFFICES ASSUME NEW d \in Devices PROVE AttemptOK(d)'
  BY DEF AttemptInv, AttemptOK
<1>2. AttemptOK(d) /\ Listed(d)' = Listed(d)
  BY <1>0 DEF AttemptInv, AttemptOK, Listed
<1>3. scope[d].n \in Nat /\ scope[d].local \in Nat
  BY DeviceFields
<1>4. ASSUME mail' \subseteq mail,
             \A receipt \in done' : receipt[1][1] = d => receipt[1][2] <= scope[d].n,
             StagedOK(d)'
      PROVE  AttemptOK(d)'
  BY <1>0, <1>2, <1>4 DEF AttemptOK, AboutAttempt
<1>5. ASSUME space'.attempt = NoAttempt \/ space' = space PROVE StagedOK(d)'
  BY <1>0, <1>2, <1>5 DEF StagedOK, AttemptOK, NoAttempt, None
<1>6. ASSUME NEW op \in mail, ServeControl(op) PROVE AttemptOK(d)'
  <2>0. mail' = mail /\ done' = done \cup {OpOf(op)} /\ OpOf(op)[1] = op.id /\ op \in Ops
    BY <1>0, <1>6 DEF ServeControl, OpOf
  <2>1. AboutAttempt(d, op)
    BY <1>2 DEF AttemptOK
  <2>2. \A receipt \in done' : receipt[1][1] = d => receipt[1][2] <= scope[d].n
    BY <1>2, <2>0, <2>1 DEF AboutAttempt, AttemptOK
  <2>3. CASE Opens(op)
    <3> DEFINE a == [id |-> op.id, listed |-> op.listed, staged |-> NoEntries]
    <3>1. space'.attempt = a /\ op.id \in Ids
      BY <1>0, <2>0, <2>3 DEF Opens, Spaces, Ops
    <3>2. a.id = op.id /\ a.listed = op.listed /\ \A r \in Records : a.staged[r] = NoEntry
      BY DEF NoEntries
    <3> HIDE DEF a
    <3>3. op.id[1] = d => op.id[2] <= scope[d].n
      BY <2>1 DEF AboutAttempt
    <3>4. op.id = <<d, scope[d].local>> => op.listed = Listed(d)
      BY <2>1, <2>3 DEF AboutAttempt, Opens
    <3>5. StagedOK(d)'
      BY <1>0, <1>2, <3>1, <3>2, <3>3, <3>4 DEF StagedOK
    <3> QED BY <1>4, <2>0, <2>2, <3>5
  <2>4. CASE Cancels(op) \/ Completes(op)
    <3>1. space'.attempt = NoAttempt
      BY <1>0, <2>4 DEF Cancels, Completes, Spaces
    <3> QED BY <1>4, <1>5, <2>0, <2>2, <3>1
  <2> QED BY <1>6, <2>3, <2>4, ServeCases
<1>7. ASSUME NEW m, Rule(m) PROVE AttemptOK(d)'
  <2>1. UNCHANGED <<space, done, mail>>
    BY <1>7 DEF Rule, cloud
  <2> QED BY <1>2, <1>4, <1>5, <2>1 DEF AttemptOK
<1>8. ASSUME Retire PROVE AttemptOK(d)'
  <2>1. UNCHANGED <<done, mail>> /\ space'.attempt = NoAttempt
    BY <1>8 DEF Retire
  <2> QED BY <1>2, <1>4, <1>5, <2>1 DEF AttemptOK
<1>9. ASSUME ExpireReceipt PROVE AttemptOK(d)'
  <2>1. done' \subseteq done /\ mail' \subseteq mail /\ space' = space
    BY <1>9 DEF ExpireReceipt
  <2> QED BY <1>2, <1>4, <1>5, <2>1 DEF AttemptOK
<1> QED BY <1>6, <1>7, <1>8, <1>9 DEF Remote

-----------------------------------------------------------------------------
(***************************************************************************)
(* The outbox within a generation.                                         *)
(***************************************************************************)
(* The invariant of queues, of one row.                                    *)
QueueOK(d, r) ==
  scope[d].gen > 0 /\ Sealed(slot[d][r]) => scope[d].boot /\ scope[d].backup = "ready"

(* Pulling a row seals nothing.                                            *)
LEMMA PullsSealed ==
  ASSUME TypeOK, NEW r, NEW s, WellFormed(s), NEW t, Pulls(r, s, t), Sealed(t)
  PROVE  Sealed(s)
<1>1. PICK u : Reads(r, s, u) /\ t = Outbox!Project(u)
  BY DEF Pulls
<1>2. WellFormed(u)
  BY <1>1, ReadsRow
<1>3. Sealed(u)
  BY <1>1, <1>2, ProjectRow DEF SameContent, Sealed
<1>4. ASSUME NEW k \in DOMAIN log, u = Outbox!Observe(s, Outbox!AsRecord(k), TRUE)
      PROVE  Sealed(s)
  <2> DEFINE record == Outbox!AsRecord(k)
  <2>1. record \in Record /\ u = Outbox!Observe(s, record, TRUE)
    BY <1>4, RecordOf
  <2> HIDE DEF record
  <2>2. u.fly = s.fly /\ (SameContent(s, u) \/ Took(s, u, record))
    BY <2>1, ObserveRow
  <2> QED BY <1>3, <2>2 DEF SameContent, Took, Sealed
<1> QED BY <1>1, <1>3, <1>4 DEF Reads

(* Publishing a full pull of a rebuilt space queues nothing.               *)
LEMMA PublishSealed ==
  ASSUME TypeOK, MirrorInv, NEW d \in Devices, NEW r \in Records, PublishFullPull(d),
         space.gen = scope[d].gen, seen[d].origin = "rebuilt", Sealed(slot'[d][r])
  PROVE  Sealed(slot[d][r])
<1> DEFINE s == slot[d][r]
           t == slot'[d][r]
           revs == {k \in stage[d].revs : log[k].rec = r}
           k0 == CHOOSE k \in revs : TRUE
           u == IF revs = {} THEN s
                ELSE Outbox!Project(Outbox!Observe(s, Outbox!AsRecord(k0), TRUE))
<1>1. WellFormed(s) /\ slot \in [Devices -> [Records -> Outbox!Slot]]
  BY DEF TypeOK, SlotsGood, DeviceType
<1>2. t = Outbox!Project(u)
  <2> DEFINE rows == [q \in Records |->
               LET ks == {k \in stage[d].revs : log[k].rec = q}
                   x == IF ks = {} THEN slot[d][q]
                        ELSE Outbox!Project(Outbox!Observe(slot[d][q],
                               Outbox!AsRecord(CHOOSE k \in ks : TRUE), TRUE))
               IN  IF seen[d].origin = "rebuilt" THEN Outbox!Project(x)
                   ELSE Outbox!Project(Outbox!Bind(x))]
  <2>1. slot' = [slot EXCEPT ![d] = rows]
    BY DEF PublishFullPull
  <2>2. rows[r] = Outbox!Project(u)
    OBVIOUS
  <2> HIDE DEF rows
  <2>3. slot'[d] = rows
    BY <1>1, <2>1
  <2> QED BY <2>2, <2>3
<1>3. revs # {} => k0 \in DOMAIN log /\ log[k0].rec = r
  <2>1. StageOK(d)
    BY DEF MirrorInv
  <2>2. stage[d].revs \subseteq DOMAIN log
    <3>1. stage[d] \in Stages /\ log \in Seq(Outbox!Published)
      BY DEF TypeOK, ServiceType, DeviceType
    <3> QED BY <2>1, <3>1 DEF StageOK, Stages
  <2>3. revs # {} => k0 \in revs
    OBVIOUS
  <2> QED BY <2>2, <2>3
<1>4. u = s \/ Pulls(r, s, u)
  BY <1>3 DEF Pulls, Reads
<1> HIDE DEF u, k0, revs, s, t
<1>5. WellFormed(u)
  <2>1. CASE u = s
    BY <1>1, <2>1 DEF s
  <2>2. CASE Pulls(r, s, u)
    <3>1. PICK w : Reads(r, s, w) /\ u = Outbox!Project(w)
      BY <2>2 DEF Pulls
    <3> QED BY <1>1, <3>1, ReadsRow, ProjectRow DEF s
  <2> QED BY <1>4, <2>1, <2>2
<1>6. Sealed(u)
  BY <1>2, <1>5, ProjectRow DEF SameContent, Sealed, t
<1> QED
  BY <1>1, <1>4, <1>6, PullsSealed DEF s

(* A device without its generation's content, or with a request open, has  *)
(* nothing queued.                                                         *)
LEMMA Unsealed ==
  ASSUME TypeOK, PhaseInv, QueueInv, NEW d \in Devices, NEW r \in Records,
         scope[d].control # NoOp \/ life[d] = "publish"
  PROVE  ~Sealed(slot[d][r])
<1>1. scope[d].gen \in Nat /\ PhaseOK(d)
  BY DeviceFields DEF PhaseInv
<1>2. scope[d].gen > 0
  BY <1>1 DEF PhaseOK, Unbound
<1>3. ~scope[d].boot
  BY <1>1, <1>2 DEF PhaseOK, PartOK
<1> QED BY <1>2, <1>3 DEF QueueInv

(* The steps before the steady state queue nothing ahead of time.          *)
LEMMA QueuePrepare ==
  ASSUME Known, NEW d \in Devices, Prepare(d), NEW r \in Records
  PROVE  QueueOK(d, r)'
<1>0. /\ scope[d] \in Scopes /\ scope[d].gen \in Nat /\ seen[d].gen \in Nat /\ scope[d].boot \in BOOLEAN
      /\ PhaseOK(d) /\ QueueOK(d, r)
  BY DeviceFields DEF Known, PhaseInv, QueueInv, QueueOK
<1>t. /\ scope \in [Devices -> Scopes] /\ slot \in [Devices -> [Records -> Outbox!Slot]]
      /\ WellFormed(slot[d][r])
  BY DEF Known, TypeOK, DeviceType, SlotsGood
<1> DEFINE Goal == QueueOK(d, r)'
<1>k. ASSUME scope' = scope, slot' = slot PROVE Goal
  BY <1>0, <1>k DEF QueueOK
<1>u. ASSUME ~Sealed(slot'[d][r]) PROVE Goal
  BY <1>u DEF QueueOK
<1>1. CASE ReadStatus(d) \/ Without(d) \/ Refuse(d) \/ Resume(d) \/ AnswerControl(d) \/ Verify(d)
           \/ Reread(d) \/ Upload(d) \/ Activate(d) \/ CommitStaged(d)
  <2>1. scope' = scope /\ slot' = slot
    BY <1>1 DEF ReadStatus, Without, Refuse, Resume, AnswerControl, Verify, Reread, Upload,
       Activate, CommitStaged, outbox, database
  <2> QED BY <1>k, <2>1
<1>2. CASE StagePush(d) \/ Progress(d) \/ Verdict(d) \/ FullPage(d) \/ ConfirmPull(d)
  <2>1. scope' = scope /\ slot' = slot
    BY <1>2 DEF StagePush, Progress, Verdict, FullPage, ConfirmPull, database
  <2> QED BY <1>k, <2>1
<1>3. ASSUME Adopt(d) PROVE Goal
  <2>1. CASE Retires(d)
    <3>1. slot'[d][r] = Retired(slot[d][r])
      BY <1>t, <2>1 DEF Adopt, Retires
    <3> QED BY <1>t, <1>u, <3>1, RetiredRow
  <2>2. CASE ~Retires(d)
    <3>1. slot' = slot /\ life[d] = "adopt"
      BY <1>3, <2>2 DEF Adopt, Retires
    <3>2. CASE scope[d].gen = seen[d].gen
      <4>1. scope' = [scope EXCEPT ![d].backup = seen[d].backup]
        BY <1>3, <3>2 DEF Adopt
      <4>2. scope'[d] = [scope[d] EXCEPT !.backup = seen[d].backup]
        BY <1>t, <4>1
      <4>3. scope'[d].boot = scope[d].boot /\ scope'[d].backup = seen[d].backup
            /\ scope'[d].gen = scope[d].gen
        BY <1>0, <4>2 DEF Scopes
      <4>4. scope[d].gen > 0 /\ scope[d].boot => seen[d].backup = "ready"
        BY <1>0, <3>2 DEF PhaseOK, PartOK
      <4> QED BY <1>0, <3>1, <4>3, <4>4 DEF QueueOK
    <3>3. CASE scope[d].gen # seen[d].gen
      <4>0. scope[d].gen = 0 /\ seen[d].origin = "legacy"
        BY <1>3, <2>2, <3>3 DEF Retires
      <4>1. scope' = [scope EXCEPT ![d].gen = seen[d].gen, ![d].backup = seen[d].backup]
        BY <1>3, <3>3, <4>0 DEF Adopt
      <4>2. scope'[d] = [scope[d] EXCEPT !.gen = seen[d].gen, !.backup = seen[d].backup]
        BY <1>t, <4>1
      <4>3. scope'[d].boot = scope[d].boot /\ scope'[d].backup = seen[d].backup
        BY <1>0, <4>2 DEF Scopes
      <4>4. scope[d].boot /\ seen[d].backup = "ready"
        BY <1>0, <3>1, <4>0 DEF PhaseOK, SeenOK, Unbound
      <4> QED BY <4>3, <4>4 DEF QueueOK
    <3> QED BY <3>2, <3>3
  <2> QED BY <2>1, <2>2
<1>4. ASSUME Quarantine(d) PROVE Goal
  <2>0. slot' = slot /\ life[d] = "attempt"
    BY <1>4 DEF Quarantine, outbox
  <2>1. CASE Abandoned(d)
    <3>1. scope'[d] = [[scope[d] EXCEPT !.backup = "rebuildRequired", !.local = 0,
                                        !.bound = FALSE] EXCEPT !.backup = seen[d].backup]
      BY <1>4, <2>1, <1>t DEF Quarantine, Cancelled
    <3>2. /\ scope'[d].boot = scope[d].boot /\ scope'[d].backup = seen[d].backup
          /\ scope'[d].gen = scope[d].gen
      BY <1>0, <3>1 DEF Scopes
    <3>3. scope[d].gen > 0 /\ scope[d].boot => seen[d].backup = "ready"
      BY <1>0, <2>0 DEF PhaseOK, PartOK
    <3> QED BY <1>0, <2>0, <3>2, <3>3 DEF QueueOK
  <2>2. CASE ~Abandoned(d)
    BY <1>4, <1>k, <2>0, <2>2 DEF Quarantine
  <2> QED BY <2>1, <2>2
<1>5. ASSUME NEW op, NEW next, Send(d, op, next), slot' = slot PROVE Goal
  <2>1. scope'[d] = [scope[d] EXCEPT !.control = op]
    BY <1>5, <1>t DEF Send
  <2>2. /\ scope'[d].boot = scope[d].boot /\ scope'[d].backup = scope[d].backup
        /\ scope'[d].gen = scope[d].gen
    BY <1>0, <2>1 DEF Scopes
  <2> QED BY <1>0, <1>5, <2>2 DEF QueueOK
<1>6. ASSUME CancelRebuild(d) \/ OpenAttempt(d) \/ CompleteAttempt(d) PROVE Goal
  <2>1. slot' = slot
    BY <1>6 DEF CancelRebuild, OpenAttempt, CompleteAttempt, outbox
  <2>2. \E op, next : Send(d, op, next)
    BY <1>6 DEF CancelRebuild, OpenAttempt, CompleteAttempt
  <2> QED BY <1>5, <2>1, <2>2
<1>7. ASSUME BeginRebuild(d) PROVE Goal
  <2>1. slot'[d][r] = Chosen(slot[d][r])
    BY <1>t, <1>7 DEF BeginRebuild
  <2> QED BY <1>7, <1>t, <1>u, <2>1, BeginsUnsealed, ChosenRow DEF Known
<1>9. ASSUME RejectControl(d) PROVE Goal
  <2>1. slot' = slot /\ life[d] = "await"
    BY <1>9 DEF RejectControl
  <2>2. scope[d].control # NoOp
    BY <1>0, <2>1 DEF PhaseOK, PlaceOK, Controlled
  <2> QED BY <1>u, <2>1, <2>2, Unsealed DEF Known
<1>10. ASSUME Settle(d) PROVE Goal
  <2>1. life[d] = "settle"
    BY <1>10 DEF Settle
  <2>2. scope[d].control # NoOp
    BY <1>0, <2>1 DEF PhaseOK, PlaceOK, Controlled
  <2>3. ~Sealed(slot[d][r])
    BY <2>2, Unsealed DEF Known
  <2>4. CASE CompleteRebuild(d)
    <3>1. slot'[d][r] = slot[d][r] \/ Remarks(d, r, slot[d][r], slot'[d][r])
      BY <1>t, <2>4 DEF CompleteRebuild, Remarks
    <3>2. ~Sealed(slot'[d][r])
      BY <1>t, <2>3, <3>1, RemarkRow DEF Sealed
    <3> QED BY <1>u, <3>2
  <2>5. CASE ~CompleteRebuild(d)
    <3>1. slot' = slot
      BY <1>10, <2>5 DEF Settle
    <3> QED BY <1>u, <2>3, <3>1
  <2> QED BY <2>4, <2>5
<1>13. ASSUME PublishFullPull(d) PROVE Goal
  <2>0. life[d] = "publish"
    BY <1>13 DEF PublishFullPull
  <2>1. ~Sealed(slot[d][r])
    BY <2>0, Unsealed DEF Known
  <2>2. CASE space.gen # scope[d].gen
    BY <1>13, <1>k, <2>2 DEF PublishFullPull
  <2>3. CASE space.gen = scope[d].gen
    <3>1. CASE seen[d].origin = "rebuilt"
      BY <1>13, <1>u, <2>1, <2>3, <3>1, PublishSealed DEF Known
    <3>2. CASE seen[d].origin # "rebuilt"
      <4>1. scope' = [scope EXCEPT ![d] = [scope[d] EXCEPT !.boot = TRUE]]
        BY <1>13, <2>3 DEF PublishFullPull
      <4>2. scope'[d] = [scope[d] EXCEPT !.boot = TRUE]
        BY <1>t, <4>1
      <4>3. scope'[d].boot = TRUE /\ scope'[d].backup = scope[d].backup
        BY <1>0, <4>2 DEF Scopes
      <4>4. scope[d].backup = "ready"
        BY <1>0, <2>0, <3>2 DEF PhaseOK, PlaceOK, RebuiltOK, Unbound
      <4> QED BY <4>3, <4>4 DEF QueueOK
    <3> QED BY <3>1, <3>2
  <2> QED BY <2>2, <2>3
<1> QED
  BY <1>1, <1>2, <1>3, <1>4, <1>6, <1>7, <1>9, <1>10, <1>13
  DEF Prepare

(* Nor does the steady state.                                              *)
LEMMA QueueSynchronise ==
  ASSUME Known, NEW d \in Devices, Synchronise(d), NEW r \in Records
  PROVE  QueueOK(d, r)'
<1>0. /\ PhaseOK(d) /\ QueueOK(d, r) /\ scope[d].gen \in Nat
      /\ WellFormed(slot[d][r]) /\ TypeOK
  BY DeviceFields DEF Known, PhaseInv, QueueInv, QueueOK, TypeOK, SlotsGood
<1>t. slot \in [Devices -> [Records -> Outbox!Slot]]
  BY DEF Known, TypeOK, DeviceType
<1>1. scope' = scope /\ life[d] = "run"
  BY DEF Synchronise, StartRun, StartUnready, PullPage, CommitPullPage, JoinRebuilt,
       CompleteBootstrap, PreparePush, CommitPushPrefix, FinishRun, Refused, Steady, database
<1>2. scope[d].boot
  BY <1>0, <1>1 DEF PhaseOK, PlaceOK
<1> DEFINE Goal == QueueOK(d, r)'
<1>r. ASSUME scope[d].backup = "ready" PROVE Goal
  BY <1>1, <1>2, <1>r DEF QueueOK
<1>k. ASSUME Sealed(slot'[d][r]) => Sealed(slot[d][r]) PROVE Goal
  BY <1>0, <1>1, <1>k DEF QueueOK
<1>3. CASE StartUnready(d) \/ PullPage(d) \/ FinishRun(d) \/ Refused(d)
  <2>1. slot' = slot
    BY <1>3 DEF StartUnready, PullPage, FinishRun, Refused, Outbox!PullPage, Outbox!FinishRun,
         Outbox!database
  <2> QED BY <1>k, <2>1
<1>4. CASE StartRun(d)
  BY <1>4, <1>r DEF StartRun
<1>5. CASE CommitPullPage(d)
  BY <1>0, <1>5, <1>k, PullRow, PullsSealed DEF Known
<1>6. CASE JoinRebuilt(d)
  <2>1. slot'[d][r] = Outbox!Project(slot[d][r])
    BY <1>t, <1>6 DEF JoinRebuilt
  <2>2. Pulls(r, slot[d][r], slot'[d][r])
    BY <2>1 DEF Pulls, Reads
  <2> QED BY <1>0, <1>k, <2>2, PullsSealed
<1>7. CASE CompleteBootstrap(d)
  <2>1. seen[d].origin # "rebuilt"
    BY <1>7 DEF CompleteBootstrap
  <2>2. scope[d].backup = "ready"
    BY <1>0, <1>1, <2>1 DEF PhaseOK, PlaceOK, RebuiltOK, Unbound
  <2> QED BY <1>r, <2>2
<1>8. CASE PreparePush(d)
  <2>1. PICK sent \in SUBSET Outbox!Selected(d) :
          slot' = [slot EXCEPT ![d] =
            [q \in Records |->
               IF q \in sent
               THEN [slot[d][q] EXCEPT !.fly = Outbox!Outgoing(slot[d][q])]
               ELSE slot[d][q]]]
    BY <1>8 DEF PreparePush, Outbox!PreparePush
  <2>2. r \notin sent => slot'[d][r] = slot[d][r]
    BY <1>t, <2>1
  <2>3. r \in sent => Sealed(slot[d][r])
    BY DEF Outbox!Selected, Outbox!Unresolved, Outbox!Dirty, Sealed
  <2> QED BY <1>k, <2>2, <2>3
<1>9. CASE CommitPushPrefix(d)
  <2>1. CASE Answers(d, r, slot[d][r], slot'[d][r])
    <3>1. Sealed(slot[d][r])
      BY <2>1, EnvelopeFacts DEF Answers, Sealed
    <3> QED BY <1>k, <3>1
  <2>2. CASE Pulls(r, slot[d][r], slot'[d][r])
    BY <1>0, <1>k, <2>2, PullsSealed
  <2> QED BY <1>9, <2>1, <2>2, AnswerRow DEF Known
<1> QED
  BY <1>3, <1>4, <1>5, <1>6, <1>7, <1>8, <1>9 DEF Synchronise

(* Nor does any step.                                                      *)
LEMMA QueueNext ==
  ASSUME Known, Next
  PROVE  QueueInv'
<1>0. TypeOK /\ DeviceType /\ slot \in [Devices -> [Records -> Outbox!Slot]]
  BY DEF Known, TypeOK, DeviceType
<1>q. \A d \in Devices, r \in Records : QueueOK(d, r)
  BY DEF Known, QueueInv, QueueOK
<1>1. SUFFICES ASSUME NEW e \in Devices, NEW r \in Records PROVE QueueOK(e, r)'
  BY DEF QueueInv, QueueOK
<1>2. ASSUME scope'[e] = scope[e], slot'[e][r] = slot[e][r] PROVE QueueOK(e, r)'
  BY <1>2, <1>q DEF QueueOK
<1>3. ASSUME Remote PROVE QueueOK(e, r)'
  BY <1>2, <1>3, RemoteUntouched DEF Untouched, database
<1>4. ASSUME NEW d \in Devices, DeviceStep(d), d # e PROVE QueueOK(e, r)'
  BY <1>0, <1>2, <1>4, OthersStill DEF Aside, Still
<1>5. ASSUME DeviceStep(e) PROVE QueueOK(e, r)'
  <2>1. CASE Prepare(e)
    BY <2>1, QueuePrepare
  <2>2. CASE Synchronise(e)
    BY <2>2, QueueSynchronise
  <2>3. ASSUME NEW q \in Records, NEW v \in Values, Edit(e, q, v) PROVE QueueOK(e, r)'
    <3>0. scope' = scope
      BY <2>3 DEF Edit, database
    <3>1. CASE q # r
      <4>1. slot'[e][r] = slot[e][r]
        BY <1>0, <2>3, <3>1 DEF Edit
      <4> QED BY <1>2, <3>0, <4>1
    <3>2. CASE q = r
      <4> DEFINE t == slot'[e][r]
      <4>1. t = Edited(slot[e][r], v, now, Queues(e), scope[e].gen # 0)
        BY <1>0, <2>3, <3>2 DEF Edit, Edited
      <4>2. t.fly = slot[e][r].fly /\ (Outbox!Dirty(t) <=> Queues(e))
        BY <2>3, <3>2, <4>1, EditedRow
      <4> HIDE DEF t
      <4>3. scope[e].gen > 0 /\ Sealed(t) => scope[e].boot /\ scope[e].backup = "ready"
        BY <1>q, <4>2 DEF Sealed, Outbox!Dirty, Queues, QueueOK
      <4> QED BY <3>0, <4>3 DEF QueueOK, t
    <3> QED BY <3>1, <3>2
  <2>4. CASE (\E action \in {"start", "claim", "cancel"} : Ask(e, action)) \/ Fail(e)
    BY <1>2, <2>4 DEF Ask, Fail, outbox, database
  <2> QED BY <1>5, <2>1, <2>2, <2>3, <2>4 DEF DeviceStep, UserNext
<1> QED BY <1>3, <1>4, <1>5 DEF Next, ServiceNext, Remote, DeviceStep

-----------------------------------------------------------------------------
(***************************************************************************)
(* Requests on their way.                                                  *)
(***************************************************************************)
(* A device leaves a generation only for a later one that it has read of.  *)
GenMoves(d) ==
  \/ scope'[d].gen = scope[d].gen
  \/ /\ Adopt(d)
     /\ scope[d].gen < seen[d].gen /\ seen[d].gen <= space.gen
     /\ scope'[d].gen = seen[d].gen

(* No step of a device does more.                                          *)
LEMMA GenMoved ==
  ASSUME TypeOK, PhaseInv, NEW d \in Devices, DeviceStep(d)
  PROVE  GenMoves(d)
<1>0. /\ scope[d] \in Scopes /\ scope[d].gen \in Nat /\ seen[d].gen \in Nat /\ space.gen \in Nat
      /\ SeenOK(d) /\ scope \in [Devices -> Scopes]
  BY DeviceFields DEF PhaseInv, PhaseOK, TypeOK, DeviceType
<1> DEFINE Goal == GenMoves(d)
<1>k. ASSUME scope' = scope PROVE Goal
  BY <1>k DEF GenMoves
<1>p. ASSUME NEW s, scope' = [scope EXCEPT ![d] = s], s.gen = scope[d].gen PROVE Goal
  BY <1>0, <1>p DEF GenMoves
<1>1. CASE ReadStatus(d) \/ Without(d) \/ Refuse(d) \/ Resume(d) \/ AnswerControl(d) \/ Verify(d)
           \/ Reread(d) \/ Upload(d) \/ Activate(d) \/ CommitStaged(d)
  BY <1>1, <1>k DEF ReadStatus, Without, Refuse, Resume, AnswerControl, Verify, Reread, Upload,
     Activate, CommitStaged, outbox, database
<1>2. CASE StagePush(d) \/ Progress(d) \/ Verdict(d) \/ FullPage(d) \/ ConfirmPull(d)
  BY <1>2, <1>k DEF StagePush, Progress, Verdict, FullPage, ConfirmPull, database
<1>3. ASSUME Adopt(d) PROVE Goal
  <2>1. CASE scope[d].gen = seen[d].gen
    <3>1. scope' = [scope EXCEPT ![d].backup = seen[d].backup]
      BY <1>3, <2>1 DEF Adopt
    <3>2. scope'[d] = [scope[d] EXCEPT !.backup = seen[d].backup]
      BY <1>0, <3>1
    <3> QED BY <1>0, <3>2 DEF Scopes, GenMoves
  <2>2. CASE scope[d].gen # seen[d].gen
    <3>1. \/ scope' = [scope EXCEPT ![d].gen = seen[d].gen, ![d].backup = seen[d].backup]
          \/ scope' = [scope EXCEPT ![d] =
                         [scope[d] EXCEPT !.gen = seen[d].gen, !.backup = seen[d].backup,
                                   !.boot = FALSE, !.local = 0, !.bound = FALSE,
                                   !.control = NoOp]]
      BY <1>3, <2>2 DEF Adopt
    <3>2. \/ scope'[d] = [scope[d] EXCEPT !.gen = seen[d].gen, !.backup = seen[d].backup]
          \/ scope'[d] = [scope[d] EXCEPT !.gen = seen[d].gen, !.backup = seen[d].backup,
                                   !.boot = FALSE, !.local = 0, !.bound = FALSE,
                                   !.control = NoOp]
      BY <1>0, <3>1
    <3>3. scope'[d].gen = seen[d].gen
      BY <1>0, <3>2 DEF Scopes
    <3>4. scope[d].gen <= seen[d].gen /\ seen[d].gen <= space.gen
      BY <1>0, <1>3 DEF Adopt, SeenOK
    <3> QED BY <1>0, <1>3, <2>2, <3>3, <3>4 DEF GenMoves
  <2> QED BY <2>1, <2>2
<1>4. CASE Quarantine(d)
  <2> DEFINE s == [Cancelled(scope[d]) EXCEPT !.backup = seen[d].backup]
  <2>1. scope' = scope \/ scope' = [scope EXCEPT ![d] = s]
    BY <1>4 DEF Quarantine
  <2>2. s.gen = scope[d].gen
    BY <1>0 DEF Cancelled, Scopes
  <2> HIDE DEF s
  <2> QED BY <1>k, <1>p, <2>1, <2>2
<1>5. ASSUME NEW op, NEW next, Send(d, op, next) PROVE Goal
  <2> DEFINE s == [scope[d] EXCEPT !.control = op]
  <2>1. scope' = [scope EXCEPT ![d] = s]
    BY <1>5 DEF Send
  <2>2. s.gen = scope[d].gen
    BY <1>0 DEF Scopes
  <2> HIDE DEF s
  <2> QED BY <1>p, <2>1, <2>2
<1>6. CASE CancelRebuild(d) \/ OpenAttempt(d) \/ CompleteAttempt(d)
  BY <1>5, <1>6 DEF CancelRebuild, OpenAttempt, CompleteAttempt
<1>7. CASE BeginRebuild(d)
  <2> DEFINE s == [scope[d] EXCEPT !.backup = "rebuilding", !.bound = FALSE,
                           !.local = scope[d].n + 1, !.n = scope[d].n + 1]
  <2>1. scope' = [scope EXCEPT ![d] = s]
    BY <1>7 DEF BeginRebuild
  <2>2. s.gen = scope[d].gen
    BY <1>0 DEF Scopes
  <2> HIDE DEF s
  <2> QED BY <1>p, <2>1, <2>2
<1>8. ASSUME scope' = [scope EXCEPT ![d] = Rejected(scope[d])] PROVE Goal
  <2>2. Rejected(scope[d]).gen = scope[d].gen
    BY <1>0 DEF Rejected, Cancelled, Scopes
  <2> QED BY <1>p, <1>8, <2>2
<1>9. CASE RejectControl(d)
  BY <1>8, <1>9 DEF RejectControl
<1>10. CASE Settle(d)
  <2> DEFINE s == [scope[d] EXCEPT !.bound = TRUE, !.control = NoOp]
             u == [scope[d] EXCEPT !.backup = "ready", !.local = 0, !.bound = FALSE,
                                   !.boot = FALSE, !.control = NoOp]
  <2>1. \/ scope' = scope \/ scope' = [scope EXCEPT ![d] = s]
        \/ scope' = [scope EXCEPT ![d] = u]
        \/ scope' = [scope EXCEPT ![d] = Rejected(scope[d])]
    BY <1>10 DEF Settle, CompleteRebuild
  <2>2. s.gen = scope[d].gen /\ u.gen = scope[d].gen
    BY <1>0 DEF Scopes
  <2> HIDE DEF s, u
  <2> QED BY <1>k, <1>p, <1>8, <2>1, <2>2
<1>11. CASE PublishFullPull(d)
  <2> DEFINE s == [scope[d] EXCEPT !.boot = TRUE]
  <2>1. scope' = scope \/ scope' = [scope EXCEPT ![d] = s]
    BY <1>11 DEF PublishFullPull
  <2>2. s.gen = scope[d].gen
    BY <1>0 DEF Scopes
  <2> HIDE DEF s
  <2> QED BY <1>k, <1>p, <2>1, <2>2
<1>12. CASE Synchronise(d)
  BY <1>12, <1>k DEF Synchronise, StartRun, StartUnready, PullPage, CommitPullPage, JoinRebuilt,
       CompleteBootstrap, PreparePush, CommitPushPrefix, FinishRun, Refused, Steady, database
<1>13. CASE UserNext(d) \/ Fail(d)
  BY <1>13, <1>k DEF UserNext, Edit, Ask, Fail, database
<1> QED
  BY <1>1, <1>2, <1>3, <1>4, <1>6, <1>7, <1>9, <1>10, <1>11, <1>12, <1>13
  DEF Prepare, DeviceStep

(* A request in hand outlives only an edit.                                *)
LEMMA BatchMoved ==
  ASSUME TypeOK, PhaseInv, WireInv, NEW d \in Devices, DeviceStep(d), ~PreparePush(d),
         NEW r \in Records, batch'[d][r] # Outbox!NoEnvelope
  PROVE  /\ batch'[d][r] = batch[d][r]
         /\ pc' = pc /\ scope' = scope
         /\ \E q \in Records, v \in Values : Edit(d, q, v)
<1>0. /\ batch \in [Devices -> [Records -> Outbox!Envelope \cup {Outbox!NoEnvelope}]]
      /\ PlaceOK(d)
  BY DEF TypeOK, DeviceType, PhaseInv, PhaseOK
<1>1. batch'[d] # Outbox!NoBatch
  BY DEF Outbox!NoBatch
<1>2. ~EndRun(d)
  BY <1>0, <1>1 DEF EndRun
<1>3. batch' = batch
  <2>1. CASE Prepare(d)
    <3>1. CASE ReadStatus(d) \/ Adopt(d) \/ Activate(d) \/ Quarantine(d) \/ Without(d) \/ Refuse(d)
               \/ Resume(d) \/ CancelRebuild(d) \/ BeginRebuild(d) \/ OpenAttempt(d)
               \/ AnswerControl(d) \/ RejectControl(d)
      BY <1>2, <3>1 DEF ReadStatus, Adopt, Activate, Quarantine, Without, Refuse, Resume,
         CancelRebuild, BeginRebuild, OpenAttempt, AnswerControl, RejectControl, outbox
    <3>2. CASE Verify(d) \/ Settle(d) \/ Reread(d) \/ Upload(d) \/ StagePush(d)
               \/ CommitStaged(d) \/ Progress(d) \/ CompleteAttempt(d) \/ Verdict(d)
      BY <1>2, <3>2 DEF Verify, Settle, Reread, Upload, StagePush, CommitStaged, Progress,
         CompleteAttempt, Verdict, outbox
    <3>3. CASE FullPage(d) \/ ConfirmPull(d) \/ PublishFullPull(d)
      BY <1>2, <3>3 DEF FullPage, ConfirmPull, PublishFullPull, Discard
    <3> QED BY <2>1, <3>1, <3>2, <3>3 DEF Prepare
  <2>2. CASE Synchronise(d)
    <3>1. ~CommitPushPrefix(d) /\ ~Refused(d)
      BY <1>0, <1>1, <1>2 DEF CommitPushPrefix, Outbox!CommitPushPrefix, Refused
    <3> QED BY <2>2, <3>1 DEF Synchronise, StartRun, StartUnready, PullPage, CommitPullPage,
         JoinRebuilt, CompleteBootstrap, FinishRun, Outbox!StartRun, Outbox!PullPage,
         Outbox!CommitPullPage, Outbox!CompleteBootstrap, Outbox!FinishRun
  <2>3. CASE UserNext(d) \/ Fail(d)
    BY <1>2, <2>3 DEF UserNext, Edit, Ask, Fail, outbox
  <2> QED BY <2>1, <2>2, <2>3 DEF DeviceStep
<1>4. pc[d] = "sent" /\ life[d] = "run"
  BY <1>0, <1>3 DEF WireInv, WireOK, PlaceOK
<1>5. ~Prepare(d)
  BY <1>4 DEF Prepare, ReadStatus, Adopt, Activate, Quarantine, Without, Refuse, Resume,
         CancelRebuild, BeginRebuild, OpenAttempt, AnswerControl, RejectControl, Verify, Settle,
         Reread, Upload, StagePush, CommitStaged, Progress, CompleteAttempt, Verdict, FullPage,
         ConfirmPull, PublishFullPull
<1>6. ~Synchronise(d)
  <2>1. ~CommitPushPrefix(d) /\ ~Refused(d)
    BY <1>0, <1>1, <1>2 DEF CommitPushPrefix, Outbox!CommitPushPrefix, Refused
  <2> QED BY <1>4, <2>1 DEF Synchronise, StartRun, StartUnready, PullPage, CommitPullPage,
         JoinRebuilt, CompleteBootstrap, FinishRun, Outbox!StartRun, Outbox!PullPage,
         Outbox!CommitPullPage, Outbox!CompleteBootstrap, Outbox!FinishRun
<1>7. ~Fail(d) /\ \A action : ~Ask(d, action)
  BY <1>2, <1>4 DEF Fail, Ask
<1>8. PICK q \in Records, v \in Values : Edit(d, q, v)
  BY <1>5, <1>6, <1>7 DEF DeviceStep, UserNext
<1> QED BY <1>3, <1>8 DEF Edit, database

(* The request for an envelope.                                            *)
(* The request an envelope of a row is sent as.                            *)
Request(d, r, e) == [id |-> <<d, r, e.n>>, val |-> e.val, at |-> e.at]

(* What such a request says.                                               *)
LEMMA RequestFacts ==
  ASSUME NEW d, NEW r, NEW e
  PROVE  /\ Request(d, r, e).id = <<d, r, e.n>>
         /\ Request(d, r, e).id[1] = d /\ Request(d, r, e).id[2] = r /\ Request(d, r, e).id[3] = e.n
         /\ Request(d, r, e).val = e.val /\ Request(d, r, e).at = e.at
BY DEF Request

(* A request is known by what it says.                                     *)
LEMMA RequestIs ==
  ASSUME NEW m \in Outbox!Mutation, NEW d, NEW r, NEW e, m.id = <<d, r, e.n>>, m.val = e.val,
         m.at = e.at
  PROVE  m = Request(d, r, e)
BY DEF Outbox!Mutation, Request

(* The identity of a request names its device, its record and its number.  *)
LEMMA MutationId ==
  ASSUME NEW m \in Outbox!Mutation
  PROVE  /\ m.id[1] \in Devices /\ m.id[2] \in Records /\ m.id[3] \in Nat \ {0}
         /\ m.id = <<m.id[1], m.id[2], m.id[3]>>
BY DEF Outbox!Mutation

(* The row of a request and what it is sent with.                          *)
RowWire(d, r, s, requests) ==
  /\ SentInOrder(s)
  /\ \A m \in requests : m.id[1] = d /\ m.id[2] = r =>
       /\ m.id[3] <= s.n
       /\ s.fly # Outbox!NoEnvelope /\ m.id[3] = s.fly.n =>
             m.val = s.fly.val /\ m.at = s.fly.at
       /\ s.pend # Outbox!NoEnvelope /\ m.id[3] = s.pend.n => s.fly = s.pend

(* A batch that was sent is what its row has in flight.                    *)
BatchWire(d, r) ==
  batch[d][r] # Outbox!NoEnvelope =>
    /\ pc[d] = "sent"
    /\ batch[d][r] = slot[d][r].fly
    /\ scope[d].gen = space.gen => Request(d, r, batch[d][r]) \in wire

(* The invariant of requests, as one of a row and one of a batch.          *)
LEMMA WireParts ==
  ASSUME NEW d, NEW r
  PROVE  WireOK(d, r) <=> RowWire(d, r, slot[d][r], wire) /\ BatchWire(d, r)
BY DEF WireOK, RowWire, BatchWire, Request

(* What a transaction that sends nothing keeps of it.                      *)
LEMMA ReachWire ==
  ASSUME NEW d, NEW r, NEW s, WellFormed(s), NEW t, WellFormed(t), Reach(s, t),
         NEW requests, requests \subseteq Outbox!Mutation, RowWire(d, r, s, requests)
  PROVE  RowWire(d, r, t, requests)
<1>0. /\ s.n \in Nat /\ t.n \in Nat
      /\ s.pend \in Outbox!Envelope \cup {Outbox!NoEnvelope}
      /\ s.fly \in Outbox!Envelope \cup {Outbox!NoEnvelope}
      /\ t.pend \in Outbox!Envelope \cup {Outbox!NoEnvelope}
      /\ t.fly \in Outbox!Envelope \cup {Outbox!NoEnvelope}
      /\ s.fly # Outbox!NoEnvelope => s.fly.n <= s.n
  BY RowFields DEF WellFormed
<1>f. s.fly.n \in Nat /\ s.fly.n <= s.n /\ s.pend.n \in Nat /\ t.pend.n \in Nat
  BY <1>0, EnvelopeFacts
<1>1. SentInOrder(t)
  <2>1. CASE t.pend = s.pend /\ t.fly = s.fly
    BY <2>1 DEF RowWire, SentInOrder, Outbox!Dirty
  <2>2. CASE t.pend = Outbox!NoEnvelope
    BY <2>2 DEF SentInOrder, Outbox!Dirty
  <2>3. CASE t.pend.n > s.n \/ t.fly = Outbox!NoEnvelope
    BY <1>0, <1>f, <2>3, EnvelopeFacts DEF SentInOrder, Outbox!Dirty, Reach
  <2> QED BY <2>1, <2>2, <2>3 DEF Reach
<1>2. ASSUME NEW m \in requests, m.id[1] = d, m.id[2] = r
      PROVE  /\ m.id[3] <= t.n
             /\ t.fly # Outbox!NoEnvelope /\ m.id[3] = t.fly.n => m.val = t.fly.val /\ m.at = t.fly.at
             /\ t.pend # Outbox!NoEnvelope /\ m.id[3] = t.pend.n => t.fly = t.pend
  <2>1. m.id[3] \in Nat \ {0} /\ m.id[3] <= s.n
    BY <1>2, MutationId DEF RowWire
  <2>2. s.pend # Outbox!NoEnvelope /\ m.id[3] = s.pend.n => s.fly = s.pend
    BY <1>2 DEF RowWire
  <2>3. s.fly # Outbox!NoEnvelope /\ m.id[3] = s.fly.n => m.val = s.fly.val /\ m.at = s.fly.at
    BY <1>2 DEF RowWire
  <2> QED BY <1>0, <1>f, <2>1, <2>2, <2>3 DEF Reach
<1> QED BY <1>1, <1>2 DEF RowWire

(* No request of a device that is behind the space is on its way.          *)
LEMMA RetiresQuiet ==
  ASSUME TypeOK, PhaseInv, WireInv, NEW d \in Devices, GenMoves(d), scope'[d].gen # scope[d].gen
  PROVE  \A m \in wire : m.id[1] # d
<1>1. scope[d].gen \in Nat /\ seen[d].gen \in Nat /\ space.gen \in Nat
  BY DeviceFields
<1>2. scope[d].gen < space.gen
  BY <1>1 DEF GenMoves
<1> QED BY <1>1, <1>2 DEF WireInv

(* What requests under way have in common.                                 *)
WireShared ==
  /\ \A m1, m2 \in wire : m1.id = m2.id => m1 = m2
  /\ \A m \in wire : scope[m.id[1]].gen = space.gen
  /\ wire # {} => space.backup = "ready"

(* Sending a batch keeps all of it.                                        *)
LEMMA WireSends ==
  ASSUME Known, TypeOK', NEW d \in Devices, PreparePush(d)
  PROVE  WireShared' /\ \A r \in Records : WireOK(d, r)'
<1>0. /\ TypeOK /\ WireInv /\ wire \subseteq Outbox!Mutation /\ wire' \subseteq Outbox!Mutation
      /\ slot \in [Devices -> [Records -> Outbox!Slot]]
      /\ pc \in [Devices -> Outbox!Phases]
      /\ batch \in [Devices -> [Records -> Outbox!Envelope \cup {Outbox!NoEnvelope}]]
      /\ PhaseOK(d)
      /\ scope[d].gen \in Nat /\ space.gen \in Nat \ {0}
  BY DeviceFields DEF Known, TypeOK, DeviceType, ServiceType, PhaseInv
<1>1. /\ space.gen = scope[d].gen /\ life[d] = "run" /\ space' = space /\ scope' = scope
  BY DEF PreparePush, Steady, cloud, database
<1> DEFINE o(r) == Outbox!Outgoing(slot[d][r])
<1>2. PICK sent \in SUBSET Outbox!Selected(d) :
       /\ batch' = [batch EXCEPT ![d] =
            [r \in Records |-> IF r \in sent THEN Outbox!Outgoing(slot[d][r])
                               ELSE Outbox!NoEnvelope]]
       /\ slot' = [slot EXCEPT ![d] =
            [r \in Records |->
               IF r \in sent
               THEN [slot[d][r] EXCEPT !.fly = Outbox!Outgoing(slot[d][r])]
               ELSE slot[d][r]]]
       /\ wire' = wire \cup
            {[id |-> <<d, r, Outbox!Outgoing(slot[d][r]).n>>,
              val |-> Outbox!Outgoing(slot[d][r]).val,
              at |-> Outbox!Outgoing(slot[d][r]).at] : r \in sent}
       /\ pc' = [pc EXCEPT ![d] = "sent"]
  BY DEF PreparePush, Outbox!PreparePush
<1>3. wire' = wire \cup {Request(d, r, o(r)) : r \in sent}
  BY <1>2 DEF Request
<1>4. ASSUME NEW r \in Records
      PROVE  /\ batch'[d][r] = IF r \in sent THEN o(r) ELSE Outbox!NoEnvelope
             /\ slot'[d][r] = IF r \in sent THEN [slot[d][r] EXCEPT !.fly = o(r)] ELSE slot[d][r]
             /\ pc'[d] = "sent"
  BY <1>0, <1>2
<1>5. \A r \in sent : r \in Records /\ Sealed(slot[d][r])
  BY DEF Outbox!Selected, Outbox!Unresolved, Outbox!Dirty, Sealed
<1>6. ASSUME NEW r \in sent, NEW t, t = [slot[d][r] EXCEPT !.fly = o(r)]
      PROVE  /\ WellFormed(t) /\ t.fly = o(r) /\ o(r) \in Outbox!Envelope /\ o(r).n <= slot[d][r].n
             /\ t.pend = slot[d][r].pend /\ t.n = slot[d][r].n
             /\ o(r) = slot[d][r].fly \/ (slot[d][r].fly = Outbox!NoEnvelope /\ o(r) = slot[d][r].pend)
  <2>1. WellFormed(slot[d][r]) /\ Sealed(slot[d][r])
    BY <1>0, <1>5 DEF TypeOK, SlotsGood
  <2> QED BY <1>6, <2>1, SendRow DEF SameContent
<1> HIDE DEF o
<1>7. \A r \in Records : RowWire(d, r, slot[d][r], wire)
  BY <1>0, WireParts DEF WireInv
<1>8. ASSUME NEW r \in sent, NEW m \in wire, m.id = <<d, r, o(r).n>>
      PROVE  m = Request(d, r, o(r))
  <2> DEFINE s == slot[d][r]
             e == o(r)
  <2>1. m \in Outbox!Mutation /\ m.id[1] = d /\ m.id[2] = r /\ m.id[3] = e.n /\ r \in Records
    BY <1>0, <1>5, <1>8
  <2>2. /\ s.fly # Outbox!NoEnvelope /\ m.id[3] = s.fly.n => m.val = s.fly.val /\ m.at = s.fly.at
        /\ s.pend # Outbox!NoEnvelope /\ m.id[3] = s.pend.n => s.fly = s.pend
    BY <1>7, <2>1 DEF RowWire
  <2>3. e \in Outbox!Envelope /\ (e = s.fly \/ (s.fly = Outbox!NoEnvelope /\ e = s.pend))
    BY <1>6
  <2>4. m.val = e.val /\ m.at = e.at
    BY <2>1, <2>2, <2>3, EnvelopeFacts
  <2> HIDE DEF e
  <2> QED BY <1>8, <2>1, <2>4, RequestIs DEF e
<1>9. ASSUME NEW m1 \in wire', NEW m2 \in wire', m1.id = m2.id PROVE m1 = m2
  <2>1. CASE m1 \in wire /\ m2 \in wire
    BY <1>0, <1>9, <2>1 DEF WireInv
  <2>2. ASSUME NEW r \in sent, NEW m \in wire, m.id = Request(d, r, o(r)).id
        PROVE  m = Request(d, r, o(r))
    BY <1>8, <2>2, RequestFacts
  <2>3. ASSUME NEW r \in sent, NEW q \in sent, Request(d, q, o(q)).id = Request(d, r, o(r)).id
        PROVE  q = r
    BY <2>3, RequestFacts
  <2> QED BY <1>3, <1>9, <2>1, <2>2, <2>3
<1>10. \A m \in wire' : scope'[m.id[1]].gen = space'.gen
  BY <1>0, <1>1, <1>3, RequestFacts DEF WireInv
<1>11. space'.backup = "ready"
  BY <1>0, <1>1 DEF PhaseOK, PlaceOK, PartOK
<1>12. WireShared'
  BY <1>9, <1>10, <1>11 DEF WireShared
<1>13. ASSUME NEW r \in Records PROVE WireOK(d, r)'
  <2> DEFINE s == slot[d][r]
             t == slot'[d][r]
  <2>1. BatchWire(d, r)'
    <3>1. CASE r \in sent
      <4>1. batch'[d][r] = o(r) /\ t = [s EXCEPT !.fly = o(r)]
        BY <1>4, <3>1
      <4>2. t.fly = o(r)
        BY <1>6, <3>1, <4>1
      <4>3. Request(d, r, o(r)) \in wire'
        BY <1>3, <3>1
      <4> QED BY <1>4, <4>1, <4>2, <4>3 DEF BatchWire, Request
    <3>2. CASE r \notin sent
      BY <1>4, <3>2 DEF BatchWire
    <3> QED BY <3>1, <3>2
  <2>2. ASSUME NEW m \in wire', m.id[1] = d, m.id[2] = r
        PROVE  m \in wire \/ (r \in sent /\ m = Request(d, r, o(r)))
    BY <1>3, <2>2, RequestFacts
  <2>3. RowWire(d, r, t, wire')
    <3>1. CASE r \notin sent
      <4>1. t = s
        BY <1>4, <3>1
      <4> QED BY <1>7, <2>2, <3>1, <4>1 DEF RowWire
    <3>2. CASE r \in sent
      <4>0. t = [s EXCEPT !.fly = o(r)] /\ WellFormed(s)
        BY <1>0, <1>4, <3>2 DEF TypeOK, SlotsGood
      <4>1. /\ t.fly = o(r) /\ o(r) \in Outbox!Envelope /\ o(r).n <= s.n
            /\ t.pend = s.pend /\ t.n = s.n
            /\ o(r) = s.fly \/ (s.fly = Outbox!NoEnvelope /\ o(r) = s.pend)
        BY <1>6, <3>2, <4>0
      <4>2. RowWire(d, r, s, wire)
        BY <1>7
      <4> HIDE DEF s, t
      <4>3. SentInOrder(t)
        BY <4>1, <4>2 DEF RowWire, SentInOrder, Outbox!Dirty
      <4>4. ASSUME NEW m \in wire', m.id[1] = d, m.id[2] = r
            PROVE  /\ m.id[3] <= t.n
                   /\ m.id[3] = t.fly.n => m.val = t.fly.val /\ m.at = t.fly.at
                   /\ t.pend # Outbox!NoEnvelope /\ m.id[3] = t.pend.n => t.fly = t.pend
        <5>1. CASE m = Request(d, r, o(r))
          <6>1. m.id[3] = o(r).n /\ m.val = o(r).val /\ m.at = o(r).at
            BY <5>1, RequestFacts
          <6> QED BY <4>1, <4>3, <6>1 DEF SentInOrder, Outbox!Dirty
        <5>2. CASE m \in wire
          <6>0. /\ m.id[3] <= s.n
                /\ s.fly # Outbox!NoEnvelope /\ m.id[3] = s.fly.n => m.val = s.fly.val /\ m.at = s.fly.at
                /\ s.pend # Outbox!NoEnvelope /\ m.id[3] = s.pend.n => s.fly = s.pend
            BY <4>2, <4>4, <5>2 DEF RowWire
          <6>1. s.pend # Outbox!NoEnvelope /\ m.id[3] = s.pend.n => t.fly = t.pend
            BY <4>1, <6>0, EnvelopeFacts
          <6>2. m.id[3] = t.fly.n => m.val = t.fly.val /\ m.at = t.fly.at
            BY <4>1, <6>0, EnvelopeFacts
          <6> QED BY <4>1, <6>0, <6>1, <6>2
        <5> QED BY <2>2, <4>4, <5>1, <5>2
      <4> QED BY <4>3, <4>4 DEF RowWire
    <3> QED BY <3>1, <3>2
  <2> QED BY <2>1, <2>3 DEF RowWire, BatchWire, WireOK, Request
<1> QED BY <1>12, <1>13

(* The steps of devices keep the requests in order.                        *)
LEMMA WireDevice ==
  ASSUME Known, TypeOK', NEW d \in Devices, DeviceStep(d)
  PROVE  WireInv'
<1>0. /\ TypeOK /\ WireInv /\ PhaseInv /\ wire \subseteq Outbox!Mutation /\ wire' \subseteq Outbox!Mutation
      /\ Aside(d) /\ Stays(d) /\ GenMoves(d)
  BY OthersStill, ServiceStays, GenMoved DEF Known, TypeOK, ServiceType
<1>1. WireShared' /\ \A r \in Records : WireOK(d, r)'
  <2>1. CASE PreparePush(d)
    BY <2>1, WireSends
  <2>2. CASE ~PreparePush(d)
    <3>1. wire' = wire /\ space'.gen = space.gen /\ space'.backup = space.backup
      BY <1>0, <2>2 DEF Stays, SameSpace
    <3>2. \A m \in wire : scope'[m.id[1]].gen = scope[m.id[1]].gen
      <4>1. ASSUME NEW m \in wire PROVE scope'[m.id[1]].gen = scope[m.id[1]].gen
        <5>1. m.id[1] \in Devices
          BY <1>0, MutationId
        <5>2. CASE m.id[1] = d
          BY <1>0, <5>2, RetiresQuiet
        <5>3. CASE m.id[1] # d
          BY <1>0, <5>1, <5>3 DEF Aside, Still
        <5> QED BY <5>2, <5>3
      <4> QED BY <4>1
    <3>3. WireShared'
      BY <1>0, <3>1, <3>2 DEF WireShared, WireInv
    <3>4. ASSUME NEW r \in Records PROVE WireOK(d, r)'
      <4> DEFINE s == slot[d][r]
                 t == slot'[d][r]
      <4>0. WellFormed(s) /\ WellFormed(t) /\ RowWire(d, r, s, wire) /\ BatchWire(d, r)
        BY <1>0, WireParts DEF TypeOK, SlotsGood, WireInv
      <4>1. RowWire(d, r, t, wire)
        <5>1. CASE Retires(d)
          <6>1. scope'[d].gen # scope[d].gen
            <7>1. scope \in [Devices -> Scopes] /\ scope[d] \in Scopes
              BY <1>0 DEF TypeOK, DeviceType
            <7>2. scope'[d] = [scope[d] EXCEPT !.gen = seen[d].gen, !.backup = seen[d].backup,
                                       !.boot = FALSE, !.local = 0, !.bound = FALSE,
                                       !.control = NoOp]
              BY <5>1, <7>1 DEF Adopt, Retires
            <7> QED BY <5>1, <7>1, <7>2 DEF Scopes, Retires
          <6>2. \A m \in wire : m.id[1] # d
            BY <1>0, <6>1, RetiresQuiet
          <6>3. t = Retired(s)
            <7>1. slot \in [Devices -> [Records -> Outbox!Slot]]
              BY <1>0 DEF TypeOK, DeviceType
            <7> QED BY <5>1, <7>1 DEF Adopt, Retires
          <6>4. ~Sealed(t)
            BY <4>0, <6>3, RetiredRow
          <6> QED BY <6>2, <6>4 DEF RowWire, SentInOrder, Sealed, Outbox!Dirty
        <5>2. CASE ~Retires(d)
          <6>1. Reach(s, t)
            BY <2>2, <5>2, RowStep, MovedRow
          <6> HIDE DEF s, t
          <6> QED BY <1>0, <4>0, <6>1, ReachWire
        <5> QED BY <5>1, <5>2
      <4>2. BatchWire(d, r)'
        <5>1. CASE batch'[d][r] = Outbox!NoEnvelope
          BY <5>1 DEF BatchWire
        <5>2. CASE batch'[d][r] # Outbox!NoEnvelope
          <6>1. /\ batch'[d][r] = batch[d][r] /\ pc' = pc /\ scope' = scope
                /\ \E q \in Records, v \in Values : Edit(d, q, v)
            BY <1>0, <2>2, <5>2, BatchMoved
          <6>2. PICK q \in Records, v \in Values : Edit(d, q, v)
            BY <6>1
          <6>3. t.fly = s.fly
            <7>1. slot \in [Devices -> [Records -> Outbox!Slot]]
              BY <1>0 DEF TypeOK, DeviceType
            <7>2. CASE q = r
              <8>1. t = Edited(s, v, now, Queues(d), scope[d].gen # 0)
                BY <6>2, <7>1, <7>2 DEF Edit, Edited
              <8> HIDE DEF t
              <8> QED BY <6>2, <7>2, <8>1, EditedRow
            <7>3. CASE q # r
              BY <6>2, <7>1, <7>3 DEF Edit
            <7> QED BY <7>2, <7>3
          <6> QED BY <3>1, <4>0, <6>1, <6>3 DEF BatchWire, Request
        <5> QED BY <5>1, <5>2
      <4> QED BY <3>1, <4>1, <4>2 DEF RowWire, BatchWire, WireOK, Request
    <3> QED BY <3>3, <3>4
  <2> QED BY <2>1, <2>2
<1>2. ASSUME NEW e \in Devices, e # d, NEW r \in Records PROVE WireOK(e, r)'
  <2>1. /\ slot'[e] = slot[e] /\ batch'[e] = batch[e] /\ pc'[e] = pc[e] /\ scope'[e] = scope[e]
        /\ space'.gen = space.gen
    BY <1>0, <1>2 DEF Aside, Still, Stays, SameSpace
  <2>2. wire \subseteq wire' /\ \A m \in wire' : m.id[1] = e => m \in wire
    <3>1. CASE PreparePush(d)
      <4>1. PICK sent : wire' = wire \cup
            {[id |-> <<d, one, Outbox!Outgoing(slot[d][one]).n>>,
              val |-> Outbox!Outgoing(slot[d][one]).val,
              at |-> Outbox!Outgoing(slot[d][one]).at] : one \in sent}
        BY <3>1 DEF PreparePush, Outbox!PreparePush
      <4> QED BY <1>2, <4>1
    <3>2. CASE ~PreparePush(d)
      BY <1>0, <3>2 DEF Stays
    <3> QED BY <3>1, <3>2
  <2>3. WireOK(e, r)
    BY <1>0 DEF WireInv
  <2> QED BY <2>1, <2>2, <2>3 DEF WireOK
<1> QED BY <1>1, <1>2 DEF WireInv, WireShared

(* The service's steps do.                                                 *)
LEMMA WireRemote ==
  ASSUME TypeOK, PhaseInv, WireInv, Remote
  PROVE  WireInv'
<1>0. /\ UNCHANGED <<slot, batch, pc, scope>>
  BY RemoteUntouched DEF Untouched, database
<1>1. ASSUME wire' = wire, space'.gen = space.gen, wire # {} => space'.backup = "ready"
      PROVE  WireInv'
  BY <1>0, <1>1 DEF WireInv, WireOK
<1>2. ASSUME NEW op \in mail, ServeControl(op) PROVE WireInv'
  <2>1. space.backup # "ready" /\ space'.gen = space.gen /\ wire' = wire
    <3>1. space \in Spaces
      BY DEF TypeOK, ServiceType
    <3> QED BY <1>2, <3>1, ServeCases DEF Opens, Cancels, Completes, Spaces, ServeControl
  <2> QED BY <1>1, <2>1 DEF WireInv
<1>3. ASSUME NEW m, Rule(m) PROVE WireInv'
  BY <1>1, <1>3 DEF Rule, cloud, Outbox!ApplyMutation, Outbox!SupersedeMutation, WireInv
<1>4. ASSUME Retire PROVE WireInv'
  <2>1. wire' = {} /\ space'.gen = space.gen + 1
    BY <1>4 DEF Retire
  <2>2. ASSUME NEW d \in Devices PROVE scope[d].gen # space.gen + 1
    <3>1. scope[d].gen \in Nat /\ space.gen \in Nat /\ scope[d].gen <= space.gen
      BY DeviceFields DEF PhaseInv, PhaseOK, SeenOK
    <3> QED BY <3>1
  <2> QED BY <1>0, <2>1, <2>2 DEF WireInv, WireOK
<1>5. ASSUME ExpireReceipt PROVE WireInv'
  BY <1>1, <1>5 DEF ExpireReceipt, outbox, WireInv
<1> QED BY <1>2, <1>3, <1>4, <1>5 DEF Remote

(***************************************************************************)
(* Rulings and current revisions.                                          *)
(***************************************************************************)
(* A ruling stays what was ruled, and its record stays in the log.         *)
LEMMA VerdictNext ==
  ASSUME TypeOK, WireInv, WireInv', VerdictInv, HeadInv, Next
  PROVE  VerdictInv'
<1>0. /\ log \in Seq(Outbox!Published) /\ wire \subseteq Outbox!Mutation
  BY DEF TypeOK, ServiceType
<1>1. ASSUME NEW d \in Devices, DeviceStep(d) PROVE VerdictInv'
  <2>1. /\ verdict' = verdict /\ log' = log
    BY <1>1, ServiceStays DEF Stays
  <2>2. wire \subseteq wire'
    BY <1>1, ServiceStays DEF Stays, PreparePush, Outbox!PreparePush
  <2>3. \A m1, m2 \in wire' : m1.id = m2.id => m1 = m2
    BY DEF WireInv
  <2>4. ASSUME NEW id \in DOMAIN verdict
        PROVE  /\ \E m \in wire' : m.id = id
               /\ verdict[id].rev \in DOMAIN log
               /\ log[verdict[id].rev].rec = id[2]
               /\ \A m \in wire' : m.id = id /\ verdict[id].applied => log[verdict[id].rev].val = m.val
    <3>1. PICK m0 \in wire : m0.id = id
      BY DEF VerdictInv
    <3>2. \A m \in wire' : m.id = id => m = m0
      BY <2>2, <2>3, <3>1
    <3> QED BY <2>2, <3>1, <3>2 DEF VerdictInv
  <2> QED BY <2>1, <2>4 DEF VerdictInv
<1>2. ASSUME NEW op \in mail, ServeControl(op) PROVE VerdictInv'
  <2>1. space.backup # "ready" /\ verdict' = verdict
    BY <1>2, ServeCases DEF Opens, Cancels, Completes, ServeControl
  <2>2. wire = {}
    BY <2>1 DEF WireInv
  <2>3. DOMAIN verdict = {}
    BY <2>2 DEF VerdictInv
  <2> QED BY <2>1, <2>3 DEF VerdictInv
<1>3. ASSUME NEW m \in wire, Rule(m) PROVE VerdictInv'
  <2>0. m \in Outbox!Mutation /\ wire' = wire /\ Len(log) \in Nat
    BY <1>0, <1>3 DEF Rule, Outbox!ApplyMutation, Outbox!SupersedeMutation
  <2>1. ASSUME NEW result, Outbox!Decide(m, result), result.rev \in DOMAIN log',
               log'[result.rev].rec = m.id[2], result.applied => log'[result.rev].val = m.val,
               \A k \in DOMAIN log : k \in DOMAIN log' /\ log'[k] = log[k]
        PROVE  VerdictInv'
    <3>1. verdict' = [id \in DOMAIN verdict \cup {m.id} |-> IF id = m.id THEN result ELSE verdict[id]]
      BY <2>1 DEF Outbox!Decide
    <3>2. ASSUME NEW id \in DOMAIN verdict'
          PROVE  /\ \E n \in wire : n.id = id
                 /\ verdict'[id].rev \in DOMAIN log'
                 /\ log'[verdict'[id].rev].rec = id[2]
                 /\ \A n \in wire : n.id = id /\ verdict'[id].applied => log'[verdict'[id].rev].val = n.val
      <4>1. CASE id = m.id
        <5>1. verdict'[id] = result
          BY <3>1, <4>1
        <5>2. \A n \in wire : n.id = id => n = m
          BY <4>1 DEF WireInv
        <5> QED BY <2>1, <4>1, <5>1, <5>2
      <4>2. CASE id # m.id
        <5>1. id \in DOMAIN verdict /\ verdict'[id] = verdict[id]
          BY <3>1, <3>2, <4>2
        <5> QED BY <2>1, <5>1 DEF VerdictInv
      <4> QED BY <4>1, <4>2
    <3> QED BY <2>0, <3>2 DEF VerdictInv
  <2>2. CASE Outbox!ApplyMutation(m)
    <3> DEFINE result == [applied |-> TRUE, rev |-> Len(log) + 1]
               record == [rec |-> m.id[2], val |-> m.val, at |-> Outbox!EffectiveTime(m)]
    <3>1. log' = Append(log, record) /\ Outbox!Decide(m, result)
      BY <2>2 DEF Outbox!ApplyMutation
    <3>2. result.rev = Len(log) + 1 /\ record.rec = m.id[2] /\ record.val = m.val
      OBVIOUS
    <3> HIDE DEF result, record
    <3>3. /\ DOMAIN log' = 1..(Len(log) + 1)
          /\ log'[Len(log) + 1] = record
          /\ \A k \in DOMAIN log : k \in DOMAIN log' /\ log'[k] = log[k]
      BY <1>0, <2>0, <3>1
    <3>4. Len(log) + 1 \in DOMAIN log'
      BY <2>0, <3>3
    <3>5. result.rev \in DOMAIN log' /\ log'[result.rev].rec = m.id[2]
          /\ log'[result.rev].val = m.val
      BY <3>2, <3>3, <3>4
    <3> QED BY <2>1, <3>1, <3>3, <3>5
  <2>3. CASE Outbox!SupersedeMutation(m)
    <3> DEFINE result == [applied |-> FALSE, rev |-> head[m.id[2]]]
    <3>1. Outbox!Decide(m, result) /\ log' = log /\ head[m.id[2]] > 0 /\ m.id[2] \in Records
      BY <2>0, <2>3, MutationId DEF Outbox!SupersedeMutation, Outbox!Wins
    <3>2. result.rev = head[m.id[2]] /\ ~result.applied
      OBVIOUS
    <3> HIDE DEF result
    <3>3. result.rev \in DOMAIN log /\ log[result.rev].rec = m.id[2]
      BY <3>1, <3>2 DEF HeadInv
    <3> QED BY <2>1, <3>1, <3>2, <3>3
  <2> QED BY <1>3, <2>2, <2>3 DEF Rule
<1>4. ASSUME Retire PROVE VerdictInv'
  <2>1. DOMAIN verdict' = {}
    BY <1>4 DEF Retire
  <2> QED BY <2>1 DEF VerdictInv
<1>5. ASSUME ExpireReceipt PROVE VerdictInv'
  BY <1>5 DEF ExpireReceipt, outbox, VerdictInv
<1> QED BY <1>1, <1>2, <1>3, <1>4, <1>5 DEF Next, ServiceNext, DeviceStep

(* The service's records keep their current revisions.                     *)
LEMMA HeadNext ==
  ASSUME TypeOK, HeadInv, Next
  PROVE  HeadInv'
<1>0. /\ log \in Seq(Outbox!Published) /\ wire \subseteq Outbox!Mutation
      /\ head \in [Records -> Nat]
  BY DEF TypeOK, ServiceType
<1>k. ASSUME log' = log, head' = head PROVE HeadInv'
  BY <1>k DEF HeadInv
<1>1. ASSUME NEW d \in Devices, DeviceStep(d) PROVE HeadInv'
  BY <1>k, <1>1, ServiceStays DEF Stays
<1>2. ASSUME NEW op \in mail, ServeControl(op) PROVE HeadInv'
  <2>1. CASE Opens(op) \/ Cancels(op)
    BY <1>k, <2>1 DEF Opens, Cancels
  <2>2. CASE Completes(op)
    <3>1. log' \in Seq(Outbox!Published) /\ head' \in HeadsOf(log')
      BY <2>2, PublishedType DEF Completes
    <3>2. /\ head' \in [Records -> 0..Len(log')]
          /\ \A r \in Records : head'[r] > 0 => log'[head'[r]].rec = r
          /\ \A k \in DOMAIN log' : k <= head'[log'[k].rec]
      BY <3>1 DEF HeadsOf
    <3> QED BY <3>1, <3>2 DEF HeadInv
  <2> QED BY <1>2, <2>1, <2>2, ServeCases
<1>3. ASSUME NEW m \in wire, Rule(m) PROVE HeadInv'
  <2>0. m \in Outbox!Mutation /\ Len(log) \in Nat
    BY <1>0
  <2>2. CASE Outbox!ApplyMutation(m)
    <3> DEFINE record == [rec |-> m.id[2], val |-> m.val, at |-> Outbox!EffectiveTime(m)]
    <3>1. log' = Append(log, record) /\ head' = [head EXCEPT ![m.id[2]] = Len(log) + 1]
      BY <2>2 DEF Outbox!ApplyMutation
    <3>2. record.rec = m.id[2] /\ m.id[2] \in Records
      BY <2>0, MutationId
    <3> HIDE DEF record
    <3>3. /\ DOMAIN log' = 1..(Len(log) + 1) /\ DOMAIN log = 1..Len(log)
          /\ log'[Len(log) + 1] = record
          /\ \A k \in 1..Len(log) : log'[k] = log[k]
      BY <1>0, <2>0, <3>1
    <3>4. \A r \in Records : head'[r] = IF r = m.id[2] THEN Len(log) + 1 ELSE head[r]
      BY <1>0, <3>1
    <3>5. ASSUME NEW r \in Records, head'[r] > 0
          PROVE  head'[r] \in DOMAIN log' /\ log'[head'[r]].rec = r
      <4>1. CASE r = m.id[2]
        BY <2>0, <3>2, <3>3, <3>4, <4>1
      <4>2. CASE r # m.id[2]
        <5>1. head'[r] = head[r] /\ head[r] \in 1..Len(log) /\ log[head[r]].rec = r
          BY <3>3, <3>4, <3>5, <4>2 DEF HeadInv
        <5> QED BY <2>0, <3>3, <5>1
      <4> QED BY <4>1, <4>2
    <3>6. ASSUME NEW k \in DOMAIN log' PROVE k <= head'[log'[k].rec]
      <4>1. CASE k = Len(log) + 1
        BY <2>0, <3>2, <3>3, <3>4, <4>1
      <4>2. CASE k # Len(log) + 1
        <5>1. k \in 1..Len(log) /\ log'[k] = log[k]
          BY <2>0, <3>3, <3>6, <4>2
        <5>2. log[k].rec \in Records /\ k <= head[log[k].rec]
          <6>1. log[k] \in Outbox!Published /\ k \in DOMAIN log
            BY <1>0, <3>3, <5>1
          <6> QED BY <6>1 DEF HeadInv, Outbox!Published
        <5>3. CASE log[k].rec = m.id[2]
          BY <2>0, <3>4, <5>1, <5>2, <5>3
        <5>4. CASE log[k].rec # m.id[2]
          BY <3>4, <5>1, <5>2, <5>4
        <5> QED BY <5>3, <5>4
      <4> QED BY <4>1, <4>2
    <3> QED BY <3>5, <3>6 DEF HeadInv
  <2>3. CASE Outbox!SupersedeMutation(m)
    BY <1>k, <2>3 DEF Outbox!SupersedeMutation
  <2> QED BY <1>3, <2>2, <2>3 DEF Rule
<1>4. ASSUME Retire PROVE HeadInv'
  <2>1. log' = <<>> /\ head' = [r \in Records |-> 0]
    BY <1>4 DEF Retire
  <2> QED BY <2>1 DEF HeadInv
<1>5. ASSUME ExpireReceipt PROVE HeadInv'
  BY <1>k, <1>5 DEF ExpireReceipt, outbox
<1> QED BY <1>1, <1>2, <1>3, <1>4, <1>5 DEF Next, ServiceNext, DeviceStep

-----------------------------------------------------------------------------
(***************************************************************************)
(* Mirrors.                                                                *)
(***************************************************************************)
(* A mirror of a record is not newer than its current revision.            *)
LEMMA MirrorHead ==
  ASSUME TypeOK, HeadInv, MirrorInv, NEW d \in Devices, Of(d), NEW r \in Records
  PROVE  slot[d][r].rrev <= head[r]
<1>1. slot[d][r].rrev \in Nat /\ head[r] \in Nat
  BY RowFields DEF TypeOK, SlotsGood, ServiceType
<1>2. CASE slot[d][r].rrev > 0
  <2> DEFINE rev == slot[d][r].rrev
             s == slot[d][r]
  <2>0. rev \in DOMAIN log /\ log[rev] = [rec |-> r, val |-> s.rval, at |-> s.rat]
    BY <1>2, MirrorKnown
  <2> HIDE DEF rev
  <2>1. rev \in DOMAIN log /\ log[rev].rec = r
    BY <2>0
  <2> QED BY <2>1 DEF HeadInv, rev
<1> QED BY <1>1, <1>2

(* A device that does not retire its rows was in the generation before.    *)
LEMMA OfBefore ==
  ASSUME TypeOK, PhaseInv, NEW d \in Devices, DeviceStep(d), ~Retires(d), Of(d)'
  PROVE  Of(d)
<1>1. SameSpace /\ GenMoves(d) /\ PhaseOK(d)
  BY ServiceStays, GenMoved DEF Stays, PhaseInv
<1>2. CASE scope'[d].gen = scope[d].gen
  BY <1>1, <1>2 DEF Of, SameSpace
<1>3. CASE scope'[d].gen # scope[d].gen
  <2>1. /\ Adopt(d) /\ scope[d].gen < seen[d].gen /\ seen[d].gen <= space.gen
        /\ scope'[d].gen = seen[d].gen
    BY <1>1, <1>3 DEF GenMoves
  <2>2. scope[d].gen \in Nat /\ seen[d].gen \in Nat /\ space.gen \in Nat
    BY DeviceFields
  <2>3. scope[d].gen = 0 /\ seen[d].origin = "legacy"
    BY <2>1, <2>2 DEF Retires
  <2>4. seen[d].gen = space.gen
    BY <1>1, <2>1, <2>2, <2>3 DEF Of, SameSpace
  <2> QED BY <1>1, <2>3, <2>4 DEF PhaseOK, SeenOK, Of
<1> QED BY <1>2, <1>3

(* Where a device stands whose space holds no records it could read.       *)
LEMMA UnreadyApart ==
  ASSUME TypeOK, PhaseInv, NEW d \in Devices, Of(d), space.backup # "ready"
  PROVE  /\ scope[d].gen = space.gen
         /\ ~scope[d].boot
         /\ life[d] \notin {"publish", "run"}
<1>1. SpaceOK /\ PhaseOK(d) /\ scope[d].gen \in Nat /\ space.gen \in Nat \ {0}
  BY DeviceFields DEF PhaseInv
<1>2. scope[d].gen = space.gen
  BY <1>1 DEF Of, SpaceOK
<1>3. ~scope[d].boot
  BY <1>1, <1>2 DEF PhaseOK, PartOK
<1>4. life[d] # "run"
  BY <1>1, <1>3 DEF PhaseOK, PlaceOK
<1>5. life[d] # "publish"
  BY <1>1, <1>2 DEF PhaseOK, PlaceOK, SeenOK
<1> QED BY <1>2, <1>3, <1>4, <1>5

(* While the space is not ready no row of a device in it has a mirror.     *)
LEMMA UnreadyRow ==
  ASSUME Known, NEW d \in Devices, DeviceStep(d), ~Retires(d), Of(d), space.backup # "ready",
         NEW r \in Records
  PROVE  slot'[d][r].rrev = slot[d][r].rrev
<1>0. TypeOK /\ PhaseInv /\ Row(d, r) /\ PhaseOK(d)
  BY DEF Known, TypeOK, SlotsGood, Row, PhaseInv
<1>1. life[d] \notin {"publish", "run"} /\ pc[d] = "idle"
  BY <1>0, UnreadyApart DEF PhaseOK, PlaceOK
<1>2. ~PublishFullPull(d) /\ ~CommitPullPage(d) /\ ~JoinRebuilt(d) /\ ~CompleteBootstrap(d)
      /\ ~PreparePush(d) /\ ~CommitPushPrefix(d) /\ ~StartRun(d)
  BY <1>1 DEF PublishFullPull, CommitPullPage, JoinRebuilt, CompleteBootstrap, PreparePush,
     CommitPushPrefix, StartRun, Steady
<1>3. slot \in [Devices -> [Records -> Outbox!Slot]]
  BY <1>0 DEF TypeOK, DeviceType
<1> DEFINE s == slot[d][r]
           t == slot'[d][r]
           Goal == t.rrev = s.rrev
<1>4. CASE slot' = slot
  BY <1>4
<1>5. CASE Adopt(d)
  BY <1>5 DEF Adopt, Retires
<1>6. CASE BeginRebuild(d)
  <2>1. t = Chosen(s)
    BY <1>3, <1>6 DEF BeginRebuild
  <2>2. ~Sealed(s)
    BY <1>6, BeginsUnsealed DEF Known
  <2> QED BY <1>0, <2>1, <2>2, ChosenRow DEF SameMirror, Row
<1>7. CASE Settle(d)
  <2>1. CASE CompleteRebuild(d)
    <3>1. t = IF entries[d][r] = NoEntry THEN s
              ELSE [s EXCEPT !.merge = Changed(s, entries[d][r])]
      BY <1>3, <2>1 DEF CompleteRebuild
    <3> QED BY <1>0, <3>1, RemarkRow DEF Remarks, SameMirror, Row
  <2>2. CASE ~CompleteRebuild(d)
    <3>1. slot' = slot
      BY <1>7, <2>2 DEF Settle
    <3> QED BY <3>1
  <2> QED BY <2>1, <2>2
<1>8. ASSUME NEW q \in Records, NEW v \in Values, Edit(d, q, v) PROVE Goal
  <2>1. CASE q = r
    <3>1. t = Edited(s, v, now, Queues(d), scope[d].gen # 0)
      BY <1>3, <1>8, <2>1 DEF Edit, Edited
    <3> QED BY <1>8, <2>1, <3>1, EditedRow DEF SameMirror
  <2>2. CASE q # r
    <3>1. t = s
      BY <1>3, <1>8, <2>2 DEF Edit
    <3> QED BY <3>1
  <2> QED BY <2>1, <2>2
<1> QED
  BY <1>0, <1>2, <1>4, <1>5, <1>6, <1>7, <1>8, ServiceStays DEF Stays, Writes

(* The mirrors of a device that stays in its generation.                   *)
LEMMA MirrorRows ==
  ASSUME Known, NEW d \in Devices, DeviceStep(d), Of(d)', NEW r \in Records
  PROVE  /\ MirrorOK(d, r)'
         /\ (space.backup # "ready")' => slot'[d][r].rrev = 0
<1>0. TypeOK /\ PhaseInv /\ MirrorInv /\ Stays(d) /\ Row(d, r)
  BY ServiceStays DEF Known, TypeOK, SlotsGood, Row
<1> DEFINE s == slot[d][r]
           t == slot'[d][r]
<1>1. log' = log /\ space'.backup = space.backup /\ log \in Seq(Outbox!Published)
  BY <1>0 DEF Stays, SameSpace, TypeOK, ServiceType
<1>2. CASE Retires(d)
  <2>1. t.rrev = 0
    <3>1. t = Retired(s)
      BY <1>0, <1>2 DEF Adopt, Retires, TypeOK, DeviceType
    <3> QED BY <1>0, <3>1, RetiredRow DEF Row
  <2> QED BY <2>1 DEF MirrorOK
<1>3. CASE ~Retires(d)
  <2>1. Of(d)
    BY <1>0, <1>3, OfBefore
  <2>2. MirrorMoves(r, s, t)
    BY <1>3, RowStep, MovedRow
  <2>3. MirrorOK(d, r) /\ (space.backup # "ready" => s.rrev = 0)
    BY <1>0, <2>1 DEF MirrorInv
  <2>4. MirrorOK(d, r)'
    <3>1. CASE SameMirror(s, t)
      BY <1>1, <2>3, <3>1 DEF MirrorOK, SameMirror
    <3>2. CASE ~SameMirror(s, t)
      <4>1. PICK k \in DOMAIN log : /\ log[k] = [rec |-> r, val |-> t.rval, at |-> t.rat]
                                    /\ t.rrev = k
        BY <2>2, <3>2 DEF MirrorMoves
      <4>2. k <= Len(log)
        BY <1>1, <4>1
      <4> QED BY <1>1, <4>1, <4>2 DEF MirrorOK
    <3> QED BY <3>1, <3>2
  <2>5. space.backup # "ready" => t.rrev = s.rrev
    BY <1>0, <1>3, <2>1, UnreadyRow
  <2> QED BY <1>1, <2>3, <2>4, <2>5
<1> QED BY <1>2, <1>3

(* A cursor moves with the records it passes.                              *)
(* A cursor stays, begins anew, or moves to the end of what was read.      *)
CursorMoves(d) ==
  \/ ~scope'[d].boot
  \/ cursor'[d] = cursor[d] /\ scope'[d].boot = scope[d].boot /\ ~Retires(d)
  \/ CommitPullPage(d) /\ scope' = scope
  \/ PublishFullPull(d) /\ space.gen = scope[d].gen

(* No step of a device moves the cursor otherwise.                         *)
LEMMA CursorMoved ==
  ASSUME TypeOK, NEW d \in Devices, DeviceStep(d)
  PROVE  CursorMoves(d)
<1>0. /\ scope[d] \in Scopes /\ scope \in [Devices -> Scopes] /\ cursor \in [Devices -> Nat]
  BY DeviceFields DEF TypeOK, DeviceType
<1> DEFINE Goal == CursorMoves(d)
<1>k. ASSUME scope' = scope, cursor' = cursor, ~Adopt(d) PROVE Goal
  BY <1>k DEF CursorMoves, Retires
<1>p. ASSUME NEW s, scope' = [scope EXCEPT ![d] = s], s.boot = scope[d].boot, cursor' = cursor,
             ~Adopt(d)
      PROVE Goal
  BY <1>0, <1>p DEF CursorMoves, Retires
<1>q. ASSUME NEW s, scope' = [scope EXCEPT ![d] = s], s.boot = FALSE
      PROVE Goal
  BY <1>0, <1>q DEF CursorMoves
<1>3. ASSUME Adopt(d) PROVE Goal
  <2>1. CASE scope[d].gen = seen[d].gen
    <3>1. scope' = [scope EXCEPT ![d].backup = seen[d].backup] /\ cursor' = cursor
      BY <1>3, <2>1 DEF Adopt
    <3>2. scope'[d] = [scope[d] EXCEPT !.backup = seen[d].backup]
      BY <1>0, <3>1
    <3> QED BY <1>0, <2>1, <3>1, <3>2 DEF Scopes, CursorMoves, Retires
  <2>2. CASE scope[d].gen # seen[d].gen /\ scope[d].gen = 0 /\ seen[d].origin = "legacy"
    <3>1. /\ scope' = [scope EXCEPT ![d].gen = seen[d].gen, ![d].backup = seen[d].backup]
          /\ cursor' = cursor
      BY <1>3, <2>2 DEF Adopt
    <3>2. scope'[d] = [scope[d] EXCEPT !.gen = seen[d].gen, !.backup = seen[d].backup]
      BY <1>0, <3>1
    <3> QED BY <1>0, <2>2, <3>1, <3>2 DEF Scopes, CursorMoves, Retires
  <2>3. CASE scope[d].gen # seen[d].gen /\ ~(scope[d].gen = 0 /\ seen[d].origin = "legacy")
    <3> DEFINE s == [scope[d] EXCEPT !.gen = seen[d].gen, !.backup = seen[d].backup,
                                   !.boot = FALSE, !.local = 0, !.bound = FALSE,
                                   !.control = NoOp]
    <3>1. scope' = [scope EXCEPT ![d] = s]
      BY <1>3, <2>3 DEF Adopt
    <3>2. s.boot = FALSE
      BY <1>0 DEF Scopes
    <3> HIDE DEF s
    <3> QED BY <1>q, <3>1, <3>2
  <2> QED BY <2>1, <2>2, <2>3
<1>a. CASE Adopt(d)
  BY <1>3, <1>a
<1>b. CASE ~Adopt(d)
  <2>1. CASE ReadStatus(d) \/ Without(d) \/ Refuse(d) \/ Resume(d) \/ AnswerControl(d) \/ Verify(d)
             \/ Reread(d) \/ Upload(d) \/ Activate(d) \/ CommitStaged(d)
    BY <1>b, <2>1, <1>k DEF ReadStatus, Without, Refuse, Resume, AnswerControl, Verify, Reread,
       Upload, Activate, CommitStaged, outbox, database
  <2>2. CASE StagePush(d) \/ Progress(d) \/ Verdict(d) \/ FullPage(d) \/ ConfirmPull(d)
    BY <1>b, <2>2, <1>k DEF StagePush, Progress, Verdict, FullPage, ConfirmPull, database
  <2>4. CASE Quarantine(d)
    <3> DEFINE s == [Cancelled(scope[d]) EXCEPT !.backup = seen[d].backup]
    <3>1. (scope' = scope \/ scope' = [scope EXCEPT ![d] = s]) /\ cursor' = cursor
      BY <2>4 DEF Quarantine, outbox
    <3>2. s.boot = scope[d].boot
      BY <1>0 DEF Cancelled, Scopes
    <3> HIDE DEF s
    <3> QED BY <1>b, <1>k, <1>p, <3>1, <3>2
  <2>5. ASSUME NEW op, NEW next, Send(d, op, next), cursor' = cursor PROVE Goal
    <3> DEFINE s == [scope[d] EXCEPT !.control = op]
    <3>1. scope' = [scope EXCEPT ![d] = s]
      BY <2>5 DEF Send
    <3>2. s.boot = scope[d].boot
      BY <1>0 DEF Scopes
    <3> HIDE DEF s
    <3> QED BY <1>b, <1>p, <2>5, <3>1, <3>2
  <2>6. CASE CancelRebuild(d) \/ OpenAttempt(d) \/ CompleteAttempt(d)
    BY <2>5, <2>6 DEF CancelRebuild, OpenAttempt, CompleteAttempt, outbox
  <2>7. CASE BeginRebuild(d)
    <3> DEFINE s == [scope[d] EXCEPT !.backup = "rebuilding", !.bound = FALSE,
                             !.local = scope[d].n + 1, !.n = scope[d].n + 1]
    <3>1. scope' = [scope EXCEPT ![d] = s] /\ cursor' = cursor
      BY <2>7 DEF BeginRebuild
    <3>2. s.boot = scope[d].boot
      BY <1>0 DEF Scopes
    <3> HIDE DEF s
    <3> QED BY <1>b, <1>p, <3>1, <3>2
  <2>8. ASSUME scope' = [scope EXCEPT ![d] = Rejected(scope[d])], cursor' = cursor PROVE Goal
    <3>2. Rejected(scope[d]).boot = scope[d].boot
      BY <1>0 DEF Rejected, Cancelled, Scopes
    <3> QED BY <1>b, <1>p, <2>8, <3>2
  <2>9. CASE RejectControl(d)
    BY <2>8, <2>9 DEF RejectControl
  <2>10. CASE Settle(d)
    <3> DEFINE s == [scope[d] EXCEPT !.bound = TRUE, !.control = NoOp]
               u == [scope[d] EXCEPT !.backup = "ready", !.local = 0, !.bound = FALSE,
                                     !.boot = FALSE, !.control = NoOp]
    <3>1. \/ cursor' = cursor /\ scope' = scope
          \/ cursor' = cursor /\ scope' = [scope EXCEPT ![d] = s]
          \/ scope' = [scope EXCEPT ![d] = u]
          \/ cursor' = cursor /\ scope' = [scope EXCEPT ![d] = Rejected(scope[d])]
      BY <2>10 DEF Settle, CompleteRebuild
    <3>2. s.boot = scope[d].boot /\ u.boot = FALSE
      BY <1>0 DEF Scopes
    <3> HIDE DEF s, u
    <3> QED BY <1>b, <1>k, <1>p, <1>q, <2>8, <3>1, <3>2
  <2>11. CASE PublishFullPull(d)
    <3>1. CASE space.gen = scope[d].gen
      BY <2>11, <3>1 DEF CursorMoves
    <3>2. CASE space.gen # scope[d].gen
      BY <1>b, <1>k, <2>11, <3>2 DEF PublishFullPull
    <3> QED BY <3>1, <3>2
  <2>12. CASE Synchronise(d) /\ ~CommitPullPage(d)
    BY <1>b, <1>k, <2>12 DEF Synchronise, StartRun, StartUnready, PullPage, JoinRebuilt,
       CompleteBootstrap, PreparePush, CommitPushPrefix, FinishRun, Refused, Steady, database,
       Outbox!StartRun, Outbox!PullPage, Outbox!CompleteBootstrap, Outbox!PreparePush,
       Outbox!CommitPushPrefix, Outbox!FinishRun, Outbox!database
  <2>13. CASE CommitPullPage(d)
    BY <2>13 DEF CommitPullPage, Steady, database, CursorMoves
  <2>14. CASE UserNext(d) \/ Fail(d)
    BY <1>b, <1>k, <2>14 DEF UserNext, Edit, Ask, Fail, database, outbox
  <2> QED
    BY <1>b, <2>1, <2>2, <2>4, <2>6, <2>7, <2>9, <2>10, <2>11, <2>12, <2>13, <2>14
    DEF Prepare, DeviceStep
<1> QED BY <1>a, <1>b

(* A row that observes the current revision of its record is at it.        *)
LEMMA ObservedAtHead ==
  ASSUME TypeOK, HeadInv, MirrorInv, NEW d \in Devices, Of(d), NEW r \in Records,
         head[r] > 0, NEW t, Observed(slot[d][r], t, Outbox!AsRecord(head[r]))
  PROVE  t.rrev = head[r]
<1>1. slot[d][r].rrev <= head[r] /\ slot[d][r].rrev \in Nat /\ head[r] \in Nat
  BY MirrorHead, RowFields DEF TypeOK, SlotsGood, ServiceType
<1>2. Outbox!AsRecord(head[r]).rev = head[r]
  BY DEF Outbox!AsRecord
<1> QED BY <1>1, <1>2 DEF Observed, SameMirror

(* A row whose mirror is at the current revision stays at it.              *)
LEMMA StaysAtHead ==
  ASSUME Known, HeadInv, NEW d \in Devices, DeviceStep(d), ~Retires(d), NEW r \in Records,
         slot[d][r].rrev = head[r]
  PROVE  slot'[d][r].rrev = head[r]
<1> DEFINE s == slot[d][r]
           t == slot'[d][r]
<1>0. TypeOK /\ log \in Seq(Outbox!Published) /\ head[r] \in Nat
  BY DEF Known, TypeOK, ServiceType
<1>1. MirrorMoves(r, s, t)
  BY RowStep, MovedRow
<1>2. CASE SameMirror(s, t)
  BY <1>2 DEF SameMirror
<1>3. CASE ~SameMirror(s, t)
  <2>1. PICK k \in DOMAIN log : log[k] = [rec |-> r, val |-> t.rval, at |-> t.rat] /\ k > s.rrev
    BY <1>1, <1>3 DEF MirrorMoves
  <2>2. k <= head[r] /\ k \in Nat
    BY <1>0, <2>1 DEF HeadInv
  <2> QED BY <1>0, <2>1, <2>2
<1> QED BY <1>2, <1>3

(* A committed page takes the cursor past nothing that is not mirrored.    *)
LEMMA CursorPull ==
  ASSUME Known, HeadInv, NEW d \in Devices, CommitPullPage(d), Of(d), scope[d].boot
  PROVE  CursorOK(d)'
<1>0. /\ TypeOK /\ MirrorInv /\ slot \in [Devices -> [Records -> Outbox!Slot]]
      /\ cursor \in [Devices -> Nat] /\ page[d].next \in Nat /\ log' = log /\ head' = head
      /\ DeviceStep(d) /\ head \in [Records -> Nat]
      /\ \A r \in Records : Row(d, r)
  BY DEF Known, TypeOK, DeviceType, SlotsGood, Row, Pages, ServiceType, CommitPullPage,
     Outbox!CommitPullPage, Outbox!server, DeviceStep, Synchronise
<1>1. CursorOK(d) /\ PageOK(d) /\ pc[d] = "page"
  BY <1>0 DEF MirrorInv, CommitPullPage, Outbox!CommitPullPage
<1>2. cursor'[d] = page[d].next
  BY <1>0 DEF CommitPullPage, Outbox!CommitPullPage, Outbox!PageCursor
<1>3. ~Retires(d)
  BY <1>1, <1>0 DEF Retires, Adopt, CommitPullPage, Steady
<1>4. ASSUME NEW r \in Records, head[r] <= page[d].next PROVE slot'[d][r].rrev = head[r]
  <2>1. CASE head[r] <= cursor[d]
    <3>1. slot[d][r].rrev = head[r]
      BY <1>1, <2>1 DEF CursorOK
    <3> QED BY <1>0, <1>3, <3>1, StaysAtHead
  <2>2. CASE head[r] > cursor[d]
    <3> DEFINE k0 == CHOOSE k \in page[d].revs : log[k].rec = r
               s == slot[d][r]
               t == slot'[d][r]
               o == Outbox!Observe(s, Outbox!AsRecord(k0), TRUE)
    <3>1. /\ head[r] \in page[d].revs /\ head[r] > 0 /\ log[head[r]].rec = r
          /\ head[r] \in DOMAIN log
      BY <1>0, <1>1, <1>4, <2>2 DEF PageOK, HeadInv
    <3>2. k0 \in page[d].revs /\ log[k0].rec = r
      BY <3>1
    <3>3. k0 = head[r]
      BY <1>1, <3>1, <3>2 DEF PageOK
    <3>4. t = Outbox!Project(o)
      BY <1>0, <3>1 DEF CommitPullPage, Outbox!CommitPullPage
    <3> HIDE DEF k0, s, t
    <3>5. Outbox!AsRecord(k0) \in Record
      BY <1>0, <3>1, <3>3, RecordOf
    <3>6. WellFormed(o) /\ Observed(s, o, Outbox!AsRecord(k0))
      BY <1>0, <3>5, ObserveRow DEF Row, s
    <3> HIDE DEF o
    <3>7. Observed(s, t, Outbox!AsRecord(k0))
      BY <3>4, <3>6, ProjectRow DEF Observed, SameMirror
    <3> QED BY <1>0, <3>1, <3>3, <3>7, ObservedAtHead DEF s, t
  <2> QED BY <1>0, <2>1, <2>2
<1> QED BY <1>0, <1>1, <1>2, <1>4 DEF CursorOK, PageOK

(* So does a published full pull.                                          *)
LEMMA CursorPublish ==
  ASSUME Known, HeadInv, NEW d \in Devices, PublishFullPull(d), space.gen = scope[d].gen
  PROVE  CursorOK(d)'
<1>0. /\ TypeOK /\ MirrorInv /\ PhaseInv /\ slot \in [Devices -> [Records -> Outbox!Slot]]
      /\ cursor \in [Devices -> Nat] /\ log' = log /\ head' = head
      /\ stage[d] \in Stages /\ Of(d) /\ space' = space
      /\ DeviceStep(d) /\ head \in [Records -> Nat] /\ log \in Seq(Outbox!Published)
      /\ \A r \in Records : Row(d, r)
  BY DEF Known, TypeOK, DeviceType, SlotsGood, Row, Stages, ServiceType, PublishFullPull, Of,
     UnchangedService, cloud, DeviceStep, Prepare
<1>1. StageOK(d) /\ stage[d].complete
  BY <1>0 DEF MirrorInv, PublishFullPull
<1>2. cursor'[d] = stage[d].head /\ stage[d].head \in Nat /\ Len(log) \in Nat
  BY <1>0 DEF PublishFullPull, Stages
<1>a. ~Retires(d)
  BY DEF Retires, Adopt, PublishFullPull
<1>3. Of(d)'
  <2>1. scope'[d].gen = scope[d].gen
    BY <1>0, GenMoved DEF GenMoves, PublishFullPull, Adopt
  <2> QED BY <1>0, <2>1 DEF Of
<1>4. ASSUME NEW r \in Records, head[r] <= stage[d].head PROVE slot'[d][r].rrev = head[r]
  <2> DEFINE s == slot[d][r]
             t == slot'[d][r]
             revs == {k \in stage[d].revs : log[k].rec = r}
             k0 == CHOOSE k \in revs : TRUE
             u == IF revs = {} THEN s
                  ELSE Outbox!Project(Outbox!Observe(s, Outbox!AsRecord(k0), TRUE))
             o == Outbox!Observe(s, Outbox!AsRecord(k0), TRUE)
  <2>1. CASE head[r] = 0
    <3>1. s.rrev = head[r]
      BY <1>0, <2>1, MirrorHead, RowFields DEF Row
    <3> QED BY <1>0, <1>a, <3>1, StaysAtHead
  <2>2. CASE head[r] > 0
    <3>1. head[r] \in stage[d].revs /\ log[head[r]].rec = r /\ head[r] \in DOMAIN log
      BY <1>0, <1>1, <1>2, <1>4, <2>2 DEF StageOK, HeadInv
    <3>2. k0 \in stage[d].revs /\ log[k0].rec = r /\ revs # {}
      BY <3>1
    <3>3. k0 = head[r]
      BY <1>1, <3>1, <3>2 DEF StageOK
    <3>4. t = Outbox!Project(u) \/ t = Outbox!Project(Outbox!Bind(u))
      <4> DEFINE rows == [q \in Records |->
                   LET ks == {k \in stage[d].revs : log[k].rec = q}
                       x == IF ks = {} THEN slot[d][q]
                            ELSE Outbox!Project(Outbox!Observe(slot[d][q],
                                   Outbox!AsRecord(CHOOSE k \in ks : TRUE), TRUE))
                   IN  IF seen[d].origin = "rebuilt" THEN Outbox!Project(x)
                       ELSE Outbox!Project(Outbox!Bind(x))]
      <4>1. slot' = [slot EXCEPT ![d] = rows]
        BY DEF PublishFullPull
      <4>2. rows[r] = Outbox!Project(u) \/ rows[r] = Outbox!Project(Outbox!Bind(u))
        OBVIOUS
      <4> HIDE DEF rows
      <4>3. slot'[d] = rows
        BY <1>0, <4>1
      <4> QED BY <4>2, <4>3
    <3>5. u = Outbox!Project(o)
      BY <3>2
    <3> HIDE DEF k0, s, t, u, revs
    <3>6. Outbox!AsRecord(k0) \in Record
      BY <1>0, <3>1, <3>3, RecordOf
    <3>7. WellFormed(o) /\ Observed(s, o, Outbox!AsRecord(k0))
      BY <1>0, <3>6, ObserveRow DEF Row, s
    <3> HIDE DEF o
    <3>8. SameMirror(o, u) /\ WellFormed(u)
      BY <3>5, <3>7, ProjectRow
    <3>9. SameMirror(u, t)
      BY <3>4, <3>8, ProjectMerges, BindMerges DEF Merged
    <3>10. Observed(s, t, Outbox!AsRecord(k0))
      BY <3>7, <3>8, <3>9 DEF Observed, SameMirror
    <3> QED BY <1>0, <2>2, <3>3, <3>10, ObservedAtHead DEF s, t
  <2> QED BY <1>0, <2>1, <2>2
<1> QED BY <1>0, <1>1, <1>2, <1>4 DEF CursorOK, StageOK

(* The cursor of a device that is part of its generation.                  *)
LEMMA CursorNext ==
  ASSUME Known, HeadInv, NEW d \in Devices, DeviceStep(d), Of(d)', scope'[d].boot
  PROVE  CursorOK(d)'
<1>0. TypeOK /\ PhaseInv /\ MirrorInv /\ Stays(d)
  BY ServiceStays DEF Known
<1>1. CASE CommitPullPage(d) /\ scope' = scope
  <2>1. ~Retires(d)
    BY <1>0, <1>1 DEF Retires, Adopt, CommitPullPage, Steady
  <2> QED BY <1>0, <1>1, <2>1, OfBefore, CursorPull
<1>2. CASE PublishFullPull(d) /\ space.gen = scope[d].gen
  BY <1>2, CursorPublish
<1>3. CASE cursor'[d] = cursor[d] /\ scope'[d].boot = scope[d].boot /\ ~Retires(d)
  <2>1. CursorOK(d)
    BY <1>0, <1>3, OfBefore DEF MirrorInv
  <2> QED BY <1>0, <1>3, <2>1, StaysAtHead DEF CursorOK, Stays
<1> QED BY <1>0, <1>1, <1>2, <1>3, CursorMoved DEF CursorMoves

(* A page in hand is one that was just read.                               *)
LEMMA PageMoved ==
  ASSUME TypeOK, PhaseInv, NEW d \in Devices, DeviceStep(d), (pc[d] = "page")'
  PROVE  \/ PullPage(d)
         \/ /\ pc[d] = "page" /\ page'[d] = page[d] /\ cursor'[d] = cursor[d]
            /\ scope' = scope
<1>0. pc \in [Devices -> Outbox!Phases] /\ PlaceOK(d)
  BY DEF TypeOK, DeviceType, PhaseInv, PhaseOK
<1>1. ~EndRun(d)
  BY <1>0 DEF EndRun
<1> DEFINE Goal == \/ PullPage(d)
                   \/ /\ pc[d] = "page" /\ page'[d] = page[d] /\ cursor'[d] = cursor[d]
                      /\ scope' = scope
<1>2. CASE Prepare(d)
  <2>1. pc' = pc
    <3>1. CASE ReadStatus(d) \/ Adopt(d) \/ Activate(d) \/ Quarantine(d) \/ Without(d) \/ Refuse(d)
               \/ Resume(d) \/ CancelRebuild(d) \/ BeginRebuild(d) \/ OpenAttempt(d)
               \/ AnswerControl(d) \/ RejectControl(d)
      BY <1>1, <3>1 DEF ReadStatus, Adopt, Activate, Quarantine, Without, Refuse, Resume,
         CancelRebuild, BeginRebuild, OpenAttempt, AnswerControl, RejectControl, outbox
    <3>2. CASE Verify(d) \/ Settle(d) \/ Reread(d) \/ Upload(d) \/ StagePush(d)
               \/ CommitStaged(d) \/ Progress(d) \/ CompleteAttempt(d) \/ Verdict(d)
      BY <1>1, <3>2 DEF Verify, Settle, Reread, Upload, StagePush, CommitStaged, Progress,
         CompleteAttempt, Verdict, outbox
    <3>3. CASE FullPage(d) \/ ConfirmPull(d) \/ PublishFullPull(d)
      BY <1>1, <3>3 DEF FullPage, ConfirmPull, PublishFullPull, Discard
    <3> QED BY <1>2, <3>1, <3>2, <3>3 DEF Prepare
  <2>2. life[d] = "run"
    BY <1>0, <2>1 DEF PlaceOK
  <2> QED
    BY <1>2, <2>2 DEF Prepare, ReadStatus, Adopt, Activate, Quarantine, Without, Refuse, Resume,
         CancelRebuild, BeginRebuild, OpenAttempt, AnswerControl, RejectControl, Verify, Settle,
         Reread, Upload, StagePush, CommitStaged, Progress, CompleteAttempt, Verdict, FullPage,
         ConfirmPull, PublishFullPull
<1>3. CASE Synchronise(d)
  <2>1. CASE PullPage(d)
    BY <2>1
  <2>2. CASE ~PullPage(d)
    BY <1>0, <1>1, <1>3, <2>2 DEF Synchronise, StartRun, StartUnready, CommitPullPage,
         JoinRebuilt, CompleteBootstrap, PreparePush, CommitPushPrefix, FinishRun, Refused,
         Outbox!StartRun, Outbox!CommitPullPage, Outbox!CompleteBootstrap, Outbox!PreparePush,
         Outbox!CommitPushPrefix, Outbox!FinishRun
  <2> QED BY <2>1, <2>2
<1>4. CASE UserNext(d) \/ Fail(d)
  BY <1>1, <1>4 DEF UserNext, Edit, Ask, Fail, outbox, database
<1> QED BY <1>2, <1>3, <1>4 DEF DeviceStep

(* The page that is read holds what the cursor is to pass.                 *)
LEMMA PageNext ==
  ASSUME Known, HeadInv, NEW d \in Devices, DeviceStep(d), (scope[d].gen = space.gen)'
  PROVE  PageOK(d)'
<1>0. /\ TypeOK /\ PhaseInv /\ MirrorInv /\ Stays(d) /\ PhaseOK(d)
      /\ head \in [Records -> Nat] /\ log \in Seq(Outbox!Published) /\ cursor \in [Devices -> Nat]
      /\ page \in [Devices -> Pages] /\ scope[d].gen \in Nat /\ space.gen \in Nat \ {0}
  BY ServiceStays, DeviceFields DEF Known, TypeOK, DeviceType, ServiceType, PhaseInv
<1>1. CASE (pc[d] # "page")'
  BY <1>1 DEF PageOK
<1>2. CASE /\ pc[d] = "page" /\ page'[d] = page[d] /\ cursor'[d] = cursor[d] /\ scope' = scope
  <2>1. PageOK(d)
    BY <1>0, <1>2 DEF MirrorInv, Stays, SameSpace
  <2> QED BY <1>0, <1>2, <2>1 DEF PageOK, Stays
<1>3. CASE PullPage(d)
  <2>1. PICK next \in IF Outbox!Owed(d) = {} THEN {cursor[d]} ELSE Outbox!Owed(d) :
          page' = [page EXCEPT ![d] =
                     [revs |-> {k \in Outbox!Owed(d) : k <= next},
                      next |-> next,
                      more |-> \E k \in Outbox!Owed(d) : k > next]]
    BY <1>3 DEF PullPage, Outbox!PullPage
  <2>2. page'[d].revs = {k \in Outbox!Owed(d) : k <= next} /\ page'[d].next = next
    BY <1>0, <2>1
  <2>3. cursor' = cursor /\ scope' = scope
    BY <1>3 DEF PullPage, Outbox!PullPage, Outbox!database, Steady, database
  <2>4. CursorOK(d)
    <3>1. pc[d] # "idle"
      BY <1>3 DEF PullPage, Outbox!PullPage
    <3>2. scope[d].boot
      BY <1>0, <3>1 DEF PhaseOK, PlaceOK
    <3> QED BY <1>0, <2>3, <3>2, <1>3 DEF MirrorInv, Of, PullPage
  <2>5. \A k \in Outbox!Owed(d) : k > cursor[d] /\ k \in DOMAIN log /\ k = head[log[k].rec]
    <3>1. ASSUME NEW q \in Records, head[q] > cursor[d]
          PROVE  head[q] \in DOMAIN log /\ log[head[q]].rec = q
      BY <1>0, <3>1 DEF HeadInv
    <3> QED BY <3>1 DEF Outbox!Owed
  <2>6. next \in Nat /\ cursor[d] <= next /\ next <= Len(log) /\ cursor[d] <= Len(log)
    BY <1>0, <2>1, <2>4, <2>5 DEF CursorOK
  <2>7. \A r \in Records : cursor[d] < head[r] /\ head[r] <= next => head[r] \in page'[d].revs
    BY <1>0, <2>2 DEF Outbox!Owed
  <2>8. page'[d].revs \subseteq DOMAIN log /\ \A j, k \in page'[d].revs : log[j].rec = log[k].rec => j = k
    BY <2>2, <2>5
  <2> HIDE DEF Outbox!Owed
  <2> QED BY <1>0, <2>2, <2>3, <2>6, <2>7, <2>8 DEF PageOK, Stays
<1> QED BY <1>0, <1>1, <1>2, <1>3, PageMoved DEF Known

(* What is staged is kept, dropped, or grows by a page that was read.      *)
(* What is staged stays, is dropped, or grows by a page.                   *)
StageMoves(d) ==
  \/ stage'[d] = NoStage
  \/ stage'[d] = stage[d] /\ ~Retires(d)
  \/ FullPage(d) /\ Readable(d) /\ scope' = scope

(* No step of a device does more to it.                                    *)
LEMMA StageMoved ==
  ASSUME TypeOK, NEW d \in Devices, DeviceStep(d)
  PROVE  StageMoves(d)
<1>0. stage \in [Devices -> Stages]
  BY DEF TypeOK, DeviceType
<1> DEFINE Goal == StageMoves(d)
<1>k. ASSUME stage' = stage, ~Adopt(d) PROVE Goal
  BY <1>k DEF StageMoves, Retires
<1>1. CASE Adopt(d)
  <2>1. CASE Retires(d)
    BY <1>0, <2>1 DEF Adopt, Retires, StageMoves
  <2>2. CASE ~Retires(d)
    BY <1>0, <1>1, <2>2 DEF Adopt, Retires, StageMoves
  <2> QED BY <2>1, <2>2
<1>2. CASE ~Adopt(d)
  <2>1. CASE ReadStatus(d) \/ Without(d) \/ Refuse(d) \/ Resume(d) \/ AnswerControl(d) \/ Verify(d)
             \/ Reread(d) \/ Upload(d) \/ Activate(d) \/ CommitStaged(d) \/ Quarantine(d)
    BY <1>2, <2>1, <1>k DEF ReadStatus, Without, Refuse, Resume, AnswerControl, Verify, Reread,
       Upload, Activate, CommitStaged, Quarantine, outbox, database
  <2>2. CASE StagePush(d) \/ Progress(d) \/ Verdict(d) \/ CancelRebuild(d) \/ OpenAttempt(d)
             \/ CompleteAttempt(d) \/ BeginRebuild(d) \/ RejectControl(d) \/ Settle(d)
    BY <1>2, <2>2, <1>k DEF StagePush, Progress, Verdict, CancelRebuild, OpenAttempt,
       CompleteAttempt, BeginRebuild, RejectControl, Settle, CompleteRebuild, database
  <2>3. CASE FullPage(d)
    BY <1>0, <1>2, <2>3, <1>k DEF FullPage, Discard, StageMoves
  <2>4. CASE ConfirmPull(d)
    BY <1>0, <1>2, <2>4, <1>k DEF ConfirmPull, Discard, StageMoves
  <2>5. CASE PublishFullPull(d)
    BY <1>0, <1>2, <2>5, <1>k DEF PublishFullPull, StageMoves
  <2>6. CASE Synchronise(d)
    BY <1>2, <1>k, <2>6 DEF Synchronise, StartRun, StartUnready, PullPage, CommitPullPage,
       JoinRebuilt, CompleteBootstrap, PreparePush, CommitPushPrefix, FinishRun, Refused, Steady,
       database
  <2>7. CASE UserNext(d) \/ Fail(d)
    BY <1>2, <1>k, <2>7 DEF UserNext, Edit, Ask, Fail, database, outbox
  <2> QED BY <1>2, <2>1, <2>2, <2>3, <2>4, <2>5, <2>6, <2>7 DEF Prepare, DeviceStep
<1> QED BY <1>1, <1>2

(* Pages of a head that did not move are the records they say.             *)
LEMMA StagePage ==
  ASSUME TypeOK, HeadInv, NEW d \in Devices, StageOK(d), FullPage(d), Readable(d)
  PROVE  StageOK(d)'
<1>0. /\ stage \in [Devices -> Stages] /\ head \in [Records -> Nat]
      /\ log \in Seq(Outbox!Published) /\ log' = log /\ head' = head
  BY DEF TypeOK, DeviceType, ServiceType, FullPage, UnchangedService
<1> DEFINE t == stage[d]
           u == stage'[d]
<1>1. /\ t.head \in Nat /\ t.cursor \in Nat /\ t.revs \subseteq Nat /\ t.complete \in BOOLEAN
      /\ Len(log) \in Nat
  BY <1>0 DEF Stages
<1>2. CASE u = NoStage
  <2>1. NoStage.head = 0 /\ NoStage.cursor = 0 /\ NoStage.revs = {} /\ NoStage.complete = FALSE
    BY DEF NoStage
  <2>2. \A r \in Records : head[r] \notin 1..0
    BY <1>0
  <2> QED BY <1>0, <1>1, <1>2, <2>1, <2>2 DEF StageOK
<1>3. CASE u # NoStage
  <2>1. Begun(d) => t.head = Len(log)
    BY <1>0, <1>3 DEF FullPage, Discard
  <2>2. PICK next \in IF Owed(d) = {} THEN {t.cursor} ELSE Owed(d) :
          stage' = [stage EXCEPT ![d] =
               [head |-> Len(log), cursor |-> next,
                complete |-> ~\E k \in Owed(d) : k > next,
                revs |-> t.revs \cup {k \in Owed(d) : k <= next}]]
    BY <1>0, <1>3 DEF FullPage, Discard
  <2>3. /\ u.head = Len(log) /\ u.cursor = next
        /\ u.complete <=> ~\E k \in Owed(d) : k > next
        /\ u.revs = t.revs \cup {k \in Owed(d) : k <= next}
    BY <1>0, <2>2
  <2>4. \A k \in Owed(d) : k > t.cursor /\ k \in 1..Len(log) /\ k = head[log[k].rec]
    <3>1. ASSUME NEW q \in Records, head[q] > t.cursor
          PROVE  head[q] \in 1..Len(log) /\ log[head[q]].rec = q
      BY <1>0, <1>1, <3>1 DEF HeadInv
    <3> QED BY <3>1 DEF Owed
  <2>5. \A k \in t.revs : k = head[log[k].rec] /\ k <= t.cursor /\ k \in 1..Len(log)
    <3>1. CASE Begun(d)
      BY <1>1, <2>1, <3>1 DEF StageOK
    <3>2. CASE ~Begun(d)
      <4>1. t.cursor = 0
        BY <1>1, <3>2 DEF Begun
      <4>2. t.revs = {}
        BY <1>1, <4>1 DEF StageOK
      <4> QED BY <4>2
    <3> QED BY <3>1, <3>2
  <2>6. next \in Nat /\ t.cursor <= next /\ next <= Len(log)
    <3>1. t.cursor <= Len(log)
      BY <1>1 DEF StageOK
    <3> QED BY <1>1, <2>2, <2>4, <3>1
  <2>7. \A k \in u.revs : k \in 1..Len(log) /\ k = head[log[k].rec] /\ k <= next
    BY <1>1, <2>3, <2>4, <2>5, <2>6
  <2>8. ASSUME NEW r \in Records, head[r] \in 1..next PROVE head[r] \in u.revs
    <3>1. CASE head[r] > t.cursor
      <4>1. head[r] \in Owed(d)
        BY <3>1 DEF Owed
      <4> QED BY <2>3, <2>8, <4>1
    <3>2. CASE ~(head[r] > t.cursor)
      <4>1. head[r] \in 1..t.cursor
        BY <1>0, <1>1, <2>8, <3>2
      <4> QED BY <2>3, <4>1 DEF StageOK
    <3> QED BY <3>1, <3>2
  <2>9. ASSUME u.complete, NEW r \in Records, head[r] \in 1..Len(log) PROVE head[r] \in u.revs
    <3>1. CASE head[r] > t.cursor
      <4>1. head[r] \in Owed(d)
        BY <3>1 DEF Owed
      <4>2. head[r] <= next
        BY <1>0, <2>3, <2>6, <2>9, <4>1
      <4> QED BY <2>3, <4>1, <4>2
    <3>2. CASE ~(head[r] > t.cursor)
      <4>1. head[r] \in 1..t.cursor
        BY <1>0, <1>1, <2>9, <3>2
      <4> QED BY <2>3, <4>1 DEF StageOK
    <3> QED BY <3>1, <3>2
  <2> HIDE DEF Owed, u, t
  <2>10. \A j, k \in u.revs : log[j].rec = log[k].rec => j = k
    BY <2>7
  <2> QED BY <1>0, <2>3, <2>6, <2>7, <2>8, <2>9, <2>10 DEF StageOK, u
<1> QED BY <1>2, <1>3

(* What is staged stays of one head.                                       *)
LEMMA StageNext ==
  ASSUME Known, HeadInv, NEW d \in Devices, DeviceStep(d), (scope[d].gen = space.gen)'
  PROVE  /\ StageOK(d)'
         /\ (space.backup # "ready")' => stage'[d] = NoStage
<1>0. /\ TypeOK /\ PhaseInv /\ MirrorInv /\ Stays(d) /\ PhaseOK(d)
      /\ log \in Seq(Outbox!Published) /\ head \in [Records -> Nat]
  BY ServiceStays DEF Known, PhaseInv, TypeOK, ServiceType
<1>1. CASE stage'[d] = NoStage
  <2>1. NoStage.head = 0 /\ NoStage.cursor = 0 /\ NoStage.revs = {} /\ NoStage.complete = FALSE
    BY DEF NoStage
  <2>2. (\A r \in Records : head[r] \notin 1..0) /\ Len(log) \in Nat
    BY <1>0
  <2>3. log' = log /\ head' = head
    BY <1>0 DEF Stays
  <2> QED BY <1>1, <2>1, <2>2, <2>3 DEF StageOK
<1>2. CASE stage'[d] = stage[d] /\ ~Retires(d) /\ stage'[d] # NoStage
  <2>1. scope[d].gen # 0
    BY <1>0, <1>2 DEF PhaseOK, Unbound
  <2>2. scope'[d].gen = scope[d].gen
    <3>1. ~(scope[d].gen = 0 /\ seen[d].origin = "legacy")
      BY <2>1
    <3>2. ~Adopt(d) \/ scope[d].gen = seen[d].gen
      BY <1>2, <3>1 DEF Retires
    <3> QED BY <1>0, <3>2, GenMoved DEF GenMoves
  <2>3. StageOK(d) /\ (space.backup # "ready" => stage[d] = NoStage)
    BY <1>0, <2>2 DEF MirrorInv, Stays, SameSpace
  <2> QED BY <1>0, <1>2, <2>3 DEF StageOK, Stays, SameSpace
<1>3. CASE FullPage(d) /\ Readable(d) /\ scope' = scope
  <2>1. StageOK(d)
    BY <1>0, <1>3 DEF MirrorInv, Readable
  <2> QED BY <1>0, <1>3, <2>1, StagePage DEF Readable, Stays, SameSpace
<1> QED BY <1>0, <1>1, <1>2, <1>3, StageMoved DEF StageMoves

(* Only what was received completely is published.                         *)
LEMMA PublishMoved ==
  ASSUME TypeOK, PhaseInv, NEW d \in Devices, DeviceStep(d), life'[d] = "publish",
         life[d] = "publish" => stage[d].complete
  PROVE  stage'[d].complete
<1>0. life \in [Devices -> Lives] /\ PlaceOK(d) /\ stage \in [Devices -> Stages]
  BY DEF TypeOK, DeviceType, PhaseInv, PhaseOK
<1>1. ~EndRun(d) /\ \A phase : Go(d, phase) => phase = "publish"
  BY <1>0 DEF EndRun, Go
<1>2. CASE Prepare(d)
  <2>1. ConfirmPull(d)
    <3>1. ~ReadStatus(d) /\ ~Adopt(d) /\ ~Activate(d) /\ ~Quarantine(d) /\ ~Without(d)
          /\ ~Refuse(d) /\ ~Resume(d) /\ ~BeginRebuild(d) /\ ~AnswerControl(d)
          /\ ~RejectControl(d)
      BY <1>1 DEF ReadStatus, Adopt, Activate, Quarantine, Without, Refuse, Resume,
         BeginRebuild, AnswerControl, RejectControl
    <3>2. ~CancelRebuild(d) /\ ~OpenAttempt(d) /\ ~CompleteAttempt(d)
      BY <1>1 DEF CancelRebuild, OpenAttempt, CompleteAttempt, Send
    <3>3. ~Verify(d) /\ ~Settle(d) /\ ~Upload(d) /\ ~StagePush(d) /\ ~CommitStaged(d)
          /\ ~Progress(d) /\ ~Verdict(d) /\ ~PublishFullPull(d)
      BY <1>1 DEF Verify, Settle, Upload, StagePush, CommitStaged, Progress, Verdict,
         PublishFullPull
    <3>4. ~Reread(d)
      BY <1>0, <1>1 DEF Reread, PlaceOK, Controlled
    <3>5. ~FullPage(d)
      BY <1>0, <1>1 DEF FullPage, Discard
    <3> QED BY <1>2, <3>1, <3>2, <3>3, <3>4, <3>5 DEF Prepare
  <2>2. stage' = stage /\ stage[d].complete
    BY <1>0, <1>1, <2>1 DEF ConfirmPull, Discard
  <2> QED BY <2>2
<1>3. CASE Synchronise(d)
  <2>1. life[d] = "run" /\ (life' = life \/ Go(d, "idle"))
    BY <1>1, <1>3 DEF Synchronise, StartRun, StartUnready, PullPage, CommitPullPage, JoinRebuilt,
       CompleteBootstrap, PreparePush, CommitPushPrefix, FinishRun, Refused, Steady
  <2> QED BY <1>1, <2>1
<1>4. CASE UserNext(d) \/ Fail(d)
  <2>1. life' = life /\ stage' = stage
    BY <1>1, <1>4 DEF UserNext, Edit, Ask, Fail, database, memory
  <2> QED BY <2>1
<1> QED BY <1>2, <1>3, <1>4 DEF DeviceStep

(* What a device knows of the space stays true when it moves.              *)
LEMMA MirrorDevice ==
  ASSUME Known, HeadInv, NEW d \in Devices, DeviceStep(d)
  PROVE  MirrorInv'
<1>0. TypeOK /\ PhaseInv /\ MirrorInv /\ Stays(d) /\ Aside(d)
  BY ServiceStays, OthersStill DEF Known, TypeOK
<1> DEFINE Ok(e) == /\ Of(e) => \A r \in Records : MirrorOK(e, r)
                    /\ Of(e) /\ space.backup # "ready" => \A r \in Records : slot[e][r].rrev = 0
                    /\ Of(e) /\ scope[e].boot => CursorOK(e)
                    /\ scope[e].gen = space.gen => PageOK(e) /\ StageOK(e)
                    /\ scope[e].gen = space.gen /\ space.backup # "ready" => stage[e] = NoStage
                    /\ life[e] = "publish" => stage[e].complete
<1>1. ASSUME NEW e \in Devices, e # d PROVE Ok(e)'
  <2>1. Still(e) /\ Ok(e)
    BY <1>0, <1>1 DEF Aside, MirrorInv
  <2> QED BY <1>0, <2>1 DEF Still, Stays, SameSpace, Of, MirrorOK, CursorOK, PageOK, StageOK
<1>2. Ok(d)'
  <2>1. (Of(d) => \A r \in Records : MirrorOK(d, r))'
    BY MirrorRows
  <2>2. (Of(d) /\ space.backup # "ready" => \A r \in Records : slot[d][r].rrev = 0)'
    BY MirrorRows
  <2>3. (Of(d) /\ scope[d].boot => CursorOK(d))'
    BY CursorNext
  <2>4. (scope[d].gen = space.gen => PageOK(d) /\ StageOK(d))'
    BY PageNext, StageNext
  <2>5. (scope[d].gen = space.gen /\ space.backup # "ready" => stage[d] = NoStage)'
    BY StageNext
  <2>6. (life[d] = "publish" => stage[d].complete)'
    BY <1>0, PublishMoved DEF MirrorInv
  <2> QED BY <2>1, <2>2, <2>3, <2>4, <2>5, <2>6
<1> QED BY <1>1, <1>2 DEF MirrorInv

(* Nor does it stop being true when the service moves.                     *)
MirrorSafe(e) ==
  /\ Of(e) => \A r \in Records : MirrorOK(e, r)
  /\ Of(e) /\ space.backup # "ready" => \A r \in Records : slot[e][r].rrev = 0
  /\ Of(e) /\ scope[e].boot => CursorOK(e)
  /\ scope[e].gen = space.gen => PageOK(e) /\ StageOK(e)
  /\ scope[e].gen = space.gen /\ space.backup # "ready" => stage[e] = NoStage
  /\ life[e] = "publish" => stage[e].complete

(* A record is appended to the space.                                      *)
LEMMA MirrorGrows ==
  ASSUME TypeOK, NEW e \in Devices, MirrorSafe(e), Untouched, space' = space,
         NEW record, NEW q \in Records, log' = Append(log, record),
         head' = [head EXCEPT ![q] = Len(log) + 1]
  PROVE  MirrorSafe(e)'
<1>0. /\ log \in Seq(Outbox!Published) /\ head \in [Records -> Nat] /\ Len(log) \in Nat
      /\ cursor[e] \in Nat /\ stage[e] \in Stages /\ page[e] \in Pages
      /\ \A r \in Records : slot[e][r].rrev \in Nat
  BY RowFields DEF TypeOK, ServiceType, DeviceType, SlotsGood
<1>1. /\ Len(log') = Len(log) + 1
      /\ \A k \in 1..Len(log) : k \in DOMAIN log' /\ log'[k] = log[k]
      /\ DOMAIN log = 1..Len(log)
  BY <1>0
<1>2. \A r \in Records : head'[r] = head[r] \/ head'[r] = Len(log) + 1
  BY <1>0
<1>3. /\ slot' = slot /\ cursor' = cursor /\ pc' = pc /\ page' = page /\ scope' = scope
      /\ stage' = stage /\ life' = life
  BY DEF Untouched, database, memory
<1> HIDE DEF Untouched
<1>4. Of(e)' = Of(e)
  BY <1>3 DEF Of
<1>5. \A r \in Records : MirrorOK(e, r) => MirrorOK(e, r)'
  BY <1>0, <1>1, <1>3 DEF MirrorOK
<1>6. CursorOK(e) => CursorOK(e)'
  BY <1>0, <1>1, <1>2, <1>3 DEF CursorOK
<1>7. PageOK(e) => PageOK(e)'
  BY <1>0, <1>1, <1>2, <1>3 DEF PageOK, Pages
<1>8. StageOK(e) => StageOK(e)'
  <2> DEFINE t == stage[e]
  <2>1. t.head \in Nat /\ t.cursor \in Nat /\ t.revs \subseteq Nat
    BY <1>0 DEF Stages
  <2> HIDE DEF t
  <2>2. SUFFICES ASSUME StageOK(e) PROVE StageOK(e)'
    OBVIOUS
  <2>3. t.head <= Len(log) /\ t.cursor <= t.head /\ t.revs \subseteq 1..t.head
    BY <2>2 DEF StageOK, t
  <2>4. t.revs \subseteq 1..Len(log)
    BY <1>0, <2>1, <2>3
  <2>5. \A j, k \in t.revs : log'[j].rec = log'[k].rec => j = k
    BY <1>1, <2>2, <2>4 DEF StageOK, t
  <2>6. \A r \in Records : head'[r] \in 1..t.head => head'[r] = head[r]
    BY <1>0, <1>2, <2>1, <2>3
  <2>7. t.head # Len(log')
    BY <1>0, <1>1, <2>1, <2>3
  <2>8. \A r \in Records : head'[r] \in 1..t.cursor => head'[r] \in 1..t.head
    BY <1>0, <2>1, <2>3
  <2>9. /\ \A r \in Records : head'[r] \in 1..t.cursor => head'[r] \in t.revs
        /\ t.complete => \A r \in Records : head'[r] \in 1..t.head => head'[r] \in t.revs
    BY <2>2, <2>6, <2>8 DEF StageOK, t
  <2>10. \A k \in t.revs : k <= t.cursor
    BY <2>2 DEF StageOK, t
  <2>11. t.head <= Len(log')
    BY <1>0, <1>1, <2>1, <2>3
  <2> QED BY <1>3, <2>3, <2>5, <2>7, <2>9, <2>10, <2>11 DEF StageOK, t
<1> QED BY <1>3, <1>4, <1>5, <1>6, <1>7, <1>8 DEF MirrorSafe

(* The service's steps keep mirrors, cursors and pages right.              *)
LEMMA MirrorRemote ==
  ASSUME TypeOK, PhaseInv, HeadInv, MirrorInv, Remote
  PROVE  MirrorInv'
<1>0. Untouched /\ log \in Seq(Outbox!Published) /\ wire \subseteq Outbox!Mutation
  BY RemoteUntouched DEF TypeOK, ServiceType
<1>1. /\ slot' = slot /\ cursor' = cursor /\ pc' = pc /\ page' = page /\ scope' = scope
      /\ stage' = stage /\ life' = life
  BY <1>0 DEF Untouched, database, memory
<1> SUFFICES ASSUME NEW e \in Devices PROVE MirrorSafe(e)'
  BY DEF MirrorInv, MirrorSafe
<1>2. /\ MirrorSafe(e) /\ PhaseOK(e) /\ scope[e].gen \in Nat /\ space.gen \in Nat \ {0}
  BY DeviceFields DEF MirrorInv, MirrorSafe, PhaseInv
<1>3. ASSUME log' = log, head' = head, space'.gen = space.gen, space'.origin = space.origin,
             space'.backup # "ready" => space.backup # "ready"
      PROVE  MirrorSafe(e)'
  BY <1>1, <1>2, <1>3 DEF MirrorSafe, Of, MirrorOK, CursorOK, PageOK, StageOK
<1>4. ASSUME NEW op \in mail, ServeControl(op) PROVE MirrorSafe(e)'
  <2>1. CASE Opens(op) \/ Cancels(op)
    <3>1. /\ log' = log /\ head' = head /\ space'.gen = space.gen /\ space'.origin = space.origin
          /\ space.backup # "ready"
      <4>1. space \in Spaces
        BY DEF TypeOK, ServiceType
      <4> QED BY <2>1, <4>1 DEF Opens, Cancels, Spaces
    <3> QED BY <1>3, <3>1
  <2>2. CASE Completes(op)
    <3>1. /\ space.backup # "ready" /\ space'.gen = space.gen /\ space'.origin = space.origin
          /\ space'.backup = "ready" /\ log' \in Seq(Outbox!Published)
          /\ head' \in [Records -> 0..Len(log')]
      <4>1. space \in Spaces
        BY DEF TypeOK, ServiceType
      <4>2. space.backup # "ready" /\ space'.gen = space.gen /\ space'.origin = space.origin
            /\ space'.backup = "ready"
        BY <2>2, <4>1 DEF Completes, Spaces
      <4>3. log' \in Seq(Outbox!Published) /\ head' \in HeadsOf(log')
        BY <2>2, PublishedType DEF Completes
      <4> QED BY <4>2, <4>3 DEF HeadsOf
    <3>2. Of(e)' = Of(e)
      BY <1>1, <3>1 DEF Of
    <3>3. CASE ~Of(e)
      BY <1>1, <1>2, <3>1, <3>2, <3>3 DEF MirrorSafe, Of
    <3>4. CASE Of(e)
      <4>1. /\ ~scope[e].boot /\ scope[e].gen = space.gen /\ pc[e] = "idle"
            /\ \A r \in Records : slot[e][r].rrev = 0
            /\ stage[e] = NoStage
        BY <1>2, <3>1, <3>4, UnreadyApart DEF MirrorSafe, PhaseOK, PlaceOK
      <4>2. NoStage.head = 0 /\ NoStage.cursor = 0 /\ NoStage.revs = {} /\ NoStage.complete = FALSE
        BY DEF NoStage
      <4>3. (\A r \in Records : head'[r] \notin 1..0) /\ Len(log') \in Nat
        BY <3>1
      <4>4. StageOK(e)'
        BY <1>1, <4>1, <4>2, <4>3 DEF StageOK
      <4> QED BY <1>1, <1>2, <3>1, <4>1, <4>4 DEF MirrorSafe, MirrorOK, PageOK
    <3> QED BY <3>3, <3>4
  <2> QED BY <1>4, <2>1, <2>2, ServeCases
<1>5. ASSUME NEW m \in wire, Rule(m) PROVE MirrorSafe(e)'
  <2>0. m \in Outbox!Mutation /\ space' = space
    BY <1>0, <1>5 DEF Rule, cloud
  <2>1. CASE Outbox!ApplyMutation(m)
    <3> DEFINE record == [rec |-> m.id[2], val |-> m.val, at |-> Outbox!EffectiveTime(m)]
               q == m.id[2]
    <3>1. log' = Append(log, record) /\ head' = [head EXCEPT ![q] = Len(log) + 1]
      BY <2>1 DEF Outbox!ApplyMutation
    <3>2. q \in Records
      BY <2>0, MutationId
    <3> HIDE DEF record, q
    <3> QED BY <1>0, <1>2, <2>0, <3>1, <3>2, MirrorGrows
  <2>2. CASE Outbox!SupersedeMutation(m)
    BY <1>3, <2>0, <2>2 DEF Outbox!SupersedeMutation
  <2> QED BY <1>5, <2>1, <2>2 DEF Rule
<1>6. ASSUME Retire PROVE MirrorSafe(e)'
  <2>1. space'.gen = space.gen + 1 /\ space'.origin = "rebuilt"
    BY <1>6 DEF Retire
  <2>2. scope[e].gen <= space.gen
    BY <1>2 DEF PhaseOK, SeenOK
  <2>3. ~Of(e)' /\ (scope[e].gen # space.gen)'
    BY <1>1, <1>2, <2>1, <2>2 DEF Of
  <2> QED BY <1>1, <1>2, <2>3 DEF MirrorSafe
<1>7. ASSUME ExpireReceipt PROVE MirrorSafe(e)'
  BY <1>3, <1>7 DEF ExpireReceipt, outbox
<1> QED BY <1>4, <1>5, <1>6, <1>7 DEF Remote

-----------------------------------------------------------------------------
(***************************************************************************)
(* Publications that were asked for.                                       *)
(***************************************************************************)
(* A publication that was asked for ends with its attempt.                 *)
LEMMA CompleteKept ==
  ASSUME TypeOK, PhaseInv, NEW d \in Devices, DeviceStep(d),
         scope[d].control.action = "complete"
  PROVE  scope'[d].local = 0 \/ scope'[d].control = scope[d].control
<1>0. /\ scope[d] \in Scopes /\ scope \in [Devices -> Scopes] /\ PlaceOK(d)
  BY DeviceFields DEF TypeOK, DeviceType, PhaseInv, PhaseOK
<1>1. life[d] \notin Free
  BY <1>0 DEF PlaceOK, NoOp
<1> DEFINE Goal == scope'[d].local = 0 \/ scope'[d].control = scope[d].control
<1>k. ASSUME scope' = scope PROVE Goal
  BY <1>k
<1>p. ASSUME NEW s, scope' = [scope EXCEPT ![d] = s],
             s.local = 0 \/ s.control = scope[d].control
      PROVE Goal
  BY <1>0, <1>p
<1>2. ASSUME Adopt(d) PROVE Goal
  <2>1. CASE scope[d].gen = seen[d].gen
    <3>1. scope' = [scope EXCEPT ![d].backup = seen[d].backup]
      BY <1>2, <2>1 DEF Adopt
    <3>2. scope'[d] = [scope[d] EXCEPT !.backup = seen[d].backup]
      BY <1>0, <3>1
    <3> QED BY <1>0, <3>2 DEF Scopes
  <2>2. CASE scope[d].gen # seen[d].gen /\ scope[d].gen = 0 /\ seen[d].origin = "legacy"
    <3>1. scope' = [scope EXCEPT ![d].gen = seen[d].gen, ![d].backup = seen[d].backup]
      BY <1>2, <2>2 DEF Adopt
    <3>2. scope'[d] = [scope[d] EXCEPT !.gen = seen[d].gen, !.backup = seen[d].backup]
      BY <1>0, <3>1
    <3> QED BY <1>0, <3>2 DEF Scopes
  <2>3. CASE scope[d].gen # seen[d].gen /\ ~(scope[d].gen = 0 /\ seen[d].origin = "legacy")
    <3> DEFINE s == [scope[d] EXCEPT !.gen = seen[d].gen, !.backup = seen[d].backup,
                                   !.boot = FALSE, !.local = 0, !.bound = FALSE,
                                   !.control = NoOp]
    <3>1. scope' = [scope EXCEPT ![d] = s]
      BY <1>2, <2>3 DEF Adopt
    <3>2. s.local = 0
      BY <1>0 DEF Scopes
    <3> HIDE DEF s
    <3> QED BY <1>p, <3>1, <3>2
  <2> QED BY <2>1, <2>2, <2>3
<1>3. CASE ReadStatus(d) \/ AnswerControl(d) \/ Verify(d) \/ Activate(d)
  BY <1>3, <1>k DEF ReadStatus, AnswerControl, Verify, Activate, database
<1>4. ASSUME scope' = [scope EXCEPT ![d] = Rejected(scope[d])] PROVE Goal
  <2>2. Rejected(scope[d]).local = 0
    BY <1>0 DEF Rejected, Cancelled, Scopes
  <2> QED BY <1>p, <1>4, <2>2
<1>5. CASE RejectControl(d)
  BY <1>4, <1>5 DEF RejectControl
<1>6. CASE Settle(d)
  <2> DEFINE u == [scope[d] EXCEPT !.backup = "ready", !.local = 0, !.bound = FALSE,
                                   !.boot = FALSE, !.control = NoOp]
  <2>1. scope' = scope \/ scope' = [scope EXCEPT ![d] = u]
    BY <1>6 DEF Settle, CompleteRebuild
  <2>2. u.local = 0
    BY <1>0 DEF Scopes
  <2> HIDE DEF u
  <2> QED BY <1>k, <1>p, <2>1, <2>2
<1>7. CASE Synchronise(d)
  BY <1>k, <1>7 DEF Synchronise, StartRun, StartUnready, PullPage,
       CommitPullPage, JoinRebuilt, CompleteBootstrap, PreparePush, CommitPushPrefix, FinishRun,
       Refused, Steady, database
<1>8. CASE UserNext(d) \/ Fail(d)
  BY <1>k, <1>8 DEF UserNext, Edit, Ask, Fail, database
<1>9. CASE Prepare(d) /\ ~(ReadStatus(d) \/ AnswerControl(d) \/ Verify(d) \/ Activate(d)
                            \/ RejectControl(d) \/ Settle(d) \/ Adopt(d))
  <2>1. ~Quarantine(d) /\ ~Without(d) /\ ~Refuse(d) /\ ~Resume(d) /\ ~CancelRebuild(d)
        /\ ~BeginRebuild(d) /\ ~OpenAttempt(d) /\ ~Reread(d)
    BY <1>1 DEF Quarantine, Without, Refuse, Resume, CancelRebuild, BeginRebuild,
       OpenAttempt, Reread, Free
  <2>2. ~Upload(d) /\ ~StagePush(d) /\ ~CommitStaged(d) /\ ~Progress(d)
        /\ ~CompleteAttempt(d) /\ ~Verdict(d)
    BY <1>1 DEF Upload, StagePush, CommitStaged, Progress, CompleteAttempt, Verdict, Free
  <2>3. ~FullPage(d) /\ ~ConfirmPull(d) /\ ~PublishFullPull(d)
    BY <1>1 DEF FullPage, ConfirmPull, PublishFullPull, Free
  <2> QED BY <1>9, <2>1, <2>2, <2>3 DEF Prepare
<1> QED BY <1>2, <1>3, <1>5, <1>6, <1>7, <1>8, <1>9 DEF DeviceStep

(* The steps of devices publish nothing that was not asked for.            *)
LEMMA CompleteDevice ==
  ASSUME TypeOK, PhaseInv, AttemptInv, CompleteInv, NEW d \in Devices, DeviceStep(d)
  PROVE  CompleteInv'
<1>0. /\ Stays(d) /\ Aside(d) /\ AttemptMoves(d) /\ PhaseOK(d)' /\ mail \subseteq Ops
      /\ done \subseteq Ids \X {"open", "cancel", "complete"} /\ scope[d].n \in Nat
      /\ scope[d].local \in Nat
  BY ServiceStays, OthersStill, AttemptMoved, PhaseDevice, DeviceFields
  DEF TypeOK, ServiceType, PhaseInv
<1>1. done' = done /\ \A op \in mail' : op \in mail \/ (op = scope'[d].control /\ op # NoOp)
  BY <1>0 DEF Stays, AttemptMoves
<1>2. scope'[d].control # NoOp => scope'[d].control.id = <<d, scope'[d].local>>
  BY <1>0 DEF PhaseOK, PlaceOK
<1>3. ASSUME NEW e \in Devices, e # d PROVE Unsent(e)'
  <2>1. scope'[e] = scope[e] /\ Unsent(e)
    BY <1>0, <1>3 DEF Aside, Still, CompleteInv
  <2>2. \A n : <<d, n>> # <<e, scope[e].local>>
    BY <1>3
  <2>3. \A op \in mail' : op.id = <<e, scope[e].local>> => op \in mail
    BY <1>1, <1>2, <2>2
  <2> QED BY <1>1, <2>1, <2>3 DEF Unsent
<1>4. Unsent(d)'
  <2>0. SUFFICES ASSUME scope'[d].local # 0, scope'[d].control.action # "complete"
        PROVE  /\ \A op \in mail' : op.id = <<d, scope'[d].local>> => op.action # "complete"
               /\ <<<<d, scope'[d].local>>, "complete">> \notin done
    BY <1>1 DEF Unsent
  <2>1. CASE scope'[d].local > scope[d].n
    <3>1. ASSUME NEW op \in mail, op.id = <<d, scope'[d].local>> PROVE FALSE
      <4>1. op.id[1] = d /\ op.id[2] = scope'[d].local
        BY <3>1
      <4>2. op.id[2] <= scope[d].n /\ op.id[2] \in Nat
        BY <1>0, <4>1 DEF AttemptInv, AboutAttempt, Ops, Ids
      <4> QED BY <1>0, <2>1, <4>1, <4>2
    <3>2. ASSUME <<<<d, scope'[d].local>>, "complete">> \in done PROVE FALSE
      <4> DEFINE receipt == <<<<d, scope'[d].local>>, "complete">>
      <4>1. receipt[1][1] = d /\ receipt[1][2] = scope'[d].local
        OBVIOUS
      <4>2. receipt[1][2] <= scope[d].n /\ receipt[1][2] \in Nat
        <5>1. receipt \in done /\ receipt[1] \in Ids
          BY <1>0, <3>2
        <5> QED BY <4>1, <5>1 DEF AttemptInv, Ids
      <4> QED BY <1>0, <2>1, <4>1, <4>2
    <3> QED BY <1>1, <2>0, <3>1, <3>2
  <2>2. CASE SameAttempt(d)
    <3>1. scope[d].local = scope'[d].local
      BY <2>2 DEF SameAttempt
    <3>2. scope[d].control.action # "complete"
      BY <2>0, CompleteKept
    <3>3. Unsent(d)
      BY DEF CompleteInv
    <3> QED BY <1>1, <2>0, <3>1, <3>2, <3>3 DEF Unsent
  <2> QED BY <1>0, <2>0, <2>1, <2>2 DEF AttemptMoves
<1> QED BY <1>3, <1>4 DEF CompleteInv

(* Nor do the service's.                                                   *)
LEMMA CompleteRemote ==
  ASSUME TypeOK, CompleteInv, Remote
  PROVE  CompleteInv'
<1>0. scope' = scope /\ mail \subseteq Ops
  BY RemoteUntouched DEF Untouched, database, TypeOK, ServiceType
<1>k. ASSUME mail' \subseteq mail, done' \subseteq done PROVE CompleteInv'
  BY <1>0, <1>k DEF CompleteInv, Unsent
<1>1. ASSUME NEW op \in mail, ServeControl(op) PROVE CompleteInv'
  <2>1. mail' = mail /\ done' = done \cup {OpOf(op)}
    BY <1>1 DEF ServeControl
  <2>2. ASSUME NEW d \in Devices PROVE Unsent(d)'
    <3>1. Unsent(d)
      BY DEF CompleteInv
    <3>2. op.action \in Actions
      BY <1>0 DEF Ops
    <3>3. <<<<d, scope[d].local>>, "complete">> = OpOf(op) =>
             op.action = "complete" /\ op.id = <<d, scope[d].local>>
      BY <3>2 DEF OpOf, Actions
    <3> QED BY <1>0, <2>1, <3>1, <3>3 DEF Unsent
  <2> QED BY <2>2 DEF CompleteInv
<1>2. ASSUME NEW m, Rule(m) PROVE CompleteInv'
  BY <1>2, <1>k DEF Rule, cloud
<1>3. ASSUME Retire PROVE CompleteInv'
  BY <1>3, <1>k DEF Retire
<1>4. ASSUME ExpireReceipt PROVE CompleteInv'
  BY <1>4, <1>k DEF ExpireReceipt
<1> QED BY <1>1, <1>2, <1>3, <1>4 DEF Remote

-----------------------------------------------------------------------------
(***************************************************************************)
(* Edits.                                                                  *)
(***************************************************************************)
(* Content the service has is not what a device's history holds.           *)
LEMMA CountedFor ==
  ASSUME TypeOK, Accounts, NEW d \in Devices, NEW r \in Records
  PROVE  /\ own'[d][r] = Absent \/ (own'[d][r] = Authored(d, r) /\ ~Settled(d, r, Authored(d, r)))
         /\ Authored(d, r) = AuthorOf(slot[d][r], slot'[d][r], own[d][r])
BY DEF Accounts, Authored, AuthorOf

(* A row that keeps the candidate keeps the history.                       *)
LEMMA SameAuthor ==
  ASSUME NEW s, NEW t, t.cand = s.cand, NEW v
  PROVE  AuthorOf(s, t, v) = v
BY DEF AuthorOf

(* Content that is accounted for by a ruling, or by a record, is settled.  *)
LEMMA ContentHeld ==
  ASSUME Known, EditInv, NEW d \in Devices, DeviceStep(d), NEW r \in Records,
         ~\E q \in Records, v \in Values : Edit(d, q, v),
         NEW w, w = AuthorOf(slot[d][r], slot'[d][r], own[d][r]), w # Absent,
         ~Settled(d, r, w)
  PROVE  Holds(slot'[d][r], w)
<1> DEFINE s == slot[d][r]
           t == slot'[d][r]
           v == own[d][r]
<1>0. /\ TypeOK /\ PhaseInv /\ WellFormed(s) /\ Stays(d) /\ log' = log /\ verdict' = verdict
      /\ v # Absent => Holds(s, v)
  BY ServiceStays DEF Known, TypeOK, SlotsGood, EditInv, Stays
<1>1. Moved(d, r, s, t)
  BY RowStep
<1>a. w = AuthorOf(s, t, v)
  OBVIOUS
<1>2. CASE t = s
  BY <1>0, <1>2, SameAuthor
<1>3. CASE Retires(d) /\ t = Retired(s)
  BY <1>0, <1>3, RetiredRow, SameAuthor
<1>4. CASE BeginRebuild(d) /\ ~Sealed(s) /\ t = Chosen(s)
  BY <1>0, <1>4, ChosenRow
<1>5. CASE Settle(d) /\ CompleteRebuild(d) /\ Remarks(d, r, s, t)
  <2>1. /\ t.val = s.val /\ t.pend = s.pend /\ t.fly = s.fly /\ t.cand = s.cand
        /\ t.merge = Changed(s, entries[d][r]) /\ SameMirror(s, t)
    BY <1>0, <1>5, RemarkRow
  <2>2. w = v /\ Holds(s, v)
    BY <1>0, <2>1, SameAuthor
  <2>3. AttemptDone(d)
    <3>1. life[d] = "settle" /\ scope[d].control.action = "complete"
      <4>1. life[d] = "settle" /\ scope[d] \in Scopes /\ scope \in [Devices -> Scopes]
        BY <1>0, <1>5, DeviceFields DEF Settle, TypeOK, DeviceType
      <4>2. scope'[d].boot = FALSE /\ scope'[d].local = 0 /\ scope'[d].backup = "ready"
        BY <1>5, <4>1 DEF CompleteRebuild, Scopes
      <4>3. CASE /\ scope[d].control.action \in {"start", "claim"}
                 /\ scope' = [scope EXCEPT ![d] = [scope[d] EXCEPT !.bound = TRUE, !.control = NoOp]]
        <5>1. scope'[d].local = scope[d].local
          BY <4>1, <4>3 DEF Scopes
        <5>2. scope[d].local # 0
          BY <1>0, <4>1 DEF PhaseInv, PhaseOK, PlaceOK, Controlled
        <5> QED BY <4>2, <5>1, <5>2
      <4>4. CASE scope' = [scope EXCEPT ![d] = Rejected(scope[d])]
        <5>1. Rejected(scope[d]).backup = "rebuildRequired"
          BY <4>1 DEF Rejected, Cancelled, Scopes
        <5>2. scope'[d] = Rejected(scope[d])
          BY <4>1, <4>4
        <5> QED BY <4>2, <5>1, <5>2
      <4> QED BY <1>5, <4>1, <4>3, <4>4 DEF Settle
    <3>2. scope[d].control # NoOp /\ scope[d].local # 0
      BY <1>0, <3>1 DEF PhaseInv, PhaseOK, PlaceOK, Controlled
    <3> QED BY <3>1, <3>2 DEF AttemptDone
  <2>4. v # entries[d][r].val
    BY <1>5, <2>3 DEF EditInv, Remarks
  <2>5. t.merge
    BY <2>1, <2>2, <2>4 DEF Changed, Holds
  <2> QED BY <2>1, <2>2, <2>5 DEF Holds, Outbox!Dirty
<1>6. CASE Merges(r, s, t)
  <2>1. PICK u : Reads(r, s, u) /\ WellFormed(u) /\ Merged(u, t)
    BY <1>6 DEF Merges
  <2>2. ~(~s.merge /\ t.rrev > s.rrev /\ s.at <= t.rat)
    BY DEF Settled
  <2>3. \A k \in DOMAIN log : log[k].rec = r => log[k].val # w
    BY <1>0 DEF Settled
  <2> HIDE DEF s, t, v
  <2>4. CASE u = s
    <3>1. \/ Holds(t, w)
          \/ u # s /\ w = Absent
          \/ ~s.merge /\ t.rrev > s.rrev /\ s.at <= t.rat
      <4> DEFINE record == [val |-> Absent]
      <4>1. u = s \/ (record \in Record /\ u = Outbox!Observe(s, record, TRUE))
        BY <2>4
      <4> HIDE DEF record
      <4> QED BY <1>0, <1>a, <2>1, <2>4, <4>1, MergeHolds
    <3> QED BY <2>2, <2>4, <3>1 DEF t
  <2>5. ASSUME NEW k \in DOMAIN log, log[k].rec = r,
               u = Outbox!Observe(s, Outbox!AsRecord(k), TRUE)
        PROVE  Holds(t, w)
    <3> DEFINE record == Outbox!AsRecord(k)
    <3>1. record \in Record /\ record.val = log[k].val
      BY <1>0, <2>5, RecordOf
    <3>2. u = s \/ (record \in Record /\ u = Outbox!Observe(s, record, TRUE))
      BY <2>5, <3>1
    <3> HIDE DEF record
    <3>3. Holds(t, w) \/ w = record.val \/ (~s.merge /\ t.rrev > s.rrev /\ s.at <= t.rat)
      BY <1>0, <1>a, <2>1, <3>2, MergeHolds
    <3> QED BY <2>2, <2>3, <2>5, <3>1, <3>3
  <2> QED BY <2>1, <2>4, <2>5 DEF Reads, t
<1>7. CASE StartRun(d) /\ t = Outbox!Reconcile(s)
  <2>1. /\ SameMirror(s, t) /\ t.val = s.val /\ t.merge = s.merge
        /\ t.fly = s.fly /\ t.cand = s.cand
        /\ Outbox!Dirty(s) => Outbox!Dirty(t)
    BY <1>0, <1>7, ReconcileRow
  <2>2. w = v /\ Holds(s, v)
    BY <1>0, <2>1, SameAuthor
  <2> QED BY <2>1, <2>2 DEF Holds, SameMirror
<1>8. CASE PreparePush(d) /\ Sealed(s) /\ t = [s EXCEPT !.fly = Outbox!Outgoing(s)]
  <2>1. SameMirror(s, t) /\ SameContent(s, t) /\ t.cand = s.cand
        /\ (t.fly = s.fly \/ (s.fly = Outbox!NoEnvelope /\ t.fly = s.pend))
    BY <1>0, <1>8, SendRow
  <2>2. w = v /\ Holds(s, v)
    BY <1>0, <2>1, SameAuthor
  <2> QED BY <2>1, <2>2 DEF Holds, SameMirror, SameContent, Outbox!Dirty
<1>9. CASE CommitPushPrefix(d) /\ Answers(d, r, s, t)
  <2>0. s.rrev > 0 => s.rrev \in DOMAIN log
                        /\ log[s.rrev] = [rec |-> r, val |-> s.rval, at |-> s.rat]
    BY <1>0, <1>9, MirrorKnown DEF Known, CommitPushPrefix, Of
  <2>1. \/ Holds(t, w)
        \/ w = batch[d][r].val
        \/ \E j \in DOMAIN log : log[j].rec = r /\ log[j].val = w
    BY <1>0, <1>9, <2>0, AnsweredRow
  <2>2. w # batch[d][r].val
    <3> DEFINE m == [id |-> <<d, r, batch[d][r].n>>, val |-> batch[d][r].val,
                     at |-> batch[d][r].at]
    <3>1. m \in wire /\ <<d, r, batch[d][r].n>> \in DOMAIN verdict
      BY <1>9 DEF Answers, Outbox!Identity
    <3>2. m.id = <<d, r, batch[d][r].n>> /\ m.val = batch[d][r].val
      OBVIOUS
    <3>3. m.id \in DOMAIN verdict' /\ m.id[1] = d /\ m.id[2] = r
      BY <1>0, <3>1, <3>2
    <3> HIDE DEF m
    <3> QED BY <3>1, <3>2, <3>3 DEF Settled
  <2> QED BY <1>0, <2>1, <2>2 DEF Settled
<1> QED
  BY <1>1, <1>2, <1>3, <1>4, <1>5, <1>6, <1>7, <1>8, <1>9 DEF Moved

(* A user's edit is held as it is made.                                    *)
LEMMA EditHeld ==
  ASSUME Known, NEW d \in Devices, NEW r \in Records, NEW v \in Values, Edit(d, r, v),
         ~Had(d, r, v)
  PROVE  Holds(slot'[d][r], v)
<1> DEFINE s == slot[d][r]
           t == slot'[d][r]
<1>0. /\ TypeOK /\ PhaseOK(d) /\ WellFormed(s) /\ scope[d].gen \in Nat
      /\ slot \in [Devices -> [Records -> Outbox!Slot]] /\ v # Absent
  BY DeviceFields, GenerationAssumption DEF Known, TypeOK, SlotsGood, PhaseInv, DeviceType
<1>1. t = Edited(s, v, now, Queues(d), scope[d].gen # 0)
  BY <1>0 DEF Edit, Edited
<1>2. /\ SameMirror(s, t) /\ t.val = v /\ t.merge = (scope[d].gen # 0) /\ t.fly = s.fly
      /\ Outbox!Dirty(t) <=> Queues(d)
  BY <1>1, EditedRow
<1>3. t.fly # Outbox!NoEnvelope => Queues(d)
  <2>1. CASE scope[d].gen = 0
    BY <1>0, <2>1 DEF PhaseOK, Unbound, Queues
  <2>2. CASE scope[d].gen > 0
    BY <1>2, <2>2 DEF Known, QueueInv, Sealed, Queues
  <2> QED BY <1>0, <2>1, <2>2
<1>4. t.merge \/ (Outbox!Dirty(t) /\ (t.rrev > 0 => t.rval # v))
  <2>1. CASE scope[d].gen = 0
    <3>1. Queues(d)
      BY <1>0, <2>1 DEF PhaseOK, Unbound, Queues
    <3>2. s.rrev > 0 => s.rval # v
      BY <2>1 DEF Had
    <3> QED BY <1>2, <3>1, <3>2 DEF SameMirror
  <2>2. CASE scope[d].gen # 0
    BY <1>2, <2>2
  <2> QED BY <2>1, <2>2
<1> QED BY <1>2, <1>3, <1>4 DEF Holds

(* A receipt is looked into by a run that has read it.                     *)
LEMMA VerifyMoved ==
  ASSUME TypeOK, PhaseInv, NEW d \in Devices, DeviceStep(d), life'[d] \in {"verify", "settle"}
  PROVE  \/ life[d] \in {"verify", "settle"} /\ scope' = scope
         \/ AnswerControl(d)
<1>0. life \in [Devices -> Lives] /\ PlaceOK(d)
  BY DEF TypeOK, DeviceType, PhaseInv, PhaseOK
<1>1. ~EndRun(d) /\ \A phase : Go(d, phase) => phase \in {"verify", "settle"}
  BY <1>0 DEF EndRun, Go
<1>2. CASE Prepare(d)
  <2>1. ~ReadStatus(d) /\ ~Adopt(d) /\ ~Activate(d) /\ ~Quarantine(d) /\ ~Without(d)
        /\ ~Refuse(d) /\ ~Resume(d) /\ ~BeginRebuild(d) /\ ~RejectControl(d)
    BY <1>1 DEF ReadStatus, Adopt, Activate, Quarantine, Without, Refuse, Resume,
       BeginRebuild, RejectControl
  <2>2. ~CancelRebuild(d) /\ ~OpenAttempt(d) /\ ~CompleteAttempt(d)
    BY <1>1 DEF CancelRebuild, OpenAttempt, CompleteAttempt, Send
  <2>3. ~Settle(d) /\ ~CommitStaged(d) /\ ~PublishFullPull(d)
    <3>1. Settle(d) => Go(d, "reread") \/ EndRun(d)
      BY DEF Settle
    <3>2. CommitStaged(d) => Go(d, "progress")
      BY DEF CommitStaged
    <3>3. PublishFullPull(d) => Go(d, "run") \/ EndRun(d)
      <4>1. CASE space.gen # scope[d].gen
        BY <4>1 DEF PublishFullPull
      <4>2. CASE space.gen = scope[d].gen
        <5>1. PublishFullPull(d) => Go(d, "run")
          BY <4>2 DEF PublishFullPull
        <5> QED BY <5>1
      <4> QED BY <4>1, <4>2
    <3> QED BY <1>1, <3>1, <3>2, <3>3
  <2>4. ~Reread(d)
    BY <1>0, <1>1 DEF Reread, PlaceOK, Controlled
  <2>7. ~Upload(d) /\ ~StagePush(d) /\ ~Progress(d) /\ ~Verdict(d)
    BY <1>1 DEF Upload, StagePush, Progress, Verdict
  <2>5. ~FullPage(d) /\ ~ConfirmPull(d)
    BY <1>0, <1>1 DEF FullPage, ConfirmPull, Discard
  <2>6. Verify(d) => life[d] = "verify" /\ scope' = scope
    BY DEF Verify, database
  <2> QED BY <1>2, <2>1, <2>2, <2>3, <2>4, <2>5, <2>6, <2>7 DEF Prepare
<1>3. CASE Synchronise(d)
  <2>1. life[d] = "run" /\ (life' = life \/ Go(d, "idle"))
    BY <1>1, <1>3 DEF Synchronise, StartRun, StartUnready, PullPage, CommitPullPage, JoinRebuilt,
       CompleteBootstrap, PreparePush, CommitPushPrefix, FinishRun, Refused, Steady
  <2> QED BY <1>1, <2>1
<1>4. CASE UserNext(d) \/ Fail(d)
  <2>1. life' = life /\ scope' = scope
    BY <1>1, <1>4 DEF UserNext, Edit, Ask, Fail, database, memory
  <2> QED BY <2>1
<1> QED BY <1>2, <1>3, <1>4 DEF DeviceStep

(* The attempt whose content the service has had is the one it had.        *)
LEMMA AttemptWasDone ==
  ASSUME TypeOK, PhaseInv, AttemptInv, CompleteInv, NEW d \in Devices, DeviceStep(d),
         AttemptDone(d)'
  PROVE  AttemptDone(d) /\ SameAttempt(d)
<1>0. /\ Stays(d) /\ AttemptMoves(d) /\ PlaceOK(d) /\ PlaceOK(d)' /\ scope[d].n \in Nat
      /\ scope[d].local \in Nat /\ done \subseteq Ids \X {"open", "cancel", "complete"}
      /\ life \in [Devices -> Lives] /\ scope \in [Devices -> Scopes]
  BY ServiceStays, AttemptMoved, PhaseDevice, DeviceFields
  DEF TypeOK, DeviceType, ServiceType, PhaseInv, PhaseOK
<1> DEFINE receipt == <<<<d, scope'[d].local>>, "complete">>
<1>1. scope'[d].local # 0 /\ done' = done
      /\ (receipt \in done \/ (scope'[d].control.action = "complete"
                                /\ life'[d] \in {"verify", "settle"}))
  BY <1>0 DEF AttemptDone, Stays
<1>2. CASE scope'[d].local > scope[d].n
  <2>1. receipt \notin done
    <3>1. ASSUME receipt \in done PROVE FALSE
      <4>1. receipt[1][1] = d /\ receipt[1][2] = scope'[d].local
        OBVIOUS
      <4>2. receipt[1][2] <= scope[d].n /\ receipt[1][2] \in Nat
        <5>1. receipt \in done /\ receipt[1] \in Ids
          BY <1>0, <3>1
        <5> QED BY <4>1, <5>1 DEF AttemptInv, Ids
      <4> QED BY <1>0, <1>2, <4>1, <4>2
    <3> QED BY <3>1
  <2>2. scope' = scope
    BY <1>0, <1>1, <2>1, VerifyMoved DEF AnswerControl, database
  <2>3. scope[d].local <= scope[d].n
    BY DEF AttemptInv
  <2> QED BY <1>0, <1>2, <2>2, <2>3
<1>3. CASE SameAttempt(d)
  <2>1. scope'[d].local = scope[d].local
    BY <1>3 DEF SameAttempt
  <2>2. CASE receipt \in done
    BY <1>1, <1>3, <2>1, <2>2 DEF AttemptDone
  <2>3. CASE scope'[d].control.action = "complete" /\ life'[d] \in {"verify", "settle"}
    <3>1. \/ life[d] \in {"verify", "settle"} /\ scope' = scope
          \/ AnswerControl(d)
      BY <1>0, <2>3, VerifyMoved
    <3>2. CASE life[d] \in {"verify", "settle"} /\ scope' = scope
      BY <1>1, <1>3, <2>3, <3>2 DEF AttemptDone
    <3>3. CASE AnswerControl(d)
      <4>1. scope' = scope /\ OpOf(scope[d].control) \in done /\ life[d] = "await"
        BY <3>3 DEF AnswerControl, database
      <4>2. scope[d].control.id = <<d, scope[d].local>>
        BY <1>0, <4>1 DEF PlaceOK, Controlled
      <4>3. OpOf(scope[d].control) = <<<<d, scope[d].local>>, "complete">>
        BY <2>3, <4>1, <4>2 DEF OpOf
      <4> QED BY <1>1, <1>3, <2>1, <4>1, <4>3 DEF AttemptDone
    <3> QED BY <3>1, <3>2, <3>3
  <2> QED BY <1>1, <2>2, <2>3
<1> QED BY <1>0, <1>1, <1>2, <1>3 DEF AttemptMoves

(* Where the history of a device may grow by a candidate, nothing of its   *)
(* own is published.                                                       *)
LEMMA JoinsApart ==
  ASSUME Known, AttemptInv, CompleteInv, NEW d \in Devices, DeviceStep(d), AttemptDone(d)',
         Accounts, NEW r \in Records
  PROVE  AuthorOf(slot[d][r], slot'[d][r], own[d][r]) = own[d][r]
<1> DEFINE s == slot[d][r]
           t == slot'[d][r]
<1>0. /\ TypeOK /\ PhaseInv /\ WellFormed(s) /\ AttemptDone(d) /\ SameAttempt(d) /\ PlaceOK(d)
      /\ slot \in [Devices -> [Records -> Outbox!Slot]] /\ scope[d].local # 0
      /\ scope[d].n \in Nat /\ scope[d].local <= scope[d].n /\ scope \in [Devices -> Scopes]
      /\ scope[d].local \in Nat
  BY AttemptWasDone, DeviceFields
  DEF Known, TypeOK, SlotsGood, DeviceType, PhaseInv, PhaseOK, AttemptDone, AttemptInv
<1>1. scope[d].control.action = "complete"
  BY <1>0 DEF AttemptDone, CompleteInv, Unsent
<1>2. life[d] \notin Free
  BY <1>0, <1>1 DEF PlaceOK, NoOp
<1>3. ~PublishFullPull(d) /\ ~BeginRebuild(d) /\ ~Steady(d)
  BY <1>2 DEF PublishFullPull, BeginRebuild, Steady, Free
<1>4. CASE t = s
  BY <1>4, SameAuthor
<1>5. CASE Retires(d) /\ t = Retired(s)
  BY <1>0, <1>5, RetiredRow, SameAuthor
<1>6. CASE Remarks(d, r, s, t)
  BY <1>0, <1>6, RemarkRow, SameAuthor
<1>7. CASE slot' = slot
  BY <1>7, SameAuthor
<1>8. CASE Adopt(d)
  <2>1. t = s \/ (Retires(d) /\ t = Retired(s))
    BY <1>0, <1>8 DEF Adopt, Retires
  <2> QED BY <1>4, <1>5, <2>1
<1>9. CASE Settle(d)
  <2>1. CASE CompleteRebuild(d)
    <3>1. t = IF entries[d][r] = NoEntry THEN s
              ELSE [s EXCEPT !.merge = Changed(s, entries[d][r])]
      BY <1>0, <2>1 DEF CompleteRebuild
    <3> QED BY <1>4, <1>6, <3>1 DEF Remarks
  <2>2. CASE ~CompleteRebuild(d)
    BY <1>7, <1>9, <2>2 DEF Settle
  <2> QED BY <2>1, <2>2
<1>10. ASSUME NEW q \in Records, NEW v \in Values, Edit(d, q, v)
       PROVE  AuthorOf(slot[d][r], slot'[d][r], own[d][r]) = own[d][r]
  <2>1. CASE q = r
    <3>1. t = Edited(s, v, now, Queues(d), scope[d].gen # 0)
      BY <1>0, <1>10, <2>1 DEF Edit, Edited
    <3>2. t.cand = s.cand
      BY <1>10, <2>1, <3>1, EditedRow
    <3> QED BY <3>2, SameAuthor
  <2>2. CASE q # r
    <3>1. t = s
      BY <1>0, <1>10, <2>2 DEF Edit
    <3> QED BY <1>4, <3>1
  <2> QED BY <2>1, <2>2
<1>11. slot' = slot \/ Writes(d)
  BY <1>0, ServiceStays DEF Stays
<1> QED
  BY <1>3, <1>7, <1>8, <1>9, <1>10, <1>11
  DEF Writes, StartRun, CommitPullPage, JoinRebuilt, CompleteBootstrap, PreparePush,
      CommitPushPrefix

(* What is to be kept, is kept by the steps of a device.                   *)
LEMMA EditDevice ==
  ASSUME Known, AttemptInv, CompleteInv, EditInv, NEW d \in Devices, DeviceStep(d)
  PROVE  EditInv'
<1>0. /\ TypeOK /\ PhaseInv /\ Aside(d) /\ Stays(d)
      /\ own \in [Devices -> [Records -> Values \cup {Absent}]]
      /\ entries \in [Devices -> [Records -> Entries]]
  BY ServiceStays, OthersStill DEF Known, TypeOK, DeviceType
<1> DEFINE Kept(e, r) ==
             /\ own'[e][r] # Absent => Holds(slot'[e][r], own'[e][r])
             /\ AttemptDone(e)' /\ entries'[e][r] # NoEntry => own'[e][r] # entries'[e][r].val
<1>1. SUFFICES ASSUME NEW e \in Devices, NEW r \in Records PROVE Kept(e, r)
  BY DEF EditInv
<1>2. /\ own[e][r] # Absent => Holds(slot[e][r], own[e][r])
      /\ AttemptDone(e) /\ entries[e][r] # NoEntry => own[e][r] # entries[e][r].val
  BY DEF EditInv
<1>3. entries[e][r] # NoEntry => entries[e][r].val # Absent
  BY <1>0, GenerationAssumption DEF Entries
<1>4. AttemptDone(e)' =>
        /\ AttemptDone(e)
        /\ entries'[e][r] # NoEntry => entries[e][r] # NoEntry /\ entries'[e][r].val = entries[e][r].val
  <2>1. CASE e = d
    BY <1>0, <2>1, AttemptWasDone DEF SameAttempt
  <2>2. CASE e # d
    <3>1. scope'[e] = scope[e] /\ entries'[e] = entries[e] /\ life'[e] = life[e] /\ done' = done
      BY <1>0, <2>2 DEF Aside, Still, Stays
    <3> QED BY <3>1 DEF AttemptDone
  <2> QED BY <2>1, <2>2
<1>5. ASSUME own' = own, slot' = slot PROVE Kept(e, r)
  BY <1>2, <1>4, <1>5
<1>6. ASSUME own'[e][r] = Absent PROVE Kept(e, r)
  BY <1>3, <1>4, <1>6
<1>7. CASE \E q \in Records, v \in Values : Edit(d, q, v)
  <2>1. PICK q \in Records, v \in Values : Edit(d, q, v)
    BY <1>7
  <2>2. /\ own' = [own EXCEPT ![d][q] = IF Had(d, q, v) THEN Absent ELSE v]
        /\ scope' = scope /\ entries' = entries /\ life' = life /\ done' = done
    BY <2>1 DEF Edit, database, memory, cloud
  <2>3. CASE e = d /\ r = q
    <3>1. CASE Had(d, q, v)
      BY <1>0, <1>6, <2>2, <2>3, <3>1
    <3>2. CASE ~Had(d, q, v)
      <4>1. own'[e][r] = v
        BY <1>0, <2>2, <2>3, <3>2
      <4>2. Holds(slot'[e][r], v)
        BY <2>1, <2>3, <3>2, EditHeld
      <4>3. AttemptDone(e) /\ entries[e][r] # NoEntry => v # entries[e][r].val
        BY <2>3, <3>2 DEF Had
      <4> QED BY <1>4, <2>2, <4>1, <4>2, <4>3
    <3> QED BY <3>1, <3>2
  <2>4. CASE ~(e = d /\ r = q)
    <3>1. own'[e][r] = own[e][r]
      BY <1>0, <2>2, <2>4
    <3>2. slot'[e][r] = slot[e][r]
      BY <1>0, <2>1, <2>4 DEF Edit, TypeOK, DeviceType
    <3> QED BY <1>2, <1>4, <3>1, <3>2
  <2> QED BY <2>3, <2>4
<1>8. CASE Accounts /\ ~\E q \in Records, v \in Values : Edit(d, q, v)
  <2> DEFINE w == AuthorOf(slot[e][r], slot'[e][r], own[e][r])
  <2>1. own'[e][r] = Absent \/ (own'[e][r] = w /\ ~Settled(e, r, w))
    BY <1>0, <1>8, CountedFor
  <2>2. CASE e # d
    <3>1. slot'[e] = slot[e]
      BY <1>0, <2>2 DEF Aside, Still
    <3>2. w = own[e][r]
      BY <3>1 DEF AuthorOf
    <3> HIDE DEF w
    <3> QED BY <1>2, <1>4, <1>6, <2>1, <3>1, <3>2
  <2>3. CASE e = d
    <3>1. w # Absent /\ ~Settled(e, r, w) => Holds(slot'[e][r], w)
      BY <1>8, <2>3, ContentHeld
    <3>2. AttemptDone(e)' => w = own[e][r]
      BY <1>8, <2>3, JoinsApart
    <3> HIDE DEF w
    <3>3. own'[e][r] # Absent => Holds(slot'[e][r], own'[e][r])
      BY <2>1, <3>1
    <3>4. AttemptDone(e)' /\ entries'[e][r] # NoEntry => own'[e][r] # entries'[e][r].val
      BY <1>2, <1>3, <1>4, <2>1, <3>2
    <3> QED BY <3>3, <3>4
  <2> QED BY <2>2, <2>3
<1>9. Counted(d)
  BY DeviceCounted
<1> QED BY <1>5, <1>7, <1>8, <1>9 DEF Counted

(* It is kept by the service's steps: what they settle was published or    *)
(* ruled on.                                                               *)
LEMMA EditRemote ==
  ASSUME TypeOK, AttemptInv, EditInv, Remote
  PROVE  EditInv'
<1>0. /\ slot' = slot /\ scope' = scope /\ entries' = entries /\ life' = life
      /\ own \in [Devices -> [Records -> Values \cup {Absent}]]
      /\ entries \in [Devices -> [Records -> Entries]]
      /\ mail \subseteq Ops
  BY RemoteUntouched DEF Untouched, database, memory, TypeOK, ServiceType, DeviceType
<1>1. SUFFICES ASSUME NEW e \in Devices, NEW r \in Records
      PROVE  /\ own'[e][r] # Absent => Holds(slot'[e][r], own'[e][r])
             /\ AttemptDone(e)' /\ entries'[e][r] # NoEntry => own'[e][r] # entries'[e][r].val
  BY DEF EditInv
<1> DEFINE v == own[e][r]
<1>2. /\ v # Absent => Holds(slot[e][r], v)
      /\ AttemptDone(e) /\ entries[e][r] # NoEntry => v # entries[e][r].val
      /\ entries[e][r] # NoEntry => entries[e][r].val # Absent
  BY <1>0, GenerationAssumption DEF EditInv, Entries
<1>3. ASSUME Accounts
      PROVE  own'[e][r] = Absent \/ (own'[e][r] = v /\ ~Settled(e, r, v))
  <2>1. AuthorOf(slot[e][r], slot'[e][r], own[e][r]) = own[e][r]
    BY <1>0, SameAuthor
  <2>2. Authored(e, r) = v
    BY <1>3, <2>1, CountedFor
  <2> QED BY <1>3, <2>2, CountedFor
<1>4. ASSUME own'[e][r] \in {v, Absent}, AttemptDone(e)' => AttemptDone(e)
      PROVE  /\ own'[e][r] # Absent => Holds(slot'[e][r], own'[e][r])
             /\ AttemptDone(e)' /\ entries'[e][r] # NoEntry => own'[e][r] # entries'[e][r].val
  BY <1>0, <1>2, <1>4
<1>5. ASSUME done' \subseteq done PROVE AttemptDone(e)' => AttemptDone(e)
  BY <1>0, <1>5 DEF AttemptDone
<1>6. ASSUME NEW op \in mail, ServeControl(op)
      PROVE  /\ own'[e][r] # Absent => Holds(slot'[e][r], own'[e][r])
             /\ AttemptDone(e)' /\ entries'[e][r] # NoEntry => own'[e][r] # entries'[e][r].val
  <2>0. Accounts /\ done' = done \cup {OpOf(op)} /\ op \in Ops
    BY <1>0, <1>6 DEF ServeControl
  <2>1. own'[e][r] = Absent \/ (own'[e][r] = v /\ ~Settled(e, r, v))
    BY <1>3, <2>0
  <2>2. CASE AttemptDone(e)' => AttemptDone(e)
    BY <1>4, <2>1, <2>2
  <2>3. CASE AttemptDone(e)' /\ ~AttemptDone(e)
    <3>1. OpOf(op) = <<<<e, scope[e].local>>, "complete">>
      BY <1>0, <2>0, <2>3 DEF AttemptDone
    <3>2. op.action \in Actions
      BY <2>0 DEF Ops
    <3>3. op.action = "complete" /\ op.id = <<e, scope[e].local>>
      BY <3>1, <3>2 DEF OpOf, Actions
    <3>4. op.expect = op.id
      BY <3>3 DEF AttemptInv, AboutAttempt
    <3>5. Completes(op)
      BY <1>6, <3>3, ServeCases DEF Opens, Cancels
    <3>6. /\ space.attempt.id = <<e, scope[e].local>> /\ Complete
          /\ \E order \in Orders(space.attempt.listed) : log' = Published(order)
      BY <3>3, <3>4, <3>5 DEF Completes
    <3>7. StagedOK(e)
      BY DEF AttemptInv
    <3>8. ASSUME entries[e][r] # NoEntry, v = entries[e][r].val PROVE Settled(e, r, v)
      <4>1. r \in space.attempt.listed
        BY <3>6, <3>7, <3>8 DEF StagedOK, Listed
      <4>2. PICK order \in Orders(space.attempt.listed) : log' = Published(order)
        BY <3>6
      <4>3. PICK k \in DOMAIN log' : log'[k].rec = r
        BY <3>6, <4>1, <4>2, PublishedType
      <4>4. /\ space.attempt.staged[r] # NoEntry
            /\ log'[k].val = space.attempt.staged[r].val
        BY <3>6, <4>2, <4>3, PublishedType
      <4>5. log'[k].val = v
        BY <3>6, <3>7, <3>8, <4>4 DEF StagedOK
      <4> QED BY <4>3, <4>5 DEF Settled
    <3>9. entries[e][r] # NoEntry => own'[e][r] # entries[e][r].val
      BY <1>2, <2>1, <3>8
    <3>10. own'[e][r] # Absent => Holds(slot'[e][r], own'[e][r])
      BY <1>0, <1>2, <2>1
    <3> QED BY <1>0, <3>9, <3>10
  <2> QED BY <2>2, <2>3
<1>7. ASSUME NEW m \in wire, Rule(m)
      PROVE  Accounts /\ done' \subseteq done
  BY <1>7 DEF Rule, cloud
<1>8. ASSUME Retire PROVE own' = own /\ done' \subseteq done
  BY <1>8 DEF Retire
<1>9. ASSUME ExpireReceipt PROVE own' = own /\ done' \subseteq done
  BY <1>9 DEF ExpireReceipt
<1>10. CASE \E m \in wire : Rule(m)
  BY <1>3, <1>4, <1>5, <1>7, <1>10
<1>11. CASE Retire \/ ExpireReceipt
  BY <1>4, <1>5, <1>8, <1>9, <1>11
<1> QED BY <1>6, <1>10, <1>11 DEF Remote

-----------------------------------------------------------------------------
(***************************************************************************)
(* The results.                                                            *)
(***************************************************************************)
(* What a behaviour begins with: every situation is one of Starts.         *)
LEMMA Beginning ==
  ASSUME Init
  PROVE  /\ log \in Seq(Outbox!Published)
         /\ head \in HeadsOf(log)
         /\ space.gen \in Nat \ {0} /\ space.origin \in {"legacy", "initial", "rebuilt"}
         /\ space.backup \in {"rebuildRequired", "ready"} /\ space.attempt = NoAttempt
         /\ space = [gen |-> space.gen, origin |-> space.origin, backup |-> space.backup,
                     attempt |-> NoAttempt]
         /\ space.origin # "rebuilt" => space.backup = "ready"
         /\ slot \in [Devices -> [Records -> Outbox!Slot]]
         /\ cursor \in [Devices -> Nat]
         /\ own \in [Devices -> [Records -> Values \cup {Absent}]]
         /\ \E bound \in [Devices -> Nat] :
              /\ \A d \in Devices : bound[d] < space.gen
              /\ scope = [d \in Devices |->
                            [gen |-> bound[d], backup |-> "ready", boot |-> TRUE,
                             local |-> 0, bound |-> FALSE, control |-> NoOp, n |-> 0]]
         /\ \A d \in Devices :
              /\ scope[d].gen = 0 /\ space.origin = "legacy" => InStep(log, slot[d], cursor[d])
              /\ \A r \in Records :
                   /\ WellFormed(slot[d][r])
                   /\ SentInOrder(slot[d][r])
                   /\ own[d][r] # Absent => Holds(slot[d][r], own[d][r])
<1> DEFINE From(start) ==
      /\ log = start.log
      /\ head \in HeadsOf(start.log)
      /\ slot = start.slot
      /\ cursor = start.cursor
      /\ space = [gen |-> start.gen, origin |-> start.origin, backup |-> start.backup,
                  attempt |-> NoAttempt]
      /\ scope = [d \in Devices |->
                    [gen |-> start.bound[d], backup |-> "ready", boot |-> TRUE,
                     local |-> 0, bound |-> FALSE, control |-> NoOp, n |-> 0]]
      /\ own = [d \in Devices |-> [r \in Records |-> start.own[d][r]]]
<1>1. PICK start \in Starts : From(start)
  BY DEF Init
<1>2. IsStart(start)
  BY GenerationAssumption
<1>3. /\ space.gen = start.gen /\ space.origin = start.origin /\ space.backup = start.backup
      /\ space.attempt = NoAttempt
  BY <1>1
<1>4. /\ log = start.log /\ head \in HeadsOf(log) /\ slot = start.slot /\ cursor = start.cursor
      /\ \A d \in Devices : scope[d].gen = start.bound[d]
      /\ \A d \in Devices, r \in Records : own[d][r] = start.own[d][r]
  BY <1>1
<1>5. start.bound \in [Devices -> Nat] /\ \A d \in Devices : start.bound[d] < space.gen
  BY <1>2, <1>3 DEF IsStart
<1>6. own \in [Devices -> [Records -> Values \cup {Absent}]]
  BY <1>1, <1>2 DEF IsStart
<1>7. ASSUME NEW d \in Devices
      PROVE  /\ scope[d].gen = 0 /\ space.origin = "legacy" => InStep(log, slot[d], cursor[d])
             /\ \A r \in Records :
                  /\ WellFormed(slot[d][r])
                  /\ SentInOrder(slot[d][r])
                  /\ own[d][r] # Absent => Holds(slot[d][r], own[d][r])
  BY <1>2, <1>3, <1>4 DEF IsStart
<1>8. \E bound \in [Devices -> Nat] :
         /\ \A d \in Devices : bound[d] < space.gen
         /\ scope = [d \in Devices |->
                       [gen |-> bound[d], backup |-> "ready", boot |-> TRUE,
                        local |-> 0, bound |-> FALSE, control |-> NoOp, n |-> 0]]
  BY <1>1, <1>5
<1>9. space = [gen |-> space.gen, origin |-> space.origin, backup |-> space.backup,
               attempt |-> NoAttempt]
  BY <1>1, <1>3
<1> HIDE DEF From
<1>10. /\ log \in Seq(Outbox!Published) /\ start.gen \in Nat \ {0}
       /\ start.origin \in {"legacy", "initial", "rebuilt"}
       /\ start.backup \in {"rebuildRequired", "ready"}
       /\ start.origin # "rebuilt" => start.backup = "ready"
       /\ slot \in [Devices -> [Records -> Outbox!Slot]] /\ cursor \in [Devices -> Nat]
  BY <1>2, <1>4 DEF IsStart
<1> QED BY <1>3, <1>4, <1>6, <1>7, <1>8, <1>9, <1>10

(* Nothing is under way when a behaviour begins.                           *)
LEMMA NothingBegun ==
  ASSUME Init
  PROVE  /\ DOMAIN verdict = {} /\ now = MaxTime /\ wire = {} /\ done = {} /\ mail = {}
         /\ pc = [d \in Devices |-> "idle"]
         /\ page = [d \in Devices |-> Outbox!NoPage]
         /\ batch = [d \in Devices |-> Outbox!NoBatch]
         /\ entries = [d \in Devices |-> NoEntries]
         /\ stage = [d \in Devices |-> NoStage]
         /\ life = [d \in Devices |-> "idle"]
         /\ then = [d \in Devices |-> "none"]
         /\ hand = [d \in Devices |-> {}]
         /\ seen = [d \in Devices |-> NoStatus]
         /\ intent = [d \in Devices |-> NoIntent]
BY DEF Init

(* Where a device stands at first.                                         *)
LEMMA ScopeAtFirst ==
  ASSUME Init, NEW d \in Devices
  PROVE  /\ scope[d].gen \in Nat /\ scope[d].gen < space.gen
         /\ scope[d].backup = "ready" /\ scope[d].boot /\ scope[d].local = 0
         /\ ~scope[d].bound /\ scope[d].control = NoOp /\ scope[d].n = 0
         /\ scope[d] \in Scopes
<1>1. PICK bound \in [Devices -> Nat] :
         /\ \A e \in Devices : bound[e] < space.gen
         /\ scope = [e \in Devices |->
                       [gen |-> bound[e], backup |-> "ready", boot |-> TRUE,
                        local |-> 0, bound |-> FALSE, control |-> NoOp, n |-> 0]]
  BY Beginning
<1>2. scope[d] = [gen |-> bound[d], backup |-> "ready", boot |-> TRUE,
                  local |-> 0, bound |-> FALSE, control |-> NoOp, n |-> 0]
  BY <1>1
<1> QED BY <1>1, <1>2 DEF Scopes, Backups

(* The types hold at first.                                                *)
LEMMA TypeAtFirst ==
  ASSUME Init
  PROVE  TypeOK
<1>0. /\ log \in Seq(Outbox!Published) /\ head \in HeadsOf(log)
      /\ space.gen \in Nat \ {0} /\ space.origin \in {"legacy", "initial", "rebuilt"}
      /\ space.backup \in {"rebuildRequired", "ready"}
      /\ space = [gen |-> space.gen, origin |-> space.origin, backup |-> space.backup,
                  attempt |-> NoAttempt]
      /\ slot \in [Devices -> [Records -> Outbox!Slot]] /\ cursor \in [Devices -> Nat]
      /\ own \in [Devices -> [Records -> Values \cup {Absent}]]
  BY Beginning
<1>1. ServiceType
  <2>1. head \in [Records -> Nat]
    BY <1>0 DEF HeadsOf
  <2>2. space \in Spaces
    BY <1>0, Blanks DEF Spaces, Origins, Backups
  <2>3. now \in Outbox!Times
    BY NothingBegun, GenerationAssumption DEF Outbox!Times
  <2> QED BY <1>0, <2>1, <2>2, <2>3, NothingBegun DEF ServiceType
<1>2. DeviceType
  <2>1. scope \in [Devices -> Scopes]
    <3>1. PICK bound \in [Devices -> Nat] :
             scope = [e \in Devices |->
                       [gen |-> bound[e], backup |-> "ready", boot |-> TRUE,
                        local |-> 0, bound |-> FALSE, control |-> NoOp, n |-> 0]]
      BY Beginning
    <3>2. \A d \in Devices : scope[d] \in Scopes
      BY ScopeAtFirst
    <3> QED BY <3>1, <3>2
  <2>2. /\ pc \in [Devices -> Outbox!Phases] /\ page \in [Devices -> Pages]
        /\ batch \in [Devices -> [Records -> Outbox!Envelope \cup {Outbox!NoEnvelope}]]
        /\ entries \in [Devices -> [Records -> Entries]] /\ stage \in [Devices -> Stages]
    BY NothingBegun, Blanks
  <2>3. /\ life \in [Devices -> Lives] /\ then \in [Devices -> Lives \cup {"none"}]
        /\ hand \in [Devices -> SUBSET Records] /\ seen \in [Devices -> Statuses]
        /\ intent \in [Devices -> Intents]
    BY NothingBegun, Blanks
  <2> QED BY <1>0, <2>1, <2>2, <2>3 DEF DeviceType
<1>3. SlotsGood
  BY Beginning DEF SlotsGood
<1> QED BY <1>1, <1>2, <1>3 DEF TypeOK

(* Every device stands before its next generation.                         *)
LEMMA PhaseAtFirst ==
  ASSUME Init
  PROVE  PhaseInv
<1>1. SpaceOK
  BY Beginning DEF SpaceOK
<1>2. ASSUME NEW d \in Devices PROVE PhaseOK(d)
  <2>1. /\ life[d] = "idle" /\ pc[d] = "idle" /\ seen[d] = NoStatus /\ stage[d] = NoStage
        /\ NoStatus.gen = 0 /\ space.gen \in Nat \ {0}
    BY NothingBegun, Beginning DEF NoStatus
  <2>2. SeenOK(d)
    BY <2>1, ScopeAtFirst DEF SeenOK
  <2>3. PlaceOK(d)
    BY <2>1, ScopeAtFirst DEF PlaceOK, Controlled, Free
  <2>4. scope[d].gen = 0 => Unbound(d)
    BY <2>1, ScopeAtFirst DEF Unbound
  <2>5. scope[d].gen > 0 => PartOK(d) /\ RebuiltOK(d)
    BY <2>1, ScopeAtFirst DEF PartOK, RebuiltOK
  <2> QED BY <2>2, <2>3, <2>4, <2>5 DEF PhaseOK
<1> QED BY <1>1, <1>2 DEF PhaseInv

(* No attempt is under way, and nothing waits in a generation.             *)
LEMMA ScopesAtFirst ==
  ASSUME Init
  PROVE  AttemptInv /\ CompleteInv /\ QueueInv
<1>1. mail = {} /\ done = {} /\ NoAttempt.id = None /\ space.attempt = NoAttempt
  BY NothingBegun, Beginning DEF NoAttempt
<1>2. \A d \in Devices : None # <<d, scope[d].local>>
  BY DEF None
<1>3. AttemptInv
  <2>1. ASSUME NEW d \in Devices PROVE StagedOK(d)
    BY <1>1, <1>2 DEF StagedOK
  <2>2. \A d \in Devices : scope[d].local <= scope[d].n /\ scope[d].control = NoOp
    BY ScopeAtFirst
  <2> QED BY <1>1, <2>1, <2>2 DEF AttemptInv
<1>4. CompleteInv
  BY ScopeAtFirst DEF CompleteInv, Unsent
<1>5. QueueInv
  BY ScopeAtFirst DEF QueueInv
<1> QED BY <1>3, <1>4, <1>5

(* No request is under way, and the heads are those of the log.            *)
LEMMA ServiceAtFirst ==
  ASSUME Init
  PROVE  WireInv /\ VerdictInv /\ HeadInv
<1>1. /\ wire = {} /\ DOMAIN verdict = {}
      /\ \A d \in Devices, r \in Records :
           batch[d][r] = Outbox!NoEnvelope /\ SentInOrder(slot[d][r])
  BY NothingBegun, Beginning DEF Outbox!NoBatch
<1>2. WireInv
  BY <1>1 DEF WireInv, WireOK
<1>3. VerdictInv
  BY <1>1 DEF VerdictInv
<1>4. HeadInv
  <2>1. log \in Seq(Outbox!Published) /\ head \in HeadsOf(log)
    BY Beginning
  <2>2. DOMAIN log = 1..Len(log) /\ Len(log) \in Nat
    BY <2>1
  <2>3. \A r \in Records : head[r] \in 0..Len(log)
    BY <2>1 DEF HeadsOf
  <2> QED BY <2>1, <2>2, <2>3 DEF HeadInv, HeadsOf
<1> QED BY <1>2, <1>3, <1>4

(* Devices that continue protocol 1 are in step with the space, and hold   *)
(* what the service never had.                                             *)
LEMMA DevicesAtFirst ==
  ASSUME Init
  PROVE  MirrorInv /\ EditInv
<1>1. EditInv
  BY ScopeAtFirst, Beginning DEF EditInv, AttemptDone
<1>2. ASSUME NEW d \in Devices, Of(d)
      PROVE  /\ \A r \in Records : MirrorOK(d, r)
             /\ space.backup = "ready"
             /\ CursorOK(d)
  <2>1. scope[d].gen = 0 /\ space.origin = "legacy"
    BY <1>2, ScopeAtFirst, Beginning DEF Of
  <2>2. InStep(log, slot[d], cursor[d]) /\ space.backup = "ready"
    BY <2>1, Beginning
  <2>3. \A r \in Records : MirrorOK(d, r)
    BY <2>2 DEF InStep, MirrorOK
  <2>4. CursorOK(d)
    <3>0. /\ log \in Seq(Outbox!Published) /\ head \in HeadsOf(log)
          /\ cursor[d] \in Nat /\ \A r \in Records : WellFormed(slot[d][r])
      BY Beginning
    <3>1. ASSUME NEW r \in Records, head[r] <= cursor[d] PROVE slot[d][r].rrev = head[r]
      <4> DEFINE rev == slot[d][r].rrev
      <4>0. rev \in Nat /\ head[r] \in 0..Len(log) /\ DOMAIN log = 1..Len(log)
            /\ Len(log) \in Nat
        BY <3>0, RowFields DEF HeadsOf
      <4>1. head[r] > 0 => head[r] <= rev
        <5>1. head[r] > 0 => head[r] \in 1..cursor[d] /\ log[head[r]].rec = r
          BY <3>0, <3>1, <4>0 DEF HeadsOf
        <5> QED BY <2>2, <5>1 DEF InStep
      <4>2. rev > 0 => rev <= head[r]
        <5>1. rev > 0 => MirrorOK(d, r)
          BY <2>3
        <5>2. rev > 0 => rev <= Len(log) /\ log[rev].rec = r
          BY <5>1 DEF MirrorOK
        <5>3. \A k \in DOMAIN log : k <= head[log[k].rec]
          BY <3>0 DEF HeadsOf
        <5> QED BY <4>0, <5>2, <5>3
      <4> QED BY <4>0, <4>1, <4>2
    <3> QED BY <2>2, <3>1 DEF CursorOK, InStep
  <2> QED BY <2>2, <2>3, <2>4
<1>3. ASSUME NEW d \in Devices PROVE scope[d].gen # space.gen /\ life[d] # "publish"
  BY ScopeAtFirst, NothingBegun, Beginning
<1>4. MirrorInv
  BY <1>2, <1>3 DEF MirrorInv
<1> QED BY <1>1, <1>4

(* Nothing that an action leaves alone, all invariants hold of still.      *)
LEMMA StutterKeeps ==
  ASSUME IInv, UNCHANGED vars
  PROVE  IInv'
<1>0. /\ UNCHANGED <<log, head, verdict, now, wire, slot, cursor, pc, page, batch>>
      /\ UNCHANGED <<space, done, mail, scope, entries, stage>>
      /\ UNCHANGED <<life, then, hand, seen, intent, own>>
  BY DEF vars, outbox, cloud, database, memory, history
<1>1. TypeOK' /\ HeadInv' /\ VerdictInv'
  BY <1>0 DEF IInv, TypeOK, ServiceType, DeviceType, SlotsGood, HeadInv, VerdictInv
<1>2. PhaseInv'
  BY <1>0 DEF IInv, PhaseInv, SpaceOK, PhaseOK, SeenOK, PlaceOK, Unbound, PartOK, RebuiltOK
<1>3. AttemptInv' /\ CompleteInv' /\ QueueInv'
  BY <1>0 DEF IInv, AttemptInv, AboutAttempt, StagedOK, Listed, CompleteInv, Unsent, QueueInv
<1>4. WireInv'
  BY <1>0 DEF IInv, WireInv, WireOK
<1>5. MirrorInv'
  BY <1>0 DEF IInv, MirrorInv, Of, MirrorOK, CursorOK, PageOK, StageOK
<1>6. EditInv'
  BY <1>0 DEF IInv, EditInv, AttemptDone
<1> QED BY <1>1, <1>2, <1>3, <1>4, <1>5, <1>6 DEF IInv

(* A step of a device keeps what the steps preserve together.              *)
LEMMA DeviceKeeps ==
  ASSUME IInv, NEW d \in Devices, DeviceStep(d)
  PROVE  IInv'
<1>0. /\ TypeOK /\ PhaseInv /\ AttemptInv /\ CompleteInv /\ QueueInv /\ WireInv /\ VerdictInv
      /\ HeadInv /\ MirrorInv /\ EditInv /\ Known
  BY DEF IInv, Known
<1>1. Next
  BY DEF Next, DeviceStep
<1>2. TypeOK'
  BY <1>0, TypeDevice
<1>3. PhaseInv' /\ QueueInv' /\ HeadInv'
  BY <1>0, <1>1, PhaseNext, QueueNext, HeadNext
<1>4. AttemptInv' /\ CompleteInv'
  BY <1>0, <1>2, AttemptDevice, CompleteDevice
<1>5. WireInv'
  BY <1>0, <1>2, WireDevice
<1>6. VerdictInv'
  BY <1>0, <1>1, <1>5, VerdictNext
<1>7. MirrorInv' /\ EditInv'
  BY <1>0, MirrorDevice, EditDevice
<1> QED BY <1>2, <1>3, <1>4, <1>5, <1>6, <1>7 DEF IInv

(* So does what the service does by itself.                                *)
LEMMA RemoteKeeps ==
  ASSUME IInv, Remote
  PROVE  IInv'
<1>0. /\ TypeOK /\ PhaseInv /\ AttemptInv /\ CompleteInv /\ QueueInv /\ WireInv /\ VerdictInv
      /\ HeadInv /\ MirrorInv /\ EditInv /\ Known
  BY DEF IInv, Known
<1>1. Next
  BY DEF Next, Remote, ServiceNext
<1>2. TypeOK'
  BY <1>0, TypeRemote
<1>3. PhaseInv' /\ QueueInv' /\ HeadInv'
  BY <1>0, <1>1, PhaseNext, QueueNext, HeadNext
<1>4. AttemptInv' /\ CompleteInv'
  BY <1>0, AttemptRemote, CompleteRemote
<1>5. WireInv'
  BY <1>0, WireRemote
<1>6. VerdictInv'
  BY <1>0, <1>1, <1>5, VerdictNext
<1>7. MirrorInv' /\ EditInv'
  BY <1>0, MirrorRemote, EditRemote
<1> QED BY <1>2, <1>3, <1>4, <1>5, <1>6, <1>7 DEF IInv

(* The inductive invariant holds of every behaviour.                       *)
THEOREM Inductive == Spec => []IInv
<1>1. Init => IInv
  BY TypeAtFirst, PhaseAtFirst, ScopesAtFirst, ServiceAtFirst, DevicesAtFirst DEF IInv
<1>2. IInv /\ [Next]_vars => IInv'
  <2>1. Next => (\E d \in Devices : DeviceStep(d)) \/ Remote
    BY DEF Next, DeviceStep, Remote, ServiceNext
  <2> QED BY <2>1, StutterKeeps, DeviceKeeps, RemoteKeeps
<1> QED BY <1>1, <1>2, PTL DEF Spec

(* The variables keep their types, and every row of every device is well   *)
(* formed: an envelope that waits has the row's content and number.        *)
THEOREM Typed == Spec => []TypeOK
<1>1. IInv => TypeOK
  BY DEF IInv
<1> QED BY <1>1, Inductive, PTL

(* A device in the current generation knows nothing of an earlier one: its *)
(* mirrors are records of this space, and its cursor passed none that it   *)
(* has not mirrored.  (adoptGeneration, publishFullPull, commitPull)       *)
THEOREM Clean == Spec => []ScopeIsClean
<1>1. IInv => ScopeIsClean
  <2> SUFFICES ASSUME IInv, NEW d \in Devices, scope[d].gen = space.gen PROVE
         /\ \A r \in Records : MirrorOK(d, r)
         /\ scope[d].boot => CursorOK(d)
    BY DEF ScopeIsClean, MirrorOK, CursorOK
  <2> QED BY DEF IInv, MirrorInv, Of
<1> QED BY <1>1, Inductive, PTL

(* What a user wrote and the service never had is the content of its record*)
(* on that device, and marked or queued, through any order of replacements,*)
(* rebuilds, takeovers, lost answers and crashes.  (adoptGeneration,       *)
(* beginRebuild, completeRebuild, publishFullPull, commitPull, commitPush) *)
THEOREM Kept == Spec => []EditsAreKept
<1>1. IInv => EditsAreKept
  BY DEF IInv, EditInv, Holds, EditsAreKept
<1> QED BY <1>1, Inductive, PTL
=============================================================================
