--------------------------- MODULE MCSyncGeneration ---------------------------
(***************************************************************************)
(* SyncGeneration with two devices, in the situations a generation begins. *)
(***************************************************************************)
EXTENDS SyncGeneration

CONSTANTS a, b, v1, v2, gone

MCDevices == {a, b}
MCValues == {v1, v2, gone}

(* Rows of a device: nothing; in sync with a revision of the old space; an  *)
(* edit of it that is queued; one that was sent and never answered; a       *)
(* candidate of no account.                                                 *)
Empty == Outbox!EmptySlot
Synced(v, k) == [Empty EXCEPT !.val = v, !.at = 1, !.rval = v, !.rat = 1, !.rrev = k]
Queued(v) == Outbox!SaveLocal(Synced(v1, 2), v, 2, TRUE)
Sent(v) == [Queued(v) EXCEPT !.fly = Queued(v).pend]
Spare(v) == [Empty EXCEPT !.cand = [val |-> v, at |-> 1]]

(* The rows of a device by record.                                          *)
Rows(first, second) == [r \in Records |-> IF r = 1 THEN first ELSE second]

NoOwn == Rows(Absent, Absent)

Left(edits_, asks, retires, faults_, expired) ==
  [edit |-> edits_, ask |-> asks, retire |-> retires, fault |-> faults_,
   expire |-> expired]

Pulled(rows) == IF \E r \in Records : rows[r].rrev = 2 THEN 2 ELSE 0

Entry(r, v, t) == [rec |-> r, val |-> v, at |-> t]

(* Device a has the rows given and a user's content the service never had;  *)
(* device b has nothing of that kind.                                       *)
Start(records, gen, origin, backup, rows, others, mine, budget) ==
  [log |-> records, gen |-> gen, origin |-> origin, backup |-> backup,
   bound |-> [d \in Devices |-> gen - 1],
   cursor |-> [d \in Devices |-> IF d = a THEN Pulled(rows) ELSE Pulled(others)],
   slot |-> [d \in Devices |-> IF d = a THEN rows ELSE others],
   own |-> [d \in Devices |-> IF d = a THEN mine ELSE NoOwn],
   left |-> budget]

(* The space ended and was opened again: one device kept an edit that was   *)
(* sent and never ruled on.                                                 *)
Required(second, others, budget) ==
  Start(<<>>, 2, "rebuilt", "rebuildRequired", Rows(Sent(v2), second), others,
        Rows(v2, Absent), budget)

(* Another device has already published its content in the new space.       *)
Ready(budget) ==
  Start(<<Entry(1, v1, 1), Entry(2, v2, 2), Entry(1, v2, 2)>>, 2, "rebuilt", "ready",
        Rows(Queued(gone), Empty), Rows(Synced(v1, 2), Spare(v1)), Rows(gone, Absent),
        budget)

(* The space of protocol 1 has just become a generation.                    *)
Legacy(budget) ==
  Start(<<Entry(2, v2, 1), Entry(1, v1, 1)>>, 1, "legacy", "ready",
        Rows([Sent(v2) EXCEPT !.merge = FALSE], Synced(v2, 1)),
        Rows(Synced(v1, 2), Synced(v2, 1)),
        Rows(v2, Absent), budget)

(* Rebuilds that are taken over, cancelled, interrupted, edited during, or  *)
(* whose receipt has expired; spaces that end again; a lost answer.         *)
MCStarts ==
  {Required(Empty, Rows(Spare(v1), Empty), Left(0, 2, 0, 1, 0)),
   Required(Synced(v1, 1), Rows(Empty, Spare(v1)), Left(0, 1, 0, 1, 1)),
   Required(Empty, Rows(Synced(v1, 2), Empty), Left(1, 1, 0, 0, 0)),
   Ready(Left(0, 1, 1, 0, 0)),
   Legacy(Left(0, 1, 1, 0, 0))}
=============================================================================
