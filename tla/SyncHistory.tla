----------------------------- MODULE SyncHistory -----------------------------
(***************************************************************************)
(* How the device's requests, answers and snapshots relate to the cloud's  *)
(* log: the invariant from which the exactness of the shadow follows.      *)
(***************************************************************************)
EXTENDS SyncEngine

(* The cloud's items are what its log says. *)
ItemsFollowLog(c) == \A i \in Item : CloudRowAt(c, i, Seqno(c), c.items[i])

(* An item's revision grows with every batch that writes it. *)
RevisionsGrow(c) ==
    \A i \in Item : \A k \in 1..Seqno(c) : \A n \in 1..(k-1) :
        (c.log[n].rows[i] # Nil /\ c.log[k].rows[i] # Nil)
            => c.log[n].rows[i].rev < c.log[k].rows[i].rev

(* The requests that may still reach the cloud. *)
Sent == wire \cup ({db.frozen} \ {Nil})

(* Request identities are never used again, so the log speaks of each once. *)
RequestsAreRecorded ==
    /\ nextId >= 1
    /\ \A p \in Sent : 1 <= p.id /\ p.id < nextId
    /\ \A p, q \in Sent : p.id = q.id => p = q
    /\ \A k \in 1..Seqno(cloud) : cloud.log[k].id < nextId
    /\ \A p \in Sent : \A k \in Applied(cloud, p.id) :
           cloud.log[k].rows = UploadedRows(p.items)

(* Nothing is pulled while a request is frozen, so its base stays put. *)
FrozenIsAtCursor ==
    db.frozen # Nil =>
        /\ db.frozen.expectedSeq = db.cursor
        /\ pc \in {"idle", "recover", "awaiting", "ack", "thaw"}

(* A request confirmed is on record. *)
ConfirmedIsRecorded ==
    (pc = "ack" \/ (pc = "awaiting" /\ job.data # Nil /\ job.data.code = "OK"))
        => job.data.seq \in Applied(cloud, db.frozen.id)

(* A snapshot in hand is the cloud at its sequence number, not behind here. *)
SnapshotIsCloud ==
    pc = "restoring" =>
        /\ db.cursor <= job.data.seq /\ job.data.seq <= Seqno(cloud)
        /\ \A i \in Item : CloudRowAt(cloud, i, job.data.seq, job.data.rows[i])

(***************************************************************************)
(* What the device holds agrees with the cloud's log: its frozen request   *)
(* belongs to its cursor, what the log records under a request's identity  *)
(* is that request, and confirmations and snapshots under way tell of the  *)
(* log.  Resending after a lost answer, a crash or a restart rests on it.  *)
(***************************************************************************)
HistoryAgrees ==
    /\ ItemsFollowLog(cloud) /\ RevisionsGrow(cloud)
    /\ RequestsAreRecorded /\ FrozenIsAtCursor
    /\ ConfirmedIsRecorded /\ SnapshotIsCloud
    /\ ShadowIsCloudAtCursor

-----------------------------------------------------------------------------
(* Key generations, and requests given up                                  *)

(* The key generation the cloud had at sequence number s. *)
EpochAt(c, s) == IF s = 0 THEN 1 ELSE c.log[s].epoch

(* Generations only grow along the log, up to the one the cloud has. *)
EpochsGrow(c) ==
    /\ c.epoch = EpochAt(c, Seqno(c))
    /\ \A s \in 0..Seqno(c) : \A t \in 0..s : EpochAt(c, t) <= EpochAt(c, s)

(* What is in memory for the next step is of the cursor and generation it  *)
(* will be compared with.                                                  *)
HeldIsOfItsEpoch ==
    /\ pc = "restoring" => job.data.epoch = EpochAt(cloud, job.data.seq)
    /\ pc = "freezing" => job.data.cursor = db.cursor /\ job.data.epoch = db.epoch
    /\ (pc = "ack" \/ (pc = "awaiting" /\ job.data # Nil /\ job.data.code = "OK"))
         => job.data.epoch = EpochAt(cloud, job.data.seq)

(* A request was made at a point of the log, and became the next batch.    *)
RequestsKeepTheirPlace ==
    /\ db.frozen # Nil => db.frozen.epoch = db.epoch
    /\ \A p \in Sent :
         /\ p.expectedSeq <= Seqno(cloud) /\ p.epoch = EpochAt(cloud, p.expectedSeq)
         /\ \A k \in Applied(cloud, p.id) : k = p.expectedSeq + 1 /\ EpochAt(cloud, k) = p.epoch

(* The cloud refuses a request, now and for ever. *)
RefusedForGood(c, p) ==
    \/ p.epoch < c.epoch
    \/ p.expectedSeq < Seqno(c)
    \/ \E i \in Item : p.items[i] # Nil /\ p.items[i].base # CloudRev(c, i)

(* A refusal in hand is final. *)
RefusalIsFinal ==
    (pc = "thaw" \/ (pc = "awaiting" /\ job.data # Nil /\ job.data.code # "OK"))
        => RefusedForGood(cloud, db.frozen)

AbandonedAreSettled ==
    \A p \in wire :
        p # db.frozen => Applied(cloud, p.id) # {} \/ RefusedForGood(cloud, p)

(***************************************************************************)
(* Every request belongs to a generation and a place of the log, which the *)
(* device's own generation and what it holds in memory agree with; one     *)
(* given up is applied already or never will be.                           *)
(***************************************************************************)
RequestsAgree ==
    /\ EpochsGrow(cloud) /\ EpochIsCloudAtCursor
    /\ HeldIsOfItsEpoch /\ RequestsKeepTheirPlace
    /\ RefusalIsFinal /\ AbandonedAreSettled

-----------------------------------------------------------------------------
(* Conflicts and what is uploaded beside them                              *)

(* An upload about to be frozen avoids the conflicts, too. *)
DraftAvoidsConflicts ==
    pc = "freezing" =>
        \A i \in InBatch(job.data.items) :
            /\ db.conflicts[i] = Nil
            /\ job.data.items[i].val # Nil
                  => Refs[job.data.items[i].val] \cap Conflicted(db) = {}

(* The cloud side of a conflict is a row the cloud recorded. *)
ConflictsAreLogged ==
    \A i \in Item : db.conflicts[i] # Nil =>
        \E k \in 1..db.cursor : cloud.log[k].rows[i] = db.conflicts[i].remote

(* Conflicts are of the cloud's making, and uploads keep clear of them.    *)
ConflictsAgree ==
    /\ DraftAvoidsConflicts /\ UploadsAvoidConflicts
    /\ ConflictShowsCloud /\ ConflictsAreLogged

(* Uploads are prepared by cycles, and cycles run while sync is on. *)
CyclesNeedTheSwitch ==
    /\ pc = "idle" => job = NoJob
    /\ job.op = "cycle" => enabled
    /\ job.then = "drafting" \/ pc \in {"drafting", "freezing"} => job.op = "cycle"
-----------------------------------------------------------------------------
(* What becomes of the user's edits                                        *)

(***************************************************************************)
(* No item is edited while the cloud's row for it waits for what it refers *)
(* to.  applyValues takes such a row without looking at the outbox, so an  *)
(* edit of the item is overwritten: see lost_edit in the README.           *)
(***************************************************************************)
Undisturbed ==
    \A i \in Item :
        (db.conflicts[i] # Nil /\ db.conflicts[i].reason = "dependency")
            => db.pending[i] = Nil

(* Revisions of the outbox are past ones, and its history is of its rows.  *)
OutboxIsPast ==
    /\ db.initialized
    /\ \A i \in Item :
         IF db.pending[i] = Nil THEN basis[i] = Nil
                                ELSE db.pending[i].rev <= db.revision

(* What a request holds is still pending, as it was sent or edited since.  *)
CoversPending(items) ==
    \A i \in InBatch(items) :
        /\ db.pending[i] # Nil
        /\ items[i].gen <= db.revision
        /\ db.pending[i].rev <= items[i].gen => db.pending[i].val = items[i].val

UploadsArePending ==
    /\ db.frozen # Nil => CoversPending(db.frozen.items)
    /\ pc = "freezing" => CoversPending(job.data.items)

(***************************************************************************)
(* Every item shows its pending edit, or what the cloud holds of it, or is *)
(* in conflict; an edit builds on what the cloud holds; and a request      *)
(* covers edits that are still there.                                      *)
(***************************************************************************)
EditsAgree ==
    /\ OutboxIsPast /\ UploadsArePending
    /\ PendingIsLocal /\ SyncedIsCloud /\ EditsBuildOnCloud
=============================================================================
