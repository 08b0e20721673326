-------------------------- MODULE SyncShadowProofs --------------------------
(***************************************************************************)
(* The shadow is the cloud at the device's cursor in every reachable       *)
(* state.  It is not inductive alone: it rests on the rest of HistoryAgrees*)
(* and on the types.                                                       *)
(***************************************************************************)
EXTENDS SyncHistory, SyncEngineProofs

-----------------------------------------------------------------------------
(* Rows and the log                                                        *)

(* What the cloud held is settled by the log up to then. *)
LEMMA RowStable ==
    ASSUME NEW c, NEW e, NEW i \in Item, NEW s \in Nat, NEW row,
           \A k \in 1..s : e.log[k] = c.log[k],
           CloudRowAt(c, i, s, row)
    PROVE  CloudRowAt(e, i, s, row)
<1>1. CASE (\A n \in 1..s : c.log[n].rows[i] = Nil) /\ row = Nil
  BY <1>1 DEF CloudRowAt
<1>2. ASSUME NEW k \in 1..s, LastWrite(c, i, s, k), row = c.log[k].rows[i]
      PROVE  CloudRowAt(e, i, s, row)
  <2>1. \A n \in (k+1)..s : n \in 1..s
    OBVIOUS
  <2>2. LastWrite(e, i, s, k)
    BY <1>2, <2>1 DEF LastWrite
  <2> QED BY <1>2, <2>2 DEF CloudRowAt
<1> QED BY <1>1, <1>2 DEF CloudRowAt

(* The next batch replaces the rows it holds and leaves the others. *)
LEMMA NextRow ==
    ASSUME NEW c, NEW i \in Item, NEW s \in Nat, NEW row, CloudRowAt(c, i, s, row)
    PROVE  /\ c.log[s+1].rows[i] = Nil => CloudRowAt(c, i, s+1, row)
           /\ c.log[s+1].rows[i] # Nil => CloudRowAt(c, i, s+1, c.log[s+1].rows[i])
<1>1. ASSUME c.log[s+1].rows[i] = Nil PROVE CloudRowAt(c, i, s+1, row)
  <2>1. CASE (\A n \in 1..s : c.log[n].rows[i] = Nil) /\ row = Nil
    <3>1. \A n \in 1..(s+1) : n \in 1..s \/ n = s+1
      OBVIOUS
    <3> QED BY <1>1, <2>1, <3>1 DEF CloudRowAt
  <2>2. ASSUME NEW k \in 1..s, LastWrite(c, i, s, k), row = c.log[k].rows[i]
        PROVE  CloudRowAt(c, i, s+1, row)
    <3>1. k \in 1..(s+1) /\ \A n \in (k+1)..(s+1) : n \in (k+1)..s \/ n = s+1
      OBVIOUS
    <3>2. LastWrite(c, i, s+1, k)
      BY <1>1, <2>2, <3>1 DEF LastWrite
    <3> QED BY <2>2, <3>1, <3>2 DEF CloudRowAt
  <2> QED BY <2>1, <2>2 DEF CloudRowAt
<1>2. ASSUME c.log[s+1].rows[i] # Nil
      PROVE  CloudRowAt(c, i, s+1, c.log[s+1].rows[i])
  <2>1. s+1 \in 1..(s+1) /\ ((s+1)+1)..(s+1) = {}
    OBVIOUS
  <2>2. LastWrite(c, i, s+1, s+1)
    BY <1>2, <2>1 DEF LastWrite
  <2> QED BY <2>1, <2>2 DEF CloudRowAt
<1> QED BY <1>1, <1>2

(* An item the cloud does not hold was never written before. *)
LEMMA NeverWritten ==
    ASSUME NEW c, NEW i \in Item, NEW s \in Nat, NEW t \in Nat, s <= t, NEW row,
           CloudRowAt(c, i, s, row), CloudRowAt(c, i, t, Nil)
    PROVE  row = Nil
<1>1. \A n \in 1..t : c.log[n].rows[i] = Nil
  BY DEF CloudRowAt, LastWrite
<1>2. 1..s \subseteq 1..t
  OBVIOUS
<1> QED BY <1>1, <1>2 DEF CloudRowAt, LastWrite

(* What the cloud recorded is well-formed. *)
LEMMA RecordedType ==
    ASSUME NEW c \in Cloud, NEW n \in 1..Seqno(c)
    PROVE  /\ c.log[n].rows \in Batch(Row) /\ c.log[n].id \in Nat
           /\ \A i \in Item : c.log[n].rows[i] # Nil => c.log[n].rows[i].rev \in Nat
<1>1. c.log \in Seq(LogEntry)
  BY DEF Cloud, LogEntry
<1>2. c.log[n] \in LogEntry
  BY <1>1 DEF Seqno
<1> QED BY <1>2 DEF LogEntry, Batch, Row

(* The row held of an item is the newest one written. *)
LEMMA NewestRow ==
    ASSUME NEW c \in Cloud, RevisionsGrow(c), NEW s \in Nat, s <= Seqno(c),
           NEW i \in Item, NEW row, CloudRowAt(c, i, s, row),
           NEW n \in 1..s, c.log[n].rows[i] # Nil
    PROVE  row # Nil /\ row.rev \in Nat /\ c.log[n].rows[i].rev \in Nat
           /\ c.log[n].rows[i].rev <= row.rev
<1>1. PICK k \in 1..s : LastWrite(c, i, s, k) /\ row = c.log[k].rows[i]
  BY DEF CloudRowAt
<1>2. row # Nil
  BY <1>1 DEF LastWrite
<1>s. Seqno(c) \in Nat
  BY DEF Cloud, Seqno
<1>3. k \in 1..Seqno(c) /\ n \in 1..Seqno(c)
  BY <1>1, <1>s
<1>4. row.rev \in Nat /\ c.log[n].rows[i].rev \in Nat
  BY <1>1, <1>2, <1>3, RecordedType
<1>5. CASE n = k
  BY <1>1, <1>2, <1>4, <1>5
<1>6. CASE n < k
  <2>1. n \in 1..(k-1)
    BY <1>6
  <2>2. c.log[n].rows[i].rev < c.log[k].rows[i].rev
    BY <1>1, <1>2, <1>3, <2>1 DEF RevisionsGrow
  <2> QED BY <1>1, <1>2, <1>4, <2>2
<1>7. CASE n > k
  <2>1. n \in (k+1)..s
    BY <1>7
  <2> QED BY <1>1, <2>1 DEF LastWrite
<1> QED BY <1>5, <1>6, <1>7

-----------------------------------------------------------------------------
(* The cloud records a batch                                               *)

(* e is c with batches added to its log. *)
Extends(c, e) ==
    /\ Seqno(c) \in Nat /\ Seqno(e) \in Nat /\ Seqno(c) <= Seqno(e)
    /\ \A k \in 1..Seqno(c) : e.log[k] = c.log[k]

(* The log and the items once a batch has been recorded. *)
LEMMA Appended ==
    ASSUME NEW c \in Cloud, NEW id \in Nat, NEW epoch \in Nat, NEW rows \in Batch(Row),
           NEW e, e = AppendBatch(c, id, epoch, rows)
    PROVE  /\ Extends(c, e) /\ Seqno(e) = Seqno(c) + 1
           /\ e.log[Seqno(e)].id = id /\ e.log[Seqno(e)].rows = rows
           /\ \A i \in Item : e.items[i] = IF rows[i] = Nil THEN c.items[i] ELSE rows[i]
<1> DEFINE entry == [id |-> id, epoch |-> epoch, rows |-> rows]
           items == [i \in Item |-> IF rows[i] = Nil THEN c.items[i] ELSE rows[i]]
<1>1. e.log = Append(c.log, entry)
  BY AppendType
<1>2. c.log \in Seq(LogEntry) /\ entry \in LogEntry
  BY DEF Cloud, LogEntry
<1>3. e.items = items
  <2>1. e = [c EXCEPT !.log = Append(c.log, entry), !.items = items, !.epoch = epoch]
    BY DEF AppendBatch
  <2> HIDE DEF entry, items
  <2> QED BY <2>1, Zenon DEF Cloud
<1>4. entry.id = id /\ entry.rows = rows
  OBVIOUS
<1> HIDE DEF entry
<1>5. Len(c.log) \in Nat /\ Len(e.log) = Len(c.log) + 1
  BY <1>1, <1>2
<1>6. e.log[Len(e.log)] = entry
  BY <1>1, <1>2
<1>7. \A k \in 1..Len(c.log) : e.log[k] = c.log[k]
  BY <1>1, <1>2
<1> QED BY <1>3, <1>4, <1>5, <1>6, <1>7 DEF Extends, Seqno

(* A batch one revision up from the cloud's keeps items and log in step. *)
LEMMA AppendKeepsHistory ==
    ASSUME NEW c \in Cloud, NEW id \in Nat, NEW epoch \in Nat, NEW rows \in Batch(Row),
           NEW e \in Cloud, e = AppendBatch(c, id, epoch, rows),
           ItemsFollowLog(c), RevisionsGrow(c),
           \A i \in Item : rows[i] # Nil => rows[i].rev = CloudRev(c, i) + 1
    PROVE  ItemsFollowLog(e) /\ RevisionsGrow(e)
<1>1. /\ Extends(c, e) /\ Seqno(e) = Seqno(c) + 1 /\ Seqno(c) \in Nat
      /\ e.log[Seqno(c) + 1].rows = rows
      /\ \A i \in Item : e.items[i] = IF rows[i] = Nil THEN c.items[i] ELSE rows[i]
  BY Appended DEF Extends
<1>2. ASSUME NEW i \in Item PROVE CloudRowAt(e, i, Seqno(e), e.items[i])
  <2>1. CloudRowAt(c, i, Seqno(c), c.items[i])
    BY DEF ItemsFollowLog
  <2>2. CloudRowAt(e, i, Seqno(c), c.items[i])
    BY <1>1, <2>1, RowStable DEF Extends
  <2> QED BY <1>1, <2>2, NextRow
<1>3. ASSUME NEW i \in Item, NEW k \in 1..Seqno(e), NEW n \in 1..(k-1),
             e.log[n].rows[i] # Nil, e.log[k].rows[i] # Nil
      PROVE  e.log[n].rows[i].rev < e.log[k].rows[i].rev
  <2>1. n \in 1..Seqno(c) /\ e.log[n] = c.log[n]
    BY <1>1 DEF Extends
  <2>2. CASE k \in 1..Seqno(c)
    <3>1. e.log[k] = c.log[k]
      BY <1>1, <2>2 DEF Extends
    <3> QED BY <1>3, <2>1, <2>2, <3>1 DEF RevisionsGrow
  <2>3. CASE k = Seqno(c) + 1
    <3>1. CloudRowAt(c, i, Seqno(c), c.items[i])
      BY DEF ItemsFollowLog
    <3>2. Seqno(c) <= Seqno(c) /\ c.log[n].rows[i] # Nil
      BY <1>1, <1>3, <2>1
    <3>3. c.items[i] # Nil /\ c.items[i].rev \in Nat
          /\ c.log[n].rows[i].rev \in Nat /\ c.log[n].rows[i].rev <= c.items[i].rev
      BY <1>1, <2>1, <3>1, <3>2, NewestRow
    <3>4. rows[i] # Nil /\ rows[i].rev = c.items[i].rev + 1
      BY <1>1, <1>3, <2>3, <3>3 DEF CloudRev
    <3> QED BY <1>1, <2>1, <2>3, <3>3, <3>4
  <2> QED BY <1>1, <2>2, <2>3
<1> QED BY <1>2, <1>3 DEF ItemsFollowLog, RevisionsGrow

(* What the log recorded of a request stays on record. *)
LEMMA RecordStays ==
    ASSUME NEW c, NEW e, NEW id, Extends(c, e)
    PROVE  Applied(c, id) \subseteq Applied(e, id)
BY DEF Extends, Applied, Seqno

-----------------------------------------------------------------------------
(* Steps of the device                                                     *)

(* A step that moves neither the shadow, the cursor, nor the request. *)
LEMMA QuietStep ==
    ASSUME HistoryAgrees, cloud' = cloud, nextId' = nextId,
           db'.shadow = db.shadow, db'.cursor = db.cursor, db'.frozen = db.frozen,
           wire' \subseteq Sent,
           db.frozen # Nil => pc' \in {"idle", "recover", "awaiting", "ack", "thaw"},
           ConfirmedIsRecorded', SnapshotIsCloud'
    PROVE  HistoryAgrees'
<1>1. Sent' \subseteq Sent
  BY DEF Sent
<1>2. RequestsAreRecorded'
  BY <1>1, Zenon DEF HistoryAgrees, RequestsAreRecorded, Seqno
<1>3. FrozenIsAtCursor'
  BY DEF HistoryAgrees, FrozenIsAtCursor
<1>4. ShadowIsCloudAtCursor'
  BY DEF HistoryAgrees, ShadowIsCloudAtCursor
<1>5. ItemsFollowLog(cloud') /\ RevisionsGrow(cloud')
  BY DEF HistoryAgrees
<1> QED BY <1>2, <1>3, <1>4, <1>5 DEF HistoryAgrees

(* A quiet step that leaves nothing of the cloud in memory. *)
LEMMA ForgetfulStep ==
    ASSUME HistoryAgrees, cloud' = cloud, nextId' = nextId,
           db'.shadow = db.shadow, db'.cursor = db.cursor, db'.frozen = db.frozen,
           wire' \subseteq Sent,
           db.frozen # Nil => pc' \in {"idle", "recover", "awaiting", "ack", "thaw"},
           pc' \notin {"ack", "awaiting", "restoring"}
    PROVE  HistoryAgrees'
<1>1. ConfirmedIsRecorded' /\ SnapshotIsCloud'
  BY DEF ConfirmedIsRecorded, SnapshotIsCloud
<1> QED BY <1>1, QuietStep

(* A step that moves the shadow with the cursor, or drops the request. *)
LEMMA MovingStep ==
    ASSUME HistoryAgrees, cloud' = cloud, nextId' = nextId, wire' = wire,
           db'.frozen = Nil, pc' \notin {"ack", "awaiting", "restoring"},
           ShadowIsCloudAtCursor'
    PROVE  HistoryAgrees'
<1>1. Sent' \subseteq Sent
  BY DEF Sent
<1>2. RequestsAreRecorded'
  BY <1>1, Zenon DEF HistoryAgrees, RequestsAreRecorded, Seqno
<1>3. FrozenIsAtCursor' /\ ConfirmedIsRecorded' /\ SnapshotIsCloud'
  BY DEF FrozenIsAtCursor, ConfirmedIsRecorded, SnapshotIsCloud
<1>5. ItemsFollowLog(cloud') /\ RevisionsGrow(cloud')
  BY DEF HistoryAgrees
<1> QED BY <1>2, <1>3, <1>5 DEF HistoryAgrees

(* A failure, a crash: what is persisted stays, what was in memory goes. *)
LEMMA FailureHistory ==
    ASSUME TypeOK, HistoryAgrees, NEW code, Handle(code),
           UNCHANGED <<nextId, wire, cloud>>
    PROVE  HistoryAgrees'
<1>1. /\ [db EXCEPT !.error = code].shadow = db.shadow
      /\ [db EXCEPT !.error = code].cursor = db.cursor
      /\ [db EXCEPT !.error = code].frozen = db.frozen
  BY Zenon DEF TypeOK, Database
<1>2. db'.shadow = db.shadow /\ db'.cursor = db.cursor /\ db'.frozen = db.frozen
  BY <1>1 DEF Handle
<1> QED BY <1>2, ForgetfulStep DEF Handle, Sent

LEMMA EditHistory ==
    ASSUME TypeOK, HistoryAgrees, NEW S, NEW new, Edit(S, new)
    PROVE  HistoryAgrees'
<1>1. db'.shadow = db.shadow /\ db'.cursor = db.cursor /\ db'.frozen = db.frozen
  BY Zenon DEF Edit, Commit, TypeOK, Database
<1>2. FrozenIsAtCursor /\ ConfirmedIsRecorded /\ SnapshotIsCloud
  BY DEF HistoryAgrees
<1>3. UNCHANGED <<pc, job, nextId, wire, cloud>>
  BY DEF Edit
<1>4. ConfirmedIsRecorded' /\ SnapshotIsCloud'
  BY <1>1, <1>2, <1>3 DEF ConfirmedIsRecorded, SnapshotIsCloud, Seqno
<1> QED BY <1>1, <1>2, <1>3, <1>4, QuietStep DEF Sent, FrozenIsAtCursor

(* An operation starts: a frozen request is settled first. *)
LEMMA BeginHistory ==
    ASSUME TypeOK, HistoryAgrees, NEW op, NEW then, NEW ask, Begin(op, then, ask),
           db' = db \/ db' = [db EXCEPT !.error = ""],
           UNCHANGED <<nextId, wire, cloud>>
    PROVE  HistoryAgrees'
<1>1. /\ [db EXCEPT !.error = ""].shadow = db.shadow
      /\ [db EXCEPT !.error = ""].cursor = db.cursor
      /\ [db EXCEPT !.error = ""].frozen = db.frozen
  BY Zenon DEF TypeOK, Database
<1> QED BY <1>1, ForgetfulStep DEF Begin, Sent

(* Nothing happens that the requests, the log or the shadow depend on. *)
LEMMA IdleHistory ==
    ASSUME TypeOK, HistoryAgrees, db' = db \/ db' = [db EXCEPT !.error = ""],
           UNCHANGED <<pc, job, nextId, cloud>>, wire' \subseteq wire
    PROVE  HistoryAgrees'
<1>1. /\ [db EXCEPT !.error = ""].shadow = db.shadow
      /\ [db EXCEPT !.error = ""].cursor = db.cursor
      /\ [db EXCEPT !.error = ""].frozen = db.frozen
  BY Zenon DEF TypeOK, Database
<1>2. db'.shadow = db.shadow /\ db'.cursor = db.cursor /\ db'.frozen = db.frozen
  BY <1>1
<1>3. FrozenIsAtCursor /\ ConfirmedIsRecorded /\ SnapshotIsCloud
  BY DEF HistoryAgrees
<1>4. ConfirmedIsRecorded' /\ SnapshotIsCloud'
  BY <1>2, <1>3 DEF ConfirmedIsRecorded, SnapshotIsCloud, Seqno
<1> QED BY <1>2, <1>3, <1>4, QuietStep DEF Sent, FrozenIsAtCursor

(* The cloud is asked for the outcome, and the same request sent again. *)
LEMMA RecoverHistory ==
    ASSUME TypeOK, HistoryAgrees, Recover
    PROVE  HistoryAgrees'
<1>1. CASE Applied(cloud, db.frozen.id) # {}
  <2>1. job'.data = BatchAnswer(cloud, db.frozen.id)
    BY <1>1, Zenon DEF Recover, TypeOK, Job
  <2>2. job'.data.seq \in Applied(cloud, db.frozen.id)
    BY <1>1, <2>1 DEF BatchAnswer
  <2>3. ConfirmedIsRecorded' /\ SnapshotIsCloud'
    BY <1>1, <2>2 DEF Recover, ConfirmedIsRecorded, SnapshotIsCloud
  <2> QED BY <1>1, <2>3, QuietStep DEF Recover, Sent
<1>2. CASE Applied(cloud, db.frozen.id) = {}
  <2>1. job'.data = Nil
    BY <1>2 DEF Recover, TypeOK, HoldsWhatItNeeds
  <2>2. ConfirmedIsRecorded' /\ SnapshotIsCloud'
    BY <1>2, <2>1 DEF Recover, ConfirmedIsRecorded, SnapshotIsCloud
  <2>3. db.frozen # Nil
    BY DEF Recover, TypeOK, HoldsWhatItNeeds
  <2> QED BY <1>2, <2>2, <2>3, QuietStep DEF Recover, Sent
<1> QED BY <1>1, <1>2

LEMMA AnswerArrivesHistory ==
    ASSUME TypeOK, HistoryAgrees, AnswerArrives
    PROVE  HistoryAgrees'
<1>1. CASE job.data.code = "OK" /\ pc' = "ack" /\ UNCHANGED <<db, job>>
  <2>1. ConfirmedIsRecorded' /\ SnapshotIsCloud'
    BY <1>1 DEF AnswerArrives, HistoryAgrees, ConfirmedIsRecorded, SnapshotIsCloud
  <2> QED BY <1>1, <2>1, QuietStep DEF AnswerArrives, Sent
<1>2. CASE pc' = "thaw" /\ UNCHANGED <<db, job>>
  BY <1>2, ForgetfulStep DEF AnswerArrives, Sent
<1>3. CASE Handle(job.data.code)
  BY <1>3, FailureHistory DEF AnswerArrives
<1> QED BY <1>1, <1>2, <1>3 DEF AnswerArrives

(* The request confirmed is the batch next to the cursor. *)
LEMMA AckRequestHistory ==
    ASSUME TypeOK, HistoryAgrees, AckRequest
    PROVE  HistoryAgrees'
<1>1. CASE ~AckAllowed(db, db.frozen.id, job.data.seq, job.data.epoch)
  BY <1>1, FailureHistory DEF AckRequest
<1>2. CASE AckAllowed(db, db.frozen.id, job.data.seq, job.data.epoch)
  <2> DEFINE r == db.frozen
             seq == job.data.seq
  <2>1. r \in Request /\ r # Nil /\ db.cursor \in Nat /\ Seqno(cloud) \in Nat
    BY DEF AckRequest, TypeOK, HoldsWhatItNeeds, Database, Seqno, Cloud
  <2>2. seq \in Applied(cloud, r.id) /\ seq \in 1..Seqno(cloud)
    BY DEF AckRequest, HistoryAgrees, ConfirmedIsRecorded, Applied, Seqno
  <2>3. seq = db.cursor + 1
    BY <1>2, <2>1 DEF AckAllowed, HistoryAgrees, FrozenIsAtCursor
  <2>4. cloud.log[seq].rows = UploadedRows(r.items)
    BY <2>1, <2>2 DEF HistoryAgrees, RequestsAreRecorded, Sent
  <2>5. /\ db'.shadow = ShadowAfterAck(db) /\ db'.cursor = seq /\ db'.frozen = Nil
    BY <1>2, Zenon DEF AckRequest, Ack, TypeOK, Database
  <2>6. ASSUME NEW i \in Item PROVE CloudRowAt(cloud, i, seq, db'.shadow[i])
    <3>1. CloudRowAt(cloud, i, db.cursor, db.shadow[i])
      BY DEF HistoryAgrees, ShadowIsCloudAtCursor
    <3>2. CASE r.items[i] = Nil
      <4>1. cloud.log[seq].rows[i] = Nil /\ db'.shadow[i] = db.shadow[i]
        BY <2>4, <2>5, <3>2 DEF UploadedRows, ShadowAfterAck
      <4> QED BY <2>1, <2>3, <3>1, <4>1, NextRow
    <3>3. CASE r.items[i] # Nil
      <4>1. cloud.log[seq].rows[i] = db'.shadow[i]
        BY <2>4, <2>5, <3>3 DEF UploadedRows, ShadowAfterAck
      <4>2. UploadedRows(r.items) \in Batch(Row)
        BY <2>1, UploadedType DEF Request
      <4>3. UploadedRows(r.items)[i] # Nil
        <5>1. r.items[i] \in UploadRow
          BY <2>1, <3>3 DEF Request, Batch
        <5>2. UploadedRows(r.items)[i] \in Row
          BY <3>3, <5>1 DEF UploadedRows, UploadRow, Row
        <5> QED BY <5>2, NilIsNoRow
      <4> QED BY <2>1, <2>3, <2>4, <3>1, <4>1, <4>3, NextRow
    <3> QED BY <3>2, <3>3
  <2>7. ShadowIsCloudAtCursor'
    BY <2>2, <2>5, <2>6 DEF AckRequest, ShadowIsCloudAtCursor
  <2> QED BY <1>2, <2>5, <2>7, MovingStep DEF AckRequest, PullThen
<1> QED BY <1>1, <1>2

LEMMA ThawRequestHistory ==
    ASSUME TypeOK, HistoryAgrees, ThawRequest
    PROVE  HistoryAgrees'
<1>1. db'.shadow = db.shadow /\ db'.cursor = db.cursor /\ db'.frozen = Nil
  BY Zenon DEF ThawRequest, Thaw, TypeOK, Database
<1>2. ShadowIsCloudAtCursor'
  BY <1>1 DEF ThawRequest, HistoryAgrees, ShadowIsCloudAtCursor
<1> QED BY <1>1, <1>2, MovingStep DEF ThawRequest, PullThen

(* While increments are read no request is frozen. *)
LEMMA NoneFrozen ==
    ASSUME HistoryAgrees, pc \notin {"idle", "recover", "awaiting", "ack", "thaw"}
    PROVE  db.frozen = Nil
BY DEF HistoryAgrees, FrozenIsAtCursor

(* The steps of a pull that only read, and a draft that only looks. *)
LEMMA ReadingHistory ==
    ASSUME TypeOK, HistoryAgrees, GetChanges \/ FinishPage \/ MakeDraft
    PROVE  HistoryAgrees'
<1>1. db.frozen = Nil
  BY NoneFrozen DEF GetChanges, FinishPage, MakeDraft
<1>2. pc' \notin {"ack", "awaiting", "restoring"}
  <2>1. job.then \in {"none", "drafting", "resolving", "again"}
    BY DEF TypeOK, Job
  <2> QED BY <2>1 DEF GetChanges, FinishPage, MakeDraft, AfterPull
<1>3. UNCHANGED <<db, nextId, wire, cloud>>
  BY DEF GetChanges, FinishPage, MakeDraft
<1> QED BY <1>1, <1>2, <1>3, ForgetfulStep DEF Sent

(* A batch next to the cursor is never stale: it replaces the shadow rows. *)
LEMMA ApplyBatchHistory ==
    ASSUME TypeOK, HistoryAgrees, ApplyBatch
    PROVE  HistoryAgrees'
<1> DEFINE next == db.cursor + 1
           batch == cloud.log[next]
<1>1. next \in 1..Seqno(cloud) /\ db.cursor \in Nat /\ Seqno(cloud) \in Nat
  <2>1. Seqno(cloud) \in Nat /\ db.cursor \in Nat /\ job.page \in Nat /\ job.until \in Nat
    BY DEF TypeOK, Cloud, Seqno, Database, Job
  <2> QED BY <2>1 DEF ApplyBatch, TypeOK, HoldsWhatItNeeds, PageIsLogged
<1>2. db.frozen = Nil /\ db \in Database /\ cloud \in Cloud
  BY NoneFrozen DEF ApplyBatch, TypeOK
<1>3. CASE pc' = "snapshot" /\ UNCHANGED <<db, job>>
  BY <1>2, <1>3, ForgetfulStep DEF ApplyBatch, Sent
<1>4. CASE Handle("SYNC_PROTOCOL")
  BY <1>4, FailureHistory DEF ApplyBatch
<1>5. ASSUME NEW A, db' = ApplyValues(db, batch.rows, next, batch.epoch, FALSE, A),
             UNCHANGED <<pc, job>>
      PROVE  HistoryAgrees'
  <2>1. /\ db'.shadow = ShadowAfter(db, batch.rows, FALSE)
        /\ db'.cursor = next /\ db'.frozen = Nil
    BY <1>2, <1>5, Zenon DEF ApplyValues, Database
  <2>2. ASSUME NEW i \in Item PROVE CloudRowAt(cloud, i, next, db'.shadow[i])
    <3>1. CloudRowAt(cloud, i, db.cursor, db.shadow[i])
      BY DEF HistoryAgrees, ShadowIsCloudAtCursor
    <3>2. CASE batch.rows[i] = Nil
      <4>1. db'.shadow[i] = db.shadow[i]
        BY <2>1, <3>2 DEF ShadowAfter, Fresh, InBatch, Incoming
      <4> QED BY <1>1, <3>1, <3>2, <4>1, NextRow
    <3>3. CASE batch.rows[i] # Nil
      <4>1. ~(db.shadow[i] # Nil /\ batch.rows[i].rev <= db.shadow[i].rev)
        <5> SUFFICES ASSUME db.shadow[i] # Nil PROVE ~(batch.rows[i].rev <= db.shadow[i].rev)
          OBVIOUS
        <5>1. PICK k \in 1..db.cursor : db.shadow[i] = cloud.log[k].rows[i]
          BY <3>1 DEF CloudRowAt
        <5>2. k \in 1..(next-1) /\ k \in 1..Seqno(cloud)
          BY <1>1
        <5>3. cloud.log[k].rows[i].rev < batch.rows[i].rev
          BY <1>1, <3>3, <5>1, <5>2 DEF HistoryAgrees, RevisionsGrow
        <5>4. cloud.log[k].rows[i].rev \in Nat /\ batch.rows[i].rev \in Nat
          BY <1>1, <1>2, <3>3, <5>1, <5>2, RecordedType
        <5> QED BY <5>1, <5>3, <5>4
      <4>2. Incoming(db, batch.rows, FALSE)[i] = batch.rows[i]
        BY DEF Incoming
      <4>3. i \in Fresh(db, batch.rows, FALSE)
        BY <3>3, <4>1, <4>2 DEF Fresh, InBatch, Stale
      <4>4. db'.shadow[i] = batch.rows[i]
        BY <2>1, <4>2, <4>3 DEF ShadowAfter
      <4> QED BY <1>1, <3>1, <3>3, <4>4, NextRow
    <3> QED BY <3>2, <3>3
  <2>3. UNCHANGED <<nextId, wire, cloud>> /\ pc = "applying"
    BY DEF ApplyBatch
  <2>4. ShadowIsCloudAtCursor'
    <3>1. next <= Seqno(cloud)
      BY <1>1
    <3> HIDE DEF next, batch
    <3> QED BY <2>1, <2>2, <2>3, <3>1, Zenon DEF ShadowIsCloudAtCursor
  <2> QED BY <1>5, <2>1, <2>3, <2>4, MovingStep
<1> QED BY <1>3, <1>4, <1>5 DEF ApplyBatch

LEMMA TakeSnapshotHistory ==
    ASSUME TypeOK, HistoryAgrees, TakeSnapshot
    PROVE  HistoryAgrees'
<1>1. db.frozen = Nil
  BY NoneFrozen DEF TakeSnapshot
<1>2. job'.data = SnapshotOf(cloud)
  BY Zenon DEF TakeSnapshot, TypeOK, Job
<1>3. job'.data.seq = Seqno(cloud) /\ job'.data.rows = cloud.items
  BY <1>2 DEF SnapshotOf
<1>4. ItemsFollowLog(cloud) /\ db.cursor <= Seqno(cloud) /\ Seqno(cloud) \in Nat
  BY DEF HistoryAgrees, ShadowIsCloudAtCursor, TypeOK, Cloud, Seqno
<1>5. ConfirmedIsRecorded' /\ SnapshotIsCloud'
  BY <1>3, <1>4 DEF TakeSnapshot, ConfirmedIsRecorded, SnapshotIsCloud, ItemsFollowLog
<1> QED BY <1>1, <1>5, QuietStep DEF TakeSnapshot, Sent

(* A snapshot omits no item the device has ever seen in the cloud. *)
LEMMA RestoreSnapshotHistory ==
    ASSUME TypeOK, HistoryAgrees, RestoreSnapshot
    PROVE  HistoryAgrees'
<1> DEFINE rows == job.data.rows
           seq == job.data.seq
<1>1. rows \in Batch(Row) /\ seq \in Nat /\ db \in Database /\ db.cursor \in Nat
  BY DEF RestoreSnapshot, TypeOK, HoldsWhatItNeeds, Snapshot, Database
<1>2. db.frozen = Nil
  BY NoneFrozen DEF RestoreSnapshot
<1>3. /\ db'.shadow = ShadowAfter(db, rows, TRUE)
      /\ db'.cursor = seq /\ db'.frozen = Nil
  <2>1. PICK A : db' = ApplyValues(db, rows, seq, job.data.epoch, TRUE, A)
    BY DEF RestoreSnapshot
  <2> HIDE DEF rows, seq
  <2> QED BY <1>1, <1>2, <2>1, Zenon DEF ApplyValues, Database
<1>4. db.cursor <= seq /\ seq <= Seqno(cloud)
  BY DEF HistoryAgrees, SnapshotIsCloud, RestoreSnapshot
<1>5. ASSUME NEW i \in Item PROVE CloudRowAt(cloud, i, seq, db'.shadow[i])
  <2>1. CloudRowAt(cloud, i, db.cursor, db.shadow[i]) /\ CloudRowAt(cloud, i, seq, rows[i])
    BY DEF HistoryAgrees, ShadowIsCloudAtCursor, SnapshotIsCloud, RestoreSnapshot
  <2>2. CASE rows[i] = Nil
    <3>1. db.shadow[i] = Nil
      BY <1>1, <1>4, <2>1, <2>2, NeverWritten
    <3>2. db'.shadow[i] = Nil
      BY <1>3, <2>2, <3>1 DEF ShadowAfter, Fresh, InBatch, Incoming
    <3> QED BY <2>1, <2>2, <3>2
  <2>3. CASE rows[i] # Nil
    <3>1. i \in Fresh(db, rows, TRUE) /\ Incoming(db, rows, TRUE)[i] = rows[i]
      BY <2>3 DEF Fresh, InBatch, Incoming, Stale
    <3>2. db'.shadow[i] = rows[i]
      BY <1>3, <3>1 DEF ShadowAfter
    <3> QED BY <2>1, <3>2
  <2> QED BY <2>2, <2>3
<1>6. ShadowIsCloudAtCursor'
  BY <1>3, <1>4, <1>5 DEF RestoreSnapshot, ShadowIsCloudAtCursor
<1>7. pc' \notin {"ack", "awaiting", "restoring"}
  BY DEF RestoreSnapshot, AfterPull, TypeOK, Job
<1> QED BY <1>3, <1>6, <1>7, MovingStep DEF RestoreSnapshot

(* Settling conflicts and trying dependencies again brings no cloud rows. *)
LEMMA ResolveHistory ==
    ASSUME TypeOK, HistoryAgrees, Resolve
    PROVE  HistoryAgrees'
<1>1. CASE \E code : Handle(code)
  BY <1>1, FailureHistory DEF Resolve
<1>2. ASSUME Refusal = "", NEW d \in Settlements, NEW A,
             db' = ApplyValues(d, NoRows, d.cursor, d.epoch, FALSE, A), pc' = "idle"
      PROVE  HistoryAgrees'
  <2>1. d \in Database /\ d.frozen = db.frozen /\ db \in Database
    BY <1>2, SettlementType DEF Resolve, TypeOK
  <2>2. d.shadow = db.shadow /\ d.cursor = db.cursor
    <3>1. CASE \E S, copies, new : d = SettleBatch(db, S, copies, new)
      BY <2>1, <3>1, Zenon DEF SettleBatch, Database
    <3>2. CASE \E i, choice : d = SettleOne(db, i, choice)
      BY <2>1, <3>2, Zenon DEF SettleOne, Database
    <3> QED BY <1>2, <3>1, <3>2 DEF Settlements
  <2>3. /\ db'.shadow = ShadowAfter(d, NoRows, FALSE)
        /\ db'.cursor = db.cursor /\ db'.frozen = db.frozen
    BY <1>2, <2>1, <2>2, Zenon DEF ApplyValues, Database
  <2>4. \A i \in Item : db'.shadow[i] = db.shadow[i]
    BY <2>2, <2>3 DEF ShadowAfter, Fresh, InBatch, Incoming, NoRows
  <2>5. ShadowIsCloudAtCursor'
    BY <2>3, <2>4 DEF Resolve, HistoryAgrees, ShadowIsCloudAtCursor
  <2>6. db.frozen = Nil
    BY NoneFrozen DEF Resolve
  <2> QED BY <1>2, <2>3, <2>5, <2>6, MovingStep DEF Resolve
<1> QED BY <1>1, <1>2 DEF Resolve

(* A request gets an identity of its own and the cursor it was drafted at. *)
LEMMA FreezeAndSendHistory ==
    ASSUME TypeOK, HistoryAgrees, FreezeAndSend
    PROVE  HistoryAgrees'
<1>1. CASE ~FreezeAllowed(db, job.data)
  BY <1>1, FailureHistory DEF FreezeAndSend
<1>2. CASE FreezeAllowed(db, job.data)
  <2> DEFINE p == db'.frozen
  <2>1. db' = Freeze(db, job.data, nextId) /\ db \in Database
    BY <1>2 DEF FreezeAndSend, TypeOK
  <2>2. /\ db'.shadow = db.shadow /\ db'.cursor = db.cursor
        /\ p = [id |-> nextId, epoch |-> job.data.epoch,
                expectedSeq |-> job.data.cursor, items |-> job.data.items]
    BY <2>1, Zenon DEF Freeze, Database
  <2>3. p.id = nextId /\ p.expectedSeq = db.cursor
    BY <1>2, <2>2 DEF FreezeAllowed
  <2> HIDE DEF p
  <2>4. nextId' = nextId + 1 /\ wire' = wire \cup {p} /\ cloud' = cloud
    BY <1>2 DEF FreezeAndSend, p
  <2>5. Sent' \subseteq Sent \cup {p}
    BY <2>4 DEF Sent, p
  <2>6. nextId \in Nat /\ nextId >= 1 /\ \A q \in Sent : q \in Request
    BY DEF TypeOK, HistoryAgrees, RequestsAreRecorded, Sent, Database
  <2>7. \A q \in Sent : 1 <= q.id /\ q.id < nextId /\ q.id \in Nat
    BY <2>6 DEF HistoryAgrees, RequestsAreRecorded, Request
  <2>8. \A k \in 1..Seqno(cloud) : cloud.log[k].id < nextId /\ cloud.log[k].id \in Nat
    BY RecordedType DEF HistoryAgrees, RequestsAreRecorded, TypeOK
  <2>9. Applied(cloud, p.id) = {}
    BY <2>3, <2>6, <2>8 DEF Applied, Seqno
  <2>10. RequestsAreRecorded'
    <3>1. nextId' >= 1
      BY <2>4, <2>6
    <3>2. ASSUME NEW q \in Sent' PROVE 1 <= q.id /\ q.id < nextId'
      BY <2>3, <2>4, <2>5, <2>6, <2>7
    <3>3. ASSUME NEW q \in Sent', NEW r \in Sent', q.id = r.id PROVE q = r
      <4>1. CASE q \in Sent /\ r \in Sent
        BY <3>3, <4>1 DEF HistoryAgrees, RequestsAreRecorded
      <4>2. CASE q = p \/ r = p
        BY <2>3, <2>5, <2>6, <2>7, <3>3, <4>2
      <4> QED BY <2>5, <4>1, <4>2
    <3>4. \A k \in 1..Seqno(cloud') : cloud'.log[k].id < nextId'
      BY <2>4, <2>6, <2>8
    <3>5. ASSUME NEW q \in Sent', NEW k \in Applied(cloud', q.id)
          PROVE  cloud'.log[k].rows = UploadedRows(q.items)
      BY <2>4, <2>5, <2>9, <3>5 DEF HistoryAgrees, RequestsAreRecorded
    <3> QED BY <3>1, <3>2, <3>3, <3>4, <3>5 DEF RequestsAreRecorded
  <2>11. pc' = "awaiting" /\ job'.data = Nil
    BY <1>2, Zenon DEF FreezeAndSend, TypeOK, Job
  <2>12. FrozenIsAtCursor' /\ ConfirmedIsRecorded' /\ SnapshotIsCloud'
    BY <2>2, <2>3, <2>11 DEF FrozenIsAtCursor, ConfirmedIsRecorded, SnapshotIsCloud, p
  <2>13. ShadowIsCloudAtCursor'
    BY <2>2, <2>4 DEF HistoryAgrees, ShadowIsCloudAtCursor
  <2>14. ItemsFollowLog(cloud') /\ RevisionsGrow(cloud')
    BY <2>4 DEF HistoryAgrees
  <2> QED BY <2>10, <2>12, <2>13, <2>14 DEF HistoryAgrees
<1> QED BY <1>1, <1>2

-----------------------------------------------------------------------------
(* Steps of the cloud                                                      *)

(***************************************************************************)
(* The cloud's log grows and the device stands still: what it holds of the *)
(* log stays true if the new batches are those of the requests they name.  *)
(***************************************************************************)
LEMMA CloudStep ==
    ASSUME TypeOK, HistoryAgrees, Extends(cloud, cloud'),
           ItemsFollowLog(cloud'), RevisionsGrow(cloud'),
           UNCHANGED <<db, pc, nextId>>, wire' \subseteq wire,
           \A k \in (Seqno(cloud)+1)..Seqno(cloud') :
               /\ cloud'.log[k].id < nextId
               /\ \A p \in Sent : p.id = cloud'.log[k].id
                                     => cloud'.log[k].rows = UploadedRows(p.items),
           ConfirmedIsRecorded', pc = "restoring" => job' = job
    PROVE  HistoryAgrees'
<1>1. /\ Seqno(cloud) \in Nat /\ Seqno(cloud') \in Nat /\ Seqno(cloud) <= Seqno(cloud')
      /\ \A k \in 1..Seqno(cloud) : cloud'.log[k] = cloud.log[k]
  BY DEF Extends
<1>2. \A k \in 1..Seqno(cloud') : k \in 1..Seqno(cloud) \/ k \in (Seqno(cloud)+1)..Seqno(cloud')
  BY <1>1
<1>3. ASSUME NEW i \in Item, NEW s \in Nat, s <= Seqno(cloud), NEW row,
             CloudRowAt(cloud, i, s, row)
      PROVE  CloudRowAt(cloud', i, s, row)
  <2>1. \A k \in 1..s : cloud'.log[k] = cloud.log[k]
    BY <1>1, <1>3
  <2> QED BY <1>3, <2>1, RowStable
<1>4. RequestsAreRecorded'
  <2>1. Sent' \subseteq Sent
    BY DEF Sent
  <2>2. nextId' >= 1 /\ \A p \in Sent' : 1 <= p.id /\ p.id < nextId'
    BY <2>1 DEF HistoryAgrees, RequestsAreRecorded
  <2>3. \A p, q \in Sent' : p.id = q.id => p = q
    BY <2>1 DEF HistoryAgrees, RequestsAreRecorded
  <2>4. \A k \in 1..Seqno(cloud') : cloud'.log[k].id < nextId'
    BY <1>1, <1>2 DEF HistoryAgrees, RequestsAreRecorded
  <2>5. ASSUME NEW p \in Sent', NEW k \in Applied(cloud', p.id)
        PROVE  cloud'.log[k].rows = UploadedRows(p.items)
    <3>1. k \in 1..Seqno(cloud') /\ cloud'.log[k].id = p.id /\ p \in Sent
      BY <2>1, <2>5 DEF Applied, Seqno
    <3>2. CASE k \in 1..Seqno(cloud)
      <4>1. k \in Applied(cloud, p.id) /\ cloud'.log[k] = cloud.log[k]
        BY <1>1, <3>1, <3>2 DEF Applied, Seqno
      <4> QED BY <3>1, <4>1 DEF HistoryAgrees, RequestsAreRecorded
    <3>3. CASE k \in (Seqno(cloud)+1)..Seqno(cloud')
      BY <3>1, <3>3
    <3> QED BY <1>2, <3>1, <3>2, <3>3
  <2> QED BY <2>2, <2>3, <2>4, <2>5 DEF RequestsAreRecorded
<1>5. FrozenIsAtCursor'
  BY DEF HistoryAgrees, FrozenIsAtCursor
<1>6. db.cursor \in Nat /\ db.cursor <= Seqno(cloud) /\ db.cursor <= Seqno(cloud')
  BY <1>1 DEF HistoryAgrees, ShadowIsCloudAtCursor, TypeOK, Database
<1>7. ShadowIsCloudAtCursor'
  <2>1. \A i \in Item : CloudRowAt(cloud, i, db.cursor, db.shadow[i])
    BY DEF HistoryAgrees, ShadowIsCloudAtCursor
  <2>2. \A i \in Item : CloudRowAt(cloud', i, db.cursor, db.shadow[i])
    BY <1>3, <1>6, <2>1
  <2> QED BY <1>6, <2>2, Zenon DEF ShadowIsCloudAtCursor
<1>8. SnapshotIsCloud'
  <2> SUFFICES ASSUME pc = "restoring"
               PROVE  /\ db.cursor <= job.data.seq /\ job.data.seq <= Seqno(cloud')
                      /\ \A i \in Item : CloudRowAt(cloud', i, job.data.seq, job.data.rows[i])
    BY DEF SnapshotIsCloud
  <2>1. job.data.seq \in Nat
    BY DEF TypeOK, HoldsWhatItNeeds, Snapshot
  <2>2. /\ db.cursor <= job.data.seq /\ job.data.seq <= Seqno(cloud)
        /\ \A i \in Item : CloudRowAt(cloud, i, job.data.seq, job.data.rows[i])
    BY DEF HistoryAgrees, SnapshotIsCloud
  <2>3. job.data.seq <= Seqno(cloud')
    BY <1>1, <2>1, <2>2
  <2> QED BY <1>3, <2>1, <2>2, <2>3
<1> QED BY <1>4, <1>5, <1>7, <1>8 DEF HistoryAgrees

(* A confirmation already in hand stays on record. *)
LEMMA ConfirmationStays ==
    ASSUME HistoryAgrees, Extends(cloud, cloud'), UNCHANGED <<db, pc, job>>
    PROVE  ConfirmedIsRecorded'
<1>1. ConfirmedIsRecorded
  BY DEF HistoryAgrees
<1>2. Applied(cloud, db.frozen.id) \subseteq Applied(cloud', db.frozen.id)
  BY RecordStays
<1> QED BY <1>1, <1>2 DEF ConfirmedIsRecorded

(* The log is as it was. *)
LEMMA SameLog ==
    ASSUME NEW c \in Cloud, NEW e \in Cloud, e.log = c.log, e.items = c.items
    PROVE  /\ Extends(c, e) /\ Seqno(e) = Seqno(c)
           /\ ItemsFollowLog(c) => ItemsFollowLog(e)
           /\ RevisionsGrow(c) => RevisionsGrow(e)
<1>1. Seqno(e) = Seqno(c) /\ Seqno(c) \in Nat
  BY DEF Seqno, Cloud
<1>2. Extends(c, e)
  BY <1>1 DEF Extends
<1>3. RevisionsGrow(c) => RevisionsGrow(e)
  BY <1>1 DEF RevisionsGrow
<1>4. ASSUME ItemsFollowLog(c) PROVE ItemsFollowLog(e)
  <2>1. \A i \in Item : CloudRowAt(c, i, Seqno(c), c.items[i])
    BY <1>4 DEF ItemsFollowLog
  <2>2. \A i \in Item : CloudRowAt(e, i, Seqno(c), c.items[i])
    BY <1>1, <1>2, <2>1, RowStable DEF Extends
  <2> QED BY <1>1, <2>2 DEF ItemsFollowLog
<1> QED BY <1>1, <1>2, <1>3, <1>4

LEMMA ExpireLogHistory ==
    ASSUME TypeOK, HistoryAgrees, NEW s \in 1..Seqno(cloud), ExpireLog(s)
    PROVE  HistoryAgrees'
<1>1. cloud \in Cloud /\ cloud' \in Cloud
  BY ExpireLogType DEF TypeOK
<1>2. cloud'.log = cloud.log /\ cloud'.items = cloud.items
  BY <1>1, Zenon DEF ExpireLog, Cloud
<1>3. /\ Extends(cloud, cloud') /\ Seqno(cloud') = Seqno(cloud)
      /\ ItemsFollowLog(cloud') /\ RevisionsGrow(cloud')
  BY <1>1, <1>2, SameLog DEF HistoryAgrees
<1>4. UNCHANGED <<db, pc, job, nextId, wire>>
  BY DEF ExpireLog, deviceVars
<1>5. ConfirmedIsRecorded'
  BY <1>3, <1>4, ConfirmationStays
<1>6. (Seqno(cloud)+1)..Seqno(cloud') = {}
  BY <1>3 DEF Extends
<1> QED BY <1>3, <1>4, <1>5, <1>6, CloudStep

(* The batches of other devices carry no identity of a request from here. *)
LEMMA PeerPushHistory ==
    ASSUME TypeOK, HistoryAgrees, NEW S \in SUBSET Item, NEW new \in [S -> Content],
           NEW replace \in BOOLEAN, PeerPush(S, new, replace)
    PROVE  HistoryAgrees'
<1> DEFINE rows == [i \in Item |-> IF i \in S
                     THEN [rev |-> CloudRev(cloud, i) + 1, val |-> new[i]] ELSE Nil]
           epoch == cloud.epoch + (IF replace THEN 1 ELSE 0)
<1>1. cloud \in Cloud /\ cloud' \in Cloud
  BY PeerPushType DEF TypeOK
<1>2. \A i \in Item : CloudRev(cloud, i) \in Nat
  BY <1>1 DEF CloudRev, Cloud, Batch, Row
<1>3. rows \in Batch(Row) /\ epoch \in Nat
  BY <1>1, <1>2 DEF Batch, Row, Cloud
<1>4. cloud' = AppendBatch(cloud, 0, epoch, rows)
  BY DEF PeerPush
<1>5. UNCHANGED <<db, pc, job, nextId, wire>>
  BY DEF PeerPush, deviceVars
<1>6. \A i \in Item : rows[i] # Nil => rows[i].rev = CloudRev(cloud, i) + 1
  OBVIOUS
<1> HIDE DEF rows, epoch
<1>7. ItemsFollowLog(cloud') /\ RevisionsGrow(cloud')
  BY <1>1, <1>3, <1>4, <1>6, AppendKeepsHistory DEF HistoryAgrees
<1>8. /\ Extends(cloud, cloud') /\ Seqno(cloud') = Seqno(cloud) + 1
      /\ cloud'.log[Seqno(cloud')].id = 0
  BY <1>1, <1>3, <1>4, Appended
<1>9. ASSUME NEW k \in (Seqno(cloud)+1)..Seqno(cloud')
      PROVE  /\ cloud'.log[k].id = 0 /\ cloud'.log[k].id < nextId
             /\ \A p \in Sent : p.id # 0
  <2>1. k = Seqno(cloud')
    BY <1>8 DEF Extends
  <2>2. nextId \in Nat /\ nextId >= 1 /\ \A p \in Sent : 1 <= p.id
    BY DEF TypeOK, HistoryAgrees, RequestsAreRecorded
  <2> QED BY <1>8, <2>1, <2>2
<1>10. ConfirmedIsRecorded'
  BY <1>5, <1>8, ConfirmationStays
<1> QED BY <1>5, <1>7, <1>8, <1>9, <1>10, CloudStep

(* A push applied is recorded under its identity, as the rows it carried. *)
LEMMA CloudPushHistory ==
    ASSUME TypeOK, HistoryAgrees, NEW p \in wire, CloudPush(p)
    PROVE  HistoryAgrees'
<1>1. cloud \in Cloud /\ cloud' \in Cloud /\ p \in Request /\ p \in Sent
  BY CloudPushType DEF TypeOK, Sent
<1>2. UNCHANGED <<db, pc, nextId>> /\ wire' \subseteq wire /\ cloud' = HandlePush(cloud, p)
      /\ (pc = "restoring" => job' = job)
  BY DEF CloudPush
<1>3. /\ Extends(cloud, cloud') /\ ItemsFollowLog(cloud') /\ RevisionsGrow(cloud')
      /\ \A k \in (Seqno(cloud)+1)..Seqno(cloud') :
            cloud'.log[k].id = p.id /\ cloud'.log[k].rows = UploadedRows(p.items)
  <2>1. CASE PushOutcome(cloud, p) = "OK" /\ Applied(cloud, p.id) = {}
    <3> DEFINE rows == UploadedRows(p.items)
    <3>1. cloud' = AppendBatch(cloud, p.id, cloud.epoch, rows)
      BY <1>2, <2>1 DEF HandlePush
    <3>2. rows \in Batch(Row) /\ p.id \in Nat /\ cloud.epoch \in Nat
      BY <1>1, UploadedType DEF Request, Cloud
    <3>3. \A i \in Item : rows[i] # Nil => rows[i].rev = CloudRev(cloud, i) + 1
      <4>1. \A i \in Item : p.items[i] # Nil => p.items[i].base = CloudRev(cloud, i)
        BY <2>1 DEF PushOutcome
      <4> QED BY <4>1 DEF UploadedRows
    <3> HIDE DEF rows
    <3>4. ItemsFollowLog(cloud') /\ RevisionsGrow(cloud')
      BY <1>1, <3>1, <3>2, <3>3, AppendKeepsHistory DEF HistoryAgrees
    <3>5. /\ Extends(cloud, cloud') /\ Seqno(cloud') = Seqno(cloud) + 1
          /\ cloud'.log[Seqno(cloud')].id = p.id /\ cloud'.log[Seqno(cloud')].rows = rows
      BY <1>1, <3>1, <3>2, Appended
    <3>6. \A k \in (Seqno(cloud)+1)..Seqno(cloud') : k = Seqno(cloud')
      BY <3>5 DEF Extends
    <3> QED BY <3>4, <3>5, <3>6 DEF rows
  <2>2. CASE ~(PushOutcome(cloud, p) = "OK" /\ Applied(cloud, p.id) = {})
    <3>1. cloud' = cloud
      BY <1>2, <2>2 DEF HandlePush
    <3>2. Extends(cloud, cloud') /\ Seqno(cloud') = Seqno(cloud) /\ Seqno(cloud) \in Nat
      BY <1>1, <3>1, SameLog DEF Extends
    <3>3. (Seqno(cloud)+1)..Seqno(cloud') = {}
      BY <3>2
    <3> QED BY <3>1, <3>2, <3>3 DEF HistoryAgrees
  <2> QED BY <2>1, <2>2
<1>4. ASSUME NEW k \in (Seqno(cloud)+1)..Seqno(cloud')
      PROVE  /\ cloud'.log[k].id < nextId
             /\ \A q \in Sent : q.id = cloud'.log[k].id
                                   => cloud'.log[k].rows = UploadedRows(q.items)
  BY <1>1, <1>3 DEF HistoryAgrees, RequestsAreRecorded
<1>5. ConfirmedIsRecorded'
  <2>1. CASE pc = "awaiting" /\ db.frozen.id = p.id /\ job.data = Nil
    <3>1. job'.data = PushAnswer(cloud, p)
      BY <2>1, Zenon DEF CloudPush, TypeOK, Job
    <3>2. CASE PushOutcome(cloud, p) = "OK"
      <4>1. Applied(cloud', p.id) # {}
        BY <1>1, <1>2, <3>2, HandledIsApplied
      <4>2. job'.data.seq \in Applied(cloud', p.id)
        BY <1>2, <3>1, <3>2, <4>1 DEF PushAnswer, BatchAnswer
      <4> QED BY <1>2, <2>1, <4>2 DEF ConfirmedIsRecorded
    <3>3. CASE PushOutcome(cloud, p) # "OK"
      <4>1. job'.data.code # "OK"
        BY <3>1, <3>3 DEF PushAnswer
      <4> QED BY <1>2, <2>1, <4>1 DEF ConfirmedIsRecorded
    <3> QED BY <3>2, <3>3
  <2>2. CASE ~(pc = "awaiting" /\ db.frozen.id = p.id /\ job.data = Nil)
    <3>1. job' = job
      BY <2>2 DEF CloudPush
    <3> QED BY <1>2, <1>3, <3>1, ConfirmationStays
  <2> QED BY <2>1, <2>2
<1> QED BY <1>2, <1>3, <1>4, <1>5, CloudStep

-----------------------------------------------------------------------------
(* The theorem                                                             *)

LEMMA HistoryInit == Init => HistoryAgrees
<1> SUFFICES ASSUME Init PROVE HistoryAgrees
  OBVIOUS
<1>1. cloud.log = <<>> /\ cloud.items = NoRows /\ Seqno(cloud) = 0
  BY DEF Init, InitCloud, Seqno
<1>2. db.shadow = NoRows /\ db.cursor = 0 /\ db.frozen = Nil
  BY DEF Init, InitDatabase
<1>3. pc = "idle" /\ nextId = 1 /\ wire = {}
  BY DEF Init
<1>4. \A i \in Item : NoRows[i] = Nil
  BY DEF NoRows
<1>5. 1..0 = {}
  OBVIOUS
<1>6. \A i \in Item : CloudRowAt(cloud, i, 0, Nil)
  BY <1>5 DEF CloudRowAt
<1>7. ItemsFollowLog(cloud) /\ ShadowIsCloudAtCursor
  BY <1>1, <1>2, <1>4, <1>6 DEF ItemsFollowLog, ShadowIsCloudAtCursor
<1>8. RevisionsGrow(cloud)
  BY <1>1, <1>5 DEF RevisionsGrow
<1>9. Sent = {}
  BY <1>2, <1>3 DEF Sent
<1>10. RequestsAreRecorded
  BY <1>1, <1>3, <1>5, <1>9 DEF RequestsAreRecorded
<1> QED BY <1>2, <1>3, <1>7, <1>8, <1>10
        DEF HistoryAgrees, FrozenIsAtCursor, ConfirmedIsRecorded, SnapshotIsCloud

LEMMA HistoryNext == TypeOK /\ HistoryAgrees /\ [Next]_vars => HistoryAgrees'
<1> SUFFICES ASSUME TypeOK, HistoryAgrees, [Next]_vars PROVE HistoryAgrees'
  OBVIOUS
<1>1. CASE User
  <2>1. ASSUME NEW S, NEW new, Edit(S, new) PROVE HistoryAgrees'
    BY <2>1, EditHistory
  <2>2. ASSUME NEW on, SetEnabled(on) PROVE HistoryAgrees'
    BY <2>2, IdleHistory DEF SetEnabled
  <2>3. ASSUME NEW batch, NEW S, NEW pick, Ask(batch, S, pick) PROVE HistoryAgrees'
    BY <2>3, BeginHistory DEF Ask
  <2>4. CASE SyncNow
    BY <2>4, BeginHistory, IdleHistory DEF SyncNow
  <2> QED BY <1>1, <2>1, <2>2, <2>3, <2>4 DEF User
<1>2. CASE Engine
  <2>1. CASE StartCycle
    BY <2>1, BeginHistory, IdleHistory DEF StartCycle
  <2>2. CASE Hint \/ RetryElapses
    BY <2>2, IdleHistory DEF Hint, RetryElapses
  <2> QED BY <1>2, <2>1, <2>2, RecoverHistory, AnswerArrivesHistory, AckRequestHistory,
             ThawRequestHistory, ReadingHistory, ApplyBatchHistory, TakeSnapshotHistory,
             RestoreSnapshotHistory, FreezeAndSendHistory, ResolveHistory DEF Engine
<1>3. CASE Environment
  <2>1. ASSUME NEW code, RequestFails(code) PROVE HistoryAgrees'
    BY <2>1, FailureHistory DEF RequestFails
  <2>2. ASSUME NEW p, LosePush(p) PROVE HistoryAgrees'
    BY <2>2, IdleHistory DEF LosePush, deviceVars
  <2>3. CASE Crash
    BY <2>3, ForgetfulStep DEF Crash, Sent
  <2>4. ASSUME NEW S \in SUBSET Item, NEW new \in [S -> Content],
               NEW replace \in BOOLEAN, PeerPush(S, new, replace)
        PROVE  HistoryAgrees'
    BY <2>4, PeerPushHistory
  <2> QED BY <1>3, <2>1, <2>2, <2>3, <2>4, CloudPushHistory, ExpireLogHistory DEF Environment
<1>4. CASE UNCHANGED vars
  BY <1>4, IdleHistory DEF vars
<1> QED BY <1>1, <1>2, <1>3, <1>4 DEF Next

(***************************************************************************)
(* What the device's requests, answers and snapshots say of the cloud      *)
(* agrees with the cloud's log, over lost answers, resent and duplicated   *)
(* requests, snapshots and crashes.                                        *)
(***************************************************************************)
THEOREM HistoryAlwaysAgrees == Spec => []HistoryAgrees
<1>1. Init => TypeOK /\ HistoryAgrees
  BY TypeInit, HistoryInit
<1>2. (TypeOK /\ HistoryAgrees) /\ [Next]_vars => (TypeOK /\ HistoryAgrees)'
  BY TypeNext, HistoryNext
<1> QED BY <1>1, <1>2, PTL DEF Spec

(***************************************************************************)
(* The shadow is exactly what the cloud held at the device's cursor, for   *)
(* any number of items, devices' batches, retries and failures.            *)
(***************************************************************************)
THEOREM ShadowAlwaysExact == Spec => []ShadowIsCloudAtCursor
<1>1. HistoryAgrees => ShadowIsCloudAtCursor
  BY DEF HistoryAgrees
<1> QED BY <1>1, HistoryAlwaysAgrees, PTL
=============================================================================
