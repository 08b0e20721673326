------------------------- MODULE SyncConflictProofs -------------------------
(***************************************************************************)
(* Conflicts show what the cloud holds, uploads keep clear of them, and    *)
(* nothing is uploaded while sync is paused; and no edit of the user's is  *)
(* lost unless an item is edited while it waits for what it refers to.     *)
(* The invariants are ConflictsAgree, which rests on HistoryAgrees,        *)
(* CyclesNeedTheSwitch and EditsAgree, which rests on both.                *)
(***************************************************************************)
EXTENDS SyncShadowProofs

-----------------------------------------------------------------------------
(* What applying rows does to conflicts                                    *)

(* A conflict after rows were applied: the row just seen, or the old one. *)
LEMMA ConflictSource ==
    ASSUME NEW d \in Database, NEW rows, NEW snapshot \in BOOLEAN, NEW A,
           NEW i \in Item, ConflictsAfter(d, rows, snapshot, A)[i] # Nil
    PROVE  \/ /\ ConflictsAfter(d, rows, snapshot, A)[i].remote = Incoming(d, rows, snapshot)[i]
              /\ Incoming(d, rows, snapshot)[i] # Nil
              /\ ShadowAfter(d, rows, snapshot)[i] = Incoming(d, rows, snapshot)[i]
           \/ /\ ConflictsAfter(d, rows, snapshot, A)[i].remote = d.conflicts[i].remote
              /\ d.conflicts[i] # Nil
              /\ \/ ShadowAfter(d, rows, snapshot)[i] = d.shadow[i]
                 \/ /\ d.shadow[i] # Nil /\ ShadowAfter(d, rows, snapshot)[i] # Nil
                    /\ ShadowAfter(d, rows, snapshot)[i].val = d.shadow[i].val
<1> DEFINE inc == Incoming(d, rows, snapshot)
           fresh == Fresh(d, rows, snapshot)
           caught == Caught(d, rows, snapshot)
           clashing == Clashing(d, rows, snapshot)
           waiting == Waiting(d, rows, snapshot)
           candidates == Candidates(d, rows, snapshot)
           after == ConflictsAfter(d, rows, snapshot, A)
           shadow == ShadowAfter(d, rows, snapshot)
<1>1. /\ candidates = (fresh \ Queued(d)) \cup waiting
      /\ fresh \cap Queued(d) \subseteq caught \cup Rebased(d, rows, snapshot) \cup clashing
      /\ clashing \subseteq fresh
  BY DEF Candidates, Clashing
<1>2. \A j \in Item : j \in fresh => inc[j] # Nil /\ shadow[j] = inc[j]
  BY DEF Fresh, InBatch, ShadowAfter
<1>3. \A j \in Item : j \notin fresh => shadow[j] = d.shadow[j]
  BY DEF ShadowAfter
<1>4. \A j \in Rebased(d, rows, snapshot) : d.shadow[j] # Nil /\ d.shadow[j].val = inc[j].val
  BY DEF Rebased
<1>5. waiting \cap fresh = {} /\ \A j \in waiting : d.conflicts[j] # Nil
  BY DEF Waiting, Fresh, InBatch
<1>6. \A j \in candidates : CandidateRow(d, rows, snapshot, j)
                              = IF j \in waiting THEN d.conflicts[j].remote ELSE inc[j]
  BY DEF CandidateRow
<1>7. after[i] = IF i \in A \cup caught THEN Nil
                 ELSE IF i \in candidates \ A
                      THEN [remote |-> CandidateRow(d, rows, snapshot, i), reason |-> "dependency"]
                 ELSE IF i \in clashing
                      THEN [remote |-> inc[i], reason |-> "concurrent_edit"]
                 ELSE d.conflicts[i]
  BY DEF ConflictsAfter
<1> HIDE DEF inc, fresh, caught, clashing, waiting, candidates, after, shadow
<1>8. CASE i \in candidates \ A
  <2>1. after[i].remote = CandidateRow(d, rows, snapshot, i)
    BY <1>7, <1>8 DEF after
  <2>2. CASE i \in waiting
    BY <1>3, <1>5, <1>6, <1>8, <2>1, <2>2 DEF after, shadow
  <2>3. CASE i \notin waiting
    BY <1>1, <1>2, <1>6, <1>8, <2>1, <2>3 DEF after, shadow, inc
  <2> QED BY <2>2, <2>3
<1>9. CASE i \notin candidates \ A /\ i \in clashing
  <2>1. after[i].remote = inc[i]
    BY <1>7, <1>9 DEF after
  <2> QED BY <1>1, <1>2, <1>9, <2>1 DEF after, shadow, inc
<1>10. CASE i \notin candidates \ A /\ i \notin clashing
  <2>1. after[i] = d.conflicts[i] /\ i \notin A \cup caught
    BY <1>7, <1>10 DEF after
  <2>2. CASE i \in fresh
    <3>1. i \in Rebased(d, rows, snapshot)
      BY <1>1, <1>10, <2>1, <2>2
    <3> QED BY <1>2, <1>4, <2>1, <2>2, <3>1 DEF after, shadow, inc
  <2>3. CASE i \notin fresh
    BY <1>3, <2>1, <2>3 DEF after, shadow
  <2> QED BY <2>2, <2>3
<1> QED BY <1>8, <1>9, <1>10

-----------------------------------------------------------------------------
(* Steps                                                                   *)

(* The log stays as it was up to the cursor. *)
LogKept == \A k \in 1..db.cursor : cloud'.log[k] = cloud.log[k]

(* Conflicts, shadow and request stay, and so does a draft in memory. *)
LEMMA QuietConflicts ==
    ASSUME ConflictsAgree, LogKept, db'.conflicts = db.conflicts, db'.shadow = db.shadow,
           db'.cursor = db.cursor, db'.frozen = db.frozen,
           pc' # "freezing" \/ (UNCHANGED pc /\ UNCHANGED job)
    PROVE  ConflictsAgree'
<1>1. DraftAvoidsConflicts'
  BY DEF ConflictsAgree, DraftAvoidsConflicts, Conflicted
<1>2. UploadsAvoidConflicts'
  BY DEF ConflictsAgree, UploadsAvoidConflicts, Conflicted
<1>3. ConflictShowsCloud'
  BY DEF ConflictsAgree, ConflictShowsCloud, ShadowVal
<1>4. ConflictsAreLogged'
  BY DEF ConflictsAgree, ConflictsAreLogged, LogKept
<1> QED BY <1>1, <1>2, <1>3, <1>4 DEF ConflictsAgree

(* The error is all that changes in the database. *)
LEMMA ToldConflicts ==
    ASSUME TypeOK, ConflictsAgree, LogKept, NEW code,
           db' = db \/ db' = [db EXCEPT !.error = code],
           pc' # "freezing" \/ (UNCHANGED pc /\ UNCHANGED job)
    PROVE  ConflictsAgree'
<1>1. /\ [db EXCEPT !.error = code].conflicts = db.conflicts
      /\ [db EXCEPT !.error = code].shadow = db.shadow
      /\ [db EXCEPT !.error = code].cursor = db.cursor
      /\ [db EXCEPT !.error = code].frozen = db.frozen
  BY Zenon DEF TypeOK, Database
<1>2. /\ db'.conflicts = db.conflicts /\ db'.shadow = db.shadow
      /\ db'.cursor = db.cursor /\ db'.frozen = db.frozen
  BY <1>1
<1> QED BY <1>2, QuietConflicts

LEMMA FailureConflicts ==
    ASSUME TypeOK, ConflictsAgree, \E code : Handle(code), UNCHANGED cloud
    PROVE  ConflictsAgree'
<1>1. PICK code : Handle(code)
  OBVIOUS
<1>2. pc' # "freezing" /\ (db' = db \/ db' = [db EXCEPT !.error = code]) /\ LogKept
  BY <1>1 DEF Handle, LogKept
<1> QED BY <1>2, ToldConflicts

(* Applying rows of the log, new conflicts show the rows just applied. *)
LEMMA AppliedConflicts ==
    ASSUME TypeOK, ConflictsAgree, NEW d \in Database, d.shadow = db.shadow, d.frozen = Nil,
           \A i \in Item : d.conflicts[i] # Nil => d.conflicts[i] = db.conflicts[i],
           NEW rows, NEW snapshot \in BOOLEAN, NEW A, NEW cursor \in Nat, NEW epoch,
           db.cursor <= cursor, db' = ApplyValues(d, rows, cursor, epoch, snapshot, A),
           \A i \in Item : Incoming(d, rows, snapshot)[i] # Nil =>
               \E k \in 1..cursor : cloud.log[k].rows[i] = Incoming(d, rows, snapshot)[i],
           UNCHANGED cloud, pc' # "freezing"
    PROVE  ConflictsAgree'
<1> DEFINE after == ConflictsAfter(d, rows, snapshot, A)
           shadow == ShadowAfter(d, rows, snapshot)
           inc == Incoming(d, rows, snapshot)
<1>1. /\ db'.conflicts = after /\ db'.shadow = shadow
      /\ db'.frozen = Nil /\ db'.cursor = cursor
  BY Zenon DEF ApplyValues, Database
<1>2. db.cursor \in Nat
  BY DEF TypeOK, Database
<1>3. ASSUME NEW i \in Item, after[i] # Nil
      PROVE  /\ after[i].remote.val = IF shadow[i] = Nil THEN Nil ELSE shadow[i].val
             /\ \E k \in 1..cursor : cloud.log[k].rows[i] = after[i].remote
  <2>1. \/ after[i].remote = inc[i] /\ inc[i] # Nil /\ shadow[i] = inc[i]
        \/ /\ after[i].remote = d.conflicts[i].remote /\ d.conflicts[i] # Nil
           /\ \/ shadow[i] = d.shadow[i]
              \/ d.shadow[i] # Nil /\ shadow[i] # Nil /\ shadow[i].val = d.shadow[i].val
    BY <1>3, ConflictSource
  <2> HIDE DEF after, shadow, inc
  <2>2. CASE after[i].remote = inc[i] /\ inc[i] # Nil /\ shadow[i] = inc[i]
    <3>1. \E k \in 1..cursor : cloud.log[k].rows[i] = inc[i]
      BY <2>2 DEF inc
    <3> QED BY <2>2, <3>1
  <2>3. CASE /\ after[i].remote = d.conflicts[i].remote /\ d.conflicts[i] # Nil
             /\ \/ shadow[i] = d.shadow[i]
                \/ d.shadow[i] # Nil /\ shadow[i] # Nil /\ shadow[i].val = d.shadow[i].val
    <3>1. d.conflicts[i] = db.conflicts[i] /\ db.conflicts[i] # Nil
      BY <2>3
    <3>2. db.conflicts[i].remote.val = ShadowVal(i)
      BY <3>1 DEF ConflictsAgree, ConflictShowsCloud
    <3>3. PICK k \in 1..db.cursor : cloud.log[k].rows[i] = db.conflicts[i].remote
      BY <3>1 DEF ConflictsAgree, ConflictsAreLogged
    <3>4. k \in 1..cursor
      BY <1>2, <3>3
    <3> QED BY <2>3, <3>1, <3>2, <3>3, <3>4 DEF ShadowVal
  <2> QED BY <2>1, <2>2, <2>3
<1> HIDE DEF after, shadow, inc
<1>4. ConflictShowsCloud' /\ ConflictsAreLogged'
  BY <1>1, <1>3 DEF ConflictShowsCloud, ShadowVal, ConflictsAreLogged
<1>5. DraftAvoidsConflicts' /\ UploadsAvoidConflicts'
  BY <1>1 DEF DraftAvoidsConflicts, UploadsAvoidConflicts
<1> QED BY <1>4, <1>5 DEF ConflictsAgree

LEMMA ApplyBatchConflicts ==
    ASSUME TypeOK, HistoryAgrees, ConflictsAgree, ApplyBatch
    PROVE  ConflictsAgree'
<1> DEFINE next == db.cursor + 1
           batch == cloud.log[next]
<1>1. db.frozen = Nil /\ db \in Database /\ db.cursor \in Nat /\ next \in Nat
      /\ db.cursor <= next /\ LogKept
  BY NoneFrozen DEF ApplyBatch, TypeOK, Database, LogKept
<1>2. CASE pc' = "snapshot" /\ UNCHANGED db
  BY <1>1, <1>2, QuietConflicts
<1>3. CASE Handle("SYNC_PROTOCOL")
  BY <1>3, FailureConflicts DEF ApplyBatch
<1>4. ASSUME NEW A, db' = ApplyValues(db, batch.rows, next, batch.epoch, FALSE, A),
             UNCHANGED pc
      PROVE  ConflictsAgree'
  <2>1. \A i \in Item : Incoming(db, batch.rows, FALSE)[i] = batch.rows[i]
    BY DEF Incoming
  <2>2. next \in 1..next
    BY <1>1
  <2>3. \A i \in Item : Incoming(db, batch.rows, FALSE)[i] # Nil =>
            \E k \in 1..next : cloud.log[k].rows[i] = Incoming(db, batch.rows, FALSE)[i]
    BY <2>1, <2>2
  <2>4. UNCHANGED cloud /\ pc' # "freezing" /\ FALSE \in BOOLEAN
    BY <1>4 DEF ApplyBatch
  <2> HIDE DEF next, batch
  <2> QED BY <1>1, <1>4, <2>3, <2>4, AppliedConflicts
<1> QED BY <1>2, <1>3, <1>4 DEF ApplyBatch

(* A snapshot leaves no item out that the device has seen. *)
LEMMA RestoreSnapshotConflicts ==
    ASSUME TypeOK, HistoryAgrees, ConflictsAgree, RestoreSnapshot
    PROVE  ConflictsAgree'
<1> DEFINE rows == job.data.rows
           seq == job.data.seq
<1>1. /\ rows \in Batch(Row) /\ seq \in Nat /\ db \in Database /\ db.cursor \in Nat
      /\ db.frozen = Nil
  BY NoneFrozen DEF RestoreSnapshot, TypeOK, HoldsWhatItNeeds, Snapshot, Database
<1>2. PICK A : db' = ApplyValues(db, rows, seq, job.data.epoch, TRUE, A)
  BY DEF RestoreSnapshot
<1>3. db.cursor <= seq /\ seq <= Seqno(cloud)
  BY DEF HistoryAgrees, SnapshotIsCloud, RestoreSnapshot
<1>4. ASSUME NEW i \in Item, Incoming(db, rows, TRUE)[i] # Nil
      PROVE  \E k \in 1..seq : cloud.log[k].rows[i] = Incoming(db, rows, TRUE)[i]
  <2>1. CloudRowAt(cloud, i, db.cursor, db.shadow[i]) /\ CloudRowAt(cloud, i, seq, rows[i])
    BY DEF HistoryAgrees, ShadowIsCloudAtCursor, SnapshotIsCloud, RestoreSnapshot
  <2>2. rows[i] # Nil
    <3> SUFFICES ASSUME rows[i] = Nil PROVE FALSE
      OBVIOUS
    <3>1. db.shadow[i] = Nil
      BY <1>1, <1>3, <2>1, NeverWritten
    <3> QED BY <1>4, <3>1 DEF Incoming
  <2>3. Incoming(db, rows, TRUE)[i] = rows[i]
    BY <2>2 DEF Incoming
  <2> QED BY <2>1, <2>2, <2>3 DEF CloudRowAt
<1>5. UNCHANGED cloud /\ pc' # "freezing" /\ TRUE \in BOOLEAN
  BY DEF RestoreSnapshot, AfterPull, TypeOK, Job
<1> HIDE DEF rows, seq
<1> QED BY <1>1, <1>2, <1>3, <1>4, <1>5, AppliedConflicts

(* A resolution leaves the shadow and the conflicts it was not asked about. *)
LEMMA SettlementConflicts ==
    ASSUME TypeOK, Resolve, Refusal = "", NEW d \in Settlements
    PROVE  /\ d \in Database /\ d.frozen = db.frozen /\ d.cursor = db.cursor
           /\ d.shadow = db.shadow
           /\ \A i \in Item : d.conflicts[i] # Nil => d.conflicts[i] = db.conflicts[i]
<1>1. d \in Database /\ d.frozen = db.frozen /\ db \in Database
  BY SettlementType DEF Resolve, TypeOK
<1>2. CASE \E S, copies, new : d = SettleBatch(db, S, copies, new)
  <2>1. PICK S, copies, new : d = SettleBatch(db, S, copies, new)
    BY <1>2
  <2>2. d.conflicts = [i \in Item |-> IF i \in S THEN Nil ELSE db.conflicts[i]]
    BY <1>1, <2>1, Zenon DEF SettleBatch, Database
  <2>3. d.cursor = db.cursor /\ d.shadow = db.shadow
    BY <1>1, <2>1, Zenon DEF SettleBatch, Database
  <2> QED BY <1>1, <2>2, <2>3
<1>3. CASE \E i, choice : d = SettleOne(db, i, choice)
  <2>1. PICK j, choice : d = SettleOne(db, j, choice)
    BY <1>3
  <2>2. d.conflicts = [db.conflicts EXCEPT ![j] = Nil]
    BY <1>1, <2>1, Zenon DEF SettleOne, Database
  <2>3. d.cursor = db.cursor /\ d.shadow = db.shadow
    BY <1>1, <2>1, Zenon DEF SettleOne, Database
  <2>4. db.conflicts \in [Item -> Conflict \cup {Nil}]
    BY <1>1 DEF Database, Batch
  <2> QED BY <1>1, <2>2, <2>3, <2>4
<1> QED BY <1>1, <1>2, <1>3 DEF Settlements

LEMMA ResolveConflicts ==
    ASSUME TypeOK, HistoryAgrees, ConflictsAgree, Resolve
    PROVE  ConflictsAgree'
<1>1. CASE \E code : Handle(code)
  BY <1>1, FailureConflicts DEF Resolve
<1>2. ASSUME Refusal = "", NEW d \in Settlements, NEW A,
             db' = ApplyValues(d, NoRows, d.cursor, d.epoch, FALSE, A), pc' = "idle"
      PROVE  ConflictsAgree'
  <2>1. /\ d \in Database /\ d.frozen = db.frozen /\ d.cursor = db.cursor
        /\ d.shadow = db.shadow
        /\ \A i \in Item : d.conflicts[i] # Nil => d.conflicts[i] = db.conflicts[i]
    BY <1>2, SettlementConflicts
  <2>2. db.frozen = Nil /\ db.cursor \in Nat /\ d.cursor \in Nat /\ db.cursor <= d.cursor
    <3>1. db.frozen = Nil
      BY NoneFrozen DEF Resolve
    <3>2. db.cursor \in Nat
      BY DEF TypeOK, Database
    <3> QED BY <2>1, <3>1, <3>2
  <2>3. \A i \in Item : Incoming(d, NoRows, FALSE)[i] = Nil
    BY DEF Incoming, NoRows
  <2>4. UNCHANGED cloud /\ pc' # "freezing" /\ FALSE \in BOOLEAN
    BY <1>2 DEF Resolve
  <2> QED BY <1>2, <2>1, <2>2, <2>3, <2>4, AppliedConflicts
<1> QED BY <1>1, <1>2 DEF Resolve

(* The references of a content are among the items it reaches. *)
LEMMA RefsReached ==
    ASSUME NEW e, NEW v \in Value
    PROVE  Refs[v] \subseteq Reaches(e, v)
<1>1. Refs[v] \subseteq Item
  BY ItemsAssumption
<1>2. v # Nil
  BY ItemsAssumption
<1> QED BY <1>1, <1>2 DEF Reaches

(* What a draft holds is clear of conflicts, and so are its references. *)
LEMMA DraftIsClear ==
    ASSUME db \in Database, NEW i \in InBatch(Draft(db).items)
    PROVE  /\ db.conflicts[i] = Nil
           /\ Draft(db).items[i].val # Nil
                 => Refs[Draft(db).items[i].val] \cap Conflicted(db) = {}
<1>1. Draft(db).items = [j \in Item |->
          IF j \in Uploadable(db)
          THEN [base |-> ShadowRev(db, j), gen |-> db.pending[j].rev, val |-> db.pending[j].val]
          ELSE Nil]
  BY DEF Draft
<1>2. i \in Item /\ i \in Uploadable(db) /\ Draft(db).items[i].val = db.pending[i].val
  BY <1>1 DEF InBatch
<1>3. i \in Edited(db) \ Conflicted(db) /\ db.pending[i].rev \notin BlockedRevisions(db)
  BY <1>2 DEF Uploadable
<1>4. db.conflicts[i] = Nil
  BY <1>2, <1>3 DEF Conflicted
<1>5. ASSUME db.pending[i].val # Nil
      PROVE  Refs[db.pending[i].val] \cap Conflicted(db) = {}
  <2>1. db.pending[i] \in Row
    BY <1>2, <1>3 DEF Edited, Database, Batch
  <2>2. db.pending[i].val \in Value
    BY <1>5, <2>1 DEF Row, Content
  <2>3. Reaches(db.entities, db.pending[i].val) \cap Conflicted(db) = {}
    BY <1>3 DEF BlockedRevisions
  <2> QED BY <2>2, <2>3, RefsReached
<1> QED BY <1>2, <1>4, <1>5

LEMMA ReadingConflicts ==
    ASSUME TypeOK, ConflictsAgree, GetChanges \/ FinishPage \/ MakeDraft
    PROVE  ConflictsAgree'
<1>1. UNCHANGED <<db, cloud>> /\ LogKept
  BY DEF GetChanges, FinishPage, MakeDraft, LogKept
<1>2. CASE pc' # "freezing"
  BY <1>1, <1>2, QuietConflicts
<1>3. CASE pc' = "freezing"
  <2>1. job.then \in {"none", "drafting", "resolving", "again"}
    BY DEF TypeOK, Job
  <2>2. job' = [job EXCEPT !.data = Draft(db)]
    BY <1>3, <2>1 DEF GetChanges, FinishPage, MakeDraft, AfterPull
  <2>3. job'.data.items = Draft(db).items
    BY <2>2, Zenon DEF TypeOK, Job
  <2>4. DraftAvoidsConflicts'
    <3>1. db \in Database
      BY DEF TypeOK
    <3> QED BY <1>1, <2>3, <3>1, DraftIsClear DEF DraftAvoidsConflicts, Conflicted
  <2>5. UploadsAvoidConflicts' /\ ConflictShowsCloud' /\ ConflictsAreLogged'
    BY <1>1 DEF ConflictsAgree, UploadsAvoidConflicts, ConflictShowsCloud, ShadowVal,
       ConflictsAreLogged, Conflicted
  <2> QED BY <2>4, <2>5 DEF ConflictsAgree
<1> QED BY <1>2, <1>3

LEMMA FreezeAndSendConflicts ==
    ASSUME TypeOK, ConflictsAgree, FreezeAndSend
    PROVE  ConflictsAgree'
<1>1. CASE FreezeAllowed(db, job.data)
  <2>1. db' = Freeze(db, job.data, nextId) /\ pc' = "awaiting" /\ UNCHANGED cloud
        /\ pc = "freezing"
    BY <1>1 DEF FreezeAndSend
  <2>2. /\ db'.conflicts = db.conflicts /\ db'.shadow = db.shadow /\ db'.cursor = db.cursor
        /\ db'.frozen = [id |-> nextId, epoch |-> job.data.epoch,
                         expectedSeq |-> job.data.cursor, items |-> job.data.items]
    BY <2>1, Zenon DEF Freeze, TypeOK, Database
  <2>3. db'.frozen.items = job.data.items
    BY <2>2
  <2>4. UploadsAvoidConflicts'
    BY <2>1, <2>2, <2>3 DEF ConflictsAgree, DraftAvoidsConflicts, UploadsAvoidConflicts,
       Conflicted
  <2>5. DraftAvoidsConflicts' /\ ConflictShowsCloud' /\ ConflictsAreLogged'
    BY <2>1, <2>2 DEF ConflictsAgree, DraftAvoidsConflicts, ConflictShowsCloud, ShadowVal,
       ConflictsAreLogged
  <2> QED BY <2>4, <2>5 DEF ConflictsAgree
<1>2. CASE ~FreezeAllowed(db, job.data)
  <2>1. \E code : Handle(code)
    BY <1>2 DEF FreezeAndSend
  <2> QED BY <2>1, FailureConflicts DEF FreezeAndSend
<1> QED BY <1>1, <1>2

(* A confirmation changes the shadow of nothing in conflict. *)
LEMMA AckRequestConflicts ==
    ASSUME TypeOK, HistoryAgrees, ConflictsAgree, AckRequest
    PROVE  ConflictsAgree'
<1>1. CASE AckAllowed(db, db.frozen.id, job.data.seq, job.data.epoch)
  <2>1. /\ db' = Ack(db, job.data.seq, job.data.epoch) /\ pc' = "changes" /\ UNCHANGED cloud
        /\ job.data.seq = db.frozen.expectedSeq + 1 /\ db.frozen # Nil
    BY <1>1 DEF AckRequest, PullThen, AckAllowed
  <2>2. /\ db'.conflicts = db.conflicts /\ db'.shadow = ShadowAfterAck(db)
        /\ db'.cursor = job.data.seq /\ db'.frozen = Nil
    BY <2>1, Zenon DEF Ack, TypeOK, Database
  <2>3. db.cursor \in Nat /\ db'.cursor = db.cursor + 1
    BY <2>1, <2>2 DEF HistoryAgrees, FrozenIsAtCursor, TypeOK, Database
  <2>4. ASSUME NEW i \in Item, db.conflicts[i] # Nil
        PROVE  db'.shadow[i] = db.shadow[i]
    <3>1. db.frozen.items[i] = Nil
      BY <2>1, <2>4 DEF ConflictsAgree, UploadsAvoidConflicts, InBatch
    <3> QED BY <2>2, <3>1 DEF ShadowAfterAck
  <2>5. ConflictShowsCloud'
    BY <2>2, <2>4 DEF ConflictsAgree, ConflictShowsCloud, ShadowVal
  <2>6. ConflictsAreLogged'
    <3>1. \A k \in 1..db.cursor : k \in 1..db'.cursor
      BY <2>3
    <3> QED BY <2>1, <2>2, <3>1 DEF ConflictsAgree, ConflictsAreLogged
  <2>7. DraftAvoidsConflicts' /\ UploadsAvoidConflicts'
    BY <2>1, <2>2 DEF DraftAvoidsConflicts, UploadsAvoidConflicts
  <2> QED BY <2>5, <2>6, <2>7 DEF ConflictsAgree
<1>2. CASE ~AckAllowed(db, db.frozen.id, job.data.seq, job.data.epoch)
  BY <1>2, FailureConflicts DEF AckRequest
<1> QED BY <1>1, <1>2

LEMMA ThawRequestConflicts ==
    ASSUME TypeOK, ConflictsAgree, ThawRequest
    PROVE  ConflictsAgree'
<1>1. /\ db'.conflicts = db.conflicts /\ db'.shadow = db.shadow
      /\ db'.cursor = db.cursor /\ db'.frozen = Nil
  BY Zenon DEF ThawRequest, Thaw, TypeOK, Database
<1>2. pc' = "changes" /\ UNCHANGED cloud
  BY DEF ThawRequest, PullThen
<1> QED BY <1>1, <1>2 DEF ConflictsAgree, DraftAvoidsConflicts, UploadsAvoidConflicts,
           ConflictShowsCloud, ShadowVal, ConflictsAreLogged

LEMMA UserConflicts ==
    ASSUME TypeOK, ConflictsAgree, User
    PROVE  ConflictsAgree'
<1>1. UNCHANGED cloud /\ LogKept
  BY DEF User, Edit, SetEnabled, SyncNow, Ask, LogKept
<1>2. ASSUME NEW S, NEW new, Edit(S, new) PROVE ConflictsAgree'
  <2>1. /\ db'.conflicts = db.conflicts /\ db'.shadow = db.shadow
        /\ db'.cursor = db.cursor /\ db'.frozen = db.frozen
    BY <1>2, Zenon DEF Edit, Commit, TypeOK, Database
  <2> QED BY <1>1, <1>2, <2>1, QuietConflicts DEF Edit
<1>3. ASSUME NEW on, SetEnabled(on) PROVE ConflictsAgree'
  BY <1>1, <1>3, ToldConflicts DEF SetEnabled
<1>4. ASSUME NEW batch, NEW S, NEW pick, Ask(batch, S, pick) PROVE ConflictsAgree'
  BY <1>1, <1>4, QuietConflicts DEF Ask, Begin
<1>5. CASE SyncNow
  <2>1. db' = db \/ db' = [db EXCEPT !.error = ""]
    BY <1>5 DEF SyncNow
  <2>2. pc' # "freezing" \/ (UNCHANGED pc /\ UNCHANGED job)
    BY <1>5 DEF SyncNow, Begin
  <2> QED BY <1>1, <2>1, <2>2, ToldConflicts
<1> QED BY <1>2, <1>3, <1>4, <1>5 DEF User

(* The other steps of the engine move nothing a conflict depends on. *)
LEMMA OtherConflicts ==
    ASSUME TypeOK, ConflictsAgree,
           StartCycle \/ Recover \/ AnswerArrives \/ TakeSnapshot \/ Hint \/ RetryElapses
    PROVE  ConflictsAgree'
<1>1. UNCHANGED cloud /\ LogKept
  BY DEF StartCycle, Recover, AnswerArrives, TakeSnapshot, Hint, RetryElapses, LogKept
<1>2. CASE \E code : Handle(code)
  BY <1>1, <1>2, FailureConflicts
<1>3. CASE ~\E code : Handle(code)
  <2>1. db' = db \/ db' = [db EXCEPT !.error = ""]
    BY <1>3 DEF StartCycle, Recover, AnswerArrives, TakeSnapshot, Hint, RetryElapses
  <2>2. pc' # "freezing" \/ (UNCHANGED pc /\ UNCHANGED job)
    BY <1>3 DEF StartCycle, Recover, AnswerArrives, TakeSnapshot, Hint, RetryElapses, Begin
  <2> QED BY <1>1, <2>1, <2>2, ToldConflicts
<1> QED BY <1>2, <1>3

(* The cloud's log grows past the cursor; what it recorded stays. *)
LEMMA CloudConflicts ==
    ASSUME TypeOK, HistoryAgrees, ConflictsAgree, Extends(cloud, cloud'), UNCHANGED <<db, pc>>,
           pc = "freezing" => job' = job
    PROVE  ConflictsAgree'
<1>1. LogKept
  <2>1. db.cursor \in Nat /\ db.cursor <= Seqno(cloud) /\ Seqno(cloud) \in Nat
    BY DEF HistoryAgrees, ShadowIsCloudAtCursor, TypeOK, Database, Extends
  <2> QED BY <2>1 DEF Extends, LogKept
<1> QED BY <1>1, QuietConflicts

LEMMA EnvironmentConflicts ==
    ASSUME TypeOK, HistoryAgrees, ConflictsAgree, Environment
    PROVE  ConflictsAgree'
<1>1. cloud \in Cloud
  BY DEF TypeOK
<1>2. ASSUME NEW code, RequestFails(code) PROVE ConflictsAgree'
  BY <1>2, FailureConflicts DEF RequestFails
<1>3. ASSUME NEW p \in wire, CloudPush(p) PROVE ConflictsAgree'
  <2>1. p \in Request /\ UNCHANGED <<db, pc>> /\ cloud' = HandlePush(cloud, p)
        /\ (pc = "freezing" => job' = job)
    BY <1>3 DEF CloudPush, TypeOK
  <2>2. Extends(cloud, cloud')
    <3>1. UploadedRows(p.items) \in Batch(Row) /\ p.id \in Nat /\ cloud.epoch \in Nat
      BY <1>1, <2>1, UploadedType DEF Request, Cloud
    <3>2. Extends(cloud, AppendBatch(cloud, p.id, cloud.epoch, UploadedRows(p.items)))
      BY <1>1, <3>1, Appended
    <3>3. Extends(cloud, cloud)
      BY <1>1, SameLog
    <3> QED BY <2>1, <3>2, <3>3 DEF HandlePush
  <2> QED BY <2>1, <2>2, CloudConflicts
<1>4. ASSUME NEW p, LosePush(p) PROVE ConflictsAgree'
  <2>1. Extends(cloud, cloud') /\ UNCHANGED <<db, pc, job>>
    BY <1>1, <1>4, SameLog DEF LosePush, deviceVars
  <2> QED BY <2>1, CloudConflicts
<1>5. ASSUME NEW S \in SUBSET Item, NEW new \in [S -> Content],
             NEW replace \in BOOLEAN, PeerPush(S, new, replace)
      PROVE  ConflictsAgree'
  <2> DEFINE rows == [i \in Item |-> IF i \in S
                       THEN [rev |-> CloudRev(cloud, i) + 1, val |-> new[i]] ELSE Nil]
             epoch == cloud.epoch + (IF replace THEN 1 ELSE 0)
  <2>1. \A i \in Item : CloudRev(cloud, i) \in Nat
    BY <1>1 DEF CloudRev, Cloud, Batch, Row
  <2>2. rows \in Batch(Row) /\ epoch \in Nat
    BY <1>1, <2>1 DEF Batch, Row, Cloud
  <2>3. cloud' = AppendBatch(cloud, 0, epoch, rows) /\ UNCHANGED <<db, pc, job>>
    BY <1>5 DEF PeerPush, deviceVars
  <2> HIDE DEF rows, epoch
  <2>4. Extends(cloud, cloud')
    BY <1>1, <2>2, <2>3, Appended
  <2> QED BY <2>3, <2>4, CloudConflicts
<1>6. ASSUME NEW s \in 1..Seqno(cloud), ExpireLog(s) PROVE ConflictsAgree'
  <2>1. cloud' \in Cloud /\ cloud'.log = cloud.log /\ cloud'.items = cloud.items
    BY <1>1, <1>6, ExpireLogType, Zenon DEF ExpireLog, TypeOK, Cloud
  <2>2. Extends(cloud, cloud') /\ UNCHANGED <<db, pc, job>>
    BY <1>1, <1>6, <2>1, SameLog DEF ExpireLog, deviceVars
  <2> QED BY <2>2, CloudConflicts
<1>7. CASE Crash
  BY <1>7, QuietConflicts DEF Crash, LogKept
<1> QED BY <1>2, <1>3, <1>4, <1>5, <1>6, <1>7 DEF Environment

-----------------------------------------------------------------------------
(* The theorems about conflicts                                            *)

LEMMA ConflictsInit == Init => ConflictsAgree
<1> SUFFICES ASSUME Init PROVE ConflictsAgree
  OBVIOUS
<1>1. pc = "idle" /\ db.frozen = Nil /\ db.conflicts = NoRows
  BY DEF Init, InitDatabase
<1>2. \A i \in Item : db.conflicts[i] = Nil
  BY <1>1 DEF NoRows
<1> QED BY <1>1, <1>2 DEF ConflictsAgree, DraftAvoidsConflicts, UploadsAvoidConflicts,
           ConflictShowsCloud, ConflictsAreLogged

LEMMA ConflictsNext ==
    TypeOK /\ HistoryAgrees /\ ConflictsAgree /\ [Next]_vars => ConflictsAgree'
<1> SUFFICES ASSUME TypeOK, HistoryAgrees, ConflictsAgree, [Next]_vars PROVE ConflictsAgree'
  OBVIOUS
<1>1. CASE Engine
  BY <1>1, OtherConflicts, AckRequestConflicts, ThawRequestConflicts, ReadingConflicts,
     ApplyBatchConflicts, RestoreSnapshotConflicts, FreezeAndSendConflicts,
     ResolveConflicts DEF Engine
<1>2. CASE UNCHANGED vars
  BY <1>2, QuietConflicts DEF vars, LogKept
<1> QED BY <1>1, <1>2, UserConflicts, EnvironmentConflicts DEF Next

(***************************************************************************)
(* Conflicts show rows the cloud recorded, the newest the device knows, and *)
(* neither a draft nor a request under way touches or refers to one.       *)
(***************************************************************************)
THEOREM ConflictsAlwaysAgree == Spec => []ConflictsAgree
<1>1. Init => TypeOK /\ HistoryAgrees /\ ConflictsAgree
  BY TypeInit, HistoryInit, ConflictsInit
<1>2. (TypeOK /\ HistoryAgrees /\ ConflictsAgree) /\ [Next]_vars
        => (TypeOK /\ HistoryAgrees /\ ConflictsAgree)'
  BY TypeNext, HistoryNext, ConflictsNext
<1> QED BY <1>1, <1>2, PTL DEF Spec

(***************************************************************************)
(* The user is never asked to choose against an older cloud content than   *)
(* the one the device knows: rebases, confirmations and snapshots included.*)
(***************************************************************************)
THEOREM ConflictAlwaysCurrent == Spec => []ConflictShowsCloud
<1>1. ConflictsAgree => ConflictShowsCloud
  BY DEF ConflictsAgree
<1> QED BY <1>1, ConflictsAlwaysAgree, PTL

(***************************************************************************)
(* No request under way holds a conflicted item or a content that refers   *)
(* to one, however long the request has been waiting to be resent.         *)
(***************************************************************************)
THEOREM UploadsAlwaysAvoidConflicts == Spec => []UploadsAvoidConflicts
<1>1. ConflictsAgree => UploadsAvoidConflicts
  BY DEF ConflictsAgree
<1> QED BY <1>1, ConflictsAlwaysAgree, PTL

(* A resolution that goes through changes the conflicts the user saw. *)
LEMMA SeenIsCurrent ==
    ASSUME TypeOK, ConflictsAgree, Resolve, Refusal = "", NEW i \in job.ask.S
    PROVE  \E k \in 1..db.cursor :
               cloud.log[k].rows[i] = [rev |-> job.ask.rev[i], val |-> ShadowVal(i)]
<1>1. i \in Item
  <2>1. job.ask \in Asked
    BY DEF Resolve, TypeOK, HoldsWhatItNeeds
  <2> QED BY <2>1, AskedItems
<1>2. db.conflicts[i] # Nil /\ db.conflicts[i].remote.rev = job.ask.rev[i]
  BY DEF Refusal, SeenConflict
<1>3. db.conflicts[i].remote \in Row
  BY <1>1, <1>2 DEF TypeOK, Database, Batch, Conflict
<1>4. db.conflicts[i].remote.val = ShadowVal(i)
  BY <1>1, <1>2 DEF ConflictsAgree, ConflictShowsCloud
<1>5. db.conflicts[i].remote = [rev |-> job.ask.rev[i], val |-> ShadowVal(i)]
  BY <1>2, <1>3, <1>4 DEF Row
<1> QED BY <1>1, <1>2, <1>5 DEF ConflictsAgree, ConflictsAreLogged

(* Nothing but a resolution that goes through ends "resolving" with a write. *)
LEMMA ResolvingWrites ==
    ASSUME TypeOK, [Next]_vars, pc = "resolving", pc' = "idle", db'.revision > db.revision
    PROVE  Resolve /\ Refusal = ""
<1>1. db.revision \in Nat
  BY DEF TypeOK, Database
<1>2. db'.revision # db.revision
  BY <1>1
<1>3. ~\E code : Handle(code)
  <2>1. \A code : [db EXCEPT !.error = code].revision = db.revision
    BY Zenon DEF TypeOK, Database
  <2> QED BY <1>2, <2>1 DEF Handle
<1>4. db' # db
  BY <1>2
<1>5. Resolve
  <2>1. ~User
    <3>1. ASSUME NEW S, NEW new, Edit(S, new) PROVE FALSE
      BY <3>1 DEF Edit
    <3>2. ASSUME NEW on, SetEnabled(on) PROVE FALSE
      BY <3>2 DEF SetEnabled
    <3>3. ASSUME NEW batch, NEW S, NEW pick, Ask(batch, S, pick) PROVE FALSE
      BY <3>3 DEF Ask
    <3>4. CASE SyncNow
      BY <3>4 DEF SyncNow
    <3> QED BY <3>1, <3>2, <3>3, <3>4 DEF User
  <2>2. ~Environment
    <3>1. ASSUME NEW code, RequestFails(code) PROVE FALSE
      BY <1>3, <3>1 DEF RequestFails
    <3>2. ASSUME NEW p, CloudPush(p) \/ LosePush(p) PROVE FALSE
      BY <1>4, <3>2 DEF CloudPush, LosePush, deviceVars
    <3>3. ASSUME NEW S, NEW new, NEW replace, PeerPush(S, new, replace) PROVE FALSE
      BY <1>4, <3>3 DEF PeerPush, deviceVars
    <3>4. ASSUME NEW s, ExpireLog(s) PROVE FALSE
      BY <1>4, <3>4 DEF ExpireLog, deviceVars
    <3>5. CASE Crash
      BY <1>4, <3>5 DEF Crash
    <3> QED BY <3>1, <3>2, <3>3, <3>4, <3>5 DEF Environment
  <2>3. CASE Engine
    BY <2>3, <1>4 DEF Engine, StartCycle, Recover, AnswerArrives, AckRequest, ThawRequest,
       GetChanges, ApplyBatch, FinishPage, TakeSnapshot, RestoreSnapshot, MakeDraft,
       FreezeAndSend, Hint, RetryElapses
  <2> QED BY <1>4, <2>1, <2>2, <2>3 DEF Next, vars
<1> QED BY <1>3, <1>5 DEF Resolve

(***************************************************************************)
(* A resolution takes effect only on what the user was shown: the revision *)
(* of every conflict resolved is one the cloud recorded with the content   *)
(* the device knows when the choice is carried out.                        *)
(***************************************************************************)
THEOREM ResolvesOnlyWhatWasSeen == Spec => ResolvesWhatWasSeen
<1>1. TypeOK /\ ConflictsAgree /\ [Next]_vars =>
        ((pc = "resolving" /\ pc' = "idle" /\ db'.revision > db.revision)
           => \A i \in job.ask.S : \E k \in 1..db.cursor :
                cloud.log[k].rows[i] = [rev |-> job.ask.rev[i], val |-> ShadowVal(i)])
  BY SeenIsCurrent, ResolvingWrites
<1> QED BY <1>1, TypeCorrect, ConflictsAlwaysAgree, PTL DEF Spec, ResolvesWhatWasSeen

-----------------------------------------------------------------------------
(* The switch                                                              *)

(* An operation that ends leaves nothing behind. *)
LEMMA SwitchEnds ==
    ASSUME pc' = "idle" /\ job' = NoJob
    PROVE  CyclesNeedTheSwitch'
BY DEF CyclesNeedTheSwitch, NoJob

LEMMA SwitchUser ==
    ASSUME CyclesNeedTheSwitch, User
    PROVE  CyclesNeedTheSwitch'
<1>1. ASSUME NEW S, NEW new, Edit(S, new) PROVE CyclesNeedTheSwitch'
  BY <1>1 DEF Edit, CyclesNeedTheSwitch
<1>2. ASSUME NEW on, SetEnabled(on) PROVE CyclesNeedTheSwitch'
  <2>1. pc' = "idle" /\ job' = NoJob
    BY <1>2 DEF SetEnabled, CyclesNeedTheSwitch
  <2> QED BY <2>1, SwitchEnds
<1>3. ASSUME NEW batch, NEW S, NEW pick, Ask(batch, S, pick) PROVE CyclesNeedTheSwitch'
  BY <1>3 DEF Ask, Begin, CyclesNeedTheSwitch, NoJob
<1>4. CASE SyncNow
  BY <1>4 DEF SyncNow, Begin, CyclesNeedTheSwitch, NoJob
<1> QED BY <1>1, <1>2, <1>3, <1>4 DEF User

(* A step of the operation under way goes on with what it is for. *)
LEMMA SwitchGoesOn ==
    ASSUME CyclesNeedTheSwitch, UNCHANGED enabled, job'.op = job.op, pc' # "idle",
           job'.then = job.then \/ job'.then \in {"none", "resolving", "again"},
           pc' \in {"drafting", "freezing"} => job.then = "drafting" \/ pc = "drafting"
    PROVE  CyclesNeedTheSwitch'
BY DEF CyclesNeedTheSwitch

(* The steps that follow a pull, or start another one. *)
LEMMA SwitchPulls ==
    ASSUME TypeOK, CyclesNeedTheSwitch, UNCHANGED enabled,
           AfterPull \/ PullThen(job.then) \/ PullThen("again"), job.then # "none"
    PROVE  CyclesNeedTheSwitch'
<1>1. job.then \in {"drafting", "resolving", "again"}
  BY DEF TypeOK, Job
<1>2. CASE AfterPull
  <2>1. CASE job.then = "again"
    BY <1>2, <2>1, SwitchEnds DEF AfterPull
  <2>2. CASE job.then # "again"
    <3>1. pc' = job.then /\ job' = [job EXCEPT !.until = 0, !.page = 0, !.data = Nil]
      BY <1>2, <2>2 DEF AfterPull
    <3>2. job'.op = job.op /\ job'.then = job.then
      BY <3>1, Zenon DEF TypeOK, Job
    <3> QED BY <1>1, <2>2, <3>1, <3>2, SwitchGoesOn
  <2> QED BY <2>1, <2>2
<1>3. ASSUME NEW then, then \in {job.then, "again"}, PullThen(then)
      PROVE  CyclesNeedTheSwitch'
  <2>1. job' = [job EXCEPT !.then = then, !.until = 0, !.page = 0, !.data = Nil]
        /\ pc' = "changes"
    BY <1>3 DEF PullThen
  <2>2. job'.op = job.op /\ job'.then = then
    BY <2>1, Zenon DEF TypeOK, Job
  <2> QED BY <1>3, <2>1, <2>2, SwitchGoesOn
<1>4. CASE PullThen(job.then) \/ PullThen("again")
  <2>1. \E then : then \in {job.then, "again"} /\ PullThen(then)
    BY <1>4
  <2> QED BY <1>3, <2>1
<1> QED BY <1>2, <1>4

(* The steps that keep what the operation is for. *)
LEMMA SwitchKeeps ==
    ASSUME TypeOK, CyclesNeedTheSwitch, UNCHANGED enabled,
           job' = job \/ (\E x : job' = [job EXCEPT !.data = x])
               \/ (\E u, p : job' = [job EXCEPT !.until = u, !.page = p]),
           pc' # "idle", pc' \in {"drafting", "freezing"} => pc = "drafting"
    PROVE  CyclesNeedTheSwitch'
<1>1. /\ \A x : [job EXCEPT !.data = x].op = job.op /\ [job EXCEPT !.data = x].then = job.then
      /\ \A u, p : /\ [job EXCEPT !.until = u, !.page = p].op = job.op
                   /\ [job EXCEPT !.until = u, !.page = p].then = job.then
  BY Zenon DEF TypeOK, Job
<1>2. job'.op = job.op /\ job'.then = job.then
  <2>1. CASE job' = job
    BY <2>1
  <2>2. CASE \E x : job' = [job EXCEPT !.data = x]
    <3>1. PICK x : job' = [job EXCEPT !.data = x]
      BY <2>2
    <3> QED BY <1>1, <3>1, Zenon
  <2>3. CASE \E u, p : job' = [job EXCEPT !.until = u, !.page = p]
    <3>1. PICK u, p : job' = [job EXCEPT !.until = u, !.page = p]
      BY <2>3
    <3> QED BY <1>1, <3>1, Zenon
  <2> QED BY <2>1, <2>2, <2>3
<1> QED BY <1>2, SwitchGoesOn

LEMMA SwitchEngine ==
    ASSUME TypeOK, CyclesNeedTheSwitch, Engine
    PROVE  CyclesNeedTheSwitch'
<1>1. CASE \E code : Handle(code)
  BY <1>1, SwitchEnds DEF Handle
<1>2. CASE UNCHANGED <<pc, job, enabled>>
  BY <1>2 DEF CyclesNeedTheSwitch
<1>3. CASE StartCycle
  BY <1>3 DEF StartCycle, Begin, CyclesNeedTheSwitch, NoJob
<1>4. CASE Recover
  BY <1>4, SwitchKeeps DEF Recover
<1>5. CASE AnswerArrives
  BY <1>1, <1>5, SwitchKeeps DEF AnswerArrives
<1>6. CASE AckRequest
  BY <1>1, <1>6, SwitchPulls DEF AckRequest, TypeOK, HoldsWhatItNeeds
<1>7. CASE ThawRequest
  BY <1>7, SwitchPulls DEF ThawRequest, TypeOK, HoldsWhatItNeeds
<1>8. CASE GetChanges
  <2>1. UNCHANGED enabled /\ pc' \in {"snapshot", "applying"}
        /\ (job' = job \/ (\E u, p : job' = [job EXCEPT !.until = u, !.page = p]))
    BY <1>8 DEF GetChanges
  <2> QED BY <2>1, SwitchKeeps
<1>9. CASE TakeSnapshot
  BY <1>9, SwitchKeeps DEF TakeSnapshot
<1>10. CASE ApplyBatch
  <2>1. \/ \E code : Handle(code)
        \/ UNCHANGED <<pc, job, enabled>>
        \/ pc' = "snapshot" /\ UNCHANGED <<job, enabled>>
    BY <1>10 DEF ApplyBatch
  <2> QED BY <1>1, <1>2, <2>1, SwitchKeeps
<1>11. CASE FinishPage
  <2>1. job.then # "none" /\ UNCHANGED enabled
    BY <1>11 DEF FinishPage, TypeOK, HoldsWhatItNeeds
  <2>2. AfterPull \/ (pc' = "changes" /\ job' = job)
    BY <1>11 DEF FinishPage
  <2> QED BY <2>1, <2>2, SwitchPulls, SwitchKeeps
<1>12. CASE RestoreSnapshot
  BY <1>12, SwitchPulls DEF RestoreSnapshot, TypeOK, HoldsWhatItNeeds
<1>13. CASE MakeDraft
  BY <1>13, SwitchEnds, SwitchKeeps DEF MakeDraft
<1>14. CASE FreezeAndSend
  <2>1. CASE job' = [job EXCEPT !.then = "again", !.data = Nil] /\ pc' = "awaiting"
             /\ UNCHANGED enabled
    <3>1. job'.op = job.op /\ job'.then = "again"
      BY <2>1, Zenon DEF TypeOK, Job
    <3> QED BY <2>1, <3>1, SwitchGoesOn
  <2> QED BY <1>1, <1>14, <2>1 DEF FreezeAndSend
<1>15. CASE Resolve
  BY <1>1, <1>15, SwitchEnds DEF Resolve
<1>16. CASE Hint \/ RetryElapses
  BY <1>2, <1>16 DEF Hint, RetryElapses
<1> QED BY <1>3, <1>4, <1>5, <1>6, <1>7, <1>8, <1>9, <1>10, <1>11, <1>12, <1>13, <1>14,
           <1>15, <1>16 DEF Engine

LEMMA SwitchEnvironment ==
    ASSUME TypeOK, CyclesNeedTheSwitch, Environment
    PROVE  CyclesNeedTheSwitch'
<1>1. ASSUME NEW code, RequestFails(code) PROVE CyclesNeedTheSwitch'
  BY <1>1 DEF RequestFails, Handle, CyclesNeedTheSwitch, NoJob
<1>2. ASSUME NEW p, CloudPush(p) PROVE CyclesNeedTheSwitch'
  <2>1. UNCHANGED <<pc, enabled>>
    BY <1>2 DEF CloudPush
  <2>2. job' = job \/ (pc # "idle" /\ \E x : job' = [job EXCEPT !.data = x])
    BY <1>2 DEF CloudPush
  <2>3. \A x : [job EXCEPT !.data = x].op = job.op /\ [job EXCEPT !.data = x].then = job.then
    BY Zenon DEF TypeOK, Job
  <2> QED BY <2>1, <2>2, <2>3 DEF CyclesNeedTheSwitch
<1>3. ASSUME UNCHANGED deviceVars PROVE CyclesNeedTheSwitch'
  BY <1>3 DEF deviceVars, CyclesNeedTheSwitch
<1>4. CASE Crash
  BY <1>4 DEF Crash, CyclesNeedTheSwitch, NoJob
<1> QED BY <1>1, <1>2, <1>3, <1>4 DEF Environment, LosePush, PeerPush, ExpireLog

(***************************************************************************)
(* Cycles, and the uploads they prepare, run only while sync is on: the    *)
(* switch waits for the operation under way.                               *)
(***************************************************************************)
THEOREM CyclesAlwaysNeedTheSwitch == Spec => []CyclesNeedTheSwitch
<1>1. Init => TypeOK /\ CyclesNeedTheSwitch
  BY TypeInit DEF Init, NoJob, CyclesNeedTheSwitch
<1>2. (TypeOK /\ CyclesNeedTheSwitch) /\ [Next]_vars => (TypeOK /\ CyclesNeedTheSwitch)'
  <2>1. CASE UNCHANGED vars
    BY <2>1, TypeNext DEF vars, CyclesNeedTheSwitch
  <2> QED BY <2>1, TypeNext, SwitchUser, SwitchEngine, SwitchEnvironment DEF Next
<1> QED BY <1>1, <1>2, PTL DEF Spec

(***************************************************************************)
(* While sync is paused no request gets an identity, so nothing new is     *)
(* uploaded, whichever operation was under way when the user paused.       *)
(***************************************************************************)
THEOREM PausedNeverFreezes == Spec => PausedFreezesNothing
<1>1. CyclesNeedTheSwitch /\ [Next]_vars => (~enabled => nextId' = nextId)
  <2> SUFFICES ASSUME CyclesNeedTheSwitch, [Next]_vars, nextId' # nextId PROVE enabled
    OBVIOUS
  <2>1. ~User
    BY DEF User, Edit, SetEnabled, SyncNow, Ask
  <2>2. ~Environment
    BY DEF Environment, RequestFails, CloudPush, LosePush, PeerPush, ExpireLog, Crash, deviceVars
  <2>3. CASE Engine
    <3>1. FreezeAndSend
      BY <2>3 DEF Engine, StartCycle, Recover, AnswerArrives, AckRequest, ThawRequest,
         GetChanges, ApplyBatch, FinishPage, TakeSnapshot, RestoreSnapshot, MakeDraft,
         Resolve, Hint, RetryElapses
    <3> QED BY <3>1 DEF FreezeAndSend, CyclesNeedTheSwitch
  <2> QED BY <2>1, <2>2, <2>3 DEF Next, vars
<1> QED BY <1>1, CyclesAlwaysNeedTheSwitch, PTL DEF Spec, PausedFreezesNothing

-----------------------------------------------------------------------------
(* The user's edits                                                        *)

ValueOf(row) == IF row = Nil THEN Nil ELSE row.val

(* What EditsAgree asks of item i in database d when its edit was made on b. *)
ItemAgrees(d, b, i) ==
    /\ d.pending[i] # Nil => d.entities[i] = d.pending[i].val
    /\ (d.pending[i] = Nil /\ d.conflicts[i] = Nil) => d.entities[i] = ValueOf(d.shadow[i])
    /\ (d.pending[i] # Nil /\ d.conflicts[i] = Nil) => b = ValueOf(d.shadow[i])

(* A row that waits for what it refers to waits for no edit, and conflicts *)
(* show the shadow.                                                        *)
ItemWaits(d, i) ==
    d.conflicts[i] # Nil =>
        /\ d.conflicts[i].remote.val = ValueOf(d.shadow[i])
        /\ d.conflicts[i].reason = "dependency" => d.pending[i] = Nil

LEMMA Itemwise ==
    /\ PendingIsLocal /\ SyncedIsCloud /\ EditsBuildOnCloud
         <=> \A i \in Item : ItemAgrees(db, basis[i], i)
    /\ ConflictShowsCloud /\ Undisturbed <=> \A i \in Item : ItemWaits(db, i)
BY DEF PendingIsLocal, SyncedIsCloud, EditsBuildOnCloud, ItemAgrees, ConflictShowsCloud,
   Undisturbed, ItemWaits, ValueOf, ShadowVal

(* Applying rows keeps an item in agreement, and clears an edit only if a  *)
(* row of the cloud has its content.                                       *)
LEMMA AppliedItem ==
    ASSUME NEW d \in Database, d.initialized, NEW rows \in Batch(Row), NEW snapshot \in BOOLEAN,
           NEW A, A \subseteq Candidates(d, rows, snapshot), NEW cursor, NEW epoch,
           NEW e, e = ApplyValues(d, rows, cursor, epoch, snapshot, A),
           NEW b, NEW i \in Item, ItemAgrees(d, b, i), ItemWaits(d, i)
    PROVE  /\ ItemAgrees(e, b, i)
           /\ e.pending[i] \in {d.pending[i], Nil}
           /\ (d.pending[i] # Nil /\ e.pending[i] = Nil) =>
                 /\ Incoming(d, rows, snapshot)[i] # Nil
                 /\ Incoming(d, rows, snapshot)[i].val = d.pending[i].val
<1> DEFINE inc == Incoming(d, rows, snapshot)
           fresh == Fresh(d, rows, snapshot)
           caught == Caught(d, rows, snapshot)
           rebased == Rebased(d, rows, snapshot)
           clashing == Clashing(d, rows, snapshot)
           waiting == Waiting(d, rows, snapshot)
           candidates == Candidates(d, rows, snapshot)
           new == CandidateTable(d, rows, snapshot)
<1>1. /\ e.shadow = ShadowAfter(d, rows, snapshot)
      /\ e.pending = PendingAfter(d, rows, snapshot)
      /\ e.conflicts = ConflictsAfter(d, rows, snapshot, A)
      /\ e.entities = Put(d.entities, A, new)
  BY Zenon DEF ApplyValues, Database
<1>2. /\ e.shadow[i] = IF i \in fresh THEN inc[i] ELSE d.shadow[i]
      /\ e.pending[i] = IF i \in caught THEN Nil ELSE d.pending[i]
      /\ e.entities[i] = IF i \in A THEN new[i] ELSE d.entities[i]
  BY <1>1 DEF ShadowAfter, PendingAfter, Put
<1>3. e.conflicts[i] = IF i \in A \cup caught THEN Nil
                       ELSE IF i \in candidates \ A
                            THEN [remote |-> CandidateRow(d, rows, snapshot, i),
                                  reason |-> "dependency"]
                       ELSE IF i \in clashing
                            THEN [remote |-> inc[i], reason |-> "concurrent_edit"]
                       ELSE d.conflicts[i]
  BY <1>1 DEF ConflictsAfter
<1>4. /\ i \in Queued(d) <=> d.pending[i] # Nil
      /\ i \in Edited(d) <=> d.pending[i] # Nil
  BY DEF Queued, Edited
<1>5. i \in caught <=> i \in fresh /\ d.pending[i] # Nil /\ d.entities[i] = inc[i].val
  BY <1>4 DEF Caught
<1>6. i \in rebased => d.shadow[i] # Nil /\ d.shadow[i].val = inc[i].val
  BY DEF Rebased
<1>7. i \in clashing <=> i \in fresh /\ d.pending[i] # Nil /\ i \notin caught \cup rebased
  BY <1>4 DEF Clashing
<1>8. i \in waiting => d.conflicts[i] # Nil /\ d.conflicts[i].reason = "dependency"
                       /\ i \notin fresh
  BY DEF Waiting, Fresh, InBatch
<1>9. /\ i \in candidates <=> (i \in fresh /\ d.pending[i] = Nil) \/ i \in waiting
      /\ i \in candidates => new[i] = IF i \in waiting THEN d.conflicts[i].remote.val
                                                     ELSE inc[i].val
  BY <1>4 DEF Candidates, CandidateTable, CandidateRow
<1>10. i \in fresh => inc[i] # Nil
  BY DEF Fresh, InBatch
<1>11. /\ i \in candidates \ A /\ i \notin caught => e.conflicts[i] # Nil
       /\ i \in clashing /\ i \notin A \cup caught => e.conflicts[i] # Nil
  <2>1. i \in candidates => CandidateRow(d, rows, snapshot, i) \in Row
    BY CandidateRowType
  <2>2. i \in fresh => inc[i] \in Row
    BY IncomingType DEF Fresh, InBatch, Batch
  <2> HIDE DEF inc, fresh, caught, rebased, clashing, waiting, candidates, new
  <2>3. \A r \in Row, why \in Reason : [remote |-> r, reason |-> why] # Nil
    BY NilIsNoRow DEF Conflict
  <2> QED BY <1>3, <1>7, <2>1, <2>2, <2>3 DEF Reason
<1> HIDE DEF inc, fresh, caught, rebased, clashing, waiting, candidates, new
<1>12. CASE i \in caught
  <2>1. i \in fresh /\ i \notin candidates /\ i \notin A
    BY <1>5, <1>8, <1>9, <1>12 DEF candidates
  <2>2. /\ e.pending[i] = Nil /\ e.entities[i] = d.entities[i] /\ e.shadow[i] = inc[i]
        /\ d.pending[i] # Nil /\ d.entities[i] = inc[i].val /\ inc[i] # Nil
    BY <1>2, <1>5, <1>10, <1>12, <2>1
  <2> QED BY <2>2 DEF ItemAgrees, ValueOf, inc
<1>13. CASE i \notin caught /\ d.pending[i] # Nil
  <2>1. i \notin waiting /\ i \notin candidates /\ i \notin A
    BY <1>8, <1>9, <1>13 DEF ItemWaits, candidates
  <2>2. e.pending[i] = d.pending[i] /\ e.entities[i] = d.entities[i]
    BY <1>2, <1>13, <2>1
  <2>3. e.conflicts[i] = Nil => d.conflicts[i] = Nil /\ i \notin clashing
    BY <1>3, <1>11, <1>13, <2>1
  <2>4. e.conflicts[i] = Nil => ValueOf(e.shadow[i]) = ValueOf(d.shadow[i])
    BY <1>2, <1>6, <1>7, <1>10, <1>13, <2>3 DEF ValueOf
  <2> QED BY <1>13, <2>2, <2>3, <2>4 DEF ItemAgrees
<1>14. CASE i \notin caught /\ d.pending[i] = Nil
  <2>1. e.pending[i] = Nil
    BY <1>2, <1>14
  <2>2. CASE i \in A
    <3>1. i \in candidates /\ e.entities[i] = new[i]
      BY <1>2, <2>2 DEF candidates
    <3>2. CASE i \in waiting
      BY <1>2, <1>8, <1>9, <2>1, <3>1, <3>2 DEF ItemAgrees, ItemWaits
    <3>3. CASE i \notin waiting
      BY <1>2, <1>9, <1>10, <2>1, <3>1, <3>3 DEF ItemAgrees, ValueOf
    <3> QED BY <1>14, <2>1, <3>2, <3>3
  <2>3. CASE i \notin A
    <3>1. e.conflicts[i] = Nil => i \notin candidates
      BY <1>11, <1>14, <2>3
    <3>2. e.conflicts[i] = Nil => i \notin fresh /\ d.conflicts[i] = Nil
      BY <1>3, <1>7, <1>9, <1>14, <2>3, <3>1
    <3>3. e.entities[i] = d.entities[i]
      BY <1>2, <2>3
    <3> QED BY <1>2, <1>14, <2>1, <3>2, <3>3 DEF ItemAgrees
  <2> QED BY <2>2, <2>3
<1> QED BY <1>12, <1>13, <1>14

LEMMA RowIsSome ==
    \A r \in Nat, v \in Content :
        LET row == [rev |-> r, val |-> v] IN row # Nil /\ row.rev = r /\ row.val = v
<1> SUFFICES ASSUME NEW r \in Nat, NEW v \in Content PROVE [rev |-> r, val |-> v] # Nil
  OBVIOUS
<1>1. [rev |-> r, val |-> v] \in Row
  BY DEF Row
<1> QED BY <1>1, NilIsNoRow

(* The next revision is past those of the outbox. *)
LEMMA OutboxRevisions ==
    ASSUME TypeOK, OutboxIsPast
    PROVE  /\ db.revision + 1 \in Nat /\ db.revision + 1 <= db.revision + 1
           /\ \A i \in Item :
                /\ db.pending[i] # Nil => /\ db.pending[i].rev \in Nat
                                          /\ db.pending[i].rev <= db.revision
                                          /\ db.pending[i].rev <= db.revision + 1
                /\ db.pending[i] = Nil => basis[i] = Nil
<1> DEFINE r == db.revision
<1>1. r \in Nat
  BY DEF TypeOK, Database
<1>2. \A i \in Item : db.pending[i] # Nil => db.pending[i].rev \in Nat /\ db.pending[i].rev <= r
  BY DEF OutboxIsPast, TypeOK, Database, Batch, Row
<1>3. \A i \in Item : db.pending[i] = Nil => basis[i] = Nil
  BY DEF OutboxIsPast
<1> HIDE DEF r
<1>4. r + 1 \in Nat /\ r + 1 <= r + 1 /\ \A n \in Nat : n <= r => n <= r + 1
  BY <1>1
<1> QED BY <1>2, <1>3, <1>4 DEF r

(* So does settling a conflict, which is the user's own choice.            *)
LEMMA SettledItem ==
    ASSUME TypeOK, OutboxIsPast, Resolve, Refusal = "", NEW d \in Settlements, NEW i \in Item,
           ItemAgrees(db, basis[i], i), ItemWaits(db, i)
    PROVE  /\ ItemAgrees(d, IF i \in job.ask.S THEN db.conflicts[i].remote.val ELSE basis[i], i)
           /\ ItemWaits(d, i)
           /\ (db.pending[i] # Nil /\ d.pending[i] = Nil) => i \in job.ask.S
           /\ d.initialized /\ d.revision = db.revision + 1
           /\ d.pending[i] # Nil => d.pending[i].rev <= d.revision
<1> DEFINE S == job.ask.S
           rev == db.revision + 1
           b == IF i \in S THEN db.conflicts[i].remote.val ELSE basis[i]
<1> SUFFICES /\ ItemAgrees(d, b, i) /\ ItemWaits(d, i)
             /\ (db.pending[i] # Nil /\ d.pending[i] = Nil) => i \in S
             /\ d.initialized /\ d.revision = rev
             /\ d.pending[i] # Nil => d.pending[i].rev <= rev
  OBVIOUS
<1>0. rev \in Nat /\ rev <= rev
  <2> HIDE DEF S, b
  <2> QED BY OutboxRevisions
<1>1. /\ db \in Database /\ db.initialized
      /\ db.pending \in [Item -> Row \cup {Nil}] /\ db.entities \in [Item -> Content]
      /\ db.conflicts \in [Item -> Conflict \cup {Nil}]
  <2> HIDE DEF S, b, rev
  <2>1. db \in Database /\ db.initialized
    BY DEF TypeOK, OutboxIsPast
  <2> QED BY <2>1 DEF Database, Batch, Table
<1>2. i \in S => db.conflicts[i] # Nil /\ db.conflicts[i].remote.val = ValueOf(db.shadow[i])
  BY NotRefused DEF ItemWaits
<1>3. /\ db.pending[i] # Nil => db.pending[i].rev <= rev
      /\ db.pending[i] = Nil => basis[i] = Nil
  <2> HIDE DEF S, b
  <2> QED BY OutboxRevisions
<1>4. \A v \in Content : LET row == [rev |-> rev, val |-> v]
                         IN  row # Nil /\ row.rev = rev /\ row.val = v
  <2> HIDE DEF rev
  <2> QED BY <1>0, RowIsSome
<1>5. CASE job.ask.batch
  <2>1. PICK copies \in SUBSET Unused, new \in [Item -> Content] :
            d = SettleBatch(db, S, copies, new)
    BY <1>5 DEF Settlements
  <2> HIDE DEF S
  <2>2. /\ d.entities = Put(db.entities, S \cup copies, new)
        /\ d.conflicts = [j \in Item |-> IF j \in S THEN Nil ELSE db.conflicts[j]]
        /\ d.pending = [j \in Item |->
               IF j \in copies \/ (j \in S /\ new[j] # db.conflicts[j].remote.val)
               THEN [rev |-> rev, val |-> new[j]]
               ELSE IF j \in S THEN Nil ELSE db.pending[j]]
        /\ d.shadow = db.shadow /\ d.initialized = db.initialized /\ d.revision = rev
    BY <1>1, <2>1, Zenon DEF SettleBatch, Database
  <2> DEFINE row == [rev |-> rev, val |-> new[i]]
  <2>3. new[i] \in Content
    OBVIOUS
  <2>4. row # Nil /\ row.rev = rev /\ row.val = new[i]
    BY <1>4, <2>3
  <2>5. /\ d.entities[i] = IF i \in S \cup copies THEN new[i] ELSE db.entities[i]
        /\ d.conflicts[i] = IF i \in S THEN Nil ELSE db.conflicts[i]
        /\ d.pending[i] = IF i \in copies \/ (i \in S /\ new[i] # db.conflicts[i].remote.val)
                          THEN row ELSE IF i \in S THEN Nil ELSE db.pending[i]
        /\ d.shadow[i] = db.shadow[i]
    BY <2>2 DEF Put
  <2>6. i \in copies => /\ db.pending[i] = Nil /\ db.shadow[i] = Nil
                        /\ db.conflicts[i] = Nil /\ i \notin S
    BY <1>2, <2>1 DEF Unused
  <2>7. d.initialized /\ d.revision = rev
    BY <1>1, <2>2
  <2> HIDE DEF rev, row
  <2>8. CASE i \in copies
    <3>1. d.pending[i] = row /\ d.entities[i] = new[i] /\ d.conflicts[i] = Nil
      BY <2>5, <2>6, <2>8
    <3>2. ValueOf(d.shadow[i]) = Nil /\ b = Nil
      BY <1>3, <2>5, <2>6, <2>8 DEF ValueOf
    <3> HIDE DEF b
    <3> QED BY <1>0, <2>4, <2>6, <2>7, <2>8, <3>1, <3>2 DEF ItemAgrees, ItemWaits
  <2>9. CASE i \notin copies /\ i \in S
    <3>1. d.conflicts[i] = Nil /\ d.entities[i] = new[i] /\ b = ValueOf(d.shadow[i])
      BY <1>2, <2>5, <2>9
    <3>2. d.pending[i] = IF new[i] # ValueOf(d.shadow[i]) THEN row ELSE Nil
      BY <1>2, <2>5, <2>9
    <3> HIDE DEF b
    <3> QED BY <1>0, <2>4, <2>7, <2>9, <3>1, <3>2 DEF ItemAgrees, ItemWaits
  <2>10. CASE i \notin copies /\ i \notin S
    <3>1. /\ d.pending[i] = db.pending[i] /\ d.entities[i] = db.entities[i]
          /\ d.conflicts[i] = db.conflicts[i] /\ b = basis[i]
      BY <2>5, <2>10
    <3> HIDE DEF b
    <3> QED BY <1>3, <2>5, <2>7, <3>1 DEF ItemAgrees, ItemWaits
  <2> QED BY <2>8, <2>9, <2>10
<1>6. CASE ~job.ask.batch
  <2>1. PICK j \in S : d = SettleOne(db, j, job.ask.pick[j])
    BY <1>6 DEF Settlements
  <2> DEFINE cloudly == job.ask.pick[j] = "use_cloud"
             row == [rev |-> rev, val |-> db.entities[j]]
  <2>2. /\ d.entities = [db.entities EXCEPT ![j] =
                           IF cloudly THEN db.conflicts[j].remote.val ELSE @]
        /\ d.conflicts = [db.conflicts EXCEPT ![j] = Nil]
        /\ d.pending = [db.pending EXCEPT ![j] = IF cloudly THEN Nil ELSE row]
        /\ d.shadow = db.shadow /\ d.initialized = db.initialized /\ d.revision = rev
    BY <1>1, <2>1, Zenon DEF SettleOne, Database
  <2>3. d.initialized /\ d.revision = rev
    BY <1>1, <2>2
  <2>4. i = j => row # Nil /\ row.rev = rev /\ row.val = db.entities[i]
    BY <1>1, <1>4
  <2> HIDE DEF cloudly, S, rev, row
  <2>5. CASE i = j
    <3>1. /\ d.entities[i] = IF cloudly THEN db.conflicts[i].remote.val ELSE db.entities[i]
          /\ d.conflicts[i] = Nil
          /\ d.pending[i] = IF cloudly THEN Nil ELSE row
          /\ d.shadow[i] = db.shadow[i]
      BY <1>1, <2>2, <2>5
    <3>2. i \in S /\ b = ValueOf(d.shadow[i]) /\ db.conflicts[i].remote.val = ValueOf(d.shadow[i])
      BY <1>2, <2>1, <2>5, <3>1
    <3> HIDE DEF b
    <3> QED BY <1>0, <2>3, <2>4, <2>5, <3>1, <3>2 DEF ItemAgrees, ItemWaits
  <2>6. CASE i # j
    <3>1. /\ d.pending[i] = db.pending[i] /\ d.entities[i] = db.entities[i]
          /\ d.conflicts[i] = db.conflicts[i] /\ d.shadow[i] = db.shadow[i]
      BY <1>1, <2>2, <2>6
    <3>2. d.conflicts[i] = Nil => b = basis[i]
      BY <1>2, <3>1
    <3> HIDE DEF b
    <3> QED BY <1>3, <2>3, <3>1, <3>2 DEF ItemAgrees, ItemWaits
  <2> QED BY <2>5, <2>6
<1> QED BY <1>5, <1>6

(* What NoEditDropped asks of a step. *)
EditsAccounted ==
    \A i \in Item :
        (db.pending[i] # Nil /\ db'.pending[i] = Nil)
           => \/ pc = "resolving" /\ i \in job.ask.S
              \/ \E k \in 1..db'.cursor :
                    /\ cloud.log[k].rows[i] # Nil
                    /\ cloud.log[k].rows[i].val = db.pending[i].val

(* Nothing an edit depends on moves, though a request may be given up. *)
LEMMA QuietEdits ==
    ASSUME EditsAgree, UNCHANGED basis,
           db'.entities = db.entities, db'.pending = db.pending, db'.shadow = db.shadow,
           db'.conflicts = db.conflicts, db'.initialized = db.initialized,
           db'.revision = db.revision, db'.frozen \in {db.frozen, Nil},
           pc' # "freezing" \/ (UNCHANGED pc /\ UNCHANGED job)
    PROVE  EditsAgree' /\ EditsAccounted
<1>1. OutboxIsPast'
  BY DEF EditsAgree, OutboxIsPast
<1>2. UploadsArePending'
  BY DEF EditsAgree, UploadsArePending, CoversPending
<1>3. PendingIsLocal' /\ SyncedIsCloud' /\ EditsBuildOnCloud'
  BY DEF EditsAgree, PendingIsLocal, SyncedIsCloud, EditsBuildOnCloud, ShadowVal
<1> QED BY <1>1, <1>2, <1>3 DEF EditsAgree, EditsAccounted

LEMMA ToldEdits ==
    ASSUME TypeOK, EditsAgree, UNCHANGED basis, NEW code,
           db' = db \/ db' = [db EXCEPT !.error = code],
           pc' # "freezing" \/ (UNCHANGED pc /\ UNCHANGED job)
    PROVE  EditsAgree' /\ EditsAccounted
<1> DEFINE e == [db EXCEPT !.error = code]
<1>1. /\ e.entities = db.entities /\ e.pending = db.pending /\ e.shadow = db.shadow
      /\ e.conflicts = db.conflicts /\ e.initialized = db.initialized
      /\ e.revision = db.revision /\ e.frozen = db.frozen
  BY Zenon DEF TypeOK, Database
<1> HIDE DEF e
<1>2. db' = db \/ db' = e
  BY DEF e
<1> QED BY <1>1, <1>2, QuietEdits

LEMMA FailureEdits ==
    ASSUME TypeOK, EditsAgree, UNCHANGED basis, \E code : Handle(code)
    PROVE  EditsAgree' /\ EditsAccounted
<1>1. PICK code : Handle(code)
  OBVIOUS
<1>2. pc' # "freezing" /\ (db' = db \/ db' = [db EXCEPT !.error = code])
  BY <1>1 DEF Handle
<1> QED BY <1>2, ToldEdits

(* Rows applied to a database that agrees, with nothing frozen in it. *)
LEMMA AppliedEdits ==
    ASSUME NEW d \in Database, d.initialized, d.frozen = Nil, NEW b,
           \A i \in Item : /\ ItemAgrees(d, b[i], i) /\ ItemWaits(d, i)
                           /\ d.pending[i] # Nil => d.pending[i].rev <= d.revision,
           NEW rows \in Batch(Row), NEW snapshot \in BOOLEAN,
           NEW A, A \subseteq Candidates(d, rows, snapshot), NEW cursor, NEW epoch,
           db' = ApplyValues(d, rows, cursor, epoch, snapshot, A),
           KeepBasis(b), pc' # "freezing"
    PROVE  /\ EditsAgree' /\ db'.cursor = cursor
           /\ \A i \in Item : (d.pending[i] # Nil /\ db'.pending[i] = Nil) =>
                 /\ Incoming(d, rows, snapshot)[i] # Nil
                 /\ Incoming(d, rows, snapshot)[i].val = d.pending[i].val
<1>1. /\ db'.initialized = d.initialized /\ db'.revision = d.revision + 1
      /\ db'.frozen = d.frozen /\ db'.cursor = cursor
  BY Zenon DEF ApplyValues, Database
<1>2. ASSUME NEW i \in Item
      PROVE  /\ ItemAgrees(db', b[i], i) /\ db'.pending[i] \in {d.pending[i], Nil}
             /\ (d.pending[i] # Nil /\ db'.pending[i] = Nil) =>
                   /\ Incoming(d, rows, snapshot)[i] # Nil
                   /\ Incoming(d, rows, snapshot)[i].val = d.pending[i].val
  <2>1. ItemAgrees(d, b[i], i) /\ ItemWaits(d, i)
    OBVIOUS
  <2> DEFINE e == ApplyValues(d, rows, cursor, epoch, snapshot, A)
  <2>2. e = ApplyValues(d, rows, cursor, epoch, snapshot, A) /\ db' = e
    OBVIOUS
  <2> HIDE DEF e
  <2>3. /\ ItemAgrees(e, b[i], i) /\ e.pending[i] \in {d.pending[i], Nil}
        /\ (d.pending[i] # Nil /\ e.pending[i] = Nil) =>
              /\ Incoming(d, rows, snapshot)[i] # Nil
              /\ Incoming(d, rows, snapshot)[i].val = d.pending[i].val
    <3>1. d \in Database /\ d.initialized /\ rows \in Batch(Row) /\ snapshot \in BOOLEAN
      OBVIOUS
    <3>2. A \subseteq Candidates(d, rows, snapshot) /\ i \in Item
      OBVIOUS
    <3> QED BY <2>1, <2>2, <3>1, <3>2, AppliedItem, SMTT(60)
  <2> QED BY <2>2, <2>3
<1>3. \A i \in Item : basis'[i] = IF db'.pending[i] = Nil THEN Nil ELSE b[i]
  BY DEF KeepBasis
<1>4. \A i \in Item : ItemAgrees(db', basis'[i], i)
  BY <1>2, <1>3 DEF ItemAgrees
<1>5. PendingIsLocal' /\ SyncedIsCloud' /\ EditsBuildOnCloud'
  BY <1>4 DEF PendingIsLocal, SyncedIsCloud, EditsBuildOnCloud, ItemAgrees, ValueOf, ShadowVal
<1>6. ASSUME NEW i \in Item, db'.pending[i] # Nil
      PROVE  db'.pending[i].rev <= db'.revision
  <2>1. db'.pending[i] = d.pending[i] /\ d.pending[i] \in Row /\ d.pending[i].rev <= d.revision
    BY <1>2, <1>6 DEF Database, Batch
  <2>2. d.pending[i].rev \in Nat /\ d.revision \in Nat
    BY <2>1 DEF Row, Database
  <2> QED BY <1>1, <2>1, <2>2
<1>7. OutboxIsPast'
  BY <1>1, <1>3, <1>6 DEF OutboxIsPast
<1>8. UploadsArePending'
  BY <1>1 DEF UploadsArePending
<1> QED BY <1>1, <1>2, <1>5, <1>7, <1>8 DEF EditsAgree

(* Every item agrees before a pull applies rows. *)
LEMMA PullAgrees ==
    ASSUME TypeOK, HistoryAgrees, ConflictsAgree, EditsAgree, Undisturbed,
           pc \in {"applying", "restoring", "resolving"}
    PROVE  /\ db \in Database /\ db.initialized /\ db.frozen = Nil
           /\ \A i \in Item : /\ ItemAgrees(db, basis[i], i) /\ ItemWaits(db, i)
                              /\ db.pending[i] # Nil => db.pending[i].rev <= db.revision
<1>1. db \in Database /\ db.initialized /\ db.frozen = Nil
  BY NoneFrozen DEF TypeOK, EditsAgree, OutboxIsPast
<1>2. \A i \in Item : ItemAgrees(db, basis[i], i) /\ ItemWaits(db, i)
  BY Itemwise DEF EditsAgree, ConflictsAgree
<1> QED BY <1>1, <1>2, OutboxRevisions DEF EditsAgree

LEMMA ApplyBatchEdits ==
    ASSUME TypeOK, HistoryAgrees, ConflictsAgree, EditsAgree, Undisturbed, ApplyBatch
    PROVE  EditsAgree' /\ EditsAccounted
<1> DEFINE next == db.cursor + 1
           batch == cloud.log[next]
<1>1. CASE pc' = "snapshot" /\ UNCHANGED <<db, basis>>
  BY <1>1, QuietEdits
<1>2. CASE Handle("SYNC_PROTOCOL") /\ UNCHANGED basis
  BY <1>2, FailureEdits
<1>3. ASSUME NEW A \in SUBSET Item, Accepts(db, batch.rows, FALSE, A),
             db' = ApplyValues(db, batch.rows, next, batch.epoch, FALSE, A),
             KeepBasis(basis), UNCHANGED pc
      PROVE  EditsAgree' /\ EditsAccounted
  <2>1. pc = "applying" /\ db.cursor < job.page
    BY DEF ApplyBatch
  <2>2. batch.rows \in Batch(Row) /\ next \in Nat /\ next \in 1..next
    <3>1. next \in 1..Seqno(cloud) /\ next \in Nat
      <4>1. Seqno(cloud) \in Nat /\ db.cursor \in Nat /\ job.page \in Nat /\ job.until \in Nat
        BY DEF TypeOK, Cloud, Seqno, Database, Job
      <4> QED BY <2>1, <4>1 DEF TypeOK, HoldsWhatItNeeds, PageIsLogged
    <3>2. batch.rows \in Batch(Row)
      BY <3>1, LogRowType
    <3> QED BY <3>1, <3>2
  <2>3. A \subseteq Candidates(db, batch.rows, FALSE)
    BY <1>3 DEF Accepts
  <2>4. \A i \in Item : Incoming(db, batch.rows, FALSE)[i] = batch.rows[i]
    BY DEF Incoming
  <2>5. /\ db \in Database /\ db.initialized /\ db.frozen = Nil
        /\ \A i \in Item : /\ ItemAgrees(db, basis[i], i) /\ ItemWaits(db, i)
                           /\ db.pending[i] # Nil => db.pending[i].rev <= db.revision
    BY <2>1, PullAgrees
  <2>6. /\ EditsAgree' /\ db'.cursor = next
        /\ \A i \in Item : (db.pending[i] # Nil /\ db'.pending[i] = Nil) =>
              /\ Incoming(db, batch.rows, FALSE)[i] # Nil
              /\ Incoming(db, batch.rows, FALSE)[i].val = db.pending[i].val
    <3> HIDE DEF batch, next
    <3>1. pc' # "freezing" /\ FALSE \in BOOLEAN
      BY <1>3, <2>1
    <3> QED BY <1>3, <2>2, <2>3, <2>5, <3>1, AppliedEdits
  <2> HIDE DEF next
  <2>7. EditsAccounted
    BY <2>2, <2>4, <2>6 DEF EditsAccounted
  <2> QED BY <2>6, <2>7
<1> QED BY <1>1, <1>2, <1>3 DEF ApplyBatch

LEMMA RestoreSnapshotEdits ==
    ASSUME TypeOK, HistoryAgrees, ConflictsAgree, EditsAgree, Undisturbed, RestoreSnapshot
    PROVE  EditsAgree' /\ EditsAccounted
<1> DEFINE rows == job.data.rows
           seq == job.data.seq
<1>1. pc = "restoring" /\ rows \in Batch(Row) /\ seq \in Nat /\ db.cursor \in Nat
  BY DEF RestoreSnapshot, TypeOK, HoldsWhatItNeeds, Snapshot, Database
<1>2. PICK A \in SUBSET Item :
          /\ Accepts(db, rows, TRUE, A)
          /\ db' = ApplyValues(db, rows, seq, job.data.epoch, TRUE, A)
  BY DEF RestoreSnapshot
<1>3. A \subseteq Candidates(db, rows, TRUE)
  BY <1>2 DEF Accepts
<1>4. /\ db \in Database /\ db.initialized /\ db.frozen = Nil
      /\ \A i \in Item : /\ ItemAgrees(db, basis[i], i) /\ ItemWaits(db, i)
                         /\ db.pending[i] # Nil => db.pending[i].rev <= db.revision
  BY <1>1, PullAgrees
<1>5. KeepBasis(basis) /\ pc' # "freezing" /\ TRUE \in BOOLEAN
  BY DEF RestoreSnapshot, AfterPull, TypeOK, Job
<1>6. /\ EditsAgree' /\ db'.cursor = seq
      /\ \A i \in Item : (db.pending[i] # Nil /\ db'.pending[i] = Nil) =>
            /\ Incoming(db, rows, TRUE)[i] # Nil
            /\ Incoming(db, rows, TRUE)[i].val = db.pending[i].val
  <2> HIDE DEF rows, seq
  <2> QED BY <1>1, <1>2, <1>3, <1>4, <1>5, AppliedEdits
<1>7. ASSUME NEW i \in Item, Incoming(db, rows, TRUE)[i] # Nil
      PROVE  \E k \in 1..seq : /\ cloud.log[k].rows[i] # Nil
                               /\ cloud.log[k].rows[i] = Incoming(db, rows, TRUE)[i]
  <2>1. db.cursor <= seq
    BY DEF HistoryAgrees, SnapshotIsCloud, RestoreSnapshot
  <2>2. CloudRowAt(cloud, i, db.cursor, db.shadow[i]) /\ CloudRowAt(cloud, i, seq, rows[i])
    BY DEF HistoryAgrees, ShadowIsCloudAtCursor, SnapshotIsCloud, RestoreSnapshot
  <2>3. rows[i] # Nil
    <3> SUFFICES ASSUME rows[i] = Nil PROVE FALSE
      OBVIOUS
    <3>1. db.shadow[i] = Nil
      BY <1>1, <2>1, <2>2, NeverWritten
    <3> QED BY <1>7, <3>1 DEF Incoming
  <2>4. Incoming(db, rows, TRUE)[i] = rows[i]
    BY <2>3 DEF Incoming
  <2> QED BY <2>2, <2>3, <2>4 DEF CloudRowAt
<1> HIDE DEF rows, seq
<1>8. EditsAccounted
  BY <1>6, <1>7 DEF EditsAccounted
<1> QED BY <1>6, <1>8

LEMMA ResolveEdits ==
    ASSUME TypeOK, HistoryAgrees, ConflictsAgree, EditsAgree, Undisturbed, Resolve
    PROVE  EditsAgree' /\ EditsAccounted
<1>1. CASE UNCHANGED basis /\ \E code : Handle(code)
  BY <1>1, FailureEdits
<1> DEFINE b == [i \in Item |-> IF i \in job.ask.S THEN db.conflicts[i].remote.val
                                                   ELSE basis[i]]
<1>2. ASSUME Refusal = "", NEW d \in Settlements, NEW A \in SUBSET Item,
             Accepts(d, NoRows, FALSE, A),
             db' = ApplyValues(d, NoRows, d.cursor, d.epoch, FALSE, A),
             KeepBasis(b), pc' = "idle"
      PROVE  EditsAgree' /\ EditsAccounted
  <2>1. pc = "resolving"
    BY DEF Resolve
  <2>2. d \in Database /\ d.frozen = Nil
    <3>1. db.frozen = Nil
      BY <2>1, NoneFrozen
    <3> QED BY <1>2, <2>1, <3>1, SettlementType
  <2>3. /\ \A i \in Item : ItemAgrees(db, basis[i], i) /\ ItemWaits(db, i)
        /\ OutboxIsPast
    BY <2>1, PullAgrees DEF EditsAgree
  <2>4. ASSUME NEW i \in Item
        PROVE  /\ ItemAgrees(d, b[i], i) /\ ItemWaits(d, i)
               /\ (db.pending[i] # Nil /\ d.pending[i] = Nil) => i \in job.ask.S
               /\ d.initialized
               /\ d.pending[i] # Nil => d.pending[i].rev <= d.revision
    BY <1>2, <2>3, SettledItem
  <2>5. d.initialized
    <3>1. db \in Database /\ db.initialized
      BY <2>3 DEF TypeOK, OutboxIsPast
    <3>2. CASE job.ask.batch
      <4>1. PICK copies \in SUBSET Unused, new \in [Item -> Content] :
                d = SettleBatch(db, job.ask.S, copies, new)
        BY <3>2 DEF Settlements
      <4> QED BY <3>1, <4>1, Zenon DEF SettleBatch, Database
    <3>3. CASE ~job.ask.batch
      <4>1. PICK j \in job.ask.S : d = SettleOne(db, j, job.ask.pick[j])
        BY <3>3 DEF Settlements
      <4> QED BY <3>1, <4>1, Zenon DEF SettleOne, Database
    <3> QED BY <3>2, <3>3
  <2>6. A \subseteq Candidates(d, NoRows, FALSE) /\ NoRows \in Batch(Row) /\ FALSE \in BOOLEAN
    BY <1>2 DEF Accepts, NoRows, Batch
  <2>7. \A i \in Item : Incoming(d, NoRows, FALSE)[i] = Nil
    BY DEF Incoming, NoRows
  <2>8. /\ EditsAgree'
        /\ \A i \in Item : (d.pending[i] # Nil /\ db'.pending[i] = Nil) =>
              Incoming(d, NoRows, FALSE)[i] # Nil
    <3>1. pc' # "freezing"
      BY <1>2
    <3> HIDE DEF b
    <3> QED BY <1>2, <2>2, <2>4, <2>5, <2>6, <3>1, AppliedEdits
  <2>9. EditsAccounted
    BY <2>1, <2>4, <2>7, <2>8 DEF EditsAccounted
  <2> QED BY <2>8, <2>9
<1> QED BY <1>1, <1>2 DEF Resolve

(* An edit is made on what the item shows: what the cloud holds, or the    *)
(* edit before it.                                                         *)
LEMMA EditEdits ==
    ASSUME TypeOK, EditsAgree, NEW S, NEW new, Edit(S, new),
           S \subseteq Item, \A i \in S : new[i] \in Content
    PROVE  EditsAgree' /\ EditsAccounted
<1> DEFINE rev == db.revision + 1
           b == [i \in Item |-> IF i \in S /\ db.pending[i] = Nil THEN db.entities[i]
                                                                  ELSE basis[i]]
<1>1. /\ db'.entities = Put(db.entities, S, new)
      /\ db'.pending = [i \in Item |-> IF i \in S THEN [rev |-> rev, val |-> new[i]]
                                                  ELSE db.pending[i]]
      /\ db'.shadow = db.shadow /\ db'.conflicts = db.conflicts
      /\ db'.initialized = db.initialized /\ db'.frozen = db.frozen
      /\ db'.revision = rev
  BY Zenon DEF Edit, Commit, TypeOK, Database
<1>2. /\ rev \in Nat /\ rev <= rev /\ OutboxIsPast
      /\ \A i \in Item : db.pending[i] # Nil =>
            db.pending[i].rev <= rev /\ db.pending[i].rev <= db.revision
  BY OutboxRevisions DEF EditsAgree
<1>3. ASSUME NEW i \in S
      PROVE  /\ db'.pending[i] # Nil /\ db'.pending[i].rev = rev
             /\ db'.pending[i].val = new[i] /\ db'.entities[i] = new[i]
  <2>1. new[i] \in Content /\ i \in Item
    OBVIOUS
  <2> DEFINE row == [rev |-> rev, val |-> new[i]]
  <2>2. row # Nil /\ row.rev = rev /\ row.val = new[i]
    <3> HIDE DEF rev
    <3> QED BY <1>2, <2>1, RowIsSome
  <2>3. db'.pending[i] = row /\ db'.entities[i] = new[i]
    BY <1>1, <2>1 DEF Put
  <2> HIDE DEF row
  <2> QED BY <2>2, <2>3
<1>4. \A i \in Item \ S : db'.pending[i] = db.pending[i] /\ db'.entities[i] = db.entities[i]
  BY <1>1 DEF Put
<1>5. \A i \in Item : basis'[i] = IF db'.pending[i] = Nil THEN Nil ELSE b[i]
  BY DEF Edit, KeepBasis
<1>6. \A i \in Item : db'.pending[i] = Nil => i \notin S /\ db.pending[i] = Nil
  BY <1>3, <1>4
<1> HIDE DEF rev
<1>7. \A i \in Item : ItemAgrees(db, basis[i], i)
  BY Itemwise DEF EditsAgree
<1>8. OutboxIsPast'
  BY <1>1, <1>2, <1>3, <1>4, <1>5 DEF OutboxIsPast
<1>9. ASSUME NEW items, CoversPending(items), InBatch(items) \subseteq Item,
             \A i \in InBatch(items) : items[i].gen \in Nat
      PROVE  CoversPending(items)'
  <2> SUFFICES ASSUME NEW i \in InBatch(items)
               PROVE  /\ db'.pending[i] # Nil /\ items[i].gen <= db'.revision
                      /\ db'.pending[i].rev <= items[i].gen => db'.pending[i].val = items[i].val
    BY DEF CoversPending
  <2>1. /\ db.pending[i] # Nil /\ items[i].gen <= db.revision /\ items[i].gen \in Nat
        /\ db.pending[i].rev <= items[i].gen => db.pending[i].val = items[i].val
    BY <1>9 DEF CoversPending
  <2>2. items[i].gen <= rev /\ ~(rev <= items[i].gen)
    <3>1. db.revision \in Nat
      BY DEF TypeOK, Database
    <3> QED BY <2>1, <3>1 DEF rev
  <2> QED BY <1>1, <1>3, <1>4, <1>9, <2>1, <2>2
<1>10. UploadsArePending'
  <2>1. /\ db.frozen # Nil => db.frozen.items \in Batch(UploadRow)
        /\ pc = "freezing" => job.data.items \in Batch(UploadRow)
    BY DEF TypeOK, Database, Request, HoldsWhatItNeeds, Drafted
  <2>2. \A items \in Batch(UploadRow) :
            InBatch(items) \subseteq Item /\ \A i \in InBatch(items) : items[i].gen \in Nat
    BY DEF Batch, InBatch, UploadRow
  <2>3. UNCHANGED <<pc, job>>
    BY DEF Edit
  <2>4. UploadsArePending
    BY DEF EditsAgree
  <2> QED BY <1>1, <1>9, <2>1, <2>2, <2>3, <2>4 DEF UploadsArePending
<1>11. \A i \in Item : ItemAgrees(db', basis'[i], i)
  <2> SUFFICES ASSUME NEW i \in Item PROVE ItemAgrees(db', basis'[i], i)
    OBVIOUS
  <2>1. /\ db'.shadow[i] = db.shadow[i] /\ db'.conflicts[i] = db.conflicts[i]
        /\ ItemAgrees(db, basis[i], i)
    BY <1>1, <1>7
  <2>2. CASE i \in S
    BY <1>3, <1>5, <2>1, <2>2 DEF ItemAgrees
  <2>3. CASE i \notin S
    BY <1>4, <1>5, <2>1, <2>3 DEF ItemAgrees
  <2> QED BY <2>2, <2>3
<1>12. PendingIsLocal' /\ SyncedIsCloud' /\ EditsBuildOnCloud'
  BY <1>11 DEF PendingIsLocal, SyncedIsCloud, EditsBuildOnCloud, ItemAgrees, ValueOf, ShadowVal
<1>13. EditsAccounted
  BY <1>6 DEF EditsAccounted
<1> QED BY <1>8, <1>10, <1>12, <1>13 DEF EditsAgree

(* A confirmation clears the edits it sent and keeps the newer ones, which *)
(* now build on it.                                                        *)
LEMMA AckRequestEdits ==
    ASSUME TypeOK, HistoryAgrees, ConflictsAgree, EditsAgree, AckRequest
    PROVE  EditsAgree' /\ EditsAccounted
<1> DEFINE sent == db.frozen.items
           seq == job.data.seq
           b == [i \in Item |-> IF sent[i] # Nil THEN sent[i].val ELSE basis[i]]
<1>1. CASE ~AckAllowed(db, db.frozen.id, seq, job.data.epoch)
  BY <1>1, FailureEdits DEF AckRequest
<1>2. CASE AckAllowed(db, db.frozen.id, seq, job.data.epoch)
  <2>1. /\ db' = Ack(db, seq, job.data.epoch) /\ pc' = "changes" /\ pc = "ack"
        /\ KeepBasis(b) /\ db.frozen # Nil
    BY <1>2 DEF AckRequest, PullThen, AckAllowed
  <2>2. /\ db'.shadow = ShadowAfterAck(db) /\ db'.pending = PendingAfterAck(db)
        /\ db'.frozen = Nil /\ db'.cursor = seq
        /\ db'.conflicts = db.conflicts /\ db'.entities = db.entities
        /\ db'.initialized = db.initialized /\ db'.revision = db.revision
    BY <2>1, Zenon DEF Ack, TypeOK, Database
  <2>3. \A i \in Item :
            /\ db'.shadow[i] = IF sent[i] = Nil THEN db.shadow[i]
                               ELSE [rev |-> sent[i].base + 1, val |-> sent[i].val]
            /\ db'.pending[i] = IF /\ sent[i] # Nil /\ db.pending[i] # Nil
                                   /\ db.pending[i].rev <= sent[i].gen
                                THEN Nil ELSE db.pending[i]
            /\ basis'[i] = IF db'.pending[i] = Nil THEN Nil ELSE b[i]
    BY <2>1, <2>2 DEF ShadowAfterAck, PendingAfterAck, KeepBasis
  <2>4. \A i \in Item : sent[i] # Nil =>
            /\ db.conflicts[i] = Nil /\ db.pending[i] # Nil
            /\ db.pending[i].rev <= sent[i].gen => db.pending[i].val = sent[i].val
            /\ ValueOf([rev |-> sent[i].base + 1, val |-> sent[i].val]) = sent[i].val
    <3> SUFFICES ASSUME NEW i \in Item, sent[i] # Nil
                 PROVE  /\ db.conflicts[i] = Nil /\ db.pending[i] # Nil
                        /\ db.pending[i].rev <= sent[i].gen => db.pending[i].val = sent[i].val
                        /\ ValueOf([rev |-> sent[i].base + 1, val |-> sent[i].val]) = sent[i].val
      OBVIOUS
    <3>1. i \in InBatch(sent)
      BY DEF InBatch
    <3>2. db.conflicts[i] = Nil
      BY <2>1, <3>1 DEF ConflictsAgree, UploadsAvoidConflicts
    <3>3. CoversPending(sent)
      BY <2>1 DEF EditsAgree, UploadsArePending
    <3>4. sent[i].base + 1 \in Nat /\ sent[i].val \in Content
      <4>1. db.frozen.items \in Batch(UploadRow)
        BY <2>1 DEF TypeOK, Database, Request
      <4>2. sent[i] \in UploadRow
        BY <4>1 DEF Batch
      <4> QED BY <4>2 DEF UploadRow
    <3>5. ValueOf([rev |-> sent[i].base + 1, val |-> sent[i].val]) = sent[i].val
      <4> HIDE DEF sent
      <4> QED BY <3>4, RowIsSome DEF ValueOf
    <3> QED BY <3>1, <3>2, <3>3, <3>5 DEF CoversPending
  <2>5. \A i \in Item : ItemAgrees(db, basis[i], i)
    BY Itemwise DEF EditsAgree
  <2>6. \A i \in Item : b[i] = IF sent[i] # Nil THEN sent[i].val ELSE basis[i]
    OBVIOUS
  <2> HIDE DEF sent, b
  <2>7. \A i \in Item : ItemAgrees(db', basis'[i], i)
    <3> SUFFICES ASSUME NEW i \in Item PROVE ItemAgrees(db', basis'[i], i)
      OBVIOUS
    <3>1. CASE sent[i] = Nil
      BY <2>2, <2>3, <2>5, <2>6, <3>1 DEF ItemAgrees
    <3>2. CASE sent[i] # Nil
      <4>1. /\ db'.conflicts[i] = Nil /\ db'.entities[i] = db.entities[i]
            /\ ValueOf(db'.shadow[i]) = sent[i].val
            /\ db.entities[i] = db.pending[i].val /\ db.pending[i] # Nil
        BY <2>2, <2>3, <2>4, <2>5, <3>2 DEF ItemAgrees
      <4>2. CASE db.pending[i].rev <= sent[i].gen
        <5>1. db'.pending[i] = Nil /\ db.pending[i].val = sent[i].val
          BY <2>3, <2>4, <3>2, <4>1, <4>2
        <5> QED BY <4>1, <5>1 DEF ItemAgrees
      <4>3. CASE ~(db.pending[i].rev <= sent[i].gen)
        <5>1. db'.pending[i] = db.pending[i] /\ basis'[i] = sent[i].val
          BY <2>3, <2>6, <3>2, <4>1, <4>3
        <5> QED BY <4>1, <5>1 DEF ItemAgrees
      <4> QED BY <4>2, <4>3
    <3> QED BY <3>1, <3>2
  <2>8. PendingIsLocal' /\ SyncedIsCloud' /\ EditsBuildOnCloud'
    BY <2>7 DEF PendingIsLocal, SyncedIsCloud, EditsBuildOnCloud, ItemAgrees, ValueOf, ShadowVal
  <2>9. OutboxIsPast' /\ UploadsArePending'
    <3>1. UploadsArePending'
      BY <2>1, <2>2 DEF UploadsArePending
    <3>2. db.initialized /\ \A i \in Item : db.pending[i] # Nil => db.pending[i].rev <= db.revision
      BY DEF EditsAgree, OutboxIsPast
    <3>3. \A i \in Item : IF db'.pending[i] = Nil THEN basis'[i] = Nil
                          ELSE db'.pending[i] = db.pending[i]
      BY <2>3
    <3>4. OutboxIsPast'
      BY <2>2, <3>2, <3>3 DEF OutboxIsPast
    <3> QED BY <3>1, <3>4
  <2>10. EditsAccounted
    <3> SUFFICES ASSUME NEW i \in Item, db.pending[i] # Nil, db'.pending[i] = Nil
                 PROVE  \E k \in 1..db'.cursor : /\ cloud.log[k].rows[i] # Nil
                                                 /\ cloud.log[k].rows[i].val = db.pending[i].val
      BY DEF EditsAccounted
    <3>1. sent[i] # Nil /\ db.pending[i].val = sent[i].val
      BY <2>3, <2>4
    <3>2. seq \in Applied(cloud, db.frozen.id)
      BY <2>1 DEF HistoryAgrees, ConfirmedIsRecorded
    <3>3. cloud.log[seq].rows = UploadedRows(sent)
      BY <2>1, <3>2 DEF HistoryAgrees, RequestsAreRecorded, Sent, sent
    <3>4. cloud.log[seq].rows[i] = [rev |-> sent[i].base + 1, val |-> sent[i].val]
      BY <3>1, <3>3 DEF UploadedRows
    <3>5. cloud.log[seq].rows[i] # Nil /\ cloud.log[seq].rows[i].val = sent[i].val
      <4>1. cloud.log[seq].rows[i].val = sent[i].val
        BY <3>4
      <4>2. sent[i].base + 1 \in Nat /\ sent[i].val \in Content
        <5>1. sent \in Batch(UploadRow)
          BY <2>1 DEF TypeOK, Database, Request, sent
        <5>2. sent[i] \in UploadRow
          BY <3>1, <5>1 DEF Batch
        <5> QED BY <5>2 DEF UploadRow
      <4>3. cloud.log[seq].rows[i] # Nil
        BY <3>4, <4>2, RowIsSome
      <4> QED BY <4>1, <4>3
    <3>6. seq \in 1..seq
      <4>1. seq \in Nat /\ 1 <= seq
        BY <3>2 DEF Applied, TypeOK, Cloud, Seqno
      <4> HIDE DEF seq
      <4> QED BY <4>1
    <3> QED BY <2>2, <3>1, <3>5, <3>6
  <2> QED BY <2>8, <2>9, <2>10 DEF EditsAgree
<1> QED BY <1>1, <1>2

LEMMA ThawRequestEdits ==
    ASSUME TypeOK, EditsAgree, ThawRequest
    PROVE  EditsAgree' /\ EditsAccounted
<1>1. /\ db'.entities = db.entities /\ db'.pending = db.pending /\ db'.shadow = db.shadow
      /\ db'.conflicts = db.conflicts /\ db'.initialized = db.initialized
      /\ db'.revision = db.revision /\ db'.frozen = Nil
  BY Zenon DEF ThawRequest, Thaw, TypeOK, Database
<1>2. pc' # "freezing" /\ UNCHANGED basis
  BY DEF ThawRequest, PullThen
<1> QED BY <1>1, <1>2, QuietEdits

(* A draft covers what is pending now. *)
LEMMA ReadingEdits ==
    ASSUME TypeOK, EditsAgree, GetChanges \/ FinishPage \/ MakeDraft
    PROVE  EditsAgree' /\ EditsAccounted
<1>1. UNCHANGED <<db, basis>>
  BY DEF GetChanges, FinishPage, MakeDraft
<1>2. CASE pc' # "freezing"
  BY <1>1, <1>2, QuietEdits
<1>3. CASE pc' = "freezing"
  <2>1. job.then \in {"none", "drafting", "resolving", "again"}
    BY DEF TypeOK, Job
  <2>2. job' = [job EXCEPT !.data = Draft(db)]
    BY <1>3, <2>1 DEF GetChanges, FinishPage, MakeDraft, AfterPull
  <2> DEFINE items == [j \in Item |->
                IF j \in Uploadable(db)
                THEN [base |-> ShadowRev(db, j), gen |-> db.pending[j].rev,
                      val |-> db.pending[j].val]
                ELSE Nil]
  <2>3. job'.data.items = Draft(db).items /\ Draft(db).items = items
    BY <2>2, Zenon DEF TypeOK, Job, Draft
  <2>4. CoversPending(items)
    <3> SUFFICES ASSUME NEW i \in InBatch(items)
                 PROVE  /\ db.pending[i] # Nil
                        /\ items[i].gen <= db.revision
                        /\ db.pending[i].rev <= items[i].gen => db.pending[i].val = items[i].val
      BY DEF CoversPending
    <3>1. i \in Item /\ i \in Uploadable(db)
      BY DEF InBatch
    <3>2. db.pending[i] # Nil
      BY <3>1 DEF Uploadable, Edited
    <3>3. items[i].gen = db.pending[i].rev /\ items[i].val = db.pending[i].val
      BY <3>1
    <3>4. db.pending[i].rev <= db.revision
      BY <3>1, <3>2 DEF EditsAgree, OutboxIsPast
    <3> HIDE DEF items
    <3> QED BY <3>2, <3>3, <3>4
  <2> HIDE DEF items
  <2>5. UploadsArePending'
    BY <1>1, <2>3, <2>4 DEF EditsAgree, UploadsArePending, CoversPending
  <2>6. OutboxIsPast' /\ PendingIsLocal' /\ SyncedIsCloud' /\ EditsBuildOnCloud'
    BY <1>1 DEF EditsAgree, OutboxIsPast, PendingIsLocal, SyncedIsCloud, EditsBuildOnCloud,
       ShadowVal
  <2> QED BY <1>1, <2>5, <2>6 DEF EditsAgree, EditsAccounted
<1> QED BY <1>2, <1>3

LEMMA FreezeAndSendEdits ==
    ASSUME TypeOK, EditsAgree, FreezeAndSend
    PROVE  EditsAgree' /\ EditsAccounted
<1>1. CASE FreezeAllowed(db, job.data)
  <2>1. db' = Freeze(db, job.data, nextId) /\ pc' = "awaiting" /\ UNCHANGED basis
        /\ pc = "freezing"
    BY <1>1 DEF FreezeAndSend
  <2>2. /\ db'.entities = db.entities /\ db'.pending = db.pending /\ db'.shadow = db.shadow
        /\ db'.conflicts = db.conflicts /\ db'.initialized = db.initialized
        /\ db'.revision = db.revision
        /\ db'.frozen = [id |-> nextId, epoch |-> job.data.epoch,
                         expectedSeq |-> job.data.cursor, items |-> job.data.items]
    BY <2>1, Zenon DEF Freeze, TypeOK, Database
  <2>3. db'.frozen.items = job.data.items
    BY <2>2
  <2>4. UploadsArePending'
    BY <2>1, <2>2, <2>3 DEF EditsAgree, UploadsArePending, CoversPending
  <2>5. OutboxIsPast' /\ PendingIsLocal' /\ SyncedIsCloud' /\ EditsBuildOnCloud'
    BY <2>1, <2>2 DEF EditsAgree, OutboxIsPast, PendingIsLocal, SyncedIsCloud,
       EditsBuildOnCloud, ShadowVal
  <2> QED BY <2>2, <2>4, <2>5 DEF EditsAgree, EditsAccounted
<1>2. CASE ~FreezeAllowed(db, job.data)
  <2>1. \E code : Handle(code)
    BY <1>2 DEF FreezeAndSend
  <2> QED BY <2>1, FailureEdits DEF FreezeAndSend
<1> QED BY <1>1, <1>2

(* The other steps of the engine move nothing an edit depends on. *)
LEMMA OtherEdits ==
    ASSUME TypeOK, EditsAgree,
           StartCycle \/ Recover \/ AnswerArrives \/ TakeSnapshot \/ Hint \/ RetryElapses
    PROVE  EditsAgree' /\ EditsAccounted
<1>1. UNCHANGED basis
  BY DEF StartCycle, Recover, AnswerArrives, TakeSnapshot, Hint, RetryElapses
<1>2. CASE \E code : Handle(code)
  BY <1>1, <1>2, FailureEdits
<1>3. CASE ~\E code : Handle(code)
  <2>1. db' = db \/ db' = [db EXCEPT !.error = ""]
    BY <1>3 DEF StartCycle, Recover, AnswerArrives, TakeSnapshot, Hint, RetryElapses
  <2>2. pc' # "freezing" \/ (UNCHANGED pc /\ UNCHANGED job)
    BY <1>3 DEF StartCycle, Recover, AnswerArrives, TakeSnapshot, Hint, RetryElapses, Begin
  <2> QED BY <1>1, <2>1, <2>2, ToldEdits
<1> QED BY <1>2, <1>3

LEMMA UserEdits ==
    ASSUME TypeOK, EditsAgree, User
    PROVE  EditsAgree' /\ EditsAccounted
<1>1. ASSUME NEW S \in SUBSET Item, NEW new \in [S -> Content], Edit(S, new)
      PROVE  EditsAgree' /\ EditsAccounted
  BY <1>1, EditEdits
<1>2. ASSUME NEW on, SetEnabled(on) PROVE EditsAgree' /\ EditsAccounted
  BY <1>2, ToldEdits DEF SetEnabled
<1>3. ASSUME NEW batch, NEW S, NEW pick, Ask(batch, S, pick)
      PROVE  EditsAgree' /\ EditsAccounted
  BY <1>3, QuietEdits DEF Ask, Begin
<1>4. CASE SyncNow
  <2>1. db' = db \/ db' = [db EXCEPT !.error = ""]
    BY <1>4 DEF SyncNow
  <2>2. UNCHANGED basis /\ (pc' # "freezing" \/ (UNCHANGED pc /\ UNCHANGED job))
    BY <1>4 DEF SyncNow, Begin
  <2> QED BY <2>1, <2>2, ToldEdits
<1> QED BY <1>1, <1>2, <1>3, <1>4 DEF User

LEMMA EnvironmentEdits ==
    ASSUME TypeOK, EditsAgree, Environment
    PROVE  EditsAgree' /\ EditsAccounted
<1>1. ASSUME NEW code, RequestFails(code) PROVE EditsAgree' /\ EditsAccounted
  BY <1>1, FailureEdits DEF RequestFails
<1>2. ASSUME NEW p, CloudPush(p) PROVE EditsAgree' /\ EditsAccounted
  BY <1>2, QuietEdits DEF CloudPush
<1>3. ASSUME UNCHANGED deviceVars PROVE EditsAgree' /\ EditsAccounted
  BY <1>3, QuietEdits DEF deviceVars
<1>4. CASE Crash
  BY <1>4, QuietEdits DEF Crash
<1> QED BY <1>1, <1>2, <1>3, <1>4 DEF Environment, LosePush, PeerPush, ExpireLog

-----------------------------------------------------------------------------
(* The theorems about edits                                                *)

LEMMA EditsInit == Init => EditsAgree
<1> SUFFICES ASSUME Init PROVE EditsAgree
  OBVIOUS
<1>1. /\ pc = "idle" /\ db.frozen = Nil /\ db.initialized
      /\ db.pending = NoRows /\ db.conflicts = NoRows /\ db.shadow = NoRows
      /\ db.entities = EmptyTable /\ basis = EmptyTable
  BY DEF Init, InitDatabase
<1>2. \A i \in Item : /\ db.pending[i] = Nil /\ db.shadow[i] = Nil
                      /\ db.entities[i] = Nil /\ basis[i] = Nil
  BY <1>1 DEF NoRows, EmptyTable
<1> QED BY <1>1, <1>2 DEF EditsAgree, OutboxIsPast, UploadsArePending, PendingIsLocal,
           SyncedIsCloud, EditsBuildOnCloud, ShadowVal

LEMMA EditsNext ==
    ASSUME TypeOK, HistoryAgrees, ConflictsAgree, Undisturbed, EditsAgree, [Next]_vars
    PROVE  EditsAgree' /\ EditsAccounted
<1>1. CASE Engine
  BY <1>1, OtherEdits, AckRequestEdits, ThawRequestEdits, ReadingEdits, ApplyBatchEdits,
     RestoreSnapshotEdits, FreezeAndSendEdits, ResolveEdits DEF Engine
<1>2. CASE UNCHANGED vars
  BY <1>2, QuietEdits DEF vars
<1> QED BY <1>1, <1>2, UserEdits, EnvironmentEdits DEF Next

(***************************************************************************)
(* As long as the user edits no item whose row from the cloud waits for    *)
(* what it refers to, everything the device keeps of the user's work is in *)
(* order.  The premise is the one thing that breaks it: see lost_edit.     *)
(***************************************************************************)
THEOREM EditsAlwaysAgree == Spec /\ []Undisturbed => []EditsAgree
<1>1. Init => TypeOK /\ HistoryAgrees /\ ConflictsAgree /\ EditsAgree
  BY TypeInit, HistoryInit, ConflictsInit, EditsInit
<1>2. TypeOK /\ HistoryAgrees /\ ConflictsAgree /\ Undisturbed /\ EditsAgree /\ [Next]_vars
        => EditsAgree'
  BY EditsNext
<1> QED BY <1>1, <1>2, TypeCorrect, HistoryAlwaysAgrees, ConflictsAlwaysAgree, PTL DEF Spec

(***************************************************************************)
(* Then remote rows, snapshots and confirmations never overwrite an edit   *)
(* that waits in the outbox.                                               *)
(***************************************************************************)
THEOREM EditsStayVisible == Spec /\ []Undisturbed => []PendingIsLocal
<1>1. EditsAgree => PendingIsLocal
  BY DEF EditsAgree
<1> QED BY <1>1, EditsAlwaysAgree, PTL

(***************************************************************************)
(* Then an item with neither an edit nor a conflict shows what the device  *)
(* last saw of the cloud.                                                  *)
(***************************************************************************)
THEOREM SyncedShowsCloud == Spec /\ []Undisturbed => []SyncedIsCloud
<1>1. EditsAgree => SyncedIsCloud
  BY DEF EditsAgree
<1> QED BY <1>1, EditsAlwaysAgree, PTL

(***************************************************************************)
(* Then an edit that may be uploaded was made on the content the device    *)
(* knows the cloud to hold, however often the cloud moved since.           *)
(***************************************************************************)
THEOREM EditsAlwaysBuildOnCloud == Spec /\ []Undisturbed => []EditsBuildOnCloud
<1>1. EditsAgree => EditsBuildOnCloud
  BY DEF EditsAgree
<1> QED BY <1>1, EditsAlwaysAgree, PTL

(***************************************************************************)
(* Then no edit leaves the outbox unless its content was in the cloud or   *)
(* the user settled a conflict over it.                                    *)
(***************************************************************************)
THEOREM EditsNeverDropped == Spec /\ []Undisturbed => NoEditDropped
<1>1. TypeOK /\ HistoryAgrees /\ ConflictsAgree /\ Undisturbed /\ EditsAgree /\ [Next]_vars
        => EditsAccounted
  BY EditsNext
<1>2. EditsAccounted =>
        \A i \in Item :
          (db.pending[i] # Nil /\ db'.pending[i] = Nil)
             => \/ pc = "resolving" /\ i \in job.ask.S
                \/ \E k \in 1..db'.cursor :
                      /\ cloud.log[k].rows[i] # Nil
                      /\ cloud.log[k].rows[i].val = db.pending[i].val
  BY DEF EditsAccounted
<1> QED BY <1>1, <1>2, EditsAlwaysAgree, TypeCorrect, HistoryAlwaysAgrees,
           ConflictsAlwaysAgree, PTL DEF Spec, NoEditDropped

-----------------------------------------------------------------------------
(* Items that refer to nothing                                             *)

NoReferences == \A v \in Value : Refs[v] = {}

(* No conflict of the database d waits for what its row refers to. *)
NoneWaits(d) ==
    \A i \in Item : d.conflicts[i] # Nil => d.conflicts[i].reason # "dependency"

LEMMA AnyGraphValid ==
    ASSUME NoReferences, NEW e \in Table
    PROVE  GraphValid(e)
<1>1. \A i \in Item : Uses(e, i) = {}
  BY DEF NoReferences, Table, Content, Uses
<1>2. \A S \in SUBSET Present(e) : S # {} => \E i \in S : Uses(e, i) \cap S = {}
  BY <1>1 DEF Present
<1> QED BY <1>1, <1>2 DEF GraphValid

(* What refers to nothing is accepted at once. *)
LEMMA AppliedNoneWaits ==
    ASSUME NoReferences, NEW d \in Database, NEW rows \in Batch(Row),
           NEW snapshot \in BOOLEAN, NEW A, NEW cursor, NEW epoch,
           Accepts(d, rows, snapshot, A), NoneWaits(d)
    PROVE  NoneWaits(ApplyValues(d, rows, cursor, epoch, snapshot, A))
<1> DEFINE C == Candidates(d, rows, snapshot)
           e == ApplyValues(d, rows, cursor, epoch, snapshot, A)
<1>1. A = C
  <2>1. Put(d.entities, C, CandidateTable(d, rows, snapshot)) \in Table
    <3>1. \A i \in C : CandidateTable(d, rows, snapshot)[i] \in Content
      BY CandidateRowType
    <3> QED BY <3>1, PutType DEF Database
  <2>2. GraphValid(Put(d.entities, C, CandidateTable(d, rows, snapshot)))
    BY <2>1, AnyGraphValid
  <2> QED BY <2>2 DEF Accepts
<1>2. e.conflicts = ConflictsAfter(d, rows, snapshot, A)
  BY Zenon DEF ApplyValues, Database
<1> HIDE DEF e, C
<1>3. ASSUME NEW i \in Item, e.conflicts[i] # Nil
      PROVE  e.conflicts[i].reason # "dependency"
  <2>1. e.conflicts[i] = IF i \in A \cup Caught(d, rows, snapshot) THEN Nil
                         ELSE IF i \in Clashing(d, rows, snapshot)
                              THEN [remote |-> Incoming(d, rows, snapshot)[i],
                                    reason |-> "concurrent_edit"]
                         ELSE d.conflicts[i]
    BY <1>1, <1>2 DEF ConflictsAfter, C
  <2>2. CASE i \in Clashing(d, rows, snapshot)
    BY <1>3, <2>1, <2>2
  <2>3. CASE i \notin Clashing(d, rows, snapshot)
    BY <1>3, <2>1, <2>3 DEF NoneWaits
  <2> QED BY <2>2, <2>3
<1> QED BY <1>3 DEF NoneWaits, e

LEMMA NoneWaitsNext ==
    ASSUME NoReferences, TypeOK, NoneWaits(db), [Next]_vars
    PROVE  NoneWaits(db')
<1>1. ASSUME db'.conflicts = db.conflicts PROVE NoneWaits(db')
  BY <1>1 DEF NoneWaits
<1>2. ASSUME NEW code, db' = [db EXCEPT !.error = code] PROVE NoneWaits(db')
  <2>1. [db EXCEPT !.error = code].conflicts = db.conflicts
    BY Zenon DEF TypeOK, Database
  <2> QED BY <1>1, <1>2, <2>1
<1>3. ASSUME UNCHANGED db \/ \E code : Handle(code) PROVE NoneWaits(db')
  BY <1>1, <1>2, <1>3 DEF Handle
<1>4. CASE User
  <2>1. ASSUME NEW S, NEW new, Edit(S, new) PROVE NoneWaits(db')
    <3>1. db'.conflicts = db.conflicts
      BY <2>1, Zenon DEF Edit, Commit, TypeOK, Database
    <3> QED BY <1>1, <3>1
  <2> QED BY <1>2, <1>3, <1>4, <2>1 DEF User, SetEnabled, Ask, SyncNow
<1>5. CASE Environment
  BY <1>3, <1>5 DEF Environment, RequestFails, CloudPush, LosePush, PeerPush, ExpireLog, Crash,
     deviceVars
<1>6. CASE Engine
  <2>1. CASE ~(AckRequest \/ ThawRequest \/ ApplyBatch \/ RestoreSnapshot \/ FreezeAndSend
                 \/ Resolve)
    <3>1. UNCHANGED db \/ (\E code : Handle(code)) \/ db' = [db EXCEPT !.error = ""]
      BY <1>6, <2>1 DEF Engine, StartCycle, Recover, AnswerArrives, GetChanges, FinishPage,
         TakeSnapshot, MakeDraft, Hint, RetryElapses
    <3> QED BY <1>2, <1>3, <3>1
  <2>2. CASE AckRequest
    <3>1. CASE db' = Ack(db, job.data.seq, job.data.epoch)
      <4>1. db'.conflicts = db.conflicts
        BY <3>1, Zenon DEF Ack, TypeOK, Database
      <4> QED BY <1>1, <4>1
    <3> QED BY <1>3, <2>2, <3>1 DEF AckRequest
  <2>3. CASE ThawRequest
    <3>1. db'.conflicts = db.conflicts
      BY <2>3, Zenon DEF ThawRequest, Thaw, TypeOK, Database
    <3> QED BY <1>1, <3>1
  <2>4. CASE FreezeAndSend
    <3>1. CASE db' = Freeze(db, job.data, nextId)
      <4>1. db'.conflicts = db.conflicts
        BY <3>1, Zenon DEF Freeze, TypeOK, Database
      <4> QED BY <1>1, <4>1
    <3> QED BY <1>3, <2>4, <3>1 DEF FreezeAndSend
  <2>5. CASE ApplyBatch
    <3> DEFINE next == db.cursor + 1
               batch == cloud.log[next]
    <3>1. ASSUME NEW A \in SUBSET Item, Accepts(db, batch.rows, FALSE, A),
                 db' = ApplyValues(db, batch.rows, next, batch.epoch, FALSE, A)
          PROVE  NoneWaits(db')
      <4>1. next \in 1..Seqno(cloud)
        <5>1. Seqno(cloud) \in Nat /\ db.cursor \in Nat /\ job.page \in Nat /\ job.until \in Nat
          BY DEF TypeOK, Cloud, Seqno, Database, Job
        <5> QED BY <2>5, <5>1 DEF ApplyBatch, TypeOK, HoldsWhatItNeeds, PageIsLogged
      <4>2. batch.rows \in Batch(Row) /\ db \in Database /\ FALSE \in BOOLEAN
        BY <4>1, LogRowType DEF TypeOK
      <4> HIDE DEF next, batch
      <4> QED BY <3>1, <4>2, AppliedNoneWaits
    <3> QED BY <1>3, <2>5, <3>1 DEF ApplyBatch
  <2>6. CASE RestoreSnapshot
    <3>1. job.data.rows \in Batch(Row) /\ db \in Database /\ TRUE \in BOOLEAN
      BY <2>6 DEF RestoreSnapshot, TypeOK, HoldsWhatItNeeds, Snapshot
    <3>2. PICK A \in SUBSET Item :
              /\ Accepts(db, job.data.rows, TRUE, A)
              /\ db' = ApplyValues(db, job.data.rows, job.data.seq, job.data.epoch, TRUE, A)
      BY <2>6 DEF RestoreSnapshot
    <3> QED BY <3>1, <3>2, AppliedNoneWaits
  <2>7. CASE Resolve
    <3>1. ASSUME Refusal = "", NEW d \in Settlements, NEW A \in SUBSET Item,
                 Accepts(d, NoRows, FALSE, A),
                 db' = ApplyValues(d, NoRows, d.cursor, d.epoch, FALSE, A)
          PROVE  NoneWaits(db')
      <4>1. /\ d \in Database
            /\ \A i \in Item : d.conflicts[i] # Nil => d.conflicts[i] = db.conflicts[i]
        BY <2>7, <3>1, SettlementConflicts
      <4>2. NoneWaits(d) /\ NoRows \in Batch(Row) /\ FALSE \in BOOLEAN
        BY <4>1 DEF NoneWaits, NoRows, Batch
      <4> QED BY <3>1, <4>1, <4>2, AppliedNoneWaits
    <3> QED BY <1>3, <2>7, <3>1 DEF Resolve
  <2> QED BY <2>1, <2>2, <2>3, <2>4, <2>5, <2>6, <2>7
<1> QED BY <1>3, <1>4, <1>5, <1>6 DEF Next, vars

(***************************************************************************)
(* Items that refer to nothing never wait, so for them the premise holds   *)
(* and the user's work is in order whatever happens: snippets, say, or a   *)
(* workspace without groups, credentials and jump servers.                 *)
(***************************************************************************)
THEOREM ItemsAloneKeepEdits ==
    ASSUME NoReferences
    PROVE  Spec => [](PendingIsLocal /\ SyncedIsCloud /\ EditsBuildOnCloud) /\ NoEditDropped
<1>1. Init => NoneWaits(db)
  <2>1. Init => db.conflicts = NoRows
    BY DEF Init, InitDatabase
  <2>2. \A i \in Item : NoRows[i] = Nil
    BY DEF NoRows
  <2> QED BY <2>1, <2>2 DEF NoneWaits
<1>2. TypeOK /\ NoneWaits(db) /\ [Next]_vars => NoneWaits(db)'
  BY NoneWaitsNext
<1>3. NoneWaits(db) => Undisturbed
  BY DEF NoneWaits, Undisturbed
<1>4. Spec => []Undisturbed
  BY <1>1, <1>2, <1>3, TypeCorrect, PTL DEF Spec
<1> QED BY <1>4, EditsStayVisible, SyncedShowsCloud, EditsAlwaysBuildOnCloud,
           EditsNeverDropped, PTL

=============================================================================
