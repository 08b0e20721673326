------------------------- MODULE SyncRequestProofs -------------------------
(***************************************************************************)
(* Requests and key generations: each request belongs to one place of the  *)
(* cloud's log, one given up is applied or refused for good, and the       *)
(* engine's own consistency checks never fail.  The invariant is           *)
(* RequestsAgree; it rests on HistoryAgrees and on the types.              *)
(***************************************************************************)
EXTENDS SyncShadowProofs

-----------------------------------------------------------------------------
(* Generations along the log                                               *)

LEMMA EpochType ==
    ASSUME NEW c \in Cloud, NEW s \in 0..Seqno(c)
    PROVE  EpochAt(c, s) \in Nat
<1>1. c.log \in Seq(LogEntry) /\ Seqno(c) = Len(c.log)
  BY DEF Cloud, LogEntry, Seqno
<1>2. CASE s = 0
  BY <1>2 DEF EpochAt
<1>3. CASE s # 0
  <2>1. c.log[s] \in LogEntry
    BY <1>1, <1>3
  <2> QED BY <1>3, <2>1 DEF EpochAt, LogEntry
<1> QED BY <1>2, <1>3

(* What the log recorded keeps its generation. *)
LEMMA EpochStable ==
    ASSUME NEW c, NEW e, Extends(c, e), NEW s \in 0..Seqno(c)
    PROVE  EpochAt(e, s) = EpochAt(c, s)
BY DEF Extends, EpochAt

(* A refusal is final: generations and the log only grow. *)
LEMMA RefusedStays ==
    ASSUME NEW c \in Cloud, NEW e \in Cloud, Extends(c, e), EpochsGrow(c), EpochsGrow(e),
           Seqno(e) = Seqno(c) => e.items = c.items,
           NEW p \in Request, p.expectedSeq <= Seqno(c), RefusedForGood(c, p)
    PROVE  RefusedForGood(e, p)
<1>1. Seqno(c) \in Nat /\ Seqno(e) \in Nat /\ Seqno(c) <= Seqno(e)
  BY DEF Extends
<1>2. p.epoch \in Nat /\ p.expectedSeq \in Nat
  BY DEF Request
<1>3. c.epoch \in Nat /\ e.epoch \in Nat
  BY DEF Cloud
<1>4. CASE p.epoch < c.epoch
  <2>1. c.epoch = EpochAt(e, Seqno(c)) /\ e.epoch = EpochAt(e, Seqno(e))
    BY <1>1, EpochStable DEF EpochsGrow
  <2>2. EpochAt(e, Seqno(c)) <= EpochAt(e, Seqno(e))
    BY <1>1 DEF EpochsGrow
  <2> QED BY <1>2, <1>3, <1>4, <2>1, <2>2 DEF RefusedForGood
<1>5. CASE p.expectedSeq < Seqno(c)
  BY <1>1, <1>2, <1>5 DEF RefusedForGood
<1>6. CASE \E i \in Item : p.items[i] # Nil /\ p.items[i].base # CloudRev(c, i)
  <2>1. CASE Seqno(e) = Seqno(c)
    BY <1>6, <2>1 DEF RefusedForGood, CloudRev
  <2>2. CASE Seqno(e) # Seqno(c)
    <3>1. p.expectedSeq < Seqno(e)
      BY <1>1, <1>2, <2>2
    <3> QED BY <3>1 DEF RefusedForGood
  <2> QED BY <2>1, <2>2
<1> QED BY <1>4, <1>5, <1>6 DEF RefusedForGood

(* The cloud refuses nothing but for good. *)
LEMMA RefusedNow ==
    ASSUME NEW c \in Cloud, EpochsGrow(c), NEW p \in Request,
           p.expectedSeq <= Seqno(c), p.epoch = EpochAt(c, p.expectedSeq)
    PROVE  PushOutcome(c, p) # "OK" => RefusedForGood(c, p)
<1> SUFFICES ASSUME PushOutcome(c, p) # "OK" PROVE RefusedForGood(c, p)
  OBVIOUS
<1>1. p.expectedSeq \in Nat /\ Seqno(c) \in Nat /\ p.expectedSeq \in 0..Seqno(c)
  BY DEF Request, Cloud, Seqno
<1>2. p.epoch <= c.epoch
  BY <1>1 DEF EpochsGrow
<1>3. p.epoch \in Nat /\ c.epoch \in Nat
  BY DEF Request, Cloud
<1>4. \/ p.epoch # c.epoch \/ p.expectedSeq # Seqno(c)
      \/ \E i \in Item : p.items[i] # Nil /\ p.items[i].base # CloudRev(c, i)
  BY DEF PushOutcome
<1> QED BY <1>1, <1>2, <1>3, <1>4 DEF RefusedForGood

-----------------------------------------------------------------------------
(* Steps of the device                                                     *)

(* A step that moves neither the cursor nor the request. *)
LEMMA QuietRequests ==
    ASSUME RequestsAgree, cloud' = cloud, db'.cursor = db.cursor, db'.epoch = db.epoch,
           db'.frozen = db.frozen, wire' \subseteq Sent,
           HeldIsOfItsEpoch', RefusalIsFinal'
    PROVE  RequestsAgree'
<1>1. Sent' \subseteq Sent
  BY DEF Sent
<1>2. RequestsKeepTheirPlace'
  BY <1>1 DEF RequestsAgree, RequestsKeepTheirPlace
<1>3. AbandonedAreSettled'
  <2>1. ASSUME NEW p \in wire', p # db'.frozen PROVE p \in wire /\ p # db.frozen
    BY <2>1 DEF Sent
  <2> QED BY <2>1 DEF RequestsAgree, AbandonedAreSettled
<1>4. EpochsGrow(cloud') /\ EpochIsCloudAtCursor'
  BY DEF RequestsAgree, EpochIsCloudAtCursor
<1> QED BY <1>2, <1>3, <1>4 DEF RequestsAgree

(* A quiet step that leaves nothing of the cloud in memory. *)
LEMMA ForgetfulRequests ==
    ASSUME RequestsAgree, cloud' = cloud, db'.cursor = db.cursor, db'.epoch = db.epoch,
           db'.frozen = db.frozen, wire' \subseteq Sent,
           pc' \notin {"ack", "awaiting", "thaw", "restoring", "freezing"}
    PROVE  RequestsAgree'
<1>1. HeldIsOfItsEpoch' /\ RefusalIsFinal'
  BY DEF HeldIsOfItsEpoch, RefusalIsFinal
<1> QED BY <1>1, QuietRequests

(* A step that moves the cursor along the log, or drops a settled request. *)
LEMMA MovingRequests ==
    ASSUME RequestsAgree, cloud' = cloud, wire' = wire, db'.frozen = Nil,
           db'.cursor <= Seqno(cloud), db'.epoch = EpochAt(cloud, db'.cursor),
           db.frozen # Nil => \/ Applied(cloud, db.frozen.id) # {}
                              \/ RefusedForGood(cloud, db.frozen),
           pc' \notin {"ack", "awaiting", "thaw", "restoring", "freezing"}
    PROVE  RequestsAgree'
<1>1. HeldIsOfItsEpoch' /\ RefusalIsFinal'
  BY DEF HeldIsOfItsEpoch, RefusalIsFinal
<1>2. Sent' \subseteq Sent
  BY DEF Sent
<1>3. RequestsKeepTheirPlace'
  BY <1>2 DEF RequestsAgree, RequestsKeepTheirPlace
<1>4. AbandonedAreSettled'
  <2>1. ASSUME NEW p \in wire'
        PROVE  Applied(cloud, p.id) # {} \/ RefusedForGood(cloud, p) \/ p = Nil
    <3>1. p \in wire
      OBVIOUS
    <3>2. CASE p # db.frozen
      BY <3>1, <3>2 DEF RequestsAgree, AbandonedAreSettled
    <3>3. CASE p = db.frozen
      BY <3>3
    <3> QED BY <3>2, <3>3
  <2> QED BY <2>1 DEF AbandonedAreSettled
<1>5. EpochsGrow(cloud') /\ EpochIsCloudAtCursor'
  BY DEF RequestsAgree, EpochIsCloudAtCursor, EpochAt
<1> QED BY <1>1, <1>3, <1>4, <1>5 DEF RequestsAgree

(* The error is all a failure, or a fresh start, leaves in the database. *)
LEMMA ErrorOnly ==
    ASSUME TypeOK, NEW code, db' = db \/ db' = [db EXCEPT !.error = code]
    PROVE  /\ db'.cursor = db.cursor /\ db'.epoch = db.epoch /\ db'.frozen = db.frozen
           /\ db'.conflicts = db.conflicts /\ db'.shadow = db.shadow
<1>1. /\ [db EXCEPT !.error = code].cursor = db.cursor
      /\ [db EXCEPT !.error = code].epoch = db.epoch
      /\ [db EXCEPT !.error = code].frozen = db.frozen
      /\ [db EXCEPT !.error = code].conflicts = db.conflicts
      /\ [db EXCEPT !.error = code].shadow = db.shadow
  BY Zenon DEF TypeOK, Database
<1> QED BY <1>1

LEMMA FailureRequests ==
    ASSUME TypeOK, RequestsAgree, NEW code, Handle(code), UNCHANGED <<wire, cloud>>
    PROVE  RequestsAgree'
<1>1. db'.cursor = db.cursor /\ db'.epoch = db.epoch /\ db'.frozen = db.frozen
  <2>1. db' = db \/ db' = [db EXCEPT !.error = code]
    BY DEF Handle
  <2> QED BY <2>1, ErrorOnly
<1> QED BY <1>1, ForgetfulRequests DEF Handle, Sent

(* Nothing happens that the requests, the log or the cursor depend on. *)
LEMMA IdleRequests ==
    ASSUME RequestsAgree, db'.cursor = db.cursor, db'.epoch = db.epoch,
           db'.frozen = db.frozen, UNCHANGED <<pc, job, cloud>>, wire' \subseteq wire
    PROVE  RequestsAgree'
<1>1. HeldIsOfItsEpoch' /\ RefusalIsFinal'
  <2>1. HeldIsOfItsEpoch /\ RefusalIsFinal
    BY DEF RequestsAgree
  <2> QED BY <2>1 DEF HeldIsOfItsEpoch, RefusalIsFinal
<1> QED BY <1>1, QuietRequests DEF Sent

LEMMA UserRequests ==
    ASSUME TypeOK, RequestsAgree, User
    PROVE  RequestsAgree'
<1>1. ASSUME NEW S, NEW new, Edit(S, new) PROVE RequestsAgree'
  <2>1. db'.cursor = db.cursor /\ db'.epoch = db.epoch /\ db'.frozen = db.frozen
    BY <1>1, Zenon DEF Edit, Commit, TypeOK, Database
  <2> QED BY <1>1, <2>1, IdleRequests DEF Edit
<1>2. ASSUME NEW on, SetEnabled(on) PROVE RequestsAgree'
  <2>1. db' = [db EXCEPT !.error = ""]
    BY <1>2 DEF SetEnabled
  <2>2. db'.cursor = db.cursor /\ db'.epoch = db.epoch /\ db'.frozen = db.frozen
    BY <2>1, ErrorOnly
  <2> QED BY <1>2, <2>2, IdleRequests DEF SetEnabled
<1>3. ASSUME NEW batch, NEW S, NEW pick, Ask(batch, S, pick) PROVE RequestsAgree'
  BY <1>3, ForgetfulRequests DEF Ask, Begin, Sent
<1>4. CASE SyncNow
  <2>1. CASE enabled /\ db.initialized
    <3>1. db' = [db EXCEPT !.error = ""]
      BY <1>4, <2>1 DEF SyncNow
    <3>2. db'.cursor = db.cursor /\ db'.epoch = db.epoch /\ db'.frozen = db.frozen
      BY <3>1, ErrorOnly
    <3> QED BY <1>4, <2>1, <3>2, ForgetfulRequests DEF SyncNow, Begin, Sent
  <2>2. CASE ~(enabled /\ db.initialized)
    BY <1>4, <2>2, IdleRequests DEF SyncNow
  <2> QED BY <2>1, <2>2
<1> QED BY <1>1, <1>2, <1>3, <1>4 DEF User

LEMMA StartCycleRequests ==
    ASSUME TypeOK, RequestsAgree, StartCycle
    PROVE  RequestsAgree'
<1>1. CASE enabled /\ db.initialized
  <2>1. db' = [db EXCEPT !.error = ""]
    BY <1>1 DEF StartCycle
  <2>2. db'.cursor = db.cursor /\ db'.epoch = db.epoch /\ db'.frozen = db.frozen
    BY <2>1, ErrorOnly
  <2> QED BY <1>1, <2>2, ForgetfulRequests DEF StartCycle, Begin, Sent
<1>2. CASE ~(enabled /\ db.initialized)
  BY <1>2, IdleRequests DEF StartCycle
<1> QED BY <1>1, <1>2

(* An outcome on record is told with its generation. *)
LEMMA AnswerEpoch ==
    ASSUME NEW c, NEW id, Applied(c, id) # {}
    PROVE  /\ BatchAnswer(c, id).seq \in Applied(c, id) /\ BatchAnswer(c, id).code = "OK"
           /\ BatchAnswer(c, id).epoch = EpochAt(c, BatchAnswer(c, id).seq)
<1> DEFINE k == CHOOSE n \in Applied(c, id) : TRUE
<1>1. k \in Applied(c, id)
  OBVIOUS
<1> HIDE DEF k
<1>2. k # 0
  BY <1>1 DEF Applied
<1>3. BatchAnswer(c, id) = [code |-> "OK", seq |-> k, epoch |-> c.log[k].epoch]
  BY DEF BatchAnswer, k
<1> QED BY <1>1, <1>2, <1>3 DEF EpochAt

LEMMA RecoverRequests ==
    ASSUME TypeOK, RequestsAgree, Recover
    PROVE  RequestsAgree'
<1>1. CASE Applied(cloud, db.frozen.id) # {}
  <2>1. job'.data = BatchAnswer(cloud, db.frozen.id)
    BY <1>1, Zenon DEF Recover, TypeOK, Job
  <2>2. HeldIsOfItsEpoch' /\ RefusalIsFinal'
    BY <1>1, <2>1, AnswerEpoch DEF Recover, HeldIsOfItsEpoch, RefusalIsFinal
  <2> QED BY <1>1, <2>2, QuietRequests DEF Recover, Sent
<1>2. CASE Applied(cloud, db.frozen.id) = {}
  <2>1. job'.data = Nil
    BY <1>2 DEF Recover, TypeOK, HoldsWhatItNeeds
  <2>2. HeldIsOfItsEpoch' /\ RefusalIsFinal'
    BY <1>2, <2>1 DEF Recover, HeldIsOfItsEpoch, RefusalIsFinal
  <2>3. db.frozen # Nil
    BY DEF Recover, TypeOK, HoldsWhatItNeeds
  <2> QED BY <1>2, <2>2, <2>3, QuietRequests DEF Recover, Sent
<1> QED BY <1>1, <1>2

LEMMA AnswerArrivesRequests ==
    ASSUME TypeOK, RequestsAgree, AnswerArrives
    PROVE  RequestsAgree'
<1>1. CASE pc' \in {"ack", "thaw"} /\ UNCHANGED <<db, job>>
  <2>1. HeldIsOfItsEpoch' /\ RefusalIsFinal'
    BY <1>1 DEF AnswerArrives, RequestsAgree, HeldIsOfItsEpoch, RefusalIsFinal, Handle
  <2> QED BY <1>1, <2>1, QuietRequests DEF AnswerArrives, Sent
<1>2. CASE Handle(job.data.code)
  BY <1>2, FailureRequests DEF AnswerArrives
<1> QED BY <1>1, <1>2 DEF AnswerArrives

(* A request confirmed is the next batch, of the device's generation. *)
LEMMA AckIsAllowed ==
    ASSUME TypeOK, HistoryAgrees, RequestsAgree, pc = "ack"
    PROVE  /\ AckAllowed(db, db.frozen.id, job.data.seq, job.data.epoch)
           /\ job.data.seq \in Applied(cloud, db.frozen.id)
           /\ job.data.seq <= Seqno(cloud) /\ job.data.epoch = EpochAt(cloud, job.data.seq)
<1>1. db.frozen # Nil /\ db.frozen \in Sent
  BY DEF TypeOK, HoldsWhatItNeeds, Sent
<1>2. job.data.seq \in Applied(cloud, db.frozen.id)
  BY DEF HistoryAgrees, ConfirmedIsRecorded
<1>3. job.data.seq = db.frozen.expectedSeq + 1 /\ EpochAt(cloud, job.data.seq) = db.frozen.epoch
  BY <1>1, <1>2 DEF RequestsAgree, RequestsKeepTheirPlace
<1>4. job.data.epoch = EpochAt(cloud, job.data.seq)
  BY DEF RequestsAgree, HeldIsOfItsEpoch
<1>5. job.data.seq <= Seqno(cloud)
  BY <1>2 DEF Applied, Seqno
<1> QED BY <1>1, <1>2, <1>3, <1>4, <1>5 DEF AckAllowed

LEMMA AckRequestRequests ==
    ASSUME TypeOK, HistoryAgrees, RequestsAgree, AckRequest
    PROVE  RequestsAgree'
<1>1. /\ AckAllowed(db, db.frozen.id, job.data.seq, job.data.epoch)
      /\ job.data.seq \in Applied(cloud, db.frozen.id)
      /\ job.data.seq <= Seqno(cloud) /\ job.data.epoch = EpochAt(cloud, job.data.seq)
  BY AckIsAllowed DEF AckRequest
<1>2. db' = Ack(db, job.data.seq, job.data.epoch) /\ pc' = "changes"
  BY <1>1 DEF AckRequest, PullThen
<1>3. db'.frozen = Nil /\ db'.cursor = job.data.seq /\ db'.epoch = job.data.epoch
  BY <1>2, Zenon DEF Ack, TypeOK, Database
<1> QED BY <1>1, <1>2, <1>3, MovingRequests DEF AckRequest

LEMMA ThawRequestRequests ==
    ASSUME TypeOK, RequestsAgree, ThawRequest
    PROVE  RequestsAgree'
<1>1. db'.frozen = Nil /\ db'.cursor = db.cursor /\ db'.epoch = db.epoch
  BY Zenon DEF ThawRequest, Thaw, TypeOK, Database
<1>2. RefusedForGood(cloud, db.frozen)
  BY DEF ThawRequest, RequestsAgree, RefusalIsFinal
<1>3. db.cursor <= Seqno(cloud) /\ db.epoch = EpochAt(cloud, db.cursor)
  BY DEF RequestsAgree, EpochIsCloudAtCursor, EpochAt
<1> QED BY <1>1, <1>2, <1>3, MovingRequests DEF ThawRequest, PullThen

LEMMA ReadingRequests ==
    ASSUME TypeOK, RequestsAgree, GetChanges \/ FinishPage \/ MakeDraft
    PROVE  RequestsAgree'
<1>1. UNCHANGED <<db, wire, cloud>>
  BY DEF GetChanges, FinishPage, MakeDraft
<1>2. CASE pc' \notin {"ack", "awaiting", "thaw", "restoring", "freezing"}
  BY <1>1, <1>2, ForgetfulRequests DEF Sent
<1>3. CASE pc' \in {"ack", "awaiting", "thaw", "restoring", "freezing"}
  <2>1. job.then \in {"none", "drafting", "resolving", "again"}
    BY DEF TypeOK, Job
  <2>2. pc' = "freezing" /\ job' = [job EXCEPT !.data = Draft(db)]
    BY <1>3, <2>1 DEF GetChanges, FinishPage, MakeDraft, AfterPull
  <2>3. job'.data = Draft(db)
    BY <2>2, Zenon DEF TypeOK, Job
  <2>4. job'.data.cursor = db.cursor /\ job'.data.epoch = db.epoch
    BY <2>3 DEF Draft
  <2>5. HeldIsOfItsEpoch' /\ RefusalIsFinal'
    BY <1>1, <2>2, <2>4 DEF HeldIsOfItsEpoch, RefusalIsFinal
  <2> QED BY <1>1, <2>5, QuietRequests DEF Sent
<1> QED BY <1>2, <1>3

(* A batch next to the cursor is of a generation the device goes on to. *)
LEMMA ApplyBatchRequests ==
    ASSUME TypeOK, HistoryAgrees, RequestsAgree, ApplyBatch
    PROVE  RequestsAgree'
<1> DEFINE next == db.cursor + 1
           batch == cloud.log[next]
<1>1. next \in 1..Seqno(cloud)
  <2>1. Seqno(cloud) \in Nat /\ db.cursor \in Nat /\ job.page \in Nat /\ job.until \in Nat
    BY DEF TypeOK, Cloud, Seqno, Database, Job
  <2> QED BY <2>1 DEF ApplyBatch, TypeOK, HoldsWhatItNeeds, PageIsLogged
<1>2. db.frozen = Nil
  BY NoneFrozen DEF ApplyBatch
<1>3. CASE pc' = "snapshot" /\ UNCHANGED <<db, job>>
  BY <1>3, ForgetfulRequests DEF ApplyBatch, Sent
<1>4. CASE Handle("SYNC_PROTOCOL")
  BY <1>4, FailureRequests DEF ApplyBatch
<1>5. ASSUME NEW A, db' = ApplyValues(db, batch.rows, next, batch.epoch, FALSE, A),
             UNCHANGED <<pc, job>>
      PROVE  RequestsAgree'
  <2>1. db'.cursor = next /\ db'.epoch = batch.epoch /\ db'.frozen = Nil
    BY <1>2, <1>5, Zenon DEF ApplyValues, Database, TypeOK
  <2>2. batch.epoch = EpochAt(cloud, next) /\ next <= Seqno(cloud)
    BY <1>1 DEF EpochAt
  <2>3. UNCHANGED <<wire, cloud>> /\ pc = "applying"
    BY DEF ApplyBatch
  <2> HIDE DEF next, batch
  <2> QED BY <1>2, <1>5, <2>1, <2>2, <2>3, MovingRequests
<1> QED BY <1>3, <1>4, <1>5 DEF ApplyBatch

LEMMA TakeSnapshotRequests ==
    ASSUME TypeOK, RequestsAgree, TakeSnapshot
    PROVE  RequestsAgree'
<1>1. job'.data = SnapshotOf(cloud)
  BY Zenon DEF TakeSnapshot, TypeOK, Job
<1>2. job'.data.epoch = EpochAt(cloud, job'.data.seq)
  BY <1>1 DEF SnapshotOf, RequestsAgree, EpochsGrow
<1>3. HeldIsOfItsEpoch' /\ RefusalIsFinal'
  BY <1>2 DEF TakeSnapshot, HeldIsOfItsEpoch, RefusalIsFinal
<1> QED BY <1>3, QuietRequests DEF TakeSnapshot, Sent

LEMMA RestoreSnapshotRequests ==
    ASSUME TypeOK, HistoryAgrees, RequestsAgree, RestoreSnapshot
    PROVE  RequestsAgree'
<1>1. db.frozen = Nil
  BY NoneFrozen DEF RestoreSnapshot
<1>2. db'.frozen = Nil /\ db'.cursor = job.data.seq /\ db'.epoch = job.data.epoch
  <2>1. PICK A : db' = ApplyValues(db, job.data.rows, job.data.seq, job.data.epoch, TRUE, A)
    BY DEF RestoreSnapshot
  <2> QED BY <1>1, <2>1, Zenon DEF ApplyValues, Database, TypeOK
<1>3. job.data.seq <= Seqno(cloud) /\ job.data.epoch = EpochAt(cloud, job.data.seq)
  BY DEF RestoreSnapshot, HistoryAgrees, SnapshotIsCloud, RequestsAgree, HeldIsOfItsEpoch
<1>4. pc' \notin {"ack", "awaiting", "thaw", "restoring", "freezing"}
  BY DEF RestoreSnapshot, AfterPull, TypeOK, Job
<1> QED BY <1>1, <1>2, <1>3, <1>4, MovingRequests DEF RestoreSnapshot

(* A resolution leaves the cursor, the generation and the shadow alone. *)
LEMMA SettlementKeeps ==
    ASSUME TypeOK, Resolve, Refusal = "", NEW d \in Settlements
    PROVE  /\ d \in Database /\ d.frozen = db.frozen /\ d.cursor = db.cursor
           /\ d.epoch = db.epoch /\ d.shadow = db.shadow
<1>1. d \in Database /\ d.frozen = db.frozen /\ db \in Database
  BY SettlementType DEF Resolve, TypeOK
<1>2. CASE \E S, copies, new : d = SettleBatch(db, S, copies, new)
  BY <1>1, <1>2, Zenon DEF SettleBatch, Database
<1>3. CASE \E i, choice : d = SettleOne(db, i, choice)
  BY <1>1, <1>3, Zenon DEF SettleOne, Database
<1> QED BY <1>1, <1>2, <1>3 DEF Settlements

LEMMA ResolveRequests ==
    ASSUME TypeOK, HistoryAgrees, RequestsAgree, Resolve
    PROVE  RequestsAgree'
<1>1. CASE \E code : Handle(code)
  BY <1>1, FailureRequests DEF Resolve
<1>2. ASSUME Refusal = "", NEW d \in Settlements, NEW A,
             db' = ApplyValues(d, NoRows, d.cursor, d.epoch, FALSE, A), pc' = "idle"
      PROVE  RequestsAgree'
  <2>1. /\ d \in Database /\ d.frozen = db.frozen /\ d.cursor = db.cursor
        /\ d.epoch = db.epoch
    BY <1>2, SettlementKeeps
  <2>2. db.frozen = Nil
    BY NoneFrozen DEF Resolve
  <2>3. db'.frozen = Nil /\ db'.cursor = db.cursor /\ db'.epoch = db.epoch
    BY <1>2, <2>1, <2>2, Zenon DEF ApplyValues, Database
  <2>4. db.cursor <= Seqno(cloud) /\ db.epoch = EpochAt(cloud, db.cursor)
    BY DEF RequestsAgree, EpochIsCloudAtCursor, EpochAt
  <2> QED BY <1>2, <2>2, <2>3, <2>4, MovingRequests DEF Resolve
<1> QED BY <1>1, <1>2 DEF Resolve

(* A draft still fits when it is frozen, whatever the user did meanwhile. *)
LEMMA FreezeIsAllowed ==
    ASSUME HistoryAgrees, RequestsAgree, pc = "freezing"
    PROVE  FreezeAllowed(db, job.data)
BY NoneFrozen DEF RequestsAgree, HeldIsOfItsEpoch, FreezeAllowed

LEMMA FreezeAndSendRequests ==
    ASSUME TypeOK, HistoryAgrees, RequestsAgree, FreezeAndSend
    PROVE  RequestsAgree'
<1> DEFINE p == db'.frozen
<1>1. FreezeAllowed(db, job.data)
  BY FreezeIsAllowed DEF FreezeAndSend
<1>2. db' = Freeze(db, job.data, nextId) /\ db \in Database
  BY <1>1 DEF FreezeAndSend, TypeOK
<1>3. /\ db'.cursor = db.cursor /\ db'.epoch = db.epoch
      /\ p = [id |-> nextId, epoch |-> job.data.epoch,
              expectedSeq |-> job.data.cursor, items |-> job.data.items]
  BY <1>2, Zenon DEF Freeze, Database
<1>4. p.id = nextId /\ p.expectedSeq = db.cursor /\ p.epoch = db.epoch
  BY <1>1, <1>3 DEF FreezeAllowed
<1> HIDE DEF p
<1>5. wire' = wire \cup {p} /\ cloud' = cloud /\ db.frozen = Nil
  BY <1>1 DEF FreezeAndSend, FreezeAllowed, p
<1>6. Sent' \subseteq Sent \cup {p}
  BY <1>5 DEF Sent, p
<1>7. Applied(cloud, p.id) = {}
  <2>1. nextId \in Nat
    BY DEF TypeOK
  <2>2. \A k \in 1..Seqno(cloud) : cloud.log[k].id < nextId /\ cloud.log[k].id \in Nat
    BY RecordedType DEF HistoryAgrees, RequestsAreRecorded, TypeOK
  <2> QED BY <1>4, <2>1, <2>2 DEF Applied, Seqno
<1>8. db.cursor <= Seqno(cloud) /\ db.epoch = EpochAt(cloud, db.cursor)
  BY DEF RequestsAgree, EpochIsCloudAtCursor, EpochAt
<1>9. RequestsKeepTheirPlace'
  <2>1. ASSUME NEW q \in Sent'
        PROVE  /\ q.expectedSeq <= Seqno(cloud) /\ q.epoch = EpochAt(cloud, q.expectedSeq)
               /\ \A k \in Applied(cloud, q.id) : k = q.expectedSeq + 1 /\ EpochAt(cloud, k) = q.epoch
    <3>1. CASE q = p
      BY <1>4, <1>7, <1>8, <3>1
    <3>2. CASE q \in Sent
      BY <3>2 DEF RequestsAgree, RequestsKeepTheirPlace
    <3> QED BY <1>6, <3>1, <3>2
  <2>2. db'.frozen.epoch = db'.epoch
    BY <1>3, <1>4 DEF p
  <2> QED BY <1>5, <2>1, <2>2 DEF RequestsKeepTheirPlace
<1>10. pc' = "awaiting" /\ job'.data = Nil
  BY <1>1, Zenon DEF FreezeAndSend, TypeOK, Job
<1>11. HeldIsOfItsEpoch' /\ RefusalIsFinal'
  BY <1>10 DEF HeldIsOfItsEpoch, RefusalIsFinal
<1>12. AbandonedAreSettled'
  <2>1. ASSUME NEW q \in wire', q # db'.frozen
        PROVE  Applied(cloud, q.id) # {} \/ RefusedForGood(cloud, q)
    <3>1. q \in wire /\ q # Nil
      BY <1>5, <2>1, NilIsNoRow DEF TypeOK, p
    <3> QED BY <1>5, <3>1 DEF RequestsAgree, AbandonedAreSettled
  <2> QED BY <1>5, <2>1 DEF AbandonedAreSettled
<1>13. EpochsGrow(cloud') /\ EpochIsCloudAtCursor'
  BY <1>3, <1>5 DEF RequestsAgree, EpochIsCloudAtCursor
<1> QED BY <1>9, <1>11, <1>12, <1>13 DEF RequestsAgree

-----------------------------------------------------------------------------
(* Steps of the cloud                                                      *)

(* A batch of the current generation, or of a later one, keeps them in order. *)
LEMMA AppendKeepsEpochs ==
    ASSUME NEW c \in Cloud, NEW id \in Nat, NEW epoch \in Nat, NEW rows \in Batch(Row),
           NEW e, e = AppendBatch(c, id, epoch, rows), EpochsGrow(c), c.epoch <= epoch
    PROVE  /\ EpochsGrow(e) /\ e.epoch = epoch /\ EpochAt(e, Seqno(c) + 1) = epoch
<1> DEFINE entry == [id |-> id, epoch |-> epoch, rows |-> rows]
           items == [i \in Item |-> IF rows[i] = Nil THEN c.items[i] ELSE rows[i]]
           top   == Seqno(c) + 1
<1>1. e.log = Append(c.log, entry)
  BY AppendType
<1>2. c.log \in Seq(LogEntry) /\ entry \in LogEntry /\ entry.epoch = epoch
  BY DEF Cloud, LogEntry
<1>3. e.epoch = epoch
  <2>1. e = [c EXCEPT !.log = Append(c.log, entry), !.items = items, !.epoch = epoch]
    BY DEF AppendBatch
  <2> HIDE DEF entry, items
  <2> QED BY <2>1, Zenon DEF Cloud
<1>4. Extends(c, e) /\ Seqno(e) = top /\ Seqno(c) \in Nat
  BY Appended DEF Extends
<1>5. EpochAt(e, top) = epoch
  <2> HIDE DEF entry
  <2>1. e.log[Seqno(c) + 1] = entry
    BY <1>1, <1>2 DEF Seqno
  <2> QED BY <1>2, <1>4, <2>1 DEF EpochAt
<1> HIDE DEF entry, items
<1>6. \A s \in 0..Seqno(c) : EpochAt(e, s) = EpochAt(c, s) /\ EpochAt(c, s) \in Nat
  BY <1>4, EpochStable, EpochType
<1>7. \A s \in 0..Seqno(c) : EpochAt(c, s) <= epoch
  <2>1. c.epoch \in Nat /\ \A s \in 0..Seqno(c) : EpochAt(c, s) <= c.epoch
    BY <1>4 DEF EpochsGrow, Cloud
  <2> QED BY <1>6, <2>1
<1>8. ASSUME NEW s \in 0..top, NEW t \in 0..s
      PROVE  EpochAt(e, t) <= EpochAt(e, s)
  <2>1. CASE s = top
    <3>1. CASE t = top
      BY <1>5, <2>1, <3>1
    <3>2. CASE t # top
      <4>1. t \in 0..Seqno(c)
        BY <1>4, <2>1, <3>2
      <4> QED BY <1>5, <1>6, <1>7, <2>1, <4>1
    <3> QED BY <3>1, <3>2
  <2>2. CASE s # top
    <3>1. s \in 0..Seqno(c) /\ t \in 0..Seqno(c)
      BY <1>4, <2>2
    <3>2. EpochAt(c, t) <= EpochAt(c, s)
      BY <3>1 DEF EpochsGrow
    <3> QED BY <1>6, <3>1, <3>2
  <2> QED BY <2>1, <2>2
<1> QED BY <1>3, <1>4, <1>5, <1>8 DEF EpochsGrow

(* What an operation holds of the log stays true of a longer one. *)
LEMMA HeldStays ==
    ASSUME TypeOK, HistoryAgrees, HeldIsOfItsEpoch, Extends(cloud, cloud'),
           UNCHANGED <<db, pc, job>>
    PROVE  HeldIsOfItsEpoch'
<1>1. ASSUME pc = "restoring" PROVE job.data.epoch = EpochAt(cloud', job.data.seq)
  <2>1. job.data.seq \in Nat /\ job.data.seq <= Seqno(cloud) /\ Seqno(cloud) \in Nat
    BY <1>1 DEF TypeOK, HoldsWhatItNeeds, Snapshot, HistoryAgrees, SnapshotIsCloud, Extends
  <2>2. job.data.seq \in 0..Seqno(cloud)
    BY <2>1
  <2> QED BY <1>1, <2>2, EpochStable DEF HeldIsOfItsEpoch
<1>2. ASSUME pc = "ack" \/ (pc = "awaiting" /\ job.data # Nil /\ job.data.code = "OK")
      PROVE  job.data.epoch = EpochAt(cloud', job.data.seq)
  <2>1. job.data.seq \in Applied(cloud, db.frozen.id)
    BY <1>2 DEF HistoryAgrees, ConfirmedIsRecorded
  <2>2. job.data.seq \in 0..Seqno(cloud)
    BY <2>1 DEF Applied, Seqno, Extends
  <2>3. job.data.epoch = EpochAt(cloud, job.data.seq)
    BY <1>2 DEF HeldIsOfItsEpoch
  <2> QED BY <2>2, <2>3, EpochStable
<1>3. ASSUME pc = "freezing" PROVE job.data.cursor = db.cursor /\ job.data.epoch = db.epoch
  BY <1>3 DEF HeldIsOfItsEpoch
<1> QED BY <1>1, <1>2, <1>3 DEF HeldIsOfItsEpoch

(* A refusal in hand stays final. *)
LEMMA RefusalStays ==
    ASSUME TypeOK, RequestsAgree, cloud' \in Cloud, Extends(cloud, cloud'),
           EpochsGrow(cloud'), Seqno(cloud') = Seqno(cloud) => cloud'.items = cloud.items,
           UNCHANGED <<db, pc, job>>
    PROVE  RefusalIsFinal'
<1> SUFFICES ASSUME pc = "thaw" \/ (pc = "awaiting" /\ job.data # Nil /\ job.data.code # "OK")
             PROVE  RefusedForGood(cloud', db.frozen)
  BY DEF RefusalIsFinal
<1>1. db.frozen # Nil
  BY DEF TypeOK, HoldsWhatItNeeds
<1>2. db.frozen \in Sent /\ db.frozen \in Request /\ cloud \in Cloud
  BY <1>1 DEF Sent, TypeOK, Database
<1>3. RefusedForGood(cloud, db.frozen) /\ db.frozen.expectedSeq <= Seqno(cloud)
  BY <1>2 DEF RequestsAgree, RefusalIsFinal, RequestsKeepTheirPlace
<1> QED BY <1>2, <1>3, RefusedStays DEF RequestsAgree

(***************************************************************************)
(* The cloud's log grows and the device stands still: every request keeps  *)
(* its place if the new batches are at the places of those they name.      *)
(***************************************************************************)
LEMMA CloudStepRequests ==
    ASSUME TypeOK, HistoryAgrees, RequestsAgree, cloud' \in Cloud, Extends(cloud, cloud'),
           EpochsGrow(cloud'), Seqno(cloud') = Seqno(cloud) => cloud'.items = cloud.items,
           UNCHANGED db, wire' \subseteq wire,
           \A k \in (Seqno(cloud)+1)..Seqno(cloud') : \A p \in Sent :
               p.id = cloud'.log[k].id
                  => k = p.expectedSeq + 1 /\ EpochAt(cloud', k) = p.epoch,
           HeldIsOfItsEpoch', RefusalIsFinal'
    PROVE  RequestsAgree'
<1>1. /\ Seqno(cloud) \in Nat /\ Seqno(cloud') \in Nat /\ Seqno(cloud) <= Seqno(cloud')
      /\ \A k \in 1..Seqno(cloud) : cloud'.log[k] = cloud.log[k]
  BY DEF Extends
<1>2. Sent' \subseteq Sent /\ cloud \in Cloud
  BY DEF Sent, TypeOK
<1>3. \A s \in 0..Seqno(cloud) : EpochAt(cloud', s) = EpochAt(cloud, s)
  BY EpochStable
<1>4. ASSUME NEW p \in Sent'
      PROVE  /\ p.expectedSeq <= Seqno(cloud') /\ p.epoch = EpochAt(cloud', p.expectedSeq)
             /\ \A k \in Applied(cloud', p.id) :
                   k = p.expectedSeq + 1 /\ EpochAt(cloud', k) = p.epoch
  <2>1. p \in Sent /\ p \in Request /\ p.expectedSeq \in Nat
    BY <1>2 DEF Sent, TypeOK, Database, Request
  <2>2. /\ p.expectedSeq <= Seqno(cloud) /\ p.epoch = EpochAt(cloud, p.expectedSeq)
        /\ \A k \in Applied(cloud, p.id) :
              k = p.expectedSeq + 1 /\ EpochAt(cloud, k) = p.epoch
    BY <2>1 DEF RequestsAgree, RequestsKeepTheirPlace
  <2>3. p.expectedSeq <= Seqno(cloud') /\ p.expectedSeq \in 0..Seqno(cloud)
    BY <1>1, <2>1, <2>2
  <2>4. ASSUME NEW k \in Applied(cloud', p.id)
        PROVE  k = p.expectedSeq + 1 /\ EpochAt(cloud', k) = p.epoch
    <3>1. k \in 1..Seqno(cloud') /\ cloud'.log[k].id = p.id
      BY <2>4 DEF Applied, Seqno
    <3>2. CASE k \in 1..Seqno(cloud)
      <4>1. k \in Applied(cloud, p.id) /\ k \in 0..Seqno(cloud)
        BY <1>1, <3>1, <3>2 DEF Applied, Seqno
      <4> QED BY <1>3, <2>2, <4>1
    <3>3. CASE k \in (Seqno(cloud)+1)..Seqno(cloud')
      BY <2>1, <3>1, <3>3
    <3> QED BY <1>1, <3>1, <3>2, <3>3
  <2> QED BY <1>3, <2>2, <2>3, <2>4
<1>5. RequestsKeepTheirPlace'
  <2>1. db'.frozen # Nil => db'.frozen.epoch = db'.epoch
    BY DEF RequestsAgree, RequestsKeepTheirPlace
  <2> QED BY <1>4, <2>1 DEF RequestsKeepTheirPlace
<1>6. EpochIsCloudAtCursor'
  <2>1. db.cursor \in Nat /\ db.cursor <= Seqno(cloud) /\ db.epoch = EpochAt(cloud, db.cursor)
    BY DEF RequestsAgree, EpochIsCloudAtCursor, EpochAt, TypeOK, Database
  <2>2. db.cursor <= Seqno(cloud') /\ db.epoch = EpochAt(cloud', db.cursor)
    BY <1>1, <1>3, <2>1
  <2> QED BY <2>2 DEF EpochIsCloudAtCursor, EpochAt
<1>7. AbandonedAreSettled'
  <2>1. ASSUME NEW p \in wire', p # db'.frozen
        PROVE  Applied(cloud', p.id) # {} \/ RefusedForGood(cloud', p)
    <3>1. p \in wire /\ p # db.frozen /\ p \in Request /\ p \in Sent
      BY <2>1 DEF TypeOK, Sent
    <3>2. CASE Applied(cloud, p.id) # {}
      BY <3>2, RecordStays
    <3>3. CASE RefusedForGood(cloud, p)
      <4>1. p.expectedSeq <= Seqno(cloud)
        BY <3>1 DEF RequestsAgree, RequestsKeepTheirPlace
      <4>2. EpochsGrow(cloud)
        BY DEF RequestsAgree
      <4> QED BY <1>2, <3>1, <3>3, <4>1, <4>2, RefusedStays
    <3> QED BY <3>1, <3>2, <3>3 DEF RequestsAgree, AbandonedAreSettled
  <2> QED BY <2>1 DEF AbandonedAreSettled
<1> QED BY <1>5, <1>6, <1>7 DEF RequestsAgree

LEMMA ExpireLogRequests ==
    ASSUME TypeOK, HistoryAgrees, RequestsAgree, NEW s \in 1..Seqno(cloud), ExpireLog(s)
    PROVE  RequestsAgree'
<1>1. cloud \in Cloud /\ cloud' \in Cloud
  BY ExpireLogType DEF TypeOK
<1>2. cloud'.log = cloud.log /\ cloud'.items = cloud.items /\ cloud'.epoch = cloud.epoch
  BY <1>1, Zenon DEF ExpireLog, Cloud
<1>3. Extends(cloud, cloud') /\ Seqno(cloud') = Seqno(cloud)
  BY <1>1, <1>2, SameLog
<1>4. EpochsGrow(cloud')
  BY <1>2 DEF RequestsAgree, EpochsGrow, EpochAt, Seqno
<1>5. UNCHANGED <<db, pc, job, wire>>
  BY DEF ExpireLog, deviceVars
<1>6. (Seqno(cloud)+1)..Seqno(cloud') = {}
  BY <1>3 DEF Extends
<1>7. HeldIsOfItsEpoch'
  BY <1>3, <1>5, HeldStays DEF RequestsAgree
<1>8. RefusalIsFinal'
  BY <1>1, <1>2, <1>3, <1>4, <1>5, RefusalStays
<1> QED BY <1>1, <1>2, <1>3, <1>4, <1>5, <1>6, <1>7, <1>8, CloudStepRequests

(* Another device's batch is of this generation or starts the next. *)
LEMMA PeerPushRequests ==
    ASSUME TypeOK, HistoryAgrees, RequestsAgree, NEW S \in SUBSET Item,
           NEW new \in [S -> Content], NEW replace \in BOOLEAN, PeerPush(S, new, replace)
    PROVE  RequestsAgree'
<1> DEFINE rows == [i \in Item |-> IF i \in S
                     THEN [rev |-> CloudRev(cloud, i) + 1, val |-> new[i]] ELSE Nil]
           epoch == cloud.epoch + (IF replace THEN 1 ELSE 0)
<1>1. cloud \in Cloud /\ cloud' \in Cloud
  BY PeerPushType DEF TypeOK
<1>2. \A i \in Item : CloudRev(cloud, i) \in Nat
  BY <1>1 DEF CloudRev, Cloud, Batch, Row
<1>3. rows \in Batch(Row) /\ epoch \in Nat /\ cloud.epoch <= epoch
  BY <1>1, <1>2 DEF Batch, Row, Cloud
<1>4. cloud' = AppendBatch(cloud, 0, epoch, rows)
  BY DEF PeerPush
<1>5. UNCHANGED <<db, pc, job, wire>>
  BY DEF PeerPush, deviceVars
<1> HIDE DEF rows, epoch
<1>6. EpochsGrow(cloud')
  BY <1>1, <1>3, <1>4, AppendKeepsEpochs DEF RequestsAgree
<1>7. /\ Extends(cloud, cloud') /\ Seqno(cloud') = Seqno(cloud) + 1 /\ Seqno(cloud) \in Nat
      /\ cloud'.log[Seqno(cloud')].id = 0
  BY <1>1, <1>3, <1>4, Appended DEF Extends
<1>8. ASSUME NEW k \in (Seqno(cloud)+1)..Seqno(cloud'), NEW p \in Sent
      PROVE  p.id # cloud'.log[k].id
  <2>1. k = Seqno(cloud')
    BY <1>7
  <2>2. 1 <= p.id
    BY DEF HistoryAgrees, RequestsAreRecorded
  <2> QED BY <1>7, <2>1, <2>2
<1>9. HeldIsOfItsEpoch'
  BY <1>5, <1>7, HeldStays DEF RequestsAgree
<1>10. RefusalIsFinal'
  BY <1>1, <1>5, <1>6, <1>7, RefusalStays
<1> QED BY <1>1, <1>5, <1>6, <1>7, <1>8, <1>9, <1>10, CloudStepRequests

(* A push applied becomes the next batch; one refused is refused for good. *)
LEMMA CloudPushRequests ==
    ASSUME TypeOK, HistoryAgrees, RequestsAgree, NEW p \in wire, CloudPush(p)
    PROVE  RequestsAgree'
<1>1. cloud \in Cloud /\ cloud' \in Cloud /\ p \in Request /\ p \in Sent
  BY CloudPushType DEF TypeOK, Sent
<1>2. UNCHANGED <<db, pc>> /\ wire' \subseteq wire /\ cloud' = HandlePush(cloud, p)
  BY DEF CloudPush
<1>3. /\ EpochsGrow(cloud) /\ p.expectedSeq <= Seqno(cloud)
      /\ p.epoch = EpochAt(cloud, p.expectedSeq)
  BY <1>1 DEF RequestsAgree, RequestsKeepTheirPlace
<1>4. /\ Extends(cloud, cloud') /\ EpochsGrow(cloud')
      /\ Seqno(cloud') = Seqno(cloud) => cloud'.items = cloud.items
      /\ \A k \in (Seqno(cloud)+1)..Seqno(cloud') : \A q \in Sent :
            q.id = cloud'.log[k].id => k = q.expectedSeq + 1 /\ EpochAt(cloud', k) = q.epoch
  <2>1. CASE PushOutcome(cloud, p) = "OK" /\ Applied(cloud, p.id) = {}
    <3> DEFINE rows == UploadedRows(p.items)
    <3>1. cloud' = AppendBatch(cloud, p.id, cloud.epoch, rows)
      BY <1>2, <2>1 DEF HandlePush
    <3>2. rows \in Batch(Row) /\ p.id \in Nat /\ cloud.epoch \in Nat /\ cloud.epoch <= cloud.epoch
      BY <1>1, UploadedType DEF Request, Cloud
    <3>3. p.epoch = cloud.epoch /\ p.expectedSeq = Seqno(cloud)
      BY <2>1 DEF PushOutcome
    <3> HIDE DEF rows
    <3>4. EpochsGrow(cloud') /\ EpochAt(cloud', Seqno(cloud) + 1) = cloud.epoch
      BY <1>1, <1>3, <3>1, <3>2, AppendKeepsEpochs
    <3>5. /\ Extends(cloud, cloud') /\ Seqno(cloud') = Seqno(cloud) + 1 /\ Seqno(cloud) \in Nat
          /\ cloud'.log[Seqno(cloud')].id = p.id
      BY <1>1, <3>1, <3>2, Appended DEF Extends
    <3>6. ASSUME NEW k \in (Seqno(cloud)+1)..Seqno(cloud'), NEW q \in Sent,
                 q.id = cloud'.log[k].id
          PROVE  k = q.expectedSeq + 1 /\ EpochAt(cloud', k) = q.epoch
      <4>1. k = Seqno(cloud) + 1 /\ k = Seqno(cloud')
        BY <3>5
      <4>2. q = p
        BY <1>1, <3>5, <3>6, <4>1 DEF HistoryAgrees, RequestsAreRecorded
      <4> QED BY <3>3, <3>4, <4>1, <4>2
    <3> QED BY <3>4, <3>5, <3>6
  <2>2. CASE ~(PushOutcome(cloud, p) = "OK" /\ Applied(cloud, p.id) = {})
    <3>1. cloud' = cloud
      BY <1>2, <2>2 DEF HandlePush
    <3>2. Extends(cloud, cloud') /\ Seqno(cloud') = Seqno(cloud) /\ Seqno(cloud) \in Nat
      BY <1>1, <3>1, SameLog DEF Extends
    <3>3. (Seqno(cloud)+1)..Seqno(cloud') = {}
      BY <3>2
    <3> QED BY <1>3, <3>1, <3>2, <3>3
  <2> QED BY <2>1, <2>2
<1>5. HeldIsOfItsEpoch' /\ RefusalIsFinal'
  <2>1. CASE pc = "awaiting" /\ db.frozen.id = p.id /\ job.data = Nil
    <3>1. job'.data = PushAnswer(cloud, p)
      BY <2>1, Zenon DEF CloudPush, TypeOK, Job
    <3>2. CASE PushOutcome(cloud, p) = "OK"
      <4>1. Applied(cloud', p.id) # {}
        BY <1>1, <1>2, <3>2, HandledIsApplied
      <4>2. job'.data = BatchAnswer(cloud', p.id)
        BY <1>2, <3>1, <3>2 DEF PushAnswer
      <4>3. job'.data.epoch = EpochAt(cloud', job'.data.seq) /\ job'.data.code = "OK"
        BY <4>1, <4>2, AnswerEpoch
      <4> QED BY <1>2, <2>1, <4>3 DEF HeldIsOfItsEpoch, RefusalIsFinal
    <3>3. CASE PushOutcome(cloud, p) # "OK"
      <4>1. job'.data.code # "OK"
        BY <3>1, <3>3 DEF PushAnswer
      <4>2. RefusedForGood(cloud, p) /\ cloud' = cloud
        BY <1>1, <1>2, <1>3, <3>3, RefusedNow DEF HandlePush
      <4>3. db.frozen = p
        <5>1. db.frozen \in Sent
          BY <2>1 DEF TypeOK, HoldsWhatItNeeds, Sent
        <5> QED BY <1>1, <2>1, <5>1 DEF HistoryAgrees, RequestsAreRecorded
      <4> QED BY <1>2, <2>1, <4>1, <4>2, <4>3 DEF HeldIsOfItsEpoch, RefusalIsFinal
    <3> QED BY <3>2, <3>3
  <2>2. CASE ~(pc = "awaiting" /\ db.frozen.id = p.id /\ job.data = Nil)
    <3>1. job' = job
      BY <2>2 DEF CloudPush
    <3>2. HeldIsOfItsEpoch'
      BY <1>2, <1>4, <3>1, HeldStays DEF RequestsAgree
    <3>3. RefusalIsFinal'
      BY <1>1, <1>2, <1>4, <3>1, RefusalStays
    <3> QED BY <3>2, <3>3
  <2> QED BY <2>1, <2>2
<1> QED BY <1>1, <1>2, <1>4, <1>5, CloudStepRequests

-----------------------------------------------------------------------------
(* The invariant                                                           *)

LEMMA RequestsInit == Init => RequestsAgree
<1> SUFFICES ASSUME Init PROVE RequestsAgree
  OBVIOUS
<1>1. cloud.log = <<>> /\ cloud.epoch = 1 /\ Seqno(cloud) = 0
  BY DEF Init, InitCloud, Seqno
<1>2. db.cursor = 0 /\ db.frozen = Nil /\ db.epoch = 1 /\ pc = "idle" /\ wire = {}
  BY DEF Init, InitDatabase
<1>3. EpochsGrow(cloud)
  <2>1. \A s \in 0..0 : s = 0
    OBVIOUS
  <2> QED BY <1>1, <2>1 DEF EpochsGrow, EpochAt
<1>4. EpochIsCloudAtCursor
  BY <1>1, <1>2 DEF EpochIsCloudAtCursor
<1>5. Sent = {}
  BY <1>2 DEF Sent
<1> QED BY <1>2, <1>3, <1>4, <1>5 DEF RequestsAgree, HeldIsOfItsEpoch,
           RequestsKeepTheirPlace, RefusalIsFinal, AbandonedAreSettled

LEMMA RequestsNext ==
    TypeOK /\ HistoryAgrees /\ RequestsAgree /\ [Next]_vars => RequestsAgree'
<1> SUFFICES ASSUME TypeOK, HistoryAgrees, RequestsAgree, [Next]_vars PROVE RequestsAgree'
  OBVIOUS
<1>1. CASE Engine
  <2>1. CASE Hint \/ RetryElapses
    BY <2>1, IdleRequests DEF Hint, RetryElapses
  <2> QED BY <1>1, <2>1, StartCycleRequests, RecoverRequests, AnswerArrivesRequests,
             AckRequestRequests, ThawRequestRequests, ReadingRequests, ApplyBatchRequests,
             TakeSnapshotRequests, RestoreSnapshotRequests, FreezeAndSendRequests,
             ResolveRequests DEF Engine
<1>2. CASE Environment
  <2>1. ASSUME NEW code, RequestFails(code) PROVE RequestsAgree'
    BY <2>1, FailureRequests DEF RequestFails
  <2>2. ASSUME NEW p, LosePush(p) PROVE RequestsAgree'
    BY <2>2, IdleRequests DEF LosePush, deviceVars
  <2>3. CASE Crash
    BY <2>3, ForgetfulRequests DEF Crash, Sent
  <2>4. ASSUME NEW S \in SUBSET Item, NEW new \in [S -> Content],
               NEW replace \in BOOLEAN, PeerPush(S, new, replace)
        PROVE  RequestsAgree'
    BY <2>4, PeerPushRequests
  <2> QED BY <1>2, <2>1, <2>2, <2>3, <2>4, CloudPushRequests, ExpireLogRequests DEF Environment
<1>3. CASE UNCHANGED vars
  BY <1>3, IdleRequests DEF vars
<1> QED BY <1>1, <1>2, <1>3, UserRequests DEF Next

(***************************************************************************)
(* Every request keeps its generation and its place in the cloud's log,    *)
(* and what the engine holds of the cloud is of the generation it will be  *)
(* compared with, over replacements, snapshots, lost answers and crashes.  *)
(***************************************************************************)
THEOREM RequestsAlwaysAgree == Spec => []RequestsAgree
<1>1. Init => TypeOK /\ HistoryAgrees /\ RequestsAgree
  BY TypeInit, HistoryInit, RequestsInit
<1>2. (TypeOK /\ HistoryAgrees /\ RequestsAgree) /\ [Next]_vars
        => (TypeOK /\ HistoryAgrees /\ RequestsAgree)'
  BY TypeNext, HistoryNext, RequestsNext
<1> QED BY <1>1, <1>2, PTL DEF Spec

(***************************************************************************)
(* The device's key generation is always the one the cloud had at the      *)
(* device's cursor, whoever replaced the cloud's data meanwhile.           *)
(***************************************************************************)
THEOREM EpochAlwaysExact == Spec => []EpochIsCloudAtCursor
<1>1. RequestsAgree => EpochIsCloudAtCursor
  BY DEF RequestsAgree
<1> QED BY <1>1, RequestsAlwaysAgree, PTL

(* A request refused for good is answered with a refusal. *)
LEMMA RefusalHolds ==
    ASSUME NEW c \in Cloud, EpochsGrow(c), NEW p \in Request, RefusedForGood(c, p),
           p.expectedSeq <= Seqno(c), p.epoch = EpochAt(c, p.expectedSeq),
           Applied(c, p.id) = {}
    PROVE  PushOutcome(c, p) # "OK"
<1>1. p.epoch \in Nat /\ c.epoch \in Nat /\ p.expectedSeq \in Nat /\ Seqno(c) \in Nat
  BY DEF Request, Cloud, Seqno
<1>2. CASE p.epoch # c.epoch
  BY <1>2 DEF PushOutcome
<1>3. CASE p.epoch = c.epoch /\ p.expectedSeq # Seqno(c)
  BY <1>3 DEF PushOutcome
<1>4. CASE p.epoch = c.epoch /\ p.expectedSeq = Seqno(c)
  <2>1. \E i \in Item : p.items[i] # Nil /\ p.items[i].base # CloudRev(c, i)
    BY <1>1, <1>4 DEF RefusedForGood
  <2> QED BY <1>4, <2>1 DEF PushOutcome
<1> QED BY <1>2, <1>3, <1>4

(***************************************************************************)
(* A push in flight that the device has given up never takes effect, no    *)
(* matter when it reaches the cloud, how often, or what was pushed since.  *)
(***************************************************************************)
THEOREM AbandonedNeverAppliesEver == Spec => []AbandonedNeverApplies
<1>1. TypeOK /\ RequestsAgree => AbandonedNeverApplies
  <2> SUFFICES ASSUME TypeOK, RequestsAgree, NEW p \in wire, p # db.frozen,
                      Applied(cloud, p.id) = {}
               PROVE  PushOutcome(cloud, p) # "OK"
    BY DEF AbandonedNeverApplies
  <2>1. RefusedForGood(cloud, p)
    BY DEF RequestsAgree, AbandonedAreSettled
  <2>2. p \in Request /\ p \in Sent /\ cloud \in Cloud
    BY DEF TypeOK, Sent
  <2>3. /\ EpochsGrow(cloud) /\ p.expectedSeq <= Seqno(cloud)
        /\ p.epoch = EpochAt(cloud, p.expectedSeq)
    BY <2>2 DEF RequestsAgree, RequestsKeepTheirPlace
  <2> QED BY <2>1, <2>2, <2>3, RefusalHolds
<1> QED BY <1>1, RequestsAlwaysAgree, TypeCorrect, PTL

-----------------------------------------------------------------------------
(* The engine's own consistency checks                                     *)

(* The next batch of the log is newer than the shadow in every row. *)
LEMMA NextBatchIsNewer ==
    ASSUME TypeOK, HistoryAgrees, NEW next, next = db.cursor + 1, next \in 1..Seqno(cloud)
    PROVE  ApplyAllowed(db, cloud.log[next].rows, next, FALSE)
<1>1. db.cursor \in Nat /\ Seqno(cloud) \in Nat /\ cloud \in Cloud
  BY DEF TypeOK, Database, Cloud, Seqno
<1>2. ASSUME NEW i \in InBatch(cloud.log[next].rows), db.shadow[i] # Nil
      PROVE  cloud.log[next].rows[i].rev # db.shadow[i].rev
  <2>1. i \in Item /\ cloud.log[next].rows[i] # Nil
    BY DEF InBatch
  <2>2. PICK k \in 1..db.cursor : db.shadow[i] = cloud.log[k].rows[i]
    BY <1>2, <2>1 DEF HistoryAgrees, ShadowIsCloudAtCursor, CloudRowAt
  <2>3. k \in 1..(next-1) /\ k \in 1..Seqno(cloud)
    BY <1>1
  <2>4. cloud.log[k].rows[i].rev < cloud.log[next].rows[i].rev
    BY <1>2, <2>1, <2>2, <2>3 DEF HistoryAgrees, RevisionsGrow
  <2>5. cloud.log[k].rows[i].rev \in Nat /\ cloud.log[next].rows[i].rev \in Nat
    BY <1>1, <1>2, <2>1, <2>2, <2>3, RecordedType
  <2> QED BY <2>2, <2>4, <2>5
<1>3. next >= db.cursor
  BY <1>1
<1> QED BY <1>2, <1>3 DEF ApplyAllowed

(* The status tells what a failure was. *)
LEMMA FailureTold ==
    ASSUME TypeOK, NoProtocolError,
           \E code : code \notin {"SYNC_PROTOCOL", "SYNC_BUSY", "SYNC_CHANGED"} /\ Handle(code)
    PROVE  NoProtocolError'
<1>1. PICK code : code \notin {"SYNC_PROTOCOL", "SYNC_BUSY", "SYNC_CHANGED"} /\ Handle(code)
  OBVIOUS
<1>2. [db EXCEPT !.error = code].error = code
  BY Zenon DEF TypeOK, Database
<1>3. db' = db \/ db' = [db EXCEPT !.error = code]
  BY <1>1 DEF Handle
<1> QED BY <1>1, <1>2, <1>3 DEF NoProtocolError

(* What the user does, and what starts a cycle, leaves no error of its own. *)
LEMMA StartTold ==
    ASSUME TypeOK, NoProtocolError, db' = db \/ db' = [db EXCEPT !.error = ""]
    PROVE  NoProtocolError'
<1>1. [db EXCEPT !.error = ""].error = ""
  BY Zenon DEF TypeOK, Database
<1> QED BY <1>1 DEF NoProtocolError

LEMMA UploadTold ==
    ASSUME TypeOK, HistoryAgrees, RequestsAgree, NoProtocolError,
           AckRequest \/ ThawRequest \/ FreezeAndSend
    PROVE  NoProtocolError'
<1>1. CASE AckRequest
  <2>1. db' = Ack(db, job.data.seq, job.data.epoch)
    BY <1>1, AckIsAllowed DEF AckRequest
  <2>2. db'.error = ""
    BY <2>1, Zenon DEF Ack, TypeOK, Database
  <2> QED BY <2>2 DEF NoProtocolError
<1>2. CASE ThawRequest
  <2>1. db'.error = db.error
    BY <1>2, Zenon DEF ThawRequest, Thaw, TypeOK, Database
  <2> QED BY <2>1 DEF NoProtocolError
<1>3. CASE FreezeAndSend
  <2>1. db' = Freeze(db, job.data, nextId)
    BY <1>3, FreezeIsAllowed DEF FreezeAndSend
  <2>2. db'.error = db.error
    BY <2>1, Zenon DEF Freeze, TypeOK, Database
  <2> QED BY <2>2 DEF NoProtocolError
<1> QED BY <1>1, <1>2, <1>3

LEMMA PullTold ==
    ASSUME TypeOK, HistoryAgrees, NoProtocolError, ApplyBatch \/ RestoreSnapshot
    PROVE  NoProtocolError'
<1>1. ASSUME NEW rows, NEW cursor, NEW epoch, NEW snapshot, NEW A,
             db' = ApplyValues(db, rows, cursor, epoch, snapshot, A)
      PROVE  NoProtocolError'
  <2>1. db'.error = ""
    BY <1>1, Zenon DEF ApplyValues, TypeOK, Database
  <2> QED BY <2>1 DEF NoProtocolError
<1>2. CASE ApplyBatch
  <2>1. db.cursor + 1 \in 1..Seqno(cloud)
    <3>1. Seqno(cloud) \in Nat /\ db.cursor \in Nat /\ job.page \in Nat /\ job.until \in Nat
      BY DEF TypeOK, Cloud, Seqno, Database, Job
    <3> QED BY <1>2, <3>1 DEF ApplyBatch, TypeOK, HoldsWhatItNeeds, PageIsLogged
  <2>2. ApplyAllowed(db, cloud.log[db.cursor + 1].rows, db.cursor + 1, FALSE)
    BY <2>1, NextBatchIsNewer
  <2>3. \/ db' = db
        \/ \E A : db' = ApplyValues(db, cloud.log[db.cursor + 1].rows, db.cursor + 1,
                                    cloud.log[db.cursor + 1].epoch, FALSE, A)
    BY <1>2, <2>2 DEF ApplyBatch
  <2> QED BY <1>1, <2>3 DEF NoProtocolError
<1>3. CASE RestoreSnapshot
  BY <1>1, <1>3 DEF RestoreSnapshot
<1> QED BY <1>2, <1>3

LEMMA ResolveTold ==
    ASSUME TypeOK, HistoryAgrees, NoProtocolError, Resolve
    PROVE  NoProtocolError'
<1>1. db.frozen = Nil
  BY NoneFrozen DEF Resolve
<1>2. CASE Refusal # "" /\ Handle(Refusal)
  <2>1. Refusal \in {"NOT_FOUND", "CONFLICT_CHANGED", "SYNC_MERGE_INVALID"}
    BY <1>1, <1>2 DEF Refusal
  <2>2. \E code : code \notin {"SYNC_PROTOCOL", "SYNC_BUSY", "SYNC_CHANGED"} /\ Handle(code)
    BY <1>2, <2>1
  <2> QED BY <2>2, FailureTold
<1>3. CASE Handle(IF job.ask.batch THEN "SYNC_DEPENDENCY" ELSE "VALIDATION")
  <2>1. \E code : code \notin {"SYNC_PROTOCOL", "SYNC_BUSY", "SYNC_CHANGED"} /\ Handle(code)
    BY <1>3
  <2> QED BY <2>1, FailureTold
<1>4. ASSUME Refusal = "", NEW d \in Settlements, NEW A,
             db' = ApplyValues(d, NoRows, d.cursor, d.epoch, FALSE, A)
      PROVE  NoProtocolError'
  <2>1. d \in Database
    BY <1>4, SettlementKeeps
  <2>2. db'.error = ""
    BY <1>4, <2>1, Zenon DEF ApplyValues, Database
  <2> QED BY <2>2 DEF NoProtocolError
<1> QED BY <1>2, <1>3, <1>4 DEF Resolve

LEMMA UserTold ==
    ASSUME TypeOK, NoProtocolError, User
    PROVE  NoProtocolError'
<1>1. ASSUME NEW S, NEW new, Edit(S, new) PROVE NoProtocolError'
  <2>1. db'.error = db.error
    BY <1>1, Zenon DEF Edit, Commit, TypeOK, Database
  <2> QED BY <2>1 DEF NoProtocolError
<1>2. ASSUME NEW on, SetEnabled(on) PROVE NoProtocolError'
  BY <1>2, StartTold DEF SetEnabled
<1>3. ASSUME NEW batch, NEW S, NEW pick, Ask(batch, S, pick) PROVE NoProtocolError'
  BY <1>3, StartTold DEF Ask
<1>4. CASE SyncNow
  BY <1>4, StartTold DEF SyncNow
<1> QED BY <1>1, <1>2, <1>3, <1>4 DEF User

(* The cloud answers a push with no failure of the engine's own. *)
LEMMA AnswerTold ==
    ASSUME TypeOK, NoProtocolError, AnswerArrives
    PROVE  NoProtocolError'
<1>1. CASE db' = db
  BY <1>1, StartTold
<1>2. CASE Handle(job.data.code)
  <2>1. job.data.code \in PushCodes
    BY DEF AnswerArrives, TypeOK, HoldsWhatItNeeds, Answer
  <2>2. \E code : code \notin {"SYNC_PROTOCOL", "SYNC_BUSY", "SYNC_CHANGED"} /\ Handle(code)
    BY <1>2, <2>1 DEF PushCodes
  <2> QED BY <2>2, FailureTold
<1> QED BY <1>1, <1>2 DEF AnswerArrives

(***************************************************************************)
(* None of the checks of apply, ack and freeze ever fails, provided no     *)
(* request fails with one of their codes: against a cloud that keeps the   *)
(* protocol, automatic sync is never stopped by them.                      *)
(***************************************************************************)
THEOREM ProtocolNeverBroken ==
    ASSUME (RetryCodes \cup FatalCodes) \cap {"SYNC_PROTOCOL", "SYNC_BUSY", "SYNC_CHANGED"} = {}
    PROVE  Spec => []NoProtocolError
<1>1. Init => NoProtocolError
  BY Zenon DEF Init, InitDatabase, NoProtocolError
<1>2. TypeOK /\ HistoryAgrees /\ RequestsAgree /\ NoProtocolError /\ [Next]_vars
        => NoProtocolError'
  <2> SUFFICES ASSUME TypeOK, HistoryAgrees, RequestsAgree, NoProtocolError, [Next]_vars
               PROVE  NoProtocolError'
    OBVIOUS
  <2>1. CASE UNCHANGED db
    BY <2>1, StartTold
  <2>2. CASE Engine
    <3>1. CASE StartCycle
      BY <3>1, StartTold DEF StartCycle
    <3>2. CASE Recover \/ GetChanges \/ FinishPage \/ TakeSnapshot \/ MakeDraft
               \/ Hint \/ RetryElapses
      BY <2>1, <3>2 DEF Recover, GetChanges, FinishPage, TakeSnapshot, MakeDraft,
         Hint, RetryElapses
    <3> QED BY <2>2, <3>1, <3>2, AnswerTold, UploadTold, PullTold, ResolveTold DEF Engine
  <2>3. CASE Environment
    <3>1. ASSUME NEW code \in RetryCodes \cup FatalCodes, RequestFails(code)
          PROVE  NoProtocolError'
      <4>1. code \notin {"SYNC_PROTOCOL", "SYNC_BUSY", "SYNC_CHANGED"} /\ Handle(code)
        BY <3>1 DEF RequestFails
      <4> QED BY <4>1, FailureTold
    <3>2. ASSUME NEW p, CloudPush(p) \/ LosePush(p) PROVE NoProtocolError'
      BY <2>1, <3>2 DEF CloudPush, LosePush, deviceVars
    <3>3. ASSUME NEW S, NEW new, NEW replace, PeerPush(S, new, replace) PROVE NoProtocolError'
      BY <2>1, <3>3 DEF PeerPush, deviceVars
    <3>4. ASSUME NEW s, ExpireLog(s) PROVE NoProtocolError'
      BY <2>1, <3>4 DEF ExpireLog, deviceVars
    <3>5. CASE Crash
      BY <2>1, <3>5 DEF Crash
    <3> QED BY <2>3, <3>1, <3>2, <3>3, <3>4, <3>5 DEF Environment
  <2> QED BY <2>1, <2>2, <2>3, UserTold DEF Next, vars
<1>3. Init => TypeOK /\ HistoryAgrees /\ RequestsAgree
  BY TypeInit, HistoryInit, RequestsInit
<1>4. TypeOK /\ HistoryAgrees /\ RequestsAgree /\ [Next]_vars
        => (TypeOK /\ HistoryAgrees /\ RequestsAgree)'
  BY TypeNext, HistoryNext, RequestsNext
<1> QED BY <1>1, <1>2, <1>3, <1>4, PTL DEF Spec
=============================================================================
