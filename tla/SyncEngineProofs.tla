-------------------------- MODULE SyncEngineProofs --------------------------
(***************************************************************************)
(* Theorems about the sync engine, for any items, contents and references, *)
(* any page size, error codes, choices and faults, and any bounds: first   *)
(* what the operations of the repository preserve, then that the engine is *)
(* well-formed at every await, last that the local graph is always valid.  *)
(***************************************************************************)
EXTENDS SyncEngine, TLAPS

-----------------------------------------------------------------------------
(* What the operations of the repository preserve                          *)

(* Writing well-typed contents to some items leaves a table. *)
LEMMA PutType ==
    ASSUME NEW e \in Table, NEW S, NEW new, \A i \in S : new[i] \in Content
    PROVE  Put(e, S, new) \in Table
BY DEF Put, Table

(* A local transaction leaves a well-formed database. *)
LEMMA CommitType ==
    ASSUME NEW d \in Database, NEW S \in SUBSET Item, NEW new \in [S -> Content]
    PROVE  Commit(d, S, new) \in Database
<1>1. Put(d.entities, S, new) \in Table
  BY PutType DEF Database
<1>2. [i \in Item |-> IF i \in S THEN [rev |-> d.revision + 1, val |-> new[i]]
                                ELSE d.pending[i]] \in Batch(Row)
  BY DEF Database, Batch, Row
<1>3. d.revision + 1 \in Nat
  BY DEF Database
<1> QED BY <1>1, <1>2, <1>3, Zenon DEF Commit, Database

(* The rows applyValues works through, deletions of a snapshot included. *)
LEMMA IncomingType ==
    ASSUME NEW d \in Database, NEW rows \in Batch(Row), NEW snapshot \in BOOLEAN
    PROVE  Incoming(d, rows, snapshot) \in Batch(Row)
BY DEF Incoming, Batch, Row, Content

(* Every candidate has a row: from the batch, or from its old conflict. *)
LEMMA CandidateRowType ==
    ASSUME NEW d \in Database, NEW rows \in Batch(Row), NEW snapshot \in BOOLEAN,
           NEW i \in Candidates(d, rows, snapshot)
    PROVE  /\ i \in Item
           /\ CandidateRow(d, rows, snapshot, i) \in Row
           /\ CandidateTable(d, rows, snapshot)[i] \in Content
<1>1. Incoming(d, rows, snapshot) \in Batch(Row)
  BY IncomingType
<1>2. i \in Item
  BY DEF Candidates, Fresh, InBatch, Waiting
<1>3. CandidateRow(d, rows, snapshot, i) \in Row
  <2>1. CASE i \in Waiting(d, rows, snapshot)
    <3>1. d.conflicts[i] \in Conflict
      BY <2>1, <1>2 DEF Waiting, Database, Batch
    <3> QED BY <2>1, <3>1 DEF CandidateRow, Conflict
  <2>2. CASE i \notin Waiting(d, rows, snapshot)
    <3>1. Incoming(d, rows, snapshot)[i] # Nil
      BY <2>2 DEF Candidates, Fresh, InBatch
    <3> QED BY <2>2, <3>1, <1>1, <1>2 DEF CandidateRow, Batch
  <2> QED BY <2>1, <2>2
<1>4. CandidateTable(d, rows, snapshot)[i] \in Content
  BY <1>2, <1>3 DEF CandidateTable, Row
<1> QED BY <1>2, <1>3, <1>4

(* Applying remote rows leaves a well-formed database. *)
LEMMA ApplyType ==
    ASSUME NEW d \in Database, NEW rows \in Batch(Row), NEW snapshot \in BOOLEAN,
           NEW cursor \in Nat, NEW epoch \in Nat,
           NEW A \in SUBSET Candidates(d, rows, snapshot)
    PROVE  ApplyValues(d, rows, cursor, epoch, snapshot, A) \in Database
<1> DEFINE inc == Incoming(d, rows, snapshot)
<1>1. inc \in Batch(Row)
  BY IncomingType
<1>2. Put(d.entities, A, CandidateTable(d, rows, snapshot)) \in Table
  <2>1. \A i \in A : CandidateTable(d, rows, snapshot)[i] \in Content
    BY CandidateRowType
  <2> QED BY <2>1, PutType DEF Database
<1>3. ShadowAfter(d, rows, snapshot) \in Batch(Row)
  BY <1>1 DEF ShadowAfter, Batch, Database
<1>4. PendingAfter(d, rows, snapshot) \in Batch(Row)
  BY DEF PendingAfter, Batch, Database
<1>5. ConflictsAfter(d, rows, snapshot, A) \in Batch(Conflict)
  <2>1. ASSUME NEW i \in Item, i \in Candidates(d, rows, snapshot)
        PROVE  [remote |-> CandidateRow(d, rows, snapshot, i),
                reason |-> "dependency"] \in Conflict
    BY <2>1, CandidateRowType DEF Conflict, Reason
  <2>2. ASSUME NEW i \in Item, i \in Clashing(d, rows, snapshot)
        PROVE  [remote |-> inc[i], reason |-> "concurrent_edit"] \in Conflict
    <3>1. inc[i] \in Row
      BY <2>2, <1>1 DEF Clashing, Fresh, InBatch, Batch
    <3> QED BY <3>1 DEF Conflict, Reason
  <2>3. d.conflicts \in Batch(Conflict)
    BY DEF Database
  <2> QED BY <2>1, <2>2, <2>3 DEF ConflictsAfter, Batch
<1>6. d.revision + 1 \in Nat
  BY DEF Database
<1> QED
  BY <1>2, <1>3, <1>4, <1>5, <1>6, CodeAssumption, Zenon DEF ApplyValues, Database

(* Accepted rows leave a valid graph, whichever of them were accepted. *)
LEMMA AcceptedGraph ==
    ASSUME NEW d, NEW rows, NEW cursor, NEW epoch, NEW snapshot, NEW A,
           d \in Database, Accepts(d, rows, snapshot, A)
    PROVE  GraphValid(ApplyValues(d, rows, cursor, epoch, snapshot, A).entities)
BY Zenon DEF Accepts, ApplyValues, Database

(* A draft is a well-formed upload. *)
LEMMA DraftType ==
    ASSUME NEW d \in Database
    PROVE  Draft(d) \in [cursor : Nat, epoch : Nat, items : Batch(UploadRow)]
<1>1. ASSUME NEW i \in Uploadable(d)
      PROVE  [base |-> ShadowRev(d, i), gen |-> d.pending[i].rev,
              val |-> d.pending[i].val] \in UploadRow
  <2>1. i \in Item /\ d.pending[i] \in Row
    BY DEF Uploadable, Edited, Database, Batch
  <2>2. ShadowRev(d, i) \in Nat
    BY <2>1 DEF ShadowRev, Database, Batch, Row
  <2> QED BY <2>1, <2>2 DEF UploadRow, Row
<1> QED BY <1>1 DEF Draft, Batch, Database

(* Persisting a request leaves a well-formed database. *)
LEMMA FreezeType ==
    ASSUME NEW d \in Database, NEW id \in Nat,
           NEW draft \in [cursor : Nat, epoch : Nat, items : Batch(UploadRow)]
    PROVE  /\ Freeze(d, draft, id) \in Database
           /\ Freeze(d, draft, id).frozen \in Request
BY DEF Freeze, Database, Request

(* So does confirming it. *)
LEMMA AckType ==
    ASSUME NEW d \in Database, d.frozen \in Request, NEW seq \in Nat, NEW epoch \in Nat
    PROVE  Ack(d, seq, epoch) \in Database
<1>1. ShadowAfterAck(d) \in Batch(Row)
  BY DEF ShadowAfterAck, Batch, Database, Request, Row, UploadRow
<1>2. PendingAfterAck(d) \in Batch(Row)
  BY DEF PendingAfterAck, Batch, Database
<1> QED BY <1>1, <1>2, CodeAssumption, Zenon DEF Ack, Database

(* So does giving it up. *)
LEMMA ThawType ==
    ASSUME NEW d \in Database
    PROVE  Thaw(d) \in Database
BY DEF Thaw, Database

(* The conflict of a resolved item is there, with a content to choose. *)
LEMMA SeenType ==
    ASSUME NEW d \in Database, NEW i \in Item, d.conflicts[i] # Nil
    PROVE  d.conflicts[i].remote.val \in Content
BY DEF Database, Batch, Conflict, Row

(* A resolution leaves a well-formed database. *)
LEMMA SettleBatchType ==
    ASSUME NEW d \in Database, NEW S \in SUBSET Item, NEW copies \in SUBSET Item,
           NEW new \in [Item -> Content]
    PROVE  SettleBatch(d, S, copies, new) \in Database
<1>1. Put(d.entities, S \cup copies, new) \in Table
  BY PutType DEF Database
<1>2. \A i \in Item : [rev |-> d.revision + 1, val |-> new[i]] \in Row
  BY DEF Row, Database
<1>3. d.revision + 1 \in Nat
  BY DEF Database
<1>4. [i \in Item |-> IF i \in S THEN Nil ELSE d.conflicts[i]] \in Batch(Conflict)
  BY DEF Database, Batch
<1>5. [i \in Item |->
          IF i \in copies \/ (i \in S /\ new[i] # d.conflicts[i].remote.val)
          THEN [rev |-> d.revision + 1, val |-> new[i]]
          ELSE IF i \in S THEN Nil ELSE d.pending[i]] \in Batch(Row)
  BY <1>2 DEF Database, Batch
<1> QED BY <1>1, <1>3, <1>4, <1>5, Zenon DEF SettleBatch, Database

LEMMA SettleOneType ==
    ASSUME NEW d \in Database, NEW i \in Item, NEW choice, d.conflicts[i] # Nil
    PROVE  SettleOne(d, i, choice) \in Database
<1> DEFINE e == [d.entities EXCEPT ![i] = IF choice = "use_cloud"
                                          THEN d.conflicts[i].remote.val ELSE @]
           c == [d.conflicts EXCEPT ![i] = Nil]
           p == [d.pending EXCEPT ![i] =
                   IF choice = "use_cloud" THEN Nil
                   ELSE [rev |-> d.revision + 1, val |-> d.entities[i]]]
<1>1. e \in Table
  BY SeenType DEF Database, Table
<1>2. c \in Batch(Conflict)
  BY DEF Database, Batch
<1>3. [rev |-> d.revision + 1, val |-> d.entities[i]] \in Row
  BY DEF Row, Database, Table
<1>4. p \in Batch(Row)
  BY <1>3 DEF Database, Batch
<1>5. d.revision + 1 \in Nat
  BY DEF Database
<1>6. SettleOne(d, i, choice) =
         [d EXCEPT !.entities = e, !.revision = d.revision + 1,
                   !.conflicts = c, !.pending = p]
  BY DEF SettleOne
<1> QED BY <1>1, <1>2, <1>4, <1>5, <1>6, Zenon DEF Database

-----------------------------------------------------------------------------
(* The cloud                                                               *)

LogEntry == [id : Nat, epoch : Nat, rows : Batch(Row)]

(* The rows a request becomes are well-formed. *)
LEMMA UploadedType ==
    ASSUME NEW items \in Batch(UploadRow)
    PROVE  UploadedRows(items) \in Batch(Row)
BY DEF UploadedRows, Batch, UploadRow, Row

(* Recording a batch leaves a well-formed cloud, and extends its log. *)
LEMMA AppendType ==
    ASSUME NEW c \in Cloud, NEW id \in Nat, NEW epoch \in Nat, NEW rows \in Batch(Row)
    PROVE  /\ AppendBatch(c, id, epoch, rows) \in Cloud
           /\ AppendBatch(c, id, epoch, rows).log
                = Append(c.log, [id |-> id, epoch |-> epoch, rows |-> rows])
           /\ AppendBatch(c, id, epoch, rows).expired = c.expired
<1> DEFINE log == Append(c.log, [id |-> id, epoch |-> epoch, rows |-> rows])
           items == [i \in Item |-> IF rows[i] = Nil THEN c.items[i] ELSE rows[i]]
<1>1. log \in Seq(LogEntry)
  BY DEF Cloud, LogEntry
<1>2. items \in Batch(Row)
  BY DEF Cloud, Batch
<1>3. AppendBatch(c, id, epoch, rows)
        = [c EXCEPT !.log = log, !.items = items, !.epoch = epoch]
  BY DEF AppendBatch
<1> HIDE DEF log, items
<1>4. AppendBatch(c, id, epoch, rows) \in Cloud
  BY <1>1, <1>2, <1>3, Zenon DEF Cloud, LogEntry
<1>5. /\ AppendBatch(c, id, epoch, rows).log = log
      /\ AppendBatch(c, id, epoch, rows).expired = c.expired
  BY <1>3, Zenon DEF Cloud
<1> QED BY <1>4, <1>5 DEF log

(* Handling a push leaves a well-formed cloud. *)
LEMMA HandlePushType ==
    ASSUME NEW c \in Cloud, NEW p \in Request
    PROVE  HandlePush(c, p) \in Cloud
<1>1. UploadedRows(p.items) \in Batch(Row)
  BY UploadedType DEF Request
<1>2. AppendBatch(c, p.id, c.epoch, UploadedRows(p.items)) \in Cloud
  BY <1>1, AppendType DEF Request, Cloud
<1> QED BY <1>2 DEF HandlePush

(* A recorded request is answered with a well-formed batch. *)
LEMMA BatchAnswerType ==
    ASSUME NEW c \in Cloud, NEW id, Applied(c, id) # {}
    PROVE  BatchAnswer(c, id) \in Answer
<1> DEFINE k == CHOOSE n \in Applied(c, id) : TRUE
<1>1. k \in 1..Len(c.log)
  BY SMTT(30) DEF Applied
<1>2. c.log \in Seq(LogEntry)
  BY DEF Cloud, LogEntry
<1> HIDE DEF k
<1>3. k \in Nat
  BY <1>1
<1>5. c.log[k] \in LogEntry
  BY <1>1, <1>2
<1>6. c.log[k].epoch \in Nat
  BY <1>5 DEF LogEntry
<1>4. [code |-> "OK", seq |-> k, epoch |-> c.log[k].epoch] \in Answer
  BY <1>3, <1>6 DEF Answer, PushCodes
<1> QED BY <1>4 DEF BatchAnswer, k

(* A push accepted is on record once it has been handled. *)
LEMMA HandledIsApplied ==
    ASSUME NEW c \in Cloud, NEW p \in Request, PushOutcome(c, p) = "OK"
    PROVE  Applied(HandlePush(c, p), p.id) # {}
<1>1. CASE Applied(c, p.id) # {}
  BY <1>1 DEF HandlePush
<1>2. CASE Applied(c, p.id) = {}
  <2> DEFINE entry == [id |-> p.id, epoch |-> c.epoch, rows |-> UploadedRows(p.items)]
             n == Len(c.log) + 1
  <2>1. UploadedRows(p.items) \in Batch(Row)
    BY UploadedType DEF Request
  <2>2. HandlePush(c, p) = AppendBatch(c, p.id, c.epoch, UploadedRows(p.items))
    BY <1>2 DEF HandlePush
  <2>a. p.id \in Nat /\ c.epoch \in Nat
    BY DEF Request, Cloud
  <2>b. HandlePush(c, p).log = Append(c.log, entry)
    BY <2>1, <2>2, <2>a, AppendType
  <2>3. c.log \in Seq(LogEntry) /\ entry \in LogEntry
    BY <2>1 DEF Cloud, LogEntry, Request
  <2>4. entry.id = p.id
    OBVIOUS
  <2> HIDE DEF entry
  <2>5. Len(HandlePush(c, p).log) = n /\ HandlePush(c, p).log[n] = entry /\ n \in Nat /\ n >= 1
    BY <2>b, <2>3
  <2>6. n \in Applied(HandlePush(c, p), p.id)
    BY <2>4, <2>5 DEF Applied
  <2> QED BY <2>6
<1> QED BY <1>1, <1>2

(* The answer to a push is well-formed. *)
LEMMA PushAnswerType ==
    ASSUME NEW c \in Cloud, NEW p \in Request
    PROVE  PushAnswer(c, p) \in Answer
<1>1. CASE PushOutcome(c, p) = "OK"
  BY <1>1, HandlePushType, HandledIsApplied, BatchAnswerType DEF PushAnswer
<1>2. CASE PushOutcome(c, p) # "OK"
  <2>1. PushOutcome(c, p) \in PushCodes
    BY DEF PushOutcome, PushCodes
  <2>2. [code |-> PushOutcome(c, p), seq |-> 0, epoch |-> 0] \in Answer
    BY <2>1 DEF Answer
  <2> QED BY <1>2, <2>2 DEF PushAnswer
<1> QED BY <1>1, <1>2

-----------------------------------------------------------------------------
(* Pieces of the engine's steps                                            *)

(* An operation that fails leaves the engine idle. *)
LEMMA HandleType ==
    ASSUME TypeOK, NEW code \in Code, Handle(code)
    PROVE  /\ db' \in Database /\ db'.pending = db.pending
           /\ pc' = "idle" /\ job' = NoJob
           /\ blocked' \in BOOLEAN /\ timer' \in {"none", "wake", "retry"}
<1>1. [db EXCEPT !.error = code] \in Database /\ [db EXCEPT !.error = code].pending = db.pending
  BY Zenon DEF TypeOK, Database
<1> QED BY <1>1 DEF Handle, TypeOK

(* The history of the pending edits keeps its type. *)
LEMMA KeepBasisType ==
    ASSUME NEW b, \A i \in Item : db'.pending[i] # Nil => b[i] \in Content, KeepBasis(b)
    PROVE  basis' \in Table
BY DEF KeepBasis, Table, Content

(* No operation under way is a well-formed one. *)
LEMMA NoJobType == NoJob \in Job
BY DEF NoJob, Job

(* A pull starts from a clean slate. *)
LEMMA PullThenType ==
    ASSUME NEW then \in {"drafting", "resolving", "again", "none"}, job \in Job, PullThen(then)
    PROVE  /\ pc' = "changes" /\ job' \in Job /\ job'.data = Nil
           /\ job'.then = then /\ job'.ask = job.ask
           /\ job'.page = 0 /\ job'.until = 0
<1>1. 0 \in Nat
  OBVIOUS
<1> QED BY <1>1, Zenon DEF PullThen, Job

(* An operation starts with settling a frozen request, if there is one. *)
LEMMA BeginType ==
    ASSUME NEW op \in {"cycle", "resolve"}, NEW then \in {"drafting", "resolving"},
           NEW ask \in {Nil} \cup Asked, then = "resolving" => ask \in Asked,
           Begin(op, then, ask)
    PROVE  /\ pc' \in {"recover", "changes"} /\ (pc' = "recover" => db.frozen # Nil)
           /\ job' \in Job /\ job'.data = Nil
           /\ job'.then = then /\ job'.page = 0 /\ job'.until = 0
           /\ job'.then = "resolving" => job'.ask \in Asked
<1>1. NoJob \in Job /\ NoJob.data = Nil /\ NoJob.page = 0 /\ NoJob.until = 0
  BY NoJobType DEF NoJob
<1>2. /\ job' \in Job /\ job'.data = Nil /\ job'.then = then /\ job'.ask = ask
      /\ job'.page = 0 /\ job'.until = 0
  BY <1>1, Zenon DEF Begin, Job
<1> QED BY <1>2 DEF Begin

-----------------------------------------------------------------------------
(* Type correctness                                                        *)

(* Nothing being paged is within the log. *)
LEMMA NothingPaged ==
    ASSUME cloud \in Cloud, job.page = 0, job.until = 0
    PROVE  PageIsLogged
<1>1. Seqno(cloud) \in Nat
  BY DEF Seqno, Cloud
<1> QED BY <1>1 DEF PageIsLogged

(* What is being paged does not change while the log stands. *)
LEMMA SamePaged ==
    ASSUME PageIsLogged, cloud' = cloud, job'.page = job.page, job'.until = job.until
    PROVE  PageIsLogged'
BY DEF PageIsLogged, Seqno

LEMMA NothingPagedNext ==
    ASSUME TypeOK, cloud' = cloud, job'.page = 0, job'.until = 0
    PROVE  PageIsLogged'
<1>1. Seqno(cloud) \in Nat
  BY DEF Seqno, Cloud, TypeOK
<1> QED BY <1>1 DEF PageIsLogged, Seqno

LEMMA TypeInit == Init => TypeOK
<1> SUFFICES ASSUME Init PROVE TypeOK
  OBVIOUS
<1>1. InitDatabase \in Database /\ [InitDatabase EXCEPT !.initialized = TRUE] \in Database
  <2>1. EmptyTable \in Table /\ NoRows \in Batch(Row) /\ NoRows \in Batch(Conflict)
    BY DEF EmptyTable, Table, Content, NoRows, Batch
  <2>2. InitDatabase \in Database
    BY <2>1, CodeAssumption DEF InitDatabase, Database
  <2> QED BY <2>2, Zenon DEF Database
<1>2. InitCloud \in Cloud
  BY DEF InitCloud, Cloud, NoRows, Batch
<1>3. EmptyTable \in Table
  BY DEF EmptyTable, Table, Content
<1>4. PageIsLogged
  BY <1>2, NothingPaged DEF Init, NoJob
<1>5. HoldsWhatItNeeds
  BY <1>4 DEF Init, NoJob, HoldsWhatItNeeds
<1> QED BY <1>1, <1>2, <1>3, <1>5, NoJobType DEF Init, TypeOK, Control

(* A step of the engine that fails with a known code leaves it typed. *)
LEMMA FailureType ==
    ASSUME TypeOK, \E code \in Code : Handle(code), basis' \in Table,
           UNCHANGED <<enabled, nextId, wire, cloud>>
    PROVE  TypeOK'
<1>1. NoJob \in Job /\ NoJob.then = "none"
  BY NoJobType DEF NoJob
<1>2. PICK code \in Code : Handle(code)
  OBVIOUS
<1>3. /\ db' \in Database /\ pc' = "idle" /\ job' = NoJob
      /\ blocked' \in BOOLEAN /\ timer' \in {"none", "wake", "retry"}
  BY <1>2, HandleType
<1>4. PageIsLogged'
  BY <1>3, NothingPagedNext DEF NoJob
<1> QED BY <1>1, <1>3, <1>4 DEF TypeOK, HoldsWhatItNeeds, Control

LEMMA EditType ==
    ASSUME TypeOK, NEW S \in SUBSET Item, NEW new \in [S -> Content], Edit(S, new)
    PROVE  TypeOK'
<1> DEFINE b == [i \in Item |-> IF i \in S /\ db.pending[i] = Nil
                               THEN db.entities[i] ELSE basis[i]]
<1>1. db' \in Database
  BY CommitType DEF Edit, TypeOK
<1>2. \A i \in Item : b[i] \in Content
  BY DEF TypeOK, Database, Table
<1>3. basis' \in Table
  BY <1>2, KeepBasisType DEF Edit
<1>4. db'.frozen = db.frozen
  BY Zenon DEF Edit, Commit, TypeOK, Database
<1>5. HoldsWhatItNeeds'
  <2>1. PageIsLogged'
    BY SamePaged DEF Edit, TypeOK, HoldsWhatItNeeds
  <2> QED BY <1>4, <2>1 DEF Edit, TypeOK, HoldsWhatItNeeds
<1> QED BY <1>1, <1>3, <1>5 DEF Edit, TypeOK, Woken

LEMMA SetEnabledType ==
    ASSUME TypeOK, NEW on \in BOOLEAN, SetEnabled(on)
    PROVE  TypeOK'
<1>1. db' \in Database /\ db'.frozen = db.frozen
  BY CodeAssumption, Zenon DEF SetEnabled, TypeOK, Database
<1>2. PageIsLogged'
  BY SamePaged DEF SetEnabled, TypeOK, HoldsWhatItNeeds
<1> QED BY <1>1, <1>2 DEF SetEnabled, TypeOK, Woken, HoldsWhatItNeeds

(* Starting a cycle clears the error shown. *)
LEMMA StartType ==
    ASSUME TypeOK, Begin("cycle", "drafting", Nil), db' = [db EXCEPT !.error = ""],
           timer' \in {"none", "wake", "retry"}, blocked' \in BOOLEAN,
           UNCHANGED <<enabled, nextId, wire, cloud, basis>>
    PROVE  TypeOK'
<1>1. db' \in Database /\ db'.frozen = db.frozen
  BY CodeAssumption, Zenon DEF TypeOK, Database
<1>2. /\ pc' \in {"recover", "changes"} /\ (pc' = "recover" => db.frozen # Nil)
      /\ job' \in Job /\ job'.data = Nil /\ job'.then = "drafting"
      /\ job'.page = 0 /\ job'.until = 0
  BY BeginType
<1>3. PageIsLogged'
  BY <1>2, NothingPagedNext
<1> QED BY <1>1, <1>2, <1>3 DEF TypeOK, HoldsWhatItNeeds, Control

LEMMA StartCycleType ==
    ASSUME TypeOK, StartCycle
    PROVE  TypeOK'
<1>1. CASE enabled /\ db.initialized
  BY <1>1, StartType DEF StartCycle, TypeOK
<1>2. CASE ~(enabled /\ db.initialized)
  <2>1. PageIsLogged'
    BY <1>2, SamePaged DEF StartCycle, TypeOK, HoldsWhatItNeeds
  <2> QED BY <1>2, <2>1 DEF StartCycle, TypeOK, HoldsWhatItNeeds
<1> QED BY <1>1, <1>2

LEMMA SyncNowType ==
    ASSUME TypeOK, SyncNow
    PROVE  TypeOK'
<1>1. CASE enabled /\ db.initialized
  BY <1>1, StartType DEF SyncNow, TypeOK
<1>2. CASE ~(enabled /\ db.initialized)
  <2>1. PageIsLogged'
    BY <1>2, SamePaged DEF SyncNow, TypeOK, HoldsWhatItNeeds
  <2> QED BY <1>2, <2>1 DEF SyncNow, TypeOK, HoldsWhatItNeeds
<1> QED BY <1>1, <1>2

LEMMA RecoverType ==
    ASSUME TypeOK, Recover
    PROVE  TypeOK'
<1>1. db.frozen \in Request
  BY DEF Recover, TypeOK, HoldsWhatItNeeds, Database
<1>2. CASE Applied(cloud, db.frozen.id) # {}
  <2>1. BatchAnswer(cloud, db.frozen.id) \in Answer
    BY <1>2, BatchAnswerType DEF TypeOK
  <2>2. /\ job' \in Job /\ job'.data \in Answer
        /\ job'.then = job.then /\ job'.ask = job.ask
        /\ job'.page = job.page /\ job'.until = job.until
    BY <1>2, <2>1, Zenon DEF Recover, TypeOK, Job
  <2>3. PageIsLogged'
    BY <2>2, SamePaged DEF Recover, TypeOK, HoldsWhatItNeeds
  <2> QED BY <1>2, <2>2, <2>3 DEF Recover, TypeOK, HoldsWhatItNeeds, Control
<1>3. CASE Applied(cloud, db.frozen.id) = {}
  <2>1. PageIsLogged'
    BY <1>3, SamePaged DEF Recover, TypeOK, HoldsWhatItNeeds
  <2> QED BY <1>1, <1>3, <2>1 DEF Recover, TypeOK, HoldsWhatItNeeds, Control
<1> QED BY <1>2, <1>3

LEMMA AnswerArrivesType ==
    ASSUME TypeOK, AnswerArrives
    PROVE  TypeOK'
<1>1. job.data \in Answer /\ job.data.code \in PushCodes
  BY DEF AnswerArrives, TypeOK, HoldsWhatItNeeds, Answer
<1>2. CASE job.data.code = "OK" \/ job.op = "cycle"
  <2>2. UNCHANGED <<db, job, blocked, timer>> /\ pc' \in {"ack", "thaw"}
    BY <1>2 DEF AnswerArrives
  <2>3. PageIsLogged'
    BY <2>2, SamePaged DEF AnswerArrives, TypeOK, HoldsWhatItNeeds
  <2> QED BY <1>1, <2>2, <2>3 DEF AnswerArrives, TypeOK, HoldsWhatItNeeds, Control
<1>3. CASE Handle(job.data.code)
  <2>1. job.data.code \in Code
    BY <1>1, EngineAssumption DEF EngineCodes
  <2>2. \E code \in Code : Handle(code)
    BY <1>3, <2>1 DEF Handle
  <2> QED BY <2>2, FailureType DEF AnswerArrives, TypeOK
<1> QED BY <1>2, <1>3 DEF AnswerArrives

(* The job once a pull or a request has started or ended. *)
LEMMA AckRequestType ==
    ASSUME TypeOK, AckRequest
    PROVE  TypeOK'
<1>1. db.frozen \in Request /\ job.data \in Answer
  BY DEF AckRequest, TypeOK, HoldsWhatItNeeds, Database
<1>2. CASE AckAllowed(db, db.frozen.id, job.data.seq, job.data.epoch)
  <2> DEFINE b == [i \in Item |-> IF db.frozen.items[i] # Nil
                                  THEN db.frozen.items[i].val ELSE basis[i]]
  <2>1. db' \in Database
    BY <1>1, <1>2, AckType DEF AckRequest, Answer, TypeOK
  <2>2. \A i \in Item : b[i] \in Content
    BY <1>1 DEF TypeOK, Table, Request, Batch, UploadRow
  <2>3. basis' \in Table
    BY <1>2, <2>2, KeepBasisType DEF AckRequest
  <2>4. job.then \in {"none", "drafting", "resolving", "again"} /\ job \in Job
    BY DEF TypeOK, Job
  <2>5. PullThen(job.then)
    BY <1>2 DEF AckRequest
  <2>6. /\ pc' = "changes" /\ job' \in Job /\ job'.data = Nil
        /\ job'.then = job.then /\ job'.ask = job.ask
        /\ job'.page = 0 /\ job'.until = 0
    <3>1. 0 \in Nat
      OBVIOUS
    <3> QED BY <2>4, <2>5, <3>1, Zenon DEF PullThen, Job
  <2>7. PageIsLogged'
    BY <2>6, NothingPagedNext DEF AckRequest
  <2> QED BY <1>2, <2>1, <2>3, <2>6, <2>7 DEF AckRequest, TypeOK, HoldsWhatItNeeds, Control
<1>3. CASE ~AckAllowed(db, db.frozen.id, job.data.seq, job.data.epoch)
  <2>1. Handle("SYNC_PROTOCOL") /\ "SYNC_PROTOCOL" \in Code
    BY <1>3, EngineAssumption DEF AckRequest, EngineCodes
  <2> QED BY <1>3, <2>1, FailureType DEF AckRequest, TypeOK
<1> QED BY <1>2, <1>3

LEMMA ThawRequestType ==
    ASSUME TypeOK, ThawRequest
    PROVE  TypeOK'
<1>1. db' \in Database
  BY ThawType DEF ThawRequest, TypeOK
<1>2. /\ pc' = "changes" /\ job' \in Job /\ job'.data = Nil
      /\ job'.then = "again" /\ job'.ask = job.ask
      /\ job'.page = 0 /\ job'.until = 0
  BY PullThenType DEF ThawRequest, TypeOK
<1>3. PageIsLogged'
  BY <1>2, NothingPagedNext DEF ThawRequest
<1> QED BY <1>1, <1>2, <1>3 DEF ThawRequest, TypeOK, HoldsWhatItNeeds, Control

LEMMA GetChangesType ==
    ASSUME TypeOK, GetChanges
    PROVE  TypeOK'
<1>1. CASE db.cursor < cloud.expired
  <2>1. PageIsLogged'
    BY <1>1, SamePaged DEF GetChanges, TypeOK, HoldsWhatItNeeds
  <2> QED BY <1>1, <2>1 DEF GetChanges, TypeOK, HoldsWhatItNeeds, Control
<1>2. CASE ~(db.cursor < cloud.expired)
  <2> DEFINE upper == IF job.until = 0 THEN Seqno(cloud) ELSE job.until
             last == db.cursor + PageSize
             page == IF last < upper THEN last ELSE upper
  <2>1. upper \in Nat /\ page \in Nat /\ page <= upper /\ upper <= Seqno(cloud)
    <3>1. Seqno(cloud) \in Nat
      BY DEF Seqno, TypeOK, Cloud
    <3>2. db.cursor \in Nat /\ job.until \in Nat
      BY DEF TypeOK, Database, Job
    <3> QED BY <3>1, <3>2, EngineAssumption DEF TypeOK, HoldsWhatItNeeds, PageIsLogged
  <2>2. job' = [job EXCEPT !.until = upper, !.page = page] /\ pc' = "applying"
    BY <1>2 DEF GetChanges
  <2> HIDE DEF upper, page
  <2>3. /\ job' \in Job /\ job'.then = job.then /\ job'.ask = job.ask
        /\ job'.until = upper /\ job'.page = page
    BY <2>1, <2>2, Zenon DEF TypeOK, Job
  <2>4. PageIsLogged'
    BY <2>1, <2>3 DEF GetChanges, PageIsLogged, Seqno
  <2> QED BY <2>2, <2>3, <2>4 DEF GetChanges, TypeOK, HoldsWhatItNeeds, Control
<1> QED BY <1>1, <1>2

(* A finished pull leaves the engine where the operation goes on. *)
LEMMA AfterPullType ==
    ASSUME TypeOK, pc # "idle", AfterPull
    PROVE  /\ job' \in Job /\ job'.data = Nil
           /\ pc' \in {"idle", "drafting", "resolving"}
           /\ pc' = "resolving" \/ job'.then = "resolving" => job'.ask \in Asked
           /\ pc' = "idle" \/ job'.then # "none"
           /\ job'.page = 0 /\ job'.until = 0
           /\ timer' \in {"none", "wake", "retry"}
<1>1. CASE job.then = "again"
  BY <1>1, NoJobType DEF AfterPull, NoJob, Woken, TypeOK
<1>2. CASE job.then # "again"
  <2>1. 0 \in Nat
    OBVIOUS
  <2>2. /\ job' \in Job /\ job'.data = Nil /\ job'.then = job.then
        /\ job'.ask = job.ask /\ job'.page = 0 /\ job'.until = 0
    BY <1>2, <2>1, Zenon DEF AfterPull, Job, TypeOK
  <2>3. job.then \in {"none", "drafting", "resolving", "again"}
    BY DEF TypeOK, Job
  <2> QED BY <1>2, <2>2, <2>3 DEF AfterPull, TypeOK, HoldsWhatItNeeds
<1> QED BY <1>1, <1>2

(* The batch an increment brings is one the cloud recorded. *)
LEMMA LogRowType ==
    ASSUME TypeOK, NEW n \in 1..Seqno(cloud)
    PROVE  cloud.log[n].rows \in Batch(Row) /\ cloud.log[n].epoch \in Nat
<1>1. cloud.log \in Seq(LogEntry)
  BY DEF TypeOK, Cloud, LogEntry
<1>2. cloud.log[n] \in LogEntry
  BY <1>1 DEF Seqno
<1> QED BY <1>2 DEF LogEntry

(* Applying accepted rows leaves a well-formed database. *)
LEMMA ApplyStep ==
    ASSUME NEW d \in Database, NEW rows \in Batch(Row), NEW snapshot \in BOOLEAN,
           NEW cursor \in Nat, NEW epoch \in Nat, NEW A, Accepts(d, rows, snapshot, A)
    PROVE  ApplyValues(d, rows, cursor, epoch, snapshot, A) \in Database
<1>1. A \in SUBSET Candidates(d, rows, snapshot)
  BY DEF Accepts
<1> QED BY <1>1, ApplyType

LEMMA ApplyBatchType ==
    ASSUME TypeOK, ApplyBatch
    PROVE  TypeOK'
<1> DEFINE batch == cloud.log[db.cursor + 1]
<1>1. db.cursor + 1 \in 1..Seqno(cloud) /\ db.cursor + 1 \in Nat
  <2>1. Seqno(cloud) \in Nat /\ db.cursor \in Nat /\ job.page \in Nat /\ job.until \in Nat
    BY DEF TypeOK, Cloud, Seqno, Database, Job
  <2> QED BY <2>1 DEF ApplyBatch, TypeOK, HoldsWhatItNeeds, PageIsLogged
<1>2. batch.rows \in Batch(Row) /\ batch.epoch \in Nat
  BY <1>1, LogRowType
<1>3. CASE batch.epoch # db.epoch
  <2>1. pc' = "snapshot" /\ UNCHANGED <<db, job, blocked, timer, basis>>
    BY <1>3 DEF ApplyBatch
  <2>2. PageIsLogged'
    BY <2>1, SamePaged DEF ApplyBatch, TypeOK, HoldsWhatItNeeds
  <2> QED BY <2>1, <2>2 DEF ApplyBatch, TypeOK, HoldsWhatItNeeds, Control
<1>4. ASSUME NEW A \in SUBSET Item, Accepts(db, batch.rows, FALSE, A),
             db' = ApplyValues(db, batch.rows, db.cursor + 1, batch.epoch, FALSE, A),
             KeepBasis(basis), UNCHANGED <<pc, job, blocked, timer>>
      PROVE  TypeOK'
  <2>1. db' \in Database /\ db'.frozen = db.frozen
    <3>1. db \in Database /\ FALSE \in BOOLEAN
      BY DEF TypeOK
    <3>2. db' \in Database
      BY <1>1, <1>2, <1>4, <3>1, ApplyStep
    <3>3. db'.frozen = db.frozen
      BY <1>4, <3>1, Zenon DEF ApplyValues, Database
    <3> QED BY <3>2, <3>3
  <2>2. basis' \in Table
    BY <1>4, KeepBasisType DEF TypeOK, Table
  <2>3. PageIsLogged'
    BY <1>4, SamePaged DEF ApplyBatch, TypeOK, HoldsWhatItNeeds
  <2> QED BY <1>4, <2>1, <2>2, <2>3 DEF ApplyBatch, TypeOK, HoldsWhatItNeeds
<1>5. CASE Handle("SYNC_PROTOCOL") /\ UNCHANGED basis
  <2>1. "SYNC_PROTOCOL" \in Code
    BY EngineAssumption DEF EngineCodes
  <2> QED BY <1>5, <2>1, FailureType DEF ApplyBatch, TypeOK
<1> QED BY <1>3, <1>4, <1>5 DEF ApplyBatch

LEMMA FinishPageType ==
    ASSUME TypeOK, FinishPage
    PROVE  TypeOK'
<1>1. CASE job.page < job.until
  <2>1. pc' = "changes" /\ UNCHANGED <<job, timer>>
    BY <1>1 DEF FinishPage
  <2>2. PageIsLogged'
    BY <2>1, SamePaged DEF FinishPage, TypeOK, HoldsWhatItNeeds
  <2>3. job.data = Nil
    BY DEF FinishPage, TypeOK, HoldsWhatItNeeds
  <2> QED BY <2>1, <2>2, <2>3 DEF FinishPage, TypeOK, HoldsWhatItNeeds, Control
<1>2. CASE ~(job.page < job.until)
  <2>1. /\ job' \in Job /\ job'.data = Nil
        /\ pc' \in {"idle", "drafting", "resolving"}
        /\ pc' = "resolving" \/ job'.then = "resolving" => job'.ask \in Asked
        /\ pc' = "idle" \/ job'.then # "none"
        /\ job'.page = 0 /\ job'.until = 0
        /\ timer' \in {"none", "wake", "retry"}
    BY <1>2, AfterPullType DEF FinishPage
  <2>2. PageIsLogged'
    BY <2>1, NothingPagedNext DEF FinishPage
  <2> QED BY <2>1, <2>2 DEF FinishPage, TypeOK, HoldsWhatItNeeds, Control
<1> QED BY <1>1, <1>2

LEMMA TakeSnapshotType ==
    ASSUME TypeOK, TakeSnapshot
    PROVE  TypeOK'
<1>1. SnapshotOf(cloud) \in Snapshot
  BY DEF SnapshotOf, Snapshot, TypeOK, Cloud, Seqno
<1>2. /\ job' \in Job /\ job'.data \in Snapshot
      /\ job'.then = job.then /\ job'.ask = job.ask
      /\ job'.page = job.page /\ job'.until = job.until
  BY <1>1, Zenon DEF TakeSnapshot, TypeOK, Job
<1>3. PageIsLogged'
  BY <1>2, SamePaged DEF TakeSnapshot, TypeOK, HoldsWhatItNeeds
<1> QED BY <1>2, <1>3 DEF TakeSnapshot, TypeOK, HoldsWhatItNeeds, Control

LEMMA RestoreSnapshotType ==
    ASSUME TypeOK, RestoreSnapshot
    PROVE  TypeOK'
<1>1. job.data.rows \in Batch(Row) /\ job.data.seq \in Nat /\ job.data.epoch \in Nat
  BY DEF RestoreSnapshot, TypeOK, HoldsWhatItNeeds, Snapshot
<1>2. PICK A \in SUBSET Item :
        /\ Accepts(db, job.data.rows, TRUE, A)
        /\ db' = ApplyValues(db, job.data.rows, job.data.seq, job.data.epoch, TRUE, A)
  BY DEF RestoreSnapshot
<1>3. db' \in Database /\ db'.frozen = db.frozen
  <2>1. db \in Database /\ TRUE \in BOOLEAN
    BY DEF TypeOK
  <2>2. db' \in Database
    BY <1>1, <1>2, <2>1, ApplyStep
  <2>3. db'.frozen = db.frozen
    BY <1>2, <2>1, Zenon DEF ApplyValues, Database
  <2> QED BY <2>2, <2>3
<1>4. basis' \in Table
  BY KeepBasisType DEF RestoreSnapshot, TypeOK, Table
<1>5. /\ job' \in Job /\ job'.data = Nil
      /\ pc' \in {"idle", "drafting", "resolving"}
      /\ pc' = "resolving" \/ job'.then = "resolving" => job'.ask \in Asked
      /\ pc' = "idle" \/ job'.then # "none"
      /\ job'.page = 0 /\ job'.until = 0
      /\ timer' \in {"none", "wake", "retry"}
  BY AfterPullType DEF RestoreSnapshot
<1>6. PageIsLogged'
  BY <1>5, NothingPagedNext DEF RestoreSnapshot
<1> QED BY <1>3, <1>4, <1>5, <1>6 DEF RestoreSnapshot, TypeOK, HoldsWhatItNeeds, Control

LEMMA MakeDraftType ==
    ASSUME TypeOK, MakeDraft
    PROVE  TypeOK'
<1>1. CASE Uploadable(db) = {}
  <2>1. job' \in Job /\ job' = NoJob /\ pc' = "idle"
    BY <1>1, NoJobType DEF MakeDraft
  <2>2. PageIsLogged'
    BY <2>1, NothingPagedNext DEF MakeDraft, NoJob
  <2> QED BY <2>1, <2>2 DEF MakeDraft, NoJob, TypeOK, HoldsWhatItNeeds, Control
<1>2. CASE Uploadable(db) # {}
  <2>1. Draft(db) \in Drafted
    BY DraftType DEF Drafted, TypeOK
  <2>2. /\ job' \in Job /\ job'.data \in Drafted
        /\ job'.then = job.then /\ job'.ask = job.ask
        /\ job'.page = job.page /\ job'.until = job.until
    BY <1>2, <2>1, Zenon DEF MakeDraft, TypeOK, Job
  <2>3. PageIsLogged'
    BY <2>2, SamePaged DEF MakeDraft, TypeOK, HoldsWhatItNeeds
  <2> QED BY <1>2, <2>2, <2>3 DEF MakeDraft, TypeOK, HoldsWhatItNeeds, Control
<1> QED BY <1>1, <1>2

LEMMA FreezeAndSendType ==
    ASSUME TypeOK, FreezeAndSend
    PROVE  TypeOK'
<1>1. CASE FreezeAllowed(db, job.data)
  <2>1. job.data \in [cursor : Nat, epoch : Nat, items : Batch(UploadRow)]
    BY DEF FreezeAndSend, TypeOK, HoldsWhatItNeeds, Drafted
  <2>2. db' \in Database /\ db'.frozen \in Request
    BY <1>1, <2>1, FreezeType DEF FreezeAndSend, TypeOK
  <2>3. /\ job' \in Job /\ job'.data = Nil
        /\ job'.then = "again" /\ job'.ask = job.ask
        /\ job'.page = job.page /\ job'.until = job.until
    BY <1>1, Zenon DEF FreezeAndSend, TypeOK, Job
  <2>4. PageIsLogged'
    BY <2>3, SamePaged DEF FreezeAndSend, TypeOK, HoldsWhatItNeeds
  <2>5. db'.frozen # Nil
    BY <2>2, NilIsNoRow
  <2>6. nextId' \in Nat /\ wire' \subseteq Request
    BY <1>1, <2>2 DEF FreezeAndSend, TypeOK
  <2> QED BY <1>1, <2>2, <2>3, <2>4, <2>5, <2>6
          DEF FreezeAndSend, TypeOK, HoldsWhatItNeeds, Control
<1>2. CASE ~FreezeAllowed(db, job.data)
  <2>1. \E code \in Code : Handle(code)
    <3>1. "SYNC_BUSY" \in Code /\ "SYNC_CHANGED" \in Code
      BY EngineAssumption DEF EngineCodes
    <3>2. CASE db.frozen # Nil
      BY <1>2, <3>1, <3>2 DEF FreezeAndSend, Handle
    <3>3. CASE db.frozen = Nil
      BY <1>2, <3>1, <3>3 DEF FreezeAndSend, Handle
    <3> QED BY <3>2, <3>3
  <2> QED BY <1>2, <2>1, FailureType DEF FreezeAndSend, TypeOK
<1> QED BY <1>1, <1>2

LEMMA AskType ==
    ASSUME TypeOK, NEW batch \in BOOLEAN, NEW S \in SUBSET Conflicted(db),
           NEW pick \in [S -> Choices], Ask(batch, S, pick)
    PROVE  TypeOK'
<1> DEFINE ask == [batch |-> batch, S |-> S, pick |-> pick, revision |-> db.revision,
                   rev |-> [i \in S |-> db.conflicts[i].remote.rev]]
<1>1. S \in SUBSET Item
  BY DEF Conflicted
<1>2. [i \in S |-> db.conflicts[i].remote.rev] \in [S -> Nat]
  <2>1. ASSUME NEW i \in S PROVE db.conflicts[i].remote.rev \in Nat
    <3>1. db.conflicts[i] \in Conflict
      BY DEF Conflicted, TypeOK, Database, Batch
    <3> QED BY <3>1 DEF Conflict, Row
  <2> QED BY <2>1
<1>3. db.revision \in Nat
  BY DEF TypeOK, Database
<1>4. ask \in [batch : BOOLEAN, S : {S}, pick : [S -> Choices],
              revision : Nat, rev : [S -> Nat]]
  BY <1>2, <1>3
<1>5. ask \in Asked
  BY <1>1, <1>4, Zenon DEF Asked
<1> HIDE DEF ask
<1>6. /\ Begin("resolve", "resolving", ask)
      /\ UNCHANGED <<db, enabled, timer, blocked, nextId, wire, cloud, basis>>
  BY DEF Ask, ask
<1>7. /\ pc' \in {"recover", "changes"} /\ (pc' = "recover" => db.frozen # Nil)
      /\ job' \in Job /\ job'.data = Nil /\ job'.then = "resolving"
      /\ job'.page = 0 /\ job'.until = 0 /\ job'.ask \in Asked
  BY <1>5, <1>6, BeginType
<1>8. PageIsLogged'
  BY <1>6, <1>7, NothingPagedNext
<1> QED BY <1>6, <1>7, <1>8 DEF TypeOK, HoldsWhatItNeeds, Control

LEMMA AskedItems ==
    ASSUME NEW ask \in Asked
    PROVE  ask.S \in SUBSET Item
<1>1. PICK T \in SUBSET Item :
        ask \in [batch : BOOLEAN, S : {T}, pick : [T -> Choices],
                revision : Nat, rev : [T -> Nat]]
  BY Zenon DEF Asked
<1>2. ask.S = T
  BY <1>1
<1> QED BY <1>1, <1>2

(* The conflicts a resolution goes through with are there. *)
LEMMA NotRefused ==
    ASSUME Refusal = "", NEW i \in job.ask.S
    PROVE  db.conflicts[i] # Nil
BY DEF Refusal, SeenConflict

(* A settled database is well-formed, and nothing is under way in it. *)
LEMMA SettlementType ==
    ASSUME TypeOK, pc = "resolving", Refusal = "", NEW d \in Settlements
    PROVE  d \in Database /\ d.frozen = db.frozen
<1>1. job.ask.S \in SUBSET Item
  <2>1. job.ask \in Asked
    BY DEF TypeOK, HoldsWhatItNeeds
  <2> QED BY <2>1, AskedItems
<1>2. db \in Database
  BY DEF TypeOK
<1>3. CASE job.ask.batch
  <2>1. PICK copies \in SUBSET Unused, new \in [Item -> Content] :
          d = SettleBatch(db, job.ask.S, copies, new)
    BY <1>3 DEF Settlements
  <2>2. copies \in SUBSET Item
    BY EngineAssumption DEF Unused
  <2>3. d \in Database
    BY <1>1, <1>2, <2>1, <2>2, SettleBatchType
  <2>4. d.frozen = db.frozen
    BY <1>2, <2>1, Zenon DEF SettleBatch, Database
  <2> QED BY <2>3, <2>4
<1>4. CASE ~job.ask.batch
  <2>1. PICK i \in job.ask.S : d = SettleOne(db, i, job.ask.pick[i])
    BY <1>4 DEF Settlements
  <2>2. i \in Item /\ db.conflicts[i] # Nil
    BY <1>1, NotRefused
  <2>3. d \in Database
    BY <1>2, <2>1, <2>2, SettleOneType
  <2>4. d.frozen = db.frozen
    BY <1>2, <2>1, Zenon DEF SettleOne, Database
  <2> QED BY <2>3, <2>4
<1> QED BY <1>3, <1>4

LEMMA ResolveType ==
    ASSUME TypeOK, Resolve
    PROVE  TypeOK'
<1>1. NoRows \in Batch(Row) /\ FALSE \in BOOLEAN
  BY DEF NoRows, Batch
<1>2. CASE Refusal # "" /\ Handle(Refusal) /\ UNCHANGED basis
  <2>1. Refusal \in {"SYNC_BUSY", "NOT_FOUND", "CONFLICT_CHANGED", "SYNC_MERGE_INVALID"}
    BY <1>2 DEF Refusal
  <2>2. \E code \in Code : Handle(code)
    BY <1>2, <2>1, EngineAssumption DEF Handle, EngineCodes
  <2> QED BY <1>2, <2>2, FailureType DEF Resolve, TypeOK
<1>3. ASSUME Handle(IF job.ask.batch THEN "SYNC_DEPENDENCY" ELSE "VALIDATION"),
             UNCHANGED basis
      PROVE  TypeOK'
  <2>1. \E code \in Code : Handle(code)
    BY <1>3, EngineAssumption DEF Handle, EngineCodes
  <2> QED BY <1>3, <2>1, FailureType DEF Resolve, TypeOK
<1>4. ASSUME Refusal = "", NEW d \in Settlements, NEW A \in SUBSET Item,
             Accepts(d, NoRows, FALSE, A),
             db' = ApplyValues(d, NoRows, d.cursor, d.epoch, FALSE, A),
             pc' = "idle", job' = NoJob, blocked' = FALSE, timer' = Woken(FALSE),
             KeepBasis([i \in Item |-> IF i \in job.ask.S
                          THEN db.conflicts[i].remote.val ELSE basis[i]])
      PROVE  TypeOK'
  <2>1. d \in Database /\ d.cursor \in Nat /\ d.epoch \in Nat
    BY <1>4, SettlementType DEF Resolve, Database
  <2>2. db' \in Database
    BY <1>1, <1>4, <2>1, ApplyStep
  <2>3. \A i \in Item : (IF i \in job.ask.S THEN db.conflicts[i].remote.val
                        ELSE basis[i]) \in Content
    BY <1>4, NotRefused, SeenType DEF TypeOK, Table
  <2>4. basis' \in Table
    BY <1>4, <2>3, KeepBasisType
  <2>5. PageIsLogged'
    BY <1>4, NothingPagedNext DEF Resolve, NoJob
  <2>6. NoJob \in Job /\ NoJob.data = Nil /\ NoJob.then = "none"
    BY NoJobType DEF NoJob
  <2> QED BY <1>4, <2>2, <2>4, <2>5, <2>6
          DEF Resolve, TypeOK, HoldsWhatItNeeds, Control, Woken
<1> QED BY <1>2, <1>3, <1>4 DEF Resolve

LEMMA RequestFailsType ==
    ASSUME TypeOK, NEW code \in RetryCodes \cup FatalCodes, RequestFails(code)
    PROVE  TypeOK'
<1>1. code \in Code
  BY EngineAssumption
<1> QED BY <1>1, FailureType DEF RequestFails, TypeOK

(* The log only grows. *)
LEMMA HandlePushGrows ==
    ASSUME NEW c \in Cloud, NEW p \in Request
    PROVE  Seqno(HandlePush(c, p)) \in Nat /\ Seqno(c) \in Nat
           /\ Seqno(c) <= Seqno(HandlePush(c, p))
<1>1. UploadedRows(p.items) \in Batch(Row) /\ p.id \in Nat /\ c.epoch \in Nat
  BY UploadedType DEF Request, Cloud
<1>2. AppendBatch(c, p.id, c.epoch, UploadedRows(p.items)).log
        = Append(c.log, [id |-> p.id, epoch |-> c.epoch, rows |-> UploadedRows(p.items)])
  BY <1>1, AppendType
<1>3. c.log \in Seq(LogEntry)
        /\ [id |-> p.id, epoch |-> c.epoch, rows |-> UploadedRows(p.items)] \in LogEntry
  BY <1>1 DEF Cloud, LogEntry
<1> QED BY <1>2, <1>3 DEF HandlePush, Seqno

LEMMA CloudPushType ==
    ASSUME TypeOK, NEW p \in wire, CloudPush(p)
    PROVE  TypeOK'
<1>1. p \in Request /\ cloud \in Cloud
  BY DEF TypeOK
<1>2. cloud' \in Cloud
  BY <1>1, HandlePushType DEF CloudPush
<1>3. Seqno(cloud) <= Seqno(cloud') /\ Seqno(cloud) \in Nat /\ Seqno(cloud') \in Nat
  BY <1>1, HandlePushGrows DEF CloudPush
<1>4. CASE pc = "awaiting" /\ db.frozen.id = p.id /\ job.data = Nil
  <2>1. PushAnswer(cloud, p) \in Answer
    BY <1>1, PushAnswerType
  <2>2. /\ job' \in Job /\ job'.data \in Answer
        /\ job'.then = job.then /\ job'.ask = job.ask
        /\ job'.page = job.page /\ job'.until = job.until
    BY <1>4, <2>1, Zenon DEF CloudPush, TypeOK, Job
  <2>3. PageIsLogged'
    <3>1. job.until \in Nat
      BY DEF TypeOK, Job
    <3> QED BY <1>3, <2>2, <3>1 DEF PageIsLogged, TypeOK, HoldsWhatItNeeds
  <2> QED BY <1>2, <1>4, <2>2, <2>3 DEF CloudPush, TypeOK, HoldsWhatItNeeds
<1>5. CASE ~(pc = "awaiting" /\ db.frozen.id = p.id /\ job.data = Nil)
  <2>1. job' = job
    BY <1>5 DEF CloudPush
  <2>2. PageIsLogged'
    <3>1. job.until \in Nat
      BY DEF TypeOK, Job
    <3> QED BY <1>3, <2>1, <3>1 DEF PageIsLogged, TypeOK, HoldsWhatItNeeds
  <2> QED BY <1>2, <2>1, <2>2 DEF CloudPush, TypeOK, HoldsWhatItNeeds
<1> QED BY <1>4, <1>5

LEMMA LosePushType ==
    ASSUME TypeOK, NEW p \in wire, LosePush(p)
    PROVE  TypeOK'
<1>1. PageIsLogged'
  BY SamePaged DEF LosePush, deviceVars, TypeOK, HoldsWhatItNeeds
<1> QED BY <1>1 DEF LosePush, deviceVars, TypeOK, HoldsWhatItNeeds

LEMMA PeerPushType ==
    ASSUME TypeOK, NEW S \in SUBSET Item, NEW new \in [S -> Content],
           NEW replace \in BOOLEAN, PeerPush(S, new, replace)
    PROVE  TypeOK'
<1> DEFINE rows == [i \in Item |-> IF i \in S
                     THEN [rev |-> CloudRev(cloud, i) + 1, val |-> new[i]] ELSE Nil]
           epoch == cloud.epoch + (IF replace THEN 1 ELSE 0)
<1>1. cloud \in Cloud
  BY DEF TypeOK
<1>2. \A i \in Item : CloudRev(cloud, i) \in Nat
  BY <1>1 DEF CloudRev, Cloud, Batch, Row
<1>3. rows \in Batch(Row) /\ epoch \in Nat
  BY <1>1, <1>2 DEF Batch, Row, Cloud
<1>4. cloud' = AppendBatch(cloud, 0, epoch, rows) /\ UNCHANGED <<deviceVars, wire>>
  BY DEF PeerPush
<1> HIDE DEF rows, epoch
<1>5. cloud' \in Cloud /\ cloud'.log = Append(cloud.log, [id |-> 0, epoch |-> epoch, rows |-> rows])
  BY <1>1, <1>3, <1>4, AppendType
<1>6. PageIsLogged'
  <2>1. cloud.log \in Seq(LogEntry) /\ [id |-> 0, epoch |-> epoch, rows |-> rows] \in LogEntry
    BY <1>1, <1>3 DEF Cloud, LogEntry
  <2>2. Seqno(cloud') = Seqno(cloud) + 1 /\ Seqno(cloud) \in Nat
    BY <1>5, <2>1 DEF Seqno
  <2>3. job.until \in Nat
    BY DEF TypeOK, Job
  <2> QED BY <1>4, <2>2, <2>3 DEF PageIsLogged, TypeOK, HoldsWhatItNeeds, deviceVars
<1> QED BY <1>4, <1>5, <1>6 DEF deviceVars, TypeOK, HoldsWhatItNeeds

LEMMA ExpireLogType ==
    ASSUME TypeOK, NEW s \in 1..Seqno(cloud), ExpireLog(s)
    PROVE  TypeOK'
<1>1. s \in Nat
  BY DEF TypeOK, Cloud, Seqno
<1>2. cloud' \in Cloud /\ cloud'.log = cloud.log
  BY <1>1, Zenon DEF ExpireLog, TypeOK, Cloud
<1>3. PageIsLogged'
  BY <1>2 DEF ExpireLog, deviceVars, TypeOK, HoldsWhatItNeeds, PageIsLogged, Seqno
<1> QED BY <1>2, <1>3 DEF ExpireLog, deviceVars, TypeOK, HoldsWhatItNeeds

LEMMA CrashType ==
    ASSUME TypeOK, Crash
    PROVE  TypeOK'
<1>1. NoJob \in Job /\ NoJob.then = "none"
  BY NoJobType DEF NoJob
<1>2. PageIsLogged'
  BY NothingPagedNext DEF Crash, NoJob
<1> QED BY <1>1, <1>2 DEF Crash, TypeOK, HoldsWhatItNeeds, Control

(* Timers touch nothing else. *)
LEMMA TimersType ==
    ASSUME TypeOK, Hint \/ RetryElapses
    PROVE  TypeOK'
<1>1. PageIsLogged'
  BY SamePaged DEF Hint, RetryElapses, TypeOK, HoldsWhatItNeeds
<1> QED BY <1>1 DEF Hint, RetryElapses, TypeOK, HoldsWhatItNeeds

LEMMA TypeNext == TypeOK /\ [Next]_vars => TypeOK'
<1> SUFFICES ASSUME TypeOK, [Next]_vars PROVE TypeOK'
  OBVIOUS
<1>1. CASE User
  <2>1. ASSUME NEW S \in SUBSET Item, NEW new \in [S -> Content], Edit(S, new)
        PROVE  TypeOK'
    BY <2>1, EditType
  <2>2. ASSUME NEW on \in Switch, SetEnabled(on) PROVE TypeOK'
    BY <2>2, SetEnabledType, EngineAssumption
  <2>3. ASSUME NEW batch \in BOOLEAN, NEW S \in SUBSET Conflicted(db),
               NEW pick \in [S -> Choices], Ask(batch, S, pick)
        PROVE  TypeOK'
    BY <2>3, AskType
  <2> QED BY <1>1, <2>1, <2>2, <2>3, SyncNowType DEF User
<1>2. CASE Engine
  BY <1>2, StartCycleType, RecoverType, AnswerArrivesType, AckRequestType, ThawRequestType,
     GetChangesType, ApplyBatchType, FinishPageType, TakeSnapshotType, RestoreSnapshotType,
     MakeDraftType, FreezeAndSendType, ResolveType, TimersType DEF Engine
<1>3. CASE Environment
  <2>1. ASSUME NEW S \in SUBSET Item, NEW new \in [S -> Content],
               NEW replace \in BOOLEAN, PeerPush(S, new, replace)
        PROVE  TypeOK'
    BY <2>1, PeerPushType
  <2> QED BY <1>3, <2>1, RequestFailsType, CloudPushType, LosePushType, ExpireLogType,
             CrashType DEF Environment
<1>4. CASE UNCHANGED vars
  <2>1. PageIsLogged'
    BY <1>4, SamePaged DEF vars, TypeOK, HoldsWhatItNeeds
  <2> QED BY <1>4, <2>1 DEF vars, TypeOK, HoldsWhatItNeeds
<1> QED BY <1>1, <1>2, <1>3, <1>4 DEF Next

(***************************************************************************)
(* Every reachable state is well-formed, and every step of an operation    *)
(* finds in memory what the step before left there.                        *)
(***************************************************************************)
THEOREM TypeCorrect == Spec => []TypeOK
<1> QED BY TypeInit, TypeNext, PTL DEF Spec

-----------------------------------------------------------------------------
(* The local entities form a valid graph in every reachable state, for any *)
(* items and references between them.                                      *)

(* An operation that fails leaves the entities alone. *)
LEMMA HandleKeepsEntities ==
    ASSUME TypeOK, NEW code, Handle(code)
    PROVE  db'.entities = db.entities
<1>1. [db EXCEPT !.error = code].entities = db.entities
  BY Zenon DEF TypeOK, Database
<1> QED BY <1>1 DEF Handle

(* A commit goes through only if it leaves a valid graph. *)
LEMMA CommitGraph ==
    ASSUME NEW d \in Database, NEW S, NEW new, CommitAllowed(d, S, new)
    PROVE  GraphValid(Commit(d, S, new).entities)
<1>1. Commit(d, S, new).entities = Put(d.entities, S, new)
  BY Zenon DEF Commit, Database
<1> QED BY <1>1 DEF CommitAllowed

LEMMA GraphInit == Init => LocalGraphValid
<1> SUFFICES ASSUME Init PROVE LocalGraphValid
  OBVIOUS
<1>1. db.entities = EmptyTable
  BY DEF Init, InitDatabase
<1>2. Present(EmptyTable) = {}
  BY DEF Present, EmptyTable
<1>3. \A i \in Item : Uses(EmptyTable, i) = {}
  BY DEF Uses, EmptyTable
<1> QED BY <1>1, <1>2, <1>3 DEF LocalGraphValid, GraphValid

(* The steps that write the control fields of the database or none at all. *)
LEMMA EntitiesKept ==
    ASSUME TypeOK,
           \/ \E on \in Switch : SetEnabled(on)
           \/ SyncNow \/ StartCycle \/ ThawRequest \/ FreezeAndSend
           \/ AckRequest \/ AnswerArrives
           \/ \E code \in RetryCodes \cup FatalCodes : RequestFails(code)
           \/ UNCHANGED db
    PROVE  db'.entities = db.entities
<1> USE DEF TypeOK
<1>1. [db EXCEPT !.error = ""].entities = db.entities
  BY Zenon DEF Database
<1>2. Thaw(db).entities = db.entities
  BY Zenon DEF Thaw, Database
<1>3. \A draft, id : Freeze(db, draft, id).entities = db.entities
  BY Zenon DEF Freeze, Database
<1>4. \A seq, epoch : Ack(db, seq, epoch).entities = db.entities
  BY Zenon DEF Ack, Database
<1>5. \A code : Handle(code) => db'.entities = db.entities
  BY HandleKeepsEntities
<1>6. CASE \E on \in Switch : SetEnabled(on)
  BY <1>1, <1>6 DEF SetEnabled
<1>7. CASE SyncNow \/ StartCycle
  BY <1>1, <1>7 DEF SyncNow, StartCycle
<1>8. CASE ThawRequest
  BY <1>2, <1>8 DEF ThawRequest
<1>9. CASE FreezeAndSend
  BY <1>3, <1>5, <1>9 DEF FreezeAndSend
<1>10. CASE AckRequest
  BY <1>4, <1>5, <1>10 DEF AckRequest
<1>11. CASE AnswerArrives
  BY <1>5, <1>11 DEF AnswerArrives
<1>12. CASE \E code \in RetryCodes \cup FatalCodes : RequestFails(code)
  BY <1>5, <1>12 DEF RequestFails
<1> QED BY <1>6, <1>7, <1>8, <1>9, <1>10, <1>11, <1>12

LEMMA GraphNext == TypeOK /\ LocalGraphValid /\ [Next]_vars => LocalGraphValid'
<1> SUFFICES ASSUME TypeOK, LocalGraphValid, [Next]_vars PROVE LocalGraphValid'
  OBVIOUS
<1>1. ASSUME db'.entities = db.entities PROVE LocalGraphValid'
  BY <1>1 DEF LocalGraphValid
<1>2. ASSUME GraphValid(db'.entities) PROVE LocalGraphValid'
  BY <1>2 DEF LocalGraphValid
<1>3. db \in Database
  BY DEF TypeOK
<1>4. CASE User
  <2>1. ASSUME NEW S \in SUBSET Item, NEW new \in [S -> Content], Edit(S, new)
        PROVE  LocalGraphValid'
    BY <1>2, <1>3, <2>1, CommitGraph DEF Edit
  <2>2. ASSUME NEW batch \in BOOLEAN, NEW S \in SUBSET Conflicted(db),
               NEW pick \in [S -> Choices], Ask(batch, S, pick)
        PROVE  LocalGraphValid'
    BY <1>1, <2>2 DEF Ask
  <2> QED BY <1>1, <1>4, <2>1, <2>2, EntitiesKept DEF User
<1>5. CASE Engine
  <2>1. CASE ApplyBatch
    <3>1. CASE \E rows, cursor, epoch, A :
                  Accepts(db, rows, FALSE, A)
                    /\ db' = ApplyValues(db, rows, cursor, epoch, FALSE, A)
      BY <1>2, <1>3, <3>1, AcceptedGraph
    <3>2. CASE UNCHANGED db \/ Handle("SYNC_PROTOCOL")
      BY <1>1, <3>2, HandleKeepsEntities
    <3> QED BY <2>1, <3>1, <3>2 DEF ApplyBatch
  <2>2. CASE RestoreSnapshot
    <3>1. PICK A \in SUBSET Item :
            /\ Accepts(db, job.data.rows, TRUE, A)
            /\ db' = ApplyValues(db, job.data.rows, job.data.seq, job.data.epoch, TRUE, A)
      BY <2>2 DEF RestoreSnapshot
    <3> QED BY <1>2, <1>3, <3>1, AcceptedGraph
  <2>3. CASE Resolve
    <3>1. CASE \E code : Handle(code)
      BY <1>1, <3>1, HandleKeepsEntities
    <3>2. ASSUME Refusal = "", NEW d \in Settlements, NEW A \in SUBSET Item,
                 Accepts(d, NoRows, FALSE, A),
                 db' = ApplyValues(d, NoRows, d.cursor, d.epoch, FALSE, A)
          PROVE  LocalGraphValid'
      <4>1. d \in Database
        BY <2>3, <3>2, SettlementType DEF Resolve
      <4> QED BY <1>2, <3>2, <4>1, AcceptedGraph
    <3> QED BY <2>3, <3>1, <3>2 DEF Resolve
  <2>4. CASE Recover \/ GetChanges \/ FinishPage \/ TakeSnapshot \/ MakeDraft
             \/ Hint \/ RetryElapses
    BY <1>1, <2>4 DEF Recover, GetChanges, FinishPage, TakeSnapshot, MakeDraft,
                      Hint, RetryElapses
  <2>5. CASE StartCycle \/ AnswerArrives \/ AckRequest \/ ThawRequest \/ FreezeAndSend
    BY <1>1, <2>5, EntitiesKept
  <2> QED BY <1>5, <2>1, <2>2, <2>3, <2>4, <2>5 DEF Engine
<1>6. CASE Environment
  <2>1. CASE \E code \in RetryCodes \cup FatalCodes : RequestFails(code)
    BY <1>1, <2>1, EntitiesKept
  <2>2. CASE UNCHANGED db
    BY <1>1, <2>2
  <2> QED BY <1>6, <2>1, <2>2 DEF Environment, CloudPush, LosePush, PeerPush,
                                  ExpireLog, Crash, deviceVars
<1>7. CASE UNCHANGED vars
  BY <1>1, <1>7 DEF vars
<1> QED BY <1>4, <1>5, <1>6, <1>7 DEF Next

(***************************************************************************)
(* Local transactions, remote rows applied in part, snapshots and          *)
(* resolutions never leave a dangling reference or a cycle in the local    *)
(* entities.                                                               *)
(***************************************************************************)
THEOREM LocalGraphAlwaysValid == Spec => []LocalGraphValid
<1>1. Init => TypeOK /\ LocalGraphValid
  BY TypeInit, GraphInit
<1>2. (TypeOK /\ LocalGraphValid) /\ [Next]_vars => (TypeOK /\ LocalGraphValid)'
  BY TypeNext, GraphNext
<1> QED BY <1>1, <1>2, PTL DEF Spec
=============================================================================
