----------------------------- MODULE SyncEngine -----------------------------
(***************************************************************************)
(* The account sync engine of one device (SyncService in                   *)
(* packages/core/src/sync/service.ts) on its database, against the cloud   *)
(* and the other devices that write to it.                                 *)
(*                                                                         *)
(* The engine runs one operation at a time (`serial`); each await is a     *)
(* step, so the user's edits, the cloud, the other devices, a lost or      *)
(* late message and a crash may come between any two.  pc says what the    *)
(* running operation awaits; job is what it holds in memory:               *)
(*                                                                         *)
(*   job.op     "cycle" (timer or sync.now) or "resolve"                   *)
(*   job.then   what follows the pull under way                            *)
(*   job.until  the watermark the increments are paged up to (0: unknown)  *)
(*   job.page   the last batch of the page received                        *)
(*   job.data   the answer, snapshot or draft in hand                      *)
(*   job.ask    the resolution the user asked for                          *)
(*                                                                         *)
(* wire holds pushes sent and not yet handled: a request the client gave   *)
(* up on may still reach the cloud, and may reach it twice.                *)
(***************************************************************************)
EXTENDS SyncCloud

CONSTANTS
    PageSize,       \* batches in one page of increments
    RetryCodes,     \* request failures that are retried after a wait
    FatalCodes,     \* request failures that stop automatic sync
    Choices,        \* the resolutions users choose from
    Faults,         \* what else may happen: see Fault
    Switch,         \* positions of the sync switch the user may set
    Spare,          \* fresh identities for copies kept by keep_both
    MaxTransaction, \* bound: items written by one local transaction
    MaxRevision,    \* bound: no user operation once the database is this far
    MaxPeerWrites   \* bound: batches pushed by other devices

(***************************************************************************)
(* A push lost or handled twice, the cloud's log cut, a replacement by     *)
(* another device, a crash of this one.                                    *)
(***************************************************************************)
Fault == {"lose", "duplicate", "expire", "replace", "crash"}

(* What the cloud answers a push, and what the engine itself fails with. *)
PushCodes == {"OK", "EPOCH_CHANGED", "WATERMARK_CHANGED", "ITEM_CONFLICT"}

EngineCodes ==
    PushCodes \cup {"SYNC_PROTOCOL", "SYNC_BUSY", "SYNC_CHANGED", "NOT_FOUND",
                   "CONFLICT_CHANGED", "SYNC_MERGE_INVALID", "SYNC_DEPENDENCY",
                   "VALIDATION"}

ASSUME EngineAssumption ==
    /\ PageSize \in Nat \ {0}
    /\ EngineCodes \cup RetryCodes \cup FatalCodes \subseteq Code
    /\ RetryCodes \cap FatalCodes = {}
    /\ Choices \subseteq Choice
    /\ Faults \subseteq Fault
    /\ Switch \subseteq BOOLEAN
    /\ Spare \subseteq Item

VARIABLES
    db,        \* the workspace database (survives a crash)
    enabled,   \* syncEnabled, kept in the account session (survives a crash)
    pc, job,   \* the running operation
    timer,     \* "none", "wake" (a cycle is due) or "retry" (waiting to wake)
    blocked,   \* automatic sync is stopped
    nextId,    \* request identities handed out
    wire,      \* pushes in flight
    cloud,     \* the server
    basis      \* history: the cloud content each pending edit was made on

vars == <<db, enabled, pc, job, timer, blocked, nextId, wire, cloud, basis>>

deviceVars == <<db, enabled, pc, job, timer, blocked, nextId, basis>>

NoJob == [op |-> "none", then |-> "none", until |-> 0, page |-> 0,
          data |-> Nil, ask |-> Nil]

(***************************************************************************)
(* A device that has just bootstrapped an empty workspace against an empty *)
(* cloud.                                                                  *)
(***************************************************************************)
Init ==
    /\ db = [InitDatabase EXCEPT !.initialized = TRUE]
    /\ enabled = TRUE
    /\ pc = "idle" /\ job = NoJob
    /\ timer = "wake" /\ blocked = FALSE
    /\ nextId = 1
    /\ wire = {}
    /\ cloud = InitCloud
    /\ basis = EmptyTable

-----------------------------------------------------------------------------
(* Timers and errors                                                       *)

(* wake() *)
Woken(stopped) == IF timer = "none" /\ ~stopped THEN "wake" ELSE timer

(* Codes handle() leaves to the caller. *)
Ignored == {"CONFLICT_CHANGED"}

(* A slip: a failure worth retrying is left to the next event. *)
HandleWithoutRetry(code) ==
    /\ pc' = "idle" /\ job' = NoJob
    /\ IF code \in Ignored
       THEN UNCHANGED <<db, blocked, timer>>
       ELSE /\ blocked' = (code \notin RetryCodes)
            /\ db' = [db EXCEPT !.error = code]
            /\ UNCHANGED timer

(***************************************************************************)
(* handle(code): the operation ends.  A failure worth retrying waits, any  *)
(* other stops automatic sync until the user acts.                         *)
(***************************************************************************)
Handle(code) ==
    /\ pc' = "idle" /\ job' = NoJob
    /\ IF code \in Ignored
       THEN UNCHANGED <<db, blocked, timer>>
       ELSE /\ blocked' = (code \notin RetryCodes)
            /\ db' = [db EXCEPT !.error = code]
            /\ timer' = IF code \in RetryCodes THEN "retry" ELSE timer

(* The history of an edit is kept while the edit is pending. *)
KeepBasis(b) ==
    basis' = [i \in Item |-> IF db'.pending[i] = Nil THEN Nil ELSE b[i]]

(* The periodic timer and the hints of the event stream. *)
Hint ==
    /\ timer = "none" /\ ~blocked
    /\ timer' = "wake"
    /\ UNCHANGED <<db, enabled, pc, job, blocked, nextId, wire, cloud, basis>>

RetryElapses ==
    /\ timer = "retry"
    /\ timer' = IF blocked THEN "none" ELSE "wake"
    /\ UNCHANGED <<db, enabled, pc, job, blocked, nextId, wire, cloud, basis>>

-----------------------------------------------------------------------------
(* The user                                                                *)

(***************************************************************************)
(* A local transaction: an item created, changed or deleted, or several at *)
(* once (a credential and its profiles, an import).  A backup keeps the    *)
(* identities of what it holds, so an import may create an item that       *)
(* exists, or existed, elsewhere under the same identity.                  *)
(***************************************************************************)
Edit(S, new) ==
    /\ db.revision < MaxRevision
    /\ CommitAllowed(db, S, new)
    /\ db' = Commit(db, S, new)
    /\ KeepBasis([i \in Item |-> IF i \in S /\ db.pending[i] = Nil
                                 THEN db.entities[i] ELSE basis[i]])
    /\ timer' = Woken(blocked)
    /\ UNCHANGED <<enabled, pc, job, blocked, nextId, wire, cloud>>

(* A slip: the switch does not wait for the operation under way. *)
SetEnabledAtOnce(on) ==
    /\ enabled # on
    /\ enabled' = on
    /\ blocked' = FALSE
    /\ db' = [db EXCEPT !.error = ""]
    /\ timer' = Woken(FALSE)
    /\ UNCHANGED <<pc, job, nextId, wire, cloud, basis>>

SetEnabled(on) ==
    /\ pc = "idle" /\ enabled # on
    /\ enabled' = on
    /\ blocked' = FALSE
    /\ db' = [db EXCEPT !.error = ""]
    /\ timer' = Woken(FALSE)
    /\ UNCHANGED <<pc, job, nextId, wire, cloud, basis>>

-----------------------------------------------------------------------------
(* The cycle                                                               *)

(* A slip: the operation starts without looking for a frozen request. *)
BeginAnew(op, then, ask) ==
    /\ pc' = "changes"
    /\ job' = [NoJob EXCEPT !.op = op, !.then = then, !.ask = ask]

(* A frozen request is settled before anything is pulled or drafted. *)
Begin(op, then, ask) ==
    /\ pc' = IF db.frozen # Nil THEN "recover" ELSE "changes"
    /\ job' = [NoJob EXCEPT !.op = op, !.then = then, !.ask = ask]

StartCycle ==
    /\ pc = "idle" /\ timer = "wake"
    /\ timer' = "none"
    /\ IF enabled /\ db.initialized
       THEN /\ Begin("cycle", "drafting", Nil)
            /\ db' = [db EXCEPT !.error = ""]
       ELSE UNCHANGED <<pc, job, db>>
    /\ UNCHANGED <<enabled, blocked, nextId, wire, cloud, basis>>

(* sync.now; while sync is paused it only lifts the stop. *)
SyncNow ==
    /\ pc = "idle"
    /\ blocked' = FALSE
    /\ IF enabled /\ db.initialized
       THEN /\ Begin("cycle", "drafting", Nil)
            /\ db' = [db EXCEPT !.error = ""]
       ELSE UNCHANGED <<pc, job, db>>
    /\ UNCHANGED <<enabled, timer, nextId, wire, cloud, basis>>

(***************************************************************************)
(* sendFrozen with recover: ask for the request's outcome, and send the    *)
(* same body again only when the cloud does not know it.                   *)
(***************************************************************************)
Recover ==
    /\ pc = "recover"
    /\ IF Applied(cloud, db.frozen.id) # {}
       THEN /\ pc' = "ack"
            /\ job' = [job EXCEPT !.data = BatchAnswer(cloud, db.frozen.id)]
            /\ UNCHANGED wire
       ELSE /\ pc' = "awaiting"
            /\ wire' = wire \cup {db.frozen}
            /\ UNCHANGED job
    /\ UNCHANGED <<db, enabled, timer, blocked, nextId, cloud, basis>>

AnswerArrives ==
    /\ pc = "awaiting" /\ job.data # Nil
    /\ \/ /\ job.data.code = "OK"
          /\ pc' = "ack"
          /\ UNCHANGED <<db, job, blocked, timer>>
       \/ /\ job.data.code # "OK" /\ job.op = "cycle"
          /\ pc' = "thaw"
          /\ UNCHANGED <<db, job, blocked, timer>>
       \/ /\ job.data.code # "OK" /\ job.op = "resolve"
          /\ Handle(job.data.code)
    /\ UNCHANGED <<enabled, nextId, wire, cloud, basis>>

(* A pull starts with an unknown watermark. *)
PullThen(then) ==
    /\ pc' = "changes"
    /\ job' = [job EXCEPT !.then = then, !.until = 0, !.page = 0, !.data = Nil]

AckRequest ==
    /\ pc = "ack"
    /\ IF AckAllowed(db, db.frozen.id, job.data.seq, job.data.epoch)
       THEN /\ db' = Ack(db, job.data.seq, job.data.epoch)
            /\ KeepBasis([i \in Item |-> IF db.frozen.items[i] # Nil
                                         THEN db.frozen.items[i].val ELSE basis[i]])
            /\ PullThen(job.then)
            /\ UNCHANGED <<blocked, timer>>
       ELSE Handle("SYNC_PROTOCOL") /\ UNCHANGED basis
    /\ UNCHANGED <<enabled, nextId, wire, cloud>>

(* The cloud has moved on: give the request up, catch up, and start over. *)
ThawRequest ==
    /\ pc = "thaw"
    /\ db' = Thaw(db)
    /\ PullThen("again")
    /\ UNCHANGED <<enabled, timer, blocked, nextId, wire, cloud, basis>>

-----------------------------------------------------------------------------
(* Pulling                                                                 *)

(* GET changes: the watermark is fixed by the first page. *)
GetChanges ==
    /\ pc = "changes"
    /\ IF db.cursor < cloud.expired
       THEN /\ pc' = "snapshot"
            /\ UNCHANGED job
       ELSE LET upper == IF job.until = 0 THEN Seqno(cloud) ELSE job.until
                last == db.cursor + PageSize
            IN  /\ pc' = "applying"
                /\ job' = [job EXCEPT !.until = upper,
                                      !.page = IF last < upper THEN last ELSE upper]
    /\ UNCHANGED <<db, enabled, timer, blocked, nextId, wire, cloud, basis>>

(* A slip: what the pull held in memory is left there. *)
AfterPullKeeping ==
    IF job.then = "again"
    THEN /\ pc' = "idle" /\ job' = NoJob
         /\ timer' = Woken(blocked)
    ELSE /\ pc' = job.then
         /\ job' = [job EXCEPT !.until = 0, !.page = 0]
         /\ UNCHANGED timer

(* What a finished pull is followed by. *)
AfterPull ==
    IF job.then = "again"
    THEN /\ pc' = "idle" /\ job' = NoJob
         /\ timer' = Woken(blocked)
    ELSE /\ pc' = job.then
         /\ job' = [job EXCEPT !.until = 0, !.page = 0, !.data = Nil]
         /\ UNCHANGED timer

(***************************************************************************)
(* The next batch of the page.  The log only grows, so the page is read    *)
(* from it by its bounds.  A batch of another epoch calls for a snapshot.  *)
(***************************************************************************)
ApplyBatch ==
    /\ pc = "applying" /\ db.cursor < job.page
    /\ LET batch == cloud.log[db.cursor + 1]
       IN  \/ /\ batch.epoch # db.epoch
              /\ pc' = "snapshot"
              /\ UNCHANGED <<db, job, blocked, timer, basis>>
           \/ /\ batch.epoch = db.epoch
              /\ ApplyAllowed(db, batch.rows, db.cursor + 1, FALSE)
              /\ \E A \in SUBSET Item :
                    /\ Accepts(db, batch.rows, FALSE, A)
                    /\ db' = ApplyValues(db, batch.rows, db.cursor + 1,
                                         batch.epoch, FALSE, A)
              /\ KeepBasis(basis)
              /\ UNCHANGED <<pc, job, blocked, timer>>
           \/ /\ batch.epoch = db.epoch
              /\ ~ApplyAllowed(db, batch.rows, db.cursor + 1, FALSE)
              /\ Handle("SYNC_PROTOCOL")
              /\ UNCHANGED basis
    /\ UNCHANGED <<enabled, nextId, wire, cloud>>

FinishPage ==
    /\ pc = "applying" /\ db.cursor = job.page
    /\ IF job.page < job.until
       THEN pc' = "changes" /\ UNCHANGED <<job, timer>>
       ELSE AfterPull
    /\ UNCHANGED <<db, enabled, blocked, nextId, wire, cloud, basis>>

(* A slip: the snapshot is recorded under the device's own epoch. *)
SnapshotOfOldEpoch(c) == [seq |-> Seqno(c), epoch |-> db.epoch, rows |-> c.items]

(* POST snapshots: the cloud sets a consistent copy aside to be paged. *)
SnapshotOf(c) == [seq |-> Seqno(c), epoch |-> c.epoch, rows |-> c.items]

TakeSnapshot ==
    /\ pc = "snapshot"
    /\ pc' = "restoring"
    /\ job' = [job EXCEPT !.data = SnapshotOf(cloud)]
    /\ UNCHANGED <<db, enabled, timer, blocked, nextId, wire, cloud, basis>>

RestoreSnapshot ==
    /\ pc = "restoring"
    /\ \E A \in SUBSET Item :
          /\ Accepts(db, job.data.rows, TRUE, A)
          /\ db' = ApplyValues(db, job.data.rows, job.data.seq,
                               job.data.epoch, TRUE, A)
    /\ KeepBasis(basis)
    /\ AfterPull
    /\ UNCHANGED <<enabled, blocked, nextId, wire, cloud>>

-----------------------------------------------------------------------------
(* Uploading                                                               *)

MakeDraft ==
    /\ pc = "drafting"
    /\ IF Uploadable(db) = {}
       THEN pc' = "idle" /\ job' = NoJob
       ELSE pc' = "freezing" /\ job' = [job EXCEPT !.data = Draft(db)]
    /\ UNCHANGED <<db, enabled, timer, blocked, nextId, wire, cloud, basis>>

(***************************************************************************)
(* The draft has been encrypted: the request is persisted, then sent.  A   *)
(* crash between the two is a request lost on the wire.                    *)
(***************************************************************************)
FreezeAndSend ==
    /\ pc = "freezing"
    /\ IF FreezeAllowed(db, job.data)
       THEN /\ db' = Freeze(db, job.data, nextId)
            /\ nextId' = nextId + 1
            /\ wire' = wire \cup {db'.frozen}
            /\ pc' = "awaiting"
            /\ job' = [job EXCEPT !.then = "again", !.data = Nil]
            /\ UNCHANGED <<blocked, timer>>
       ELSE /\ Handle(IF db.frozen # Nil THEN "SYNC_BUSY" ELSE "SYNC_CHANGED")
            /\ UNCHANGED <<nextId, wire>>
    /\ UNCHANGED <<enabled, cloud, basis>>

-----------------------------------------------------------------------------
(* Resolving conflicts                                                     *)

(***************************************************************************)
(* The user picks a choice for conflicts on the screen: one at a time      *)
(* (resolveConflict) or several under the local revision shown             *)
(* (resolveConflicts).                                                     *)
(***************************************************************************)
Ask(batch, S, pick) ==
    /\ pc = "idle"
    /\ db.revision < MaxRevision
    /\ S # {} /\ S \subseteq Conflicted(db)
    /\ batch \/ \E i \in S : S = {i} /\ pick[i] \in {"keep_local", "use_cloud"}
    /\ Begin("resolve", "resolving",
             [batch |-> batch, S |-> S, pick |-> pick, revision |-> db.revision,
              rev |-> [i \in S |-> db.conflicts[i].remote.rev]])
    /\ UNCHANGED <<db, enabled, timer, blocked, nextId, wire, cloud, basis>>

(* Identities nothing has used yet (random UUIDs). *)
Unused ==
    {c \in Spare : /\ db.entities[c] = Nil /\ db.pending[c] = Nil
                   /\ db.shadow[c] = Nil /\ db.conflicts[c] = Nil
                   /\ cloud.items[c] = Nil}

(***************************************************************************)
(* The results resolveBatch may have been asked for: a content for each    *)
(* resolved item, and for each keep_both an unused identity that takes the *)
(* cloud's content under another name, so with the same references.        *)
(***************************************************************************)
BatchResult(copies, new) ==
    LET both == {i \in job.ask.S : job.ask.pick[i] = "keep_both"}
    IN  /\ \A i \in Item \ copies :
              IF i \in job.ask.S THEN new[i] \in Outcomes(db, i, job.ask.pick[i])
                                 ELSE new[i] = Nil
        /\ Cardinality(copies) = Cardinality(both)
        /\ \E f \in [both -> copies] :
              /\ copies = {f[i] : i \in both}
              /\ \A i \in both :
                    /\ new[f[i]] \in Fits[f[i]]
                    /\ Refs[new[f[i]]] = Refs[db.conflicts[i].remote.val]

Settlements ==
    IF job.ask.batch
    THEN {SettleBatch(db, job.ask.S, r[1], r[2]) : r \in
             {x \in (SUBSET Unused) \X [Item -> Content] : BatchResult(x[1], x[2])}}
    ELSE {SettleOne(db, i, job.ask.pick[i]) : i \in job.ask.S}

(* The error a resolution is refused with, in the order of the checks. *)
Refusal ==
    LET ask == job.ask
    IN  CASE db.frozen # Nil                  -> "SYNC_BUSY"
          [] ~ask.batch /\ \E i \in ask.S : db.conflicts[i] = Nil
                                              -> "NOT_FOUND"
          [] ask.batch /\ db.revision # ask.revision
                                              -> "CONFLICT_CHANGED"
          [] \E i \in ask.S : ~SeenConflict(db, i, ask.rev[i])
                                              -> "CONFLICT_CHANGED"
          [] \E i \in ask.S : ~ChoiceAllowed(db, i, ask.pick[i])
                                              -> "SYNC_MERGE_INVALID"
          [] OTHER                            -> ""

(***************************************************************************)
(* The resolution is applied and the dependency conflicts are tried again, *)
(* all in one transaction; a choice that leaves dangling references is     *)
(* refused.                                                                *)
(***************************************************************************)
Resolve ==
    /\ pc = "resolving"
    /\ \/ Refusal # "" /\ Handle(Refusal) /\ UNCHANGED basis
       \/ /\ Refusal = ""
          /\ \E d \in Settlements :
                \/ /\ ~GraphValid(d.entities)
                   /\ Handle(IF job.ask.batch THEN "SYNC_DEPENDENCY" ELSE "VALIDATION")
                   /\ UNCHANGED basis
                \/ /\ GraphValid(d.entities)
                   /\ \E A \in SUBSET Item :
                         /\ Accepts(d, NoRows, FALSE, A)
                         /\ db' = ApplyValues(d, NoRows, d.cursor, d.epoch, FALSE, A)
                   /\ pc' = "idle" /\ job' = NoJob
                   /\ blocked' = FALSE /\ timer' = Woken(FALSE)
                   /\ KeepBasis([i \in Item |->
                          IF i \in job.ask.S THEN db.conflicts[i].remote.val
                                             ELSE basis[i]])
    /\ UNCHANGED <<enabled, nextId, wire, cloud>>

-----------------------------------------------------------------------------
(* The network, the other devices, the cloud's log, and crashes            *)

Requesting == {"recover", "awaiting", "changes", "snapshot", "restoring"}

(***************************************************************************)
(* A request fails: the network, a timeout, a refusal, or the pages of a   *)
(* snapshot.  A push may be on its way, or handled, all the same.          *)
(***************************************************************************)
RequestFails(code) ==
    /\ pc \in Requesting
    /\ Handle(code)
    /\ UNCHANGED <<enabled, nextId, wire, cloud, basis>>

(* The cloud handles a push; its answer reaches a client still waiting. *)
CloudPush(p) ==
    /\ p \in wire
    /\ wire' = wire \ {p} \/ ("duplicate" \in Faults /\ wire' = wire)
    /\ cloud' = HandlePush(cloud, p)
    /\ job' = IF pc = "awaiting" /\ db.frozen.id = p.id /\ job.data = Nil
              THEN [job EXCEPT !.data = PushAnswer(cloud, p)]
              ELSE job
    /\ UNCHANGED <<db, enabled, pc, timer, blocked, nextId, basis>>

LosePush(p) ==
    /\ "lose" \in Faults
    /\ p \in wire
    /\ wire' = wire \ {p}
    /\ UNCHANGED <<deviceVars, cloud>>

PeerBatches == Cardinality({k \in 1..Len(cloud.log) : cloud.log[k].id = 0})

(***************************************************************************)
(* Another device pushes new rows for the items of S, up to date with the  *)
(* cloud and leaving it a valid graph.  A replacement covers every item    *)
(* the cloud knows and starts the next epoch.  Identities set aside for    *)
(* this device's copies are not invented elsewhere.                        *)
(***************************************************************************)
PeerPush(S, new, replace) ==
    /\ PeerBatches < MaxPeerWrites
    /\ S # {} /\ \A i \in S \cap Spare : cloud.items[i] # Nil
    /\ replace => "replace" \in Faults
    /\ replace => \A i \in Item : cloud.items[i] # Nil => i \in S
    /\ GraphValid([i \in Item |-> IF i \in S THEN new[i]
                                  ELSE IF cloud.items[i] = Nil THEN Nil
                                  ELSE cloud.items[i].val])
    /\ cloud' = AppendBatch(cloud, 0, cloud.epoch + (IF replace THEN 1 ELSE 0),
                    [i \in Item |-> IF i \in S
                        THEN [rev |-> CloudRev(cloud, i) + 1, val |-> new[i]]
                        ELSE Nil])
    /\ UNCHANGED <<deviceVars, wire>>

(* The cloud drops increments up to a sequence number. *)
ExpireLog(s) ==
    /\ "expire" \in Faults
    /\ cloud.expired < s /\ s <= Seqno(cloud)
    /\ cloud' = [cloud EXCEPT !.expired = s]
    /\ UNCHANGED <<deviceVars, wire>>

(* A slip: the request under way is kept in memory only. *)
CrashForgetting ==
    /\ "crash" \in Faults
    /\ pc' = "idle" /\ job' = NoJob
    /\ db' = Thaw(db)
    /\ blocked' = (db.error \notin {""} \cup RetryCodes)
    /\ timer' = IF blocked' THEN "none" ELSE "wake"
    /\ UNCHANGED <<enabled, nextId, wire, cloud, basis>>

(* The process dies and starts again: restore(), then start(). *)
Crash ==
    /\ "crash" \in Faults
    /\ pc' = "idle" /\ job' = NoJob
    /\ blocked' = (db.error \notin {""} \cup RetryCodes)
    /\ timer' = IF blocked' THEN "none" ELSE "wake"
    /\ UNCHANGED <<db, enabled, nextId, wire, cloud, basis>>

-----------------------------------------------------------------------------

User ==
    \/ \E S \in SUBSET Item : \E new \in [S -> Content] :
          /\ S # {} /\ Cardinality(S) <= MaxTransaction
          /\ \A i \in S : new[i] \in Fits[i] \cup {Nil}
          /\ \A i \in S \cap Spare : db.entities[i] # Nil
          /\ Edit(S, new)
    \/ \E on \in Switch : SetEnabled(on)
    \/ SyncNow
    \/ \E batch \in BOOLEAN, S \in SUBSET Conflicted(db) :
          \E pick \in [S -> Choices] : Ask(batch, S, pick)

Engine ==
    \/ StartCycle \/ Recover \/ AnswerArrives \/ AckRequest \/ ThawRequest
    \/ GetChanges \/ ApplyBatch \/ FinishPage \/ TakeSnapshot \/ RestoreSnapshot
    \/ MakeDraft \/ FreezeAndSend \/ Resolve
    \/ Hint \/ RetryElapses

Environment ==
    \/ \E code \in RetryCodes \cup FatalCodes : RequestFails(code)
    \/ \E p \in wire : CloudPush(p)
    \/ \E p \in wire : LosePush(p)
    \/ \E S \in SUBSET Item : \E new \in [S -> Content], replace \in BOOLEAN :
          /\ \A i \in S : new[i] \in Fits[i] \cup {Nil}
          /\ PeerPush(S, new, replace)
    \/ \E s \in 1..Seqno(cloud) : ExpireLog(s)
    \/ Crash

Next == User \/ Engine \/ Environment

Spec == Init /\ [][Next]_vars

-----------------------------------------------------------------------------
(* Types                                                                   *)

(***************************************************************************)
(* Types.  What the running operation holds depends on what it awaits.     *)
(***************************************************************************)
Control == {"idle", "recover", "awaiting", "ack", "thaw", "changes", "applying",
            "snapshot", "restoring", "drafting", "freezing", "resolving"}

Answer   == [code : PushCodes, seq : Nat, epoch : Nat]
Snapshot == [seq : Nat, epoch : Nat, rows : Batch(Row)]
Drafted  == [cursor : Nat, epoch : Nat, items : Batch(UploadRow)]
Asked    == UNION {[batch : BOOLEAN, S : {S}, pick : [S -> Choices],
                    revision : Nat, rev : [S -> Nat]] : S \in SUBSET Item}

Job == [ op : {"none", "cycle", "resolve"},
         then : {"none", "drafting", "resolving", "again"},
         until : Nat, page : Nat,
         data : {Nil} \cup Answer \cup Snapshot \cup Drafted,
         ask : {Nil} \cup Asked ]

PageIsLogged == job.page <= job.until /\ job.until <= Seqno(cloud)

HoldsWhatItNeeds ==
    /\ pc \in {"recover", "changes", "applying", "snapshot", "drafting", "resolving"}
          => job.data = Nil
    /\ pc = "awaiting" => job.data \in {Nil} \cup Answer
    /\ pc = "ack" => job.data \in Answer
    /\ pc = "restoring" => job.data \in Snapshot
    /\ pc = "freezing" => job.data \in Drafted
    /\ pc \in {"recover", "awaiting", "ack", "thaw"} => db.frozen # Nil
    /\ pc = "resolving" \/ job.then = "resolving" => job.ask \in Asked
    /\ pc = "idle" \/ job.then # "none"
    /\ PageIsLogged

(***************************************************************************)
(* The database, the cloud and the messages keep their shape, and every    *)
(* step of an operation finds in memory what the step before left there:   *)
(* no answer, snapshot or draft is carried into a step it was not for.     *)
(***************************************************************************)
TypeOK ==
    /\ db \in Database /\ cloud \in Cloud /\ basis \in Table
    /\ enabled \in BOOLEAN /\ blocked \in BOOLEAN
    /\ pc \in Control /\ job \in Job
    /\ timer \in {"none", "wake", "retry"}
    /\ nextId \in Nat /\ wire \subseteq Request
    /\ HoldsWhatItNeeds

-----------------------------------------------------------------------------
(* What the device knows of the cloud                                      *)

ShadowVal(i) == IF db.shadow[i] = Nil THEN Nil ELSE db.shadow[i].val

(* k is the last batch up to sequence number s that writes item i. *)
LastWrite(c, i, s, k) ==
    /\ k \in 1..s
    /\ c.log[k].rows[i] # Nil
    /\ \A n \in (k+1)..s : c.log[n].rows[i] = Nil

(* row is what the cloud held of item i at sequence number s. *)
CloudRowAt(c, i, s, row) ==
    \/ /\ \A n \in 1..s : c.log[n].rows[i] = Nil
       /\ row = Nil
    \/ \E k \in 1..s : LastWrite(c, i, s, k) /\ row = c.log[k].rows[i]

(***************************************************************************)
(* The shadow is exactly what the cloud held at the device's cursor,       *)
(* whether the rows came in increments, in a snapshot or as the            *)
(* confirmation of an upload, over lost answers, resent requests and       *)
(* crashes.  Base revisions, rebasing and conflicts all rely on it.        *)
(***************************************************************************)
ShadowIsCloudAtCursor ==
    /\ db.cursor <= Seqno(cloud)
    /\ \A i \in Item : CloudRowAt(cloud, i, db.cursor, db.shadow[i])

(***************************************************************************)
(* The device's key generation is the one the cloud had at the device's    *)
(* cursor, so increments are decrypted, and uploads encrypted, for the     *)
(* generation they belong to.                                              *)
(***************************************************************************)
EpochIsCloudAtCursor ==
    db.cursor <= Seqno(cloud)
        /\ db.epoch = IF db.cursor = 0 THEN 1 ELSE cloud.log[db.cursor].epoch

(***************************************************************************)
(* Against a cloud that keeps the protocol no consistency check of apply,  *)
(* ack or freeze ever fails: each would stop automatic sync.               *)
(***************************************************************************)
NoProtocolError == db.error \notin {"SYNC_PROTOCOL", "SYNC_BUSY", "SYNC_CHANGED"}

-----------------------------------------------------------------------------
(* What the device keeps of the user's work                                *)

(***************************************************************************)
(* The local entities always form a valid graph: transactions, remote rows *)
(* applied in part, and resolutions never leave a dangling reference.      *)
(***************************************************************************)
LocalGraphValid == GraphValid(db.entities)

(***************************************************************************)
(* While an item's edit waits in the outbox the entities show that edit:   *)
(* remote rows, snapshots and confirmations never overwrite it.            *)
(***************************************************************************)
PendingIsLocal ==
    \A i \in Item : db.pending[i] # Nil => db.entities[i] = db.pending[i].val

(***************************************************************************)
(* An item with no edit waiting and no conflict shows what the device last *)
(* saw of the cloud: nothing is silently different for good.               *)
(***************************************************************************)
SyncedIsCloud ==
    \A i \in Item :
        (db.pending[i] = Nil /\ db.conflicts[i] = Nil)
            => db.entities[i] = ShadowVal(i)

(***************************************************************************)
(* The cloud side of a conflict is what the cloud holds as far as the      *)
(* device knows: the user is never asked to choose against an older one.   *)
(***************************************************************************)
ConflictShowsCloud ==
    \A i \in Item : db.conflicts[i] # Nil
        => db.conflicts[i].remote.val = ShadowVal(i)

(***************************************************************************)
(* An edit that may be uploaded was made on the content the device knows   *)
(* the cloud to hold; one made on anything else is in conflict.            *)
(***************************************************************************)
EditsBuildOnCloud ==
    \A i \in Item :
        (db.pending[i] # Nil /\ db.conflicts[i] = Nil)
            => basis[i] = ShadowVal(i)

(***************************************************************************)
(* An edit leaves the outbox only when its content has been in the cloud,  *)
(* as of a batch the device has applied or had confirmed, or when the user *)
(* settles a conflict over it.  A newer edit made while an older one is    *)
(* being uploaded stays.                                                   *)
(***************************************************************************)
NoEditDropped ==
    [][\A i \in Item :
          (db.pending[i] # Nil /\ db'.pending[i] = Nil)
             => \/ pc = "resolving" /\ i \in job.ask.S
                \/ \E k \in 1..db'.cursor :
                      /\ cloud.log[k].rows[i] # Nil
                      /\ cloud.log[k].rows[i].val = db.pending[i].val]_vars

(***************************************************************************)
(* A resolution takes effect only on the cloud content the user saw, even  *)
(* though the conflict is pulled again between the question and the        *)
(* choice: the content the device now knows is that of the revision shown. *)
(***************************************************************************)
ResolvesWhatWasSeen ==
    [][(pc = "resolving" /\ pc' = "idle" /\ db'.revision > db.revision)
          => \A i \in job.ask.S :
                \E k \in 1..db.cursor :
                   cloud.log[k].rows[i] = [rev |-> job.ask.rev[i], val |-> ShadowVal(i)]]_vars

-----------------------------------------------------------------------------
(* What the device sends                                                   *)

(***************************************************************************)
(* A request under way holds no conflicted item, nor one whose content     *)
(* refers to a conflicted item.                                            *)
(***************************************************************************)
UploadsAvoidConflicts ==
    db.frozen # Nil =>
        \A i \in InBatch(db.frozen.items) :
            /\ db.conflicts[i] = Nil
            /\ db.frozen.items[i].val # Nil
                  => Refs[db.frozen.items[i].val] \cap Conflicted(db) = {}

(***************************************************************************)
(* A push still in flight that the device no longer holds frozen can       *)
(* change nothing when it arrives: it has been applied already or will be  *)
(* refused.  So giving a request up, or failing, never lets it take effect *)
(* behind the device's back.                                               *)
(***************************************************************************)
AbandonedNeverApplies ==
    \A p \in wire :
        p # db.frozen => Applied(cloud, p.id) # {} \/ PushOutcome(cloud, p) # "OK"

(***************************************************************************)
(* While sync is paused no new upload is prepared, whichever operation was *)
(* under way when the user paused.                                         *)
(***************************************************************************)
PausedFreezesNothing == [][~enabled => nextId' = nextId]_vars

CloudTable == [i \in Item |-> IF cloud.items[i] = Nil THEN Nil
                              ELSE cloud.items[i].val]

(***************************************************************************)
(* The cloud's items form a valid graph as long as every other device      *)
(* keeps them one.  Refuted: see README.                                   *)
(***************************************************************************)
CloudGraphValid == GraphValid(CloudTable)

(***************************************************************************)
(* When automatic sync has stopped the status says why, so the user has a  *)
(* way to resume it.  Refuted: see README.                                 *)
(***************************************************************************)
StopIsVisible == (blocked /\ pc = "idle") => db.error # ""

-----------------------------------------------------------------------------
(* Progress                                                                *)

(* Every request to the cloud is given up after 20 s. *)
TimesOut == pc = "awaiting" /\ \E code \in RetryCodes : RequestFails(code)

(* The cloud handles the push the device is waiting on. *)
Served == pc = "awaiting" /\ job.data = Nil /\ CloudPush(db.frozen)

(***************************************************************************)
(* Timers fire.  A step of an operation that can be taken again and again  *)
(* is taken in the end, though requests may fail and the process may crash *)
(* before it any number of times.  Nothing is asked of the user, of the    *)
(* other devices or of the periodic check.                                 *)
(***************************************************************************)
Fairness ==
    /\ WF_vars(RetryElapses) /\ WF_vars(StartCycle) /\ WF_vars(TimesOut)
    /\ SF_vars(Served) /\ SF_vars(Recover) /\ SF_vars(AnswerArrives)
    /\ SF_vars(AckRequest) /\ SF_vars(ThawRequest)
    /\ SF_vars(GetChanges) /\ SF_vars(ApplyBatch) /\ SF_vars(FinishPage)
    /\ SF_vars(TakeSnapshot) /\ SF_vars(RestoreSnapshot)
    /\ SF_vars(MakeDraft) /\ SF_vars(FreezeAndSend)

FairSpec == Spec /\ Fairness

(***************************************************************************)
(* A persisted request is settled in the end, confirmed or given up: it    *)
(* never keeps the engine from pulling and uploading for good.             *)
(***************************************************************************)
FrozenSettles == db.frozen # Nil ~> db.frozen = Nil

(***************************************************************************)
(* Every edit reaches the cloud or becomes a conflict, with no help from   *)
(* the periodic check: the wakes of local edits, finished cycles and       *)
(* retries are enough.                                                     *)
(***************************************************************************)
EditsReachCloud ==
    \A i \in Item :
        db.pending[i] # Nil ~> (db.pending[i] = Nil \/ db.conflicts[i] # Nil)
=============================================================================
