--------------------------- MODULE SyncRepository ---------------------------
(***************************************************************************)
(* SyncRepository (packages/core/src/sync/repository.ts) together with the *)
(* part of LocalStore it shares a SQLite connection with                   *)
(* (database/local-store.ts).                                              *)
(*                                                                         *)
(* Every operation is one synchronous transaction on the database worker,  *)
(* so each is an operator from a database to a database; an operation that *)
(* may throw has a predicate saying when it does not.  A database d has    *)
(*                                                                         *)
(*   d.entities   the entities tables                                      *)
(*   d.pending    the newest outbox row of each item: its transaction's    *)
(*                revision and the content written (Nil for a deletion).   *)
(*                Older rows of the item matter to nothing: syncPending    *)
(*                reads the newest and clear deletes every older one too   *)
(*   d.shadow     sync_shadow: the last cloud row seen, revision, content  *)
(*   d.conflicts  sync_conflicts: the cloud row refused, and why           *)
(*   d.frozen     sync_requests: the upload persisted before it is sent    *)
(*   d.cursor, d.epoch, d.initialized, d.error (lastErrorCode)             *)
(*                sync_state                                               *)
(*   d.revision   revisions: bumped by every commit                        *)
(*                                                                         *)
(* A batch of rows is a function on Item, Nil where it has no row.         *)
(***************************************************************************)
EXTENDS SyncItems

CONSTANT Code      \* error codes; "" is none

ASSUME CodeAssumption == "" \in Code

Row == [rev : Nat, val : Content]

Reason == {"concurrent_edit", "dependency"}

Conflict == [remote : Row, reason : Reason]

UploadRow == [base : Nat, gen : Nat, val : Content]

Batch(R) == [Item -> R \cup {Nil}]

NoRows == [i \in Item |-> Nil]

InBatch(b) == {i \in Item : b[i] # Nil}

Request == [id : Nat, epoch : Nat, expectedSeq : Nat, items : Batch(UploadRow)]

ASSUME NilIsNoRow ==
    /\ Nil \notin Row /\ Nil \notin Conflict
    /\ Nil \notin UploadRow /\ Nil \notin Request

Database ==
    [ entities : Table, pending : Batch(Row), shadow : Batch(Row),
      conflicts : Batch(Conflict), frozen : Request \cup {Nil},
      cursor : Nat, epoch : Nat, initialized : BOOLEAN,
      error : Code, revision : Nat ]

InitDatabase ==
    [ entities |-> EmptyTable, pending |-> NoRows, shadow |-> NoRows,
      conflicts |-> NoRows, frozen |-> Nil, cursor |-> 0, epoch |-> 1,
      initialized |-> FALSE, error |-> "", revision |-> 0 ]

-----------------------------------------------------------------------------
(* LocalStore                                                              *)

(***************************************************************************)
(* commit with capture: one local transaction that writes content new[i]   *)
(* to the items of S, with one outbox row each, all with the same revision.*)
(***************************************************************************)
CommitAllowed(d, S, new) ==
    /\ \A i \in S : new[i] # d.entities[i]
    /\ GraphValid(Put(d.entities, S, new))

Commit(d, S, new) ==
    [ d EXCEPT
        !.entities = Put(d.entities, S, new),
        !.revision = d.revision + 1,
        !.pending = [i \in Item |->
            IF i \in S THEN [rev |-> d.revision + 1, val |-> new[i]]
                       ELSE d.pending[i]] ]

-----------------------------------------------------------------------------
(* applyValues                                                             *)

(***************************************************************************)
(* A snapshot lists every cloud item: a shadow it does not mention has     *)
(* been deleted.                                                           *)
(***************************************************************************)
Incoming(d, rows, snapshot) ==
    [i \in Item |->
        IF snapshot /\ rows[i] = Nil /\ d.shadow[i] # Nil
        THEN [rev |-> 0, val |-> Nil]
        ELSE rows[i]]

(* Rows an increment skips: no newer than the shadow. *)
Stale(d, rows, snapshot, i) ==
    /\ ~snapshot
    /\ d.shadow[i] # Nil
    /\ rows[i].rev <= d.shadow[i].rev

Fresh(d, rows, snapshot) ==
    {i \in InBatch(Incoming(d, rows, snapshot)) :
        ~Stale(d, Incoming(d, rows, snapshot), snapshot, i)}

Edited(d) == {i \in Item : d.pending[i] # Nil}

(* A slip: once set up, incoming rows are taken whatever the outbox holds. *)
QueuedUnlessReady(d) == IF d.initialized THEN {} ELSE Present(d.entities)

(* Before the first bootstrap every local entity counts as a local edit. *)
Queued(d) ==
    Edited(d) \cup (IF d.initialized THEN {} ELSE Present(d.entities))

(* A slip: any new row for an edited item counts as its confirmation. *)
CaughtUnread(d, rows, snapshot) == Fresh(d, rows, snapshot) \cap Queued(d)

(* The cloud has caught up with the local content. *)
Caught(d, rows, snapshot) ==
    {i \in Fresh(d, rows, snapshot) \cap Queued(d) :
        d.entities[i] = Incoming(d, rows, snapshot)[i].val}

(* A slip: every clash with an item seen before is taken for a rebase. *)
RebasedBlindly(d, rows, snapshot) ==
    {i \in (Fresh(d, rows, snapshot) \cap Edited(d)) \ Caught(d, rows, snapshot) :
        d.shadow[i] # Nil}

(* The cloud revision moved, its content did not: local work can rebase. *)
Rebased(d, rows, snapshot) ==
    {i \in (Fresh(d, rows, snapshot) \cap Edited(d)) \ Caught(d, rows, snapshot) :
        d.shadow[i] # Nil /\ d.shadow[i].val = Incoming(d, rows, snapshot)[i].val}

Clashing(d, rows, snapshot) ==
    (Fresh(d, rows, snapshot) \cap Queued(d))
        \ (Caught(d, rows, snapshot) \cup Rebased(d, rows, snapshot))

(* Dependency conflicts the batch does not mention are tried again. *)
Waiting(d, rows, snapshot) ==
    {i \in Item : /\ d.conflicts[i] # Nil
                  /\ d.conflicts[i].reason = "dependency"
                  /\ Incoming(d, rows, snapshot)[i] = Nil}

Candidates(d, rows, snapshot) ==
    (Fresh(d, rows, snapshot) \ Queued(d)) \cup Waiting(d, rows, snapshot)

CandidateRow(d, rows, snapshot, i) ==
    IF i \in Waiting(d, rows, snapshot) THEN d.conflicts[i].remote
                                        ELSE Incoming(d, rows, snapshot)[i]

CandidateTable(d, rows, snapshot) ==
    [i \in Item |-> IF i \in Candidates(d, rows, snapshot)
                    THEN CandidateRow(d, rows, snapshot, i).val
                    ELSE Nil]

(***************************************************************************)
(* The sets of candidates applyValues may accept: all of them if that      *)
(* leaves a valid graph, otherwise those a pass over the candidates picks  *)
(* up one at a time, each step leaving a valid graph, until none fits.     *)
(* The passes follow the row order of two tables; any order is allowed.    *)
(***************************************************************************)
OneAtATime(e, A, new) ==
    \E order \in [1..Cardinality(A) -> A] :
        /\ \A i \in A : \E n \in 1..Cardinality(A) : order[n] = i
        /\ \A n \in 1..Cardinality(A) :
               GraphValid(Put(e, {order[m] : m \in 1..n}, new))

(* A slip: the candidates are applied without looking at the graph. *)
AcceptsBlindly(d, rows, snapshot, A) == A = Candidates(d, rows, snapshot)

Accepts(d, rows, snapshot, A) ==
    LET C == Candidates(d, rows, snapshot)
        new == CandidateTable(d, rows, snapshot)
    IN  /\ A \subseteq C
        /\ GraphValid(Put(d.entities, A, new))
        /\ A # C =>
              /\ ~GraphValid(Put(d.entities, C, new))
              /\ \A i \in C \ A : ~GraphValid(Put(d.entities, A \cup {i}, new))
              /\ OneAtATime(d.entities, A, new)

(* The two checks that make applyValues throw SYNC_PROTOCOL. *)
ApplyAllowed(d, rows, cursor, snapshot) ==
    /\ snapshot \/ cursor >= d.cursor
    /\ \A i \in InBatch(rows) :
          (~snapshot /\ d.shadow[i] # Nil /\ rows[i].rev = d.shadow[i].rev)
              => rows[i].val = d.shadow[i].val

(* A slip: a conflict already recorded is not replaced. *)
ConflictsKept(d, rows, snapshot, A) ==
    [i \in Item |->
        IF i \in A \cup Caught(d, rows, snapshot) THEN Nil
        ELSE IF d.conflicts[i] # Nil THEN d.conflicts[i]
        ELSE IF i \in Candidates(d, rows, snapshot)
             THEN [remote |-> CandidateRow(d, rows, snapshot, i),
                   reason |-> "dependency"]
        ELSE IF i \in Clashing(d, rows, snapshot)
             THEN [remote |-> Incoming(d, rows, snapshot)[i],
                   reason |-> "concurrent_edit"]
        ELSE Nil]

(* The conflicts left once the candidates of A are accepted. *)
ConflictsAfter(d, rows, snapshot, A) ==
    LET refused == Candidates(d, rows, snapshot) \ A
    IN  [i \in Item |->
            IF i \in A \cup Caught(d, rows, snapshot) THEN Nil
            ELSE IF i \in refused
                 THEN [remote |-> CandidateRow(d, rows, snapshot, i),
                       reason |-> "dependency"]
            ELSE IF i \in Clashing(d, rows, snapshot)
                 THEN [remote |-> Incoming(d, rows, snapshot)[i],
                       reason |-> "concurrent_edit"]
            ELSE d.conflicts[i]]

ShadowAfter(d, rows, snapshot) ==
    [i \in Item |-> IF i \in Fresh(d, rows, snapshot)
                    THEN Incoming(d, rows, snapshot)[i] ELSE d.shadow[i]]

PendingAfter(d, rows, snapshot) ==
    [i \in Item |-> IF i \in Caught(d, rows, snapshot) THEN Nil ELSE d.pending[i]]

(***************************************************************************)
(* Shadow, conflicts, entities, cursor and epoch advance in one            *)
(* transaction.  The write to the entities captures nothing in the outbox. *)
(***************************************************************************)
ApplyValues(d, rows, cursor, epoch, snapshot, A) ==
    [ d EXCEPT
        !.shadow = ShadowAfter(d, rows, snapshot),
        !.pending = PendingAfter(d, rows, snapshot),
        !.conflicts = ConflictsAfter(d, rows, snapshot, A),
        !.entities = Put(d.entities, A, CandidateTable(d, rows, snapshot)),
        !.revision = d.revision + 1,
        !.cursor = cursor, !.epoch = epoch, !.error = "" ]

-----------------------------------------------------------------------------
(* Uploading                                                               *)

Conflicted(d) == {i \in Item : d.conflicts[i] # Nil}

(* A slip: references to conflicted items are not followed. *)
BlockedByConflict(d) ==
    {d.pending[i].rev : i \in Edited(d) \cap Conflicted(d)}

(***************************************************************************)
(* Transactions (revisions) draft leaves out: those with a conflicted item *)
(* among the newest outbox rows, and those that write a content reaching a *)
(* conflicted item through the local entities.                             *)
(***************************************************************************)
BlockedRevisions(d) ==
    {d.pending[i].rev : i \in Edited(d) \cap Conflicted(d)}
    \cup {d.pending[i].rev : i \in
             {j \in Edited(d) \ Conflicted(d) :
                 Reaches(d.entities, d.pending[j].val) \cap Conflicted(d) # {}}}

(* The limits of 10000 rows and 50 MiB on one upload are not reached. *)
Uploadable(d) ==
    {i \in Edited(d) \ Conflicted(d) :
        d.pending[i].rev \notin BlockedRevisions(d)}

ShadowRev(d, i) == IF d.shadow[i] = Nil THEN 0 ELSE d.shadow[i].rev

Draft(d) ==
    [ cursor |-> d.cursor, epoch |-> d.epoch,
      items |-> [i \in Item |->
          IF i \in Uploadable(d)
          THEN [base |-> ShadowRev(d, i), gen |-> d.pending[i].rev,
                val |-> d.pending[i].val]
          ELSE Nil] ]

FreezeAllowed(d, draft) ==
    /\ d.frozen = Nil
    /\ d.cursor = draft.cursor /\ d.epoch = draft.epoch

Freeze(d, draft, id) ==
    [ d EXCEPT !.frozen =
        [ id |-> id, epoch |-> draft.epoch, expectedSeq |-> draft.cursor,
          items |-> draft.items ] ]

(* The two checks that make ack throw SYNC_PROTOCOL. *)
AckAllowed(d, id, seq, epoch) ==
    /\ d.frozen # Nil /\ d.frozen.id = id
    /\ seq = d.frozen.expectedSeq + 1
    /\ epoch = d.frozen.epoch

(* A slip: the confirmation leaves the shadow as it was. *)
ShadowKept(d) == d.shadow

(* What was sent is now what the cloud holds. *)
ShadowAfterAck(d) ==
    [i \in Item |->
        IF d.frozen.items[i] = Nil THEN d.shadow[i]
        ELSE [rev |-> d.frozen.items[i].base + 1, val |-> d.frozen.items[i].val]]

(* A slip: the confirmation clears an item's rows whatever their revision. *)
PendingCleared(d) ==
    [i \in Item |-> IF d.frozen.items[i] # Nil THEN Nil ELSE d.pending[i]]

(* The outbox loses what the request covered and nothing newer. *)
PendingAfterAck(d) ==
    [i \in Item |->
        IF /\ d.frozen.items[i] # Nil
           /\ d.pending[i] # Nil
           /\ d.pending[i].rev <= d.frozen.items[i].gen
        THEN Nil ELSE d.pending[i]]

Ack(d, seq, epoch) ==
    [ d EXCEPT
        !.shadow = ShadowAfterAck(d), !.pending = PendingAfterAck(d),
        !.frozen = Nil, !.cursor = seq, !.epoch = epoch, !.error = "" ]

Thaw(d) == [d EXCEPT !.frozen = Nil]

-----------------------------------------------------------------------------
(* Conflict resolution                                                     *)

Choice == {"keep_local", "use_cloud", "merge", "keep_both"}

(***************************************************************************)
(* The contents a choice may give item i.  A merge takes each field from   *)
(* one side (merge.ts): here, any content the item may take.               *)
(***************************************************************************)
Outcomes(d, i, choice) ==
    CASE choice = "use_cloud" -> {d.conflicts[i].remote.val}
      [] choice = "merge"     -> Fits[i]
      [] OTHER                -> {d.entities[i]}

(* Both sides must exist to be merged or kept side by side. *)
ChoiceAllowed(d, i, choice) ==
    choice \in {"merge", "keep_both"} =>
        d.entities[i] # Nil /\ d.conflicts[i].remote.val # Nil

(* A slip: the conflict shown may be an older one. *)
SeenSome(d, i, rev) == d.conflicts[i] # Nil

(* The user's view of conflict i is current. *)
SeenConflict(d, i, rev) ==
    d.conflicts[i] # Nil /\ d.conflicts[i].remote.rev = rev

(* A slip: the results are kept on this device and not queued. *)
SettleUnqueued(d, S, copies, new) ==
    [ d EXCEPT
        !.entities = Put(d.entities, S \cup copies, new),
        !.revision = d.revision + 1,
        !.conflicts = [i \in Item |-> IF i \in S THEN Nil ELSE d.conflicts[i]],
        !.pending = [i \in Item |-> IF i \in S THEN Nil ELSE d.pending[i]] ]

(***************************************************************************)
(* resolveBatch before its final applyValues([]): the items of S take      *)
(* content new[i], and those of copies, fresh identities for the cloud     *)
(* side of a keep_both, content new[i] too.  What is not the cloud's       *)
(* content becomes a local edit.                                           *)
(***************************************************************************)
SettleBatch(d, S, copies, new) ==
    [ d EXCEPT
        !.entities = Put(d.entities, S \cup copies, new),
        !.revision = d.revision + 1,
        !.conflicts = [i \in Item |-> IF i \in S THEN Nil ELSE d.conflicts[i]],
        !.pending = [i \in Item |->
            IF i \in copies \/ (i \in S /\ new[i] # d.conflicts[i].remote.val)
            THEN [rev |-> d.revision + 1, val |-> new[i]]
            ELSE IF i \in S THEN Nil ELSE d.pending[i]] ]

(***************************************************************************)
(* resolve before its final applyValues([]): keep_local writes an outbox   *)
(* row even where the local content has none, or is a deletion.            *)
(***************************************************************************)
SettleOne(d, i, choice) ==
    [ d EXCEPT
        !.entities[i] = IF choice = "use_cloud" THEN d.conflicts[i].remote.val ELSE @,
        !.revision = d.revision + 1,
        !.conflicts[i] = Nil,
        !.pending[i] = IF choice = "use_cloud" THEN Nil
                       ELSE [rev |-> d.revision + 1, val |-> d.entities[i]] ]
=============================================================================
