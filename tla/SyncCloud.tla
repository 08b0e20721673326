----------------------------- MODULE SyncCloud -----------------------------
(***************************************************************************)
(* The cloud's side of the protocol, from the peer the repository's own    *)
(* acceptance tests run against (packages/core/src/sync/fixture.ts).       *)
(*                                                                         *)
(*   c.log      the batches, in sequence order: c.seq is Len(c.log)        *)
(*   c.items    the newest row of each item                                *)
(*   c.epoch    the generation of the keys, raised by a whole replacement  *)
(*   c.expired  increments after an older sequence number are refused      *)
(***************************************************************************)
EXTENDS SyncRepository, Sequences

Cloud ==
    [ log : Seq([id : Nat, epoch : Nat, rows : Batch(Row)]),
      items : Batch(Row), epoch : Nat, expired : Nat ]

InitCloud ==
    [ log |-> <<>>, items |-> NoRows, epoch |-> 1, expired |-> 0 ]

Seqno(c) == Len(c.log)

CloudRev(c, i) == IF c.items[i] = Nil THEN 0 ELSE c.items[i].rev

(* The recorded outcome of request id, if it was ever applied. *)
Applied(c, id) == {k \in 1..Len(c.log) : c.log[k].id = id}

(***************************************************************************)
(* The checks of POST push, in order, for a request not seen before.       *)
(***************************************************************************)
PushOutcome(c, p) ==
    CASE Applied(c, p.id) # {}          -> "OK"
      [] p.epoch # c.epoch              -> "EPOCH_CHANGED"
      [] p.expectedSeq # Seqno(c)       -> "WATERMARK_CHANGED"
      [] \E i \in Item : p.items[i] # Nil /\ p.items[i].base # CloudRev(c, i)
                                        -> "ITEM_CONFLICT"
      [] OTHER                          -> "OK"

(* Rows a batch of uploads becomes: the base revision plus one. *)
UploadedRows(items) ==
    [i \in Item |-> IF items[i] = Nil THEN Nil
                    ELSE [rev |-> items[i].base + 1, val |-> items[i].val]]

AppendBatch(c, id, epoch, rows) ==
    [ c EXCEPT
        !.log = Append(c.log, [id |-> id, epoch |-> epoch, rows |-> rows]),
        !.items = [i \in Item |-> IF rows[i] = Nil THEN c.items[i] ELSE rows[i]],
        !.epoch = epoch ]

(* A repeated request is answered from the record and applied once. *)
HandlePush(c, p) ==
    IF PushOutcome(c, p) = "OK" /\ Applied(c, p.id) = {}
    THEN AppendBatch(c, p.id, c.epoch, UploadedRows(p.items))
    ELSE c

(***************************************************************************)
(* What the client is told: the batch a request became, or an error code.  *)
(***************************************************************************)
BatchAnswer(c, id) ==
    LET k == CHOOSE n \in Applied(c, id) : TRUE
    IN  [code |-> "OK", seq |-> k, epoch |-> c.log[k].epoch]

PushAnswer(c, p) ==
    IF PushOutcome(c, p) = "OK" THEN BatchAnswer(HandlePush(c, p), p.id)
    ELSE [code |-> PushOutcome(c, p), seq |-> 0, epoch |-> 0]
=============================================================================
