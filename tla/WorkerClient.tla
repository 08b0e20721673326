--------------------------- MODULE WorkerClient ---------------------------
(***************************************************************************)
(* The client of a worker thread (workers/client.ts), as operators on a    *)
(* record: one active job, a bounded queue behind it, a timeout that gives *)
(* up on the thread and a close that waits behind every accepted job.      *)
(*                                                                         *)
(*   queue      the jobs waiting                                           *)
(*   active     the job posted to the thread, Nil when there is none       *)
(*   cancelled  the active job's caller has aborted it                     *)
(*   thread     the job the thread is to perform, Nil when it is idle      *)
(*   replied    the thread has performed the active job and answered       *)
(*   closed     no job is accepted or started any more                     *)
(*   closing    close() has been called                                    *)
(*   down       the thread has terminated                                  *)
(***************************************************************************)
EXTENDS Naturals, SequencesExt

CONSTANTS
    Job,         \* the calls that reach a worker
    Close,       \* the barrier job that close() queues
    Nil,
    Capacity     \* how many jobs may wait (16 by default, 64 for the database)

WorkerState ==
    [queue : Seq(Job \cup {Close}), active : Job \cup {Close, Nil},
     cancelled : BOOLEAN, thread : Job \cup {Close, Nil}, replied : BOOLEAN,
     closed : BOOLEAN, closing : BOOLEAN, down : BOOLEAN]

NewWorker ==
    [queue |-> <<>>, active |-> Nil, cancelled |-> FALSE, thread |-> Nil,
     replied |-> FALSE, closed |-> FALSE, closing |-> FALSE, down |-> FALSE]

(* call() takes a job unless the client is closing or the queue is full.   *)
Serving(w) == ~w.closed /\ ~w.closing
Full(w) == Len(w.queue) >= Capacity

(* A slip: the posted job stays at the head of the queue and is run again. *)
PumpTwice(w) ==
    IF w.closed \/ w.active # Nil \/ w.queue = <<>>
    THEN w
    ELSE [w EXCEPT !.active = Head(w.queue), !.cancelled = FALSE,
                   !.thread = Head(w.queue), !.replied = FALSE]

(* pump(): the head of the queue goes to the thread when it is free.       *)
Pump(w) ==
    IF w.closed \/ w.active # Nil \/ w.queue = <<>>
    THEN w
    ELSE [w EXCEPT !.active = Head(w.queue), !.queue = Tail(@),
                   !.cancelled = FALSE, !.thread = Head(w.queue), !.replied = FALSE]

Enqueue(w, job) == Pump([w EXCEPT !.queue = Append(@, job)])

(* The jobs whose callers still wait. *)
Waiting(w) == (ToSet(w.queue) \cup {w.active}) \ {Nil, Close}

(* An abort removes a waiting job; an active one must finish first. *)
Abort(w, job) ==
    IF job = w.active
    THEN [w EXCEPT !.cancelled = TRUE]
    ELSE [w EXCEPT !.queue = Remove(@, job)]

(* The thread has performed the job it was given: its answer is on its way. *)
Perform(w) == [w EXCEPT !.thread = Nil, !.replied = (w.active # Nil)]

(* The answer arrives: the next job starts. *)
Settle(w) == Pump([w EXCEPT !.active = Nil, !.cancelled = FALSE, !.replied = FALSE])

(* rejectAll(): on a timeout, a crash of the thread or the end of close(). *)
RejectAll(w) ==
    [w EXCEPT !.closed = TRUE, !.active = Nil, !.cancelled = FALSE,
              !.replied = FALSE, !.queue = <<>>]

(* close() queues its barrier behind the accepted jobs, full or not. *)
BeginClose(w) ==
    LET marked == [w EXCEPT !.closing = TRUE]
    IN  IF w.closed THEN marked ELSE Enqueue(marked, Close)

Terminate(w) == [RejectAll(w) EXCEPT !.thread = Nil, !.down = TRUE]
=============================================================================
