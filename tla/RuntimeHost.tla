---------------------------- MODULE RuntimeHost ----------------------------
(***************************************************************************)
(* The desktop's main process, the business processes it starts one after  *)
(* another (RuntimeHost, stopProcess, replaceWorkspaceRuntime) and the     *)
(* worker threads inside each (WorkerClient): calls that cross all of them *)
(* while an account switch or a restart replaces the process, deadlines    *)
(* fire and processes and threads die.                                     *)
(***************************************************************************)
EXTENDS Naturals, FiniteSets, SequencesExt

CONSTANTS
    Call,         \* the windows' calls, each made at most once
    Computes,     \* those that run on the compute worker, under the scope's signal
    Guarded,      \* those (SSH, SFTP) whose value main withholds if the runtime has changed
    Workspace,    \* the offline space and the accounts' spaces
    Offline,
    Commit,       \* account.commitTransition, which a switch makes of its candidate
    Close, Nil,   \* see WorkerClient
    Capacity,     \* jobs waiting in a worker client
    MaxPending,   \* calls in flight to one process (256)
    MaxHosts,     \* bound: business processes started
    MaxFaults     \* bound: processes or threads that die of themselves

Shutdown == "shutdown"

ASSUME HostAssumption ==
    /\ Computes \subseteq Call /\ Guarded \subseteq Call /\ Offline \in Workspace
    /\ Commit \notin Call /\ Close \notin Call \cup {Commit}
    /\ Nil \notin Call \cup Workspace \cup {Commit, Close}
    /\ Shutdown \notin Call \cup {Commit}
    /\ Capacity \in Nat \ {0}
    /\ MaxPending \in Nat \ {0} /\ MaxHosts \in Nat \ {0} /\ MaxFaults \in Nat

VARIABLES
    outcome,      \* what each call's window has been told
    asked,        \* the workspace the window showed when its call went out
    written,      \* history: the workspaces a call was performed in, one entry each time
    runtime,      \* main: the process the windows are served by
    healthy,      \* main: it is in service
    switch,       \* main: the replacement under way
    created,      \* main: processes started so far
    space,        \* by process, the workspace it opens
    process,      \* by process, "none", "starting", "ready", "killed" or "exited"
    stop,         \* by process, its stopProcess: "no", "graceful", "forced" or "done"
    pending,      \* by process, the calls main waits for
    inbox,        \* by process, messages from main, in order
    outbox,       \* by process, its responses on their way
    worker,       \* by process and thread, the WorkerClient and its thread
    active,       \* on disk: the workspace the next start would open
    abandoned,    \* history: candidates whose release was reported as failed
    torn,         \* history: a replacement ended with no process in service
    faults        \* bound counter

vars == <<outcome, asked, written, runtime, healthy, switch, created, space, process,
          stop, pending, inbox, outbox, worker, active, abandoned, torn, faults>>
calls == <<outcome, asked>>
main == <<runtime, healthy, switch, created, space>>
history == <<abandoned, torn>>

Job == Call \cup {Commit}
Host == 1..MaxHosts
Thread == {"database", "compute"}
W == INSTANCE WorkerClient

ThreadOf(job) == IF job \in Computes THEN "compute" ELSE "database"
Alive(h) == process[h] \in {"starting", "ready", "killed"}
\* What a killed process still does before it dies it may as well do before the kill.
Running(h) == process[h] = "ready"

(* ACCOUNT_BUSY, RUNTIME_UNAVAILABLE and QUEUE_FULL are refusals.           *)
(* WORKSPACE_CHANGED, "changed", meets calls that were not sent and calls   *)
(* that have been performed (index.ts:744, 340).  Every other error leaves  *)
(* open whether the call was performed, or still will be.                   *)
Outcome == {"unsent", "open", "value", "changed", "refused", "failed"}

Idle == [pc |-> "idle", account |-> FALSE, target |-> Nil, previous |-> 0,
         candidate |-> 0, rollback |-> FALSE]

Switches ==
    [pc : {"idle", "preparing", "closing", "starting", "activating", "releasing"},
     account : BOOLEAN, target : Workspace \cup {Nil}, previous : Host \cup {0},
     candidate : Host \cup {0}, rollback : BOOLEAN]

---------------------------------------------------------------------------
(* Calls from a window to the database and back.                           *)

(* A slip: the context of the request is not compared with the runtime's.  *)
RequestUnchecked(c, h) ==
    /\ outcome[c] = "unsent"
    /\ h <= runtime
    /\ healthy /\ Alive(runtime)
    /\ asked' = [asked EXCEPT ![c] = space[h]]
    /\ outcome' = [outcome EXCEPT ![c] = "open"]
    /\ pending' = [pending EXCEPT ![runtime] = @ \cup {c}]
    /\ inbox' = [inbox EXCEPT ![runtime] = Append(@, c)]
    /\ UNCHANGED <<written, main, process, stop, outbox, worker, active, history, faults>>

(* The window shows process h, which may have been replaced since. *)
Request(c, h) ==
    /\ outcome[c] = "unsent"
    /\ h <= runtime
    /\ LET served == /\ h = runtime /\ healthy /\ Alive(h) /\ stop[h] = "no"
                     /\ ~(switch.pc # "idle" /\ switch.account)
                     /\ Cardinality(pending[h]) < MaxPending
       IN  IF served
           THEN /\ outcome' = [outcome EXCEPT ![c] = "open"]
                /\ asked' = [asked EXCEPT ![c] = space[h]]
                /\ pending' = [pending EXCEPT ![h] = @ \cup {c}]
                /\ inbox' = [inbox EXCEPT ![h] = Append(@, c)]
           ELSE /\ outcome' = [outcome EXCEPT ![c] = IF h = runtime THEN "refused" ELSE "changed"]
                /\ UNCHANGED <<asked, pending, inbox>>
    /\ UNCHANGED <<written, main, process, stop, outbox, worker, active, history, faults>>

Response(job, result) == [job |-> job, result |-> result]
Responses(jobs, result) == {Response(job, result) : job \in jobs}

(* The process passes the call on to the thread that performs it. *)
Dispatch(h) ==
    /\ Running(h) /\ inbox[h] # <<>> /\ Head(inbox[h]) # Shutdown
    /\ inbox' = [inbox EXCEPT ![h] = Tail(@)]
    /\ LET job == Head(inbox[h])
           w == worker[h][ThreadOf(job)]
           taken == W!Serving(w) /\ ~W!Full(w)
           error == IF W!Serving(w) THEN "refused" ELSE "failed"
       IN  /\ worker' = IF taken THEN [worker EXCEPT ![h][ThreadOf(job)] = W!Enqueue(@, job)] ELSE worker
           /\ outbox' = IF taken THEN outbox ELSE [outbox EXCEPT ![h] = @ \cup {Response(job, error)}]
    /\ UNCHANGED <<calls, written, main, process, stop, pending, active, history, faults>>

(* The thread performs the job it was given. *)
Perform(h, k) ==
    /\ Running(h) /\ ~worker[h][k].down /\ worker[h][k].thread # Nil
    /\ LET job == worker[h][k].thread
       IN  /\ written' = IF job \in Call THEN [written EXCEPT ![job] = Append(@, space[h])] ELSE written
           /\ active' = IF job = Commit THEN space[h] ELSE active
    /\ worker' = [worker EXCEPT ![h][k] = W!Perform(@)]
    /\ UNCHANGED <<calls, main, process, stop, pending, inbox, outbox, history, faults>>

(* Its answer reaches the process; the close barrier ends the client. *)
Settle(h, k) ==
    /\ Running(h) /\ worker[h][k].replied
    /\ LET w == worker[h][k]
       IN  /\ worker' = [worker EXCEPT ![h][k] =
                            IF w.active = Close THEN W!RejectAll(@) ELSE W!Settle(@)]
           /\ outbox' = [outbox EXCEPT ![h] = @ \cup
                 Responses({w.active} \ {Close}, IF w.cancelled THEN "failed" ELSE "value")]
    /\ UNCHANGED <<calls, written, main, process, stop, pending, inbox, active, history, faults>>

(* The minute is over: every caller is told, the thread is let go. *)
WorkerTimeout(h, k) ==
    /\ Running(h) /\ worker[h][k].active # Nil /\ faults < MaxFaults
    /\ faults' = faults + 1
    /\ worker' = [worker EXCEPT ![h][k] = W!RejectAll(@)]
    /\ outbox' = [outbox EXCEPT ![h] = @ \cup Responses(W!Waiting(worker[h][k]), "failed")]
    /\ UNCHANGED <<calls, written, main, process, stop, pending, inbox, active, history>>

WorkerTerminates(h, k) ==
    /\ Running(h) /\ worker[h][k].closed /\ ~worker[h][k].down
    /\ worker' = [worker EXCEPT ![h][k] = W!Terminate(@)]
    /\ UNCHANGED <<calls, written, main, process, stop, pending, inbox, outbox, active, history, faults>>

(* What the window hears of a result: main looks at the runtime again       *)
(* before it passes on the value of a guarded call.                         *)
Told(h, r) ==
    IF r.result = "value" /\ r.job \in Guarded /\ ~(h = runtime /\ healthy)
    THEN "changed" ELSE r.result

(* Main hands a response to the window that waits for it, if one does. *)
Deliver(h, r) ==
    /\ Alive(h) /\ r \in outbox[h]
    /\ outbox' = [outbox EXCEPT ![h] = @ \ {r}]
    /\ pending' = [pending EXCEPT ![h] = @ \ {r.job}]
    /\ outcome' = IF r.job \in Call \cap pending[h]
                  THEN [outcome EXCEPT ![r.job] = Told(h, r)] ELSE outcome
    /\ IF r.job = Commit /\ r.job \in pending[h] /\ r.result = "value"
       THEN /\ runtime' = h /\ healthy' = TRUE /\ switch' = Idle
       ELSE UNCHANGED <<runtime, healthy, switch>>
    /\ UNCHANGED <<asked, written, created, space, process, stop, inbox, worker, active, history, faults>>

RequestTimeout(h, job) ==
    /\ job \in pending[h]
    /\ pending' = [pending EXCEPT ![h] = @ \ {job}]
    /\ outcome' = IF job \in Call THEN [outcome EXCEPT ![job] = "failed"] ELSE outcome
    /\ UNCHANGED <<asked, written, main, process, stop, inbox, outbox, worker, active, history, faults>>

(* A slip: calls whose process is gone are reported as not performed. *)
RejectPendingRefused(h) ==
    /\ outcome' = [c \in Call |-> IF c \in pending[h] THEN "refused" ELSE outcome[c]]
    /\ pending' = [pending EXCEPT ![h] = {}]

(* A slip: they are forgotten. *)
RejectPendingSilently(h) ==
    /\ pending' = [pending EXCEPT ![h] = {}]
    /\ UNCHANGED outcome

(* rejectPending(): a process that is gone, or given up on, answers no more. *)
RejectPending(h) ==
    /\ outcome' = [c \in Call |-> IF c \in pending[h] THEN "failed" ELSE outcome[c]]
    /\ pending' = [pending EXCEPT ![h] = {}]
---------------------------------------------------------------------------
(* A business process stops: asked to, killed, or of itself.               *)

(* stopProcess: the shutdown message goes out and the first deadline runs. *)
BeginStop(h) ==
    IF stop[h] # "no"
    THEN UNCHANGED <<stop, inbox>>
    ELSE /\ stop' = [stop EXCEPT ![h] = IF Alive(h) THEN "graceful" ELSE "done"]
         /\ inbox' = IF Alive(h) THEN [inbox EXCEPT ![h] = Append(@, Shutdown)] ELSE inbox

(* The scope aborts its signal: waiting compute jobs are withdrawn. *)
HandleShutdown(h) ==
    /\ Running(h) /\ inbox[h] # <<>> /\ Head(inbox[h]) = Shutdown
    /\ inbox' = [inbox EXCEPT ![h] = Tail(@)]
    /\ LET w == worker[h]["compute"]
           waiting == W!Waiting(w) \ {w.active}
           left == [w EXCEPT !.queue = <<>>]
       IN  IF w.closing
           THEN UNCHANGED <<worker, outbox>>
           ELSE /\ worker' = [worker EXCEPT ![h]["compute"] =
                      W!BeginClose(IF w.active = Nil THEN left ELSE W!Abort(left, w.active))]
                /\ outbox' = [outbox EXCEPT ![h] = @ \cup Responses(waiting, "failed")]
    /\ UNCHANGED <<calls, written, main, process, stop, pending, active, history, faults>>

(* Its resources close in reverse order: the database last. *)
CloseDatabase(h) ==
    /\ Running(h) /\ worker[h]["compute"].closing /\ worker[h]["compute"].down
    /\ ~worker[h]["database"].closing
    /\ worker' = [worker EXCEPT ![h]["database"] = W!BeginClose(@)]
    /\ UNCHANGED <<calls, written, main, process, stop, pending, inbox, outbox, active, history, faults>>

Leaves(h) ==
    /\ process' = [process EXCEPT ![h] = "exited"]
    /\ stop' = [stop EXCEPT ![h] = IF @ = "no" THEN @ ELSE "done"]
    /\ RejectPending(h)
    /\ inbox' = [inbox EXCEPT ![h] = <<>>]
    /\ outbox' = [outbox EXCEPT ![h] = {}]
    /\ worker' = [worker EXCEPT ![h] = [k \in Thread |-> W!NewWorker]]
    \* The exit handler declares the runtime failed, whichever process it was.
    /\ healthy' = IF stop[h] = "no" THEN FALSE ELSE healthy
    /\ UNCHANGED <<asked, written, runtime, switch, created, space, active, history>>

Exit(h) ==
    /\ \/ process[h] = "killed"
       \/ Running(h) /\ \A k \in Thread : worker[h][k].closing /\ worker[h][k].down
    /\ Leaves(h)
    /\ UNCHANGED faults

Crash(h) ==
    /\ process[h] \in {"starting", "ready"} /\ faults < MaxFaults
    /\ faults' = faults + 1
    /\ Leaves(h)

GraceTimeout(h) ==
    /\ stop[h] = "graceful" /\ Alive(h)
    /\ stop' = [stop EXCEPT ![h] = "forced"]
    /\ process' = [process EXCEPT ![h] = "killed"]
    /\ UNCHANGED <<calls, written, main, pending, inbox, outbox, worker, active, history, faults>>

(* The kill is refused, or the process outlives the second deadline. *)
StopFails(h) ==
    /\ stop[h] \in {"graceful", "forced"} /\ Alive(h) /\ faults < MaxFaults
    /\ faults' = faults + 1
    /\ stop' = [stop EXCEPT ![h] = "no"]
    /\ RejectPending(h)
    /\ UNCHANGED <<asked, written, main, process, inbox, outbox, worker, active, history>>
---------------------------------------------------------------------------
(* Main replaces the process: an account switch, or a restart.             *)

(* Login, registration and logout first talk to the account service. *)
ChangeAccount(target) ==
    /\ switch.pc = "idle" /\ healthy
    /\ target # space[runtime] /\ created + 2 <= MaxHosts
    /\ switch' = [Idle EXCEPT !.pc = "preparing", !.account = TRUE, !.target = target, !.previous = runtime]
    /\ UNCHANGED <<calls, written, runtime, healthy, created, space, process, stop, pending,
                   inbox, outbox, worker, active, history, faults>>

ChangeRefused ==
    /\ switch.pc = "preparing"
    /\ switch' = Idle
    /\ UNCHANGED <<calls, written, runtime, healthy, created, space, process, stop, pending,
                   inbox, outbox, worker, active, history, faults>>

ChangeBegins ==
    /\ switch.pc = "preparing" /\ healthy
    /\ healthy' = FALSE
    /\ switch' = [switch EXCEPT !.pc = "closing"]
    /\ BeginStop(runtime)
    /\ UNCHANGED <<calls, written, runtime, created, space, process, pending, outbox, worker,
                   active, history, faults>>

RestartRuntime ==
    /\ switch.pc = "idle" /\ created < MaxHosts
    /\ healthy' = FALSE
    /\ switch' = [Idle EXCEPT !.pc = "closing", !.target = space[runtime], !.previous = runtime]
    /\ BeginStop(runtime)
    /\ UNCHANGED <<calls, written, runtime, created, space, process, pending, outbox, worker,
                   active, history, faults>>

(* start() forks the next process, which opens the workspace's database. *)
Create(workspace) ==
    /\ created' = created + 1
    /\ space' = [space EXCEPT ![created + 1] = workspace]
    /\ process' = [process EXCEPT ![created + 1] = "starting"]

(* A slip: the candidate is started while the previous process still ends. *)
StartCandidateEarly ==
    /\ switch.pc = "closing"
    /\ Create(switch.target)
    /\ switch' = [switch EXCEPT !.pc = "starting", !.candidate = created + 1]
    /\ UNCHANGED <<calls, written, runtime, healthy, stop, pending, inbox, outbox, worker,
                   active, history, faults>>

StartCandidate ==
    /\ switch.pc = "closing" /\ stop[switch.previous] = "done"
    /\ Create(switch.target)
    /\ switch' = [switch EXCEPT !.pc = "starting", !.candidate = created + 1]
    /\ UNCHANGED <<calls, written, runtime, healthy, stop, pending, inbox, outbox, worker,
                   active, history, faults>>

(* A slip: the rollback takes over without recording its workspace again.  *)
ReadyNoRecommit ==
    LET h == switch.candidate
    IN  /\ switch.pc = "starting" /\ process[h] = "starting"
        /\ process' = [process EXCEPT ![h] = "ready"]
        /\ switch' = [switch EXCEPT !.pc = "activating", !.account = @ /\ ~switch.rollback]
        /\ IF switch.account /\ ~switch.rollback
           THEN /\ pending' = [pending EXCEPT ![h] = @ \cup {Commit}]
                /\ inbox' = [inbox EXCEPT ![h] = Append(@, Commit)]
           ELSE UNCHANGED <<pending, inbox>>
        /\ UNCHANGED <<calls, written, runtime, healthy, created, space, stop, outbox, worker,
                       active, history, faults>>

Ready ==
    LET h == switch.candidate
    IN  /\ switch.pc = "starting" /\ process[h] = "starting"
        /\ process' = [process EXCEPT ![h] = "ready"]
        /\ switch' = [switch EXCEPT !.pc = "activating"]
        /\ IF switch.account
           THEN /\ pending' = [pending EXCEPT ![h] = @ \cup {Commit}]
                /\ inbox' = [inbox EXCEPT ![h] = Append(@, Commit)]
           ELSE UNCHANGED <<pending, inbox>>
        /\ UNCHANGED <<calls, written, runtime, healthy, created, space, stop, outbox, worker,
                       active, history, faults>>

(* A restart only reads its settings before it takes over. *)
ActivateRestarted ==
    /\ switch.pc = "activating" /\ ~switch.account /\ process[switch.candidate] = "ready"
    /\ runtime' = switch.candidate /\ healthy' = TRUE /\ switch' = Idle
    /\ UNCHANGED <<calls, written, created, space, process, stop, pending, inbox, outbox, worker,
                   active, history, faults>>

Release ==
    /\ switch' = [switch EXCEPT !.pc = "releasing"]
    /\ BeginStop(switch.candidate)
    /\ UNCHANGED <<calls, written, runtime, healthy, created, space, pending, outbox, worker,
                   active, history, faults>>

(* Half a minute without "ready", or a fatal message: it is killed. *)
StartFails ==
    /\ switch.pc = "starting"
    /\ process' = [process EXCEPT ![switch.candidate] = IF @ = "starting" THEN "killed" ELSE @]
    /\ Release

ActivationFails ==
    /\ switch.pc = "activating"
    /\ Commit \notin pending[switch.candidate]
    /\ Release
    /\ UNCHANGED process

(* The candidate is gone: the previous workspace opens again. *)
RollBack ==
    /\ switch.pc = "releasing" /\ stop[switch.candidate] = "done" /\ ~switch.rollback
    /\ created < MaxHosts
    /\ Create(space[switch.previous])
    /\ switch' = [switch EXCEPT !.pc = "starting", !.candidate = created + 1, !.rollback = TRUE]
    /\ UNCHANGED <<calls, written, runtime, healthy, stop, pending, inbox, outbox, worker,
                   active, history, faults>>

(* A slip: a candidate that cannot be stopped is waited for. *)
SwitchFailsEarly ==
    /\ switch.pc = "closing" /\ stop[switch.previous] = "no"
    /\ switch' = Idle
    /\ UNCHANGED <<calls, written, runtime, healthy, created, space, process, stop, pending,
                   inbox, outbox, worker, active, history, faults>>

(* No process is left in service (the last one that can be forked is gone, *)
(* or a stop failed); a restart may follow.                                *)
SwitchFails ==
    /\ \/ switch.pc = "closing" /\ stop[switch.previous] = "no"
       \/ switch.pc = "releasing" /\ stop[switch.candidate] = "no"
       \/ switch.pc = "releasing" /\ stop[switch.candidate] = "done"
          /\ (switch.rollback \/ created = MaxHosts)
    /\ torn' = (torn \/ switch.pc = "releasing")
    /\ abandoned' = IF switch.pc = "releasing" /\ stop[switch.candidate] = "no"
                    THEN abandoned \cup {switch.candidate} ELSE abandoned
    /\ switch' = Idle
    /\ UNCHANGED <<calls, written, runtime, healthy, created, space, process, stop, pending,
                   inbox, outbox, worker, active, faults>>
---------------------------------------------------------------------------
Init ==
    /\ outcome = [c \in Call |-> "unsent"]
    /\ asked = [c \in Call |-> Nil]
    /\ written = [c \in Call |-> <<>>]
    /\ runtime = 1 /\ healthy = TRUE /\ switch = Idle /\ created = 1
    /\ space = [h \in Host |-> Offline]
    /\ process = [h \in Host |-> IF h = 1 THEN "ready" ELSE "none"]
    /\ stop = [h \in Host |-> "no"]
    /\ pending = [h \in Host |-> {}]
    /\ inbox = [h \in Host |-> <<>>]
    /\ outbox = [h \in Host |-> {}]
    /\ worker = [h \in Host |-> [k \in Thread |-> W!NewWorker]]
    /\ active = Offline
    /\ abandoned = {} /\ torn = FALSE /\ faults = 0

Works(h) ==
    \/ Dispatch(h) \/ HandleShutdown(h) \/ CloseDatabase(h) \/ Exit(h)
    \/ \E k \in Thread : Perform(h, k) \/ Settle(h, k) \/ WorkerTerminates(h, k)
    \/ \E r \in outbox[h] : Deliver(h, r)

Times(h) ==
    \/ GraceTimeout(h)
    \/ \E job \in Job : RequestTimeout(h, job)

Replaces ==
    \/ ChangeBegins \/ ChangeRefused \/ StartCandidate \/ Ready \/ ActivateRestarted
    \/ StartFails \/ ActivationFails \/ RollBack \/ SwitchFails

Next ==
    \/ \E c \in Call, h \in Host : Request(c, h)
    \/ \E target \in Workspace : ChangeAccount(target)
    \/ RestartRuntime
    \/ Replaces
    \/ \E h \in Host : Works(h) \/ Times(h) \/ Crash(h) \/ StopFails(h)
    \/ \E h \in Host, k \in Thread : WorkerTimeout(h, k)

Fairness ==
    /\ WF_vars(Replaces)
    /\ \A h \in Host : WF_vars(Works(h)) /\ WF_vars(Times(h))

Spec == Init /\ [][Next]_vars /\ Fairness
---------------------------------------------------------------------------
TypeOK ==
    /\ outcome \in [Call -> Outcome]
    /\ runtime \in Host /\ healthy \in BOOLEAN /\ switch \in Switches
    /\ process \in [Host -> {"none", "starting", "ready", "killed", "exited"}]
    /\ stop \in [Host -> {"no", "graceful", "forced", "done"}]
    /\ \A h \in Host, k \in Thread :
          /\ worker[h][k] \in W!WorkerState
          /\ Len(worker[h][k].queue) <= Capacity + 1
          /\ worker[h][k].active \notin ToSet(worker[h][k].queue)

(* Two processes never hold the database at the same time, but for a       *)
(* candidate that main has given up waiting for (workspace-runtime.ts:25). *)
SingleOwner ==
    \A h, i \in Host \ abandoned : Alive(h) /\ Alive(i) => h = i

(* A call is performed at most once, and in the workspace its window       *)
(* showed, never in the one that a switch has opened meanwhile             *)
(* (index.ts:745, the context of the request against the runtime's).       *)
WritesStayHome == \A c \in Call : written[c] \in {<<>>, <<asked[c]>>}

(* The workspace in service is the one the next start opens, unless a      *)
(* replacement had ended with no process at all (late commits of a failed  *)
(* switch included).                                                       *)
ActiveIsRunning ==
    healthy /\ ~torn => active = space[runtime]

(* Every call that enters comes back, and every replacement ends.          *)
CallsReturn == \A c \in Call : outcome[c] = "open" ~> outcome[c] # "open"
SwitchEnds == switch.pc # "idle" ~> switch.pc = "idle"

(* The abstract contract of a call, CallOutcomes, which this implements:   *)
(* timeouts, exits and closed workers never say "not done" of what is, or  *)
(* "done" of what is not, and nothing is done after a "changed"            *)
(* (runtime-host.ts:348, workers/client.ts:98, index.ts:362).              *)
Promised ==
    INSTANCE CallOutcomes WITH
        performed <- {c \in Call : written[c] # <<>>}

OutcomesAreTrue == Promised!Spec
=============================================================================
