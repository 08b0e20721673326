---------------------------- MODULE SftpTransfer ----------------------------
(***************************************************************************)
(* File transfers (sftp/service.ts): copies that the service runs itself   *)
(* and uploads that a page feeds chunk by chunk, sharing a few slots. Each *)
(* job writes a randomly named staging file beside its destination, saves  *)
(* a checkpoint after every chunk, and at the end renames the staging file *)
(* over the destination, provided that the destination is still the one    *)
(* the plan was made for. Pause, cancel, resume, restart and the answer to *)
(* a conflict come while a job runs; the process may crash at any await.   *)
(*                                                                         *)
(* Every job here has one file, and all have the same destination. A chunk *)
(* is represented by the version of the source it was read from.           *)
(***************************************************************************)
EXTENDS Integers, Sequences, FiniteSets

CONSTANTS
    Copy, Upload,  \* jobs the service runs, jobs a page feeds
    Caller,        \* requests that may be under way at the same time
    Nil,
    Size,          \* chunks of a file
    MaxActive,     \* slots, five in the code
    MaxNames,      \* bound: staging names of a job, so restarts + 1
    MaxFaults      \* bound: changes of the files by others, crashes of the process, and
                   \* openings whose save fails

ASSUME TransferAssumption ==
    /\ Copy \cap Upload = {}
    /\ IsFiniteSet(Copy) /\ IsFiniteSet(Upload) /\ IsFiniteSet(Caller)
    /\ Nil \notin Copy \cup Upload \cup {"open", "pause", "cancel"}
    /\ Size \in Nat \ {0} /\ MaxActive \in Nat \ {0} /\ MaxNames \in Nat \ {0}
    /\ MaxFaults \in Nat

VARIABLES
    job,        \* by job: its checkpoint in memory and how it runs
    disk,       \* by job: the checkpoint as a restart would read it
    stage,      \* by job and name: chunks of its staging file, Nil when there is none
    dest,       \* the destination: its identity (0: no file) and the chunks of a copy
    source,     \* by job: the version of its source
    active,     \* the counter of slots in use
    mutating,   \* the job that holds the mutation lock of the target profile
    caller,     \* by caller: the request under way
    overdrawn,  \* history: openings that gave back a slot that was given back before
    delivered,  \* history: jobs whose staging file became the destination
    discarded,  \* history: jobs whose staging file a cleanup went for
    faults      \* bound counter

vars == <<job, disk, stage, dest, source, active, mutating, caller, overdrawn, delivered,
          discarded, faults>>
outside == <<source, overdrawn, faults>>
files == <<stage, dest, delivered, discarded>>

Job == Copy \cup Upload
Name == 1..MaxNames
Version == 1..(1 + MaxFaults)
Chunks == UNION {[1..n -> Version] : n \in 0..Size}
Identity == 0..(1 + MaxFaults + Cardinality(Job) * MaxNames)

ASSUME ContentAssumption == Nil \notin Chunks

Active == {"queued", "transferring"}
Finished == {"completed", "cancelled"}
Status == Active \cup Finished \cup {"none", "paused", "recoverable", "failed"}
CopyStep == {"preparing", "checking", "copying", "written", "completing"}
FinishStep == {"closing", "committing", "renaming", "renamed", "ending"}
UploadStep == {"opened", "open", "writing"}

(* What a failed upload still owes once its channel and its slot are given *)
(* back and "failed" is being saved: a "run" its finally, a "chunk" the    *)
(* schedule and the end of its turn in the job's chain.                    *)
Debt == {"none", "run", "chunk"}

(* The checkpoint. plan: what to do about an existing destination, "made"  *)
(* once the directory plan is fixed; version 0: nothing to copy (skipped). *)
Checkpoint == [status : Status, plan : {"ask", "overwrite", "skip", "made"}, conflict : BOOLEAN,
               target : Identity, version : {0} \cup Version, prefix : Chunks, complete : BOOLEAN,
               name : Name]
NoCheckpoint == [status |-> "none", plan |-> "ask", conflict |-> FALSE, target |-> 0,
                 version |-> 0, prefix |-> <<>>, complete |-> FALSE, name |-> 1]
Idle == [ck |-> NoCheckpoint, step |-> "none", busy |-> FALSE, owes |-> "none", aborted |-> FALSE,
         handle |-> 1, chunk |-> 0, sent |-> 0]
NoCall == [step |-> "idle", op |-> Nil, job |-> Nil]

Init ==
    /\ job = [j \in Job |-> Idle] /\ disk = [j \in Job |-> NoCheckpoint]
    /\ stage = [j \in Job |-> [n \in Name |-> Nil]]
    /\ dest = [id |-> 0, chunks |-> <<>>] /\ source = [j \in Job |-> 1]
    /\ active = 0 /\ mutating = Nil /\ caller = [x \in Caller |-> NoCall]
    /\ overdrawn = 0 /\ delivered = {} /\ discarded = {} /\ faults = 0

status(j) == job[j].ck.status
Staged(j) == stage[j][job[j].ck.name]
PutStage(j, n, content) == stage' = [stage EXCEPT ![j][n] = content]
With(j, r) == [job EXCEPT ![j] = r]

(* restore(): a transfer that was active or paused comes back recoverable. *)
Restored(ck) == IF ck.status \in Active \cup {"paused"} THEN [ck EXCEPT !.status = "recoverable"] ELSE ck
Save(js, j) == disk' = [disk EXCEPT ![j] = Restored(js[j].ck)]

(* schedule(): the free slots go to queued copies that no run works on. *)
Startable(js) == {j \in Copy : ~js[j].busy /\ js[j].ck.status = "queued"}
Started(r) == [r EXCEPT !.busy = TRUE, !.ck.status = "transferring",
                        !.step = IF r.ck.plan = "made" THEN "checking" ELSE "preparing"]
(* A slip: the slots in use are not counted. *)
FreeAll(act) == MaxActive

Free(act) == IF act < MaxActive THEN MaxActive - act ELSE 0
Schedule(js, act) ==
    \E S \in SUBSET Startable(js) :
        /\ Cardinality(S) <= Free(act)
        /\ Startable(js) # S => Cardinality(S) = Free(act)
        /\ job' = [j \in Job |-> IF j \in S THEN Started(js[j]) ELSE js[j]]
        /\ active' = act + Cardinality(S)

Return(x) == caller' = [caller EXCEPT ![x] = NoCall]
Call(x, op, j, step) == caller' = [caller EXCEPT ![x] = [step |-> step, op |-> op, job |-> j]]
Goes(x, step) == Call(x, IF step = "chained" THEN "open" ELSE Nil, caller[x].job, step)

(* serial(): the job's chain is taken by an opening upload, by a cancel's  *)
(* cleanup and by a chunk. Who waits for it gets it in any order.          *)
ChainFree(j) ==
    /\ job[j].step # "writing" /\ job[j].owes # "chunk"
    /\ \A x \in Caller : caller[x].job = j => caller[x].step \notin {"opening", "announcing", "cleaning"}

(* job.run, which a stop waits for: an upload that opens forgets the run   *)
(* that went before it.                                                    *)
Running(j) ==
    \/ job[j].step \in CopyStep \cup FinishStep
    \/ job[j].step = "none" /\ job[j].owes = "run"

(* A handle writes at the offset of the checkpoint to the file that it was *)
(* opened on; what is written to a removed file is lost.                   *)
WriteAt(j) ==
    LET old == stage[j][job[j].handle]
        n == Len(job[j].ck.prefix) + 1
        new == IF n <= Len(old) THEN [old EXCEPT ![n] = source[j]] ELSE Append(old, source[j])
    IN  PutStage(j, job[j].handle, IF old = Nil THEN Nil ELSE new)

-----------------------------------------------------------------------------
(* A run of a copy. *)

(* prepare(): look at the destination; ask, or fix the plan. *)
RunPrepares(j) ==
    /\ job[j].step = "preparing" /\ ~job[j].aborted
    /\ LET asks == job[j].ck.plan = "ask" /\ dest.id # 0
           skips == job[j].ck.plan = "skip" /\ dest.id # 0
           js == IF asks
                 THEN With(j, [job[j] EXCEPT !.ck.status = "paused", !.ck.conflict = TRUE, !.step = "ending"])
                 ELSE With(j, [job[j] EXCEPT !.ck.plan = "made", !.ck.target = dest.id,
                                             !.ck.version = IF skips THEN 0 ELSE source[j],
                                             !.ck.complete = skips, !.step = "checking"])
       IN  job' = js /\ Save(js, j)
    /\ UNCHANGED <<files, outside, active, mutating, caller>>

(* The staging file is what the checkpoint says it is. *)
StageAsSaved(j) == IF job[j].ck.prefix = <<>> THEN Staged(j) = Nil ELSE Staged(j) = job[j].ck.prefix

(* A slip: a resumed job opens its staging file anew. *)
OpenedAnew(j) == PutStage(j, job[j].ck.name, <<>>)

Opened(j) == PutStage(j, job[j].ck.name, job[j].ck.prefix)

RunChecks(j) ==
    /\ job[j].step = "checking" /\ ~job[j].aborted
    /\ \/ job[j].ck.complete /\ job' = With(j, [job[j] EXCEPT !.step = "completing"]) /\ UNCHANGED stage
       \/ /\ ~job[j].ck.complete
          /\ source[j] = job[j].ck.version /\ dest.id = job[j].ck.target /\ StageAsSaved(j)
          /\ Opened(j)
          /\ job' = With(j, [job[j] EXCEPT !.step = "copying", !.handle = job[j].ck.name])
    /\ UNCHANGED <<disk, dest, delivered, discarded, outside, active, mutating, caller>>

RunWrites(j) ==
    /\ job[j].step = "copying" /\ ~job[j].aborted /\ Len(job[j].ck.prefix) < Size
    /\ WriteAt(j)
    /\ job' = With(j, [job[j] EXCEPT !.step = "written", !.chunk = source[j]])
    /\ UNCHANGED <<disk, dest, delivered, discarded, outside, active, mutating, caller>>

RunAcks(j) ==
    /\ job[j].step = "written"
    /\ LET js == With(j, [job[j] EXCEPT !.ck.prefix = Append(@, job[j].chunk), !.step = "copying", !.chunk = 0])
       IN  job' = js /\ Save(js, j)
    /\ UNCHANGED <<files, outside, active, mutating, caller>>

(* A slip: the file is marked complete before it is renamed. *)
RunVerifiesEarly(j) ==
    /\ \/ job[j].step = "copying" /\ Len(job[j].ck.prefix) = Size /\ source[j] = job[j].ck.version
       \/ job[j].step = "closing"
    /\ ~job[j].aborted /\ Staged(j) # Nil /\ Len(Staged(j)) = Size
    /\ LET js == With(j, [job[j] EXCEPT !.step = "committing", !.ck.complete = TRUE])
       IN  job' = js /\ Save(js, j)
    /\ UNCHANGED <<files, outside, active, mutating, caller>>

(* The handles are closed; the source and the length of the file are right. *)
RunVerifies(j) ==
    /\ \/ job[j].step = "copying" /\ Len(job[j].ck.prefix) = Size /\ source[j] = job[j].ck.version
       \/ job[j].step = "closing"
    /\ ~job[j].aborted /\ Staged(j) # Nil /\ Len(Staged(j)) = Size
    /\ job' = With(j, [job[j] EXCEPT !.step = "committing"])
    /\ UNCHANGED <<disk, files, outside, active, mutating, caller>>

(* A slip: the destination is not looked at again. *)
RunLocksUnchecked(j) ==
    /\ job[j].step = "committing" /\ ~job[j].aborted
    /\ mutating = Nil
    /\ mutating' = j
    /\ job' = With(j, [job[j] EXCEPT !.step = "renaming"])
    /\ UNCHANGED <<disk, files, outside, active, caller>>

(* mutate(): the last look at the destination, and the rename under the lock. *)
RunLocks(j) ==
    /\ job[j].step = "committing" /\ ~job[j].aborted
    /\ mutating = Nil /\ dest.id = job[j].ck.target
    /\ mutating' = j
    /\ job' = With(j, [job[j] EXCEPT !.step = "renaming"])
    /\ UNCHANGED <<disk, files, outside, active, caller>>

RunRenames(j) ==
    /\ job[j].step = "renaming" /\ Staged(j) # Nil
    /\ dest' = [id |-> dest.id + 1, chunks |-> Staged(j)]
    /\ PutStage(j, job[j].ck.name, Nil)
    /\ delivered' = delivered \cup {j}
    /\ job' = With(j, [job[j] EXCEPT !.step = "renamed"])
    /\ UNCHANGED <<disk, discarded, outside, active, mutating, caller>>

(* A copy saves that its file is complete, and then that it is completed;  *)
(* an upload saves both at once.                                           *)
RunCommits(j) ==
    /\ job[j].step = "renamed"
    /\ LET done == [job[j] EXCEPT !.ck.complete = TRUE]
           js == With(j, IF j \in Copy THEN [done EXCEPT !.step = "completing"]
                         ELSE [done EXCEPT !.ck.status = "completed", !.step = "ending"])
       IN  job' = js /\ Save(js, j)
    /\ mutating' = Nil
    /\ UNCHANGED <<files, outside, active, caller>>

RunCompletes(j) ==
    /\ job[j].step = "completing"
    /\ LET js == With(j, [job[j] EXCEPT !.ck.status = "completed", !.step = "ending"])
       IN  job' = js /\ Save(js, j)
    /\ UNCHANGED <<files, outside, active, mutating, caller>>

(* An error, a refusal by one of the checks or an abort ends the run of a  *)
(* copy. Only an abort says nothing: whoever stopped the job sets its      *)
(* status.                                                                 *)
RunFails(j) ==
    /\ j \in Copy
    /\ job[j].step \in {"preparing", "checking", "copying", "written"} \cup (FinishStep \ {"ending"})
    /\ LET js == With(j, [job[j] EXCEPT !.step = "ending", !.chunk = 0,
                                        !.ck.status = IF job[j].aborted THEN @ ELSE "failed"])
       IN  /\ job' = js
           /\ IF job[j].aborted THEN UNCHANGED disk ELSE Save(js, j)
    /\ mutating' = IF mutating = j THEN Nil ELSE mutating
    /\ UNCHANGED <<files, outside, active, caller>>

(* finally: the slot is free, the queue goes on, and who waited for the    *)
(* run goes to the job's chain.                                            *)
Released(r) == [r EXCEPT !.step = "none", !.busy = FALSE, !.handle = 1, !.sent = 0]
WaitersGoOn(j) ==
    caller' = [x \in Caller |-> IF caller[x].job = j /\ caller[x].step = "waiting"
                                THEN [caller[x] EXCEPT !.step = "chained"] ELSE caller[x]]

RunEnds(j) ==
    /\ job[j].step = "ending"
    /\ Schedule(With(j, Released(job[j])), active - 1)
    /\ WaitersGoOn(j)
    /\ UNCHANGED <<disk, files, outside, mutating>>

RunStep(j) ==
    \/ RunPrepares(j) \/ RunChecks(j) \/ RunWrites(j) \/ RunAcks(j) \/ RunVerifies(j)
    \/ RunLocks(j) \/ RunRenames(j) \/ RunCommits(j) \/ RunCompletes(j) \/ RunEnds(j)

-----------------------------------------------------------------------------
(* Requests. *)

Idles(x) == caller[x].step = "idle"
Fresh(plan) == [NoCheckpoint EXCEPT !.status = "queued", !.plan = plan]

CopyBegins(x, j) ==
    /\ Idles(x) /\ status(j) = "none"
    /\ \E plan \in {"ask", "overwrite", "skip"} :
         LET js == With(j, [job[j] EXCEPT !.ck = Fresh(plan)])
         IN  job' = js /\ Save(js, j)
    /\ Call(x, Nil, j, "saving")
    /\ UNCHANGED <<files, outside, active, mutating>>

(* uploadBegin(): the destination is read now; the job then opens. *)
UploadBegins(x, j) ==
    /\ Idles(x) /\ status(j) = "none" /\ active < MaxActive
    /\ LET js == With(j, [job[j] EXCEPT !.ck = [Fresh("made") EXCEPT !.target = dest.id, !.version = 1]])
       IN  job' = js /\ Save(js, j)
    /\ Call(x, "open", j, "chained")
    /\ UNCHANGED <<files, outside, active, mutating>>

(* The save of a new or a resumed job has returned: schedule(). *)
Schedules(x) ==
    /\ caller[x].step = "saving"
    /\ Schedule(job, active) /\ Return(x)
    /\ UNCHANGED <<disk, files, outside, mutating>>

Stop(x, j, op) ==
    /\ Idles(x) /\ status(j) \notin {"none", "completed"}
    /\ IF status(j) = "cancelled"
       THEN Call(x, Nil, j, "sweeping") /\ UNCHANGED job
       ELSE /\ job' = With(j, [job[j] EXCEPT !.aborted = TRUE])
            /\ Call(x, op, j, IF Running(j) THEN "waiting" ELSE "chained")
    /\ UNCHANGED <<disk, files, outside, active, mutating>>

(* The body of stop(), once the run that it waited for has ended and the   *)
(* chain is free. A rename that won keeps its outcome. An open upload      *)
(* gives its slot back.                                                    *)
StopTakes(x) ==
    LET j == caller[x].job
        open == job[j].step = "open"
        stopped == [job[j] EXCEPT !.ck.status = IF caller[x].op = "pause" THEN "paused" ELSE "cancelled"]
        js == With(j, IF open THEN Released(stopped) ELSE stopped)
        act == IF open THEN active - 1 ELSE active
    IN  /\ caller[x].step = "chained" /\ caller[x].op \in {"pause", "cancel"} /\ ChainFree(j)
        /\ \/ /\ status(j) = "completed"
              /\ Schedule(job, active) /\ Return(x) /\ UNCHANGED disk
           \/ /\ status(j) # "completed" /\ caller[x].op = "pause"
              /\ Schedule(js, act) /\ Return(x) /\ Save(js, j)
           \/ /\ status(j) # "completed" /\ caller[x].op = "cancel"
              /\ job' = js /\ active' = act /\ Goes(x, "cleaning") /\ Save(js, j)
        /\ UNCHANGED <<files, outside, mutating>>

(* cleanup(): the staging file is removed, or could not be, which nobody   *)
(* is told.                                                                *)
Removed(j) ==
    /\ discarded' = discarded \cup {j}
    /\ \/ ~job[j].ck.complete /\ PutStage(j, job[j].ck.name, Nil)
       \/ UNCHANGED stage

Cleans(x) ==
    /\ caller[x].step \in {"cleaning", "sweeping"}
    /\ Removed(caller[x].job)
    /\ IF caller[x].step = "cleaning" THEN Schedule(job, active) ELSE UNCHANGED <<job, active>>
    /\ Return(x)
    /\ UNCHANGED <<disk, dest, delivered, outside, mutating>>

(* The endpoint is not connected: cleanup, or the stat of the source that  *)
(* a restart asks for, throws, and nothing after it is done.               *)
Throws(x) ==
    /\ caller[x].step \in {"cleaning", "sweeping", "restarting", "resetting", "erasing"}
    /\ Return(x)
    /\ UNCHANGED <<job, disk, files, outside, active, mutating>>

Resumable(j) ==
    /\ ~job[j].busy /\ status(j) \notin Finished \cup {"none"} /\ ~job[j].ck.conflict
Requeued(r) == [r EXCEPT !.aborted = FALSE, !.ck.status = "queued"]

Resume(x, j) ==
    /\ Idles(x) /\ Resumable(j)
    /\ LET js == With(j, Requeued(job[j])) IN job' = js /\ Save(js, j)
    /\ Call(x, Nil, j, "saving")
    /\ UNCHANGED <<files, outside, active, mutating>>

(* A job without a plan has no file to clean or to look at again: to       *)
(* restart it is to resume it.                                             *)
Restart(x, j) ==
    /\ Idles(x) /\ Resumable(j) /\ job[j].ck.plan = "made"
    /\ Call(x, Nil, j, "restarting")
    /\ UNCHANGED <<job, disk, files, outside, active, mutating>>

(* The random name of the next staging file: no file has it. *)
FreshNames(j) == {n \in Name : n > job[j].ck.name /\ stage[j][n] = Nil}

(* Nothing is asked again after an await: the job may have been cancelled, *)
(* or resumed by another request.                                          *)
RestartCleans(x) ==
    LET j == caller[x].job
    IN  /\ caller[x].step = "restarting"
        /\ Removed(j)
        /\ IF job[j].ck.complete THEN UNCHANGED job
           ELSE \E n \in FreshNames(j) : job' = With(j, [job[j] EXCEPT !.ck.prefix = <<>>, !.ck.name = n])
        /\ Goes(x, "resetting")
        /\ UNCHANGED <<disk, dest, delivered, outside, active, mutating>>

RestartQueues(x) ==
    LET j == caller[x].job
        js == With(j, [Requeued(job[j]) EXCEPT !.ck.version = IF job[j].ck.complete THEN @ ELSE source[j]])
    IN  /\ caller[x].step = "resetting"
        /\ job' = js /\ Save(js, j) /\ Goes(x, "saving")
        /\ UNCHANGED <<files, outside, active, mutating>>

(* resolveTransferConflicts(): the answer is taken, then the job resumes,  *)
(* unless its endpoints are not connected.                                 *)
Resolve(x, j) ==
    /\ Idles(x) /\ ~job[j].busy /\ job[j].ck.conflict /\ status(j) \in {"paused", "recoverable"}
    /\ \E plan \in {"overwrite", "skip"} :
         LET answered == [job[j] EXCEPT !.ck.plan = plan, !.ck.conflict = FALSE]
             js == With(j, Requeued(answered))
         IN  \/ job' = js /\ Save(js, j) /\ Call(x, Nil, j, "saving")
             \/ job' = With(j, answered) /\ UNCHANGED <<disk, caller>>
    /\ UNCHANGED <<files, outside, active, mutating>>

-----------------------------------------------------------------------------
(* Uploads. *)

ResumeUpload(x, j) ==
    /\ Idles(x) /\ ~job[j].busy /\ active < MaxActive /\ status(j) \notin Finished \cup {"none"}
    /\ \E step \in {"chained", "erasing"} : Call(x, IF step = "chained" THEN "open" ELSE Nil, j, step)
    /\ UNCHANGED <<job, disk, files, outside, active, mutating>>

(* Starting over with the same name: nothing is asked again after cleanup. *)
Erases(x) ==
    LET j == caller[x].job
    IN  /\ caller[x].step = "erasing"
        /\ Removed(j)
        /\ job' = With(j, [job[j] EXCEPT !.ck.prefix = <<>>, !.ck.complete = FALSE])
        /\ Goes(x, "chained")
        /\ UNCHANGED <<disk, dest, delivered, outside, active, mutating>>

OpenTakes(x) ==
    LET j == caller[x].job
    IN  /\ caller[x].step = "chained" /\ caller[x].op = "open" /\ ChainFree(j)
        /\ IF job[j].busy \/ active >= MaxActive
           THEN Return(x) /\ UNCHANGED active
           ELSE Goes(x, "opening") /\ active' = active + 1
        /\ UNCHANGED <<job, disk, files, outside, mutating>>

(* The channel is there: it takes the slot over and is being saved.        *)
OpenSucceeds(x) ==
    LET j == caller[x].job
        js == With(j, [job[j] EXCEPT !.step = "opened", !.busy = TRUE, !.aborted = FALSE,
                                     !.handle = job[j].ck.name, !.sent = Len(job[j].ck.prefix),
                                     !.ck.status = "transferring"])
    IN  /\ caller[x].step = "opening"
        /\ dest.id = job[j].ck.target /\ StageAsSaved(j)
        /\ Opened(j)
        /\ job' = js /\ Save(js, j) /\ Goes(x, "announcing")
        /\ UNCHANGED <<dest, delivered, discarded, outside, active, mutating>>

(* The save has returned, after that of an older run, which went to the    *)
(* database before it. The page learns of the channel, even if that run    *)
(* has taken it away meanwhile.                                            *)
OpenReturns(x) ==
    LET j == caller[x].job
    IN  /\ caller[x].step = "announcing" /\ job[j].owes # "run"
        /\ job' = IF job[j].step = "opened" THEN With(j, [job[j] EXCEPT !.step = "open"]) ELSE job
        /\ Return(x)
        /\ UNCHANGED <<disk, files, outside, active, mutating>>

(* The slot goes back, but nobody calls schedule(). *)
OpenFails(x) ==
    LET j == caller[x].job
        js == With(j, [job[j] EXCEPT !.ck.status = "failed"])
    IN  /\ caller[x].step = "opening"
        /\ active' = active - 1
        /\ job' = js /\ Save(js, j) /\ Return(x)
        /\ UNCHANGED <<files, outside, mutating>>

(* So it does when the save of the channel failed, whoever has given the   *)
(* slot back before.                                                       *)
OpenSaveFails(x) ==
    LET j == caller[x].job
        js == With(j, Released([job[j] EXCEPT !.ck.status = "failed"]))
    IN  /\ caller[x].step = "announcing" /\ job[j].owes # "run"
        /\ faults < MaxFaults /\ faults' = faults + 1
        /\ active' = active - 1
        /\ overdrawn' = IF job[j].busy THEN overdrawn ELSE overdrawn + 1
        /\ job' = js /\ Save(js, j) /\ Return(x)
        /\ UNCHANGED <<files, source, mutating>>

(* The page sends the chunk that follows the ones it knows to be received. *)
ChunkWrites(j) ==
    /\ job[j].step = "open" /\ ~job[j].aborted /\ ChainFree(j)
    /\ job[j].sent = Len(job[j].ck.prefix) /\ job[j].sent < Size
    /\ WriteAt(j)
    /\ job' = With(j, [job[j] EXCEPT !.step = "writing"])
    /\ UNCHANGED <<disk, dest, delivered, discarded, outside, active, mutating, caller>>

ChunkAcks(j) ==
    /\ job[j].step = "writing"
    /\ LET js == With(j, [job[j] EXCEPT !.ck.prefix = Append(@, source[j]), !.step = "open", !.sent = @ + 1])
       IN  job' = js /\ Save(js, j)
    /\ UNCHANGED <<files, outside, active, mutating, caller>>

(* uploadFailed(): the channel and the slot are given back, then "failed"  *)
(* is saved, then the queue goes on. After an abort nothing is saved.      *)
Failed(j, debt) == With(j, Released([job[j] EXCEPT !.owes = debt, !.ck.status = "failed"]))

ChunkFails(j) ==
    /\ job[j].step = "writing"
    /\ IF job[j].aborted
       THEN Schedule(With(j, Released(job[j])), active - 1) /\ UNCHANGED disk
       ELSE job' = Failed(j, "chunk") /\ active' = active - 1 /\ Save(job', j)
    /\ UNCHANGED <<files, outside, mutating, caller>>

ChunkGivesUp(j) ==
    /\ job[j].owes = "chunk"
    /\ Schedule(With(j, [job[j] EXCEPT !.owes = "none"]), active)
    /\ UNCHANGED <<disk, files, outside, mutating, caller>>

(* The finish of an upload fails in the same way. *)
FinishFails(j) ==
    /\ j \in Upload /\ job[j].step \in FinishStep \ {"ending"}
    /\ IF job[j].aborted
       THEN Schedule(With(j, Released(job[j])), active - 1) /\ WaitersGoOn(j) /\ UNCHANGED disk
       ELSE job' = Failed(j, "run") /\ active' = active - 1 /\ Save(job', j) /\ UNCHANGED caller
    /\ mutating' = IF mutating = j THEN Nil ELSE mutating
    /\ UNCHANGED <<files, outside>>

(* A slip: the finally gives the slot back without asking for a channel.   *)
FinishGivesUpTwice(j) ==
    /\ job[j].owes = "run"
    /\ Schedule(With(j, Released([job[j] EXCEPT !.owes = "none"])), active - 1)
    /\ WaitersGoOn(j)
    /\ UNCHANGED <<disk, files, outside, mutating>>

(* Its finally gives back whatever channel the job has by then: that of a  *)
(* resume which came while "failed" was being saved.                       *)
FinishGivesUp(j) ==
    /\ job[j].owes = "run"
    /\ Schedule(With(j, Released([job[j] EXCEPT !.owes = "none"])),
                IF job[j].busy THEN active - 1 ELSE active)
    /\ WaitersGoOn(j)
    /\ UNCHANGED <<disk, files, outside, mutating>>

Finish(j) ==
    /\ job[j].step = "open" /\ ~job[j].aborted /\ ChainFree(j)
    /\ Len(job[j].ck.prefix) = Size
    /\ job' = With(j, [job[j] EXCEPT !.step = "closing"])
    /\ UNCHANGED <<disk, files, outside, active, mutating, caller>>

-----------------------------------------------------------------------------
(* Others: users of the server, who change files at any time except        *)
(* between the last look and the rename, and the end of the process.       *)
Fault == faults < MaxFaults /\ faults' = faults + 1

SourceChanges(j) ==
    /\ Fault /\ source' = [source EXCEPT ![j] = @ + 1]
    /\ UNCHANGED <<job, disk, files, active, mutating, caller, overdrawn>>

DestChanges ==
    /\ Fault /\ mutating = Nil
    /\ dest' = [id |-> dest.id + 1, chunks |-> <<>>]
    /\ UNCHANGED <<job, disk, stage, delivered, discarded, source, active, mutating, caller, overdrawn>>

Crash ==
    /\ Fault
    /\ job' = [j \in Job |-> [Idle EXCEPT !.ck = disk[j]]]
    /\ active' = 0 /\ overdrawn' = 0 /\ mutating' = Nil /\ caller' = [x \in Caller |-> NoCall]
    /\ UNCHANGED <<disk, files, source>>

Answers(x) ==
    \/ Schedules(x) \/ StopTakes(x) \/ Cleans(x) \/ Throws(x) \/ RestartCleans(x) \/ RestartQueues(x)
    \/ Erases(x) \/ OpenTakes(x) \/ OpenSucceeds(x) \/ OpenReturns(x)
    \/ OpenFails(x) \/ OpenSaveFails(x)

Asks(x) ==
    \/ \E j \in Copy : CopyBegins(x, j) \/ Resume(x, j) \/ Restart(x, j) \/ Resolve(x, j)
    \/ \E j \in Upload : UploadBegins(x, j) \/ ResumeUpload(x, j)
    \/ \E j \in Job : Stop(x, j, "pause") \/ Stop(x, j, "cancel")

Works(j) ==
    \/ RunStep(j) \/ RunFails(j) \/ FinishFails(j) \/ FinishGivesUp(j)
    \/ ChunkAcks(j) \/ ChunkFails(j) \/ ChunkGivesUp(j)

Next ==
    \/ \E x \in Caller : Asks(x) \/ Answers(x)
    \/ \E j \in Job : Works(j) \/ ChunkWrites(j) \/ Finish(j)
    \/ \E j \in Copy : SourceChanges(j)
    \/ DestChanges \/ Crash

Spec == Init /\ [][Next]_vars

-----------------------------------------------------------------------------
TypeOK ==
    /\ job \in [Job -> [ck : Checkpoint, step : {"none"} \cup CopyStep \cup FinishStep \cup UploadStep,
                        busy : BOOLEAN, owes : Debt, aborted : BOOLEAN, handle : Name,
                        chunk : {0} \cup Version, sent : 0..Size]]
    /\ disk \in [Job -> Checkpoint]
    /\ \A j \in Job : stage[j] \in [Name -> {Nil} \cup Chunks]
    /\ dest \in [id : Identity, chunks : Chunks] /\ source \in [Job -> Version]
    /\ active \in -MaxFaults..MaxActive /\ overdrawn \in 0..MaxFaults /\ mutating \in Job \cup {Nil}
    /\ caller \in [Caller -> [step : {"idle", "waiting", "chained", "opening", "announcing", "cleaning", "sweeping",
                                      "saving", "restarting", "resetting", "erasing"},
                              op : {Nil, "open", "pause", "cancel"},
                              job : {Nil} \cup Job]]
    /\ delivered \subseteq Job /\ discarded \subseteq Job /\ faults \in 0..MaxFaults

(* The slot counter is what it counts: the jobs that run or stay open and  *)
(* the uploads that are being opened, five at most, whatever ends them and *)
(* however often; but for one case, in which the code gives a slot back    *)
(* twice: the finally of a failed upload takes the channel that a resume   *)
(* has just opened, and then the save of that channel fails. Each such     *)
(* opening leaves the counter one too low.                                 *)
SlotsAccounted ==
    /\ active + overdrawn = Cardinality({j \in Job : job[j].busy})
                             + Cardinality({x \in Caller : caller[x].step = "opening"})
    /\ active <= MaxActive

(* A transfer that is shown, or saved, as completed has become the         *)
(* destination, or was skipped at the user's wish: no crash, cancel or     *)
(* restart in between makes it look done.                                  *)
CompletedIsDelivered ==
    \A j \in Job : \A ck \in {job[j].ck, disk[j]} :
        ck.status = "completed" => j \in delivered \/ ck.version = 0

(* A checkpoint never promises more than the staging file holds, so that a *)
(* crash loses no acknowledged chunk, as long as no cleanup went for the   *)
(* file: that of a restart runs before the checkpoint is set back.         *)
AckedIsKept ==
    \A j \in Job \ (delivered \cup discarded) :
        LET saved == disk[j].prefix IN
        saved # <<>> => /\ stage[j][1] # Nil /\ Len(stage[j][1]) >= Len(saved)
                        /\ SubSeq(stage[j][1], 1, Len(saved)) = saved

(* The destination is replaced only as it was planned: it is still the     *)
(* file the user saw, what replaces it has the whole length and, unless a  *)
(* restart went for the staging file, is one version of the source; and no *)
(* transfer replaces it twice. Two transfers to one place included.        *)
Whole(chunks) == Len(chunks) = Size
Spliced(chunks) == \E i, k \in DOMAIN chunks : chunks[i] # chunks[k]
DestinationKept ==
    [][\A j \in Job : mutating = j /\ dest' # dest =>
           /\ j \notin delivered /\ dest.id = job[j].ck.target /\ Whole(dest'.chunks)
           /\ j \notin discarded => ~Spliced(dest'.chunks)]_vars

(* A source that changes is refused: what was read before the change and   *)
(* what was read after it never make one file.                             *)
NeverSpliced == ~Spliced(dest.chunks)

=============================================================================
