------------------------- MODULE SftpTransferProofs -------------------------
(***************************************************************************)
(* File transfers, for any number of jobs, slots, requests and chunks: the *)
(* slots are accounted for, a completed transfer was delivered, a          *)
(* checkpoint is backed by its staging file and the destination is         *)
(* replaced only as planned.  The inductive invariant is TransfersSound:   *)
(* what holds of each job by itself (Sound), what the requests under way   *)
(* rely on (CallersSound), and what the slots add up to (SlotsSound), with *)
(* those a failed upload gave back twice.                                  *)
(***************************************************************************)
EXTENDS SftpTransfer, FiniteSetTheorems, TLAPS

-----------------------------------------------------------------------------
(* The inductive invariant                                                 *)

CheckpointType ==
    [status : Status, plan : {"ask", "overwrite", "skip", "made"}, conflict : BOOLEAN,
     target : Nat, version : {0} \cup Version, prefix : Chunks, complete : BOOLEAN, name : Name]
RunType ==
    [ck : CheckpointType, step : {"none"} \cup CopyStep \cup FinishStep \cup UploadStep,
     busy : BOOLEAN, owes : Debt, aborted : BOOLEAN, handle : Name, chunk : {0} \cup Version,
     sent : 0..Size]

(* r: the job in memory, d: on disk, s: its staging files, v: its source.  *)
Typed(r, d, s, v) ==
    /\ r \in RunType /\ d \in CheckpointType
    /\ s \in [Name -> {Nil} \cup Chunks] /\ v \in Version
    /\ r.step \in {"written", "writing"} => Len(r.ck.prefix) < Size
    /\ r.step = "written" => r.chunk \in Version
    /\ r.step = "writing" => r.sent < Size

(* Where a job can be: copies and uploads take different steps, and a      *)
(* failed finish that has not come to its end meets at most a new channel. *)
Placed(j, r, mut) ==
    /\ r.busy <=> r.step # "none"
    /\ r.step \in UploadStep \cup {"closing"} => j \in Upload
    /\ r.step \in CopyStep => j \in Copy
    /\ r.ck.status = "completed" => r.step \in {"none", "ending"}
    /\ mut = j <=> r.step \in {"renaming", "renamed"}
    /\ r.owes = "run" => j \in Upload /\ r.step \in {"none", "opened"}

(* The plan on disk is the plan in memory, but for an answered conflict. *)
Planned(j, r, d) ==
    /\ r.ck.status = "none" <=> d.status = "none"
    /\ r.ck.status = "none" => r.ck.plan # "made" /\ r.step = "none"
    /\ r.ck.plan = "made" <=> d.plan = "made"
    /\ r.ck.target = d.target /\ r.ck.version = d.version
    /\ r.step \notin {"none", "preparing", "ending"} => r.ck.plan = "made"
    /\ r.step = "preparing" => r.ck.plan # "made"
    /\ r.ck.conflict => r.ck.plan # "made"
    /\ d.conflict => d.plan # "made"
    /\ r.ck.conflict => r.ck.status # "queued" /\ r.step # "preparing"
    /\ d.status # "queued"
    /\ j \in Upload /\ r.ck.status # "none" => r.ck.plan = "made" /\ r.ck.version = 1

(* What is called done was delivered, or there was nothing to copy. *)
Truthful(j, r, d, del) ==
    /\ r.ck.status = "completed" \/ r.ck.complete => j \in del \/ r.ck.version = 0
    /\ d.status = "completed" \/ d.complete => j \in del \/ d.version = 0
    /\ r.step = "renamed" => j \in del
    /\ r.step = "completing" => r.ck.complete

(* A delivered job has left the destination it was planned for behind. *)
Aimed(j, r, del, id) ==
    /\ r.ck.target <= id
    /\ j \in del => r.ck.plan = "made" /\ r.ck.target < id
    /\ r.step = "renaming" => id = r.ck.target

(* A staging file that is going to be renamed is whole, or gone. *)
Full(r, s) ==
    r.step \in {"committing", "renaming"} => s[r.ck.name] = Nil \/ Len(s[r.ck.name]) = Size

Covers(content, prefix) ==
    /\ Len(prefix) <= Len(content)
    /\ \A i \in 1..Len(prefix) : content[i] = prefix[i]
Between(content, lo, hi) == \A i \in 1..Len(content) : lo <= content[i] /\ content[i] <= hi

(* The staging file of a job that no cleanup went for backs what the       *)
(* checkpoint says, and was read from sources since the planned version.   *)
Kept(r, d, s, v) ==
    /\ r.ck.name = 1 /\ d.name = 1 /\ r.handle = 1 /\ r.ck.prefix = d.prefix
    /\ r.ck.version <= v
    /\ s[1] = Nil => r.ck.prefix = <<>> /\ r.step \notin {"copying", "written"} \cup UploadStep
    /\ s[1] # Nil => /\ r.ck.plan = "made"
                     /\ Covers(s[1], r.ck.prefix)
                     /\ Between(s[1], r.ck.version, v)
                     /\ r.step \in {"committing", "renaming"} => Between(s[1], r.ck.version, r.ck.version)
                     /\ r.step \in {"written", "writing"} =>
                            /\ Len(r.ck.prefix) < Len(s[1])
                            /\ s[1][Len(r.ck.prefix) + 1] = IF r.step = "written" THEN r.chunk ELSE v

Sound(j, r, d, s, v, del, dis, mut, id) ==
    /\ Typed(r, d, s, v)
    /\ j \in Upload => v = 1
    /\ Placed(j, r, mut)
    /\ Planned(j, r, d)
    /\ Truthful(j, r, d, del)
    /\ Aimed(j, r, del, id)
    /\ Full(r, s)
    /\ j \notin del \cup dis => Kept(r, d, s, v)

JobsSound ==
    \A j \in Job : Sound(j, job[j], disk[j], stage[j], source[j], delivered, discarded, mutating, dest.id)

CallType == [step : {"idle", "waiting", "chained", "opening", "announcing", "cleaning", "sweeping",
                     "saving", "restarting", "resetting", "erasing"},
             op : {Nil, "open", "pause", "cancel"}, job : {Nil} \cup Job]

(* A request is about a job that was begun; one that opens an upload has   *)
(* it for itself; a restart resets a job only after its cleanup. The       *)
(* channel whose save an opening awaits is there, or was taken away.       *)
Opens == {"opening", "announcing"}
Settled == {"none", "opened"}

CallerSound(c) ==
    /\ c \in CallType
    /\ c.step # "idle" => c.job \in Job
    /\ c.op = "open" \/ c.step \in {"erasing"} \cup Opens => c.job \in Upload
    /\ c.step \in {"restarting", "resetting"} => c.job \in Copy

Backed(c) ==
    /\ c.step # "idle" => status(c.job) # "none"
    /\ c.step \in {"restarting", "resetting"} => job[c.job].ck.plan = "made"
    /\ c.step = "resetting" => c.job \in discarded
    /\ c.step = "opening" => ~job[c.job].busy
    /\ c.step = "announcing" => job[c.job].step \in Settled

CallersSound ==
    /\ \A x \in Caller : CallerSound(caller[x]) /\ Backed(caller[x])
    /\ \A x, y \in Caller :
          caller[x].step \in Opens /\ caller[y].step \in Opens /\ caller[x].job = caller[y].job => x = y

Shapes ==
    /\ job = [j \in Job |-> job[j]] /\ disk = [j \in Job |-> disk[j]]
    /\ stage = [j \in Job |-> stage[j]] /\ source = [j \in Job |-> source[j]]
    /\ caller = [x \in Caller |-> caller[x]]
    /\ dest \in [id : Nat, chunks : Chunks]
    /\ delivered \subseteq Job /\ discarded \subseteq Job
    /\ mutating \in Job \cup {Nil}

(* The destination is replaced once by a job and once by a fault, at most. *)
Bounds ==
    /\ faults \in 0..MaxFaults
    /\ \A j \in Job : source[j] <= 1 + faults
    /\ dest.id <= faults + Cardinality(delivered)
    /\ overdrawn <= faults

(* The counter may be below zero, for the slots given back twice. *)
SlotsSound == active \in Int /\ overdrawn \in Nat /\ SlotsAccounted

TransfersSound == Shapes /\ Bounds /\ JobsSound /\ CallersSound /\ SlotsSound

-----------------------------------------------------------------------------
(* Contents of files                                                       *)

(* A content is a sequence of versions, no longer than a file. *)
LEMMA ChunksAre ==
    \A c : c \in Chunks <=> c \in Seq(Version) /\ Len(c) <= Size
<1>1. Size \in Nat
  BY TransferAssumption
<1>2. ASSUME NEW c \in Chunks PROVE c \in Seq(Version) /\ Len(c) <= Size
  <2>1. PICK n \in 0..Size : c \in [1..n -> Version]
    BY DEF Chunks
  <2>2. n \in Nat /\ n <= Size
    BY <1>1, <2>1
  <2>3. c \in Seq(Version) /\ Len(c) = n
    BY <2>1, <2>2
  <2> QED BY <2>2, <2>3
<1>3. ASSUME NEW c \in Seq(Version), Len(c) <= Size PROVE c \in Chunks
  <2>1. Len(c) \in 0..Size /\ c \in [1..Len(c) -> Version]
    BY <1>1, <1>3
  <2> QED BY <2>1 DEF Chunks
<1> QED BY <1>2, <1>3

(* A chunk written behind the prefix of a checkpoint. *)
Written(old, prefix, v) ==
    IF Len(prefix) + 1 <= Len(old) THEN [old EXCEPT ![Len(prefix) + 1] = v] ELSE Append(old, v)

LEMMA WrittenContent ==
    ASSUME NEW old \in Chunks, NEW prefix \in Chunks, NEW v \in Version, Len(prefix) < Size
    PROVE  /\ Written(old, prefix, v) \in Chunks
           /\ Covers(old, prefix) =>
                /\ Covers(Written(old, prefix, v), prefix)
                /\ Len(prefix) < Len(Written(old, prefix, v))
                /\ Written(old, prefix, v)[Len(prefix) + 1] = v
                /\ \A lo \in Nat : lo <= v /\ Between(old, lo, v) => Between(Written(old, prefix, v), lo, v)
<1>1. /\ old \in Seq(Version) /\ Len(old) <= Size /\ Len(old) \in Nat
      /\ prefix \in Seq(Version) /\ Len(prefix) \in Nat /\ Size \in Nat /\ Version \subseteq Nat
  BY ChunksAre, TransferAssumption DEF Version
<1> DEFINE n == Len(prefix) + 1
           new == Written(old, prefix, v)
<1>2. CASE n <= Len(old)
  <2>1. new = [old EXCEPT ![n] = v] /\ new \in Seq(Version) /\ Len(new) = Len(old)
    BY <1>1, <1>2 DEF Written
  <2>2. new[n] = v /\ \A i \in 1..Len(old) : i # n => new[i] = old[i]
    BY <1>1, <1>2, <2>1
  <2>3. new \in Chunks
    BY <1>1, <2>1, ChunksAre
  <2> HIDE DEF new
  <2>4. ASSUME NEW lo \in Nat, lo <= v, Between(old, lo, v) PROVE Between(new, lo, v)
    BY <1>1, <2>1, <2>2, <2>4 DEF Between
  <2>5. Covers(old, prefix) => Covers(new, prefix) /\ Len(prefix) < Len(new) /\ new[n] = v
    BY <1>1, <1>2, <2>1, <2>2 DEF Covers
  <2> QED BY <2>3, <2>4, <2>5 DEF new
<1>3. CASE ~(n <= Len(old))
  <2>1. /\ new = Append(old, v) /\ new \in Seq(Version) /\ Len(new) = Len(old) + 1
        /\ new[Len(old) + 1] = v /\ \A i \in 1..Len(old) : new[i] = old[i]
    BY <1>1, <1>3 DEF Written
  <2>2. Len(new) <= Size
    BY <1>1, <1>3, <2>1
  <2> HIDE DEF new
  <2>5. new \in Chunks
    BY <2>1, <2>2, ChunksAre
  <2>3. ASSUME NEW lo \in Nat, lo <= v, Between(old, lo, v) PROVE Between(new, lo, v)
    <3>1. ASSUME NEW i \in 1..Len(new) PROVE lo <= new[i] /\ new[i] <= v
      <4>1. CASE i = Len(old) + 1
        BY <1>1, <2>1, <2>3, <4>1
      <4>2. CASE i \in 1..Len(old)
        BY <1>1, <2>1, <2>3, <4>2 DEF Between
      <4> QED BY <1>1, <2>1, <4>1, <4>2
    <3> QED BY <3>1 DEF Between
  <2>4. Covers(old, prefix) => Covers(new, prefix) /\ Len(prefix) < Len(new) /\ new[n] = v
    BY <1>1, <1>3, <2>1 DEF Covers
  <2> QED BY <2>3, <2>4, <2>5 DEF new
<1> QED BY <1>1, <1>2, <1>3

(* The chunk that was written is acknowledged. *)
LEMMA AckedContent ==
    ASSUME NEW content \in Chunks, NEW prefix \in Chunks, NEW c \in Version, Len(prefix) < Size
    PROVE  /\ Append(prefix, c) \in Chunks
           /\ Covers(content, prefix) /\ Len(prefix) < Len(content) /\ content[Len(prefix) + 1] = c
                => Covers(content, Append(prefix, c))
<1>1. /\ content \in Seq(Version) /\ Len(content) \in Nat
      /\ prefix \in Seq(Version) /\ Len(prefix) \in Nat /\ Size \in Nat
  BY ChunksAre, TransferAssumption
<1> DEFINE new == Append(prefix, c)
<1>2. /\ new \in Seq(Version) /\ Len(new) = Len(prefix) + 1 /\ new[Len(prefix) + 1] = c
      /\ \A i \in 1..Len(prefix) : new[i] = prefix[i]
  BY <1>1
<1> HIDE DEF new
<1>3. new \in Chunks
  <2>1. Len(new) <= Size
    BY <1>1, <1>2
  <2> QED BY <1>2, <2>1, ChunksAre
<1>4. ASSUME Covers(content, prefix), Len(prefix) < Len(content), content[Len(prefix) + 1] = c
      PROVE  Covers(content, new)
  <2>1. ASSUME NEW i \in 1..Len(new) PROVE content[i] = new[i]
    <3>1. CASE i = Len(prefix) + 1
      BY <1>2, <1>4, <3>1
    <3>2. CASE i \in 1..Len(prefix)
      BY <1>2, <1>4, <3>2 DEF Covers
    <3> QED BY <1>1, <1>2, <3>1, <3>2
  <2> QED BY <1>1, <1>2, <1>4, <2>1 DEF Covers
<1> QED BY <1>3, <1>4 DEF new

(* A content keeps within wider bounds. *)
LEMMA BetweenWidens ==
    ASSUME NEW content \in Chunks, NEW lo \in Nat, NEW hi \in Nat, Between(content, lo, hi)
    PROVE  Between(content, lo, hi + 1)
<1>1. content \in Seq(Version) /\ Version \subseteq Nat
  BY ChunksAre, TransferAssumption DEF Version
<1>2. ASSUME NEW i \in 1..Len(content) PROVE lo <= content[i] /\ content[i] <= hi + 1
  <2>1. content[i] \in Version
    BY <1>1
  <2>2. content[i] \in Nat /\ lo <= content[i] /\ content[i] <= hi
    BY <1>1, <2>1 DEF Between
  <2> QED BY <2>2
<1> QED BY <1>2 DEF Between

(* The empty content. *)
LEMMA EmptyContent ==
    /\ <<>> \in Chunks /\ Len(<<>>) = 0
    /\ \A content \in Chunks : Covers(content, <<>>) /\ Covers(content, content)
    /\ \A lo, hi : Between(<<>>, lo, hi)
<1> DEFINE empty == <<>>
<1>1. empty \in Seq(Version) /\ Len(empty) = 0
  OBVIOUS
<1>2. empty \in Chunks
  <2> HIDE DEF empty
  <2>1. Len(empty) <= Size
    BY <1>1, TransferAssumption
  <2> QED BY <1>1, <2>1, ChunksAre
<1>3. \A content \in Chunks : Len(content) \in Nat
  BY ChunksAre
<1>4. ASSUME NEW content \in Chunks PROVE Covers(content, <<>>) /\ Covers(content, content)
  <2>1. Covers(content, content)
    BY <1>3 DEF Covers
  <2>2. \A i \in 1..Len(<<>>) : FALSE
    BY <1>1
  <2> QED BY <1>1, <1>3, <2>1, <2>2 DEF Covers
<1>5. \A lo, hi : Between(<<>>, lo, hi)
  BY <1>1 DEF Between
<1> QED BY <1>1, <1>2, <1>4, <1>5

-----------------------------------------------------------------------------
(* What moves one job, and the schedule                                    *)

(* What a step on job j leaves the other jobs. *)
Elsewhere(j) ==
    \A k \in Job \ {j} :
        /\ disk'[k] = disk[k] /\ stage'[k] = stage[k] /\ source'[k] = source[k]
        /\ k \in delivered' <=> k \in delivered
        /\ k \in discarded' <=> k \in discarded
        /\ mutating' = k <=> mutating = k
        /\ dest.id <= dest'.id
        /\ mutating = k => dest'.id = dest.id

(* The lock holder sees no other destination; the others may. *)
LEMMA ElsewhereSound ==
    ASSUME NEW j \in Job, NEW k \in Job \ {j}, Elsewhere(j), dest.id \in Nat, dest'.id \in Nat,
           NEW r, Sound(k, r, disk[k], stage[k], source[k], delivered, discarded, mutating, dest.id)
    PROVE  Sound(k, r, disk'[k], stage'[k], source'[k], delivered', discarded', mutating', dest'.id)
<1>1. /\ disk'[k] = disk[k] /\ stage'[k] = stage[k] /\ source'[k] = source[k]
      /\ k \in delivered' <=> k \in delivered
      /\ k \in discarded' <=> k \in discarded
      /\ mutating' = k <=> mutating = k
      /\ dest.id <= dest'.id
      /\ mutating = k => dest'.id = dest.id
  BY DEF Elsewhere
<1>2. Placed(k, r, mutating')
  BY <1>1 DEF Sound, Placed
<1>3. Truthful(k, r, disk[k], delivered')
  BY <1>1 DEF Sound, Truthful
<1>4. Aimed(k, r, delivered', dest'.id)
  <2>1. r.ck.target \in Nat
    BY DEF Sound, Typed, RunType, CheckpointType
  <2> QED BY <1>1, <2>1 DEF Sound, Aimed, Placed
<1> QED BY <1>1, <1>2, <1>3, <1>4 DEF Sound

(* A queued copy is given a slot. *)
LEMMA StartedSound ==
    ASSUME NEW k \in Copy, NEW r, NEW d, NEW s, NEW v, NEW del, NEW dis, NEW mut, NEW id,
           Sound(k, r, d, s, v, del, dis, mut, id), ~r.busy, r.ck.status = "queued"
    PROVE  Sound(k, Started(r), d, s, v, del, dis, mut, id) /\ Started(r).busy
<1> DEFINE n == Started(r)
           step == IF r.ck.plan = "made" THEN "checking" ELSE "preparing"
           ck == [r.ck EXCEPT !.status = "transferring"]
<1>1. r \in RunType /\ r.ck \in CheckpointType /\ r.step = "none"
  BY DEF Sound, Typed, RunType, Placed
<1>2. n = [r EXCEPT !.busy = TRUE, !.ck = ck, !.step = step]
  BY <1>1 DEF Started, RunType
<1>3. /\ n \in RunType /\ n.busy = TRUE /\ n.step = step /\ n.handle = r.handle /\ n.owes = r.owes
      /\ n.ck.status = "transferring" /\ n.ck.plan = r.ck.plan /\ n.ck.conflict = r.ck.conflict
      /\ n.ck.target = r.ck.target /\ n.ck.version = r.ck.version /\ n.ck.prefix = r.ck.prefix
      /\ n.ck.complete = r.ck.complete /\ n.ck.name = r.ck.name
  <2>1. /\ ck \in CheckpointType /\ ck.status = "transferring" /\ ck.plan = r.ck.plan
        /\ ck.conflict = r.ck.conflict /\ ck.target = r.ck.target /\ ck.version = r.ck.version
        /\ ck.prefix = r.ck.prefix /\ ck.complete = r.ck.complete /\ ck.name = r.ck.name
    BY <1>1 DEF CheckpointType, Status, Active
  <2>2. step \in CopyStep
    BY DEF CopyStep
  <2> HIDE DEF ck, step, n
  <2> QED BY <1>1, <1>2, <2>1, <2>2 DEF RunType
<1> HIDE DEF n
<1>4. Typed(n, d, s, v)
  BY <1>3 DEF Sound, Typed
<1>5. Placed(k, n, mut)
  BY <1>1, <1>3, TransferAssumption DEF Sound, Placed, CopyStep, UploadStep
<1>6. Planned(k, n, d)
  BY <1>1, <1>3, TransferAssumption DEF Sound, Planned
<1>7. Truthful(k, n, d, del) /\ Aimed(k, n, del, id) /\ Full(n, s)
  BY <1>1, <1>3 DEF Sound, Truthful, Aimed, Full
<1>8. ASSUME k \notin del \cup dis PROVE Kept(n, d, s, v)
  BY <1>1, <1>3, <1>8 DEF Sound, Kept, UploadStep
<1> QED BY <1>3, <1>4, <1>5, <1>6, <1>7, <1>8 DEF Sound, n

(* The schedule starts queued copies, and keeps all jobs as they were. *)
LEMMA ScheduleStarts ==
    ASSUME NEW js, NEW act, Schedule(js, act)
    PROVE  /\ job' = [j \in Job |-> job'[j]]
           /\ \A k \in Job : \/ job'[k] = js[k]
                             \/ /\ k \in Copy /\ ~js[k].busy /\ js[k].ck.status = "queued"
                                /\ job'[k] = Started(js[k])
BY DEF Schedule, Startable, Job

LEMMA JobMoves ==
    ASSUME Shapes, JobsSound, NEW j \in Job, NEW n, Elsewhere(j), dest'.id \in Nat,
           job' = With(j, n) \/ \E act : Schedule(With(j, n), act),
           Sound(j, n, disk'[j], stage'[j], source'[j], delivered', discarded', mutating', dest'.id)
    PROVE  JobsSound' /\ job' = [k \in Job |-> job'[k]]
<1>1. /\ With(j, n)[j] = n /\ \A k \in Job \ {j} : With(j, n)[k] = job[k]
      /\ With(j, n) = [k \in Job |-> With(j, n)[k]]
  BY DEF Shapes, With
<1>2. /\ job' = [k \in Job |-> job'[k]]
      /\ \A k \in Job : \/ job'[k] = With(j, n)[k]
                        \/ /\ k \in Copy /\ ~With(j, n)[k].busy /\ With(j, n)[k].ck.status = "queued"
                           /\ job'[k] = Started(With(j, n)[k])
  BY <1>1, ScheduleStarts
<1>3. ASSUME NEW k \in Job
      PROVE  Sound(k, With(j, n)[k], disk'[k], stage'[k], source'[k], delivered', discarded', mutating', dest'.id)
  <2>1. CASE k = j
    BY <1>1, <2>1
  <2>2. CASE k # j
    <3>1. Sound(k, job[k], disk[k], stage[k], source[k], delivered, discarded, mutating, dest.id)
      BY DEF JobsSound
    <3> QED BY <1>1, <2>2, <3>1, ElsewhereSound DEF Shapes
  <2> QED BY <2>1, <2>2
<1>4. ASSUME NEW k \in Job
      PROVE  Sound(k, job'[k], disk'[k], stage'[k], source'[k], delivered', discarded', mutating', dest'.id)
  BY <1>2, <1>3, StartedSound
<1> QED BY <1>2, <1>4 DEF JobsSound

(* A checkpoint saved is the checkpoint in memory, with the status that a  *)
(* restart gives it.                                                       *)
LEMMA RestoredAs ==
    ASSUME NEW ck \in CheckpointType
    PROVE  /\ Restored(ck) \in CheckpointType
           /\ Restored(ck).status = "none" <=> ck.status = "none"
           /\ Restored(ck).status = "completed" <=> ck.status = "completed"
           /\ Restored(ck).status # "queued"
           /\ Restored(ck).plan = ck.plan /\ Restored(ck).conflict = ck.conflict
           /\ Restored(ck).target = ck.target /\ Restored(ck).version = ck.version
           /\ Restored(ck).prefix = ck.prefix /\ Restored(ck).complete = ck.complete
           /\ Restored(ck).name = ck.name
<1>1. CASE ck.status \in Active \cup {"paused"}
  <2> DEFINE new == [ck EXCEPT !.status = "recoverable"]
  <2>1. /\ new \in CheckpointType /\ new.status = "recoverable"
        /\ new.plan = ck.plan /\ new.conflict = ck.conflict /\ new.target = ck.target
        /\ new.version = ck.version /\ new.prefix = ck.prefix /\ new.complete = ck.complete
        /\ new.name = ck.name
    BY DEF CheckpointType, Status
  <2>2. Restored(ck) = new
    BY <1>1 DEF Restored
  <2>3. ck.status \notin {"none", "completed"}
    BY <1>1 DEF Active
  <2> HIDE DEF new
  <2> QED BY <2>1, <2>2, <2>3
<1>2. CASE ck.status \notin Active \cup {"paused"}
  BY <1>2 DEF Restored, Active
<1> QED BY <1>1, <1>2

LEMMA SaveWrites ==
    ASSUME Shapes, NEW j \in Job, NEW n, Save(With(j, n), j)
    PROVE  /\ disk' = [k \in Job |-> disk'[k]] /\ disk'[j] = Restored(n.ck)
           /\ \A k \in Job \ {j} : disk'[k] = disk[k]
<1>1. With(j, n)[j] = n
  BY DEF Shapes, With
<1>2. disk' = [disk EXCEPT ![j] = Restored(n.ck)]
  BY <1>1 DEF Save
<1> QED BY <1>2 DEF Shapes

(* Two checkpoints that differ in their status only. *)
AsPlanned(new, old) ==
    /\ new.plan = old.plan /\ new.conflict = old.conflict /\ new.target = old.target
    /\ new.version = old.version /\ new.prefix = old.prefix /\ new.complete = old.complete
    /\ new.name = old.name

(* A step that changes no more than the status of a job, and leaves it     *)
(* where it is or ends what it does, saved or not.                         *)
Quiet(j, n, r) ==
    /\ n \in RunType /\ AsPlanned(n.ck, r.ck)
    /\ n.ck.status = "none" <=> r.ck.status = "none"
    /\ n.ck.status = "completed" => \/ r.ck.status = "completed"
                                    \/ r.ck.complete /\ n.step \in {"none", "ending"}
    /\ n.ck.status = "queued" => ~n.ck.conflict
    /\ n.handle \in {1, r.handle}
    /\ n.busy <=> n.step # "none"
    /\ n.owes \in {"none", r.owes} \/ j \in Upload
    /\ n.owes = "run" => n.step = "none" \/ (n.step = r.step /\ r.owes = "run")
    /\ \/ n.step = r.step /\ n.chunk = r.chunk /\ n.sent = r.sent
       \/ n.step = "none"
       \/ n.step = "ending" /\ r.step # "none"

LEMMA QuietSound ==
    ASSUME NEW j, NEW r, NEW d, NEW s, NEW v, NEW del, NEW dis, NEW mut, NEW id,
           Sound(j, r, d, s, v, del, dis, mut, id),
           NEW n, Quiet(j, n, r), NEW e, e = d \/ e = Restored(n.ck),
           NEW lock, lock = j <=> n.step \in {"renaming", "renamed"}
    PROVE  Sound(j, n, e, s, v, del, dis, lock, id)
<1>1. r \in RunType /\ d \in CheckpointType /\ n \in RunType /\ r.ck \in CheckpointType /\ n.ck \in CheckpointType
  BY DEF Sound, Typed, Quiet, RunType
<1>2. /\ e \in CheckpointType
      /\ e.status = "none" <=> d.status = "none"
      /\ e.plan = "made" <=> d.plan = "made"
      /\ e.target = d.target /\ e.version = d.version
      /\ e.conflict => e.plan # "made"
      /\ e.status # "queued"
      /\ \/ e.status = d.status /\ e.complete = d.complete /\ e.name = d.name /\ e.prefix = d.prefix
         \/ /\ e.status = "completed" <=> n.ck.status = "completed"
            /\ e.complete = r.ck.complete /\ e.name = r.ck.name /\ e.prefix = r.ck.prefix
  BY <1>1, RestoredAs DEF Sound, Planned, Quiet, AsPlanned
<1>3. Typed(n, e, s, v)
  BY <1>1, <1>2 DEF Sound, Typed, Quiet, AsPlanned
<1>4. Placed(j, n, lock)
  BY <1>1 DEF Sound, Placed, Quiet, UploadStep, CopyStep
<1>5. Planned(j, n, e)
  BY <1>1, <1>2 DEF Sound, Planned, Quiet, AsPlanned
<1>6. Truthful(j, n, e, del)
  BY <1>1, <1>2 DEF Sound, Truthful, Planned, Quiet, AsPlanned
<1>7. Aimed(j, n, del, id)
  BY DEF Sound, Aimed, Quiet, AsPlanned
<1>8. Full(n, s)
  BY DEF Sound, Full, Quiet, AsPlanned
<1>9. ASSUME j \notin del \cup dis PROVE Kept(n, e, s, v)
  <2>1. Kept(r, d, s, v)
    BY <1>9 DEF Sound
  <2>2. n.ck.name = 1 /\ e.name = 1 /\ n.handle = 1 /\ n.ck.prefix = e.prefix /\ n.ck.version <= v
    BY <1>2, <2>1 DEF Kept, Quiet, AsPlanned
  <2> QED BY <2>1, <2>2 DEF Kept, Quiet, AsPlanned, UploadStep
<1> QED BY <1>3, <1>4, <1>5, <1>6, <1>7, <1>8, <1>9 DEF Sound

LEMMA QuietMoves ==
    ASSUME Shapes, JobsSound, NEW j \in Job, NEW n, Quiet(j, n, job[j]),
           job' = With(j, n) \/ \E act : Schedule(With(j, n), act),
           UNCHANGED disk \/ Save(With(j, n), j),
           UNCHANGED <<files, source>>, caller' = [x \in Caller |-> caller'[x]],
           \/ UNCHANGED mutating /\ (n.step \in {"renaming", "renamed"} <=> job[j].step \in {"renaming", "renamed"})
           \/ mutating' = (IF mutating = j THEN Nil ELSE mutating) /\ n.step \notin {"renaming", "renamed"}
    PROVE  JobsSound' /\ Shapes'
<1>1. /\ disk' = [k \in Job |-> disk'[k]] /\ \A k \in Job \ {j} : disk'[k] = disk[k]
      /\ disk'[j] = disk[j] \/ disk'[j] = Restored(n.ck)
  BY SaveWrites DEF Shapes
<1>2. /\ UNCHANGED <<stage, dest, delivered, discarded, source>>
      /\ mutating' \in Job \cup {Nil} /\ caller' = [x \in Caller |-> caller'[x]]
  BY DEF files, Shapes
<1>3. Nil # j
  BY TransferAssumption DEF Job
<1>4. Sound(j, job[j], disk[j], stage[j], source[j], delivered, discarded, mutating, dest.id)
  BY DEF JobsSound
<1>5. mutating' = j <=> n.step \in {"renaming", "renamed"}
  BY <1>3, <1>4 DEF Sound, Placed
<1>6. Sound(j, n, disk'[j], stage'[j], source'[j], delivered', discarded', mutating', dest'.id)
  BY <1>1, <1>2, <1>4, <1>5, QuietSound
<1>7. Elsewhere(j)
  <2>1. \A k \in Job \ {j} : mutating' = k <=> mutating = k
    BY TransferAssumption DEF Job
  <2>2. dest.id \in Nat
    BY DEF Shapes
  <2> QED BY <1>1, <1>2, <2>1, <2>2 DEF Elsewhere
<1>8. JobsSound' /\ job' = [k \in Job |-> job'[k]]
  BY <1>2, <1>6, <1>7, JobMoves DEF Shapes
<1> QED BY <1>1, <1>2, <1>8 DEF Shapes

(* Nothing at all is quiet. *)
LEMMA Unmoved ==
    ASSUME Shapes, JobsSound, NEW j \in Job
    PROVE  /\ Quiet(j, job[j], job[j]) /\ With(j, job[j]) = job
           /\ job[j] \in RunType /\ job[j].ck \in CheckpointType
           /\ Sound(j, job[j], disk[j], stage[j], source[j], delivered, discarded, mutating, dest.id)
<1>1. Sound(j, job[j], disk[j], stage[j], source[j], delivered, discarded, mutating, dest.id)
  BY DEF JobsSound
<1>2. Quiet(j, job[j], job[j])
  BY <1>1 DEF Sound, Typed, Placed, Planned, Quiet, AsPlanned
<1>3. With(j, job[j]) = job
  BY DEF Shapes, With
<1> QED BY <1>1, <1>2, <1>3 DEF Sound, Typed, RunType

(* A job put in another status, that stays where it is, is let go or comes *)
(* to the end of its run.                                                  *)
LEMMA ParkedQuiet ==
    ASSUME NEW j, NEW r \in RunType, r.busy <=> r.step # "none",
           NEW st \in Status, st = "none" <=> r.ck.status = "none",
           st = "completed" => r.ck.status = "completed",
           st = "queued" => ~r.ck.conflict,
           r.owes = "run" => r.step \in {"none", "opened"}
    PROVE  /\ Quiet(j, [r EXCEPT !.ck.status = st], r)
           /\ r.step \notin {"none", "opened"} =>
                  Quiet(j, [r EXCEPT !.step = "ending", !.chunk = 0, !.ck.status = st], r)
<1> DEFINE ck == [r.ck EXCEPT !.status = st]
<1>1. r.ck \in CheckpointType
  BY DEF RunType
<1>2. ck \in CheckpointType /\ ck.status = st /\ AsPlanned(ck, r.ck)
  BY <1>1 DEF CheckpointType, AsPlanned
<1>3. /\ [r EXCEPT !.ck.status = st] = [r EXCEPT !.ck = ck]
      /\ [r EXCEPT !.step = "ending", !.chunk = 0, !.ck.status = st]
            = [r EXCEPT !.step = "ending", !.chunk = 0, !.ck = ck]
  BY DEF RunType
<1> HIDE DEF ck
<1> DEFINE a == [r EXCEPT !.ck = ck]
           c == [r EXCEPT !.step = "ending", !.chunk = 0, !.ck = ck]
<1>5. /\ a \in RunType /\ a.ck = ck /\ a.step = r.step /\ a.busy \in BOOLEAN /\ (a.busy <=> r.busy)
      /\ a.chunk = r.chunk /\ a.sent = r.sent /\ a.handle = r.handle /\ a.owes = r.owes
  BY <1>2 DEF RunType
<1>7. /\ c \in RunType /\ c.ck = ck /\ c.step = "ending" /\ c.busy \in BOOLEAN /\ (c.busy <=> r.busy)
      /\ c.handle = r.handle /\ c.owes = r.owes
  BY <1>2 DEF RunType, FinishStep
<1> HIDE DEF a, c
<1>8. Quiet(j, a, r)
  <2>1. a.busy <=> a.step # "none"
    BY <1>5
  <2>2. a.ck.status = "none" <=> r.ck.status = "none"
    BY <1>2, <1>5
  <2> QED BY <1>2, <1>5, <2>1, <2>2 DEF Quiet, AsPlanned
<1>9. r.step \notin {"none", "opened"} => Quiet(j, c, r)
  BY <1>2, <1>7 DEF Quiet, AsPlanned
<1> QED BY <1>3, <1>8, <1>9 DEF a, c

(* A job that lets go of its channel and its slot; q: the job before that, *)
(* in the status that it goes to and with what it will owe.                *)
LEMMA ReleasedQuiet ==
    ASSUME NEW j, NEW r \in RunType, NEW q \in RunType,
           AsPlanned(q.ck, r.ck), q.ck.status = "none" <=> r.ck.status = "none",
           q.ck.status = "completed" => r.ck.status = "completed",
           q.ck.status = "queued" => ~q.ck.conflict,
           q.owes \in {"none", r.owes} \/ j \in Upload
    PROVE  Quiet(j, Released(q), r) /\ Released(q).step = "none" /\ Released(q) \in RunType
<1> DEFINE n == Released(q)
<1>1. 1 \in Name /\ 0 \in 0..Size
  BY TransferAssumption DEF Name
<1>2. /\ n \in RunType /\ n.ck = q.ck /\ n.owes = q.owes
      /\ n.step = "none" /\ n.busy = FALSE /\ n.handle = 1
  BY <1>1 DEF Released, RunType
<1> HIDE DEF n
<1>3. Quiet(j, n, r)
  BY <1>2 DEF Quiet
<1> QED BY <1>2, <1>3 DEF n

-----------------------------------------------------------------------------
(* Steps that let a job go or leave it where it is                         *)

LEMMA RunCompletesSound ==
    ASSUME Shapes, JobsSound, NEW j \in Job, RunCompletes(j)
    PROVE  JobsSound' /\ Shapes'
<1> DEFINE r == job[j]
           ck == [r.ck EXCEPT !.status = "completed"]
           n == [r EXCEPT !.ck.status = "completed", !.step = "ending"]
<1>1. /\ r \in RunType /\ r.ck \in CheckpointType /\ r.step = "completing" /\ r.busy
      /\ r.ck.complete /\ r.ck.status # "none" /\ r.owes # "run"
  BY Unmoved DEF RunCompletes, Sound, Placed, Planned, Truthful
<1>2. ck \in CheckpointType /\ ck.status = "completed" /\ AsPlanned(ck, r.ck)
  BY <1>1 DEF CheckpointType, AsPlanned, Status, Finished
<1>3. n = [r EXCEPT !.ck = ck, !.step = "ending"]
  BY <1>1 DEF RunType
<1> HIDE DEF ck
<1>4. n \in RunType /\ n.ck = ck /\ n.step = "ending" /\ n.busy /\ n.handle = r.handle /\ n.owes = r.owes
  BY <1>1, <1>2, <1>3 DEF RunType, FinishStep
<1>5. job' = With(j, n) /\ Save(With(j, n), j) /\ UNCHANGED <<files, source, mutating, caller>>
  BY DEF RunCompletes, outside
<1> HIDE DEF n
<1>6. Quiet(j, n, r)
  BY <1>1, <1>2, <1>4 DEF Quiet
<1> QED BY <1>1, <1>4, <1>5, <1>6, QuietMoves DEF Shapes

LEMMA RunFailsSound ==
    ASSUME Shapes, JobsSound, NEW j \in Job, RunFails(j)
    PROVE  JobsSound' /\ Shapes'
<1> DEFINE r == job[j]
           st == IF r.aborted THEN r.ck.status ELSE "failed"
           n == [r EXCEPT !.step = "ending", !.chunk = 0, !.ck.status = st]
<1>1. /\ r \in RunType /\ r.ck \in CheckpointType /\ (r.busy <=> r.step # "none")
      /\ r.step \notin {"none", "opened", "ending"} /\ r.ck.status # "none"
      /\ r.ck.status = "queued" => ~r.ck.conflict
      /\ r.owes = "run" => r.step \in {"none", "opened"}
  BY Unmoved DEF RunFails, Sound, Placed, Planned, FinishStep
<1>2. /\ st \in Status /\ (st = "none" <=> r.ck.status = "none")
      /\ st = "completed" => r.ck.status = "completed"
      /\ st = "queued" => ~r.ck.conflict
  BY <1>1 DEF CheckpointType, Status
<1>3. /\ job' = With(j, n) /\ (UNCHANGED disk \/ Save(With(j, n), j))
      /\ UNCHANGED <<files, source, caller>>
      /\ mutating' = IF mutating = j THEN Nil ELSE mutating
  BY DEF RunFails, outside
<1> HIDE DEF st
<1>4. n.step = "ending"
  BY <1>1 DEF RunType
<1>5. Quiet(j, n, r)
  BY <1>1, <1>2, ParkedQuiet
<1> HIDE DEF n
<1> QED BY <1>3, <1>4, <1>5, QuietMoves DEF Shapes

(* A job lets go: as it is, in another status, owing something else, or    *)
(* both.                                                                   *)
LEMMA LetGo ==
    ASSUME Shapes, JobsSound, NEW j \in Job
    PROVE  /\ Quiet(j, Released(job[j]), job[j]) /\ Released(job[j]).step = "none"
           /\ Released(job[j]) \in RunType
<1>1. /\ job[j] \in RunType /\ AsPlanned(job[j].ck, job[j].ck)
      /\ job[j].ck.status = "queued" => ~job[j].ck.conflict
  BY Unmoved DEF Sound, Planned, AsPlanned
<1> QED BY <1>1, ReleasedQuiet

LEMMA LetGoOwing ==
    ASSUME Shapes, JobsSound, NEW j \in Job, NEW debt \in Debt, debt = "none" \/ j \in Upload
    PROVE  LET n == Released([job[j] EXCEPT !.owes = debt])
           IN  Quiet(j, n, job[j]) /\ n.step = "none" /\ n \in RunType
<1> DEFINE r == job[j]
           q == [r EXCEPT !.owes = debt]
<1>1. r \in RunType /\ (r.ck.status = "queued" => ~r.ck.conflict)
  BY Unmoved DEF Sound, Planned
<1>2. q \in RunType /\ q.ck = r.ck /\ q.owes = debt
  BY <1>1 DEF RunType
<1> HIDE DEF q
<1>3. AsPlanned(q.ck, r.ck)
  BY <1>2 DEF AsPlanned
<1>4. Quiet(j, Released(q), r) /\ Released(q).step = "none" /\ Released(q) \in RunType
  BY <1>1, <1>2, <1>3, ReleasedQuiet
<1> QED BY <1>4 DEF q

LEMMA LetGoAs ==
    ASSUME Shapes, JobsSound, NEW j \in Job, NEW st \in {"failed", "paused", "cancelled"},
           job[j].ck.status # "none"
    PROVE  LET n == Released([job[j] EXCEPT !.ck.status = st])
           IN  Quiet(j, n, job[j]) /\ n.step = "none" /\ n \in RunType
<1> DEFINE r == job[j]
           ck == [r.ck EXCEPT !.status = st]
           q == [r EXCEPT !.ck.status = st]
<1>1. r \in RunType /\ r.ck \in CheckpointType
  BY Unmoved
<1>2. ck \in CheckpointType /\ ck.status = st /\ AsPlanned(ck, r.ck)
  BY <1>1 DEF CheckpointType, AsPlanned, Status, Finished
<1>3. q = [r EXCEPT !.ck = ck]
  BY <1>1 DEF RunType
<1> HIDE DEF ck
<1>4. q \in RunType /\ q.ck = ck /\ q.owes = r.owes
  BY <1>1, <1>2, <1>3 DEF RunType
<1> HIDE DEF q
<1>5. Quiet(j, Released(q), r) /\ Released(q).step = "none" /\ Released(q) \in RunType
  BY <1>1, <1>2, <1>4, ReleasedQuiet
<1> QED BY <1>5 DEF q

LEMMA LetGoFailed ==
    ASSUME Shapes, JobsSound, NEW j \in Upload, j \in Job, NEW debt \in Debt, job[j].ck.status # "none"
    PROVE  LET n == Released([job[j] EXCEPT !.owes = debt, !.ck.status = "failed"])
           IN  Quiet(j, n, job[j]) /\ n.step = "none" /\ n \in RunType
<1> DEFINE r == job[j]
           ck == [r.ck EXCEPT !.status = "failed"]
           q == [r EXCEPT !.owes = debt, !.ck.status = "failed"]
<1>1. r \in RunType /\ r.ck \in CheckpointType
  BY Unmoved
<1>2. ck \in CheckpointType /\ ck.status = "failed" /\ AsPlanned(ck, r.ck)
  BY <1>1 DEF CheckpointType, AsPlanned, Status
<1>3. q = [r EXCEPT !.owes = debt, !.ck = ck]
  BY <1>1 DEF RunType
<1> HIDE DEF ck
<1>4. q \in RunType /\ q.ck = ck /\ q.owes = debt
  BY <1>1, <1>2, <1>3 DEF RunType
<1> HIDE DEF q
<1>5. Quiet(j, Released(q), r) /\ Released(q).step = "none" /\ Released(q) \in RunType
  BY <1>1, <1>2, <1>4, ReleasedQuiet
<1> QED BY <1>5 DEF q

LEMMA RunEndsSound ==
    ASSUME Shapes, JobsSound, NEW j \in Job, RunEnds(j)
    PROVE  JobsSound' /\ Shapes'
<1> DEFINE r == job[j]
           n == Released(r)
<1>1. /\ Quiet(j, n, r) /\ n.step = "none"
  BY LetGo
<1>2. /\ Schedule(With(j, n), active - 1)
      /\ caller' = [x \in Caller |-> caller'[x]]
      /\ UNCHANGED <<disk, files, source, mutating>> /\ r.step = "ending"
  BY DEF RunEnds, WaitersGoOn, outside
<1> HIDE DEF n
<1> QED BY <1>1, <1>2, QuietMoves

LEMMA SchedulesSound ==
    ASSUME Shapes, JobsSound, NEW x \in Caller, caller[x].job \in Job, Schedules(x)
    PROVE  JobsSound' /\ Shapes'
<1> DEFINE j == caller[x].job
<1>1. /\ Schedule(job, active) /\ caller' = [y \in Caller |-> caller'[y]]
      /\ UNCHANGED <<disk, files, source, mutating>>
  BY DEF Schedules, Return, Shapes, outside
<1>2. Quiet(j, job[j], job[j]) /\ With(j, job[j]) = job
  BY Unmoved
<1> QED BY <1>1, <1>2, QuietMoves

LEMMA StopSound ==
    ASSUME Shapes, JobsSound, NEW x \in Caller, NEW j \in Job, NEW op, Stop(x, j, op)
    PROVE  JobsSound' /\ Shapes'
<1> DEFINE r == job[j]
           n == [r EXCEPT !.aborted = TRUE]
<1>1. Quiet(j, r, r) /\ With(j, r) = job /\ r \in RunType
  BY Unmoved
<1>2. /\ n \in RunType /\ n.ck = r.ck /\ n.step = r.step /\ n.handle = r.handle /\ n.chunk = r.chunk
      /\ n.sent = r.sent /\ n.busy = r.busy /\ n.owes = r.owes
  BY <1>1 DEF RunType
<1>3. /\ job' = With(j, r) \/ job' = With(j, n)
      /\ caller' = [y \in Caller |-> caller'[y]]
      /\ UNCHANGED <<disk, files, source, mutating>>
  BY <1>1 DEF Stop, Call, Shapes, outside
<1> HIDE DEF n
<1>4. Quiet(j, n, r)
  BY <1>1, <1>2 DEF Quiet, AsPlanned
<1> QED BY <1>1, <1>2, <1>3, <1>4, QuietMoves

(* The body of a stop, whatever it finds. *)
LEMMA StopTakesSound ==
    ASSUME Shapes, JobsSound, NEW x \in Caller, caller[x].job \in Job, status(caller[x].job) # "none",
           StopTakes(x)
    PROVE  JobsSound' /\ Shapes'
<1> DEFINE j == caller[x].job
           r == job[j]
           st == IF caller[x].op = "pause" THEN "paused" ELSE "cancelled"
           open == r.step = "open"
           stopped == [r EXCEPT !.ck.status = st]
           closed == Released(stopped)
           n == IF open THEN closed ELSE stopped
<1>1. /\ r \in RunType /\ r.ck \in CheckpointType /\ (r.busy <=> r.step # "none")
      /\ Quiet(j, r, r) /\ With(j, r) = job /\ r.ck.status # "none"
      /\ r.owes = "run" => r.step \in {"none", "opened"}
  BY Unmoved DEF Sound, Placed, status
<1>2. st \in Status /\ st \in {"paused", "cancelled"}
  BY DEF Status, Finished
<1>3. /\ UNCHANGED <<files, source, mutating>> /\ caller' = [y \in Caller |-> caller'[y]]
      /\ \/ Schedule(job, active) /\ UNCHANGED disk
         \/ (\E act : Schedule(With(j, n), act)) /\ Save(With(j, n), j)
         \/ job' = With(j, n) /\ Save(With(j, n), j)
  BY DEF StopTakes, Goes, Call, Return, Shapes, outside
<1> HIDE DEF st
<1>4. Quiet(j, closed, r) /\ closed.step = "none"
  BY <1>1, <1>2, LetGoAs
<1>5. Quiet(j, stopped, r)
  BY <1>1, <1>2, ParkedQuiet
<1>6. stopped.step = r.step
  BY <1>1 DEF RunType
<1> HIDE DEF closed, stopped
<1>7. Quiet(j, n, r) /\ (n.step \in {"renaming", "renamed"} <=> r.step \in {"renaming", "renamed"})
  BY <1>4, <1>5, <1>6
<1> HIDE DEF n
<1> QED BY <1>1, <1>3, <1>7, QuietMoves

(* A job that is queued again keeps its checkpoint. *)
LEMMA RequeuedQuiet ==
    ASSUME NEW j, NEW r \in RunType, r.busy <=> r.step # "none", r.ck.status # "none", ~r.ck.conflict
    PROVE  /\ Quiet(j, Requeued(r), r) /\ Requeued(r).step = r.step
           /\ Requeued(r).ck.status = "queued"
<1> DEFINE ck == [r.ck EXCEPT !.status = "queued"]
           n == Requeued(r)
<1>1. r.ck \in CheckpointType
  BY DEF RunType
<1>2. ck \in CheckpointType /\ ck.status = "queued" /\ AsPlanned(ck, r.ck)
  BY <1>1 DEF CheckpointType, AsPlanned, Status, Active
<1>3. n = [r EXCEPT !.aborted = FALSE, !.ck = ck]
  BY DEF RunType, Requeued
<1> HIDE DEF ck
<1>4. /\ n \in RunType /\ n.ck = ck /\ n.step = r.step /\ n.chunk = r.chunk
      /\ n.sent = r.sent /\ n.handle = r.handle /\ (n.busy <=> r.busy) /\ n.owes = r.owes
  BY <1>2, <1>3 DEF RunType
<1> HIDE DEF n
<1>5. Quiet(j, n, r)
  <2>1. n.busy <=> n.step # "none"
    BY <1>4
  <2> QED BY <1>2, <1>4, <2>1 DEF Quiet, AsPlanned
<1> QED BY <1>2, <1>4, <1>5 DEF n

LEMMA ResumeSound ==
    ASSUME Shapes, JobsSound, NEW x \in Caller, NEW j \in Job, Resume(x, j)
    PROVE  JobsSound' /\ Shapes'
<1> DEFINE n == Requeued(job[j])
<1>1. /\ job[j] \in RunType /\ (job[j].busy <=> job[j].step # "none") /\ job[j].ck.status # "none"
      /\ ~job[j].ck.conflict
  BY Unmoved DEF Resume, Resumable, status, Sound, Placed
<1>2. Quiet(j, n, job[j]) /\ n.step = job[j].step
  BY <1>1, RequeuedQuiet
<1>3. /\ job' = With(j, n) /\ Save(With(j, n), j)
      /\ caller' = [y \in Caller |-> caller'[y]]
      /\ UNCHANGED <<files, source, mutating>>
  BY DEF Resume, Call, Shapes, outside
<1> HIDE DEF n
<1> QED BY <1>2, <1>3, QuietMoves

LEMMA OpenFailsSound ==
    ASSUME Shapes, JobsSound, NEW x \in Caller, caller[x].job \in Job, status(caller[x].job) # "none",
           OpenFails(x)
    PROVE  JobsSound' /\ Shapes'
<1> DEFINE j == caller[x].job
           n == [job[j] EXCEPT !.ck.status = "failed"]
<1>1. /\ job[j] \in RunType /\ (job[j].busy <=> job[j].step # "none") /\ job[j].ck.status # "none"
      /\ job[j].owes = "run" => job[j].step \in {"none", "opened"}
  BY Unmoved DEF status, Sound, Placed
<1>2. Quiet(j, n, job[j])
  BY <1>1, ParkedQuiet DEF Status
<1>3. n.step = job[j].step
  BY <1>1 DEF RunType
<1>4. /\ job' = With(j, n) /\ Save(With(j, n), j)
      /\ caller' = [y \in Caller |-> caller'[y]]
      /\ UNCHANGED <<files, source, mutating>>
  BY DEF OpenFails, Return, Shapes, outside
<1> HIDE DEF n
<1> QED BY <1>2, <1>3, <1>4, QuietMoves

LEMMA ChunkFailsSound ==
    ASSUME Shapes, JobsSound, NEW j \in Job, ChunkFails(j)
    PROVE  JobsSound' /\ Shapes'
<1> DEFINE r == job[j]
           m == Released(r)
           n == Released([r EXCEPT !.owes = "chunk", !.ck.status = "failed"])
<1>1. /\ r.step = "writing" /\ r.ck.status # "none" /\ j \in Upload /\ "chunk" \in Debt
  BY Unmoved DEF ChunkFails, Sound, Placed, Planned, UploadStep, Debt
<1>2. /\ \/ Schedule(With(j, m), active - 1) /\ UNCHANGED disk
         \/ job' = With(j, n) /\ Save(With(j, n), j)
      /\ UNCHANGED <<files, source, mutating, caller>>
  BY DEF ChunkFails, Failed, outside
<1>3. Quiet(j, m, r) /\ m.step = "none" /\ Quiet(j, n, r) /\ n.step = "none"
  BY <1>1, LetGo, LetGoFailed
<1> HIDE DEF n, m
<1> QED BY <1>1, <1>2, <1>3, QuietMoves DEF Shapes

LEMMA ChunkGivesUpSound ==
    ASSUME Shapes, JobsSound, NEW j \in Job, ChunkGivesUp(j)
    PROVE  JobsSound' /\ Shapes'
<1> DEFINE r == job[j]
           n == [r EXCEPT !.owes = "none"]
<1>1. r \in RunType /\ Quiet(j, r, r)
  BY Unmoved
<1>2. /\ n \in RunType /\ n.ck = r.ck /\ n.step = r.step /\ n.handle = r.handle /\ n.chunk = r.chunk
      /\ n.sent = r.sent /\ n.busy = r.busy /\ n.owes = "none"
  BY <1>1 DEF RunType, Debt
<1>3. /\ Schedule(With(j, n), active) /\ UNCHANGED <<disk, files, source, mutating, caller>>
  BY DEF ChunkGivesUp, outside
<1> HIDE DEF n
<1>4. Quiet(j, n, r)
  BY <1>1, <1>2 DEF Quiet, AsPlanned
<1> QED BY <1>2, <1>3, <1>4, QuietMoves DEF Shapes

(* A failed finish gives up the lock too, and may owe its end. *)
LEMMA FinishFailsSound ==
    ASSUME Shapes, JobsSound, NEW j \in Job, FinishFails(j)
    PROVE  JobsSound' /\ Shapes'
<1> DEFINE r == job[j]
           m == Released(r)
           n == Released([r EXCEPT !.owes = "run", !.ck.status = "failed"])
<1>1. /\ r.ck.status # "none" /\ j \in Upload /\ "run" \in Debt
  BY Unmoved DEF FinishFails, Sound, Planned, FinishStep, Debt
<1>2. /\ \/ Schedule(With(j, m), active - 1) /\ UNCHANGED disk
         \/ job' = With(j, n) /\ Save(With(j, n), j)
      /\ UNCHANGED <<files, source>> /\ caller' = [x \in Caller |-> caller'[x]]
      /\ mutating' = IF mutating = j THEN Nil ELSE mutating
  BY DEF FinishFails, Failed, WaitersGoOn, outside, Shapes
<1>3. Quiet(j, m, r) /\ m.step = "none" /\ Quiet(j, n, r) /\ n.step = "none"
  BY <1>1, LetGo, LetGoFailed
<1> HIDE DEF n, m
<1> QED BY <1>2, <1>3, QuietMoves

LEMMA FinishGivesUpSound ==
    ASSUME Shapes, JobsSound, NEW j \in Job, FinishGivesUp(j)
    PROVE  JobsSound' /\ Shapes'
<1> DEFINE r == job[j]
           n == Released([r EXCEPT !.owes = "none"])
<1>1. r.step \in {"none", "opened"}
  BY Unmoved DEF FinishGivesUp, Sound, Placed
<1>2. /\ \E act : Schedule(With(j, n), act)
      /\ UNCHANGED <<disk, files, source, mutating>> /\ caller' = [x \in Caller |-> caller'[x]]
  BY DEF FinishGivesUp, WaitersGoOn, outside
<1>3. Quiet(j, n, r) /\ n.step = "none"
  BY LetGoOwing DEF Debt
<1> HIDE DEF n
<1> QED BY <1>1, <1>2, <1>3, QuietMoves

(* The save of an opened channel failed: the job is released. *)
LEMMA OpenSaveFailsSound ==
    ASSUME Shapes, JobsSound, NEW x \in Caller, caller[x].job \in Job, status(caller[x].job) # "none",
           job[caller[x].job].step \in {"opened", "none"}, OpenSaveFails(x)
    PROVE  JobsSound' /\ Shapes'
<1> DEFINE j == caller[x].job
           r == job[j]
           n == Released([r EXCEPT !.ck.status = "failed"])
<1>1. Quiet(j, n, r) /\ n.step = "none"
  BY LetGoAs DEF status
<1>3. /\ job' = With(j, n) /\ Save(With(j, n), j) /\ UNCHANGED <<files, source, mutating>>
      /\ caller' = [y \in Caller |-> caller'[y]]
  BY DEF OpenSaveFails, Return, Shapes
<1> HIDE DEF n
<1> QED BY <1>1, <1>3, QuietMoves

-----------------------------------------------------------------------------
(* Steps that write files, checkpoints and plans                           *)

LEMMA Moves ==
    ASSUME Shapes, JobsSound, NEW j \in Job, NEW n,
           job' = With(j, n) \/ \E act : Schedule(With(j, n), act),
           UNCHANGED disk \/ Save(With(j, n), j),
           UNCHANGED stage \/ stage' = [stage EXCEPT ![j] = stage'[j]],
           UNCHANGED <<dest, delivered, source, mutating>>,
           discarded' \in {discarded, discarded \cup {j}},
           caller' = [x \in Caller |-> caller'[x]],
           Sound(j, n, disk'[j], stage'[j], source[j], delivered, discarded', mutating, dest.id)
    PROVE  JobsSound' /\ Shapes'
<1>1. /\ disk' = [k \in Job |-> disk'[k]] /\ \A k \in Job \ {j} : disk'[k] = disk[k]
      /\ disk'[j] = disk[j] \/ disk'[j] = Restored(n.ck)
  BY SaveWrites DEF Shapes
<1>2. stage' = [k \in Job |-> stage'[k]] /\ \A k \in Job \ {j} : stage'[k] = stage[k]
  BY DEF Shapes
<1>3. Sound(j, n, disk'[j], stage'[j], source'[j], delivered', discarded', mutating', dest'.id)
  OBVIOUS
<1>4. discarded' \subseteq Job /\ dest'.id \in Nat
  BY DEF Shapes
<1>5. Elsewhere(j)
  BY <1>1, <1>2, <1>4 DEF Elsewhere
<1>6. JobsSound' /\ job' = [k \in Job |-> job'[k]]
  BY <1>3, <1>4, <1>5, JobMoves
<1> QED BY <1>1, <1>2, <1>4, <1>6 DEF Shapes

(* A request that changes neither jobs nor files. *)
LEMMA StillSound ==
    ASSUME Shapes, JobsSound, UNCHANGED <<job, disk, files, source, mutating>>,
           caller' = [x \in Caller |-> caller'[x]]
    PROVE  JobsSound' /\ Shapes'
<1>1. UNCHANGED <<job, disk, stage, dest, delivered, discarded, source, mutating>>
  BY DEF files
<1> QED BY <1>1 DEF JobsSound, Shapes

LEMMA RunVerifiesSound ==
    ASSUME Shapes, JobsSound, NEW j \in Job, RunVerifies(j)
    PROVE  JobsSound' /\ Shapes'
<1> DEFINE r == job[j]
           n == [r EXCEPT !.step = "committing"]
<1>1. /\ r \in RunType /\ r.ck \in CheckpointType
      /\ Sound(j, r, disk[j], stage[j], source[j], delivered, discarded, mutating, dest.id)
  BY Unmoved
<1>2. /\ n \in RunType /\ n.ck = r.ck /\ n.step = "committing" /\ n.handle = r.handle /\ (n.busy <=> r.busy) /\ n.owes = r.owes
  BY <1>1 DEF RunType, FinishStep
<1>3. /\ r.step \in {"copying", "closing"}
      /\ stage[j][r.ck.name] # Nil /\ Len(stage[j][r.ck.name]) = Size
      /\ r.step = "copying" => source[j] = r.ck.version
      /\ job' = With(j, n) /\ UNCHANGED <<disk, files, source, mutating, caller>>
  BY DEF RunVerifies, Staged, outside
<1>4. r.ck.version = source[j]
  BY <1>1, <1>3 DEF Sound, Placed, Planned
<1> HIDE DEF n
<1>5. Sound(j, n, disk[j], stage[j], source[j], delivered, discarded, mutating, dest.id)
  <2>1. Typed(n, disk[j], stage[j], source[j])
    BY <1>1, <1>2 DEF Sound, Typed
  <2>2. Placed(j, n, mutating) /\ Planned(j, n, disk[j])
    BY <1>1, <1>2, <1>3 DEF Sound, Placed, Planned, CopyStep, UploadStep
  <2>3. Truthful(j, n, disk[j], delivered) /\ Aimed(j, n, delivered, dest.id) /\ Full(n, stage[j])
    BY <1>1, <1>2, <1>3 DEF Sound, Truthful, Aimed, Full
  <2>4. ASSUME j \notin delivered \cup discarded PROVE Kept(n, disk[j], stage[j], source[j])
    BY <1>1, <1>2, <1>3, <1>4, <2>4 DEF Sound, Kept, UploadStep
  <2> QED BY <1>1, <2>1, <2>2, <2>3, <2>4 DEF Sound
<1> QED BY <1>3, <1>5, Moves DEF files, Shapes

LEMMA PutWrites ==
    ASSUME Shapes, NEW j \in Job, NEW i, NEW content, PutStage(j, i, content)
    PROVE  stage'[j] = [stage[j] EXCEPT ![i] = content] /\ stage' = [stage EXCEPT ![j] = stage'[j]]
<1>1. stage' = [stage EXCEPT ![j] = [stage[j] EXCEPT ![i] = content]]
  BY DEF PutStage, Shapes
<1> QED BY <1>1 DEF Shapes

LEMMA RunPreparesSound ==
    ASSUME Shapes, JobsSound, NEW j \in Job, RunPrepares(j)
    PROVE  JobsSound' /\ Shapes'
<1> DEFINE r == job[j]
           id == dest.id
           v == source[j]
           asks == r.ck.plan = "ask" /\ id # 0
           skips == r.ck.plan = "skip" /\ id # 0
           asked == [r.ck EXCEPT !.status = "paused", !.conflict = TRUE]
           made == [r.ck EXCEPT !.plan = "made", !.target = id, !.version = IF skips THEN 0 ELSE v,
                                !.complete = skips]
           n == IF asks THEN [r EXCEPT !.ck = asked, !.step = "ending"]
                ELSE [r EXCEPT !.ck = made, !.step = "checking"]
<1>1. /\ r \in RunType /\ r.ck \in CheckpointType /\ r.step = "preparing" /\ id \in Nat
      /\ Sound(j, r, disk[j], stage[j], v, delivered, discarded, mutating, id)
      /\ v \in Version /\ v \in Nat \ {0}
  BY Unmoved DEF RunPrepares, Shapes, Sound, Typed, Version
<1>2. /\ asked \in CheckpointType /\ asked.status = "paused" /\ asked.conflict = TRUE
      /\ asked.plan = r.ck.plan /\ asked.target = r.ck.target /\ asked.version = r.ck.version
      /\ asked.prefix = r.ck.prefix /\ asked.complete = r.ck.complete /\ asked.name = r.ck.name
  BY <1>1 DEF CheckpointType, Status
<1>3. /\ made \in CheckpointType /\ made.plan = "made" /\ made.target = id
      /\ made.version = (IF skips THEN 0 ELSE v) /\ (made.complete <=> skips)
      /\ made.status = r.ck.status /\ made.conflict = r.ck.conflict
      /\ made.prefix = r.ck.prefix /\ made.name = r.ck.name
  BY <1>1 DEF CheckpointType
<1>4. job' = With(j, n) /\ Save(With(j, n), j) /\ UNCHANGED <<files, source, mutating, caller>>
  <2>1. [r EXCEPT !.ck.status = "paused", !.ck.conflict = TRUE, !.step = "ending"]
            = [r EXCEPT !.ck = asked, !.step = "ending"]
    BY <1>1 DEF RunType
  <2>2. [r EXCEPT !.ck.plan = "made", !.ck.target = id, !.ck.version = IF skips THEN 0 ELSE v,
                  !.ck.complete = skips, !.step = "checking"]
            = [r EXCEPT !.ck = made, !.step = "checking"]
    BY <1>1 DEF RunType
  <2> QED BY <2>1, <2>2 DEF RunPrepares, outside
<1> HIDE DEF asked, made
<1> DEFINE e == Restored(n.ck)
<1>5. ASSUME asks PROVE Sound(j, n, e, stage[j], v, delivered, discarded, mutating, id)
  <2>1. /\ n \in RunType /\ n.ck = asked /\ n.step = "ending" /\ n.handle = r.handle /\ (n.busy <=> r.busy) /\ n.owes = r.owes
    BY <1>1, <1>2, <1>5 DEF RunType, FinishStep
  <2> HIDE DEF n
  <2>2. /\ e \in CheckpointType /\ e.status \notin {"none", "completed", "queued"}
        /\ e.plan = asked.plan /\ e.conflict = asked.conflict
        /\ e.target = asked.target /\ e.version = asked.version
        /\ e.prefix = asked.prefix /\ e.complete = asked.complete /\ e.name = asked.name
    BY <1>2, <2>1, RestoredAs
  <2> HIDE DEF e
  <2>3. Typed(n, e, stage[j], v)
    BY <1>1, <2>1, <2>2 DEF Sound, Typed
  <2>4. Placed(j, n, mutating) /\ Planned(j, n, e)
    BY <1>1, <1>2, <1>5, <2>1, <2>2 DEF Sound, Placed, Planned, CopyStep, UploadStep
  <2>5. Truthful(j, n, e, delivered) /\ Aimed(j, n, delivered, id) /\ Full(n, stage[j])
    BY <1>1, <1>2, <2>1, <2>2 DEF Sound, Truthful, Aimed, Full
  <2>6. ASSUME j \notin delivered \cup discarded PROVE Kept(n, e, stage[j], v)
    BY <1>1, <1>2, <2>1, <2>2, <2>6 DEF Sound, Kept, UploadStep
  <2> QED BY <1>1, <2>3, <2>4, <2>5, <2>6 DEF Sound
<1>6. ASSUME ~asks PROVE Sound(j, n, e, stage[j], v, delivered, discarded, mutating, id)
  <2>1. /\ n \in RunType /\ n.ck = made /\ n.step = "checking" /\ n.handle = r.handle /\ (n.busy <=> r.busy) /\ n.owes = r.owes
    BY <1>1, <1>3, <1>6 DEF RunType, CopyStep
  <2> HIDE DEF n
  <2>2. /\ e \in CheckpointType /\ (e.status = "none" <=> made.status = "none")
        /\ e.status = "completed" <=> made.status = "completed"
        /\ e.status # "queued"
        /\ e.plan = "made" /\ e.conflict = made.conflict
        /\ e.target = made.target /\ e.version = made.version
        /\ e.prefix = made.prefix /\ e.complete = made.complete /\ e.name = made.name
    BY <1>3, <2>1, RestoredAs
  <2> HIDE DEF e
  <2>3. Typed(n, e, stage[j], v)
    BY <1>1, <2>1, <2>2 DEF Sound, Typed
  <2>4. Placed(j, n, mutating) /\ Planned(j, n, e)
    BY <1>1, <1>3, <2>1, <2>2 DEF Sound, Placed, Planned, CopyStep, UploadStep
  <2>5. Truthful(j, n, e, delivered) /\ Aimed(j, n, delivered, id) /\ Full(n, stage[j])
    BY <1>1, <1>3, <2>1, <2>2 DEF Sound, Truthful, Aimed, Full, Placed, Planned
  <2>6. ASSUME j \notin delivered \cup discarded PROVE Kept(n, e, stage[j], v)
    BY <1>1, <1>3, <2>1, <2>2, <2>6 DEF Sound, Kept, UploadStep, Planned
  <2> QED BY <1>1, <2>3, <2>4, <2>5, <2>6 DEF Sound
<1> HIDE DEF n, e
<1>7. disk'[j] = e
  BY <1>4, SaveWrites DEF e
<1> QED BY <1>4, <1>5, <1>6, <1>7, Moves DEF files, Shapes

(* A staging file opened on what the checkpoint says it holds: nothing to  *)
(* be told about it changes, and it is there.                              *)
LEMMA OpenedSound ==
    ASSUME Shapes, JobsSound, NEW j \in Job, StageAsSaved(j), Opened(j)
    PROVE  /\ stage'[j] \in [Name -> {Nil} \cup Chunks]
           /\ stage' = [stage EXCEPT ![j] = stage'[j]]
           /\ Kept(job[j], disk[j], stage[j], source[j]) /\ job[j].ck.plan = "made"
                => /\ stage'[j][1] # Nil /\ Covers(stage'[j][1], job[j].ck.prefix)
                   /\ Between(stage'[j][1], job[j].ck.version, source[j])
<1> DEFINE r == job[j]
           s == stage[j]
           t == stage'[j]
<1>1. /\ r \in RunType /\ r.ck \in CheckpointType /\ s \in [Name -> {Nil} \cup Chunks]
  BY Unmoved DEF Sound, Typed
<1>2. r.ck.name \in Name /\ r.ck.prefix \in Chunks /\ r.ck.prefix # Nil
  BY <1>1, ContentAssumption DEF CheckpointType
<1>3. t = [s EXCEPT ![r.ck.name] = r.ck.prefix] /\ stage' = [stage EXCEPT ![j] = t]
  BY PutWrites DEF Opened
<1>4. t \in [Name -> {Nil} \cup Chunks]
  BY <1>1, <1>2, <1>3
<1>5. ASSUME Kept(r, disk[j], s, source[j])
      PROVE  t[1] # Nil /\ Covers(t[1], r.ck.prefix) /\ Between(t[1], r.ck.version, source[j])
  <2>1. 1 \in Name /\ r.ck.name = 1 /\ t[1] = r.ck.prefix
    BY <1>1, <1>2, <1>3, <1>5, TransferAssumption DEF Kept, Name
  <2>2. r.ck.prefix = <<>> \/ s[1] = r.ck.prefix
    BY <2>1 DEF StageAsSaved, Staged
  <2>3. Between(r.ck.prefix, r.ck.version, source[j])
    BY <1>2, <1>5, <2>2, EmptyContent DEF Kept
  <2> QED BY <1>2, <2>1, <2>3, EmptyContent
<1> QED BY <1>3, <1>4, <1>5

LEMMA RunChecksSound ==
    ASSUME Shapes, JobsSound, NEW j \in Job, RunChecks(j)
    PROVE  JobsSound' /\ Shapes'
<1> DEFINE r == job[j]
           v == source[j]
           m == [r EXCEPT !.step = "completing"]
           n == [r EXCEPT !.step = "copying", !.handle = r.ck.name]
<1>1. /\ r \in RunType /\ r.ck \in CheckpointType /\ r.step = "checking"
      /\ Sound(j, r, disk[j], stage[j], v, delivered, discarded, mutating, dest.id)
      /\ r.ck.plan = "made" /\ j \in Copy /\ r.ck.name \in Name
  BY Unmoved DEF RunChecks, Sound, Planned, Placed, CopyStep, CheckpointType
<1>2. m \in RunType /\ m.ck = r.ck /\ m.step = "completing" /\ m.handle = r.handle /\ (m.busy <=> r.busy) /\ m.owes = r.owes
  BY <1>1 DEF RunType, CopyStep
<1>3. n \in RunType /\ n.ck = r.ck /\ n.step = "copying" /\ n.handle = r.ck.name /\ (n.busy <=> r.busy) /\ n.owes = r.owes
  BY <1>1 DEF RunType, CopyStep
<1>4. /\ UNCHANGED <<disk, dest, delivered, discarded, source, mutating, caller>>
      /\ \/ r.ck.complete /\ job' = With(j, m) /\ UNCHANGED stage
         \/ StageAsSaved(j) /\ Opened(j) /\ job' = With(j, n)
  BY DEF RunChecks, outside
<1> HIDE DEF m, n
<1>5. ASSUME r.ck.complete, job' = With(j, m), UNCHANGED stage PROVE JobsSound' /\ Shapes'
  <2>1. Typed(m, disk[j], stage[j], v)
    BY <1>1, <1>2 DEF Sound, Typed
  <2>2. Placed(j, m, mutating) /\ Planned(j, m, disk[j])
    BY <1>1, <1>2 DEF Sound, Placed, Planned, CopyStep, UploadStep
  <2>3. Truthful(j, m, disk[j], delivered) /\ Aimed(j, m, delivered, dest.id) /\ Full(m, stage[j])
    BY <1>1, <1>2, <1>5 DEF Sound, Truthful, Aimed, Full
  <2>4. ASSUME j \notin delivered \cup discarded PROVE Kept(m, disk[j], stage[j], v)
    BY <1>1, <1>2, <2>4 DEF Sound, Kept, UploadStep
  <2>5. Sound(j, m, disk[j], stage[j], v, delivered, discarded, mutating, dest.id)
    BY <1>1, <2>1, <2>2, <2>3, <2>4 DEF Sound
  <2> QED BY <1>4, <1>5, <2>5, Moves DEF Shapes
<1>6. ASSUME StageAsSaved(j), Opened(j), job' = With(j, n) PROVE JobsSound' /\ Shapes'
  <2>1. /\ stage'[j] \in [Name -> {Nil} \cup Chunks]
        /\ stage' = [stage EXCEPT ![j] = stage'[j]]
        /\ Kept(r, disk[j], stage[j], v) => /\ stage'[j][1] # Nil /\ Covers(stage'[j][1], r.ck.prefix)
                                            /\ Between(stage'[j][1], r.ck.version, v)
    BY <1>1, <1>6, OpenedSound
  <2>2. Typed(n, disk[j], stage'[j], v)
    BY <1>1, <1>3, <2>1 DEF Sound, Typed
  <2>3. Placed(j, n, mutating) /\ Planned(j, n, disk[j])
    BY <1>1, <1>3 DEF Sound, Placed, Planned, CopyStep, UploadStep
  <2>4. Truthful(j, n, disk[j], delivered) /\ Aimed(j, n, delivered, dest.id) /\ Full(n, stage'[j])
    BY <1>1, <1>3 DEF Sound, Truthful, Aimed, Full
  <2>5. ASSUME j \notin delivered \cup discarded PROVE Kept(n, disk[j], stage'[j], v)
    BY <1>1, <1>3, <2>1, <2>5 DEF Sound, Kept, UploadStep
  <2>6. Sound(j, n, disk[j], stage'[j], v, delivered, discarded, mutating, dest.id)
    BY <1>1, <2>2, <2>3, <2>4, <2>5 DEF Sound
  <2> QED BY <1>4, <1>6, <2>1, <2>6, Moves DEF Shapes
<1> QED BY <1>4, <1>5, <1>6

(* A chunk goes to the staging file that the job has opened. *)
LEMMA WriteAtSound ==
    ASSUME Shapes, JobsSound, NEW j \in Job, WriteAt(j), Len(job[j].ck.prefix) < Size
    PROVE  /\ stage'[j] \in [Name -> {Nil} \cup Chunks]
           /\ stage' = [stage EXCEPT ![j] = stage'[j]]
           /\ Kept(job[j], disk[j], stage[j], source[j]) /\ stage[j][1] # Nil
                => /\ stage'[j][1] # Nil /\ Covers(stage'[j][1], job[j].ck.prefix)
                   /\ Between(stage'[j][1], job[j].ck.version, source[j])
                   /\ Len(job[j].ck.prefix) < Len(stage'[j][1])
                   /\ stage'[j][1][Len(job[j].ck.prefix) + 1] = source[j]
<1> DEFINE r == job[j]
           s == stage[j]
           t == stage'[j]
           old == s[r.handle]
           new == IF old = Nil THEN Nil ELSE Written(old, r.ck.prefix, source[j])
<1>1. /\ r \in RunType /\ r.ck \in CheckpointType /\ s \in [Name -> {Nil} \cup Chunks] /\ source[j] \in Version
      /\ source[j] \in Nat
  BY Unmoved DEF Sound, Typed, Version
<1>2. r.handle \in Name /\ r.ck.prefix \in Chunks /\ r.ck.version \in Nat
  BY <1>1 DEF CheckpointType, RunType, Version
<1>3. t = [s EXCEPT ![r.handle] = new] /\ stage' = [stage EXCEPT ![j] = t]
  <2>1. PutStage(j, r.handle, new)
    BY DEF WriteAt, Written
  <2> HIDE DEF new
  <2> QED BY <2>1, PutWrites
<1>4. t \in [Name -> {Nil} \cup Chunks]
  BY <1>1, <1>2, <1>3, WrittenContent
<1>5. ASSUME Kept(r, disk[j], s, source[j]), s[1] # Nil
      PROVE  /\ t[1] # Nil /\ Covers(t[1], r.ck.prefix) /\ Between(t[1], r.ck.version, source[j])
             /\ Len(r.ck.prefix) < Len(t[1]) /\ t[1][Len(r.ck.prefix) + 1] = source[j]
  <2>1. 1 \in Name /\ r.handle = 1 /\ s[1] \in Chunks
    BY <1>1, <1>5, TransferAssumption DEF Kept, Name
  <2>2. t[1] = Written(s[1], r.ck.prefix, source[j])
    BY <1>1, <1>3, <1>5, <2>1
  <2>3. Covers(s[1], r.ck.prefix) /\ Between(s[1], r.ck.version, source[j]) /\ r.ck.version <= source[j]
    BY <1>5 DEF Kept
  <2>4. t[1] \in Chunks
    BY <1>1, <1>2, <2>1, <2>2, WrittenContent
  <2> QED BY <1>1, <1>2, <2>1, <2>2, <2>3, <2>4, WrittenContent, ContentAssumption
<1> QED BY <1>3, <1>4, <1>5

LEMMA RunWritesSound ==
    ASSUME Shapes, JobsSound, NEW j \in Job, RunWrites(j)
    PROVE  JobsSound' /\ Shapes'
<1> DEFINE r == job[j]
           v == source[j]
           n == [r EXCEPT !.step = "written", !.chunk = v]
<1>1. /\ r \in RunType /\ r.ck \in CheckpointType /\ r.step = "copying" /\ v \in Version
      /\ Sound(j, r, disk[j], stage[j], v, delivered, discarded, mutating, dest.id)
      /\ Len(r.ck.prefix) < Size
  BY Unmoved DEF RunWrites, Sound, Typed
<1>2. n \in RunType /\ n.ck = r.ck /\ n.step = "written" /\ n.handle = r.handle /\ (n.busy <=> r.busy) /\ n.owes = r.owes /\ n.chunk = v
  BY <1>1 DEF RunType, CopyStep
<1>3. /\ UNCHANGED <<disk, dest, delivered, discarded, source, mutating, caller>>
      /\ WriteAt(j) /\ job' = With(j, n)
  BY DEF RunWrites, outside
<1> HIDE DEF n
<1>4. /\ stage'[j] \in [Name -> {Nil} \cup Chunks] /\ stage' = [stage EXCEPT ![j] = stage'[j]]
      /\ Kept(r, disk[j], stage[j], v) /\ stage[j][1] # Nil
                => /\ stage'[j][1] # Nil /\ Covers(stage'[j][1], r.ck.prefix)
                   /\ Between(stage'[j][1], r.ck.version, v)
                   /\ Len(r.ck.prefix) < Len(stage'[j][1])
                   /\ stage'[j][1][Len(r.ck.prefix) + 1] = v
  BY <1>1, <1>3, WriteAtSound
<1>5. Typed(n, disk[j], stage'[j], v)
  BY <1>1, <1>2, <1>4 DEF Sound, Typed
<1>6. Placed(j, n, mutating) /\ Planned(j, n, disk[j])
  BY <1>1, <1>2 DEF Sound, Placed, Planned, CopyStep, UploadStep
<1>7. Truthful(j, n, disk[j], delivered) /\ Aimed(j, n, delivered, dest.id) /\ Full(n, stage'[j])
  BY <1>1, <1>2 DEF Sound, Truthful, Aimed, Full
<1>8. ASSUME j \notin delivered \cup discarded PROVE Kept(n, disk[j], stage'[j], v)
  BY <1>1, <1>2, <1>4, <1>8 DEF Sound, Kept, UploadStep
<1>9. Sound(j, n, disk[j], stage'[j], v, delivered, discarded, mutating, dest.id)
  BY <1>1, <1>5, <1>6, <1>7, <1>8 DEF Sound
<1> QED BY <1>3, <1>4, <1>9, Moves DEF Shapes

(* The acknowledged chunk c becomes part of the checkpoint, which is saved. *)
LEMMA AckSound ==
    ASSUME Shapes, JobsSound, NEW j \in Job, NEW n \in RunType, NEW c,
           c = IF job[j].step = "written" THEN job[j].chunk ELSE source[j],
           \/ job[j].step = "written" /\ n.step = "copying"
           \/ job[j].step = "writing" /\ n.step = "open",
           n.ck = [job[j].ck EXCEPT !.prefix = Append(@, c)],
           n.handle = job[j].handle, n.owes = job[j].owes, n.busy <=> job[j].busy,
           job' = With(j, n), Save(With(j, n), j),
           UNCHANGED <<files, source, mutating, caller>>
    PROVE  JobsSound' /\ Shapes'
<1> DEFINE r == job[j]
           s == stage[j]
           v == source[j]
           ck == [r.ck EXCEPT !.prefix = Append(@, c)]
           new == Append(r.ck.prefix, c)
           e == Restored(n.ck)
<1>1. /\ r \in RunType /\ r.ck \in CheckpointType
      /\ Sound(j, r, disk[j], s, v, delivered, discarded, mutating, dest.id)
      /\ c \in Version /\ Len(r.ck.prefix) < Size /\ r.ck.prefix \in Chunks
  BY Unmoved DEF Sound, Typed, CheckpointType
<1>2. new \in Chunks
  BY <1>1, AckedContent
<1>3. /\ n.ck \in CheckpointType /\ n.ck.prefix = new /\ n.ck.status = r.ck.status
      /\ n.ck.plan = r.ck.plan /\ n.ck.conflict = r.ck.conflict /\ n.ck.target = r.ck.target
      /\ n.ck.version = r.ck.version /\ n.ck.complete = r.ck.complete /\ n.ck.name = r.ck.name
  BY <1>1, <1>2 DEF CheckpointType
<1>4. /\ e \in CheckpointType /\ (e.status = "none" <=> n.ck.status = "none") /\ e.status # "queued"
      /\ e.status = "completed" <=> n.ck.status = "completed"
      /\ e.plan = n.ck.plan /\ e.conflict = n.ck.conflict /\ e.target = n.ck.target
      /\ e.version = n.ck.version /\ e.complete = n.ck.complete /\ e.name = n.ck.name
      /\ e.prefix = n.ck.prefix
  BY <1>3, RestoredAs
<1> HIDE DEF e, new
<1>5. Typed(n, e, s, v)
  BY <1>1, <1>4 DEF Sound, Typed
<1>6. Placed(j, n, mutating) /\ Planned(j, n, e)
  BY <1>1, <1>3, <1>4 DEF Sound, Placed, Planned, CopyStep, UploadStep
<1>7. Truthful(j, n, e, delivered) /\ Aimed(j, n, delivered, dest.id) /\ Full(n, s)
  BY <1>1, <1>3, <1>4 DEF Sound, Truthful, Aimed, Full
<1>8. ASSUME j \notin delivered \cup discarded PROVE Kept(n, e, s, v)
  <2>1. Kept(r, disk[j], s, v)
    BY <1>1, <1>8 DEF Sound
  <2>2. s[1] # Nil
    BY <1>1, <2>1 DEF Kept, UploadStep
  <2>3. s[1] \in Chunks
    BY <1>1, <2>2, TransferAssumption DEF Sound, Typed, Name
  <2>4. Covers(s[1], new)
    BY <1>1, <2>1, <2>2, <2>3, AckedContent DEF Kept, new
  <2> QED BY <1>3, <1>4, <2>1, <2>2, <2>4 DEF Kept
<1>9. Sound(j, n, e, s, v, delivered, discarded, mutating, dest.id)
  BY <1>1, <1>5, <1>6, <1>7, <1>8 DEF Sound
<1>10. disk'[j] = e
  BY SaveWrites DEF e
<1> QED BY <1>9, <1>10, Moves DEF files, Shapes

LEMMA RunAcksSound ==
    ASSUME Shapes, JobsSound, NEW j \in Job, RunAcks(j)
    PROVE  JobsSound' /\ Shapes'
<1> DEFINE r == job[j]
           ck == [r.ck EXCEPT !.prefix = Append(@, r.chunk)]
           n == [r EXCEPT !.ck = ck, !.step = "copying", !.chunk = 0]
<1>1. /\ r \in RunType /\ r.ck \in CheckpointType /\ r.step = "written"
      /\ r.chunk \in Version /\ Len(r.ck.prefix) < Size /\ r.ck.prefix \in Chunks
  BY Unmoved DEF RunAcks, Sound, Typed, CheckpointType
<1>2. ck \in CheckpointType
  BY <1>1, AckedContent DEF CheckpointType
<1>3. job' = With(j, n) /\ Save(With(j, n), j) /\ UNCHANGED <<files, source, mutating, caller>>
  <2>1. [r EXCEPT !.ck.prefix = Append(@, r.chunk), !.step = "copying", !.chunk = 0] = n
    BY <1>1 DEF RunType
  <2> QED BY <2>1 DEF RunAcks, outside
<1> HIDE DEF ck
<1>4. n \in RunType /\ n.ck = ck /\ n.step = "copying" /\ n.handle = r.handle /\ (n.busy <=> r.busy) /\ n.owes = r.owes
  BY <1>1, <1>2 DEF RunType, CopyStep
<1> HIDE DEF n
<1> QED BY <1>1, <1>3, <1>4, AckSound DEF ck

LEMMA ChunkAcksSound ==
    ASSUME Shapes, JobsSound, NEW j \in Job, ChunkAcks(j)
    PROVE  JobsSound' /\ Shapes'
<1> DEFINE r == job[j]
           ck == [r.ck EXCEPT !.prefix = Append(@, source[j])]
           n == [r EXCEPT !.ck = ck, !.step = "open", !.sent = r.sent + 1]
<1>1. /\ r \in RunType /\ r.ck \in CheckpointType /\ r.step = "writing"
      /\ source[j] \in Version /\ Len(r.ck.prefix) < Size /\ r.ck.prefix \in Chunks
      /\ r.sent \in 0..Size /\ r.sent < Size
  BY Unmoved DEF ChunkAcks, Sound, Typed, CheckpointType, RunType
<1>2. ck \in CheckpointType /\ r.sent + 1 \in 0..Size
  <2>1. ck \in CheckpointType
    BY <1>1, AckedContent DEF CheckpointType
  <2>2. r.sent + 1 \in 0..Size
    BY <1>1, TransferAssumption
  <2> QED BY <2>1, <2>2
<1>3. job' = With(j, n) /\ Save(With(j, n), j) /\ UNCHANGED <<files, source, mutating, caller>>
  <2>1. [r EXCEPT !.ck.prefix = Append(@, source[j]), !.step = "open", !.sent = @ + 1] = n
    BY <1>1 DEF RunType
  <2> QED BY <2>1 DEF ChunkAcks, outside
<1> HIDE DEF ck
<1>4. n \in RunType /\ n.ck = ck /\ n.step = "open" /\ n.handle = r.handle /\ (n.busy <=> r.busy) /\ n.owes = r.owes
  BY <1>1, <1>2 DEF RunType, UploadStep
<1> HIDE DEF n
<1> QED BY <1>1, <1>3, <1>4, AckSound DEF ck

LEMMA ChunkWritesSound ==
    ASSUME Shapes, JobsSound, NEW j \in Job, ChunkWrites(j)
    PROVE  JobsSound' /\ Shapes'
<1> DEFINE r == job[j]
           v == source[j]
           n == [r EXCEPT !.step = "writing"]
<1>1. /\ r \in RunType /\ r.ck \in CheckpointType /\ r.step = "open" /\ v \in Version
      /\ Sound(j, r, disk[j], stage[j], v, delivered, discarded, mutating, dest.id)
      /\ Len(r.ck.prefix) < Size /\ r.sent < Size
  BY Unmoved DEF ChunkWrites, Sound, Typed
<1>2. /\ n \in RunType /\ n.ck = r.ck /\ n.step = "writing" /\ n.handle = r.handle /\ (n.busy <=> r.busy) /\ n.owes = r.owes
      /\ n.sent = r.sent
  BY <1>1 DEF RunType, UploadStep
<1>3. /\ UNCHANGED <<disk, dest, delivered, discarded, source, mutating, caller>>
      /\ WriteAt(j) /\ job' = With(j, n)
  BY DEF ChunkWrites, outside
<1> HIDE DEF n
<1>4. /\ stage'[j] \in [Name -> {Nil} \cup Chunks] /\ stage' = [stage EXCEPT ![j] = stage'[j]]
      /\ Kept(r, disk[j], stage[j], v) /\ stage[j][1] # Nil
                => /\ stage'[j][1] # Nil /\ Covers(stage'[j][1], r.ck.prefix)
                   /\ Between(stage'[j][1], r.ck.version, v)
                   /\ Len(r.ck.prefix) < Len(stage'[j][1])
                   /\ stage'[j][1][Len(r.ck.prefix) + 1] = v
  BY <1>1, <1>3, WriteAtSound
<1>5. Typed(n, disk[j], stage'[j], v)
  BY <1>1, <1>2, <1>4 DEF Sound, Typed
<1>6. Placed(j, n, mutating) /\ Planned(j, n, disk[j])
  BY <1>1, <1>2 DEF Sound, Placed, Planned, CopyStep, UploadStep
<1>7. Truthful(j, n, disk[j], delivered) /\ Aimed(j, n, delivered, dest.id) /\ Full(n, stage'[j])
  BY <1>1, <1>2 DEF Sound, Truthful, Aimed, Full
<1>8. ASSUME j \notin delivered \cup discarded PROVE Kept(n, disk[j], stage'[j], v)
  BY <1>1, <1>2, <1>4, <1>8 DEF Sound, Kept, UploadStep
<1>9. Sound(j, n, disk[j], stage'[j], v, delivered, discarded, mutating, dest.id)
  BY <1>1, <1>5, <1>6, <1>7, <1>8 DEF Sound
<1> QED BY <1>3, <1>4, <1>9, Moves DEF Shapes

LEMMA FinishSound ==
    ASSUME Shapes, JobsSound, NEW j \in Job, Finish(j)
    PROVE  JobsSound' /\ Shapes'
<1> DEFINE r == job[j]
           n == [r EXCEPT !.step = "closing"]
<1>1. /\ r \in RunType /\ r.ck \in CheckpointType /\ r.step = "open"
      /\ Sound(j, r, disk[j], stage[j], source[j], delivered, discarded, mutating, dest.id)
  BY Unmoved DEF Finish
<1>2. /\ n \in RunType /\ n.ck = r.ck /\ n.step = "closing" /\ n.handle = r.handle /\ (n.busy <=> r.busy) /\ n.owes = r.owes
  BY <1>1 DEF RunType, FinishStep
<1>3. job' = With(j, n) /\ UNCHANGED <<disk, files, source, mutating, caller>>
  BY DEF Finish, outside
<1> HIDE DEF n
<1>4. Typed(n, disk[j], stage[j], source[j])
  BY <1>1, <1>2 DEF Sound, Typed
<1>5. Placed(j, n, mutating) /\ Planned(j, n, disk[j])
  BY <1>1, <1>2 DEF Sound, Placed, Planned, CopyStep, UploadStep
<1>6. Truthful(j, n, disk[j], delivered) /\ Aimed(j, n, delivered, dest.id) /\ Full(n, stage[j])
  BY <1>1, <1>2 DEF Sound, Truthful, Aimed, Full
<1>7. ASSUME j \notin delivered \cup discarded PROVE Kept(n, disk[j], stage[j], source[j])
  BY <1>1, <1>2, <1>7 DEF Sound, Kept, UploadStep
<1>8. Sound(j, n, disk[j], stage[j], source[j], delivered, discarded, mutating, dest.id)
  BY <1>1, <1>4, <1>5, <1>6, <1>7 DEF Sound
<1> QED BY <1>3, <1>8, Moves DEF files, Shapes

LEMMA RunLocksSound ==
    ASSUME Shapes, JobsSound, NEW j \in Job, RunLocks(j)
    PROVE  JobsSound' /\ Shapes'
<1> DEFINE r == job[j]
           n == [r EXCEPT !.step = "renaming"]
<1>1. /\ r \in RunType /\ r.ck \in CheckpointType /\ r.step = "committing"
      /\ Sound(j, r, disk[j], stage[j], source[j], delivered, discarded, mutating, dest.id)
  BY Unmoved DEF RunLocks
<1>2. /\ n \in RunType /\ n.ck = r.ck /\ n.step = "renaming" /\ n.handle = r.handle /\ (n.busy <=> r.busy) /\ n.owes = r.owes
  BY <1>1 DEF RunType, FinishStep
<1>3. /\ job' = With(j, n) /\ UNCHANGED <<disk, stage, dest, delivered, discarded, source, caller>>
      /\ mutating = Nil /\ mutating' = j /\ dest.id = r.ck.target
  BY DEF RunLocks, outside, files
<1> HIDE DEF n
<1>4. Typed(n, disk[j], stage[j], source[j])
  BY <1>1, <1>2 DEF Sound, Typed
<1>5. Placed(j, n, mutating') /\ Planned(j, n, disk[j])
  BY <1>1, <1>2, <1>3 DEF Sound, Placed, Planned, CopyStep, UploadStep
<1>6. Truthful(j, n, disk[j], delivered) /\ Aimed(j, n, delivered, dest.id) /\ Full(n, stage[j])
  BY <1>1, <1>2, <1>3 DEF Sound, Truthful, Aimed, Full
<1>7. ASSUME j \notin delivered \cup discarded PROVE Kept(n, disk[j], stage[j], source[j])
  BY <1>1, <1>2, <1>7 DEF Sound, Kept, UploadStep
<1>8. Sound(j, n, disk[j], stage[j], source[j], delivered, discarded, mutating', dest.id)
  BY <1>1, <1>4, <1>5, <1>6, <1>7 DEF Sound
<1>9. Elsewhere(j) /\ dest'.id \in Nat
  BY <1>3, TransferAssumption DEF Elsewhere, Shapes, Job
<1>10. JobsSound' /\ job' = [k \in Job |-> job'[k]]
  BY <1>3, <1>8, <1>9, JobMoves
<1> QED BY <1>3, <1>10 DEF Shapes

(* The staging file becomes the destination. *)
LEMMA RunRenamesSound ==
    ASSUME Shapes, JobsSound, NEW j \in Job, RunRenames(j)
    PROVE  JobsSound' /\ Shapes'
<1> DEFINE r == job[j]
           s == stage[j]
           n == [r EXCEPT !.step = "renamed"]
           id == dest.id + 1
           del == delivered \cup {j}
<1>1. /\ r \in RunType /\ r.ck \in CheckpointType /\ r.step = "renaming"
      /\ Sound(j, r, disk[j], s, source[j], delivered, discarded, mutating, dest.id)
      /\ r.ck.name \in Name /\ s \in [Name -> {Nil} \cup Chunks] /\ mutating = j
  BY Unmoved DEF RunRenames, Sound, Typed, CheckpointType, Placed
<1>2. /\ n \in RunType /\ n.ck = r.ck /\ n.step = "renamed" /\ n.handle = r.handle /\ (n.busy <=> r.busy) /\ n.owes = r.owes
  BY <1>1 DEF RunType, FinishStep
<1>3. /\ job' = With(j, n) /\ UNCHANGED <<disk, discarded, source, mutating, caller>>
      /\ PutStage(j, r.ck.name, Nil) /\ delivered' = del
      /\ s[r.ck.name] # Nil /\ dest' = [id |-> id, chunks |-> s[r.ck.name]]
  BY DEF RunRenames, outside, Staged
<1> HIDE DEF n
<1>4. /\ stage'[j] = [s EXCEPT ![r.ck.name] = Nil] /\ stage' = [stage EXCEPT ![j] = stage'[j]]
      /\ stage'[j] \in [Name -> {Nil} \cup Chunks]
  BY <1>1, <1>3, PutWrites
<1>5. /\ dest.id \in Nat /\ dest' \in [id : Nat, chunks : Chunks] /\ dest'.id = id
  BY <1>1, <1>3 DEF Shapes
<1>6. Typed(n, disk[j], stage'[j], source[j])
  BY <1>1, <1>2, <1>4 DEF Sound, Typed
<1>7. Placed(j, n, mutating) /\ Planned(j, n, disk[j])
  BY <1>1, <1>2 DEF Sound, Placed, Planned, CopyStep, UploadStep
<1>8. Truthful(j, n, disk[j], del) /\ Full(n, stage'[j])
  BY <1>1, <1>2 DEF Sound, Truthful, Full
<1>9. Aimed(j, n, del, id)
  <2>1. r.ck.target \in Nat /\ r.ck.target <= dest.id /\ r.ck.plan = "made"
    BY <1>1 DEF Sound, Aimed, Planned, CheckpointType
  <2>2. r.ck.target < id
    BY <1>5, <2>1
  <2> QED BY <1>2, <1>5, <2>1, <2>2 DEF Aimed
<1>10. Sound(j, n, disk[j], stage'[j], source[j], del, discarded, mutating, id)
  BY <1>1, <1>6, <1>7, <1>8, <1>9 DEF Sound
<1>11. Elsewhere(j) /\ dest'.id \in Nat
  BY <1>1, <1>3, <1>4, <1>5 DEF Elsewhere, Shapes
<1>12. JobsSound' /\ job' = [k \in Job |-> job'[k]]
  BY <1>3, <1>5, <1>10, <1>11, JobMoves
<1> QED BY <1>3, <1>4, <1>5, <1>12 DEF Shapes

LEMMA RunCommitsSound ==
    ASSUME Shapes, JobsSound, NEW j \in Job, RunCommits(j)
    PROVE  JobsSound' /\ Shapes'
<1> DEFINE r == job[j]
           ck == [r.ck EXCEPT !.complete = TRUE, !.status = IF j \in Copy THEN r.ck.status ELSE "completed"]
           n == [r EXCEPT !.ck = ck, !.step = IF j \in Copy THEN "completing" ELSE "ending"]
           e == Restored(n.ck)
<1>1. /\ r \in RunType /\ r.ck \in CheckpointType /\ r.step = "renamed"
      /\ Sound(j, r, disk[j], stage[j], source[j], delivered, discarded, mutating, dest.id)
      /\ j \in Copy \/ j \in Upload
  BY Unmoved DEF RunCommits, Job
<1>2. /\ ck \in CheckpointType /\ ck.complete
      /\ ck.status = IF j \in Copy THEN r.ck.status ELSE "completed"
      /\ ck.plan = r.ck.plan /\ ck.conflict = r.ck.conflict /\ ck.target = r.ck.target
      /\ ck.version = r.ck.version /\ ck.prefix = r.ck.prefix /\ ck.name = r.ck.name
  BY <1>1 DEF CheckpointType, Status, Finished
<1>3. /\ job' = With(j, n) /\ Save(With(j, n), j) /\ mutating' = Nil
      /\ UNCHANGED <<stage, dest, delivered, discarded, source, caller>>
  <2> DEFINE done == [r EXCEPT !.ck.complete = TRUE]
             m == IF j \in Copy THEN [done EXCEPT !.step = "completing"]
                  ELSE [done EXCEPT !.ck.status = "completed", !.step = "ending"]
  <2>1. job' = With(j, m) /\ Save(With(j, m), j)
    BY DEF RunCommits
  <2>2. ASSUME j \in Copy PROVE m = n
    <3>1. ck = [r.ck EXCEPT !.complete = TRUE]
      BY <1>1, <2>2 DEF CheckpointType
    <3> QED BY <1>1, <2>2, <3>1 DEF RunType
  <2>3. ASSUME j \notin Copy PROVE m = n
    <3>1. ck = [[r.ck EXCEPT !.complete = TRUE] EXCEPT !.status = "completed"]
      BY <1>1, <2>3 DEF CheckpointType
    <3> QED BY <1>1, <2>3, <3>1 DEF RunType
  <2> QED BY <2>1, <2>2, <2>3 DEF RunCommits, outside, files
<1> HIDE DEF ck
<1>4. /\ n \in RunType /\ n.ck = ck /\ n.handle = r.handle /\ (n.busy <=> r.busy) /\ n.owes = r.owes
      /\ n.step = IF j \in Copy THEN "completing" ELSE "ending"
  BY <1>1, <1>2 DEF RunType, FinishStep, CopyStep
<1> HIDE DEF n
<1>5. /\ e \in CheckpointType /\ (e.status = "none" <=> ck.status = "none") /\ e.status # "queued"
      /\ e.status = "completed" <=> ck.status = "completed"
      /\ e.plan = ck.plan /\ e.conflict = ck.conflict /\ e.target = ck.target
      /\ e.version = ck.version /\ e.complete = ck.complete /\ e.name = ck.name
      /\ e.prefix = ck.prefix
  BY <1>2, <1>4, RestoredAs
<1> HIDE DEF e
<1>6. Typed(n, e, stage[j], source[j])
  BY <1>1, <1>4, <1>5 DEF Sound, Typed
<1>7. Placed(j, n, Nil)
  BY <1>1, <1>2, <1>4, TransferAssumption DEF Sound, Placed, CopyStep, UploadStep, Job
<1>8. Planned(j, n, e)
  BY <1>1, <1>2, <1>4, <1>5 DEF Sound, Planned
<1>9. Truthful(j, n, e, delivered) /\ Aimed(j, n, delivered, dest.id) /\ Full(n, stage[j])
  BY <1>1, <1>2, <1>4, <1>5 DEF Sound, Truthful, Aimed, Full
<1>10. j \in delivered
  BY <1>1 DEF Sound, Truthful
<1>11. Sound(j, n, e, stage[j], source[j], delivered, discarded, Nil, dest.id)
  BY <1>1, <1>6, <1>7, <1>8, <1>9, <1>10 DEF Sound
<1>12. /\ disk'[j] = e /\ disk' = [k \in Job |-> disk'[k]] /\ \A k \in Job \ {j} : disk'[k] = disk[k]
  BY <1>3, SaveWrites DEF e
<1>13. mutating = j
  BY <1>1 DEF Sound, Placed
<1>14. Elsewhere(j) /\ dest'.id \in Nat
  BY <1>3, <1>12, <1>13, TransferAssumption DEF Elsewhere, Shapes, Job
<1>15. JobsSound' /\ job' = [k \in Job |-> job'[k]]
  BY <1>3, <1>11, <1>12, <1>14, JobMoves
<1> QED BY <1>3, <1>12, <1>15 DEF Shapes

(* A job begins: it has been nowhere yet. *)
LEMMA BeginsSound ==
    ASSUME Shapes, JobsSound, NEW j \in Job, NEW ck \in CheckpointType,
           status(j) = "none", ck.status = "queued", ~ck.conflict, ~ck.complete,
           ck.prefix = <<>>, ck.name = 1,
           \/ j \in Copy /\ ck.plan # "made" /\ ck.version = 0 /\ ck.target = 0
           \/ j \in Upload /\ ck.plan = "made" /\ ck.version = 1 /\ ck.target = dest.id,
           job' = With(j, [job[j] EXCEPT !.ck = ck]), Save(With(j, [job[j] EXCEPT !.ck = ck]), j),
           UNCHANGED <<files, source, mutating>>, caller' = [x \in Caller |-> caller'[x]]
    PROVE  JobsSound' /\ Shapes'
<1> DEFINE r == job[j]
           n == [r EXCEPT !.ck = ck]
           e == Restored(n.ck)
<1>1. /\ r \in RunType /\ r.ck \in CheckpointType /\ r.ck.status = "none" /\ r.step = "none" /\ r.ck.plan # "made"
      /\ Sound(j, r, disk[j], stage[j], source[j], delivered, discarded, mutating, dest.id)
      /\ dest.id \in Nat /\ j \notin delivered /\ source[j] \in Version
  BY Unmoved DEF status, Shapes, Sound, Planned, Aimed, Typed
<1>2. n \in RunType /\ n.ck = ck /\ n.step = "none" /\ n.handle = r.handle /\ (n.busy <=> r.busy) /\ n.owes = r.owes
  BY <1>1 DEF RunType
<1> HIDE DEF n
<1>3. /\ e \in CheckpointType /\ e.status \notin {"none", "queued", "completed"}
      /\ e.plan = ck.plan /\ e.conflict = ck.conflict /\ e.target = ck.target
      /\ e.version = ck.version /\ e.complete = ck.complete /\ e.name = ck.name
      /\ e.prefix = ck.prefix
  BY <1>2, RestoredAs
<1> HIDE DEF e
<1>4. Typed(n, e, stage[j], source[j])
  BY <1>1, <1>2, <1>3 DEF Sound, Typed
<1>5. Placed(j, n, mutating) /\ Planned(j, n, e)
  BY <1>1, <1>2, <1>3, TransferAssumption DEF Sound, Placed, Planned, CopyStep, UploadStep
<1>6. Truthful(j, n, e, delivered) /\ Aimed(j, n, delivered, dest.id) /\ Full(n, stage[j])
  BY <1>1, <1>2, <1>3 DEF Sound, Truthful, Aimed, Full
<1>7. ASSUME j \notin delivered \cup discarded PROVE Kept(n, e, stage[j], source[j])
  <2>1. ck.version <= source[j]
    BY <1>1 DEF Version
  <2> QED BY <1>1, <1>2, <1>3, <1>7, <2>1 DEF Sound, Kept, UploadStep
<1>8. Sound(j, n, e, stage[j], source[j], delivered, discarded, mutating, dest.id)
  BY <1>1, <1>4, <1>5, <1>6, <1>7 DEF Sound
<1>9. disk'[j] = e
  BY SaveWrites DEF e, n
<1> QED BY <1>8, <1>9, Moves DEF files, Shapes, n

LEMMA FreshAs ==
    ASSUME NEW plan \in {"ask", "overwrite", "skip", "made"}
    PROVE  /\ Fresh(plan) \in CheckpointType /\ Fresh(plan).status = "queued" /\ Fresh(plan).plan = plan
           /\ ~Fresh(plan).conflict /\ ~Fresh(plan).complete /\ Fresh(plan).prefix = <<>>
           /\ Fresh(plan).name = 1 /\ Fresh(plan).version = 0 /\ Fresh(plan).target = 0
<1>1. 1 \in Name /\ <<>> \in Chunks
  BY EmptyContent, TransferAssumption DEF Name
<1> QED BY <1>1 DEF Fresh, NoCheckpoint, CheckpointType, Status, Active

LEMMA CopyBeginsSound ==
    ASSUME Shapes, JobsSound, NEW x \in Caller, NEW j \in Copy, CopyBegins(x, j)
    PROVE  JobsSound' /\ Shapes'
<1>1. PICK plan \in {"ask", "overwrite", "skip"} :
        /\ job' = With(j, [job[j] EXCEPT !.ck = Fresh(plan)])
        /\ Save(With(j, [job[j] EXCEPT !.ck = Fresh(plan)]), j)
  BY DEF CopyBegins
<1>2. /\ status(j) = "none" /\ UNCHANGED <<files, source, mutating>>
      /\ caller' = [y \in Caller |-> caller'[y]] /\ j \in Job
  BY DEF CopyBegins, Call, Shapes, outside, Job
<1> QED BY <1>1, <1>2, FreshAs, BeginsSound

LEMMA UploadBeginsSound ==
    ASSUME Shapes, JobsSound, NEW x \in Caller, NEW j \in Upload, UploadBegins(x, j)
    PROVE  JobsSound' /\ Shapes'
<1> DEFINE ck == [Fresh("made") EXCEPT !.target = dest.id, !.version = 1]
<1>1. /\ job' = With(j, [job[j] EXCEPT !.ck = ck]) /\ Save(With(j, [job[j] EXCEPT !.ck = ck]), j)
      /\ status(j) = "none" /\ UNCHANGED <<files, source, mutating>>
      /\ caller' = [y \in Caller |-> caller'[y]] /\ j \in Job
  BY DEF UploadBegins, Call, Shapes, outside, Job
<1>2. dest.id \in Nat /\ 1 \in Version
  BY TransferAssumption DEF Shapes, Version
<1>3. Fresh("made") \in CheckpointType
  BY FreshAs
<1>4. /\ ck \in CheckpointType /\ ck.status = "queued" /\ ck.plan = "made" /\ ~ck.conflict /\ ~ck.complete
      /\ ck.prefix = <<>> /\ ck.name = 1 /\ ck.version = 1 /\ ck.target = dest.id
  BY <1>2, <1>3, FreshAs DEF CheckpointType
<1> HIDE DEF ck
<1> QED BY <1>1, <1>4, BeginsSound

(* The answer to a conflict, taken in memory first. *)
LEMMA ResolveSound ==
    ASSUME Shapes, JobsSound, NEW x \in Caller, NEW j \in Copy, Resolve(x, j)
    PROVE  JobsSound' /\ Shapes'
<1>1. PICK plan \in {"overwrite", "skip"} :
        LET n == [job[j] EXCEPT !.ck.plan = plan, !.ck.conflict = FALSE]
        IN  \/ job' = With(j, Requeued(n)) /\ Save(With(j, Requeued(n)), j) /\ Call(x, Nil, j, "saving")
            \/ job' = With(j, n) /\ UNCHANGED <<disk, caller>>
  BY DEF Resolve
<1> DEFINE r == job[j]
           ck == [r.ck EXCEPT !.plan = plan, !.conflict = FALSE]
           n == [r EXCEPT !.ck = ck]
           m == Requeued(n)
<1>2. /\ r \in RunType /\ r.ck \in CheckpointType /\ j \in Job
      /\ Sound(j, r, disk[j], stage[j], source[j], delivered, discarded, mutating, dest.id)
      /\ r.ck.conflict /\ r.ck.status # "none" /\ r.ck.plan # "made" /\ (r.busy <=> r.step # "none")
      /\ UNCHANGED <<files, source, mutating>>
  BY Unmoved DEF Resolve, status, outside, Sound, Planned, Placed, Job
<1>3. /\ ck \in CheckpointType /\ ~ck.conflict /\ ck.plan = plan /\ ck.status = r.ck.status
      /\ ck.target = r.ck.target /\ ck.version = r.ck.version /\ ck.prefix = r.ck.prefix
      /\ ck.complete = r.ck.complete /\ ck.name = r.ck.name
  BY <1>2 DEF CheckpointType
<1>4. /\ \/ job' = With(j, m) /\ Save(With(j, m), j)
         \/ job' = With(j, n) /\ UNCHANGED disk
      /\ caller' = [y \in Caller |-> caller'[y]]
  <2>1. [r EXCEPT !.ck.plan = plan, !.ck.conflict = FALSE] = n
    BY <1>2 DEF RunType
  <2> QED BY <1>1, <2>1 DEF Call, Shapes
<1> HIDE DEF ck
<1>5. /\ n \in RunType /\ n.ck = ck /\ n.step = r.step /\ n.handle = r.handle /\ (n.busy <=> r.busy) /\ n.owes = r.owes
      /\ n.chunk = r.chunk /\ n.sent = r.sent
  BY <1>2, <1>3 DEF RunType
<1> HIDE DEF n
<1>6. Sound(j, n, disk[j], stage[j], source[j], delivered, discarded, mutating, dest.id)
  <2>1. Typed(n, disk[j], stage[j], source[j])
    BY <1>2, <1>3, <1>5 DEF Sound, Typed
  <2>2. Placed(j, n, mutating) /\ Planned(j, n, disk[j])
    BY <1>2, <1>3, <1>5, TransferAssumption DEF Sound, Placed, Planned, CopyStep, UploadStep
  <2>3. Truthful(j, n, disk[j], delivered) /\ Aimed(j, n, delivered, dest.id) /\ Full(n, stage[j])
    BY <1>2, <1>3, <1>5 DEF Sound, Truthful, Aimed, Full
  <2>4. ASSUME j \notin delivered \cup discarded PROVE Kept(n, disk[j], stage[j], source[j])
    BY <1>2, <1>3, <1>5, <2>4 DEF Sound, Kept
  <2> QED BY <1>2, <2>1, <2>2, <2>3, <2>4 DEF Sound
<1>7. Quiet(j, m, n) /\ m.step = n.step
  <2>1. n.busy <=> n.step # "none"
    BY <1>2, <1>5
  <2> QED BY <1>2, <1>3, <1>5, <2>1, RequeuedQuiet
<1> HIDE DEF m
<1>8. CASE job' = With(j, n) /\ UNCHANGED disk
  BY <1>2, <1>4, <1>6, <1>8, Moves DEF files, Shapes
<1>9. CASE job' = With(j, m) /\ Save(With(j, m), j)
  <2>1. disk'[j] = Restored(m.ck)
    BY <1>2, <1>9, SaveWrites
  <2>2. mutating = j <=> m.step \in {"renaming", "renamed"}
    BY <1>6, <1>7 DEF Sound, Placed
  <2>3. Sound(j, m, Restored(m.ck), stage[j], source[j], delivered, discarded, mutating, dest.id)
    BY <1>6, <1>7, <2>2, QuietSound
  <2> QED BY <1>2, <1>4, <1>9, <2>1, <2>3, Moves DEF files, Shapes
<1> QED BY <1>4, <1>8, <1>9

(* A cleanup takes the staging file, if it can: the job is discarded.      *)
LEMMA RemovedSound ==
    ASSUME Shapes, JobsSound, NEW j \in Job, Removed(j)
    PROVE  /\ discarded' = discarded \cup {j}
           /\ UNCHANGED stage \/ stage' = [stage EXCEPT ![j] = stage'[j]]
           /\ stage'[j] \in [Name -> {Nil} \cup Chunks]
           /\ \A i \in Name : stage'[j][i] = Nil \/ stage'[j][i] = stage[j][i]
           /\ Sound(j, job[j], disk[j], stage'[j], source[j], delivered, discarded', mutating, dest.id)
<1> DEFINE r == job[j]
           s == stage[j]
           t == stage'[j]
<1>1. /\ Sound(j, r, disk[j], s, source[j], delivered, discarded, mutating, dest.id)
      /\ r.ck.name \in Name /\ s \in [Name -> {Nil} \cup Chunks]
  BY Unmoved DEF Sound, Typed, CheckpointType
<1>2. /\ discarded' = discarded \cup {j}
      /\ \/ UNCHANGED stage
         \/ /\ stage' = [stage EXCEPT ![j] = t]
            /\ t = [s EXCEPT ![r.ck.name] = Nil]
  <2>1. PutStage(j, r.ck.name, Nil) \/ UNCHANGED stage
    BY DEF Removed
  <2>2. ASSUME PutStage(j, r.ck.name, Nil)
        PROVE  stage' = [stage EXCEPT ![j] = t] /\ t = [s EXCEPT ![r.ck.name] = Nil]
    <3>1. stage' = [stage EXCEPT ![j] = [s EXCEPT ![r.ck.name] = Nil]]
      BY <2>2 DEF PutStage, Shapes
    <3> QED BY <3>1 DEF Shapes
  <2> QED BY <2>1, <2>2 DEF Removed
<1>3. t \in [Name -> {Nil} \cup Chunks] /\ \A i \in Name : t[i] = Nil \/ t[i] = s[i]
  BY <1>1, <1>2
<1>4. Typed(r, disk[j], t, source[j]) /\ Full(r, t)
  BY <1>1, <1>3 DEF Sound, Typed, Full
<1>5. Sound(j, r, disk[j], t, source[j], delivered, discarded', mutating, dest.id)
  BY <1>1, <1>2, <1>4 DEF Sound
<1> QED BY <1>2, <1>3, <1>5

LEMMA CleansSound ==
    ASSUME Shapes, JobsSound, NEW x \in Caller, caller[x].job \in Job, Cleans(x)
    PROVE  JobsSound' /\ Shapes'
<1> DEFINE j == caller[x].job
<1>1. /\ Removed(j) /\ UNCHANGED <<disk, dest, delivered, source, mutating>>
      /\ job' = With(j, job[j]) \/ \E act : Schedule(With(j, job[j]), act)
      /\ caller' = [y \in Caller |-> caller'[y]]
  BY Unmoved DEF Cleans, Return, Shapes, outside
<1> QED BY <1>1, RemovedSound, Moves

(* A discarded job starts over: its prefix is empty, under another name or *)
(* the same.                                                               *)
LEMMA StartsOver ==
    ASSUME Shapes, JobsSound, NEW j \in Job, Removed(j), NEW ck \in CheckpointType,
           ck.prefix = <<>>, ck.status = job[j].ck.status, ck.plan = job[j].ck.plan,
           ck.conflict = job[j].ck.conflict, ck.target = job[j].ck.target, ck.version = job[j].ck.version,
           ck.name = job[j].ck.name \/ stage'[j][ck.name] = Nil,
           ck.complete => job[j].ck.complete, job[j].step = "completing" => ck.complete,
           job' = With(j, [job[j] EXCEPT !.ck = ck]),
           UNCHANGED <<disk, dest, delivered, source, mutating>>, caller' = [x \in Caller |-> caller'[x]]
    PROVE  JobsSound' /\ Shapes'
<1> DEFINE r == job[j]
           n == [r EXCEPT !.ck = ck]
           t == stage'[j]
<1>1. /\ discarded' = discarded \cup {j}
      /\ UNCHANGED stage \/ stage' = [stage EXCEPT ![j] = t]
      /\ Sound(j, r, disk[j], t, source[j], delivered, discarded', mutating, dest.id)
  BY RemovedSound
<1>2. /\ n \in RunType /\ n.ck = ck /\ n.step = r.step /\ n.handle = r.handle /\ (n.busy <=> r.busy) /\ n.owes = r.owes
      /\ n.chunk = r.chunk /\ n.sent = r.sent
  BY Unmoved DEF RunType
<1> HIDE DEF n
<1>3. Len(ck.prefix) < Size
  BY EmptyContent, TransferAssumption
<1>4. Typed(n, disk[j], t, source[j])
  BY <1>1, <1>2, <1>3 DEF Sound, Typed
<1>5. Placed(j, n, mutating) /\ Planned(j, n, disk[j])
  BY <1>1, <1>2 DEF Sound, Placed, Planned
<1>6. Truthful(j, n, disk[j], delivered) /\ Aimed(j, n, delivered, dest.id) /\ Full(n, t)
  BY <1>1, <1>2 DEF Sound, Truthful, Aimed, Full
<1>7. Sound(j, n, disk[j], t, source[j], delivered, discarded', mutating, dest.id)
  BY <1>1, <1>4, <1>5, <1>6 DEF Sound
<1> QED BY <1>1, <1>7, Moves DEF n

LEMMA RestartCleansSound ==
    ASSUME Shapes, JobsSound, NEW x \in Caller, caller[x].job \in Job, RestartCleans(x)
    PROVE  JobsSound' /\ Shapes'
<1> DEFINE j == caller[x].job
           r == job[j]
<1>1. /\ Removed(j) /\ UNCHANGED <<disk, dest, delivered, source, mutating>>
      /\ caller' = [y \in Caller |-> caller'[y]]
      /\ r \in RunType /\ r.ck \in CheckpointType
      /\ Sound(j, r, disk[j], stage[j], source[j], delivered, discarded, mutating, dest.id)
  BY Unmoved DEF RestartCleans, Goes, Call, Shapes, outside
<1>2. CASE r.ck.complete
  <2>1. job' = With(j, r)
    BY <1>2, Unmoved DEF RestartCleans
  <2> QED BY <1>1, <2>1, RemovedSound, Moves
<1>3. CASE ~r.ck.complete
  <2>1. PICK i \in FreshNames(j) : job' = With(j, [r EXCEPT !.ck.prefix = <<>>, !.ck.name = i])
    BY <1>3 DEF RestartCleans
  <2> DEFINE ck == [r.ck EXCEPT !.prefix = <<>>, !.name = i]
  <2>2. i \in Name /\ stage'[j][i] = Nil
    BY <1>1, RemovedSound DEF FreshNames
  <2>3. /\ ck \in CheckpointType /\ ck.prefix = <<>> /\ ck.name = i /\ ck.status = r.ck.status
        /\ ck.plan = r.ck.plan /\ ck.conflict = r.ck.conflict /\ ck.target = r.ck.target
        /\ ck.version = r.ck.version /\ (ck.complete <=> r.ck.complete)
    BY <1>1, <2>2, EmptyContent DEF CheckpointType
  <2>4. job' = With(j, [r EXCEPT !.ck = ck])
    <3>1. [r EXCEPT !.ck.prefix = <<>>, !.ck.name = i] = [r EXCEPT !.ck = ck]
      BY <1>1 DEF RunType
    <3> QED BY <2>1, <3>1
  <2>5. r.step = "completing" => ck.complete
    BY <1>1, <2>3 DEF Sound, Truthful
  <2> HIDE DEF ck
  <2> QED BY <1>1, <2>2, <2>3, <2>4, <2>5, StartsOver
<1> QED BY <1>2, <1>3

LEMMA ErasesSound ==
    ASSUME Shapes, JobsSound, NEW x \in Caller, caller[x].job \in Upload, Erases(x)
    PROVE  JobsSound' /\ Shapes'
<1> DEFINE j == caller[x].job
           r == job[j]
           ck == [r.ck EXCEPT !.prefix = <<>>, !.complete = FALSE]
<1>1. /\ Removed(j) /\ UNCHANGED <<disk, dest, delivered, source, mutating>>
      /\ caller' = [y \in Caller |-> caller'[y]]
      /\ j \in Job /\ r \in RunType /\ r.ck \in CheckpointType /\ r.step # "completing"
  BY Unmoved, TransferAssumption DEF Erases, Goes, Call, Shapes, outside, Job, Sound, Placed, CopyStep
<1>2. /\ ck \in CheckpointType /\ ck.prefix = <<>> /\ ck.name = r.ck.name /\ ck.status = r.ck.status
      /\ ck.plan = r.ck.plan /\ ck.conflict = r.ck.conflict /\ ck.target = r.ck.target
      /\ ck.version = r.ck.version /\ ~ck.complete
  BY <1>1, EmptyContent DEF CheckpointType
<1>3. job' = With(j, [r EXCEPT !.ck = ck])
  <2>1. [r EXCEPT !.ck.prefix = <<>>, !.ck.complete = FALSE] = [r EXCEPT !.ck = ck]
    BY <1>1 DEF RunType
  <2> QED BY <2>1 DEF Erases
<1> HIDE DEF ck
<1> QED BY <1>1, <1>2, <1>3, StartsOver

(* A restart queues the job for the source as it is now. *)
LEMMA RestartQueuesSound ==
    ASSUME Shapes, JobsSound, NEW x \in Caller, caller[x].job \in Copy,
           status(caller[x].job) # "none", job[caller[x].job].ck.plan = "made",
           caller[x].job \in discarded, RestartQueues(x)
    PROVE  JobsSound' /\ Shapes'
<1> DEFINE j == caller[x].job
           r == job[j]
           m == Requeued(r)
           w == IF r.ck.complete THEN m.ck.version ELSE source[j]
           ck == [m.ck EXCEPT !.version = w]
           n == [m EXCEPT !.ck = ck]
           e == Restored(n.ck)
<1>1. /\ r \in RunType /\ r.ck \in CheckpointType /\ j \in Job
      /\ Sound(j, r, disk[j], stage[j], source[j], delivered, discarded, mutating, dest.id)
      /\ ~r.ck.conflict /\ r.ck.status # "none" /\ (r.busy <=> r.step # "none")
      /\ j \notin Upload
  BY Unmoved, TransferAssumption DEF status, Sound, Planned, Placed, Job
<1>2. Quiet(j, m, r) /\ m.step = r.step /\ m.ck.status = "queued"
  BY <1>1, RequeuedQuiet
<1> HIDE DEF m
<1>3. mutating = j <=> m.step \in {"renaming", "renamed"}
  BY <1>1, <1>2 DEF Sound, Placed
<1>4. Sound(j, m, Restored(m.ck), stage[j], source[j], delivered, discarded, mutating, dest.id)
  BY <1>1, <1>2, <1>3, QuietSound
<1>5. m \in RunType /\ m.ck \in CheckpointType /\ (m.ck.complete <=> r.ck.complete)
  BY <1>2 DEF Quiet, AsPlanned, RunType
<1>6. w \in {0} \cup Version
  BY <1>4, <1>5 DEF Sound, Typed, CheckpointType
<1>7. /\ ck \in CheckpointType /\ ck.version = w /\ ck.status = m.ck.status /\ ck.plan = m.ck.plan
      /\ ck.conflict = m.ck.conflict /\ ck.target = m.ck.target /\ ck.prefix = m.ck.prefix
      /\ ck.complete = m.ck.complete /\ ck.name = m.ck.name
  BY <1>5, <1>6 DEF CheckpointType
<1>8. /\ job' = With(j, n) /\ Save(With(j, n), j) /\ UNCHANGED <<files, source, mutating>>
      /\ caller' = [y \in Caller |-> caller'[y]]
  <2>1. [m EXCEPT !.ck.version = IF r.ck.complete THEN @ ELSE source[j]] = n
    BY <1>5 DEF RunType
  <2> QED BY <2>1 DEF RestartQueues, Goes, Call, Shapes, outside, m
<1> HIDE DEF ck
<1>9. /\ n \in RunType /\ n.ck = ck /\ n.step = m.step /\ n.handle = m.handle /\ (n.busy <=> m.busy) /\ n.owes = m.owes
      /\ n.chunk = m.chunk /\ n.sent = m.sent
  BY <1>5, <1>7 DEF RunType
<1> HIDE DEF n
<1>10. /\ e \in CheckpointType /\ e.status \notin {"none", "queued", "completed"}
       /\ e.plan = ck.plan /\ e.conflict = ck.conflict /\ e.target = ck.target
       /\ e.version = ck.version /\ e.complete = ck.complete
  BY <1>2, <1>7, <1>9, RestoredAs
<1> HIDE DEF e
<1>11. Typed(n, e, stage[j], source[j])
  BY <1>4, <1>7, <1>9, <1>10 DEF Sound, Typed
<1>12. Placed(j, n, mutating) /\ Planned(j, n, e)
  BY <1>1, <1>2, <1>4, <1>7, <1>9, <1>10 DEF Sound, Placed, Planned
<1>13. Truthful(j, n, e, delivered) /\ Aimed(j, n, delivered, dest.id) /\ Full(n, stage[j])
  BY <1>2, <1>4, <1>5, <1>7, <1>9, <1>10 DEF Sound, Truthful, Aimed, Full
<1>14. Sound(j, n, e, stage[j], source[j], delivered, discarded, mutating, dest.id)
  BY <1>1, <1>11, <1>12, <1>13 DEF Sound
<1>15. disk'[j] = e
  BY <1>1, <1>8, SaveWrites DEF e
<1> QED BY <1>1, <1>8, <1>14, <1>15, Moves DEF files, Shapes

LEMMA OpenSucceedsSound ==
    ASSUME Shapes, JobsSound, NEW x \in Caller, caller[x].job \in Upload,
           status(caller[x].job) # "none", ~job[caller[x].job].busy, OpenSucceeds(x)
    PROVE  JobsSound' /\ Shapes'
<1> DEFINE j == caller[x].job
           r == job[j]
           v == source[j]
           ck == [r.ck EXCEPT !.status = "transferring"]
           n == [r EXCEPT !.step = "opened", !.busy = TRUE, !.aborted = FALSE, !.handle = r.ck.name,
                          !.sent = Len(r.ck.prefix), !.ck = ck]
           e == Restored(n.ck)
<1>1. /\ r \in RunType /\ r.ck \in CheckpointType /\ j \in Job /\ r.step = "none"
      /\ Sound(j, r, disk[j], stage[j], v, delivered, discarded, mutating, dest.id)
      /\ r.ck.status # "none" /\ r.ck.plan = "made" /\ r.ck.name \in Name /\ r.ck.prefix \in Chunks
  BY Unmoved DEF status, Sound, Planned, Placed, Job, CheckpointType
<1>2. Len(r.ck.prefix) \in 0..Size
  BY <1>1, ChunksAre
<1>3. /\ ck \in CheckpointType /\ ck.status = "transferring" /\ AsPlanned(ck, r.ck)
  BY <1>1 DEF CheckpointType, AsPlanned, Status, Active
<1>4. /\ job' = With(j, n) /\ Save(With(j, n), j) /\ StageAsSaved(j) /\ Opened(j)
      /\ UNCHANGED <<dest, delivered, discarded, source, mutating>>
      /\ caller' = [y \in Caller |-> caller'[y]]
  <2>1. [r EXCEPT !.step = "opened", !.busy = TRUE, !.aborted = FALSE, !.handle = r.ck.name,
                  !.sent = Len(r.ck.prefix), !.ck.status = "transferring"] = n
    BY <1>1 DEF RunType
  <2> QED BY <2>1 DEF OpenSucceeds, Goes, Call, Shapes, outside
<1> HIDE DEF ck
<1>5. n \in RunType /\ n.ck = ck /\ n.step = "opened" /\ n.handle = r.ck.name /\ n.busy /\ n.owes = r.owes
  BY <1>1, <1>2, <1>3 DEF RunType, UploadStep
<1> HIDE DEF n
<1>6. /\ e \in CheckpointType /\ e.status \notin {"none", "queued", "completed"}
      /\ e.plan = ck.plan /\ e.conflict = ck.conflict /\ e.target = ck.target
      /\ e.version = ck.version /\ e.complete = ck.complete /\ e.name = ck.name
      /\ e.prefix = ck.prefix
  BY <1>3, <1>5, RestoredAs
<1> HIDE DEF e
<1>7. /\ stage'[j] \in [Name -> {Nil} \cup Chunks]
      /\ stage' = [stage EXCEPT ![j] = stage'[j]]
      /\ Kept(r, disk[j], stage[j], v) => /\ stage'[j][1] # Nil /\ Covers(stage'[j][1], r.ck.prefix)
                                          /\ Between(stage'[j][1], r.ck.version, v)
  BY <1>1, <1>4, OpenedSound
<1>8. Typed(n, e, stage'[j], v)
  BY <1>1, <1>5, <1>6, <1>7 DEF Sound, Typed
<1>9. Placed(j, n, mutating)
  BY <1>1, <1>3, <1>5, TransferAssumption DEF Sound, Placed, CopyStep, UploadStep
<1>10. Planned(j, n, e)
  BY <1>1, <1>3, <1>5, <1>6 DEF Sound, Planned, AsPlanned
<1>11. Truthful(j, n, e, delivered) /\ Aimed(j, n, delivered, dest.id) /\ Full(n, stage'[j])
  BY <1>1, <1>3, <1>5, <1>6 DEF Sound, Truthful, Aimed, Full, AsPlanned
<1>12. ASSUME j \notin delivered \cup discarded PROVE Kept(n, e, stage'[j], v)
  <2>1. Kept(r, disk[j], stage[j], v)
    BY <1>1, <1>12 DEF Sound
  <2> QED BY <1>1, <1>3, <1>5, <1>6, <1>7, <2>1 DEF Kept, UploadStep, AsPlanned
<1>13. Sound(j, n, e, stage'[j], v, delivered, discarded, mutating, dest.id)
  BY <1>1, <1>8, <1>9, <1>10, <1>11, <1>12 DEF Sound
<1>14. disk'[j] = e
  BY <1>1, <1>4, SaveWrites DEF e
<1> QED BY <1>1, <1>4, <1>7, <1>13, <1>14, Moves

(* The save of an opened channel returned: chunks may come. *)
LEMMA OpenReturnsSound ==
    ASSUME Shapes, JobsSound, NEW x \in Caller, caller[x].job \in Upload, OpenReturns(x)
    PROVE  JobsSound' /\ Shapes'
<1> DEFINE j == caller[x].job
           r == job[j]
           n == [r EXCEPT !.step = "open"]
<1>1. /\ r \in RunType /\ r.ck \in CheckpointType /\ j \in Job /\ r.owes # "run" /\ With(j, r) = job
      /\ Sound(j, r, disk[j], stage[j], source[j], delivered, discarded, mutating, dest.id)
  BY Unmoved DEF OpenReturns, Job
<1>2. /\ n \in RunType /\ n.ck = r.ck /\ n.step = "open" /\ n.handle = r.handle /\ (n.busy <=> r.busy)
      /\ n.owes = r.owes
  BY <1>1 DEF RunType, UploadStep
<1>3. /\ UNCHANGED <<disk, files, source, mutating>> /\ caller' = [y \in Caller |-> caller'[y]]
      /\ job' = job \/ (r.step = "opened" /\ job' = With(j, n))
  BY DEF OpenReturns, Return, Shapes, outside
<1> HIDE DEF n
<1>4. CASE job' = job
  BY <1>3, <1>4, StillSound
<1>5. ASSUME r.step = "opened", job' = With(j, n) PROVE JobsSound' /\ Shapes'
  <2>1. Typed(n, disk[j], stage[j], source[j])
    BY <1>1, <1>2 DEF Sound, Typed
  <2>2. Placed(j, n, mutating) /\ Planned(j, n, disk[j])
    BY <1>1, <1>2, <1>5 DEF Sound, Placed, Planned, CopyStep, UploadStep
  <2>3. Truthful(j, n, disk[j], delivered) /\ Aimed(j, n, delivered, dest.id) /\ Full(n, stage[j])
    BY <1>1, <1>2, <1>5 DEF Sound, Truthful, Aimed, Full
  <2>4. ASSUME j \notin delivered \cup discarded PROVE Kept(n, disk[j], stage[j], source[j])
    BY <1>1, <1>2, <1>5, <2>4 DEF Sound, Kept, UploadStep
  <2>5. Sound(j, n, disk[j], stage[j], source[j], delivered, discarded, mutating, dest.id)
    BY <1>1, <2>1, <2>2, <2>3, <2>4 DEF Sound
  <2> QED BY <1>1, <1>3, <1>5, <2>5, Moves DEF files, Shapes
<1> QED BY <1>3, <1>4, <1>5

-----------------------------------------------------------------------------
(* What others do: the files change, the process ends                      *)

(* A copy whose source changes was read from sources up to the new one. *)
LEMMA SourceChangesSound ==
    ASSUME Shapes, Bounds, JobsSound, NEW j \in Copy, SourceChanges(j)
    PROVE  JobsSound' /\ Shapes'
<1> DEFINE r == job[j]
           v == source[j]
<1>1. /\ With(j, r) = job /\ j \in Job /\ r \in RunType /\ j \notin Upload
      /\ Sound(j, r, disk[j], stage[j], v, delivered, discarded, mutating, dest.id)
  BY Unmoved, TransferAssumption DEF Job
<1>2. /\ source' = [source EXCEPT ![j] = v + 1]
      /\ UNCHANGED <<job, disk, stage, dest, delivered, discarded, mutating, caller>>
  BY DEF SourceChanges, files
<1>3. v \in Version /\ v + 1 \in Version
  <2>1. v \in Version
    BY <1>1 DEF Sound, Typed
  <2>2. v <= 1 + faults /\ faults < MaxFaults /\ faults \in Nat /\ MaxFaults \in Nat
    BY <1>1, TransferAssumption DEF Bounds, SourceChanges, Fault
  <2> QED BY <2>1, <2>2 DEF Version
<1>4. source'[j] = v + 1 /\ \A k \in Job \ {j} : source'[k] = source[k]
  BY <1>1, <1>2 DEF Shapes
<1>5. Typed(r, disk[j], stage[j], v + 1)
  BY <1>1, <1>3 DEF Sound, Typed
<1>6. ASSUME j \notin delivered \cup discarded PROVE Kept(r, disk[j], stage[j], v + 1)
  <2>1. Kept(r, disk[j], stage[j], v) /\ r.step # "writing"
    BY <1>1, <1>6 DEF Sound, Placed, UploadStep
  <2>2. r.ck.version \in Nat /\ v \in Nat /\ r.ck.version <= v + 1
    BY <1>1, <1>3, <2>1 DEF Kept, RunType, CheckpointType, Version
  <2>3. stage[j][1] # Nil => Between(stage[j][1], r.ck.version, v + 1)
    <3>1. 1 \in Name
      BY TransferAssumption DEF Name
    <3>2. stage[j][1] # Nil => stage[j][1] \in Chunks
      BY <1>1, <3>1 DEF Sound, Typed
    <3> QED BY <2>1, <2>2, <3>2, BetweenWidens DEF Kept
  <2> QED BY <2>1, <2>2, <2>3 DEF Kept
<1>7. Sound(j, r, disk[j], stage[j], v + 1, delivered, discarded, mutating, dest.id)
  BY <1>1, <1>5, <1>6 DEF Sound
<1>8. Elsewhere(j)
  BY <1>2, <1>4 DEF Elsewhere, Shapes
<1> QED BY <1>1, <1>2, <1>4, <1>7, <1>8, JobMoves DEF Shapes

(* Nobody is between the last look and the rename. *)
LEMMA DestChangesSound ==
    ASSUME Shapes, JobsSound, DestChanges
    PROVE  JobsSound' /\ Shapes'
<1>1. /\ mutating = Nil /\ dest' = [id |-> dest.id + 1, chunks |-> <<>>]
      /\ UNCHANGED <<job, disk, stage, delivered, discarded, source, mutating, caller>>
  BY DEF DestChanges
<1>2. dest.id \in Nat /\ dest'.id = dest.id + 1 /\ dest' \in [id : Nat, chunks : Chunks]
  BY <1>1, EmptyContent DEF Shapes
<1>3. ASSUME NEW k \in Job
      PROVE  Sound(k, job[k], disk[k], stage[k], source[k], delivered, discarded, mutating, dest'.id)
  <2>1. Sound(k, job[k], disk[k], stage[k], source[k], delivered, discarded, mutating, dest.id)
    BY DEF JobsSound
  <2>2. job[k].step # "renaming" /\ job[k].ck.target \in Nat
    BY <1>1, <2>1, TransferAssumption DEF Sound, Placed, Job, Typed, RunType, CheckpointType
  <2>3. Aimed(k, job[k], delivered, dest'.id)
    BY <1>2, <2>1, <2>2 DEF Sound, Aimed
  <2> QED BY <2>1, <2>3 DEF Sound
<1> QED BY <1>1, <1>2, <1>3 DEF JobsSound, Shapes

(* A crash leaves the checkpoints on disk, which are as sound. *)
LEMMA CrashSound ==
    ASSUME Shapes, JobsSound, Crash
    PROVE  JobsSound' /\ Shapes'
<1>1. /\ job' = [k \in Job |-> [Idle EXCEPT !.ck = disk[k]]] /\ mutating' = Nil
      /\ caller' = [x \in Caller |-> NoCall]
      /\ UNCHANGED <<disk, stage, dest, delivered, discarded, source>>
  BY DEF Crash, files
<1>2. ASSUME NEW k \in Job
      PROVE  Sound(k, job'[k], disk[k], stage[k], source[k], delivered, discarded, Nil, dest.id)
  <2> DEFINE r == job[k]
             d == disk[k]
             n == job'[k]
  <2>1. /\ Sound(k, r, d, stage[k], source[k], delivered, discarded, mutating, dest.id)
        /\ d \in CheckpointType /\ r \in RunType
    BY DEF JobsSound, Sound, Typed
  <2>2. 1 \in Name /\ 0 \in 0..Size /\ k # Nil
    BY TransferAssumption DEF Name, Job
  <2>3. n \in RunType /\ n.ck = d /\ n.step = "none" /\ ~n.busy /\ n.handle = 1 /\ n.owes = "none"
    BY <1>1, <2>1, <2>2 DEF Idle, RunType, Debt
  <2> HIDE DEF n
  <2>4. Typed(n, d, stage[k], source[k])
    BY <2>1, <2>3 DEF Sound, Typed
  <2>5. Placed(k, n, Nil) /\ Planned(k, n, d)
    BY <2>1, <2>2, <2>3 DEF Sound, Placed, Planned, CopyStep, UploadStep
  <2>6. Truthful(k, n, d, delivered) /\ Aimed(k, n, delivered, dest.id) /\ Full(n, stage[k])
    BY <2>1, <2>3 DEF Sound, Truthful, Aimed, Full, Planned
  <2>7. ASSUME k \notin delivered \cup discarded PROVE Kept(n, d, stage[k], source[k])
    <3>1. Kept(r, d, stage[k], source[k]) /\ Planned(k, r, d)
      BY <2>1, <2>7 DEF Sound
    <3> QED BY <2>3, <3>1 DEF Kept, Planned, UploadStep
  <2> QED BY <2>1, <2>4, <2>5, <2>6, <2>7 DEF Sound, n
<1> QED BY <1>1, <1>2 DEF JobsSound, Shapes

-----------------------------------------------------------------------------
(* What a step leaves to the requests under way                            *)

Onward(n, r) ==
    /\ n.ck.status = "none" => r.ck.status = "none"
    /\ r.ck.plan = "made" => n.ck.plan = "made"
Forward ==
    /\ \A k \in Job : Onward(job'[k], job[k])
    /\ discarded \subseteq discarded'
Steady == \A k \in Job : job'[k].busy <=> job[k].busy
Stays(n, r) == (n.busy => r.busy) /\ (r.step \in Settled => n.step \in Settled)
UploadsRest == \A k \in Upload : Stays(job'[k], job[k])

(* An opening finds its job as it needs it. *)
StillOpens(y) ==
    /\ caller[y].step = "opening" => ~job'[caller[y].job].busy
    /\ caller[y].step = "announcing" => job'[caller[y].job].step \in Settled

Busy == {j \in Job : job[j].busy}
Opening == {x \in Caller : caller[x].step = "opening"}

LEMMA WithLeaves ==
    ASSUME Shapes, NEW j \in Job, NEW n, job' = With(j, n), Onward(n, job[j])
    PROVE  /\ discarded \subseteq discarded' => Forward
           /\ (n.busy <=> job[j].busy) => Steady
           /\ Stays(n, job[j]) => UploadsRest
<1>1. job'[j] = n /\ \A k \in Job \ {j} : job'[k] = job[k]
  BY DEF Shapes, With
<1>2. ASSUME NEW k \in Job PROVE Onward(job'[k], job[k])
  <2>1. CASE k = j
    BY <1>1, <2>1
  <2>2. CASE k # j
    BY <1>1, <2>2 DEF Onward
  <2> QED BY <2>1, <2>2
<1>3. (n.busy <=> job[j].busy) => Steady
  BY <1>1 DEF Steady
<1>4. ASSUME Stays(n, job[j]), NEW k \in Job PROVE Stays(job'[k], job[k])
  <2>1. CASE k = j
    BY <1>1, <1>4, <2>1
  <2>2. CASE k # j
    BY <1>1, <2>2 DEF Stays
  <2> QED BY <2>1, <2>2
<1> QED BY <1>2, <1>3, <1>4 DEF Forward, UploadsRest, Job

(* A schedule makes copies busy, none of which was. *)
LEMMA ScheduleLeaves ==
    ASSUME Shapes, JobsSound, NEW j \in Job, NEW n \in RunType, Onward(n, job[j]), Stays(n, job[j]),
           NEW act, Schedule(With(j, n), act), discarded \subseteq discarded'
    PROVE  Forward /\ UploadsRest
<1>1. With(j, n)[j] = n /\ \A k \in Job \ {j} : With(j, n)[k] = job[k]
  BY DEF Shapes, With
<1>2. \A k \in Job : /\ With(j, n)[k] \in RunType /\ Onward(With(j, n)[k], job[k])
                     /\ Stays(With(j, n)[k], job[k])
  <2> SUFFICES ASSUME NEW k \in Job
               PROVE  /\ With(j, n)[k] \in RunType /\ Onward(With(j, n)[k], job[k])
                      /\ Stays(With(j, n)[k], job[k])
    OBVIOUS
  <2>1. CASE k = j
    BY <1>1, <2>1
  <2>2. CASE k # j
    BY <1>1, <2>2, Unmoved DEF Onward, Stays
  <2> QED BY <2>1, <2>2
<1>3. \A k \in Job : \/ job'[k] = With(j, n)[k]
                     \/ k \in Copy /\ job'[k] = Started(With(j, n)[k])
  BY ScheduleStarts
<1>4. ASSUME NEW r \in RunType PROVE Started(r).ck.status = "transferring" /\ Started(r).ck.plan = r.ck.plan
  BY DEF Started, RunType, CheckpointType
<1>5. ASSUME NEW k \in Job PROVE Onward(job'[k], job[k])
  BY <1>2, <1>3, <1>4 DEF Onward
<1>6. ASSUME NEW k \in Upload PROVE Stays(job'[k], job[k])
  <2>1. k \in Job /\ job'[k] = With(j, n)[k]
    BY <1>3, TransferAssumption DEF Job
  <2> QED BY <1>2, <2>1
<1> QED BY <1>5, <1>6 DEF Forward, UploadsRest

LEMMA OpensRest ==
    ASSUME CallersSound, UploadsRest, NEW y \in Caller
    PROVE  StillOpens(y)
BY DEF CallersSound, CallerSound, Backed, UploadsRest, Stays, StillOpens, Opens

(* Who only goes on waiting finds what it relies on. *)
LEMMA CallersKept ==
    ASSUME Shapes, CallersSound, Forward, UploadsRest,
           \A x \in Caller : \/ caller'[x] = caller[x]
                             \/ caller[x].step = "waiting" /\ caller'[x] = [caller[x] EXCEPT !.step = "chained"]
    PROVE  CallersSound' /\ Opening' = Opening
<1>1. ASSUME NEW x \in Caller
      PROVE  /\ CallerSound(caller'[x]) /\ Backed(caller[x])
             /\ caller'[x].job = caller[x].job
             /\ \/ caller'[x].step = caller[x].step
                \/ caller[x].step = "waiting" /\ caller'[x].step = "chained"
  BY DEF CallersSound, CallerSound, CallType, Opens
<1>2. ASSUME NEW x \in Caller PROVE Backed(caller[x])'
  <2>1. caller'[x].step # "idle" => caller[x].job \in Job
    BY <1>1 DEF CallerSound
  <2>2. StillOpens(x)
    BY OpensRest
  <2> QED BY <1>1, <2>1, <2>2 DEF Backed, Forward, Onward, StillOpens, status
<1>3. \A x, y \in Caller :
          caller'[x].step \in Opens /\ caller'[y].step \in Opens /\ caller'[x].job = caller'[y].job => x = y
  BY <1>1 DEF CallersSound, Opens
<1>4. Opening' = Opening
  BY <1>1 DEF Opening
<1> QED BY <1>1, <1>2, <1>3, <1>4 DEF CallersSound

(* One caller moves: it needs what it relies on next, and disturbs no      *)
(* opening of another.                                                     *)
LEMMA CallerMoves ==
    ASSUME Shapes, CallersSound, Forward, NEW x \in Caller, NEW c, caller' = [caller EXCEPT ![x] = c],
           CallerSound(c), Backed(c)',
           \A y \in Caller \ {x} :
               /\ StillOpens(y)
               /\ c.step \in Opens /\ caller[y].step \in Opens => c.job # caller[y].job
    PROVE  /\ CallersSound'
           /\ Opening' = IF c.step = "opening" THEN Opening \cup {x} ELSE Opening \ {x}
<1>1. caller'[x] = c /\ \A y \in Caller \ {x} : caller'[y] = caller[y]
  BY DEF Shapes
<1>2. ASSUME NEW y \in Caller PROVE CallerSound(caller'[y]) /\ Backed(caller[y])'
  <2>1. CASE y = x
    BY <1>1, <2>1
  <2>2. CASE y # x
    <3>1. CallerSound(caller[y]) /\ Backed(caller[y]) /\ caller'[y] = caller[y]
      BY <1>1, <2>2 DEF CallersSound
    <3>2. StillOpens(y)
      BY <2>2
    <3> QED BY <3>1, <3>2 DEF CallerSound, Backed, Forward, Onward, StillOpens, status
  <2> QED BY <2>1, <2>2
<1>3. ASSUME NEW y \in Caller, NEW z \in Caller, caller'[y].step \in Opens, caller'[z].step \in Opens,
             caller'[y].job = caller'[z].job
      PROVE  y = z
  BY <1>1, <1>3 DEF CallersSound
<1>4. Opening' = IF c.step = "opening" THEN Opening \cup {x} ELSE Opening \ {x}
  BY <1>1 DEF Opening
<1> QED BY <1>2, <1>3, <1>4 DEF CallersSound

-----------------------------------------------------------------------------
(* The slots                                                               *)

LEMMA SlotsFinite ==
    /\ IsFiniteSet(Job) /\ IsFiniteSet(Busy) /\ IsFiniteSet(Opening)
    /\ Cardinality(Busy) \in Nat /\ Cardinality(Opening) \in Nat
    /\ IsFiniteSet(Busy') /\ IsFiniteSet(Opening')
    /\ Cardinality(Busy') \in Nat /\ Cardinality(Opening') \in Nat
<1>1. IsFiniteSet(Copy) /\ IsFiniteSet(Upload) /\ IsFiniteSet(Caller)
  BY TransferAssumption
<1>2. IsFiniteSet(Job)
  BY <1>1, FS_Union DEF Job
<1>3. Busy \subseteq Job /\ Opening \subseteq Caller /\ Busy' \subseteq Job /\ Opening' \subseteq Caller
  BY DEF Busy, Opening
<1>4. IsFiniteSet(Busy) /\ IsFiniteSet(Opening) /\ IsFiniteSet(Busy') /\ IsFiniteSet(Opening')
  BY <1>1, <1>2, <1>3, FS_Subset
<1> QED BY <1>2, <1>4, FS_CardinalityType

LEMMA SlotsKept ==
    ASSUME SlotsSound, Steady, Opening' = Opening, UNCHANGED <<active, overdrawn>>
    PROVE  SlotsSound'
<1>1. Busy' = Busy
  BY DEF Steady, Busy
<1> QED BY <1>1 DEF SlotsSound, SlotsAccounted, Busy, Opening

(* A job that was busy gives its slot back. *)
LEMMA SlotGoesBack ==
    ASSUME Shapes, SlotsSound, NEW j \in Job, NEW n, job' = With(j, n), job[j].busy, ~n.busy,
           Opening' = Opening, active' = active - 1, overdrawn' = overdrawn
    PROVE  SlotsSound'
<1>1. job'[j] = n /\ \A k \in Job \ {j} : job'[k] = job[k]
  BY DEF Shapes, With
<1>2. Busy' = Busy \ {j} /\ j \in Busy
  BY <1>1 DEF Busy
<1>3. Cardinality(Busy') = Cardinality(Busy) - 1
  BY <1>2, SlotsFinite, FS_RemoveElement
<1>4. /\ active + overdrawn = Cardinality(Busy) + Cardinality(Opening) /\ active <= MaxActive
      /\ active \in Int /\ overdrawn \in Nat
  BY DEF SlotsSound, SlotsAccounted, Busy, Opening
<1>5. /\ active' + overdrawn' = Cardinality(Busy') + Cardinality(Opening') /\ active' <= MaxActive
      /\ active' \in Int
  <2>1. /\ Cardinality(Busy) \in Nat /\ Cardinality(Opening') = Cardinality(Opening)
        /\ Cardinality(Opening) \in Nat /\ MaxActive \in Nat
    BY SlotsFinite, TransferAssumption
  <2> QED BY <1>3, <1>4, <2>1
<1> QED BY <1>4, <1>5 DEF SlotsSound, SlotsAccounted, Busy, Opening

(* A schedule counts the slots that it gives. *)
LEMMA ScheduleSlots ==
    ASSUME NEW js, \A k \in Job : js[k] \in RunType, NEW act \in Int, Schedule(js, act),
           NEW busy, busy = {k \in Job : js[k].busy}, overdrawn' \in Nat,
           act + overdrawn' = Cardinality(busy) + Cardinality(Opening'), act <= MaxActive
    PROVE  SlotsSound'
<1>1. PICK S \in SUBSET Startable(js) :
          /\ Cardinality(S) <= Free(act)
          /\ job' = [j \in Job |-> IF j \in S THEN Started(js[j]) ELSE js[j]]
          /\ active' = act + Cardinality(S)
  BY DEF Schedule
<1>2. S \subseteq Job /\ S \cap busy = {} /\ busy \subseteq Job
  BY <1>1 DEF Startable, Job
<1>3. IsFiniteSet(S) /\ IsFiniteSet(busy)
  BY <1>2, SlotsFinite, FS_Subset
<1>4. Cardinality(S) \in Nat /\ Cardinality(busy) \in Nat /\ Cardinality(Opening') \in Nat
  BY <1>3, FS_CardinalityType, SlotsFinite
<1>5. \A k \in Job : job'[k].busy <=> k \in busy \/ k \in S
  <2>1. ASSUME NEW r \in RunType PROVE Started(r).busy
    BY DEF Started, RunType
  <2> QED BY <1>1, <2>1
<1>6. Busy' = busy \cup S
  BY <1>2, <1>5 DEF Busy
<1>7. Cardinality(Busy') = Cardinality(busy) + Cardinality(S)
  <2>1. Cardinality(busy \cap S) = 0
    BY <1>2, FS_EmptySet
  <2>2. Cardinality(busy \cup S) = Cardinality(busy) + Cardinality(S) - Cardinality(busy \cap S)
    BY <1>3, FS_Union
  <2> QED BY <1>4, <1>6, <2>1, <2>2
<1>8. /\ active' + overdrawn' = Cardinality(Busy') + Cardinality(Opening') /\ active' <= MaxActive
      /\ active' \in Int
  BY <1>1, <1>4, <1>7, TransferAssumption DEF Free
<1> QED BY <1>8 DEF SlotsSound, SlotsAccounted, Busy, Opening

(* A job that was busy gives its slot back, or one that holds none is left *)
(* alone, and the schedule goes on.                                        *)
LEMMA ScheduleGoesOn ==
    ASSUME Shapes, JobsSound, SlotsSound, NEW j \in Job, NEW n \in RunType,
           NEW act, Schedule(With(j, n), act), Opening' = Opening, overdrawn' = overdrawn,
           \/ act = active - 1 /\ job[j].busy /\ ~n.busy
           \/ act = active /\ (n.busy <=> job[j].busy)
    PROVE  SlotsSound'
<1> DEFINE js == With(j, n)
           busy == {k \in Job : js[k].busy}
<1>1. js[j] = n /\ \A k \in Job \ {j} : js[k] = job[k]
  BY DEF Shapes, With
<1>2. ASSUME NEW k \in Job PROVE js[k] \in RunType
  BY <1>1, Unmoved
<1>3. /\ active + overdrawn = Cardinality(Busy) + Cardinality(Opening) /\ active <= MaxActive
      /\ active \in Int /\ overdrawn \in Nat
  BY DEF SlotsSound, SlotsAccounted, Busy, Opening
<1>4. CASE act = active /\ (n.busy <=> job[j].busy)
  <2>1. busy = Busy
    BY <1>1, <1>4 DEF Busy
  <2> HIDE DEF js
  <2> QED BY <1>2, <1>3, <1>4, <2>1, ScheduleSlots DEF js
<1>5. CASE act = active - 1 /\ job[j].busy /\ ~n.busy
  <2>1. busy = Busy \ {j} /\ j \in Busy
    BY <1>1, <1>5 DEF Busy
  <2>2. Cardinality(busy) = Cardinality(Busy) - 1
    BY <2>1, SlotsFinite, FS_RemoveElement
  <2>3. act \in Int /\ act + overdrawn' = Cardinality(busy) + Cardinality(Opening') /\ act <= MaxActive
    BY <1>3, <1>5, <2>2, SlotsFinite, TransferAssumption
  <2> HIDE DEF js
  <2> QED BY <1>2, <1>3, <2>3, ScheduleSlots DEF js
<1> QED BY <1>4, <1>5

-----------------------------------------------------------------------------
(* Callers and slots, step by step                                         *)

LEMMA StayKeeps ==
    ASSUME Shapes, CallersSound, SlotsSound, NEW j \in Job, NEW n, job' = With(j, n),
           Onward(n, job[j]), n.busy <=> job[j].busy, Stays(n, job[j]),
           UNCHANGED <<active, caller, overdrawn>>, discarded \subseteq discarded'
    PROVE  CallersSound' /\ SlotsSound'
<1>1. Forward /\ Steady /\ UploadsRest
  BY WithLeaves
<1> QED BY <1>1, CallersKept, SlotsKept

(* A step of a run that neither starts nor ends it. *)
LEMMA RunKeeps ==
    ASSUME Shapes, JobsSound, CallersSound, SlotsSound, NEW j \in Job,
           \/ RunPrepares(j) \/ RunChecks(j) \/ RunWrites(j) \/ RunAcks(j) \/ RunVerifies(j)
           \/ RunLocks(j) \/ RunRenames(j) \/ RunCommits(j) \/ RunCompletes(j) \/ RunFails(j)
           \/ ChunkWrites(j) \/ ChunkAcks(j) \/ Finish(j)
    PROVE  CallersSound' /\ SlotsSound'
<1> DEFINE r == job[j]
           Keeps(n) == Onward(n, r) /\ (n.busy <=> r.busy) /\ Stays(n, r)
<1>1. /\ r \in RunType /\ Planned(j, r, disk[j])
      /\ r.step # "none" => r.ck.status # "none"
      /\ r.step \notin Settled
  BY Unmoved DEF Sound, Planned, RunPrepares, RunChecks, RunWrites, RunAcks, RunVerifies, RunLocks,
                 RunRenames, RunCommits, RunCompletes, RunFails, ChunkWrites, ChunkAcks, Finish,
                 FinishStep, Settled
<1>2. UNCHANGED <<active, caller, overdrawn, discarded>>
  BY DEF RunPrepares, RunChecks, RunWrites, RunAcks, RunVerifies, RunLocks, RunRenames, RunCommits,
         RunCompletes, RunFails, ChunkWrites, ChunkAcks, Finish, files, outside
<1>3. \A step : Keeps([r EXCEPT !.step = step])
  BY <1>1 DEF RunType, Onward, Stays
<1>4. CASE RunPrepares(j)
  <2> DEFINE asked == [r EXCEPT !.ck.status = "paused", !.ck.conflict = TRUE, !.step = "ending"]
             made(version, complete) ==
                 [r EXCEPT !.ck.plan = "made", !.ck.target = dest.id, !.ck.version = version,
                           !.ck.complete = complete, !.step = "checking"]
  <2>1. job' = With(j, asked) \/ \E version, complete : job' = With(j, made(version, complete))
    BY <1>4 DEF RunPrepares
  <2>2. Keeps(asked) /\ \A version, complete : Keeps(made(version, complete))
    BY <1>1 DEF RunType, CheckpointType, Onward, Stays
  <2> HIDE DEF asked, made
  <2> QED BY <1>2, <2>1, <2>2, StayKeeps
<1>5. CASE RunChecks(j)
  <2> DEFINE go == [r EXCEPT !.step = "copying", !.handle = r.ck.name]
  <2>1. job' = With(j, [r EXCEPT !.step = "completing"]) \/ job' = With(j, go)
    BY <1>5 DEF RunChecks
  <2>2. Keeps(go)
    BY <1>1 DEF RunType, Onward, Stays
  <2> HIDE DEF go
  <2> QED BY <1>2, <1>3, <2>1, <2>2, StayKeeps
<1>6. CASE RunWrites(j)
  <2> DEFINE go == [r EXCEPT !.step = "written", !.chunk = source[j]]
  <2>1. job' = With(j, go)
    BY <1>6 DEF RunWrites
  <2>2. Keeps(go)
    BY <1>1 DEF RunType, Onward, Stays
  <2> HIDE DEF go
  <2> QED BY <1>2, <2>1, <2>2, StayKeeps
<1>7. CASE RunAcks(j) \/ ChunkAcks(j)
  <2>1. CASE RunAcks(j)
    <3> DEFINE go == [r EXCEPT !.ck.prefix = Append(@, r.chunk), !.step = "copying", !.chunk = 0]
    <3>1. job' = With(j, go)
      BY <2>1 DEF RunAcks
    <3>2. Keeps(go)
      BY <1>1 DEF RunType, CheckpointType, Onward, Stays
    <3> HIDE DEF go
    <3> QED BY <1>2, <3>1, <3>2, StayKeeps
  <2>2. CASE ChunkAcks(j)
    <3> DEFINE go == [r EXCEPT !.ck.prefix = Append(@, source[j]), !.step = "open", !.sent = @ + 1]
    <3>1. job' = With(j, go)
      BY <2>2 DEF ChunkAcks
    <3>2. Keeps(go)
      BY <1>1 DEF RunType, CheckpointType, Onward, Stays
    <3> HIDE DEF go
    <3> QED BY <1>2, <3>1, <3>2, StayKeeps
  <2> QED BY <1>7, <2>1, <2>2
<1>8. CASE RunVerifies(j) \/ RunLocks(j) \/ RunRenames(j) \/ ChunkWrites(j) \/ Finish(j)
  <2>1. \E step : job' = With(j, [r EXCEPT !.step = step])
    BY <1>8 DEF RunVerifies, RunLocks, RunRenames, ChunkWrites, Finish
  <2> QED BY <1>2, <1>3, <2>1, StayKeeps
<1>9. CASE RunCommits(j)
  <2> DEFINE copied == [[r EXCEPT !.ck.complete = TRUE] EXCEPT !.step = "completing"]
             sent == [[r EXCEPT !.ck.complete = TRUE] EXCEPT !.ck.status = "completed", !.step = "ending"]
  <2>1. job' = With(j, copied) \/ job' = With(j, sent)
    BY <1>9 DEF RunCommits
  <2>2. Keeps(copied) /\ Keeps(sent)
    BY <1>1 DEF RunType, CheckpointType, Onward, Stays
  <2> HIDE DEF copied, sent
  <2> QED BY <1>2, <2>1, <2>2, StayKeeps
<1>10. CASE RunCompletes(j)
  <2> DEFINE go == [r EXCEPT !.ck.status = "completed", !.step = "ending"]
  <2>1. job' = With(j, go)
    BY <1>10 DEF RunCompletes
  <2>2. Keeps(go)
    BY <1>1 DEF RunType, CheckpointType, Onward, Stays
  <2> HIDE DEF go
  <2> QED BY <1>2, <2>1, <2>2, StayKeeps
<1>11. CASE RunFails(j)
  <2> DEFINE go == [r EXCEPT !.step = "ending", !.chunk = 0,
                             !.ck.status = IF r.aborted THEN @ ELSE "failed"]
  <2>1. job' = With(j, go)
    BY <1>11 DEF RunFails
  <2>2. Keeps(go)
    BY <1>1 DEF RunType, CheckpointType, Onward, Stays
  <2> HIDE DEF go
  <2> QED BY <1>2, <2>1, <2>2, StayKeeps
<1> QED BY <1>4, <1>5, <1>6, <1>7, <1>8, <1>9, <1>10, <1>11

(* A job lets go, and the schedule goes on. *)
LEMMA LetGoKeeps ==
    ASSUME Shapes, JobsSound, CallersSound, SlotsSound, NEW j \in Job, NEW n \in RunType,
           Quiet(j, n, job[j]), n.step = "none",
           NEW act, act = (IF job[j].busy THEN active - 1 ELSE active), Schedule(With(j, n), act),
           UNCHANGED caller \/ WaitersGoOn(j), UNCHANGED <<discarded, overdrawn>>
    PROVE  CallersSound' /\ SlotsSound'
<1>1. ~n.busy /\ Onward(n, job[j]) /\ Stays(n, job[j])
  BY DEF Quiet, AsPlanned, Onward, Stays, Settled
<1>2. Forward /\ UploadsRest
  BY <1>1, ScheduleLeaves
<1>3. \A x \in Caller : \/ caller'[x] = caller[x]
                        \/ caller[x].step = "waiting" /\ caller'[x] = [caller[x] EXCEPT !.step = "chained"]
  BY DEF WaitersGoOn
<1>4. CallersSound' /\ Opening' = Opening
  BY <1>2, <1>3, CallersKept
<1> QED BY <1>1, <1>4, ScheduleGoesOn

(* A job lets go, and the schedule waits for a save. *)
LEMMA OwingKeeps ==
    ASSUME Shapes, CallersSound, SlotsSound, NEW j \in Job, NEW n, Quiet(j, n, job[j]), n.step = "none",
           job[j].busy, job' = With(j, n), active' = active - 1,
           UNCHANGED <<caller, discarded, overdrawn>>
    PROVE  CallersSound' /\ SlotsSound'
<1>1. ~n.busy /\ Onward(n, job[j]) /\ Stays(n, job[j])
  BY DEF Quiet, AsPlanned, Onward, Stays, Settled
<1>2. Forward /\ UploadsRest
  BY <1>1, WithLeaves
<1>3. CallersSound' /\ Opening' = Opening
  BY <1>2, CallersKept
<1> QED BY <1>1, <1>3, SlotGoesBack

(* A run ends: its slot goes to whoever is queued. *)
LEMMA RunEndsKeeps ==
    ASSUME Shapes, JobsSound, CallersSound, SlotsSound, NEW j \in Job, RunEnds(j)
    PROVE  CallersSound' /\ SlotsSound'
<1>1. job[j].busy
  BY Unmoved DEF RunEnds, Sound, Placed
<1>2. /\ Schedule(With(j, Released(job[j])), active - 1) /\ WaitersGoOn(j)
      /\ UNCHANGED <<discarded, overdrawn>>
  BY DEF RunEnds, files, outside
<1> QED BY <1>1, <1>2, LetGo, LetGoKeeps

(* Nobody waits for a chunk; after an abort the queue goes on at once. *)
LEMMA ChunkFailsKeeps ==
    ASSUME Shapes, JobsSound, CallersSound, SlotsSound, NEW j \in Job, ChunkFails(j)
    PROVE  CallersSound' /\ SlotsSound'
<1> DEFINE m == Released(job[j])
           n == Released([job[j] EXCEPT !.owes = "chunk", !.ck.status = "failed"])
<1>1. /\ job[j].busy /\ job[j].ck.status # "none" /\ j \in Upload /\ "chunk" \in Debt
  BY Unmoved DEF ChunkFails, Sound, Placed, Planned, UploadStep, Debt
<1>2. /\ UNCHANGED <<discarded, overdrawn, caller>>
      /\ \/ Schedule(With(j, m), active - 1)
         \/ job' = With(j, n) /\ active' = active - 1
  BY DEF ChunkFails, Failed, files, outside
<1>3. /\ Quiet(j, m, job[j]) /\ m.step = "none" /\ m \in RunType
      /\ Quiet(j, n, job[j]) /\ n.step = "none" /\ n \in RunType
  BY <1>1, LetGo, LetGoFailed
<1> HIDE DEF m, n
<1> QED BY <1>1, <1>2, <1>3, LetGoKeeps, OwingKeeps

(* The channel was given back before. *)
LEMMA ChunkGivesUpKeeps ==
    ASSUME Shapes, JobsSound, CallersSound, SlotsSound, NEW j \in Job, ChunkGivesUp(j)
    PROVE  CallersSound' /\ SlotsSound'
<1> DEFINE r == job[j]
           n == [r EXCEPT !.owes = "none"]
<1>1. r \in RunType
  BY Unmoved
<1>2. n \in RunType /\ n.ck = r.ck /\ n.step = r.step /\ n.busy = r.busy
  BY <1>1 DEF RunType, Debt
<1>3. Schedule(With(j, n), active) /\ UNCHANGED <<discarded, overdrawn, caller>>
  BY DEF ChunkGivesUp, files, outside
<1> HIDE DEF n
<1>4. Forward /\ UploadsRest
  BY <1>2, <1>3, ScheduleLeaves DEF Onward, Stays
<1>5. CallersSound' /\ Opening' = Opening
  BY <1>3, <1>4, CallersKept
<1> QED BY <1>2, <1>3, <1>5, ScheduleGoesOn

LEMMA FinishFailsKeeps ==
    ASSUME Shapes, JobsSound, CallersSound, SlotsSound, NEW j \in Job, FinishFails(j)
    PROVE  CallersSound' /\ SlotsSound'
<1> DEFINE m == Released(job[j])
           n == Released([job[j] EXCEPT !.owes = "run", !.ck.status = "failed"])
<1>1. /\ job[j].busy /\ job[j].ck.status # "none" /\ j \in Upload /\ "run" \in Debt
  BY Unmoved DEF FinishFails, Sound, Placed, Planned, FinishStep, Debt
<1>2. /\ UNCHANGED <<discarded, overdrawn>>
      /\ \/ Schedule(With(j, m), active - 1) /\ WaitersGoOn(j)
         \/ job' = With(j, n) /\ active' = active - 1 /\ UNCHANGED caller
  BY DEF FinishFails, Failed, files, outside
<1>3. /\ Quiet(j, m, job[j]) /\ m.step = "none" /\ m \in RunType
      /\ Quiet(j, n, job[j]) /\ n.step = "none" /\ n \in RunType
  BY <1>1, LetGo, LetGoFailed
<1> HIDE DEF m, n
<1> QED BY <1>1, <1>2, <1>3, LetGoKeeps, OwingKeeps

(* The slot of a channel that was opened meanwhile is given back with it. *)
LEMMA FinishGivesUpKeeps ==
    ASSUME Shapes, JobsSound, CallersSound, SlotsSound, NEW j \in Job, FinishGivesUp(j)
    PROVE  CallersSound' /\ SlotsSound'
<1> DEFINE n == Released([job[j] EXCEPT !.owes = "none"])
           act == IF job[j].busy THEN active - 1 ELSE active
<1>1. /\ Schedule(With(j, n), act) /\ WaitersGoOn(j) /\ UNCHANGED <<discarded, overdrawn>>
  BY DEF FinishGivesUp, files, outside
<1>2. Quiet(j, n, job[j]) /\ n.step = "none" /\ n \in RunType
  BY LetGoOwing DEF Debt
<1> HIDE DEF n
<1> QED BY <1>1, <1>2, LetGoKeeps

(* The requests that do not open an upload. *)
PlainStep == {"waiting", "chained", "cleaning", "sweeping", "saving", "restarting", "resetting", "erasing"}

(* A request about a job takes its next step. *)
LEMMA AskKeeps ==
    ASSUME Shapes, CallersSound, SlotsSound, NEW j \in Job, NEW n, job' = With(j, n),
           Onward(n, job[j]), n.busy <=> job[j].busy, n.step = job[j].step,
           UNCHANGED <<active, overdrawn>>, discarded \subseteq discarded',
           NEW x \in Caller, caller[x].step # "opening",
           NEW step \in PlainStep, NEW op \in {Nil, "open", "pause", "cancel"}, Call(x, op, j, step),
           n.ck.status # "none",
           op = "open" \/ step = "erasing" => j \in Upload,
           step \in {"restarting", "resetting"} => j \in Copy /\ n.ck.plan = "made",
           step = "resetting" => j \in discarded'
    PROVE  CallersSound' /\ SlotsSound'
<1> DEFINE c == [step |-> step, op |-> op, job |-> j]
<1>1. Forward /\ Steady /\ UploadsRest
  BY WithLeaves DEF Stays
<1>2. job'[j] = n
  BY DEF Shapes, With
<1>3. CallerSound(c) /\ Backed(c)' /\ c.step \notin Opens
  BY <1>2 DEF CallerSound, CallType, PlainStep, Opens, Backed, status
<1>4. caller' = [caller EXCEPT ![x] = c]
  BY DEF Call
<1> HIDE DEF c
<1>5. \A y \in Caller : StillOpens(y)
  BY <1>1, OpensRest
<1>6. CallersSound' /\ Opening' = Opening \ {x}
  BY <1>1, <1>3, <1>4, <1>5, CallerMoves DEF Opens
<1>7. Opening' = Opening
  BY <1>6 DEF Opening
<1> QED BY <1>1, <1>6, <1>7, SlotsKept

LEMMA NoCallSound == CallerSound(NoCall) /\ Backed(NoCall)'
BY TransferAssumption DEF CallerSound, CallType, NoCall, Backed, Opens

LEMMA ReturnKeeps ==
    ASSUME Shapes, CallersSound, SlotsSound, UNCHANGED <<job, active, overdrawn>>, discarded \subseteq discarded',
           NEW x \in Caller, caller[x].step # "opening", Return(x)
    PROVE  CallersSound' /\ SlotsSound'
<1>1. Forward /\ Steady /\ UploadsRest
  BY DEF Forward, Onward, Steady, UploadsRest, Stays
<1>2. caller' = [caller EXCEPT ![x] = NoCall] /\ NoCall.step \notin Opens
  BY DEF Return, NoCall, Opens
<1>3. \A y \in Caller : StillOpens(y)
  BY <1>1, OpensRest
<1>4. CallersSound' /\ Opening' = Opening \ {x}
  BY <1>1, <1>2, <1>3, NoCallSound, CallerMoves DEF Opens
<1>5. Opening' = Opening
  BY <1>4 DEF Opening
<1> QED BY <1>1, <1>4, <1>5, SlotsKept

(* A request answers with a schedule. *)
LEMMA ScheduleKeeps ==
    ASSUME Shapes, JobsSound, CallersSound, SlotsSound, NEW j \in Job, NEW n \in RunType,
           Onward(n, job[j]), Stays(n, job[j]), NEW act, Schedule(With(j, n), act),
           discarded \subseteq discarded', overdrawn' = overdrawn,
           \/ act = active - 1 /\ job[j].busy /\ ~n.busy
           \/ act = active /\ (n.busy <=> job[j].busy),
           NEW x \in Caller, caller[x].step # "opening", Return(x)
    PROVE  CallersSound' /\ SlotsSound'
<1>1. Forward /\ UploadsRest
  BY ScheduleLeaves
<1>2. caller' = [caller EXCEPT ![x] = NoCall] /\ NoCall.step \notin Opens
  BY DEF Return, NoCall, Opens
<1>3. \A y \in Caller : StillOpens(y)
  BY <1>1, OpensRest
<1>4. CallersSound' /\ Opening' = Opening \ {x}
  BY <1>1, <1>2, <1>3, NoCallSound, CallerMoves DEF Opens
<1>5. Opening' = Opening
  BY <1>4 DEF Opening
<1> QED BY <1>4, <1>5, ScheduleGoesOn

(* What every request knows of its job. *)
LEMMA CallerKnows ==
    ASSUME CallersSound, Shapes, JobsSound, NEW x \in Caller, caller[x].step # "idle"
    PROVE  /\ caller[x].job \in Job /\ caller[x].op \in {Nil, "open", "pause", "cancel"}
           /\ status(caller[x].job) # "none" /\ job[caller[x].job] \in RunType
           /\ caller[x].op = "open" \/ caller[x].step \in {"erasing"} \cup Opens => caller[x].job \in Upload
           /\ caller[x].step \in {"restarting", "resetting"} =>
                  caller[x].job \in Copy /\ job[caller[x].job].ck.plan = "made"
           /\ caller[x].step = "resetting" => caller[x].job \in discarded
           /\ caller[x].step = "opening" => ~job[caller[x].job].busy
           /\ caller[x].step = "announcing" => job[caller[x].job].step \in Settled
<1>1. CallerSound(caller[x]) /\ Backed(caller[x])
  BY DEF CallersSound
<1> QED BY <1>1, Unmoved DEF CallerSound, CallType, Backed, status

LEMMA SchedulesKeeps ==
    ASSUME Shapes, JobsSound, CallersSound, SlotsSound, NEW x \in Caller, Schedules(x)
    PROVE  CallersSound' /\ SlotsSound'
<1> DEFINE j == caller[x].job
<1>1. /\ caller[x].step = "saving" /\ Return(x) /\ UNCHANGED <<discarded, overdrawn>> /\ Schedule(job, active)
  BY DEF Schedules, files, outside
<1>2. /\ j \in Job /\ With(j, job[j]) = job /\ job[j] \in RunType
      /\ Onward(job[j], job[j]) /\ Stays(job[j], job[j])
  BY <1>1, CallerKnows, Unmoved DEF Onward, Stays
<1> QED BY <1>1, <1>2, ScheduleKeeps

LEMMA CleansKeeps ==
    ASSUME Shapes, JobsSound, CallersSound, SlotsSound, NEW x \in Caller, Cleans(x)
    PROVE  CallersSound' /\ SlotsSound'
<1> DEFINE j == caller[x].job
<1>1. /\ caller[x].step \in {"cleaning", "sweeping"} /\ Return(x) /\ discarded \subseteq discarded'
      /\ Schedule(job, active) \/ UNCHANGED <<job, active>>
      /\ UNCHANGED overdrawn
  BY DEF Cleans, Removed, outside
<1>2. /\ j \in Job /\ With(j, job[j]) = job /\ job[j] \in RunType
      /\ Onward(job[j], job[j]) /\ Stays(job[j], job[j])
  BY <1>1, CallerKnows, Unmoved DEF Onward, Stays
<1> QED BY <1>1, <1>2, ScheduleKeeps, ReturnKeeps

LEMMA ThrowsKeeps ==
    ASSUME Shapes, CallersSound, SlotsSound, NEW x \in Caller, Throws(x)
    PROVE  CallersSound' /\ SlotsSound'
BY ReturnKeeps DEF Throws, files, outside

LEMMA StopKeeps ==
    ASSUME Shapes, JobsSound, CallersSound, SlotsSound, NEW x \in Caller, NEW j \in Job,
           NEW op \in {"pause", "cancel"}, Stop(x, j, op)
    PROVE  CallersSound' /\ SlotsSound'
<1> DEFINE r == job[j]
           n == [r EXCEPT !.aborted = TRUE]
<1>1. r \in RunType /\ With(j, r) = job
  BY Unmoved
<1>2. n.ck = r.ck /\ (n.busy <=> r.busy) /\ n.step = r.step /\ r.ck.status # "none"
  BY <1>1 DEF RunType, Stop, status
<1>3. /\ caller[x].step # "opening" /\ UNCHANGED <<active, discarded, overdrawn>>
      /\ \/ Call(x, Nil, j, "sweeping") /\ job' = With(j, r)
         \/ job' = With(j, n) /\ \E step \in {"waiting", "chained"} : Call(x, op, j, step)
  BY <1>1 DEF Stop, Idles, files, outside
<1> HIDE DEF n
<1>4. Nil # "open" /\ Onward(r, r) /\ Onward(n, r)
  BY <1>2, TransferAssumption DEF Onward
<1>5. CASE Call(x, Nil, j, "sweeping") /\ job' = With(j, r)
  BY <1>2, <1>3, <1>4, <1>5, AskKeeps DEF PlainStep
<1>6. CASE job' = With(j, n) /\ \E step \in {"waiting", "chained"} : Call(x, op, j, step)
  BY <1>2, <1>3, <1>4, <1>6, AskKeeps DEF PlainStep
<1> QED BY <1>3, <1>5, <1>6

(* A cancel closes an open upload and goes on to clean up. *)
LEMMA ClosesKeeps ==
    ASSUME Shapes, CallersSound, SlotsSound, NEW j \in Job, NEW n, job' = With(j, n),
           Onward(n, job[j]), n.ck.status # "none", n.step = "none", job[j].busy, ~n.busy, active' = active - 1,
           UNCHANGED <<discarded, overdrawn>>,
           NEW x \in Caller, caller[x].step = "chained", Call(x, Nil, j, "cleaning")
    PROVE  CallersSound' /\ SlotsSound'
<1> DEFINE c == [step |-> "cleaning", op |-> Nil, job |-> j]
<1>1. caller' = [caller EXCEPT ![x] = c] /\ Forward /\ UploadsRest
  BY WithLeaves DEF Call, Stays, Settled
<1>2. job'[j] = n
  BY DEF With, Shapes
<1>3. CallerSound(c) /\ Backed(c)' /\ c.step \notin Opens
  BY <1>2, TransferAssumption DEF CallerSound, CallType, Backed, Opens, status
<1> HIDE DEF c
<1>4. \A y \in Caller : StillOpens(y)
  BY <1>1, OpensRest
<1>5. CallersSound' /\ Opening' = Opening \ {x}
  BY <1>1, <1>3, <1>4, CallerMoves DEF Opens
<1>6. Opening' = Opening
  BY <1>5 DEF Opening
<1> QED BY <1>5, <1>6, SlotGoesBack

LEMMA StopTakesKeeps ==
    ASSUME Shapes, JobsSound, CallersSound, SlotsSound, NEW x \in Caller, StopTakes(x)
    PROVE  CallersSound' /\ SlotsSound'
<1> DEFINE j == caller[x].job
           r == job[j]
           st == IF caller[x].op = "pause" THEN "paused" ELSE "cancelled"
           ck == [r.ck EXCEPT !.status = st]
           open == r.step = "open"
           stopped == [r EXCEPT !.ck.status = st]
           closed == Released(stopped)
           n == IF open THEN closed ELSE stopped
           act == IF open THEN active - 1 ELSE active
<1>1. /\ caller[x].step = "chained" /\ UNCHANGED <<discarded, overdrawn>>
      /\ \/ Schedule(job, active) /\ Return(x)
         \/ Schedule(With(j, n), act) /\ Return(x)
         \/ job' = With(j, n) /\ active' = act /\ Goes(x, "cleaning")
  BY DEF StopTakes, files, outside
<1>2. /\ j \in Job /\ r \in RunType /\ r.ck \in CheckpointType
      /\ r.ck.status # "none" /\ With(j, r) = job /\ (open => r.busy) /\ Onward(r, r) /\ Stays(r, r)
  BY <1>1, CallerKnows, Unmoved DEF Sound, Placed, Onward, Stays, status
<1>3. st \in Status /\ st \in {"paused", "cancelled"}
  BY DEF Status, Finished
<1>4. ck \in CheckpointType /\ ck.status = st /\ ck.plan = r.ck.plan
  BY <1>2, <1>3 DEF CheckpointType
<1>5. stopped = [r EXCEPT !.ck = ck]
  BY <1>2 DEF RunType
<1> HIDE DEF ck, st
<1>6. /\ stopped \in RunType /\ stopped.ck = ck /\ (stopped.busy <=> r.busy)
      /\ stopped.step = r.step
  BY <1>2, <1>4, <1>5 DEF RunType
<1> HIDE DEF stopped
<1>7. /\ closed \in RunType /\ closed.ck = ck /\ ~closed.busy /\ closed.step = "none"
  <2>1. 1 \in Name /\ 0 \in 0..Size
    BY TransferAssumption DEF Name
  <2> QED BY <1>6, <2>1 DEF RunType, Released
<1> HIDE DEF closed
<1>8. /\ n \in RunType /\ n.ck = ck /\ (n.busy <=> r.busy /\ ~open)
      /\ Stays(n, r) /\ (~open => n.step = r.step) /\ (open => n.step = "none")
  BY <1>2, <1>6, <1>7 DEF Stays, Settled
<1> HIDE DEF n
<1>9. Onward(n, r) /\ n.ck.status # "none"
  BY <1>3, <1>4, <1>8 DEF Onward
<1>10. \/ act = active - 1 /\ r.busy /\ ~n.busy
       \/ act = active /\ (n.busy <=> r.busy)
  BY <1>2, <1>8
<1>11. CASE Schedule(job, active) /\ Return(x)
  BY <1>1, <1>2, <1>11, ScheduleKeeps
<1>12. CASE Schedule(With(j, n), act) /\ Return(x)
  BY <1>1, <1>2, <1>8, <1>9, <1>10, <1>12, ScheduleKeeps
<1>13. CASE job' = With(j, n) /\ active' = act /\ Goes(x, "cleaning")
  <2>1. Call(x, Nil, j, "cleaning")
    BY <1>13 DEF Goes
  <2>2. CASE ~open
    <3>1. Nil # "open" /\ active' = active
      BY <1>13, <2>2, TransferAssumption
    <3> QED BY <1>1, <1>2, <1>8, <1>9, <1>13, <2>1, <2>2, <3>1, AskKeeps DEF PlainStep
  <2>3. CASE open
    <3>1. r.busy /\ ~n.busy /\ active' = active - 1
      BY <1>2, <1>8, <1>13, <2>3
    <3> QED BY <1>1, <1>2, <1>8, <1>9, <1>13, <2>1, <2>3, <3>1, ClosesKeeps
  <2> QED BY <2>2, <2>3
<1> QED BY <1>1, <1>11, <1>12, <1>13

LEMMA CopyBeginsKeeps ==
    ASSUME Shapes, JobsSound, CallersSound, SlotsSound, NEW x \in Caller, NEW j \in Copy, CopyBegins(x, j)
    PROVE  CallersSound' /\ SlotsSound'
<1>1. PICK plan \in {"ask", "overwrite", "skip"} : job' = With(j, [job[j] EXCEPT !.ck = Fresh(plan)])
  BY DEF CopyBegins
<1> DEFINE n == [job[j] EXCEPT !.ck = Fresh(plan)]
<1>2. /\ j \in Job /\ job[j] \in RunType /\ job[j].ck.status = "none" /\ job[j].ck.plan # "made"
      /\ Nil # "open"
  BY Unmoved, TransferAssumption DEF CopyBegins, status, Job, Sound, Planned
<1>3. n.ck.status = "queued" /\ (n.busy <=> job[j].busy) /\ n.step = job[j].step
  BY <1>2 DEF RunType, Fresh, NoCheckpoint
<1>4. Call(x, Nil, j, "saving") /\ caller[x].step # "opening" /\ UNCHANGED <<active, discarded, overdrawn>>
  BY DEF CopyBegins, Idles, files, outside
<1>5. Onward(n, job[j])
  BY <1>2, <1>3 DEF Onward
<1> HIDE DEF n
<1> QED BY <1>1, <1>2, <1>3, <1>4, <1>5, AskKeeps DEF PlainStep, n

LEMMA UploadBeginsKeeps ==
    ASSUME Shapes, JobsSound, CallersSound, SlotsSound, NEW x \in Caller, NEW j \in Upload, UploadBegins(x, j)
    PROVE  CallersSound' /\ SlotsSound'
<1> DEFINE n == [job[j] EXCEPT !.ck = [Fresh("made") EXCEPT !.target = dest.id, !.version = 1]]
<1>1. /\ j \in Job /\ job[j] \in RunType /\ job[j].ck.plan # "made"
  BY Unmoved DEF UploadBegins, status, Job, Sound, Planned
<1>2. n.ck.status = "queued" /\ (n.busy <=> job[j].busy) /\ n.step = job[j].step
  BY <1>1 DEF RunType, Fresh, NoCheckpoint
<1>3. /\ job' = With(j, n) /\ Call(x, "open", j, "chained") /\ caller[x].step # "opening"
      /\ UNCHANGED <<active, discarded, overdrawn>>
  BY DEF UploadBegins, Idles, files, outside
<1> HIDE DEF n
<1>4. Onward(n, job[j])
  BY <1>1, <1>2 DEF Onward
<1> QED BY <1>1, <1>2, <1>3, <1>4, AskKeeps DEF PlainStep

LEMMA ResumeKeeps ==
    ASSUME Shapes, JobsSound, CallersSound, SlotsSound, NEW x \in Caller, NEW j \in Copy, Resume(x, j)
    PROVE  CallersSound' /\ SlotsSound'
<1> DEFINE n == Requeued(job[j])
<1>1. j \in Job /\ job[j] \in RunType /\ Nil # "open"
  BY Unmoved, TransferAssumption DEF Job
<1>2. /\ n.ck.status = "queued" /\ n.ck.plan = job[j].ck.plan /\ (n.busy <=> job[j].busy)
      /\ n.step = job[j].step
  BY <1>1 DEF RunType, CheckpointType, Requeued
<1>3. /\ job' = With(j, n) /\ Call(x, Nil, j, "saving") /\ caller[x].step # "opening"
      /\ UNCHANGED <<active, discarded, overdrawn>>
  BY DEF Resume, Idles, files, outside
<1> HIDE DEF n
<1>4. Onward(n, job[j])
  BY <1>2 DEF Onward
<1> QED BY <1>1, <1>2, <1>3, <1>4, AskKeeps DEF PlainStep

LEMMA RestartKeeps ==
    ASSUME Shapes, JobsSound, CallersSound, SlotsSound, NEW x \in Caller, NEW j \in Copy, Restart(x, j)
    PROVE  CallersSound' /\ SlotsSound'
<1>1. /\ j \in Job /\ With(j, job[j]) = job /\ Nil # "open" /\ Onward(job[j], job[j])
  BY Unmoved, TransferAssumption DEF Job, Onward
<1>2. /\ Call(x, Nil, j, "restarting") /\ caller[x].step # "opening" /\ UNCHANGED <<job, active, discarded, overdrawn>>
      /\ job[j].ck.status # "none" /\ job[j].ck.plan = "made"
  BY DEF Restart, Idles, files, outside, Resumable, status
<1> QED BY <1>1, <1>2, AskKeeps DEF PlainStep

LEMMA RestartCleansKeeps ==
    ASSUME Shapes, JobsSound, CallersSound, SlotsSound, NEW x \in Caller, RestartCleans(x)
    PROVE  CallersSound' /\ SlotsSound'
<1> DEFINE j == caller[x].job
           r == job[j]
           n(i) == [r EXCEPT !.ck.prefix = <<>>, !.ck.name = i]
<1>1. /\ caller[x].step = "restarting" /\ Call(x, Nil, j, "resetting")
      /\ discarded' = discarded \cup {j} /\ UNCHANGED <<active, overdrawn>>
      /\ UNCHANGED job \/ \E i : job' = With(j, n(i))
  BY DEF RestartCleans, Goes, Removed, outside
<1>2. /\ j \in Job /\ j \in Copy /\ r \in RunType /\ r.ck.status # "none" /\ r.ck.plan = "made"
      /\ With(j, r) = job /\ Nil # "open" /\ Onward(r, r)
  BY <1>1, CallerKnows, Unmoved, TransferAssumption DEF status, Onward
<1>3. \A i : /\ n(i).ck.status = r.ck.status /\ n(i).ck.plan = r.ck.plan /\ (n(i).busy <=> r.busy)
             /\ n(i).step = r.step
  BY <1>2 DEF RunType, CheckpointType
<1> HIDE DEF n
<1>4. \A i : Onward(n(i), r)
  BY <1>3 DEF Onward
<1>5. CASE UNCHANGED job
  BY <1>1, <1>2, <1>5, AskKeeps DEF PlainStep
<1>6. ASSUME NEW i, job' = With(j, n(i)) PROVE CallersSound' /\ SlotsSound'
  BY <1>1, <1>2, <1>3, <1>4, <1>6, AskKeeps DEF PlainStep
<1> QED BY <1>1, <1>5, <1>6

LEMMA RestartQueuesKeeps ==
    ASSUME Shapes, JobsSound, CallersSound, SlotsSound, NEW x \in Caller, RestartQueues(x)
    PROVE  CallersSound' /\ SlotsSound'
<1> DEFINE j == caller[x].job
           r == job[j]
           n == [Requeued(r) EXCEPT !.ck.version = IF r.ck.complete THEN @ ELSE source[j]]
<1>1. /\ caller[x].step = "resetting" /\ Call(x, Nil, j, "saving") /\ job' = With(j, n)
      /\ UNCHANGED <<active, discarded, overdrawn>>
  BY DEF RestartQueues, Goes, files, outside
<1>2. /\ j \in Job /\ r \in RunType /\ Nil # "open"
  BY <1>1, CallerKnows, TransferAssumption
<1>3. n.ck.status = "queued" /\ n.ck.plan = r.ck.plan /\ (n.busy <=> r.busy) /\ n.step = r.step
  BY <1>2 DEF RunType, CheckpointType, Requeued
<1> HIDE DEF n
<1>4. Onward(n, r)
  BY <1>3 DEF Onward
<1> QED BY <1>1, <1>2, <1>3, <1>4, AskKeeps DEF PlainStep

LEMMA ResolveKeeps ==
    ASSUME Shapes, JobsSound, CallersSound, SlotsSound, NEW x \in Caller, NEW j \in Copy, Resolve(x, j)
    PROVE  CallersSound' /\ SlotsSound'
<1>1. PICK plan \in {"overwrite", "skip"} :
          \/ /\ job' = With(j, Requeued([job[j] EXCEPT !.ck.plan = plan, !.ck.conflict = FALSE]))
             /\ Call(x, Nil, j, "saving")
          \/ /\ job' = With(j, [job[j] EXCEPT !.ck.plan = plan, !.ck.conflict = FALSE])
             /\ UNCHANGED caller
  BY DEF Resolve
<1> DEFINE n == [job[j] EXCEPT !.ck.plan = plan, !.ck.conflict = FALSE]
           m == Requeued(n)
<1>2. /\ j \in Job /\ job[j] \in RunType /\ Nil # "open" /\ job[j].ck.plan # "made"
      /\ caller[x].step # "opening" /\ UNCHANGED <<active, discarded, overdrawn>>
  BY Unmoved, TransferAssumption DEF Job, Resolve, Sound, Planned, Idles, files, outside
<1>3. /\ n.ck.status = job[j].ck.status /\ (n.busy <=> job[j].busy) /\ n.step = job[j].step
      /\ m.ck.status = "queued" /\ (m.busy <=> job[j].busy) /\ m.step = job[j].step
  BY <1>2 DEF RunType, CheckpointType, Requeued
<1>4. Onward(n, job[j]) /\ Onward(m, job[j]) /\ Stays(n, job[j])
  BY <1>2, <1>3 DEF Onward, Stays
<1> HIDE DEF n, m
<1>5. CASE job' = With(j, n) /\ UNCHANGED caller
  BY <1>2, <1>3, <1>4, <1>5, StayKeeps
<1>6. CASE job' = With(j, m) /\ Call(x, Nil, j, "saving")
  BY <1>2, <1>3, <1>4, <1>6, AskKeeps DEF PlainStep
<1> QED BY <1>1, <1>5, <1>6 DEF n, m

LEMMA ResumeUploadKeeps ==
    ASSUME Shapes, JobsSound, CallersSound, SlotsSound, NEW x \in Caller, NEW j \in Upload, ResumeUpload(x, j)
    PROVE  CallersSound' /\ SlotsSound'
<1>1. /\ j \in Job /\ With(j, job[j]) = job /\ Onward(job[j], job[j]) /\ job[j].ck.status # "none"
  BY Unmoved DEF Job, Onward, ResumeUpload, status
<1>2. /\ caller[x].step # "opening" /\ UNCHANGED <<job, active, discarded, overdrawn>>
      /\ Call(x, "open", j, "chained") \/ Call(x, Nil, j, "erasing")
  BY DEF ResumeUpload, Idles, files, outside
<1> QED BY <1>1, <1>2, AskKeeps DEF PlainStep

LEMMA ErasesKeeps ==
    ASSUME Shapes, JobsSound, CallersSound, SlotsSound, NEW x \in Caller, Erases(x)
    PROVE  CallersSound' /\ SlotsSound'
<1> DEFINE j == caller[x].job
           r == job[j]
           n == [r EXCEPT !.ck.prefix = <<>>, !.ck.complete = FALSE]
<1>1. /\ caller[x].step = "erasing" /\ Call(x, "open", j, "chained") /\ job' = With(j, n)
      /\ discarded' = discarded \cup {j} /\ UNCHANGED <<active, overdrawn>>
  BY DEF Erases, Goes, Removed, outside
<1>2. j \in Job /\ j \in Upload /\ r \in RunType /\ r.ck.status # "none"
  BY <1>1, CallerKnows DEF status
<1>3. n.ck.status = r.ck.status /\ n.ck.plan = r.ck.plan /\ (n.busy <=> r.busy) /\ n.step = r.step
  BY <1>2 DEF RunType, CheckpointType
<1> HIDE DEF n
<1>4. Onward(n, r)
  BY <1>3 DEF Onward
<1> QED BY <1>1, <1>2, <1>3, <1>4, AskKeeps DEF PlainStep

(* An upload is opened by one request at a time, which takes a slot. *)
LEMMA OpenTakesKeeps ==
    ASSUME Shapes, JobsSound, CallersSound, SlotsSound, NEW x \in Caller, OpenTakes(x)
    PROVE  CallersSound' /\ SlotsSound'
<1>1. PICK j \in Job : j = caller[x].job
  BY CallerKnows DEF OpenTakes
<1>2. /\ caller[x].step = "chained" /\ caller[x].op = "open" /\ ChainFree(j)
      /\ UNCHANGED <<job, discarded, overdrawn>>
      /\ \/ Return(x) /\ UNCHANGED active
         \/ /\ ~job[j].busy /\ ~(active >= MaxActive)
            /\ Call(x, Nil, j, "opening") /\ active' = active + 1
  BY <1>1 DEF OpenTakes, Goes, files, outside
<1>3. /\ j \in Upload /\ With(j, job[j]) = job /\ Onward(job[j], job[j]) /\ job[j].ck.status # "none"
      /\ Nil # "open"
  BY <1>1, <1>2, CallerKnows, Unmoved, TransferAssumption DEF Onward, status
<1>4. CASE Return(x) /\ UNCHANGED active
  BY <1>2, <1>4, ReturnKeeps
<1>5. CASE /\ ~job[j].busy /\ ~(active >= MaxActive)
           /\ Call(x, Nil, j, "opening") /\ active' = active + 1
  <2> DEFINE c == [step |-> "opening", op |-> Nil, job |-> j]
  <2>1. caller' = [caller EXCEPT ![x] = c] /\ Forward /\ UploadsRest
    BY <1>2, <1>5 DEF Call, Forward, Onward, UploadsRest, Stays
  <2>2. CallerSound(c) /\ Backed(c)' /\ c.step = "opening" /\ c.job = j
    BY <1>2, <1>3, <1>5 DEF CallerSound, CallType, Backed, Opens, status
  <2> HIDE DEF c
  <2>3. \A y \in Caller : StillOpens(y) /\ (caller[y].step \in Opens => j # caller[y].job)
    BY <1>2, <2>1, OpensRest DEF ChainFree, Opens
  <2>4. CallersSound' /\ Opening' = Opening \cup {x}
    BY <2>1, <2>2, <2>3, CallerMoves DEF Opens
  <2>5. x \notin Opening /\ Busy' = Busy
    BY <1>2 DEF Opening, Busy
  <2>6. Cardinality(Opening') = Cardinality(Opening) + 1
    BY <2>4, <2>5, SlotsFinite, FS_AddElement
  <2>7. /\ active + overdrawn = Cardinality(Busy) + Cardinality(Opening) /\ active <= MaxActive
        /\ active \in Int /\ overdrawn \in Nat /\ overdrawn' = overdrawn
    BY <1>2 DEF SlotsSound, SlotsAccounted, Busy, Opening
  <2>8. /\ active' + overdrawn' = Cardinality(Busy') + Cardinality(Opening') /\ active' <= MaxActive
        /\ active' \in Int
    BY <1>5, <2>5, <2>6, <2>7, SlotsFinite, TransferAssumption
  <2> QED BY <2>4, <2>7, <2>8 DEF SlotsSound, SlotsAccounted, Busy, Opening
<1> QED BY <1>2, <1>4, <1>5

(* A step on the job of the one request that opens it leaves the others. *)
LEMMA OthersOpen ==
    ASSUME Shapes, CallersSound, NEW x \in Caller, caller[x].step \in Opens,
           NEW n, job' = With(caller[x].job, n), caller[x].job \in Job, NEW y \in Caller \ {x}
    PROVE  StillOpens(y) /\ (caller[y].step \in Opens => caller[x].job # caller[y].job)
<1>1. \A k \in Job \ {caller[x].job} : job'[k] = job[k]
  BY DEF With, Shapes
<1>2. caller[y].step \in Opens => caller[x].job # caller[y].job
  BY DEF CallersSound
<1>3. CallerSound(caller[y]) /\ Backed(caller[y])
  BY DEF CallersSound
<1> QED BY <1>1, <1>2, <1>3 DEF CallerSound, Backed, StillOpens, Opens

(* The slot of an opening becomes the slot of the open upload. *)
LEMMA OpenSucceedsKeeps ==
    ASSUME Shapes, JobsSound, CallersSound, SlotsSound, NEW x \in Caller, OpenSucceeds(x)
    PROVE  CallersSound' /\ SlotsSound'
<1>1. PICK j \in Job : j = caller[x].job
  BY CallerKnows DEF OpenSucceeds
<1> DEFINE r == job[j]
           n == [r EXCEPT !.step = "opened", !.busy = TRUE, !.aborted = FALSE, !.handle = r.ck.name,
                          !.sent = Len(r.ck.prefix), !.ck.status = "transferring"]
           c == [step |-> "announcing", op |-> Nil, job |-> j]
<1>2. /\ caller[x].step = "opening" /\ caller' = [caller EXCEPT ![x] = c] /\ job' = With(j, n)
      /\ UNCHANGED <<active, discarded, overdrawn>>
  BY <1>1 DEF OpenSucceeds, Goes, Call, outside
<1>3. r \in RunType /\ ~r.busy /\ j \in Upload /\ Nil # "open"
  BY <1>1, <1>2, CallerKnows, TransferAssumption DEF Opens
<1>4. n.ck.status = "transferring" /\ n.ck.plan = r.ck.plan /\ n.busy /\ n.step = "opened"
  BY <1>3 DEF RunType, CheckpointType
<1> HIDE DEF n
<1>5. Onward(n, r)
  BY <1>4 DEF Onward
<1>6. job'[j] = n /\ \A k \in Job \ {j} : job'[k] = job[k]
  BY <1>2 DEF With, Shapes
<1>7. Forward
  BY <1>2, <1>5, WithLeaves
<1>8. CallerSound(c) /\ Backed(c)' /\ c.step = "announcing" /\ c.job = j
  BY <1>3, <1>4, <1>6 DEF CallerSound, CallType, Backed, Opens, Settled, status
<1> HIDE DEF c
<1>9. \A y \in Caller \ {x} : StillOpens(y) /\ (caller[y].step \in Opens => j # caller[y].job)
  BY <1>1, <1>2, OthersOpen DEF Opens
<1>10. CallersSound' /\ Opening' = Opening \ {x}
  BY <1>2, <1>7, <1>8, <1>9, CallerMoves
<1>11. x \in Opening /\ Busy' = Busy \cup {j} /\ j \notin Busy
  BY <1>2, <1>3, <1>4, <1>6 DEF Opening, Busy
<1>12. Cardinality(Opening') = Cardinality(Opening) - 1 /\ Cardinality(Busy') = Cardinality(Busy) + 1
  BY <1>10, <1>11, SlotsFinite, FS_AddElement, FS_RemoveElement
<1>13. /\ active + overdrawn = Cardinality(Busy) + Cardinality(Opening) /\ active <= MaxActive
       /\ active \in Int /\ overdrawn \in Nat
  BY DEF SlotsSound, SlotsAccounted, Busy, Opening
<1>14. active' + overdrawn' = Cardinality(Busy') + Cardinality(Opening') /\ active' <= MaxActive
  BY <1>2, <1>12, <1>13, SlotsFinite
<1> QED BY <1>2, <1>10, <1>13, <1>14 DEF SlotsSound, SlotsAccounted, Busy, Opening

(* The channel is open once its save has returned, if it is still there. *)
LEMMA OpenReturnsKeeps ==
    ASSUME Shapes, JobsSound, CallersSound, SlotsSound, NEW x \in Caller, OpenReturns(x)
    PROVE  CallersSound' /\ SlotsSound'
<1>1. PICK j \in Job : j = caller[x].job
  BY CallerKnows DEF OpenReturns
<1> DEFINE r == job[j]
           n == [r EXCEPT !.step = "open"]
<1>2. /\ caller[x].step = "announcing" /\ Return(x)
      /\ job' = job \/ job' = With(j, n)
      /\ UNCHANGED <<active, discarded, overdrawn>>
  BY <1>1 DEF OpenReturns, files, outside
<1>3. CASE job' = job
  BY <1>2, <1>3, ReturnKeeps
<1>4. CASE job' = With(j, n)
  <2>1. r \in RunType
    BY Unmoved
  <2>2. n.ck = r.ck /\ (n.busy <=> r.busy)
    BY <2>1 DEF RunType
  <2> HIDE DEF n
  <2>3. Forward /\ Steady
    BY <1>2, <1>4, <2>2, WithLeaves DEF Onward
  <2>4. caller' = [caller EXCEPT ![x] = NoCall] /\ NoCall.step \notin Opens
    BY <1>2 DEF Return, NoCall, Opens
  <2>5. \A y \in Caller \ {x} : StillOpens(y)
    BY <1>1, <1>2, <1>4, <2>3, OthersOpen DEF Opens
  <2>6. CallersSound' /\ Opening' = Opening \ {x}
    BY <2>3, <2>4, <2>5, NoCallSound, CallerMoves DEF Opens
  <2>7. Opening' = Opening
    BY <1>2, <2>6 DEF Opening
  <2> QED BY <1>2, <2>3, <2>6, <2>7, SlotsKept
<1> QED BY <1>2, <1>3, <1>4

(* The slot goes back with the channel, or for the second time. *)
LEMMA OpenSaveFailsKeeps ==
    ASSUME Shapes, JobsSound, CallersSound, SlotsSound, NEW x \in Caller, OpenSaveFails(x)
    PROVE  CallersSound' /\ SlotsSound'
<1>1. PICK j \in Job : j = caller[x].job
  BY CallerKnows DEF OpenSaveFails
<1> DEFINE r == job[j]
           n == Released([r EXCEPT !.ck.status = "failed"])
<1>2. /\ caller[x].step = "announcing" /\ Return(x) /\ job' = With(j, n) /\ active' = active - 1
      /\ overdrawn' = IF r.busy THEN overdrawn ELSE overdrawn + 1
      /\ UNCHANGED discarded
  BY <1>1 DEF OpenSaveFails, files
<1>3. Quiet(j, n, r) /\ n.step = "none"
  BY <1>1, <1>2, CallerKnows, LetGoAs DEF status
<1> HIDE DEF n
<1>4. Onward(n, r) /\ ~n.busy /\ Stays(n, r)
  BY <1>3 DEF Onward, Quiet, AsPlanned, Stays, Settled
<1>5. Forward /\ UploadsRest /\ (~r.busy => Steady)
  BY <1>2, <1>4, WithLeaves
<1>6. caller' = [caller EXCEPT ![x] = NoCall] /\ NoCall.step \notin Opens
  BY <1>2 DEF Return, NoCall, Opens
<1>7. \A y \in Caller : StillOpens(y)
  BY <1>5, OpensRest
<1>8. CallersSound' /\ Opening' = Opening \ {x}
  BY <1>5, <1>6, <1>7, NoCallSound, CallerMoves DEF Opens
<1>9. Opening' = Opening
  BY <1>2, <1>8 DEF Opening
<1>10. CASE r.busy
  BY <1>2, <1>4, <1>8, <1>9, <1>10, SlotGoesBack
<1>11. CASE ~r.busy
  <2>1. Busy' = Busy
    BY <1>5, <1>11 DEF Steady, Busy
  <2>2. /\ active + overdrawn = Cardinality(Busy) + Cardinality(Opening) /\ active <= MaxActive
        /\ active \in Int /\ overdrawn \in Nat
    BY DEF SlotsSound, SlotsAccounted, Busy, Opening
  <2>3. /\ active' + overdrawn' = Cardinality(Busy') + Cardinality(Opening') /\ active' <= MaxActive
        /\ active' \in Int /\ overdrawn' \in Nat
    BY <1>2, <1>9, <1>11, <2>1, <2>2, SlotsFinite, TransferAssumption
  <2> QED BY <1>8, <2>3 DEF SlotsSound, SlotsAccounted, Busy, Opening
<1> QED BY <1>10, <1>11

LEMMA OpenFailsKeeps ==
    ASSUME Shapes, JobsSound, CallersSound, SlotsSound, NEW x \in Caller, OpenFails(x)
    PROVE  CallersSound' /\ SlotsSound'
<1>1. PICK j \in Job : j = caller[x].job
  BY CallerKnows DEF OpenFails
<1> DEFINE r == job[j]
           n == [r EXCEPT !.ck.status = "failed"]
<1>2. /\ caller[x].step = "opening" /\ Return(x) /\ job' = With(j, n) /\ active' = active - 1
      /\ UNCHANGED <<discarded, overdrawn>>
  BY <1>1 DEF OpenFails, files, outside
<1>3. r \in RunType
  BY Unmoved
<1>4. n.ck.status = "failed" /\ n.ck.plan = r.ck.plan /\ (n.busy <=> r.busy) /\ n.step = r.step
  BY <1>3 DEF RunType, CheckpointType
<1> HIDE DEF n
<1>5. Onward(n, r) /\ Stays(n, r)
  BY <1>4 DEF Onward, Stays
<1>6. Forward /\ Steady /\ UploadsRest /\ caller' = [caller EXCEPT ![x] = NoCall] /\ NoCall.step \notin Opens
  BY <1>2, <1>4, <1>5, WithLeaves DEF Return, NoCall, Opens
<1>7. \A y \in Caller : StillOpens(y)
  BY <1>6, OpensRest
<1>8. CallersSound' /\ Opening' = Opening \ {x}
  BY <1>6, <1>7, NoCallSound, CallerMoves DEF Opens
<1>9. x \in Opening /\ Busy' = Busy
  BY <1>2, <1>6 DEF Opening, Busy, Steady
<1>10. Cardinality(Opening') = Cardinality(Opening) - 1
  BY <1>8, <1>9, SlotsFinite, FS_RemoveElement
<1>11. /\ active + overdrawn = Cardinality(Busy) + Cardinality(Opening) /\ active <= MaxActive
       /\ active \in Int /\ overdrawn \in Nat
  BY DEF SlotsSound, SlotsAccounted, Busy, Opening
<1>12. /\ active' + overdrawn' = Cardinality(Busy') + Cardinality(Opening') /\ active' <= MaxActive
       /\ active' \in Int
  BY <1>2, <1>9, <1>10, <1>11, SlotsFinite, TransferAssumption
<1> QED BY <1>2, <1>8, <1>11, <1>12 DEF SlotsSound, SlotsAccounted, Busy, Opening

LEMMA CrashKeeps ==
    ASSUME Shapes, JobsSound, CallersSound, SlotsSound, Crash
    PROVE  CallersSound' /\ SlotsSound'
<1>1. /\ job' = [j \in Job |-> [Idle EXCEPT !.ck = disk[j]]]
      /\ caller' = [x \in Caller |-> NoCall] /\ active' = 0 /\ overdrawn' = 0
  BY DEF Crash
<1>2. Busy' = {} /\ Opening' = {}
  BY <1>1 DEF Busy, Opening, Idle, NoCall
<1>3. Cardinality(Busy') = 0 /\ Cardinality(Opening') = 0
  BY <1>2, FS_EmptySet
<1>4. CallersSound'
  BY <1>1, NoCallSound DEF CallersSound, NoCall, Opens
<1> QED BY <1>1, <1>3, <1>4, TransferAssumption DEF SlotsSound, SlotsAccounted, Busy, Opening

-----------------------------------------------------------------------------
(* The invariant                                                           *)

(* Only a rename and others change the destination. *)
LEMMA RequestsLeaveFiles ==
    ASSUME NEW x \in Caller, Asks(x) \/ Answers(x)
    PROVE  /\ UNCHANGED <<dest, delivered, source>>
           /\ UNCHANGED <<overdrawn, faults>> \/ OpenSaveFails(x)
<1>1. CASE Asks(x)
  BY <1>1 DEF Asks, CopyBegins, Resume, Restart, Resolve, UploadBegins, ResumeUpload, Stop, files, outside
<1>2. CASE Answers(x)
  <2>1. CASE OpenSaveFails(x)
    BY <2>1 DEF OpenSaveFails, files
  <2>2. CASE Answers(x) /\ ~OpenSaveFails(x)
    BY <2>2 DEF Answers, Schedules, StopTakes, Cleans, Throws, RestartCleans, RestartQueues, Erases,
                OpenTakes, OpenSucceeds, OpenReturns, OpenFails, files, outside
  <2> QED BY <1>2, <2>1, <2>2
<1> QED BY <1>1, <1>2

LEMMA RunsLeaveFiles ==
    ASSUME NEW j \in Job, Works(j) \/ ChunkWrites(j) \/ Finish(j)
    PROVE  RunRenames(j) \/ UNCHANGED <<dest, delivered, source, overdrawn, faults>>
BY DEF Works, RunStep, RunPrepares, RunChecks, RunWrites, RunAcks, RunVerifies, RunLocks, RunCommits,
       RunCompletes, RunEnds, RunFails, FinishFails, FinishGivesUp, ChunkAcks, ChunkFails, ChunkGivesUp,
       ChunkWrites, Finish, files, outside

LEMMA BoundsKept ==
    ASSUME Bounds, UNCHANGED <<dest, delivered, source, overdrawn, faults>>
    PROVE  Bounds'
BY DEF Bounds

(* An opening whose save fails counts as a fault. *)
LEMMA SaveFailureCounted ==
    ASSUME Shapes, JobsSound, Bounds, SlotsSound, NEW x \in Caller, OpenSaveFails(x)
    PROVE  Bounds'
<1>1. /\ faults < MaxFaults /\ faults' = faults + 1 /\ faults \in Nat /\ MaxFaults \in Nat
      /\ overdrawn \in Nat /\ overdrawn <= faults
      /\ overdrawn' = overdrawn \/ overdrawn' = overdrawn + 1
  BY TransferAssumption DEF OpenSaveFails, Bounds, SlotsSound
<1>2. faults' \in 0..MaxFaults /\ overdrawn' <= faults'
  BY <1>1
<1>3. dest.id \in Nat /\ Cardinality(delivered) \in Nat /\ dest.id <= faults + Cardinality(delivered)
  BY SlotsFinite, FS_Subset, FS_CardinalityType DEF Shapes, Bounds
<1>4. \A k \in Job : source[k] \in Nat /\ source[k] <= 1 + faults
  BY Unmoved DEF Sound, Typed, Version, Bounds
<1>5. UNCHANGED <<dest, delivered, source>>
  BY DEF OpenSaveFails, files
<1>6. dest'.id <= faults' + Cardinality(delivered')
  BY <1>1, <1>3, <1>5
<1>7. \A k \in Job : source'[k] <= 1 + faults'
  BY <1>1, <1>4, <1>5
<1> QED BY <1>2, <1>6, <1>7 DEF Bounds

LEMMA RenameCounted ==
    ASSUME Shapes, JobsSound, Bounds, NEW j \in Job, RunRenames(j)
    PROVE  Bounds'
<1>1. Sound(j, job[j], disk[j], stage[j], source[j], delivered, discarded, mutating, dest.id)
      /\ job[j].ck.target \in Nat /\ dest.id \in Nat
  BY Unmoved DEF CheckpointType, Shapes
<1>2. j \notin delivered
  BY <1>1 DEF RunRenames, Sound, Aimed
<1>3. IsFiniteSet(delivered) /\ Cardinality(delivered \cup {j}) = Cardinality(delivered) + 1
      /\ Cardinality(delivered) \in Nat
  BY <1>2, SlotsFinite, FS_Subset, FS_AddElement, FS_CardinalityType DEF Shapes
<1>4. delivered' = delivered \cup {j} /\ dest'.id = dest.id + 1 /\ UNCHANGED <<source, overdrawn, faults>>
  BY DEF RunRenames, outside
<1> QED BY <1>1, <1>3, <1>4 DEF Bounds

LEMMA FaultCounted ==
    ASSUME Shapes, JobsSound, Bounds, SlotsSound, (\E j \in Copy : SourceChanges(j)) \/ DestChanges \/ Crash
    PROVE  Bounds'
<1>1. /\ faults < MaxFaults /\ faults' = faults + 1 /\ faults \in Nat /\ MaxFaults \in Nat
      /\ faults' \in 0..MaxFaults
  BY TransferAssumption DEF SourceChanges, DestChanges, Crash, Fault, Bounds
<1>2. dest.id \in Nat /\ Cardinality(delivered) \in Nat /\ UNCHANGED delivered
  BY SlotsFinite, FS_Subset, FS_CardinalityType DEF Shapes, SourceChanges, DestChanges, Crash, files
<1>3. dest'.id = dest.id \/ dest'.id = dest.id + 1
  BY DEF SourceChanges, DestChanges, Crash, files
<1>4. \A k \in Job : source[k] \in Nat /\ (source'[k] = source[k] \/ source'[k] = source[k] + 1)
  <2> SUFFICES ASSUME NEW k \in Job
               PROVE  source[k] \in Nat /\ (source'[k] = source[k] \/ source'[k] = source[k] + 1)
    OBVIOUS
  <2>1. source[k] \in Version
    BY Unmoved DEF Sound, Typed
  <2>2. UNCHANGED source \/ \E j \in Copy : source' = [source EXCEPT ![j] = @ + 1]
    BY DEF SourceChanges, DestChanges, Crash
  <2> QED BY <2>1, <2>2 DEF Version, Shapes
<1>5. overdrawn' <= faults'
  <2>1. overdrawn' = overdrawn \/ overdrawn' = 0
    BY DEF SourceChanges, DestChanges, Crash
  <2>2. overdrawn \in Nat /\ overdrawn <= faults
    BY DEF SlotsSound, Bounds
  <2> QED BY <1>1, <2>1, <2>2
<1> QED BY <1>1, <1>2, <1>3, <1>4, <1>5 DEF Bounds

LEMMA AsksInv ==
    ASSUME TransfersSound, NEW x \in Caller, Asks(x)
    PROVE  TransfersSound'
<1>1. Shapes /\ Bounds /\ JobsSound /\ CallersSound /\ SlotsSound
  BY DEF TransfersSound
<1>2. Bounds'
  <2>1. ~OpenSaveFails(x)
    BY DEF Asks, CopyBegins, Resume, Restart, Resolve, UploadBegins, ResumeUpload, Stop, Idles,
           OpenSaveFails
  <2> QED BY <1>1, <2>1, RequestsLeaveFiles, BoundsKept
<1>3. CASE \E j \in Copy : CopyBegins(x, j)
  BY <1>1, <1>2, <1>3, CopyBeginsSound, CopyBeginsKeeps DEF TransfersSound
<1>4. CASE \E j \in Copy : Resume(x, j)
  BY <1>1, <1>2, <1>4, ResumeSound, ResumeKeeps DEF TransfersSound, Job
<1>5. CASE \E j \in Copy : Restart(x, j)
  <2>1. UNCHANGED <<job, disk, files, source, mutating>> /\ caller' = [y \in Caller |-> caller'[y]]
    BY <1>1, <1>5 DEF Restart, Call, outside, Shapes
  <2> QED BY <1>1, <1>2, <1>5, <2>1, StillSound, RestartKeeps DEF TransfersSound
<1>6. CASE \E j \in Copy : Resolve(x, j)
  BY <1>1, <1>2, <1>6, ResolveSound, ResolveKeeps DEF TransfersSound
<1>7. CASE \E j \in Upload : UploadBegins(x, j)
  BY <1>1, <1>2, <1>7, UploadBeginsSound, UploadBeginsKeeps DEF TransfersSound
<1>8. CASE \E j \in Upload : ResumeUpload(x, j)
  <2>1. UNCHANGED <<job, disk, files, source, mutating>> /\ caller' = [y \in Caller |-> caller'[y]]
    BY <1>1, <1>8 DEF ResumeUpload, Call, outside, Shapes
  <2> QED BY <1>1, <1>2, <1>8, <2>1, StillSound, ResumeUploadKeeps DEF TransfersSound
<1>9. CASE \E j \in Job : Stop(x, j, "pause") \/ Stop(x, j, "cancel")
  BY <1>1, <1>2, <1>9, StopSound, StopKeeps DEF TransfersSound
<1> QED BY <1>3, <1>4, <1>5, <1>6, <1>7, <1>8, <1>9 DEF Asks

LEMMA AnswersInv ==
    ASSUME TransfersSound, NEW x \in Caller, Answers(x)
    PROVE  TransfersSound'
<1>1. Shapes /\ Bounds /\ JobsSound /\ CallersSound /\ SlotsSound
  BY DEF TransfersSound
<1>2. Bounds'
  BY <1>1, RequestsLeaveFiles, BoundsKept, SaveFailureCounted
<1>3. caller[x].step # "idle"
  BY DEF Answers, Schedules, StopTakes, Cleans, Throws, RestartCleans, RestartQueues, Erases,
         OpenTakes, OpenSucceeds, OpenReturns, OpenFails, OpenSaveFails
<1> DEFINE j == caller[x].job
<1>4. /\ j \in Job /\ status(j) # "none"
      /\ caller[x].step \in {"erasing", "opening", "announcing"} => j \in Upload
      /\ caller[x].step \in {"restarting", "resetting"} => j \in Copy /\ job[j].ck.plan = "made"
      /\ caller[x].step = "resetting" => j \in discarded
      /\ caller[x].step = "opening" => ~job[j].busy
      /\ caller[x].step = "announcing" => job[j].step \in {"opened", "none"}
  BY <1>1, <1>3, CallerKnows DEF Opens, Settled
<1>5. CASE Schedules(x)
  BY <1>1, <1>2, <1>4, <1>5, SchedulesSound, SchedulesKeeps DEF TransfersSound
<1>6. CASE StopTakes(x)
  BY <1>1, <1>2, <1>4, <1>6, StopTakesSound, StopTakesKeeps DEF TransfersSound
<1>7. CASE Cleans(x)
  BY <1>1, <1>2, <1>4, <1>7, CleansSound, CleansKeeps DEF TransfersSound
<1>8. CASE Throws(x)
  <2>1. UNCHANGED <<job, disk, files, source, mutating>> /\ caller' = [y \in Caller |-> caller'[y]]
    BY <1>1, <1>8 DEF Throws, Return, outside, Shapes
  <2> QED BY <1>1, <1>2, <1>8, <2>1, StillSound, ThrowsKeeps DEF TransfersSound
<1>9. CASE RestartCleans(x)
  BY <1>1, <1>2, <1>4, <1>9, RestartCleansSound, RestartCleansKeeps DEF TransfersSound
<1>10. CASE RestartQueues(x)
  <2>1. caller[x].step = "resetting"
    BY <1>10 DEF RestartQueues
  <2> QED BY <1>1, <1>2, <1>4, <1>10, <2>1, RestartQueuesSound, RestartQueuesKeeps DEF TransfersSound
<1>11. CASE Erases(x)
  <2>1. caller[x].step = "erasing"
    BY <1>11 DEF Erases
  <2> QED BY <1>1, <1>2, <1>4, <1>11, <2>1, ErasesSound, ErasesKeeps DEF TransfersSound
<1>12. CASE OpenTakes(x)
  <2>1. UNCHANGED <<job, disk, files, source, mutating>> /\ caller' = [y \in Caller |-> caller'[y]]
    BY <1>1, <1>12 DEF OpenTakes, Return, Goes, Call, outside, Shapes
  <2> QED BY <1>1, <1>2, <1>12, <2>1, StillSound, OpenTakesKeeps DEF TransfersSound
<1>13. CASE OpenSucceeds(x)
  <2>1. caller[x].step = "opening"
    BY <1>13 DEF OpenSucceeds
  <2> QED BY <1>1, <1>2, <1>4, <1>13, <2>1, OpenSucceedsSound, OpenSucceedsKeeps DEF TransfersSound
<1>14. CASE OpenFails(x)
  BY <1>1, <1>2, <1>4, <1>14, OpenFailsSound, OpenFailsKeeps DEF TransfersSound
<1>15. CASE OpenReturns(x)
  <2>1. caller[x].step = "announcing"
    BY <1>15 DEF OpenReturns
  <2> QED BY <1>1, <1>2, <1>4, <1>15, <2>1, OpenReturnsSound, OpenReturnsKeeps DEF TransfersSound
<1>16. CASE OpenSaveFails(x)
  <2>1. caller[x].step = "announcing"
    BY <1>16 DEF OpenSaveFails
  <2> QED BY <1>1, <1>2, <1>4, <1>16, <2>1, OpenSaveFailsSound, OpenSaveFailsKeeps DEF TransfersSound
<1> QED BY <1>5, <1>6, <1>7, <1>8, <1>9, <1>10, <1>11, <1>12, <1>13, <1>14, <1>15, <1>16 DEF Answers

LEMMA RunsInv ==
    ASSUME TransfersSound, NEW j \in Job, Works(j) \/ ChunkWrites(j) \/ Finish(j)
    PROVE  TransfersSound'
<1>1. Shapes /\ Bounds /\ JobsSound /\ CallersSound /\ SlotsSound
  BY DEF TransfersSound
<1>2. Bounds'
  BY <1>1, RunsLeaveFiles, BoundsKept, RenameCounted
<1>3. \/ RunPrepares(j) \/ RunChecks(j) \/ RunWrites(j) \/ RunAcks(j) \/ RunVerifies(j)
      \/ RunLocks(j) \/ RunRenames(j) \/ RunCommits(j) \/ RunCompletes(j) \/ RunFails(j)
      \/ ChunkWrites(j) \/ ChunkAcks(j) \/ Finish(j)
      \/ RunEnds(j) \/ ChunkFails(j) \/ ChunkGivesUp(j) \/ FinishFails(j) \/ FinishGivesUp(j)
  BY DEF Works, RunStep
<1>4. CallersSound' /\ SlotsSound'
  BY <1>1, <1>3, RunKeeps, RunEndsKeeps, ChunkFailsKeeps, ChunkGivesUpKeeps, FinishFailsKeeps,
     FinishGivesUpKeeps
<1>5. JobsSound' /\ Shapes'
  BY <1>1, <1>3, RunPreparesSound, RunChecksSound, RunWritesSound, RunAcksSound, RunVerifiesSound,
     RunLocksSound, RunRenamesSound, RunCommitsSound, RunCompletesSound, RunFailsSound,
     ChunkWritesSound, ChunkAcksSound, FinishSound, RunEndsSound, ChunkFailsSound, ChunkGivesUpSound,
     FinishFailsSound, FinishGivesUpSound
<1> QED BY <1>2, <1>4, <1>5 DEF TransfersSound

LEMMA FaultsInv ==
    ASSUME TransfersSound, (\E j \in Copy : SourceChanges(j)) \/ DestChanges \/ Crash
    PROVE  TransfersSound'
<1>1. Shapes /\ Bounds /\ JobsSound /\ CallersSound /\ SlotsSound
  BY DEF TransfersSound
<1>2. Bounds'
  BY <1>1, FaultCounted
<1>3. CASE (\E j \in Copy : SourceChanges(j)) \/ DestChanges
  <2>1. Forward /\ Steady /\ UploadsRest /\ UNCHANGED <<caller, active, overdrawn>>
    BY <1>3 DEF SourceChanges, DestChanges, files, Forward, Onward, Steady, UploadsRest, Stays
  <2>2. CallersSound' /\ SlotsSound'
    BY <1>1, <2>1, CallersKept, SlotsKept
  <2> QED BY <1>1, <1>2, <1>3, <2>2, SourceChangesSound, DestChangesSound DEF TransfersSound
<1>4. CASE Crash
  BY <1>1, <1>2, <1>4, CrashSound, CrashKeeps DEF TransfersSound
<1> QED BY <1>3, <1>4

LEMMA InitSound ==
    ASSUME Init
    PROVE  TransfersSound
<1>1. /\ 1 \in Name /\ 0 \in 0..Size /\ <<>> \in Chunks /\ Len(<<>>) = 0 /\ 1 \in Version
      /\ \A j \in Job : j # Nil
  BY EmptyContent, TransferAssumption DEF Name, Version, Job
<1>2. NoCheckpoint \in CheckpointType /\ Idle \in RunType
  BY <1>1 DEF NoCheckpoint, CheckpointType, Status, Idle, RunType, Debt
<1>3. ASSUME NEW j \in Job PROVE Sound(j, Idle, NoCheckpoint, stage[j], 1, {}, {}, Nil, 0)
  <2>1. Idle.ck = NoCheckpoint /\ Idle.step = "none" /\ ~Idle.busy /\ Idle.handle = 1 /\ Idle.owes = "none"
    BY DEF Idle
  <2>2. /\ NoCheckpoint.status = "none" /\ NoCheckpoint.plan = "ask" /\ ~NoCheckpoint.conflict
        /\ NoCheckpoint.target = 0 /\ NoCheckpoint.version = 0 /\ NoCheckpoint.prefix = <<>>
        /\ ~NoCheckpoint.complete /\ NoCheckpoint.name = 1
    BY DEF NoCheckpoint
  <2>3. stage[j] \in [Name -> {Nil} \cup Chunks] /\ \A n \in Name : stage[j][n] = Nil
    BY DEF Init
  <2>4. Typed(Idle, NoCheckpoint, stage[j], 1)
    BY <1>1, <1>2, <2>1, <2>3 DEF Typed
  <2>5. Placed(j, Idle, Nil) /\ Planned(j, Idle, NoCheckpoint)
    BY <1>1, <2>1, <2>2 DEF Placed, Planned, CopyStep, UploadStep
  <2>6. Truthful(j, Idle, NoCheckpoint, {}) /\ Aimed(j, Idle, {}, 0) /\ Full(Idle, stage[j])
    BY <2>1, <2>2 DEF Truthful, Aimed, Full
  <2>7. Kept(Idle, NoCheckpoint, stage[j], 1)
    BY <1>1, <2>1, <2>2, <2>3 DEF Kept, UploadStep
  <2> QED BY <2>4, <2>5, <2>6, <2>7 DEF Sound
<1>4. JobsSound
  BY <1>3 DEF JobsSound, Init
<1>5. Shapes
  BY <1>1 DEF Shapes, Init
<1>6. Bounds
  BY FS_EmptySet, TransferAssumption DEF Bounds, Init
<1>7. CallersSound
  BY TransferAssumption DEF CallersSound, CallerSound, CallType, Backed, NoCall, Opens, Init
<1>8. SlotsSound
  <2>1. Busy = {} /\ Opening = {}
    BY DEF Init, Idle, NoCall, Busy, Opening
  <2>2. Cardinality(Busy) = 0 /\ Cardinality(Opening) = 0 /\ active = 0 /\ overdrawn = 0
    BY <2>1, FS_EmptySet DEF Init
  <2>3. active + overdrawn = Cardinality(Busy) + Cardinality(Opening) /\ active <= MaxActive
    BY <2>2, TransferAssumption
  <2> QED BY <2>2, <2>3 DEF SlotsSound, SlotsAccounted, Busy, Opening
<1> QED BY <1>4, <1>5, <1>6, <1>7, <1>8 DEF TransfersSound

LEMMA NextSound ==
    ASSUME TransfersSound, [Next]_vars
    PROVE  TransfersSound'
<1>1. CASE \E x \in Caller : Asks(x) \/ Answers(x)
  BY <1>1, AsksInv, AnswersInv
<1>2. CASE \E j \in Job : Works(j) \/ ChunkWrites(j) \/ Finish(j)
  BY <1>2, RunsInv
<1>3. CASE (\E j \in Copy : SourceChanges(j)) \/ DestChanges \/ Crash
  BY <1>3, FaultsInv
<1>4. CASE UNCHANGED vars
  BY <1>4 DEF vars, TransfersSound, Shapes, Bounds, JobsSound, CallersSound, Backed, status,
              SlotsSound, SlotsAccounted
<1> QED BY <1>1, <1>2, <1>3, <1>4 DEF Next

(* All that is kept of a transfer, whatever the requests and faults. *)
THEOREM TransfersAlwaysSound == Spec => []TransfersSound
BY InitSound, NextSound, PTL DEF Spec

-----------------------------------------------------------------------------
(* The properties                                                          *)

(* The identity of a destination is bounded by what can change it. *)
LEMMA IdentityBound ==
    ASSUME Shapes, Bounds
    PROVE  \A i \in Nat : i <= dest.id => i \in Identity
<1>1. /\ IsFiniteSet(Job) /\ delivered \subseteq Job /\ dest.id \in Nat
      /\ dest.id <= faults + Cardinality(delivered) /\ faults \in Nat /\ faults <= MaxFaults
      /\ MaxFaults \in Nat /\ MaxNames \in Nat /\ MaxNames >= 1
  BY SlotsFinite, TransferAssumption DEF Shapes, Bounds
<1> DEFINE c == Cardinality(Job)
<1>2. c \in Nat /\ Cardinality(delivered) \in Nat /\ Cardinality(delivered) <= c
  BY <1>1, FS_Subset, FS_CardinalityType
<1> HIDE DEF c
<1>3. c * MaxNames \in Nat /\ c <= c * MaxNames
  BY <1>1, <1>2
<1> DEFINE m == c * MaxNames
<1>4. m \in Nat /\ c <= m /\ Identity = 0..(1 + MaxFaults + m)
  BY <1>3 DEF Identity, c
<1> HIDE DEF m
<1> QED BY <1>1, <1>2, <1>4

(* What a checkpoint promises is the beginning of the staging file. *)
LEMMA CoversPrefix ==
    ASSUME NEW content \in Chunks, NEW prefix \in Chunks, Covers(content, prefix)
    PROVE  SubSeq(content, 1, Len(prefix)) = prefix
<1>1. content \in Seq(Version) /\ prefix \in Seq(Version) /\ Len(prefix) \in Nat /\ Len(content) \in Nat
  BY ChunksAre
<1>2. Len(prefix) <= Len(content) /\ \A i \in 1..Len(prefix) : content[i] = prefix[i]
  BY DEF Covers
<1> DEFINE sub == SubSeq(content, 1, Len(prefix))
<1>3. sub \in Seq(Version) /\ Len(sub) = Len(prefix) /\ \A i \in 1..Len(prefix) : sub[i] = content[i]
  BY <1>1, <1>2
<1> HIDE DEF sub
<1>4. sub = prefix
  BY <1>1, <1>2, <1>3
<1> QED BY <1>4 DEF sub

LEMMA SoundTypes ==
    ASSUME TransfersSound
    PROVE  TypeOK
<1>1. Shapes /\ Bounds /\ JobsSound /\ CallersSound /\ SlotsSound
  BY DEF TransfersSound
<1>2. ASSUME NEW j \in Job
      PROVE  /\ job[j] \in [ck : Checkpoint, step : {"none"} \cup CopyStep \cup FinishStep \cup UploadStep,
                            busy : BOOLEAN, owes : Debt, aborted : BOOLEAN, handle : Name,
                            chunk : {0} \cup Version, sent : 0..Size]
             /\ disk[j] \in Checkpoint /\ stage[j] \in [Name -> {Nil} \cup Chunks] /\ source[j] \in Version
  <2>1. /\ job[j] \in RunType /\ job[j].ck \in CheckpointType /\ disk[j] \in CheckpointType
        /\ stage[j] \in [Name -> {Nil} \cup Chunks] /\ source[j] \in Version
        /\ job[j].ck.target <= dest.id /\ disk[j].target = job[j].ck.target
    BY <1>1, Unmoved DEF Sound, Typed, Aimed, Planned
  <2>2. job[j].ck.target \in Identity /\ disk[j].target \in Identity
    BY <1>1, <2>1, IdentityBound DEF CheckpointType
  <2>3. job[j].ck \in Checkpoint /\ disk[j] \in Checkpoint
    BY <2>1, <2>2 DEF CheckpointType, Checkpoint
  <2> QED BY <2>1, <2>3 DEF RunType
<1>3. dest \in [id : Identity, chunks : Chunks]
  BY <1>1, IdentityBound DEF Shapes
<1>4. active \in -MaxFaults..MaxActive /\ overdrawn \in 0..MaxFaults
  <2>1. /\ active + overdrawn = Cardinality(Busy) + Cardinality(Opening) /\ active <= MaxActive
        /\ active \in Int /\ overdrawn \in Nat /\ overdrawn <= faults /\ faults \in 0..MaxFaults
    BY <1>1 DEF SlotsSound, SlotsAccounted, Bounds, Busy, Opening
  <2> QED BY <2>1, SlotsFinite, TransferAssumption
<1>5. \A x \in Caller : caller[x] \in CallType
  BY <1>1 DEF CallersSound, CallerSound
<1> QED BY <1>1, <1>2, <1>3, <1>4, <1>5 DEF TypeOK, Shapes, Bounds, CallType

(* Jobs, files and requests keep their types, and identities their bound. *)
THEOREM TransferTypes == Spec => []TypeOK
BY TransfersAlwaysSound, SoundTypes, PTL

(* The slot counter is the number of the jobs and openings that hold a     *)
(* slot, less those that were given back twice, however many requests,     *)
(* runs and failures take and return them.                                 *)
THEOREM SlotsAlwaysAccounted == Spec => []SlotsAccounted
<1>1. TransfersSound => SlotsAccounted
  BY DEF TransfersSound, SlotsSound
<1> QED BY <1>1, TransfersAlwaysSound, PTL

(* A transfer shown or saved as completed was delivered, or skipped. *)
THEOREM CompletedWasDelivered == Spec => []CompletedIsDelivered
<1>1. ASSUME TransfersSound PROVE CompletedIsDelivered
  <2>1. ASSUME NEW j \in Job PROVE Truthful(j, job[j], disk[j], delivered)
    BY <1>1 DEF TransfersSound, JobsSound, Sound
  <2> QED BY <2>1 DEF Truthful, CompletedIsDelivered
<1> QED BY <1>1, TransfersAlwaysSound, PTL

(* A crash loses no acknowledged chunk of a job that nobody discarded. *)
THEOREM AckedAlwaysKept == Spec => []AckedIsKept
<1>1. ASSUME TransfersSound PROVE AckedIsKept
  <2>1. SUFFICES ASSUME NEW j \in Job \ (delivered \cup discarded), disk[j].prefix # <<>>
                 PROVE  /\ stage[j][1] # Nil /\ Len(stage[j][1]) >= Len(disk[j].prefix)
                        /\ SubSeq(stage[j][1], 1, Len(disk[j].prefix)) = disk[j].prefix
    BY DEF AckedIsKept
  <2>2. Sound(j, job[j], disk[j], stage[j], source[j], delivered, discarded, mutating, dest.id)
    BY <1>1 DEF TransfersSound, JobsSound
  <2>3. Kept(job[j], disk[j], stage[j], source[j]) /\ 1 \in Name
    BY <2>2, TransferAssumption DEF Sound, Name
  <2>4. stage[j][1] # Nil /\ stage[j][1] \in Chunks /\ disk[j].prefix \in Chunks
    BY <2>1, <2>2, <2>3 DEF Sound, Typed, Kept, CheckpointType
  <2>5. Covers(stage[j][1], disk[j].prefix)
    BY <2>3, <2>4 DEF Kept
  <2>6. Len(disk[j].prefix) \in Nat /\ Len(stage[j][1]) \in Nat /\ Len(disk[j].prefix) <= Len(stage[j][1])
    BY <2>4, <2>5, ChunksAre DEF Covers
  <2> QED BY <2>4, <2>5, <2>6, CoversPrefix
<1> QED BY <1>1, TransfersAlwaysSound, PTL

(* The destination is replaced once by a transfer, while it is the file    *)
(* that the user saw, by a whole file that is one version of the source.   *)
LEMMA RenameKeeps ==
    ASSUME TransfersSound, NEW j \in Job, RunRenames(j)
    PROVE  /\ mutating = j /\ j \notin delivered /\ dest.id = job[j].ck.target
           /\ Whole(dest'.chunks) /\ (j \notin discarded => ~Spliced(dest'.chunks))
<1> DEFINE r == job[j]
           content == stage[j][r.ck.name]
<1>1. /\ Sound(j, r, disk[j], stage[j], source[j], delivered, discarded, mutating, dest.id)
      /\ r.step = "renaming" /\ content # Nil /\ dest'.chunks = content
      /\ r.ck.name \in Name /\ dest.id \in Nat /\ r.ck.target \in Nat /\ r.ck.version \in Nat
  BY Unmoved DEF TransfersSound, JobsSound, RunRenames, Staged, CheckpointType, Shapes, Version
<1>2. content \in Chunks
  BY <1>1 DEF Sound, Typed
<1>3. mutating = j /\ j \notin delivered /\ dest.id = r.ck.target /\ Len(content) = Size
  BY <1>1 DEF Sound, Placed, Aimed, Full
<1>4. ASSUME j \notin discarded PROVE ~Spliced(content)
  <2>1. r.ck.name = 1 /\ Between(content, r.ck.version, r.ck.version)
    BY <1>1, <1>3, <1>4 DEF Sound, Kept
  <2>2. content \in Seq(Version) /\ Version \subseteq Nat
    BY <1>2, ChunksAre DEF Version
  <2>3. ASSUME NEW i \in DOMAIN content PROVE content[i] = r.ck.version
    <3>1. i \in 1..Len(content) /\ content[i] \in Version
      BY <2>2
    <3>2. content[i] \in Nat /\ r.ck.version <= content[i] /\ content[i] <= r.ck.version
      BY <2>1, <2>2, <3>1 DEF Between
    <3> QED BY <1>1, <3>2
  <2> QED BY <2>3 DEF Spliced
<1> QED BY <1>1, <1>3, <1>4 DEF Whole

(* A transfer replaces the destination as it was planned only: once, while *)
(* it is the file the user saw, by a whole file of one version (unless a   *)
(* restart went for it), however many transfers share the destination.     *)
THEOREM DestinationAlwaysKept == Spec => DestinationKept
<1> DEFINE Kind == \A j \in Job : mutating = j /\ dest' # dest =>
                       /\ j \notin delivered /\ dest.id = job[j].ck.target /\ Whole(dest'.chunks)
                       /\ j \notin discarded => ~Spliced(dest'.chunks)
<1>1. ASSUME TransfersSound, [Next]_vars PROVE Kind
  <2>1. SUFFICES ASSUME NEW j \in Job, mutating = j, dest' # dest PROVE RunRenames(j)
    BY <1>1, RenameKeeps
  <2>2. Nil # j
    BY TransferAssumption DEF Job
  <2>3. CASE \E x \in Caller : Asks(x) \/ Answers(x)
    BY <2>1, <2>3, RequestsLeaveFiles
  <2>4. CASE \E k \in Job : Works(k) \/ ChunkWrites(k) \/ Finish(k)
    BY <1>1, <2>1, <2>4, RunsLeaveFiles, RenameKeeps
  <2>5. CASE (\E k \in Copy : SourceChanges(k)) \/ DestChanges \/ Crash \/ UNCHANGED vars
    BY <2>1, <2>2, <2>5 DEF SourceChanges, DestChanges, Crash, files, vars
  <2> QED BY <1>1, <2>3, <2>4, <2>5 DEF Next
<1>2. TransfersSound /\ [Next]_vars => [Kind]_vars
  BY <1>1
<1> HIDE DEF Kind
<1>3. Spec => [][Kind]_vars
  BY <1>2, TransfersAlwaysSound, PTL DEF Spec
<1> QED BY <1>3 DEF Kind, DestinationKept

=============================================================================
