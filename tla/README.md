# Verification of eizhu

eizhu is a desktop SSH and SFTP client with an account that keeps the user's
servers, groups, credentials and snippets in step between devices. This
directory holds TLA+ models of its core logic, TLC runs that check them on small
instances, and TLAPS proofs of what holds for every instance. Paths below are
relative to the repository; `core/` stands for `packages/core/src/`.

## The system

```
 web interface ── preload ── Electron main ──── runtime process ──┬─ database worker (SQLite)
   (React)                   windows, updates,   RuntimeService    └─ compute worker (crypto)
                             network, relays     account, sync, ssh,
                                                 sftp, agent, archive
```

Everything that decides something runs in the runtime process. Its services are
single-threaded TypeScript: they interleave at every `await`. The database worker
executes one operation at a time, each in one SQLite transaction, so an operation
is atomic however many rows it touches, and a crash falls between operations.

| Component | State it keeps | Operations | Interacts with | What is hard | What makes it correct |
|---|---|---|---|---|---|
| Synced items (`core/sync/model.ts`, `core/local/model.ts`) | none | equality, references, graph check, put | every service that writes items | partial application of rows | references resolve, no cycles |
| Local store (`core/database/local-store.ts`) | entities, outbox, revision | commit of a local transaction, apply of a remote one | sync repository (same connection) | captured and uncaptured writes | entities and outbox move together |
| Sync repository (`core/sync/repository.ts`) | shadow, conflicts, frozen request, cursor, epoch, error | apply, draft, freeze, ack, thaw, resolve, preview, bootstrap | local store; called by the sync service | edits between any two calls, partial application | no edit lost or overwritten, shadow exact, conflicts current |
| Sync service (`core/sync/service.ts`) | one running operation, timer, stop flag, switch | cycle, pull, sendFrozen, snapshot, resolve, setEnabled, timers, restart | repository through the worker, cloud over HTTP, account tokens | lost answers, resends, crashes, paging, epochs, pauses | uploads take effect once, everything settles in the end |
| Cloud protocol (`core/sync/fixture.ts`) | batches, items, requests, epoch | push, changes, requests, snapshots | sync services of all devices | repeated and late pushes | one push at a time, each once |
| Event relay (`core/sync/relay.ts`) | one stream, chunk sequence | open, acknowledge, abort | main process and runtime | ten-second abort against a late acknowledgement | one unacknowledged chunk, no leak |
| Account (`core/account/service.ts`) | session with tokens, one refresh under way | login, refresh, authorized requests, logout, password change | sync, main process | one-time tokens, expiry, logout during refresh | a token is used once, a logout is final |
| Worker client (`core/workers/client.ts`) | queue, active job | call, cancel, close | every service | timeout, cancellation, close barrier | each call settles exactly once |
| SFTP transfers (`core/sftp/service.ts`) | jobs with checkpoints, five slots | create, run, pause, resume, cancel, upload chunks | SSH sessions, database | crash between rename and checkpoint, races of resume | bytes verified, target kept until commit |
| SSH sessions, terminal stream, tunnels (`core/ssh/`) | connections, ring buffer, credit, peers | connect, bind, output, acknowledge, close | web interface over message ports | flow control, rebinding, closing | no gap unannounced, no stall, no leak |
| AI agent (`core/agent/`) | runs, approvals | start, approve, cancel, execute | SSH sessions, database | expiry against approval | nothing runs unapproved |
| Backup archive (`core/archive/`) | exclusive work, schedule | backup, providers, OAuth | database, compute worker, clouds | edits during a backup | what changed stays due |
| Runtime host, workspace switch (`apps/desktop/src/main/`) | runtime process, generation | start, request, replace, stop | runtime process | deadlines, rollback, forced exit | one runtime per database |
| Desktop shell and web interface (`apps/`) | windows, views | presentation | runtime host | I/O | not a subject of the models |

Five subjects are modelled, each where several parties meet over something the
user cannot afford to lose: account sync (two devices, a server, a user and
crashes over one set of items; `docs/DATA_SYNC.md` makes precise promises), the
passage of calls through processes and threads that are replaced and die, the
one-time tokens of a session, the files a transfer replaces, and the flow of
terminal output. They meet through narrow interfaces: a sync request is a call
with a token, each an action of the other models; so they are checked apart.

## The models

```
SyncItems <- SyncRepository <- SyncCloud <- SyncEngine <- SyncHistory <- MCSyncEngine
                                               |              |
                                        SyncEngineProofs <- SyncShadowProofs <- SyncRequestProofs
                                                                               <- SyncConflictProofs

WorkerClient ..> RuntimeHost <- MCRuntimeHost          AccountSession <- MCAccountSession
CallOutcomes ..>             <- RuntimeHostProofs                     <- AccountSessionProofs
                                                       SftpTransfer   <- MCSftpTransfer
(..> INSTANCE, <- EXTENDS)                                            <- SftpTransferProofs
                                                       TerminalStream <- MCTerminalStream
                                                                      <- TerminalStreamProofs
```

### Account sync

**SyncItems** — items, contents, references. A content is a class of entities
`equal` cannot tell apart; all the engine asks of it is equality and references.
`GraphValid` is `validateGraph`; `Reaches` is the reference walk in `draft`.

**SyncRepository** — the database as a record and each repository operation as an
operator on it; an operation that may throw has a predicate saying when it does
not. `ApplyValues` is the centre: from rows, outbox, shadow and conflicts it
decides which rows are stale (`Stale`), confirm a local edit (`Caught`), let one
rebase (`Rebased`), clash with one (`Clashing`) or may be applied (`Candidates`),
and of the last which can be without breaking a reference (`Accepts`). `Draft`,
`Freeze`, `Ack` and `Thaw` are the life of an upload; `SettleOne` and
`SettleBatch` are `resolve` and `resolveBatch`. The outbox keeps one row per item,
the newest: no code reads an older one, and clearing a row clears the older ones.

**SyncCloud** — the server, translated from `fixture.ts`, the peer the
repository's own acceptance tests run the engine against. The production server
is not in the repository; what is checked is the client against this protocol.

**SyncEngine** — one device. `pc` is what the running operation awaits, `job` what
it holds in memory. The code's `serial` queue is the guard `pc = "idle"` on
whatever starts an operation; each `await` ends a step, and between two steps the
user may edit, the cloud may handle a push, another device may push, the process
may crash.

| Code | Action |
|---|---|
| local create, update, delete, import | `Edit` |
| `setEnabled`, `sync.now` | `SetEnabled`, `SyncNow` |
| timer of `wake`, `cycle` up to its first request | `StartCycle` |
| `sendFrozen` with recovery: GET requests, POST push | `Recover`, `AnswerArrives`, `AckRequest` |
| `pull`: GET changes, apply of each batch, end of page | `GetChanges`, `ApplyBatch`, `FinishPage` |
| `snapshot` and its apply | `TakeSnapshot`, `RestoreSnapshot` |
| draft, encrypt, freeze, POST push | `MakeDraft`, `FreezeAndSend` |
| catch of ITEM_CONFLICT, WATERMARK_CHANGED, EPOCH_CHANGED | `ThawRequest` |
| `resolveConflict(s)`: question, recover, pull, resolve | `Ask`, then the above, `Resolve` |
| `handle` on any failed request | `RequestFails`, operator `Handle` |
| periodic check and event stream; retry timer | `Hint`; `RetryElapses` |
| process death, `restore`, `start` | `Crash` |
| cloud handling, losing, repeating a push | `CloudPush`, `LosePush` |
| another device; the cloud trimming its log | `PeerPush`; `ExpireLog` |

`wire` is the set of pushes in flight: a request the client gave up on stays
there, so it may arrive after a timeout, a crash or a restart, or twice. `basis`
is a history variable: the cloud content each pending edit was made on.

**SyncHistory** — no behaviour of its own, only invariants. `HistoryAgrees` says how
the frozen request, the pushes in flight, the confirmation or snapshot in hand and
the shadow relate to the cloud's log; `RequestsAgree` adds generations and refused
requests, `ConflictsAgree` conflicts and the uploads drafted beside them, and
`EditsAgree` the user's edits, under the premise `Undisturbed`.

### Calls, processes and threads

**WorkerClient** — `core/workers/client.ts` as operators on a record: a bounded
queue, one active job, abort, answer, the timeout that gives up on the thread, the
close barrier behind every accepted job.

**RuntimeHost** — main, the business processes it starts one after another and two
WorkerClients inside each. A call goes from a window to main (`Request`), to the
process's inbox (`Dispatch`), to a worker (`Perform`), back (`Settle`, `Deliver`).
Beside it run deadlines and deaths, and the replacement of one process by the next:

| Code | Action |
|---|---|
| `RuntimeHost.request` and the context check of `index.ts:745` | `Request` |
| `answer` of `runtime/index.ts`, worker `call`, its answer, main's `message` handler | `Dispatch`, `Perform`, `Settle`, `Deliver` |
| deadlines of a call and of a worker's job; a thread's end | `RequestTimeout`, `WorkerTimeout`, `WorkerTerminates` |
| `stopProcess`: shutdown message, scope closed in reverse order, grace, kill, exit | `BeginStop`, `HandleShutdown`, `CloseDatabase`, `GraceTimeout`, `Exit`, `StopFails` |
| a process that dies of itself | `Crash` |
| `replaceWorkspaceRuntime`: prepare, close, start, commit, take over | `ChangeAccount`, `ChangeBegins`, `ChangeRefused`, `StartCandidate`, `Ready`, `Deliver` of the commit |
| `restart` of the runtime | `RestartRuntime`, then as above, `ActivateRestarted` |
| failure: release the candidate, go back to the previous workspace, give up | `StartFails`, `ActivationFails`, `RollBack`, `SwitchFails` |

**CallOutcomes** — what a caller may rely on, in one page: performed at most once;
"value" means performed; a refusal means not, and never; "changed", which is
WORKSPACE_CHANGED, means either, but nothing more happens: main answers it to a
request of another workspace (`index.ts:744`) and, for SSH and SFTP operations
(`Guarded`), instead of the value of a call that was performed while its runtime was
replaced or unhealthy (`index.ts:340`, `362`; `Told`). Any other error leaves it
open. RuntimeHost implements it under `performed <- {c : written[c] # <<>>}`.

### Account sessions

**AccountSession** — the stored session, the server's view of its tokens and of
what was sent to it and given up on (`late`), the one shared refresh with its retry
and timer, calls that renew a refused token, login, logout, password change.

| Code (`core/account/service.ts`) | Action |
|---|---|
| `refresh`: read, request, compare-and-set, clear, backoff, reschedule | `FlightReads`, `FlightLost`, `FlightSaves`, `FlightRefused`, `FlightRetries`, `FlightSchedules` |
| timer of `schedule`, end of the backoff | `TimerFires`, `BackoffOver` |
| `authorized`: read, request, renew once, return | `CallStarts`, `CallReads`, `CallRenews`, `CallLost`, `CallSucceeds`, `CallRefused` |
| login | `LoginAnswered`, `AcceptLogin`, `LoginSchedules` |
| logout: wait for the refresh, tell the server, clear the tokens | `LogoutStarts`, `LogoutReads`, `LogoutAnswered`, `LogoutClears` |
| `changeAccount`: stop, open the offline space, whose commit deletes the session, or roll back | `LogoutHalts`, `LogoutCommits` |
| the sync switch; a new process | `SwitchSync`; `Restart` |
| the server (external) | `ServerRefreshes`, `ServerRefreshesLate`, `ServerAnswers`, `Disable`, `ComesDue` |

### File transfers

**SftpTransfer** — jobs with the checkpoint in memory and the one on disk, staging
files by name, the destination all of them share, the slot counter, the mutation
lock, and the requests under way, each at the await it stands at. The `Run…`
actions are the awaits of `run`; `Stop`, `StopTakes`, `Cleans` and `Throws` are
pause and cancel, which first wait for a run and then for the job's `serial` chain;
`Resume`, `Restart`, `Resolve`, `ResumeUpload` queue a job again; `Open…` and
`Chunk…` serve a page that uploads. An upload fails in two steps, as `uploadFailed`
does: `ChunkFails` and `FinishFails` give channel and slot back before "failed" is
saved, `ChunkGivesUp` and `FinishGivesUp` are what comes after the save (`owes`), the
second release by the `finally` of a finish (`service.ts:942`) included; requests come
in between. An upload that opens takes its slot (`OpenTakes`), then its channel
(`OpenSucceeds`), and learns last whether that was saved (`OpenReturns`,
`OpenSaveFails`). `Schedule` gives the free slots out wherever
the code calls `schedule`. `Crash` leaves what `restore` reads.

### Terminal output

**TerminalStream** — the ring of the latest bytes, batches, credit, acknowledgement,
pause of the shell, a page that binds and leaves, and the page's check that each
frame follows the last. Bytes are represented by their positions.

| Code | Action |
|---|---|
| `output` from the shell; from stderr or the agent's transcript | `ShellOutput`; `OtherOutput` |
| `bind`; a port's close; another shell after a reconnection | `Bind`; `PageCloses`; `ShellReplaced` |
| `flush`, on its timer | `Flush` |
| the page's `onmessage`; the host's | `PageTakes`; `AckTakes` |

Operators introduced by "A slip:" are plausible mistakes in the definition that
follows them. They are used to confirm that each property notices its mistake, and
by nothing in the specification.

## What the runs check

| Run | Instance | Distinct states | Result |
|---|---|---|---|
| `MCSyncEdits.cfg` | two items without references, two contents, all four choices, pushes lost and repeated, crashes; local revisions to 3, two batches from other devices | 235,389 | holds |
| `MCSyncRefs.cfg` | a group and a profile in it or outside, keep_local and use_cloud; revisions to 3, two batches | about 1.1 million | holds |
| `MCSyncEpochs.cfg` | one item, pages of two batches, expiry, replacements, crashes, one retryable and one fatal code, the switch; revisions to 2, two batches | 500,565 | holds |
| `MCSyncProgress.cfg` | one item, fairness, retryable failures, lost pushes and crashes without bound | 1,726 | holds |
| `MCLostEdit.cfg` | as MCSyncRefs, revisions to 5, use_cloud | stops at the violation | refuted |
| `MCCloudGraph.cfg` | as MCSyncRefs, revisions to 4, no choices | stops at the violation | refuted |
| `MCSilentStop.cfg` | one item, one retryable and one fatal code | stops at the violation | refuted |
| `MCRuntimeHost.cfg` | two calls, one for each thread, one of them guarded, two workspaces, a queue of one, three processes, one death; fairness | 175,233 | holds |
| `MCAccountSession.cfg` | one call, one login after the first, a token due once, one fault; fairness | 181,477 | holds |
| `MCSftpTransfer.cfg` | three scenes, files of two chunks, one slot, one fault: a copy and an upload, one request at a time; a copy, two requests at a time; an upload, two requests at a time | 1,812,017 | holds |
| `MCSplicedCopy.cfg` | as the second scene | stops at the violation | refuted |
| `MCTerminalStream.cfg` | ring of 5, batches of 2, credit 3, chunks of up to 5, 14 bytes, two pages; fairness | 58,117 | holds |

Of account sync:

* `PendingIsLocal`, `NoEditDropped`, `SyncedIsCloud`: no edit is overwritten,
  none leaves the outbox before its content was in the cloud or the user settled
  it, and nothing is silently different once there is nothing left to do.
* `ShadowIsCloudAtCursor`, `EpochIsCloudAtCursor`: the device's picture of the
  cloud is exactly the cloud's state at the device's cursor, however the rows came.
* `HistoryAgrees`: what the cloud has on record under a request's identity is that
  request, no two requests share one, a frozen request was made at the device's
  cursor and nothing is pulled before it is settled; the shadow included.
* `EditsBuildOnCloud`, `ConflictShowsCloud`, `ResolvesWhatWasSeen`: uploads are
  made on the content the device knows, and the user decides on what is shown.
* `AbandonedNeverApplies`: a push the device gave up on can change nothing later.
* `NoProtocolError`: against a correct server none of the engine's own consistency
  checks fails.
* `LocalGraphValid`, `UploadsAvoidConflicts`: references survive partial
  application; conflicted items and those that refer to them stay behind.
* `PausedFreezesNothing`: after a pause nothing new is uploaded.
* `FrozenSettles`, `EditsReachCloud`: progress.

Of calls and processes:

* `SingleOwner`: two processes never hold the database at once, whichever of them
  hangs, is killed or refuses to be stopped (`abandoned` candidates excepted, below).
* `WritesStayHome`: a call is performed at most once, and in the workspace the
  window showed, although a switch may open another while the call is on its way.
* `ActiveIsRunning`: what the next start would open is what is in service, although
  the commit of a failed switch may be performed late.
* `OutcomesAreTrue`: the refinement of CallOutcomes. A performed call may be answered
  WORKSPACE_CHANGED, so that code promises nothing but that all is over.
* `CallsReturn`, `SwitchEnds`: every call comes back, every replacement ends.

Of sessions:

* `OneTimeTokens`: no token is presented twice at once, or after its answer.
* `HoldsLiveToken`: the stored token is the live one, unless the login is revoked
  or the rotating answer is on its way or lost: no old answer overwrites a newer.
* `SessionStays`, `SyncChoiceStays`: a session ends only by an explicit refusal of
  its token, logout or a password change; refreshes, refusals, answers and logins
  leave the sync switch alone. The commit of a logout deletes the session and the
  switch with it (`account/repository.ts:186`), so the next login starts with sync
  off (`:169`).
* `RenewedOrEnded`, `CallsReturn`: a session near its expiry is renewed or ended
  whatever was lost; every call returns.

Of transfers:

* `SlotsAccounted`: the counter is what it counts, whatever ends a job, but for one
  case which the history variable `overdrawn` counts: a slot given back twice (below).
* `CompletedIsDelivered`: what is shown or saved as completed became the
  destination or was skipped at the user's wish.
* `AckedIsKept`: a crash loses no acknowledged chunk.
* `DestinationKept`: only a whole file replaces the destination, only the one the
  user agreed to replace, and no transfer does it twice; two transfers to one place
  included.

Of terminal output:

* `FramesFit`: every frame follows the last, jumps are announced, acknowledgements
  are never forged, the credit is kept.
* `CatchesUp`: a page that stays has shown all there is, and the shell goes on.

### What the refuted runs show

* **A waiting dependency conflict overwrites an edit** (`MCLostEdit.cfg`,
  `core/sync/repository.ts:508`). The group G is deleted here; meanwhile the cloud
  files profile P under G, so P's row waits as a dependency conflict. The user
  brings G back by an import and edits P. The next batch to arrive, about G, tries
  the waiting row again without looking at the outbox: P shows the cloud content
  while the outbox still holds the edit, and once that is uploaded device and
  cloud differ with nothing pending. `docs/DATA_SYNC.md:17`: remote application
  "不能直接覆盖本地编辑".
* **A deletion is uploaded under a conflicted reference** (`MCCloudGraph.cfg`,
  `repository.ts:582`). `draft` asks which conflicted items an upload refers to,
  not which conflicted items refer to what it deletes. `docs/DATA_SYNC.md:15`:
  "冲突及其关联依赖不上传".
* **A stop without a reason** (`MCSilentStop.cfg`, `service.ts:189`). `handle`
  stops automatic sync but leaves a wake already scheduled; the cycle it starts
  clears the error and not the stop. `docs/DATA_SYNC.md:19` promises a visible way
  to recover.

* **A restarted copy made of two versions** (`MCSplicedCopy.cfg`,
  `core/sftp/service.ts:816`). `resume` with restart asks whether the job is busy,
  then awaits its cleanup and a stat of the source. Meanwhile another request's
  `schedule` starts the queued job, which copies a chunk; the source changes; the
  restart overwrites the identity that the running copy will be compared with, and
  the last check passes. `docs/SFTP_API.md:28`: "源、暂存或目标变化会拒绝拼接/提交".

The other configurations stay below the bounds at which the first two happen, and
`DestinationKept` leaves out copies a restart went for, so that the other
properties are explored to the end.

### Observations no run is for

Met while modelling; each is a step of a model. None but the second slot below contradicts a
sentence of the repository strictly enough to be a finding.

* Main takes back service by a restart after a candidate's `close` was rejected,
  with the candidate perhaps still alive: the comment of `workspace-runtime.ts:25`
  then no longer holds (`abandoned`). The late exit of such a process marks its
  healthy successor failed. After `torn`, a restart opens the previous workspace
  without a commit.
* `changePassword` saves the session it read before its requests
  (`account/service.ts:487`), over a refresh or a switch in between.
* A slot given back by an upload that could not be opened, or by a cancel whose
  cleanup throws, is announced to nobody (`sftp/service.ts:1275`): a queued copy
  waits beside a free slot until the next event. A cancel may be undone by a restart
  that awaits its cleanup. A crash between rename and save makes the next run take
  its own result for a changed target, for ever. An upload refused by the second
  look at the slots stays queued. Cleanup swallows the errors of its removals.
* **A slot given back twice** (`sftp/service.ts:942`, `1275`). The finish of an upload
  fails; `uploadFailed` gives the slot back (1386) and saves "failed" (1393). A resume
  during that save takes a slot and opens a channel (1226–1261); the `finally` of the
  old run (942) gives back that slot too. Now the save of the new channel fails
  (1267), and the error path (1275) counts down once more. The counter stays one too
  low until the process ends, so six transfers may run where `docs/SFTP_API.md:16`
  promises "最多五路传输". Without the failing save the page is left with a channel that
  is closed already. `SlotsAccounted` says exactly how far the counter is off; the
  shortest behaviour in which `overdrawn` grows has 21 steps and is part of
  `sftp_transfer`, in its third scene, so there is no second run for it.
* After a gap the credit starts anew: more than 64 KiB can be on their way.

### Bounds

`MaxRevision` stops the user's edits and questions once the database has committed
that many times (remote applications count), `MaxPeerWrites` the other devices'
batches, `MaxTransaction` the items of one transaction. Three revisions and two
foreign batches are enough for an edit during an upload, an edit of a conflicted
item, a conflict replaced while its question is on the screen and a resolution
followed by another conflict; `MCSyncEdits` was also run once to revision 4 (1.4
million states) with the same result. Two items tell a batch applied in part from
one applied whole. Pages of two batches make a page end before, at and after the
watermark. Log length, request identities and the wire are bounded by these and
need no bound of their own. Symmetry permutes contents, which no definition names,
in runs without temporal properties. Deadlock is checked in the sync runs; calls,
logins, transfers and output are finite in the others, which stop when all is done.

*RuntimeHost.* Three processes are one in service, a candidate and the rollback or
the restart after it; `MaxHosts` also stands for "no further process can be
started", which the code handles as a failed start. Two calls reach both threads
and fill a queue of one. One death of itself, at any point, beside killings,
timeouts, failed starts and failed activations without bound. One of the two calls is
guarded, so both answers to a performed call whose runtime was replaced occur. A killed process does
nothing more: what it still does it may as well have done before.

*AccountSession.* One call beside the timer, logout and a login are enough for
refreshes shared between two starters and for every pair of a stale answer and a
newer session; one fault is a lost answer, a restart or a disabled account. A token
comes due once after all that was under way when it was issued has ended: it is
issued for many minutes, requests live for seconds.

*SftpTransfer.* A file of two chunks has a checkpoint before, inside and after;
two staging names are one restart. All jobs have one destination, absent at first,
and a job one file: what happens to one file of a job does not depend on the
others but for the index saved with them. The scenes split what would be too large
together: jobs contending for a slot and a destination, and requests contending for
a copy or an upload. In the first scene a copy is either restarted or meets a fault;
both together are left to the second. `MaxFaults` bounds changes by others, crashes
and openings whose save fails: one of the last is enough for a slot given back twice.
`active` may fall below zero by that many. Others change the destination at any time but between the last look and the
rename, the window `docs/SFTP_API.md` names.

*TerminalStream.* The ring pauses the shell two bytes behind, wraps, is overtaken
by what cannot be paused, once by a single chunk; fourteen bytes go round it almost
three times.

### Fairness

`Fairness` asks that timers fire, that every request is given up in the end (the
20 seconds of `apps/desktop/src/main/runtime-host.ts:215`), and that a step which
can be taken again and again is taken in the end. The last is strong fairness
because each step competes with a failing request and with a crash: it says the
network is not down for ever and the process does not die at the same point each
time. Nothing is asked of the user, of the other devices or of `Hint`: progress
does not rest on the 60-second check.

The others need weak fairness only. *RuntimeHost*: a process or thread that can go
on does (`Works`), a deadline that has come fires (`Times`), the steps of a
replacement go on (`Replaces`); a call that hangs in a thread ends by its deadline.
*AccountSession*: the server answers what it has received, the device goes on,
timers fire. *TerminalStream*: the flush timer, the messages between the processes
and the page's writes. SftpTransfer states none and claims no progress: the lost
announcement above means that a queued copy need not start.

## What is proved

TLAPS proves, for any items, contents, references, codes, page size, choices,
faults and bounds that satisfy the modules' assumptions:

* `TypeCorrect` (SyncEngineProofs): `Spec => []TypeOK`. `TypeOK` includes
  `HoldsWhatItNeeds`, what the running operation must hold at each `await` — an
  answer at `ack`, a snapshot at `restoring`, a frozen request from `recover` to
  `thaw`, a page within the log — without which `TypeOK` is not inductive. One
  lemma per action; the module begins with the lemmas about the repository's
  operators, that each returns a well-formed database.
* `LocalGraphAlwaysValid` (SyncEngineProofs): `Spec => []LocalGraphValid`. The
  invariant is inductive together with `TypeOK`: a commit and a resolution check
  the graph, `Accepts` yields a valid one, and nothing else writes the entities.
* `HistoryAlwaysAgrees` and `ShadowAlwaysExact` (SyncShadowProofs):
  `Spec => []HistoryAgrees` and, as a part of it, `Spec => []ShadowIsCloudAtCursor`.
  Exactness of the shadow is not inductive alone. A confirmation moves the shadow
  to the uploaded rows: they are the cloud's next batch because the log records
  under a request's identity that request (`RequestsAreRecorded`), because the
  answer in hand tells of the log (`ConfirmedIsRecorded`) and because the cursor has
  not moved since the request was drafted (`FrozenIsAtCursor`). An increment's rows
  are never taken for stale ones because revisions grow along the log
  (`RevisionsGrow`, which needs `ItemsFollowLog`); a snapshot deletes nothing the
  device knows because it is the cloud's state at its number (`SnapshotIsCloud`).
  The proof has lemmas about the log (`RowStable`, `NextRow`, `NewestRow`), one for
  each kind of step (quiet, moving, of the cloud), and one per action.

* `EpochAlwaysExact`, `AbandonedNeverAppliesEver` and `ProtocolNeverBroken`
  (SyncRequestProofs): `Spec => []EpochIsCloudAtCursor`, `[]AbandonedNeverApplies`
  and `[]NoProtocolError`, all from `RequestsAgree` beside `HistoryAgrees`. A
  request belongs to a generation and a place of the log (`RequestsKeepTheirPlace`);
  generations never go back along the log (`EpochsGrow`); and one the cloud refused
  once it refuses for ever, because its generation or its base is past
  (`RefusalIsFinal`) — so a copy still on the wire after the device gave up is
  harmless (`AbandonedAreSettled`). `ProtocolNeverBroken` assumes that a request that
  fails does not fail with `SYNC_PROTOCOL`, `SYNC_BUSY` or `SYNC_CHANGED` itself: the
  theorem is that the device finds no inconsistency in what a correct cloud answers.
* `ConflictAlwaysCurrent`, `UploadsAlwaysAvoidConflicts`, `ResolvesOnlyWhatWasSeen`
  and `PausedNeverFreezes` (SyncConflictProofs): `Spec => []ConflictShowsCloud`,
  `[]UploadsAvoidConflicts`, and the action properties `ResolvesWhatWasSeen` and
  `PausedFreezesNothing`. `ConflictsAgree` carries the drafted request from
  `drafting` to `freezing` and says where a conflict's cloud side was recorded
  (`ConflictsAreLogged`): a page's row for an item in conflict is then its newest
  row. `CyclesNeedTheSwitch` says who may reach the freezing steps.
* The user's edits (SyncConflictProofs). `EditsStayVisible`, `SyncedShowsCloud`,
  `EditsAlwaysBuildOnCloud` and `EditsNeverDropped` state `PendingIsLocal`,
  `SyncedIsCloud`, `EditsBuildOnCloud` and `NoEditDropped` of every behaviour in
  which `Undisturbed` holds throughout: no item has an edit in the outbox while the
  cloud's row for it waits for what it refers to. Without that premise they are
  not to be had, as `lost_edit` shows of the first; with it they hold for any
  references, so in what is modelled the finding is the only way to lose an edit. The
  inductive invariant is `EditsAgree`. An edit's basis is the cloud's content because an
  item without edit or conflict shows that content (`SyncedIsCloud`), and after a
  confirmation because a request covers edits that are still there, as it was sent
  or edited since (`UploadsArePending`, which needs the revisions of `OutboxIsPast`).
  Each step is shown at once to keep the invariant and to account for every edit
  that leaves the outbox (`EditsAccounted`).
  `ItemsAloneKeepEdits`: if no content refers to another item, no conflict is ever
  for a dependency, the premise holds of itself, and `Spec` alone implies all four.
* `OutcomesAlwaysTrue` (RuntimeHostProofs): `Spec => OutcomesAreTrue`, the
  refinement: initial states map to `CallOutcomes!Init`, every step to a step or a
  stutter, with `performed` read off `written`. The invariant `CallsAreTracked` says
  where a call may be at a time — one process, and there one of queue, thread or
  answer — and relates its place to what was performed: what may still be performed
  is not written and not refused (`ToDo`), what is settled or answered with a value
  is written (`Done`), what was turned away is not and will not be (`TurnedAway`).
  Most steps only lose calls (`Loses`): one lemma shows that these keep the
  invariant, lemmas about WorkerClient (`Forgets`) that its operations do, and only
  `Request`, `Dispatch` and `Perform` need an argument of their own.
  `WritesAlwaysStayHome` follows from the same invariant.
* `ActiveAlwaysRunning` (RuntimeHostProofs): `Spec => []ActiveIsRunning`. What is on
  disk and what serves change in different processes, at different times, so the
  invariant `ActiveInv` says for each phase of a replacement which of the two
  workspaces the disk may name, and that a process whose commit has been performed
  (`Committed`: answered by its thread, or the answer on its way) is the one the disk
  names. It rests on `KindInv`, the processes a replacement names, on `OwnerInv`,
  under which only that process can perform a commit, and on `ServedInv`: main calls
  a process healthy only between replacements.
* `HostTypes` (RuntimeHostProofs): `Spec => []TypeOK`. That no job is queued while
  it runs needs `QueueInv`: a commit is sent once to a process, a call is in one
  place, and each operation of the worker client keeps its queue in order.
* `AlwaysSingleOwner` (RuntimeHostProofs): `Spec => []SingleOwner`. `OwnerInv` names
  the process that may be alive in each phase of a replacement (`Current`): a phase
  that forks begins only when the one before is known to be gone, and only the
  candidate of the running replacement can have a commit pending.
* `StreamTypes` and `StreamFits` (TerminalStreamProofs): `Spec => []TypeOK` and
  `Spec => []FramesFit`, for any ring, batch, credit and output. `TypeOK` and
  `FramesFit` are inductive together. The weight is in sequences of frames: a frame
  appended where the last one ends keeps `Follows` (`AppendFollows`), and so does
  taking the first one away once the page stands where it ended (`TailFollows`); a
  flush appends at most a jump and a run of bytes.
* `TransferTypes`, `SlotsAlwaysAccounted`, `CompletedWasDelivered`,
  `AckedAlwaysKept` and the action property `DestinationAlwaysKept`
  (SftpTransferProofs), for any number of jobs, slots, requests, chunks and restarts.
  All follow from `TransfersSound`. It says of each job by itself (`Sound`) which step
  its run may be at (`Placed`), that what memory or disk calls
  completed was delivered or skipped (`Truthful`), that the planned destination is not newer
  than the present one and at the rename is the present one (`Aimed`), and that a
  staging file no cleanup went for holds what memory and checkpoint say (`Kept`). The
  requests that wait (`CallersSound`) carry what they rely on when they go on: a
  restart resets only a job whose cleanup it ran, and one request at a time opens an
  upload. `SlotsSound` adds to `SlotsAccounted` the numbers it counts with: busy jobs
  and opening requests, less `overdrawn`, which no step but `OpenSaveFails` raises;
  lemmas say how the count moves when one job or request changes; `SlotGoesBack` is
  the one for whatever frees a slot, the finally of a failed upload included. `AckedIsKept` alone is not inductive, since it says nothing of a chunk
  on its way to the file, nor is `CompletedIsDelivered`, since the rename and its
  record are two steps.
* `SessionTypes`, `TokensUsedOnce`, `StoredTokenIsLive`, `SessionsEndForAReason` and
  `SyncChoiceAlwaysStays` (AccountSessionProofs), for any number of calls, logins,
  renewals and faults. `SessionSound` adds what the properties leave out: one starter
  runs the shared refresh, and what it presents was never answered (`FlightsSound`);
  a token on its way to the disk is stored, presented and given up nowhere
  (`ComingSound`), so that writing it makes it the live one; and a call about to clear
  the session holds a refusal of its very token (`CallsSound`), which is why an old
  answer cannot end a newer login.

The assumptions are the modules' `ASSUME`s: `Item`, the transfers and their callers
are finite, `Nil` is no content, row, request, job, call or chunk, error codes include
those the code uses, fresh identities are items, the credit is smaller than the ring,
the shutdown message and the workers' barrier are no calls, copies are no uploads and
the timer is no caller, bounds are natural numbers and what must not be empty is not.
TLC evaluates them in every run. Two theorems have a premise besides:
`ProtocolNeverBroken` on the codes of failing requests, and those about the user's
edits `Undisturbed`, or `NoReferences` in its place.

`Undisturbed => EditsAgree`, and `NoEditDropped` up to the first state that is not
`Undisturbed`, also hold in TLC on the instances of `sync_edits` and `sync_refs` and
on that of `lost_edit` with one revision more, where the premise does fail.

Only model-checked:

* Progress: `RenewedOrEnded`, `CallsReturn`, `SwitchEnds`, `CatchesUp`,
  `FrozenSettles` and `EditsReachCloud`. Liveness under fairness is out of the
  prover's reach.
* Nothing is proved of `CloudGraphValid`, `StopIsVisible` and `NeverSpliced`, which
  the code violates, nor of `PendingIsLocal` without its premise.

## What is not modelled, and how the models abstract

*Account sync*

* First-time setup (`preview`, `bootstrap`, `replacement`, offline merge): the
  model starts from a device just set up on an empty workspace and an empty cloud.
* Encryption, key unlocking, size limits, the queue limit of 16 operations,
  `close`. A transaction that changes no content up to `equal` is not a step.
* A second operation waiting in the serial queue is not a state of its own; it
  starts when the first has ended, with what the user saw then.
* The event stream is `Hint`; its fatal errors are not modelled.
* A merge may give any content the item can take (`merge.ts` picks each field from
  one side).
* The passes that apply rows one at a time follow the row order of two tables; the
  model allows every order.

*Calls and processes.* Quitting the application, network and agent requests that
main serves, what a service does between a call and the worker. A login into the
workspace already open does not replace the process and is not a switch.

*Sessions.* Registration, recovery, a password reset without a token, the token handed to sync and the agent, the
keys under the master password. The server is external: it rotates a live token
once and refuses any other, as `docs/desktop-rebuild` describes it. An answer to a
refresh that its protocol does not know (`ACCOUNT_PROTOCOL`, an unexpected 4xx,
`account/service.ts:118`) is neither a refusal nor retried in the code: it leaves the
session as it is and no timer behind; `RenewedOrEnded` is said of a server that does
not give one. A login whose switch of workspaces fails after the session was stored is
not a step.

*Transfers.* Downloads and archives through the spool, drags, the editor, direct
file operations, rename as the answer to a conflict, clearing the list, `close`. A
lost connection is `RunFails`, possible at every step. Whoever waits for a job's
chain gets it in any order, where the code is first come, first served; staging
names are counted where the code draws them at random; an upload's source does not
change. Removing a staging file may fail silently. A page sends the chunk after the
last one confirmed to it: repeated and late chunks, which the comparison with the
sequence refuses (`service.ts:1321`), are not steps. Of the saves
that fail, that of an opening upload is a step of its own, no other.

*Terminal output.* The transcript read by the agent (`context`), control and event
messages, `close`.

*Not at all.* SSH sessions, tunnels, the agent, the archive and the event relay are
planned below. Sync encryption, migrations, completion, metrics, backups' encoding,
the shell, the web interface and the contracts are computation, I/O or presentation
without a protocol of their own.

## Plan

1. Sync: preview and bootstrap in its three modes with the frozen replacement, and
   `thaw`'s return to setup; fatal errors of the stream. An abstract specification
   of sync (an edit is pending, in the cloud, or in conflict; the cloud is a
   sequence of batches) that SyncEngine implements.
2. `SshSession`: connection, host key confirmation, reconnection. Two things to look
   at: `retry` is never set back after a success, and an automatic reconnection that
   fails is not tried again although `docs/SSH.md:19` speaks of up to ten times.
3. `AgentRun`: runs, approvals against their expiry, cancellation.
4. `ArchiveWork`: exclusive work, the recorded revision against edits, scheduling.
5. `Tunnel` (the end of a connection is ignored unless the tunnel runs) and
   `SyncEventRelay` (one unacknowledged chunk against the ten-second abort).
6. Theorems: `NeverSpliced` of transfers whose restart is not asked for while they are
   queued, the counterpart of `Undisturbed`; the graph of the cloud where no item is
   in conflict; the abstract specification of item 1, for which `EditsAccounted`,
   `HistoryAgrees` and `ConflictsAgree` hold the step conditions already.
