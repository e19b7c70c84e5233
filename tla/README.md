# laxcode: verification project

TLA+ models of laxcode, a cloud coding agent: a network-quota daemon
(`laxcode-manager`), a per-user proxy (`laxcode-proxy`) and the agent backend
(`cmd/run_sse`, `internal/`). TLC checks the modules on small instances; TLAPS
proves the main results for every value of the constants.

## 1. The system

| Component | State | Operations | Interacts with |
|---|---|---|---|
| Quota ledger (`laxcode-manager/ledger.go`) | SQLite tables `users`, `user_days` (limit of a user's day), `epochs` (authorisation and confirmed usage; active or closed) | `active`, `latestActive`, `ensure`, `checkpoint`, `closeSnapshot`, `historicalEpochs`, `report` | only the synchroniser writes it |
| Synchroniser (`sync_epoch_linux.go`, `manager_linux.go`, `main_linux.go`) | user locks with `cleanupPending`/`cleanedEpoch`, `fatal` | `SyncEpochToEbpf`, `cleanupHistory`, `refresh`, `fail`, start and stop | ledger, BPF maps; started by ring events, a one-second refresh, Docker discovery, HTTP requests |
| eBPF guard (`ebpf/quota.c`, `bpf_linux.go`) | pinned maps `metadata`, `user_bucket`, `bucket_meta`, `grants`, `usage`, `cgroup_owner` | `account` per packet, `bucket`, `deleteBucket`, `enable`, `disable` | runs on every CPU concurrently with the synchroniser; survives its crash |
| Container discovery (`docker_linux.go`, `manager_linux.go`) | `bindings`, `cgroup_owner` | `discover`, `reconcile`, `clearOwners` | Docker; starts synchronisations |
| Proxy (`laxcode-proxy/main.go`, `openshell.go`) | per user: gate, active count, endpoint, last use | `ensure`, `ServeHTTP`, `stopIdle`, `restoreRunning` | sandboxes, manager socket, backend `/internal/activity` |
| Chat tasks (`cmd/run_sse/tasks.go`, `cloud.go`, `sessionrepo/tasks.go`, `taskevents`) | `chat_tasks` rows, session and project locks, `taskCancels`, `activeTasks`, event stream | `handleChat`, `handleResume`, `handleCancelTask`, `handleTaskEvents`, `stopTasks`, recovery at start | agent loop, event subscribers, proxy |
| Session commits (`sessionrepo/sqlite.go`, `remote.go`) | request context, messages, memory generations, reserved sequence numbers | `CommitCreateMessage`, `CommitUpdateMessage`, `CommitNextMemoryGeneration` | agent loop; over HTTP with uncertain writes |
| Agent loop (`reactservice`) | turn state, tool-call streak, context window | `Chat`, `Resume`, `recoverBeforeChat`, compaction, sub-agents | LLM, tools, session commits |
| Evaluation jobs (`cmd/run_sse/evaluation.go`) | `evaluation_jobs` rows, workers | create, run, update, fail at restart | session and project locks |
| Skills (`tools/skill_tools.go`, `skillstore`, `workspace/default_skills.go`) | a directory per skill, backups, the seed marker | `create_skill`, `update_skill`, `Store.Create`, `Store.Replace`, seeding, `LoadSkills` | sessions of one user, the host opening the workspace |
| Other tools, stores, tracing, web UI, deployment | files and text | | |

The behaviours that are hard to test: the guard charges packets while the
ledger and the maps are being changed one entry at a time; the process may die
between any two of these changes; the maps may be lost while the ledger stays;
midnight and a changed configuration fall anywhere; in the backend, a cancel, a
stop or a failed write races the end of a task, and subscribers read an event
stream that others purge; a commit of a dead run arrives while its successor
works; a sandbox is stopped, deleted under or restarted while requests are on
their way; a skill is replaced by directory renames that two sessions and a
crash interleave.

What makes each component correct:

* quota: a user's passed bytes of a day stay within the day's limit; nothing
  authorised is refunded by a crash or a reboot; nothing is confirmed that did
  not pass; the protocol never trips its own consistency checks; every user
  ends on a bucket of today and is refilled;
* discovery: traffic is never charged to another user, and a running sandbox is
  bound again after any failure;
* chat tasks: at most one active task per project, and nothing else runs in it;
  a finished task stays finished; a stopped execution ends; a failed task is
  continued once; subscribers see every event in order, then the true final state;
* session commits: a late write is applied to the head it was computed from or
  not at all; the history only grows and can always be loaded;
* agent loop: every tool call has a result before the next request; compaction
  loses no message and clears only what is archived; a loop of identical calls
  is broken, across crashes too;
* proxy and evaluations: a sandbox with work in progress is not stopped, a
  deleted session has no work, every request ends, a succeeded job has its report;
* skills: the package under a skill's name is whole, valid and exactly what was
  asked for, and is never destroyed.

## 2. Modules and plan

| Module | Models | Uses |
|---|---|---|
| `QuotaLedger`, `QuotaSync` | ledger, synchroniser, guard | |
| `QuotaInv`, `QuotaLedgerProofs`, `QuotaProofs` | properties, inductive invariant, proofs | `QuotaSync` |
| `CgroupOwners` | container discovery, `reconcile` | |
| `CgroupInv`, `CgroupProofs` | inductive invariant, proofs | `CgroupOwners` |
| `ChatTasks` | tasks, event stream, recovery | |
| `ChatInv`, `ChatProofs` | inductive invariant, proofs | `ChatTasks` |
| `WorkingSet` | pure functions on a session's messages | |
| `SessionStore` | the SQLite transactions of a session | `WorkingSet` |
| `AgentRun` | the ReAct loop over the remote store, sub-agents, file tracking | `SessionStore`; refines `Conversation` |
| `AgentInv`, `AgentProofs`, `ConversationProofs` | inductive invariants, proofs | `AgentRun` |
| `Conversation` | abstract: what a stored history promises | |
| `Sandbox` | proxy, sandbox life, evaluation jobs, deletion | |
| `SandboxInv`, `SandboxProofs` | inductive invariant, proofs | `Sandbox` |
| `SkillStore` | skill tools, skill store, seeding | |
| `SkillInv`, `SkillProofs` | inductive invariant, proofs | `SkillStore` |

`MC...` modules give constants their values. Where two modules meet, each keeps
the part of the other that it needs: `AgentRun` assumes one run of a session at a
time, which is `Exclusive` of `ChatTasks`; `Sandbox` reduces a chat task to
running or not; `CgroupOwners` and `QuotaSync` share only that a scan starts
synchronisations.

Not done, in the order of their worth: an abstract `DailyQuota` (a counter per user
and day that only grows, up to a limit fixed once) that `QuotaSync` refines;
`DeleteSession` in `ChatTasks` (rows that vanish under a subscriber).

## 3. Quota synchronisation: `QuotaLedger`, `QuotaSync`

`QuotaLedger` is the SQL of `ledger.go` as operators over the table `epochs`
(a function from ids to rows; status `"none"` is an id not yet given).
`QuotaSync` owns the state. One action is one SQLite transaction or one map
operation of the code, so a crash, a packet or the work of another user can fall
between any two. The correspondence:

| Code | Model |
|---|---|
| `SyncEpochToEbpf` steps 1-2 | `StartSync` (user lock, `failure()`, date captured) |
| step 3, `latestActive`, `kernel.bucket` | `IsBucketToInspect`, `LookupBucket` |
| step 4, `deleteBucket` | `DeletePartial`, one map at a time (`DeleteEntry`) |
| step 5 | `CloseLost` |
| step 7, `ledger.ensure` | `EnsureEpoch` |
| step 8, `closeSnapshot` | `CloseSnapshotStep` |
| step 9 | `InitGrants`, `InitUsage` |
| step 10, `checkpoint` | `Checkpoint`, `PublishGrants` |
| steps 11-13 | `PublishMeta`, `PublishPointer` (and `cleanupPending`) |
| cleanup goroutine, `cleanupHistory` | `StartCleanup`, `CleanupClose`, `CleanupDelete`, `CleanupFails` |
| `account` in `quota.c` | `Fetch` (the reads), then `Pass` or `Drop` (under the spin lock) |
| errors: `m.fail`, ignored cancellations, a failing start | `IOError`, `Fail`, `ContextCancelled`, `StartRefused`, `StartupExit` |
| `run`: refresh, then `enable`; shutdown or death | `Start`, `Enable`, `Crash` |
| reboot, `reset_quota.py` | `LoseKernelState` |
| Beijing midnight, 30 s deadline grace | `NextDay`, `GraceEnds` |

Abstractions. A packet is its length and direction; parsing, addresses and
control peers decide nothing about buckets. `Fetch` reads the pointer and the
three entries in one step; splitting it adds nothing, because a bucket leaves
the pointer only after its row is closed with at least the authorisation in
`grants`. A `usage` element outlives its deleted key for a CPU that holds it
(preallocated elements being handed to another key is not modelled). Ring
notifications are lossy in the code and appear as "`StartSync` may happen at any
time". `boot` stands for the deadline column: a boot-clock reading is only
meaningful in the lifetime of the maps it was taken in. Limits are at most 2^50
(`config.validate`), so uint64 sums cannot wrap and bytes are naturals. A graceful
shutdown is `Crash` after the last synchronisation; a failing `enable` is `Crash`
while starting. The date never goes back, as `docs/epoch_opt_v2.md` assumes.

Runs (module `MCQuotaSync`; deadlock checking is off because a bounded
environment legitimately ends):

| Run | Instance | Shows |
|---|---|---|
| `quota_reboot` | 2 days, 3 epochs, 2 configurations, 1 crash, 1 loss of the maps | `PublishedIsBacked`, `ChecksPass`, `DailyLimit`, `HeldWithinLimit`, `LiveBucketOnlyGrows`, `ClosedIsFinal` |
| `quota_packets` | 2 CPUs, packets of 1-2 bytes, midnight, 1 fault | `PassedIsHeld`, `ConfirmedIsReal`, `IInv` (the invariant of the proofs) |
| `quota_live` | fair specification, 2 days, 4 epochs, 1 crash, 1 fault | `ServedToday`, `Refilled` |

A limit of 3 with chunk 2 and low watermark 1 is the smallest that needs a second
authorisation, cut by the day's remainder; three epochs allow a rollover or two
losses (four, so that a fault, a crash and a midnight do not use them up where
progress is claimed); one crash and one fault each fall at every step. The runs have one user
and one direction: users share only the ledger's id counter, and a direction only
selects the counter that a packet is added to. Several users, both directions,
crashes together with faults, and more epochs and days are covered by the proofs,
which bound none of them.

Fairness (`quota_live` only): weak fairness of the process's own steps, of the
starts that the one-second refresh and the five-second scan repeat for ever, and
of the end of the grace period (time passes). Packets, crashes, midnights,
faults and lost maps are never forced. Both properties are conditional on the
manager being eventually up and not fatal: a fatal error is only left by an
operator.

Proofs (`QuotaLedgerProofs`, `QuotaProofs`): for all users, days, epochs, CPUs,
packet lengths, configurations and bounds, from the assumptions named in
`QuotaLedger` and `QuotaSync` (ids are positive, configurations valid).
`Inductive` is `Spec => []IInv`; `TypeCorrect`, `PassedAuthorised`,
`ConfirmedPassed`, `AuthorisedWithinLimit`, `DailyLimitHolds`, `PublishedBacked`
and `ChecksNeverFail` follow from it, and so do the two action properties,
`ClosedForGood` and `PublishedOnlyGrows`: each first says which actions write the
rows (or the maps) at all, then takes those one by one. `IInv` (`QuotaInv`) is needed because the
properties alone are not inductive. It adds:

* `Rows`, `OneActivePerDay`, `HeldWithinLimit`: rows not given out hold nothing,
  dates and lifetimes are not in the future, one active row per user and day, a
  day's sum of authorisations within its limit;
* `Bytes`: confirmed <= passed <= granted, and the counters of the running kernel
  are exactly what passed;
* `Entries`, `Pointers`, `Flights`: a map entry belongs to a row made in this
  lifetime of the maps and carries no more than the row granted; a pointer names
  a complete bucket of its user; a CPU in flight holds a limit its row covers;
* `Unpublished`, `Stale`: how buckets no pointer names, and rows left over from an
  earlier lifetime of the maps, are ordered by day against the published one, so
  that no epoch that carried traffic is chosen for rebuilding;
* `LockHolders`: per program counter, what the lock holder's locals say about the
  ledger and the maps, the packets charged since included.

`QuotaLedgerProofs` has the lemmas on `SumOver` (a sum as the cardinality of a
set of units, which avoids recursion), `Close`, `Held` and `RefillDelta`.
Liveness stays with TLC.


## 4. Container discovery: `CgroupOwners`

`reconcile` with `discover` and `guardedCgroup`, one Docker request, one read of
`/proc` or one map operation per action, so that containers stop, start and reuse
process ids between any two.

| Code | Model |
|---|---|
| loop of `manager.run` | `StartScan`; `Restart` after the manager's death |
| `discover`: list and inspect; a request fails | `Inspect`; `DiscoverFails` |
| `guardedCgroup`: identity, cgroup, identity again, inspect again | `ReadProcess`, `ReadCgroup`, `ReadProcessAgain`, `InspectAgain` |
| `reconcile`: `ensureUser`, wanted owners, conflicts | `Collect`, `EnsureFails`, `Conflict` |
| removals, then publications, then `bindings` | `RemoveOwner`, `PublishOwner`, `EndScan` |
| `clearOwners` after a failed discovery | `ClearOwner`, `EndClear`, `MapFails` |
| `manager.fail` by the periodic refresh, a refill or a request | `SyncFails` |

A start of a container is a number that stands for the process start time and for
the cgroup id, which the kernel does not reuse. Labels, mounts and API versions
only decide whether a container is considered and are left out. `manager.fail` keeps
its first error (`Disabled`). The other goroutines of the manager may call it while a
scan is in progress: the scan ends as it would, but does not declare the guard ready.

`cgroup_owners`: two sandboxes of two users with two containers each, four process
ids, one restart of a container, one failure and one restart of the manager. One
restart into a freed process id is what the double check of `guardedCgroup` is
for; without the second inspection `OwnerIsTrue` and `ChurnIsNotFatal` fail.
`Rebound` assumes weak fairness of the manager as a whole: its loop has a ticker,
every Docker request has a timeout, and systemd restarts the process. It excludes
the errors after which `manager.fail` disables the guard until an operator acts.

Proofs (`CgroupInv`, `CgroupProofs`): `Inductive`, and from it `TrueOwners`
(`OwnerIsTrue`) and `ChurnHarmless` (`ChurnIsNotFatal`), for any sandboxes,
process ids, starts, failures and restarts of the manager. TLC finds `IInv` true
with six starts, where two containers swap process ids within one scan. What a scan holds may
be out of date, so the invariant speaks of starts: a number that was read for a
container is the number of that container or of nobody any more (`ResultsTrue`).
That holds at the end of `guardedCgroup` because of what holds between its reads
(`TwoProcesses`, `ProcessRead`, `CgroupRead`, `ProcessSeenAgain`): the process
that was seen before and after the cgroup was read had that cgroup, and the
inspection after it shows whether it was the container's; processes that live at
the same time have different ids (`Boxes`). No two results share a cgroup, so a
conflict in `reconcile` cannot come from containers that come and go. `Rebound` is
liveness and stays with TLC.
## 5. Chat tasks: `ChatTasks`

One module for `cmd/run_sse/tasks.go` with what it uses: the task table
(`sessionrepo/tasks.go`), the event stream (`taskevents/jetstream.go`), the
recovery in `cloud.go`, the locks of `handler.go` and the lock part of
`handleCreateEvaluation`. The task id and `task_order` are one number.

| Code | Model |
|---|---|
| `handleChat`, `handleResume` under `taskMu` | `BeginChat`, `BeginResume`, then `CheckActive`, `LockSession`, `LockProject`, `CreateTask` or `CreateConflict`, `CreateFails` |
| the task goroutine | `StartTask`/`StartFails`, `Assemble` (with the purge of older tasks), `Publish`/`PublishFails`, `RunEnds` |
| its deferred function | `Decide` (reads `ctx.Err()`), `FinishTask`/`FinishFails`, `UnlockProject`, `UnlockSession`, `Unregister` |
| `handleCancelTask` | `BeginCancel` (reads the row), `CancelTask` (uses `taskCancels`) |
| `handleTaskEvents` | `Subscribe`, `Deliver`, `Tick`, `SendState`, `Disconnect` |
| `stopTasks`; exit, kill or crash | `Stop`; `ProcessEnds` |
| `newCloudServiceWithRepository` | `Restart` (ListTasks), `RecoverTask` per row in descending order, `RecoverConflict`, `RecoverFails`, `Ready` |
| evaluation snapshots | `EvalLockSession`, `EvalLockProject`, `EvalRelease` |
| store and event server finishing what the client gave up (external) | `ApplyLate`, `StoreLate` |

`req` is the request that holds `taskMu`; one call to the store is one action, so
goroutines, snapshots and late writes interleave with a request. A write that
fails in `Remote.call` is uncertain (`ErrWriteUncertain`): it joins `late` and is
executed at any later time, after a restart too, or never. Unanswered reads only
end a request and are the other branch of `CheckActive` and `Disconnect`. The
session's content, its resumability, the model selection and error texts are
left out: each only refuses a request. One evaluation request at a time stands
for all, since they exclude each other from a project by the same locks. A
subscriber reads stored events directly; prefetching only brings the same events
earlier. `resumed` and `orphans` are history variables: which failed task an
execution continues, and which rows an uncertain write left active.

| Run | Instance | Shows |
|---|---|---|
| `chat_project` | 2 sessions of 1 project, 2 tasks, snapshots, 1 lost write, 1 crash | `Exclusive`, `RunnerIsRecorded`, `NoSilentOrphan`, `TerminalIsFinal` |
| `chat_stream` | 1 session, 2 tasks, 2 events, 1 subscriber, 1 fault, 1 crash | `FinalReplayable`, `TaskStateIsTrue` |
| `chat_resume` | 1 session, 3 tasks, 1 fault, 1 crash | `ResumedOnce` |
| `chat_stops` | fair; 2 tasks, 1 fault, 1 crash | `StoppedEnds` |
| `chat_subscriber` | fair; 2 tasks, 1 subscriber | `SubscriberEnds` |

Two tasks give an old and a latest one, two sessions a conflict on the project,
three tasks a resume of a resumed task; two events allow a gap. Deadlock checking
is off because the bounded task table ends every behaviour.

What the runs show beyond the properties' names. The table's unique index keeps
tasks apart but not a snapshot out of a project: that is what the in-memory
locks are for (`Exclusive` fails without the project lock). A row whose
`CreateTask` or `FinishTask` got no answer can stay active without a goroutine
until the next start (`orphans`), as `docs/async-chat-task-design.md:88` accepts
for the latter. A late `FinishTask` that lands between `ListTasks` and the
recovery's own update fails that start (`RecoverConflict`); the next succeeds.

Fairness: a goroutine's own steps are weakly fair, except `RunEnds` and
publishing, which the ReAct loop owes only after its context is cancelled (the
LLM call, the tools and the publisher all take that context). The holder of
`taskMu` proceeds because every store call times out after 30 s. `Unregister`
is strongly fair: Go's `sync.Mutex` hands itself to a waiter that starves.
Subscribers' steps are weakly fair (ticker, bounded `Next`). Restarts, faults,
crashes and new requests are never forced.

Proofs (`ChatInv`, `ChatProofs`): `Inductive` is `Spec => []IInv` for any
sessions, projects, tasks, events, subscribers, faults and restarts, from the
assumptions `ProjectAssumption`, `SessionAssumption` and `TaskBounds`. From it
follow the six invariants of the runs and, as an action property, `TerminalIsFinal`
(`ClosedForever`). None of them is inductive alone. `IInv`, which TLC also
finds true on the instance of `chat_project`, adds:

* `Rows`, `OneActive`, `Unborn`, `Quiet`, `SessionsNamed`: how the table is
  numbered, its unique index, and that nothing is known of a task without a row or
  runs before the recovery is over;
* `ProjectHeld`: who holds a project's lock (a goroutine until it unlocks, a
  request that creates its task, a snapshot being copied) and that they exclude
  each other, which the unique index alone does not give;
* `LateWrites`: a `FinishTask` still on its way names a task whose goroutine no
  longer works, and its boundary is stored;
* `Stored`: the events of a session's last task have no gap, those of publishes
  without an answer included, which is what replay rests on once older tasks are
  purged;
* `Recovering`, `Followed`, `Resumptions`: what the recovery still has before it,
  what a subscriber's copy of the row may differ in, and that a task about to be
  continued has not been continued.

`StoppedEnds` and `SubscriberEnds` are liveness and stay with TLC. A deleted
session's rows stay in this module.


## 6. The agent and its session: `WorkingSet`, `SessionStore`, `AgentRun`, `Conversation`, `AgentInv`, `AgentProofs`, `ConversationProofs`

`WorkingSet` has the pure functions: `Validate`, `missingToolResults`, the streak
of identical calls, call groups, `ProtectedStart`, `Compress`, `MergeSummary`, the
watermarks. A message keeps the fields the code decides on; its content is a class
(`plain`, `reasoned`, `long`, `large`, `cleared`, ...) with a size in tokens.
`SessionStore` has the transactions of `sqlite.go` on one session, each one action
because SQLite runs them one at a time. `AgentRun` is the run:

| Code | Model |
|---|---|
| `Assemble` by the chat and resume handlers; `SubAgent.Execute` | `StartRun`; `Execute` |
| `InitSession`, `UpsertSysMessage` | `InitSession`, `InitSysPrompt` |
| `recoverBeforeChat`, `Resume`, `Chat` | `RecoverResult`, `Recovered`, `AppendUser` |
| `compactContext` up to its commit; the commit | `PrepareContext`; `AdvanceGeneration` |
| `think`: reply, tool calls, errors | `CommitReply`, `ToolCall`, `Fail` |
| `ReserveMessageSequence` before each message | `Reserve` |
| `runWithFileTracking`; `classifySubAgentRun` and the report | `FinishRun`; `FinishSubAgent` |
| `DeleteSession`; its directory or its commit fails | `Delete`; `DeleteFails` |
| `Remote.call`, with its uncertain writes | `Send`, `DeliverLate` |

`Send` has the three outcomes of a remote write: applied and known; refused and
known; or unknown, and then applied or still on its way, when the run ends with an
error or has died. A request on its way is delivered at any later time or never.
A run that fails remembers the finish reason of its last reply and whether its tools
changed files, as the code does, which notes both before the write; a reply may end
without a reason, which `CanResume` takes for an end and `classifySubAgentRun` for a
partial result.

`PrepareContext` archives outputs one after the other and may fail at any of them,
with those before it stored. `Delete` removes the session's directory, where the
artifacts are. `DeleteFails` is the same transaction rolled back: the rows stay, some
files are gone and `wiped` says so. Token estimates are exact sizes, so that
`Compress` needs the first of its passes only, and an output is always longer than its
placeholder.

`agent_run`: two runs (chats, resumes, or one run of a sub-agent), messages
numbered up to 9, six replies of the model (final with and without a reason,
truncated, single calls, a group of two identical calls), large tool results, two
faults, and so at most two late requests. Fourteen tokens of window make both the
local trimming and the summary happen within nine messages. One call group is kept
(the code keeps three): the group of two, a summary that keeps just it, a failure and
a resume, and a single call after it are the third identical call in a row across a
compaction. The same run with two groups kept, 317 000 states, passes as well.

`LoopIsBroken` is stated over the stored history, not over the working set the agent
counts on: within a user's turn no call is executed a third time in a row. It claims
this where the first of the three lies at most `KeepRecentToolCallGroups` groups before
the third, because a resume cannot count further back than the working set goes
(section 9). `ClearedIsArchived` is claimed until somebody deletes the session.

Refinement: `ImplementsConversation` states that the stored originals, reduced to
roles, calls and answers, behave as `Conversation`: one growing log in which every
call group is answered completely and in order before anything else is said, until
it is deleted; what late requests write for a deleted session is no part of it
(section 9). It holds through crashes, lost answers, late requests, resumes and
compactions. `RevisionMeansContent` is why: a run whose revision is the stored one
holds exactly the stored context.

No fairness is assumed and nothing about liveness claimed: a run depends on the
model provider.

`AgentProofs` proves, for every value of the constants, `Loadable`,
`NothingForgotten`, `RevisionMeansContent`, `ClearedIsArchived`,
`CompleteIsAnswered` and `PastIsImmutable`. The inductive invariant `IInv`
(`AgentInv`, checked by TLC on the same instance) has these parts:

* `Working`: the shape of a working set wherever it is: the system prompt first,
  numbers rising to the last one, every message standing for originals between
  its own number and the last. It implies `Validate`, and unlike `Validate` it is
  kept by appending, trimming and summarising (`AppendWorks`, `LikeWorks`,
  `MergedMessages`), because a summary's sources must be known to lie beyond its
  own number and not only to contain it.
* `Archived`: what is cleared, or says that it is archived, is. Generations,
  requests and the run's session all carry it: a late request may store any of them.
* `Sound` and `Timely` for each request under way: it is a working set, only a
  first message is sent at revision 0, it is never ahead of the head, and a new
  generation computed from the revision that is current has the sources of what
  is stored.
* `Behind` for the session the run holds: never ahead of the head, and at the same
  revision it is the stored context. Every accepted write raises the revision by
  one (`RequestMoves`), which is what keeps `Behind` and `Timely` true
  of everything else that is held or under way.
* `HeldBy`: the number reserved is beyond the session's last, and compacted
  messages waiting for their commit have the sources of the session.
* `Child`: while a sub-agent's only run goes on none of its requests is late, so
  its last reply is the last message when the run ends in order.

One lemma shows that a remote write with any of its outcomes keeps `IInv`
(`SendKeeps`), one that appending does (`AppendKeeps`), one does the same for steps
that write nothing (`RunKeeps`); the lemmas per action instantiate these. The
assumptions are those on the constants: what a reply and a tool result consist of,
and that at least one call group is kept.

`ConversationProofs` adds what the messages say, in three further invariants, each
proved inductive relative to `IInv` and checked by TLC on the instance above.

`TInv` is about calls and results. `Dialogue`: as far as the messages go, each
call group is followed by its results in order and every result belongs to a
group; hence groups lie apart and only the latest can be open. `Chronicle`: the
history and the current working set are dialogues at the same point (`SamePoint`:
the same group is open in both, with as many results). `Fitting`: a late request
whose revision is the current one still continues what is stored. `Heard`: what
the run has left to do is the rest of the open group, and wherever the model is
asked next no group is open. The steps to see:

* a message that `Continues` a dialogue gives a dialogue, and appending the same
  message to the history and to the working set keeps them at the same point;
* `Compress` changes texts only, and a summary cuts at the start of a group
  (`ProtectedStart`), so compaction of a finished dialogue is finished;
* `missingToolResults` is the rest of the open group, so recovery writes the first
  result that is missing and nothing else.

`RequestIsPaired` follows from `Finished`; `ImplementsConversation` from `Continues`
for the step that appends to the history, whoever sends it, with every other step a
stutter or the deletion.

`LInv` is about the streak of identical calls. No working set repeats itself
(`Repeats`: three results of one call in a row within a turn, the last of them not
a rejection), and while the run works its streak `Tracks` the turn: it names the
latest result, and counts at least two if the latest two are of the same call. Once
a call is rejected the streak does not matter: the rest of its group is rejected
too and the run ends; a run that resumes counts anew from the messages.
`recentToolStreak` is a fold; that it counts the results from the last different
one on is shown without induction, by taking the least position at which fold and
closed form differ. Recovery results are no results of the turn. Compaction moves
results and may drop the oldest ones but keeps their order and fingerprints, so
that it neither makes a repetition nor misleads the streak. A request on its way is
`Harmless` as long as its revision is the current one, because it was then computed
from exactly what is stored (`Behind`); any other is refused.

`OInv` carries this over to the history, from which summaries take nothing away.
`Recounts`: the current working set is, from some position on, the history from some
position on (`Shifts`, up to the texts that trimming has cleared), and if that is not
the whole history it has at least `KeepRecentToolCallGroups` complete call groups. A
message appended to both keeps that; a summary moves the position but `ProtectedStart`
leaves the groups. Three executed results of one call in the history would then either
lie in the common part, where the streak has seen them (`LInv`), or start further back
than the groups that are kept, which is what `LoopIsBroken` leaves out. `HistoryIsRecounted`
proves `OInv`, `LoopsAreBroken` follows.

## 7. A user's sandbox: `Sandbox`

The proxy's side of a request (gate, `ensure`, forwarding), the life of the
sandbox, the cloud's side of the request, the idle ticker, deletion and evaluation
jobs, for one user and one session.

| Code | Model |
|---|---|
| `ServeHTTP` up to the gate; the gate and `prepareWorkspace` | `Arrive`; `Lock` |
| `ensure` | `Ensure`, `WaitReady`, `Healthy`, `EnsureFails` |
| reverse proxy; `ModifyResponse`, `ErrorHandler`; the deferred end | `Forward`, `SendFails`, `ForgetEndpoint`, `Leave` |
| `checkInactive`, `DeleteSession` | `CheckInactive`, `DeleteSession` |
| `restoreRunning`, `stopIdle` | `Restore`, `StopIdle`, `ReadActivity`, `StopSandbox`, `StopFails` |
| proxy shutdown or death, start | `ProxyEnds`, `ProxyRestarts` |
| `serveStore`, the boot of the cloud process | `StoreServes`, `CloudBoots`, `BootFails` |
| `handleCreateEvaluation`, `startEvaluation`, `runEvaluation` | `HandleEvaluate`, `CreateEvaluationJob`, `PrepareEvaluation`, `Settle`, `WorkerStarts`, `WriteReport`, `WorkerSucceeds`, `WorkerFails` |
| `CreateEvaluationJob` while the host is down; `FinishTask`, also failing | `CreateFails`; `TaskEnds` |
| OpenShell (external) | `BoxReady`, `CloudStarts`, `ExternalStop` |

`ensure` uses a known endpoint at once where no quota manager is configured and looks
the sandbox up where there is one: `Ensure` allows both. Its lookup and the creation or
start are one step because nobody else calls them: only the holder of the gate does, and
it names the user's one sandbox; what happens between them from outside, a stop, is met
by `WaitReady`. `TaskEnds` is the end of a task as the proxy can see it; the order of
`FinishTask`, the locks and the count inside the cloud process is the subject of
`ChatTasks`. A `FinishTask` that fails leaves the row active, which blocks deletion
until the next start of the cloud closes it.

`sandbox`: two requests at a time and three in all, of every kind, two jobs, one
fault (a lost or late write, an external stop, a client that leaves, a failing
call of OpenShell, a restart of the proxy). The safety properties also hold with
two faults, which takes longer than a regular run.

The idle timeout (minutes) does not elapse while a request travels from the proxy
to the sandbox (`IdleElapses`); this is the one assumption about time.
Fairness: OpenShell finishes a start, the processes' own steps happen, and a
request that waits for the gate again and again gets it, since a Go channel serves
waiting receivers in order. `Served` then covers the circle that the code must
avoid: the gate is held by a request that waits for the sandbox, whose process
waits for storage that opens the workspace under the gate. `prepareWorkspace`
before `ensure` breaks it (`Lock` without it fails).

Proofs (`SandboxInv`, `SandboxProofs`): for any finite sets of requests and jobs
and any number of arrivals and faults, from `SandboxAssumption`. `IInv`, which TLC finds
true on the instance of `sandbox` with two faults, has two halves.

* `Inside`: a job's row is written by nobody but its holder while it is evaluated
  (`Evaluations`: the row is active and no write is on its way to it), because a
  status write without an answer ends the evaluation, recoveries only run where
  the sandbox is empty (`Emptied`), and a new job takes an identifier that no
  write names. One request at a time is between the first check and the worker's
  start, and nothing is evaluated then (`Creations`). A success, shown, on its way
  or about to be written, has its report (`Reported`).
* `Outside`: the gate has one holder (`Gate`), `userState.active` is the number of
  forwarded requests that have not left (`Counted`), the idle timeout has not
  passed for a request on its way unless it is counted (`OnItsWay`), and so the
  ticker that found `active = 0` under the gate is alone until it stops the sandbox
  (`TickerAlone`).

`DeletedStaysQuiet`, `OnlyOneEvaluates` and `SuccessReported` follow from the first
half, the action property `StopKillsNoWork` (`IdleStopHarmless`) from the second.
`Served` is liveness and stays with TLC.

## 8. Skills: `SkillStore`, `SkillInv`, `SkillProofs`

| Code | Model |
|---|---|
| arguments, `prepare`: load, edits, validation | `Begin`, `ListFiles`, `ReadFile`, `NotThere`, `Prepare`, with `planExactEdits`, `normalizeSkillFile`, `validateSkillPackage`, `parseSkill` |
| `Store.Create` | `Lstat`, `CreatePublish` |
| `Store.Replace`: revision, two renames, rollback, removal of the backup | `Check`, `MoveAside`, `ReplacePublish`, `Rollback`, `Cleanup` |
| errors before the renames, cancellation | `Refuse` |
| `workspace.Open`, `initializeDefaultSkills`, change of owner | `Open`, `MakeRoot`, `SeedPublish`, `WriteMarker`, `Own` |
| `LoadSkills` of a new session | `LoadSkills` |
| death of the sandbox, restart of the host | `SandboxCrash`, `HostRestart` |

A text is a sequence of tokens and a package a function from paths to texts;
`PublishedIsPlanned` compares `planExactEdits`, which applies replacements from the
end of the text, with a substitution position by position. Each access of a
shared directory is a step, because two sessions have separate stores and mutexes.
Only the skill tools write into the skills directory; the system prompt tells the
agent so, and nothing enforces it.

An edit changes neither the encoding of a file nor its executable bit, so that of the
checks of an edited package those of sizes, paths and the header are left; the bit is
also left out of `packageRevision`, since no tool changes it for a file that is there. `ships` says whether the program's defaults hold this skill,
others only, or none: in the second case they are seeded and published without it.

`skill_store`: three calls from two sessions with eight arguments that meet every
refusal of the tools, two failing file operations, one crash or restart. Two files,
five tokens in a file and six in a package let every limit be exceeded.

`SkillProofs` proves `AnswerIsTrue`, `NothingVanishes` and `PublishedIsPlanned` for
any sessions, paths, texts, arguments and bounds. It assumes `SkillAssumption` (the
default skill has files), `TextAssumption` (texts are sequences of tokens) and
`DefaultAssumption` (the default skill, embedded in the program, is a valid package). The invariant `IInv`
(`SkillInv`) adds two facts that neither property states. `Calls`: a call under
way has no answer yet, an identifier of its own, and has published exactly if only
its clean-up is left, so that its answer can be given without looking back. `Kept`:
while the skill is not at its name, some backup is not that of a call about to
clean up. `NothingVanishes` alone is not inductive, because a clean-up might take
the last backup.

`PublishedIsPlanned` needs the invariant `Packages`: every package, also one in a
backup or carried by a call, is valid and is all of the defaults or all that one
call was asked for, since a rollback or a replacement may publish any of them.
What an update reads may come from several packages when another session
publishes meanwhile, but its paths are of one (`Planning`). The heart is
`EditedIsSubstituted`: `planExactEdits` replaces from the end of the text, one edit
after the other, and the result is the substitution of all edits at once. A
replacement at the greatest offset changes nothing before it (`ReplaceInside`,
`SameRest`), so it takes one edit off the substitution (`OneMoreEdit`); the least
number of edits for which the two would differ is then impossible (`FoldSubstitutes`).

## 9. Observations

Behaviours that the models exhibit and that a document or a reader might expect
otherwise. None of them is claimed as a property; where a definition states the
stronger property, it is marked as not met.

* A stop accepted after the deferred function has read `ctx.Err()`
  (`cmd/run_sse/tasks.go:115`) leaves the task `success`;
  `docs/async-chat-task-design.md:502` says it ends in `fail` (`StopIsFail`). The
  execution is over by then, so nothing runs on.
* `chat_file_tracking.go:160-168` looks for the chat's user message in the working
  set. After a summary has swallowed it, the files of that chat are silently not
  recorded.
* A deleted session's row takes its revision with it (`sqlite.go:361`), and a
  request names a revision, not an incarnation. A first commit that is still on
  its way recreates the row of a deleted session, and a second late request can
  continue it; what is left loads (`Loadable`), but belongs to no session of the
  catalogue.
* `DeleteSession` removes the session's directory inside its transaction and before
  the commit (`sqlite.go:378-384`). If the removal stops half way, or the commit
  fails, the rows stay for a retry, as the comment there says, but a session that is
  used instead names artifacts that are gone (`DeleteFails`).
* The streak of identical calls is rebuilt from the working set
  (`reactservice.go:407`), of which a summary keeps the last three groups. Results
  of a recovery are not counted: when groups that were interrupted fill these three,
  the calls before them are forgotten, and the same call is executed again.
* `Store.Replace` compares the revision before its renames: an update by another
  session in between is overwritten (`ReplacesWhatItRead`). A `create_skill`
  between the two renames succeeds and makes the rollback fail. After a crash
  between the two renames the skill is only in `.tmp/backup-*`, and nothing puts
  it back, although `skill_store.go:14-15` calls the replacement atomic.
* `workspace.Open` interrupted between the publication of the default skills and
  the change of their owner leaves them to root: the retry takes the directory
  for the user's (`SeedIsHandedOver`, `workspace/api.go:73,84`).
* A ready sandbox whose endpoint the proxy has forgotten (a client that leaves
  early, a failing lookup at the start) is not stopped by `stopIdle`
  (`laxcode-proxy/main.go:414`) until another execution request arrives.
* A task control request without a known endpoint wakes the sandbox
  (`main.go:319-323`), which `deploy/README.md:184` reserves for chat, resume and
  evaluation requests.
* `UpdateEvaluationJob` is unconditional: an uncertain `succeeded` is overwritten
  by `failed`, a late write may change a settled row, and a row whose last write
  was lost stays `running` until a restart, an idle stop or a deletion.

## 10. Conventions

Operators ending in `_Bug` are seeded faults, one plausible mistake each in the
definition they stand before; the mutation runs listed in `PROJECT.json` put one
in that definition's place and TLC must find the named property violated.
`PROJECT.json` also maps every definition to the lines it models and lists the
hazards of the code with the properties that cover them. Deadlock checking is off
where the bounds on arrivals, tasks, starts and faults end every behaviour.

## 11. Not modelled

See `components` in `PROJECT.json`. Left out for good:

* packet parsing and address classes, wire formats of Docker, OpenShell and the
  model providers, prompts and other text, prices, tracing, the web UI;
* the tools that read or write one file or run one command, ripgrep, path
  handling: operating-system I/O without state of their own;
* the usage report, the admin pages, history pages and the catalogue of projects
  and sessions: reads and single-row edits under a lock or in one transaction;
* the contents of summaries and the exact token counts;
* a wall clock that goes back.

Proved for every value of the constants: every invariant and every action property
that a run checks, and the refinement of `Conversation`. Only model-checked: the
liveness properties `ServedToday`, `Refilled`, `StoppedEnds`, `SubscriberEnds`,
`Rebound` and `Served`, which are beyond the proof system (fairness, `ENABLED`). The
folds that the proofs meet (the streak of calls, the edits of a text) are related to
a closed form by a least counterexample, which takes the place of induction over
sequences; a claim about what the other folds compute is left to TLC.
