------------------------------ MODULE ChatTasks ------------------------------
(***************************************************************************)
(* Chat tasks of the backend (cmd/run_sse/tasks.go): submissions under     *)
(* taskMu, one goroutine per accepted task, user stops, evaluation         *)
(* snapshots that share the session and project locks, the event stream    *)
(* with its subscribers, and the recovery of newCloudServiceWithRepository *)
(* after the process ended.                                                *)
(*                                                                         *)
(* The task table lives in the proxy and is reached over HTTP              *)
(* (sessionrepo/remote.go).  A write whose answer is lost is `uncertain':  *)
(* the caller sees an error, and the statement is executed at any later    *)
(* time or never.  It stays in `late'.                                     *)
(*                                                                         *)
(* Operators whose name ends in _Bug are seeded faults (see QuotaLedger).  *)
(***************************************************************************)
EXTENDS Naturals, FiniteSets

CONSTANTS
  Sessions,     \* rows of request_contexts with mode code
  Evaluated,    \* the sessions that evaluation requests name
  Projects,
  ProjectOf,    \* the project of a session
  MaxTask,      \* bound: task_order is 1..MaxTask; it also stands for task_id
  MaxEvent,     \* bound: event ids of a task are 1..MaxEvent
  Subscribers,  \* requests to GET /api/tasks/{task_id}/events
  MaxFaults,    \* bound: writes without an answer, failed publishes
  MaxEnds       \* bound: how often the process ends

ASSUME ProjectAssumption == ProjectOf \in [Sessions -> Projects] /\ Evaluated \subseteq Sessions
ASSUME SessionAssumption == 0 \notin Sessions   \* 0: no session
ASSUME TaskBounds ==
  MaxTask \in Nat /\ MaxEvent \in Nat \ {0} /\ MaxFaults \in Nat /\ MaxEnds \in Nat

TaskID  == 1 .. MaxTask
EventID == 1 .. MaxEvent

VARIABLES
  rows,      \* table chat_tasks
  late,      \* writes on their way to the store that nobody waits for
  events,    \* the stored events of the subject tasks.<id>
  unacked,   \* publishes the event server may still store
  proc,      \* the process: "down", "recovering", "up", "stopping"
  recovery,  \* the loop of newCloudServiceWithRepository
  req,       \* the request that holds taskMu
  sessionLocks, projectLocks,
  run,       \* the goroutine of each task
  snapshot,  \* an evaluation that copies a session
  subs,      \* subscribers
  faults, ends,
  resumed,   \* history: the failed task a started execution continues, 0 = none
  orphans    \* history: rows left to the next start by an uncertain write

storeVars == <<rows, late>>
eventVars == <<events, unacked>>
lockVars  == <<sessionLocks, projectLocks>>
boundVars == <<faults, ends>>
histVars  == <<resumed, orphans>>
vars == <<storeVars, eventVars, proc, recovery, req, lockVars, run, snapshot, subs,
          boundVars, histVars>>

-----------------------------------------------------------------------------
Statuses == {"none", "waiting", "running", "success", "fail"}
Row == [session: Sessions \cup {0}, status: Statuses, final: 0 .. MaxEvent]
NoRow == [session |-> 0, status |-> "none", final |-> 0]

Active(r)   == r.status \in {"waiting", "running"}
Terminal(r) == r.status \in {"success", "fail"}

Write == [op: {"create", "start", "finish"}, task: 0 .. MaxTask, session: Sessions \cup {0},
          status: Statuses, final: 0 .. MaxEvent, n: 0 .. MaxFaults]

\* Steps of the goroutine; from "start" to "finish" it may touch the project
Working == {"start", "assemble", "react", "decide", "finish"}
Live == Working \cup {"unlockProject", "unlockSession", "unregister"}
Goroutine == [pc: Live \cup {"none", "done"}, cause: {"none", "user", "publish", "stop"},
              ok: BOOLEAN, lastID: 0 .. MaxEvent, failed: BOOLEAN]
NoGoroutine == [pc |-> "none", cause |-> "none", ok |-> TRUE, lastID |-> 0, failed |-> FALSE]

Request == [pc: {"none", "check", "lockSession", "lockProject", "create", "cancel"},
            session: Sessions \cup {0}, task: 0 .. MaxTask]
NoRequest == [pc |-> "none", session |-> 0, task |-> 0]

Snapshot == [pc: {"none", "session", "copy"}, session: Sessions \cup {0}]
NoSnapshot == [pc |-> "none", session |-> 0]

Subscriber == [pc: {"idle", "reading", "state", "refresh", "gone"}, task: 0 .. MaxTask,
               status: Statuses, final: 0 .. MaxEvent, delivered: 0 .. MaxEvent]
NoSubscriber == [pc |-> "idle", task |-> 0, status |-> "none", final |-> 0, delivered |-> 0]

Recovery == [listed: 0 .. MaxTask, next: 0 .. MaxTask, active: SUBSET TaskID]
NoRecovery == [listed |-> 0, next |-> 0, active |-> {}]

\* Type invariant of the task table, the event stream and the process.
TypeOK ==
  /\ rows \in [TaskID -> Row] /\ late \in SUBSET Write
  /\ events \in [TaskID -> SUBSET EventID] /\ unacked \in SUBSET (TaskID \X EventID)
  /\ proc \in {"down", "recovering", "up", "stopping"} /\ recovery \in Recovery
  /\ req \in Request
  /\ sessionLocks \in SUBSET Sessions /\ projectLocks \in SUBSET Projects
  /\ run \in [TaskID -> Goroutine] /\ snapshot \in Snapshot
  /\ subs \in [Subscribers -> Subscriber]
  /\ faults \in 0 .. MaxFaults /\ ends \in 0 .. MaxEnds
  /\ resumed \in [TaskID -> 0 .. MaxTask] /\ orphans \in SUBSET TaskID

Init ==
  /\ rows = [t \in TaskID |-> NoRow] /\ late = {}
  /\ events = [t \in TaskID |-> {}] /\ unacked = {}
  /\ proc = "down" /\ recovery = NoRecovery /\ req = NoRequest
  /\ sessionLocks = {} /\ projectLocks = {}
  /\ run = [t \in TaskID |-> NoGoroutine] /\ snapshot = NoSnapshot
  /\ subs = [i \in Subscribers |-> NoSubscriber]
  /\ faults = 0 /\ ends = 0
  /\ resumed = [t \in TaskID |-> 0] /\ orphans = {}

-----------------------------------------------------------------------------
(***************************************************************************)
(* The store (sessionrepo/tasks.go)                                        *)
(***************************************************************************)
TasksOf(s) == {t \in TaskID : rows[t].session = s}
\* GetLatestTask: ORDER BY task_order DESC; 0 when the session has no task
IsLatest(s, t) == IF TasksOf(s) = {} THEN t = 0
                  ELSE t \in TasksOf(s) /\ \A u \in TasksOf(s) : u <= t

ActiveIn(p) == {t \in TaskID : Active(rows[t]) /\ ProjectOf[rows[t].session] = p}

\* AUTOINCREMENT
IsNextOrder(t) == rows[t].status = "none" /\ \A u \in 1 .. t - 1 : rows[u].status # "none"

\* CreateTask: the unique index one_active_task_per_project lets the row in
CanInsert(s) == ActiveIn(ProjectOf[s]) = {}
Insert(R, t, s) == [R EXCEPT ![t] = [session |-> s, status |-> "waiting", final |-> 0]]

\* StartTask: WHERE status = 'waiting'
Begin(R, t) == IF R[t].status = "waiting" THEN [R EXCEPT ![t].status = "running"] ELSE R

\* FinishTask: WHERE status IN ('waiting','running')
Finish_Bug(R, t, status, final) == [R EXCEPT ![t].status = status, ![t].final = final]
Finish(R, t, status, final) ==
  IF Active(R[t]) THEN [R EXCEPT ![t].status = status, ![t].final = final] ELSE R

LateWrite(op, t, s, status, final) ==
  [op |-> op, task |-> t, session |-> s, status |-> status, final |-> final, n |-> faults]

\* The store executes a write whose caller has given up
ApplyLate(w) ==
  /\ w \in late /\ late' = late \ {w}
  /\ \/ /\ w.op = "create" /\ CanInsert(w.session)
        /\ \E t \in TaskID : /\ IsNextOrder(t)
                             /\ rows' = Insert(rows, t, w.session)
                             /\ orphans' = orphans \cup {t}
     \/ w.op = "start" /\ rows' = Begin(rows, w.task) /\ UNCHANGED orphans
     \/ w.op = "finish" /\ rows' = Finish(rows, w.task, w.status, w.final) /\ UNCHANGED orphans
  /\ UNCHANGED <<eventVars, proc, recovery, req, lockVars, run, snapshot, subs, boundVars, resumed>>

-----------------------------------------------------------------------------
(***************************************************************************)
(* handleChat and handleResume up to the goroutine, all under taskMu       *)
(***************************************************************************)
MuFree == req.pc = "none"
Serving == proc \in {"up", "stopping"}

\* The answers that leave no trace: busy, not found, no model, read errors
Answer == req' = NoRequest

\* taskCtx.Err() = nil: a stopping service answers 503
BeginChat(s) ==
  /\ MuFree /\ proc = "up" /\ rows[MaxTask].status = "none"
  /\ req' = [pc |-> "check", session |-> s, task |-> 0]
  /\ UNCHANGED <<storeVars, eventVars, proc, recovery, lockVars, run, snapshot, subs>>
  /\ UNCHANGED <<boundVars, histVars>>

ResumeAllowed_Bug(s, t) == t \in TasksOf(s) /\ rows[t].status = "fail"
\* The request names the latest task, which failed; no id only without tasks
ResumeAllowed(s, t) == IsLatest(s, t) /\ (t # 0 => rows[t].status = "fail")

\* Whether the saved context can be resumed is the session's business
BeginResume(s, t) ==
  /\ MuFree /\ proc = "up" /\ rows[MaxTask].status = "none"
  /\ ResumeAllowed(s, t)
  /\ req' = [pc |-> "check", session |-> s, task |-> t]
  /\ UNCHANGED <<storeVars, eventVars, proc, recovery, lockVars, run, snapshot, subs>>
  /\ UNCHANGED <<boundVars, histVars>>

\* GetActiveProjectTask, modelMissing; either may also end the request
CheckActive ==
  /\ req.pc = "check"
  /\ \/ ActiveIn(ProjectOf[req.session]) = {} /\ req' = [req EXCEPT !.pc = "lockSession"]
     \/ Answer
  /\ UNCHANGED <<storeVars, eventVars, proc, recovery, lockVars, run, snapshot, subs>>
  /\ UNCHANGED <<boundVars, histVars>>

\* locks.TryLock(sessionID)
LockSession ==
  /\ req.pc = "lockSession"
  /\ IF req.session \in sessionLocks
     THEN Answer /\ UNCHANGED sessionLocks
     ELSE /\ sessionLocks' = sessionLocks \cup {req.session}
          /\ req' = [req EXCEPT !.pc = "lockProject"]
  /\ UNCHANGED <<storeVars, eventVars, proc, recovery, projectLocks, run, snapshot, subs>>
  /\ UNCHANGED <<boundVars, histVars>>

LockedProject_Bug(p) == FALSE
LockedProject(p) == p \in projectLocks

\* lockChatProject; when it fails the session is unlocked again
LockProject ==
  LET p == ProjectOf[req.session] IN
  /\ req.pc = "lockProject"
  /\ IF LockedProject(p)
     THEN /\ Answer /\ sessionLocks' = sessionLocks \ {req.session}
          /\ UNCHANGED projectLocks
     ELSE /\ projectLocks' = projectLocks \cup {p}
          /\ req' = [req EXCEPT !.pc = "create"]
          /\ UNCHANGED sessionLocks
  /\ UNCHANGED <<storeVars, eventVars, proc, recovery, run, snapshot, subs, boundVars, histVars>>

ReleaseBoth(s) ==
  /\ sessionLocks' = sessionLocks \ {s}
  /\ projectLocks' = projectLocks \ {ProjectOf[s]}

\* CreateTask succeeds: register the cancel function, start the goroutine
CreateTask(t) ==
  /\ req.pc = "create" /\ CanInsert(req.session) /\ IsNextOrder(t)
  /\ rows' = Insert(rows, t, req.session)
  /\ run' = [run EXCEPT ![t] = [NoGoroutine EXCEPT !.pc = "start"]]
  /\ resumed' = [resumed EXCEPT ![t] = req.task]
  /\ Answer
  /\ UNCHANGED <<late, eventVars, proc, recovery, lockVars, snapshot, subs, boundVars, orphans>>

\* ErrTaskConflict
CreateConflict ==
  /\ req.pc = "create" /\ ~CanInsert(req.session)
  /\ ReleaseBoth(req.session) /\ Answer
  /\ UNCHANGED <<storeVars, eventVars, proc, recovery, run, snapshot, subs, boundVars, histVars>>

\* Any other error: the request was cancelled, the store did not answer
CreateFails ==
  /\ req.pc = "create" /\ faults < MaxFaults
  /\ faults' = faults + 1
  /\ late' = late \cup {LateWrite("create", 0, req.session, "waiting", 0)}
  /\ ReleaseBoth(req.session) /\ Answer
  /\ UNCHANGED <<rows, eventVars, proc, recovery, run, snapshot, subs, ends, histVars>>

-----------------------------------------------------------------------------
(***************************************************************************)
(* handleCancelTask: read the row, then use the registered cancel function *)
(***************************************************************************)
Cancel(c, cause) == IF c = "none" THEN cause ELSE c

BeginCancel(t) ==
  /\ MuFree /\ Serving /\ Active(rows[t])
  /\ req' = [pc |-> "cancel", session |-> 0, task |-> t]
  /\ UNCHANGED <<storeVars, eventVars, proc, recovery, lockVars, run, snapshot, subs>>
  /\ UNCHANGED <<boundVars, histVars>>

CancelTask_Bug ==
  LET t == req.task IN
  /\ req.pc = "cancel" /\ Answer
  /\ rows' = Finish(rows, t, "fail", run[t].lastID)
  /\ run' = IF run[t].pc \in Live
            THEN [run EXCEPT ![t].cause = Cancel(run[t].cause, "user")] ELSE run
  /\ UNCHANGED <<late, eventVars, proc, recovery, lockVars, snapshot, subs, boundVars, histVars>>

\* Without a registered function the answer is 503 and nothing happens
CancelTask ==
  LET t == req.task IN
  /\ req.pc = "cancel" /\ Answer
  /\ run' = IF run[t].pc \in Live
            THEN [run EXCEPT ![t].cause = Cancel(run[t].cause, "user")] ELSE run
  /\ UNCHANGED <<storeVars, eventVars, proc, recovery, lockVars, snapshot, subs>>
  /\ UNCHANGED <<boundVars, histVars>>

-----------------------------------------------------------------------------
(***************************************************************************)
(* The goroutine of task t                                                 *)
(***************************************************************************)
GoroutineFrame == UNCHANGED <<proc, recovery, req, snapshot, subs, ends, resumed>>

\* s.tasks.StartTask(ctx, task.ID)
StartTask(t) ==
  LET started == rows[t].status = "waiting" IN
  /\ run[t].pc = "start" /\ run[t].cause = "none"
  /\ rows' = Begin(rows, t)
  /\ run' = [run EXCEPT ![t].pc = IF started THEN "assemble" ELSE "decide", ![t].ok = started]
  /\ UNCHANGED <<late, eventVars, lockVars, faults, orphans>> /\ GoroutineFrame

\* The call was cancelled, or got no answer: the update is uncertain
StartLost(t, next) ==
  /\ run[t].pc = "start"
  /\ IF run[t].cause = "none" THEN faults < MaxFaults /\ faults' = faults + 1 ELSE UNCHANGED faults
  /\ late' \in {late, late \cup {LateWrite("start", t, rows[t].session, "running", 0)}}
  /\ run' = [run EXCEPT ![t].pc = next, ![t].ok = FALSE]
  /\ UNCHANGED <<rows, eventVars, lockVars, orphans>> /\ GoroutineFrame
StartFails_Bug(t) == StartLost(t, "unlockProject")
StartFails(t) == StartLost(t, "decide")

\* old.SessionID == sessionID && old.Order < task.Order
Older(t) == {u \in 1 .. t - 1 : rows[u].session = rows[t].session}
Purge(S) == events' = [u \in TaskID |-> IF u \in S THEN {} ELSE events[u]]

\* assembleAgent, then the purge loop: a purge that fails is only logged
Assemble(t) ==
  /\ run[t].pc = "assemble"
  /\ \/ \E S \in SUBSET Older(t) : Purge(S) /\ run' = [run EXCEPT ![t].pc = "react"]
     \/ run' = [run EXCEPT ![t].pc = "decide", ![t].ok = FALSE] /\ UNCHANGED events
  /\ UNCHANGED <<storeVars, unacked, lockVars, faults, orphans>> /\ GoroutineFrame

\* taskPublisher.send: the stored event is acknowledged
Publish(t) ==
  /\ run[t].pc = "react" /\ ~run[t].failed /\ run[t].cause = "none" /\ run[t].lastID < MaxEvent
  /\ events' = [events EXCEPT ![t] = events[t] \cup {run[t].lastID + 1}]
  /\ run' = [run EXCEPT ![t].lastID = run[t].lastID + 1]
  /\ UNCHANGED <<storeVars, unacked, lockVars, faults, orphans>> /\ GoroutineFrame

\* taskPublisher.send: no acknowledgement; the event may still be stored
PublishFails(t) ==
  /\ run[t].pc = "react" /\ ~run[t].failed /\ run[t].lastID < MaxEvent
  /\ IF run[t].cause = "none" THEN faults < MaxFaults /\ faults' = faults + 1 ELSE UNCHANGED faults
  /\ unacked' \in {unacked, unacked \cup {<<t, run[t].lastID + 1>>}}
  /\ run' = [run EXCEPT ![t].failed = TRUE, ![t].cause = Cancel(run[t].cause, "publish")]
  /\ UNCHANGED <<storeVars, events, lockVars, orphans>> /\ GoroutineFrame

\* External: the event server stores what the publisher gave up on
StoreLate(t, e) ==
  /\ <<t, e>> \in unacked /\ unacked' = unacked \ {<<t, e>>}
  /\ events' = [events EXCEPT ![t] = events[t] \cup {e}]
  /\ UNCHANGED <<storeVars, lockVars, run, faults, orphans>> /\ GoroutineFrame

\* runWithFileTracking returns, an unfinished generation or a panic is an error
RunEnds(t) ==
  /\ run[t].pc = "react" /\ (run[t].lastID > 0 \/ run[t].failed)
  /\ \E ok \in BOOLEAN : run' = [run EXCEPT ![t].pc = "decide", ![t].ok = ok]
  /\ UNCHANGED <<storeVars, eventVars, lockVars, faults, orphans>> /\ GoroutineFrame

\* The deferred function reads ctx.Err(): a cancellation overrides the result
Decide(t) ==
  /\ run[t].pc = "decide"
  /\ run' = [run EXCEPT ![t].pc = "finish", ![t].ok = run[t].ok /\ run[t].cause = "none"]
  /\ UNCHANGED <<storeVars, eventVars, lockVars, faults, orphans>> /\ GoroutineFrame

Result(t) == IF run[t].ok THEN "success" ELSE "fail"

\* s.tasks.FinishTask; a conflict is only logged
FinishTask(t) ==
  /\ run[t].pc = "finish"
  /\ rows' = Finish(rows, t, Result(t), run[t].lastID)
  /\ run' = [run EXCEPT ![t].pc = "unlockProject"]
  /\ UNCHANGED <<late, eventVars, lockVars, faults, orphans>> /\ GoroutineFrame

\* FinishTask has no answer within 10 seconds: logged, the locks are released
FinishFails(t) ==
  /\ run[t].pc = "finish" /\ faults < MaxFaults /\ faults' = faults + 1
  /\ late' = late \cup {LateWrite("finish", t, rows[t].session, Result(t), run[t].lastID)}
  /\ orphans' = orphans \cup {t}
  /\ run' = [run EXCEPT ![t].pc = "unlockProject"]
  /\ UNCHANGED <<rows, eventVars, lockVars>> /\ GoroutineFrame

UnlockProject(t) ==
  /\ run[t].pc = "unlockProject"
  /\ projectLocks' = projectLocks \ {ProjectOf[rows[t].session]}
  /\ run' = [run EXCEPT ![t].pc = "unlockSession"]
  /\ UNCHANGED <<storeVars, eventVars, sessionLocks, faults, orphans>> /\ GoroutineFrame

UnlockSession(t) ==
  /\ run[t].pc = "unlockSession"
  /\ sessionLocks' = sessionLocks \ {rows[t].session}
  /\ run' = [run EXCEPT ![t].pc = "unregister"]
  /\ UNCHANGED <<storeVars, eventVars, projectLocks, faults, orphans>> /\ GoroutineFrame

\* delete(s.taskCancels, task.ID) under taskMu
Unregister(t) ==
  /\ run[t].pc = "unregister" /\ MuFree
  /\ run' = [run EXCEPT ![t] = [NoGoroutine EXCEPT !.pc = "done"]]
  /\ UNCHANGED <<storeVars, eventVars, lockVars, faults, orphans>> /\ GoroutineFrame

-----------------------------------------------------------------------------
(***************************************************************************)
(* handleCreateEvaluation: the snapshot is copied under both locks,        *)
(* without taskMu                                                          *)
(***************************************************************************)
SnapshotFrame ==
  /\ UNCHANGED <<storeVars, eventVars, proc, recovery, req, run, subs, boundVars, histVars>>

EvalLockSession(s) ==
  /\ Serving /\ snapshot.pc = "none" /\ s \notin sessionLocks
  /\ sessionLocks' = sessionLocks \cup {s}
  /\ snapshot' = [pc |-> "session", session |-> s]
  /\ UNCHANGED projectLocks /\ SnapshotFrame

\* A busy project, or a session that cannot be evaluated, ends the request
EvalLockProject ==
  LET p == ProjectOf[snapshot.session] IN
  /\ snapshot.pc = "session"
  /\ \/ /\ ~LockedProject(p)
        /\ projectLocks' = projectLocks \cup {p} /\ UNCHANGED sessionLocks
        /\ snapshot' = [snapshot EXCEPT !.pc = "copy"]
     \/ /\ sessionLocks' = sessionLocks \ {snapshot.session} /\ UNCHANGED projectLocks
        /\ snapshot' = NoSnapshot
  /\ SnapshotFrame

\* Deferred: the project first, then the session
EvalRelease ==
  /\ snapshot.pc = "copy" /\ snapshot' = NoSnapshot
  /\ ReleaseBoth(snapshot.session) /\ SnapshotFrame

-----------------------------------------------------------------------------
(***************************************************************************)
(* End and start of the process                                            *)
(***************************************************************************)
\* stopTasks: taskCancel under taskMu
Stop ==
  /\ proc = "up" /\ MuFree /\ proc' = "stopping"
  /\ run' = [t \in TaskID |->
       IF run[t].pc \in Live THEN [run[t] EXCEPT !.cause = Cancel(run[t].cause, "stop")]
       ELSE run[t]]
  /\ UNCHANGED <<storeVars, eventVars, recovery, req, lockVars, snapshot, subs>>
  /\ UNCHANGED <<boundVars, histVars>>

\* What the process keeps in memory is lost, its in-process event server too
Reset ==
  /\ proc' = "down" /\ recovery' = NoRecovery /\ req' = NoRequest
  /\ sessionLocks' = {} /\ projectLocks' = {}
  /\ run' = [t \in TaskID |-> NoGoroutine] /\ snapshot' = NoSnapshot
  /\ unacked' = {}
  /\ subs' = [i \in Subscribers |->
       IF subs[i].pc = "reading" THEN [NoSubscriber EXCEPT !.pc = "gone"] ELSE subs[i]]

\* A crash, a kill, or the exit after the bounded wait of stopTasks
ProcessEnds ==
  /\ proc # "down" /\ ends < MaxEnds /\ ends' = ends + 1
  /\ Reset
  /\ UNCHANGED <<storeVars, events, faults, histVars>>

\* newCloudServiceWithRepository up to ListTasks (ORDER BY task_order DESC)
Restart ==
  /\ proc = "down" /\ proc' = "recovering"
  /\ \E n \in 0 .. MaxTask :
       /\ \A t \in TaskID : t <= n <=> rows[t].status # "none"
       /\ recovery' = [listed |-> n, next |-> n, active |-> {t \in TaskID : Active(rows[t])}]
  /\ UNCHANGED <<storeVars, eventVars, req, lockVars, run, snapshot, subs, boundVars, histVars>>

\* events.Last: 0 when the subject is empty
LastEvent(E) == CHOOSE e \in E \cup {0} : \A f \in E : f <= e

SeenActive_Bug(t) == t \in recovery.active /\ rows[t].status # "waiting"
\* task.Active() of the listed row
SeenActive(t) == t \in recovery.active

\* latest[task.SessionID]: a later task of the session came first in the list
Superseded_Bug(t) == \E u \in t .. recovery.listed : rows[u].session = rows[t].session
Superseded(t) == \E u \in t + 1 .. recovery.listed : rows[u].session = rows[t].session

\* One turn of the loop; a purge that fails is only logged
RecoverTask(t) ==
  /\ proc = "recovering" /\ recovery.next = t
  /\ SeenActive(t) => Active(rows[t])
  /\ rows' = IF SeenActive(t) THEN Finish(rows, t, "fail", LastEvent(events[t])) ELSE rows
  /\ \E S \in {{}, IF Superseded(t) THEN {t} ELSE {}} : Purge(S)
  /\ recovery' = [recovery EXCEPT !.next = t - 1]
  /\ UNCHANGED <<late, unacked, proc, req, lockVars, run, snapshot, subs, boundVars, histVars>>

\* FinishTask returns ErrTaskConflict: a late write was faster; the start fails
RecoverConflict(t) ==
  /\ proc = "recovering" /\ recovery.next = t /\ SeenActive(t) /\ ~Active(rows[t])
  /\ Reset
  /\ UNCHANGED <<storeVars, events, boundVars, histVars>>

\* FinishTask without an answer: the start fails
RecoverFails(t) ==
  /\ proc = "recovering" /\ recovery.next = t /\ SeenActive(t)
  /\ faults < MaxFaults /\ faults' = faults + 1
  /\ late' = late \cup {LateWrite("finish", t, rows[t].session, "fail", LastEvent(events[t]))}
  /\ Reset
  /\ UNCHANGED <<rows, events, ends, histVars>>

Ready ==
  /\ proc = "recovering" /\ recovery.next = 0
  /\ proc' = "up" /\ recovery' = NoRecovery
  /\ UNCHANGED <<storeVars, eventVars, req, lockVars, run, snapshot, subs, boundVars, histVars>>

-----------------------------------------------------------------------------
(***************************************************************************)
(* handleTaskEvents                                                        *)
(***************************************************************************)
SubFrame ==
  /\ UNCHANGED <<storeVars, eventVars, proc, recovery, req, lockVars, run, snapshot>>
  /\ UNCHANGED <<boundVars, histVars>>

Subscribe(i, t) ==
  /\ subs[i].pc = "idle" /\ MuFree /\ Serving
  /\ rows[t].status # "none" /\ IsLatest(rows[t].session, t)
  /\ subs' = [subs EXCEPT ![i] = [pc |-> "reading", task |-> t, status |-> rows[t].status,
                                  final |-> rows[t].final, delivered |-> 0]]
  /\ SubFrame

\* The handler returns; what it told last is kept
Close(i, told) == subs' = [subs EXCEPT ![i] = [NoSubscriber EXCEPT !.pc = told]]

\* !task.Active() && delivered >= task.FinalEventID
Complete_Bug(x) == ~Active(x) /\ x.delivered > x.final
CompleteEarly_Bug(x) == ~Active(x)
Complete(x) == ~Active(x) /\ x.delivered >= x.final

\* task_state
SendState(i) ==
  /\ subs[i].pc = "reading" /\ Complete(subs[i])
  /\ subs' = [subs EXCEPT ![i].pc = "state"] /\ SubFrame

\* The ticker: the row is read again; a newer task of the session ends the stream
Tick(i) ==
  LET t == subs[i].task IN
  /\ subs[i].pc = "reading" /\ ~Complete(subs[i])
  /\ IF IsLatest(rows[t].session, t)
     THEN subs' = [subs EXCEPT ![i].status = rows[t].status, ![i].final = rows[t].final]
     ELSE Close(i, "refresh")
  /\ SubFrame

\* sub.Next: the first stored event that was not delivered; a gap ends the stream
Deliver(i) ==
  LET x == subs[i] IN
  /\ x.pc = "reading" /\ ~Complete(x)
  /\ \E e \in events[x.task] :
       /\ e > x.delivered /\ \A f \in events[x.task] : f > x.delivered => e <= f
       /\ IF e = x.delivered + 1 THEN subs' = [subs EXCEPT ![i].delivered = e]
          ELSE Close(i, "refresh")
  /\ SubFrame

\* The request ends, a read fails, or taskCtx is done
Disconnect(i) ==
  /\ subs[i].pc = "reading" /\ Close(i, "gone") /\ SubFrame

-----------------------------------------------------------------------------
Requests ==
  \/ \E s \in Sessions : BeginChat(s) \/ \E t \in 0 .. MaxTask : BeginResume(s, t)
  \/ \E t \in TaskID : CreateTask(t) \/ BeginCancel(t)
  \/ CheckActive \/ LockSession \/ LockProject \/ CreateConflict \/ CreateFails \/ CancelTask

Execution ==
  \E t \in TaskID :
    \/ StartTask(t) \/ StartFails(t) \/ Assemble(t) \/ Publish(t) \/ PublishFails(t)
    \/ RunEnds(t) \/ Decide(t) \/ FinishTask(t) \/ FinishFails(t)
    \/ UnlockProject(t) \/ UnlockSession(t) \/ Unregister(t)

Evaluation == (\E s \in Evaluated : EvalLockSession(s)) \/ EvalLockProject \/ EvalRelease

Lifecycle ==
  \/ Stop \/ ProcessEnds \/ Restart \/ Ready
  \/ \E t \in TaskID : RecoverTask(t) \/ RecoverConflict(t) \/ RecoverFails(t)

Streams ==
  \E i \in Subscribers :
    \/ \E t \in TaskID : Subscribe(i, t)
    \/ SendState(i) \/ Tick(i) \/ Deliver(i) \/ Disconnect(i)

Network == (\E w \in late : ApplyLate(w)) \/ (\E t \in TaskID, e \in EventID : StoreLate(t, e))

Next == Requests \/ Execution \/ Evaluation \/ Lifecycle \/ Streams \/ Network
Spec == Init /\ [][Next]_vars

(***************************************************************************)
(* Fairness.  A goroutine keeps running; the ReAct loop is assumed to      *)
(* return once its context is cancelled, not otherwise.  taskMu is a       *)
(* sync.Mutex, which hands itself to a starving waiter.                    *)
(***************************************************************************)
Advance(t) ==
  \/ StartTask(t) \/ StartFails(t) \/ Assemble(t) \/ (run[t].cause # "none" /\ RunEnds(t))
  \/ Decide(t) \/ FinishTask(t) \/ UnlockProject(t) \/ UnlockSession(t)
SendsFail(t) == run[t].cause # "none" /\ PublishFails(t)
Serve == CheckActive \/ LockSession \/ LockProject \/ CreateConflict \/ CancelTask
         \/ \E t \in TaskID : CreateTask(t)
Fairness ==
  /\ \A t \in TaskID : WF_vars(Advance(t)) /\ WF_vars(SendsFail(t)) /\ SF_vars(Unregister(t))
  /\ WF_vars(Serve)
  /\ \A i \in Subscribers : WF_vars(SendState(i)) /\ WF_vars(Tick(i)) /\ WF_vars(Deliver(i))
FairSpec == Spec /\ Fairness

-----------------------------------------------------------------------------
(***************************************************************************)
(* Properties                                                              *)
(***************************************************************************)
UsersOf(p) == {t \in TaskID : run[t].pc \in Working /\ ProjectOf[rows[t].session] = p}
Copying(p) == snapshot.pc = "copy" /\ ProjectOf[snapshot.session] = p

\* At any time one execution or one evaluation snapshot uses the files of a
\* project: the unique index orders the tasks (sessionrepo/tasks.go:27), the
\* in-memory locks keep snapshots away (tasks.go:71-84, evaluation.go:67-96).
Exclusive ==
  \A p \in Projects : /\ Cardinality(UsersOf(p)) <= 1
                      /\ Copying(p) => UsersOf(p) = {}

\* The table never calls a task finished that is still executed: a stop only
\* cancels (tasks.go:547), the row changes in the goroutine's own defer.
RunnerIsRecorded == \A t \in TaskID : run[t].pc \in Working => Active(rows[t])

\* A terminal row is never written again, in whatever order a late FinishTask,
\* a late StartTask and the recovery of a restart reach the store.
TerminalIsFinal ==
  [][\A t \in TaskID : Terminal(rows[t]) => rows'[t] = rows[t]]_vars

\* While a task is the last of its session, every event up to the final_event_id
\* of its terminal row can be replayed: purges and lost publishes leave no hole.
FinalReplayable ==
  \A t \in TaskID :
    Terminal(rows[t]) /\ IsLatest(rows[t].session, t) => 1 .. rows[t].final \subseteq events[t]

\* A subscriber that was told task_state saw the true result, after every event
\* up to final_event_id (tasks.go:474).
TaskStateIsTrue ==
  \A i \in Subscribers : subs[i].pc = "state" =>
    /\ Terminal(rows[subs[i].task]) /\ subs[i].status = rows[subs[i].task].status
    /\ subs[i].delivered >= rows[subs[i].task].final

\* Once the service accepts requests, an active row has a goroutine that will
\* finish it, unless a write without an answer left the row behind: recovery
\* closes every row of an earlier process (cloud.go:86-104).
NoSilentOrphan ==
  Serving => \A t \in TaskID : Active(rows[t]) /\ t \notin orphans => run[t].pc \in Working

\* A failed task is continued by at most one execution (tasks.go:216).
ResumedOnce ==
  \A t, u \in TaskID : t # u /\ resumed[t] # 0 => resumed[t] # resumed[u]

\* A cancelled goroutine, by a user, a failed publish or the stop of the service,
\* ends and leaves a terminal row, or one that the next start has to close.
StoppedEnds ==
  \A t \in TaskID :
    (run[t].pc \in Live /\ run[t].cause # "none")
      ~> (\/ run[t].pc = "done" /\ (Terminal(rows[t]) \/ t \in orphans)
          \/ proc = "down")

\* Not met by the code, and checked by no run: a stop accepted for an active
\* task makes it end in fail (docs/async-chat-task-design.md:502).  The code reads the cancellation once
\* (tasks.go:115), before FinishTask: a stop accepted after that is too late.
StopIsFail ==
  \A t \in TaskID : run[t].cause = "user" /\ Terminal(rows[t]) => rows[t].status = "fail"

\* A subscriber of a finished task is not left waiting (tasks.go:473-520): it
\* gets every event and task_state, or is told to refresh.
SubscriberEnds ==
  \A i \in Subscribers :
    (subs[i].pc = "reading" /\ Terminal(rows[subs[i].task])) ~> (subs[i].pc # "reading")
=============================================================================
