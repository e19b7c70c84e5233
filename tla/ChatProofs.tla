----------------------------- MODULE ChatProofs -----------------------------
(***************************************************************************)
(* IInv is an invariant of ChatTasks, and with it the safety properties of *)
(* that module, for every set of sessions, projects and subscribers and    *)
(* every value of the bounds.                                              *)
(***************************************************************************)
EXTENDS ChatInv, TLAPS, WellFoundedInduction, FiniteSetTheorems

USE DEF storeVars, eventVars, lockVars, boundVars, histVars, Answer

-----------------------------------------------------------------------------
(***************************************************************************)
(* Types                                                                   *)
(***************************************************************************)

LEMMA RowsType == ASSUME TypeOK PROVE rows \in [TaskID -> Row] BY DEF TypeOK
LEMMA RunType == ASSUME TypeOK PROVE run \in [TaskID -> Goroutine] BY DEF TypeOK
LEMMA EventsType == ASSUME TypeOK PROVE events \in [TaskID -> SUBSET EventID] BY DEF TypeOK
LEMMA FaultsType == ASSUME TypeOK PROVE faults \in 0 .. MaxFaults BY DEF TypeOK
LEMMA NoGoroutineType == NoGoroutine \in Goroutine BY TaskBounds DEF NoGoroutine, Goroutine
LEMMA ReqType == ASSUME TypeOK PROVE req \in Request BY DEF TypeOK

\* A step of the goroutine that changes its result
LEMMA ResultType ==
  ASSUME TypeOK, NEW t \in TaskID, NEW pc \in Live, NEW ok \in BOOLEAN,
         run' = [run EXCEPT ![t].pc = pc, ![t].ok = ok]
  PROVE  run' \in [TaskID -> Goroutine]
<1>1. [run[t] EXCEPT !.pc = pc, !.ok = ok] \in Goroutine BY RunType DEF Goroutine
<1>2. run' = [run EXCEPT ![t] = [run[t] EXCEPT !.pc = pc, !.ok = ok]] BY RunType
<1> QED BY <1>1, <1>2, RunType

LEMMA TypeRequests == ASSUME TypeOK, SessionsNamed, Requests PROVE TypeOK'
<1> USE ProjectAssumption, TaskBounds DEF Request
<1>1. ASSUME NEW s \in Sessions, BeginChat(s) PROVE TypeOK' BY <1>1 DEF BeginChat, TypeOK
<1>2. ASSUME NEW s \in Sessions, NEW t \in 0 .. MaxTask, BeginResume(s, t) PROVE TypeOK'
  BY <1>2 DEF BeginResume, TypeOK
<1>3. ASSUME NEW t \in TaskID, BeginCancel(t) PROVE TypeOK'
  BY <1>3 DEF BeginCancel, TaskID, TypeOK
<1>4. CASE CheckActive BY <1>4 DEF CheckActive, TypeOK, NoRequest
<1>5. CASE LockSession BY <1>5 DEF LockSession, SessionsNamed, InRequest, TypeOK, NoRequest
<1>6. CASE LockProject BY <1>6 DEF LockProject, SessionsNamed, InRequest, TypeOK, NoRequest
<1>7. CASE CreateConflict BY <1>7 DEF CreateConflict, ReleaseBoth, TypeOK, NoRequest
<1>8. CASE CreateFails
  <2>1. LateWrite("create", 0, req.session, "waiting", 0) \in Write
    BY FaultsType, ReqType DEF LateWrite, Write, Statuses
  <2> QED BY <1>8, <2>1 DEF CreateFails, ReleaseBoth, TypeOK, NoRequest
<1>9. CASE CancelTask
  <2>1. run' \in [TaskID -> Goroutine]
    <3>1. CASE req.task \in TaskID BY <1>9, <3>1, RunType DEF CancelTask, Goroutine, Cancel
    <3>2. CASE req.task \notin TaskID BY <1>9, <3>2, RunType DEF CancelTask
    <3> QED BY <3>1, <3>2
  <2> QED BY <1>9, <2>1 DEF CancelTask, TypeOK, NoRequest
<1>10. ASSUME NEW t \in TaskID, CreateTask(t) PROVE TypeOK'
  <2>1. [NoGoroutine EXCEPT !.pc = "start"] \in Goroutine
    BY NoGoroutineType DEF Goroutine, Live, Working
  <2>2. rows' \in [TaskID -> Row]
    BY <1>10, RowsType DEF CreateTask, Insert, Row, Statuses, SessionsNamed, InRequest
  <2>3. resumed' \in [TaskID -> 0 .. MaxTask] BY <1>10 DEF CreateTask, TypeOK
  <2> QED BY <1>10, <2>1, <2>2, <2>3 DEF CreateTask, TypeOK, NoRequest
<1> QED BY <1>1, <1>2, <1>3, <1>4, <1>5, <1>6, <1>7, <1>8, <1>9, <1>10 DEF Requests

LEMMA TypeExecution == ASSUME TypeOK, Execution PROVE TypeOK'
<1> USE TaskBounds DEF GoroutineFrame
<1> PICK t \in TaskID : \/ StartTask(t) \/ StartFails(t) \/ Assemble(t) \/ Publish(t) \/ PublishFails(t)
                        \/ RunEnds(t) \/ Decide(t) \/ FinishTask(t) \/ FinishFails(t)
                        \/ UnlockProject(t) \/ UnlockSession(t) \/ Unregister(t)
  BY DEF Execution
<1>0. run[t] \in Goroutine /\ rows[t] \in Row BY RunType, RowsType
<1>1. CASE StartTask(t)
  <2>1. rows' \in [TaskID -> Row] BY <1>1, RowsType DEF StartTask, Begin, Row, Statuses
  <2>2. run' \in [TaskID -> Goroutine]
    <3>1. (rows[t].status = "waiting") \in BOOLEAN OBVIOUS
    <3>2. (IF rows[t].status = "waiting" THEN "assemble" ELSE "decide") \in Live BY DEF Live, Working
    <3> QED BY <1>1, <3>1, <3>2, ResultType DEF StartTask
  <2> QED BY <1>1, <2>1, <2>2 DEF StartTask, TypeOK
<1>2. CASE StartFails(t)
  <2>1. LateWrite("start", t, rows[t].session, "running", 0) \in Write
    BY <1>0, FaultsType DEF LateWrite, Write, Statuses, Row, TaskID
  <2>2. run' \in [TaskID -> Goroutine] BY <1>2, RunType DEF StartFails, StartLost, Goroutine, Live, Working
  <2>3. faults' \in 0 .. MaxFaults BY <1>2, FaultsType DEF StartFails, StartLost
  <2> QED BY <1>2, <2>1, <2>2, <2>3 DEF StartFails, StartLost, TypeOK
<1>3. CASE Assemble(t)
  <2>1. run' \in [TaskID -> Goroutine] BY <1>3, RunType DEF Assemble, Goroutine, Live, Working
  <2>2. events' \in [TaskID -> SUBSET EventID] BY <1>3, EventsType DEF Assemble, Purge
  <2> QED BY <1>3, <2>1, <2>2 DEF Assemble, TypeOK
<1>4. CASE Publish(t)
  <2>1. run' \in [TaskID -> Goroutine] BY <1>4, RunType DEF Publish, Goroutine
  <2>2. events' \in [TaskID -> SUBSET EventID] BY <1>0, <1>4, EventsType DEF Publish, EventID, Goroutine
  <2> QED BY <1>4, <2>1, <2>2 DEF Publish, TypeOK
<1>5. CASE PublishFails(t)
  <2>1. run' \in [TaskID -> Goroutine] BY <1>5, RunType DEF PublishFails, Goroutine, Cancel
  <2>2. <<t, run[t].lastID + 1>> \in TaskID \X EventID
    BY <1>0, <1>5 DEF PublishFails, EventID, Goroutine
  <2>3. faults' \in 0 .. MaxFaults BY <1>5, FaultsType DEF PublishFails
  <2> QED BY <1>5, <2>1, <2>2, <2>3 DEF PublishFails, TypeOK
<1>6. CASE RunEnds(t)
  <2>1. PICK ok \in BOOLEAN : run' = [run EXCEPT ![t].pc = "decide", ![t].ok = ok]
    BY <1>6 DEF RunEnds
  <2>2. run' \in [TaskID -> Goroutine] BY <2>1, ResultType DEF Live, Working
  <2> QED BY <1>6, <2>2 DEF RunEnds, TypeOK
<1>7. CASE Decide(t)
  <2>1. run' \in [TaskID -> Goroutine]
    <3>1. (run[t].ok /\ run[t].cause = "none") \in BOOLEAN OBVIOUS
    <3> QED BY <1>7, <3>1, ResultType DEF Decide, Live, Working
  <2> QED BY <1>7, <2>1 DEF Decide, TypeOK
<1>8. CASE FinishTask(t)
  <2>1. rows' \in [TaskID -> Row]
    BY <1>0, <1>8, RowsType DEF FinishTask, Finish, Result, Row, Statuses, Goroutine
  <2>2. run' \in [TaskID -> Goroutine] BY <1>8, RunType DEF FinishTask, Goroutine, Live
  <2> QED BY <1>8, <2>1, <2>2 DEF FinishTask, TypeOK
<1>9. CASE FinishFails(t)
  <2>1. LateWrite("finish", t, rows[t].session, Result(t), run[t].lastID) \in Write
    BY <1>0, FaultsType DEF LateWrite, Write, Statuses, Row, TaskID, Goroutine, Result
  <2>2. run' \in [TaskID -> Goroutine] BY <1>9, RunType DEF FinishFails, Goroutine, Live
  <2> QED BY <1>9, <2>1, <2>2 DEF FinishFails, TypeOK
<1>10. CASE UnlockProject(t) BY <1>10 DEF UnlockProject, Goroutine, Live, TypeOK
<1>11. CASE UnlockSession(t) BY <1>11 DEF UnlockSession, Goroutine, Live, TypeOK
<1>12. CASE Unregister(t)
  <2>1. [NoGoroutine EXCEPT !.pc = "done"] \in Goroutine BY NoGoroutineType DEF Goroutine
  <2> QED BY <1>12, <2>1 DEF Unregister, TypeOK
<1> QED BY <1>1, <1>2, <1>3, <1>4, <1>5, <1>6, <1>7, <1>8, <1>9, <1>10, <1>11, <1>12

LEMMA TypeEvaluation == ASSUME TypeOK, SessionsNamed, Evaluation PROVE TypeOK'
<1> USE ProjectAssumption DEF TypeOK, SnapshotFrame, Snapshot, NoSnapshot
<1>1. ASSUME NEW s \in Evaluated, EvalLockSession(s) PROVE TypeOK' BY <1>1 DEF EvalLockSession
<1>2. CASE EvalLockProject
  BY <1>2 DEF EvalLockProject, SessionsNamed
<1>3. CASE EvalRelease BY <1>3 DEF EvalRelease, ReleaseBoth
<1> QED BY <1>1, <1>2, <1>3 DEF Evaluation

\* events.Last answers 0 or the largest stored event
LEMMA LastIsLargest ==
  ASSUME NEW E \in SUBSET EventID
  PROVE  LastEvent(E) \in E \cup {0} /\ \A f \in E : f <= LastEvent(E)
<1>1. \E e \in E \cup {0} : \A f \in E : f <= e
  <2>1. CASE E = {} BY <2>1
  <2>2. CASE E # {}
    <3> DEFINE T == {MaxEvent - e : e \in E}
    <3>0. \A e \in E : MaxEvent - e \in Nat BY TaskBounds DEF EventID
    <3>1. T \subseteq Nat /\ T # {} BY <2>2, <3>0
    <3>2. PICK x \in T : \A y \in T : ~(<<y, x>> \in OpToRel(<, Nat))
      BY <3>1, WFMin, NatLessThanWellFounded
    <3>3. \A y \in T : ~(y < x) BY <3>1, <3>2 DEF OpToRel
    <3>4. PICK e \in E : x = MaxEvent - e OBVIOUS
    <3>5. ASSUME NEW f \in E PROVE f <= e
      <4>1. ~(MaxEvent - f < MaxEvent - e) BY <3>3, <3>4
      <4> QED BY <4>1, TaskBounds DEF EventID
    <3> QED BY <3>5
  <2> QED BY <2>1, <2>2
<1> QED BY <1>1 DEF LastEvent

LEMMA LastIsEvent == ASSUME TypeOK, NEW t \in TaskID PROVE LastEvent(events[t]) \in 0 .. MaxEvent
<1>1. events[t] \in SUBSET EventID BY EventsType
<1> QED BY <1>1, LastIsLargest, TaskBounds DEF EventID

\* What the end of the process leaves
LEMMA ResetType ==
  ASSUME TypeOK, Reset
  PROVE  /\ run' \in [TaskID -> Goroutine] /\ recovery' \in Recovery /\ req' \in Request
         /\ snapshot' \in Snapshot /\ subs' \in [Subscribers -> Subscriber]
<1> USE TaskBounds
<1>1. run' \in [TaskID -> Goroutine] BY NoGoroutineType DEF Reset
<1>2. recovery' \in Recovery /\ req' \in Request /\ snapshot' \in Snapshot
  BY DEF Reset, NoRecovery, Recovery, NoRequest, Request, NoSnapshot, Snapshot
<1>3. [NoSubscriber EXCEPT !.pc = "gone"] \in Subscriber
  BY DEF NoSubscriber, Subscriber, Statuses
<1>4. subs' \in [Subscribers -> Subscriber] BY <1>3 DEF Reset, TypeOK
<1> QED BY <1>1, <1>2, <1>4

LEMMA TypeLifecycle == ASSUME TypeOK, Lifecycle PROVE TypeOK'
<1> USE TaskBounds
<1>1. CASE Stop
  <2>1. run' \in [TaskID -> Goroutine] BY <1>1, RunType DEF Stop, Goroutine, Cancel
  <2> QED BY <1>1, <2>1 DEF Stop, TypeOK
<1>2. CASE ProcessEnds
  <2>1. ends' \in 0 .. MaxEnds BY <1>2 DEF ProcessEnds, TypeOK
  <2> QED BY <1>2, <2>1, ResetType DEF ProcessEnds, Reset, TypeOK
<1>3. CASE Restart BY <1>3 DEF Restart, TypeOK, Recovery
<1>4. CASE Ready BY <1>4 DEF Ready, TypeOK, Recovery, NoRecovery
<1>5. ASSUME NEW t \in TaskID, RecoverTask(t) PROVE TypeOK'
  <2>0. LastEvent(events[t]) \in 0 .. MaxEvent BY LastIsEvent
  <2>1. rows' \in [TaskID -> Row]
    <3>1. Finish(rows, t, "fail", LastEvent(events[t])) \in [TaskID -> Row]
      BY <2>0, RowsType DEF Finish, Row, Statuses
    <3> QED BY <1>5, <3>1, RowsType DEF RecoverTask
  <2>2. events' \in [TaskID -> SUBSET EventID] BY <1>5, EventsType DEF RecoverTask, Purge
  <2>3. recovery \in Recovery /\ t - 1 \in 0 .. MaxTask BY DEF TypeOK, TaskID
  <2>4. recovery' \in Recovery BY <1>5, <2>3 DEF RecoverTask, Recovery
  <2> QED BY <1>5, <2>1, <2>2, <2>4 DEF RecoverTask, TypeOK
<1>6. ASSUME NEW t \in TaskID, RecoverConflict(t) PROVE TypeOK'
  BY <1>6, ResetType DEF RecoverConflict, Reset, TypeOK
<1>7. ASSUME NEW t \in TaskID, RecoverFails(t) PROVE TypeOK'
  <2>1. LateWrite("finish", t, rows[t].session, "fail", LastEvent(events[t])) \in Write
    BY RowsType, LastIsEvent, FaultsType DEF LateWrite, Write, Statuses, Row, TaskID
  <2>2. faults' \in 0 .. MaxFaults BY <1>7, FaultsType DEF RecoverFails
  <2> QED BY <1>7, <2>1, <2>2, ResetType DEF RecoverFails, Reset, TypeOK
<1> QED BY <1>1, <1>2, <1>3, <1>4, <1>5, <1>6, <1>7 DEF Lifecycle

LEMMA TypeStreams == ASSUME TypeOK, Followed, Streams PROVE TypeOK'
<1> USE TaskBounds
<1> PICK i \in Subscribers : \/ \E t \in TaskID : Subscribe(i, t)
                             \/ SendState(i) \/ Tick(i) \/ Deliver(i) \/ Disconnect(i)
  BY DEF Streams
<1>0. SUFFICES SubFrame /\ subs' \in [Subscribers -> Subscriber]
  BY DEF Subscribe, SendState, Tick, Deliver, Disconnect, SubFrame, TypeOK
<1>1. subs \in [Subscribers -> Subscriber] /\ subs[i] \in Subscriber BY DEF TypeOK
<1>2. \A told \in {"refresh", "gone"} : Close(i, told) => subs' \in [Subscribers -> Subscriber]
  <2>1. NoSubscriber \in Subscriber BY DEF NoSubscriber, Subscriber, Statuses
  <2> QED BY <1>1, <2>1 DEF Close, Subscriber
<1>3. ASSUME NEW t \in TaskID, Subscribe(i, t) PROVE SubFrame /\ subs' \in [Subscribers -> Subscriber]
  <2>1. [pc |-> "reading", task |-> t, status |-> rows[t].status, final |-> rows[t].final,
         delivered |-> 0] \in Subscriber
    BY RowsType DEF Row, Subscriber, TaskID
  <2> QED BY <1>1, <1>3, <2>1 DEF Subscribe
<1>4. CASE SendState(i) BY <1>1, <1>4 DEF SendState, Subscriber
<1>5. CASE Tick(i)
  <2>1. subs[i].task \in TaskID BY <1>5 DEF Tick, Followed
  <2> QED BY <1>1, <1>2, <1>5, <2>1, RowsType DEF Tick, Row, Subscriber
<1>6. CASE Deliver(i)
  <2>1. subs[i].task \in TaskID BY <1>6 DEF Deliver, Followed
  <2>2. events[subs[i].task] \in SUBSET EventID BY <2>1, EventsType
  <2> QED BY <1>1, <1>2, <1>6, <2>2 DEF Deliver, Subscriber, EventID
<1>7. CASE Disconnect(i) BY <1>2, <1>7 DEF Disconnect
<1> QED BY <1>3, <1>4, <1>5, <1>6, <1>7

LEMMA TypeNetwork == ASSUME TypeOK, LateWrites, Network PROVE TypeOK'
<1>1. ASSUME NEW w \in late, ApplyLate(w) PROVE TypeOK'
  <2>0. w \in Write BY DEF TypeOK
  <2>1. orphans' \in SUBSET TaskID BY <1>1 DEF ApplyLate, TypeOK
  <2>2. rows' \in [TaskID -> Row]
    <3>1. CASE w.op = "create"
      BY <1>1, <3>1, RowsType, TaskBounds DEF ApplyLate, Insert, LateWrites, Row, Statuses
    <3>2. CASE w.op = "start"
      BY <1>1, <3>2, RowsType DEF ApplyLate, Begin, LateWrites, Row, Statuses
    <3>3. CASE w.op = "finish"
      <4>1. w.task \in TaskID /\ w.status \in Statuses /\ w.final \in 0 .. MaxEvent
        BY <2>0, <3>3 DEF LateWrites, Write
      <4> QED BY <1>1, <3>3, <4>1, RowsType DEF ApplyLate, Finish, Row
    <3> QED BY <2>0, <3>1, <3>2, <3>3 DEF Write
  <2> QED BY <1>1, <2>1, <2>2 DEF ApplyLate, TypeOK
<1>2. ASSUME NEW t \in TaskID, NEW e \in EventID, StoreLate(t, e) PROVE TypeOK'
  BY <1>2 DEF StoreLate, GoroutineFrame, TypeOK
<1> QED BY <1>1, <1>2 DEF Network

-----------------------------------------------------------------------------
\* What the steps of snapshots and subscribers leave alone
LEMMA EvaluationFrame == Evaluation => SnapshotFrame
BY DEF Evaluation, EvalLockSession, EvalLockProject, EvalRelease
LEMMA StreamsFrame == Streams => SubFrame
BY DEF Streams, Subscribe, SendState, Tick, Deliver, Disconnect

\* The process starts, recovers and ends in Lifecycle only
LEMMA ProcessFrame == ASSUME [Next]_vars PROVE Lifecycle \/ UNCHANGED <<proc, recovery>>
<1>1. CASE Requests
  BY <1>1 DEF Requests, BeginChat, BeginResume, BeginCancel, CheckActive, LockSession, LockProject,
    CreateTask, CreateConflict, CreateFails, CancelTask
<1>2. CASE Execution
  BY <1>2 DEF Execution, GoroutineFrame, StartTask, StartFails, StartLost, Assemble, Publish,
    PublishFails, RunEnds, Decide, FinishTask, FinishFails, UnlockProject, UnlockSession, Unregister
<1> QED BY <1>1, <1>2, EvaluationFrame, StreamsFrame
        DEF Next, SnapshotFrame, SubFrame, Network, ApplyLate, StoreLate, GoroutineFrame, vars

-----------------------------------------------------------------------------
(***************************************************************************)
(* The table: what a step may do to it                                     *)
(***************************************************************************)
RowStep ==
  \/ rows' = rows
  \/ \E t \in TaskID, s \in Sessions :
       IsNextOrder(t) /\ CanInsert(s) /\ rows' = Insert(rows, t, s)
  \/ \E t \in TaskID : rows' = Begin(rows, t)
  \/ \E t \in TaskID, status \in {"success", "fail"}, final \in 0 .. MaxEvent :
       rows' = Finish(rows, t, status, final)

LEMMA StepsOfRows == ASSUME TypeOK, SessionsNamed, LateWrites, [Next]_vars PROVE RowStep
<1> USE DEF RowStep
<1>1. CASE Requests
  <2>1. ASSUME NEW t \in TaskID, CreateTask(t) PROVE RowStep
    BY <2>1 DEF CreateTask, SessionsNamed, InRequest
  <2>2. CASE ~ \E t \in TaskID : CreateTask(t)
    BY <1>1, <2>2 DEF Requests, BeginChat, BeginResume, BeginCancel, CheckActive, LockSession,
                  LockProject, CreateConflict, CreateFails, CancelTask
  <2> QED BY <2>1, <2>2
<1>2. CASE Execution
  <2>1. ASSUME NEW t \in TaskID, FinishTask(t) PROVE RowStep
    <3>1. run[t].lastID \in 0 .. MaxEvent BY RunType DEF Goroutine
    <3> QED BY <2>1, <3>1 DEF FinishTask, Result
  <2>2. CASE ~ \E t \in TaskID : FinishTask(t)
    BY <1>2, <2>2 DEF Execution, StartTask, StartFails, StartLost, Assemble, Publish, PublishFails,
                  RunEnds, Decide, FinishFails, UnlockProject, UnlockSession, Unregister
  <2> QED BY <2>1, <2>2
<1>3. CASE Evaluation
  BY <1>3, EvaluationFrame DEF SnapshotFrame
<1>4. CASE Lifecycle
  <2>1. ASSUME NEW t \in TaskID, RecoverTask(t) PROVE RowStep
    BY <2>1, LastIsEvent DEF RecoverTask
  <2>2. CASE ~ \E t \in TaskID : RecoverTask(t)
    BY <1>4, <2>2 DEF Lifecycle, Stop, ProcessEnds, Restart, Ready, RecoverConflict, RecoverFails
  <2> QED BY <2>1, <2>2
<1>5. CASE Streams
  BY <1>5, StreamsFrame DEF SubFrame
<1>6. CASE Network
  <2>1. ASSUME NEW w \in late, ApplyLate(w) PROVE RowStep
    <3>1. w.final \in 0 .. MaxEvent BY DEF TypeOK, Write
    <3>2. CASE w.op = "create" BY <2>1, <3>2 DEF ApplyLate, LateWrites
    <3>3. CASE w.op = "start" BY <2>1, <3>3 DEF ApplyLate, LateWrites
    <3>4. CASE w.op = "finish"
      <4>1. w.task \in TaskID /\ w.status \in {"success", "fail"} BY <3>4 DEF LateWrites, Terminal
      <4> QED BY <2>1, <3>1, <3>4, <4>1 DEF ApplyLate
    <3> QED BY <2>1, <3>2, <3>3, <3>4 DEF ApplyLate
  <2>2. ASSUME NEW t \in TaskID, NEW e \in EventID, StoreLate(t, e) PROVE RowStep
    BY <2>2 DEF StoreLate
  <2> QED BY <1>6, <2>1, <2>2 DEF Network
<1>7. CASE UNCHANGED vars BY <1>7 DEF vars
<1> QED BY <1>1, <1>2, <1>3, <1>4, <1>5, <1>6, <1>7 DEF Next

\* A row is never removed and keeps its session; a terminal row is never
\* written; the last task of a session was its last task before.
RowsGrow ==
  \A t \in TaskID :
    /\ HasRow(t) => HasRow(t)' /\ rows'[t].session = rows[t].session
    /\ Terminal(rows[t]) => rows'[t] = rows[t]
    /\ HasRow(t) /\ Latest(t)' => Latest(t)

LEMMA GrowingRows == ASSUME TypeOK, Rows, RowStep PROVE RowsGrow
<1> USE RowsType, SessionAssumption DEF RowsGrow, HasRow, Terminal, Latest, Rows, TaskID
<1>1. CASE rows' = rows BY <1>1
<1>2. ASSUME NEW t \in TaskID, NEW s \in Sessions, IsNextOrder(t), rows' = Insert(rows, t, s)
      PROVE RowsGrow
  BY <1>2 DEF IsNextOrder, Insert, NoRow
<1>3. ASSUME NEW t \in TaskID, rows' = Begin(rows, t) PROVE RowsGrow
  BY <1>3 DEF Begin, Row
<1>4. ASSUME NEW t \in TaskID, NEW status \in {"success", "fail"}, NEW final \in 0 .. MaxEvent,
             rows' = Finish(rows, t, status, final) PROVE RowsGrow
  BY <1>4 DEF Finish, Row, Active
<1> QED BY <1>1, <1>2, <1>3, <1>4 DEF RowStep

LEMMA KeepRows == ASSUME TypeOK, Rows, RowStep PROVE Rows'
<1> USE RowsType DEF HasRow, Rows
<1>1. CASE rows' = rows BY <1>1
<1>2. ASSUME NEW t \in TaskID, NEW s \in Sessions, IsNextOrder(t), rows' = Insert(rows, t, s)
      PROVE Rows'
  BY <1>2 DEF IsNextOrder, Insert, NoRow, TaskID
<1>3. ASSUME NEW t \in TaskID, rows' = Begin(rows, t) PROVE Rows'
  BY <1>3 DEF Begin, Row, TaskID
<1>4. ASSUME NEW t \in TaskID, NEW status \in {"success", "fail"}, NEW final \in 0 .. MaxEvent,
             rows' = Finish(rows, t, status, final) PROVE Rows'
  <2>1. \A u \in TaskID : ~Active(rows[u]) \/ u # t => rows'[u] = rows[u] BY <1>4 DEF Finish
  <2>2. \A u \in TaskID : HasRow(u)' <=> HasRow(u)
    BY <1>4 DEF Finish, Row, Active
  <2>3. \A u \in TaskID : HasRow(u) => rows'[u].session = rows[u].session
    BY <1>4 DEF Finish, Row
  <2>4. \A u \in TaskID : ~HasRow(u) => rows'[u] = rows[u] BY <2>1 DEF Active
  <2>5. \A u \in TaskID : 1 .. u - 1 \subseteq TaskID BY TaskBounds DEF TaskID
  <2> HIDE DEF HasRow
  <2> QED BY <2>2, <2>3, <2>4, <2>5
<1> QED BY <1>1, <1>2, <1>3, <1>4 DEF RowStep

LEMMA KeepOneActive == ASSUME TypeOK, OneActive, RowStep PROVE OneActive'
<1> USE RowsType DEF OneActive, Active
<1>1. CASE rows' = rows BY <1>1
<1>2. ASSUME NEW t \in TaskID, NEW s \in Sessions, CanInsert(s), rows' = Insert(rows, t, s)
      PROVE OneActive'
  BY <1>2 DEF CanInsert, ActiveIn, Insert
<1>3. ASSUME NEW t \in TaskID, rows' = Begin(rows, t) PROVE OneActive'
  BY <1>3 DEF Begin, Row
<1>4. ASSUME NEW t \in TaskID, NEW status \in {"success", "fail"}, NEW final \in 0 .. MaxEvent,
             rows' = Finish(rows, t, status, final) PROVE OneActive'
  BY <1>4 DEF Finish, Row
<1> QED BY <1>1, <1>2, <1>3, <1>4 DEF RowStep

-----------------------------------------------------------------------------
(***************************************************************************)
(* Goroutines, requests and snapshots                                      *)
(***************************************************************************)
LEMMA QuietMeans ==
  ASSUME Quiet, ~Serving, TypeOK
  PROVE  /\ req.pc = "none" /\ snapshot.pc = "none" /\ unacked = {}
         /\ \A t \in TaskID : run[t] = NoGoroutine /\ run[t].pc = "none" /\ run[t].lastID = 0
BY DEF Quiet, Serving, TypeOK, NoRequest, NoSnapshot, NoGoroutine

LEMMA KeepQuiet == ASSUME TypeOK, Quiet, [Next]_vars PROVE Quiet'
<1>0. SUFFICES ASSUME proc' \in {"down", "recovering"} PROVE Quiet'
  BY DEF Quiet
<1>1. CASE Requests
  BY <1>0, <1>1, QuietMeans DEF Quiet, Requests, BeginChat, BeginResume, BeginCancel, Serving, CheckActive,
     LockSession, LockProject, CreateTask, CreateConflict, CreateFails, CancelTask
<1>2. CASE Execution
  BY <1>0, <1>2, QuietMeans DEF Quiet, Serving, Execution, GoroutineFrame, StartTask, StartFails, StartLost, Assemble,
     Publish, PublishFails, RunEnds, Decide, FinishTask, FinishFails, UnlockProject, UnlockSession,
     Unregister
<1>3. CASE Evaluation
  BY <1>0, <1>3, QuietMeans DEF Quiet, Serving, Evaluation, EvalLockSession, EvalLockProject, EvalRelease,
     SnapshotFrame
<1>4. CASE Lifecycle
  BY <1>4 DEF Quiet, Lifecycle, Stop, ProcessEnds, Restart, Ready, RecoverTask, RecoverConflict,
     RecoverFails, Reset
<1>5. CASE Streams
  BY <1>5, StreamsFrame DEF Quiet, SubFrame
<1>6. CASE Network
  BY <1>0, <1>6, QuietMeans DEF Quiet, Serving, Network, ApplyLate, StoreLate, GoroutineFrame
<1>7. CASE UNCHANGED vars BY <1>7 DEF vars, Quiet
<1> QED BY <1>1, <1>2, <1>3, <1>4, <1>5, <1>6, <1>7 DEF Next

LEMMA KeepSessionsNamed == ASSUME TypeOK, SessionsNamed, [Next]_vars PROVE SessionsNamed'
<1> USE DEF SessionsNamed, InRequest
<1>1. CASE Requests
  BY <1>1, ReqType DEF Requests, BeginChat, BeginResume, BeginCancel, CheckActive, LockSession,
     LockProject, CreateTask, CreateConflict, CreateFails, CancelTask, NoRequest, Request
<1>2. CASE Execution
  BY <1>2 DEF Execution, GoroutineFrame, StartTask, StartFails, StartLost, Assemble, Publish,
     PublishFails, RunEnds, Decide, FinishTask, FinishFails, UnlockProject, UnlockSession, Unregister
<1>3. CASE Evaluation
  <2>1. snapshot \in Snapshot BY DEF TypeOK
  <2> QED BY <1>3, <2>1, ProjectAssumption DEF Evaluation, EvalLockSession, EvalLockProject, EvalRelease,
     SnapshotFrame, NoSnapshot, Snapshot
<1>4. CASE Lifecycle
  <2>1. CASE Reset BY <2>1 DEF Reset, NoRequest, NoSnapshot
  <2>2. CASE req' = req /\ snapshot' = snapshot BY <2>2
  <2> QED BY <1>4, <2>1, <2>2 DEF Lifecycle, Stop, ProcessEnds, Restart, Ready, RecoverTask,
     RecoverConflict, RecoverFails
<1>5. CASE Streams
  BY <1>5, StreamsFrame DEF SubFrame
<1>6. CASE Network BY <1>6 DEF Network, ApplyLate, StoreLate, GoroutineFrame
<1>7. CASE UNCHANGED vars BY <1>7 DEF vars
<1> QED BY <1>1, <1>2, <1>3, <1>4, <1>5, <1>6, <1>7 DEF Next

\* A goroutine begins with CreateTask and works until FinishTask returns;
\* only CreateTask and the end of the process touch more than one record
GoroutineStep(t) ==
  /\ run'[t].pc \in Working => CreateTask(t) \/ run[t].pc \in Working
  /\ run'[t].pc = "unlockProject" => run[t].pc \in {"finish", "unlockProject"}
  /\ run'[t].pc \in Live => CreateTask(t) \/ run[t].pc \in Live
  /\ run[t].pc = "none" => CreateTask(t) \/ run'[t] = run[t] \/ run'[t] = NoGoroutine

LEMMA StepsOfGoroutines == ASSUME TypeOK, [Next]_vars, NEW t \in TaskID PROVE GoroutineStep(t)
<1> USE RunType DEF GoroutineStep
<1>1. CASE Requests
  <2>1. ASSUME NEW u \in TaskID, CreateTask(u) PROVE GoroutineStep(t)
    BY <2>1 DEF CreateTask, NoGoroutine
  <2>2. CASE CancelTask
    <3>1. run'[t].pc = run[t].pc BY <2>2 DEF CancelTask, Goroutine
    <3>2. run[t].pc = "none" => run'[t] = run[t] BY <2>2 DEF CancelTask, Goroutine, Live, Working
    <3> QED BY <3>1, <3>2 DEF Live, Working
  <2>3. CASE run' = run BY <2>3
  <2> QED BY <1>1, <2>1, <2>2, <2>3 DEF Requests, BeginChat, BeginResume, BeginCancel, CheckActive,
     LockSession, LockProject, CreateConflict, CreateFails
<1>2. CASE Execution
  BY <1>2 DEF Execution, StartTask, StartFails, StartLost, Assemble, Publish, PublishFails, RunEnds,
     Decide, FinishTask, FinishFails, UnlockProject, UnlockSession, Unregister, Goroutine, Working, Live,
     NoGoroutine
<1>3. CASE Evaluation
  BY <1>3, EvaluationFrame DEF SnapshotFrame
<1>4. CASE Lifecycle
  <2>1. CASE Reset BY <2>1 DEF Reset, NoGoroutine, Working, Live
  <2>2. CASE Stop
    <3>1. run'[t].pc = run[t].pc BY <2>2 DEF Stop, Goroutine
    <3>2. run[t].pc = "none" => run'[t] = run[t] BY <2>2 DEF Stop, Live, Working
    <3> QED BY <3>1, <3>2 DEF Live, Working
  <2>3. CASE run' = run BY <2>3
  <2> QED BY <1>4, <2>1, <2>2, <2>3 DEF Lifecycle, ProcessEnds, Restart, Ready, RecoverTask,
     RecoverConflict, RecoverFails
<1>5. CASE Streams
  BY <1>5, StreamsFrame DEF SubFrame
<1>6. CASE Network BY <1>6 DEF Network, ApplyLate, StoreLate
<1>7. CASE UNCHANGED vars BY <1>7 DEF vars
<1> QED BY <1>1, <1>2, <1>3, <1>4, <1>5, <1>6, <1>7 DEF Next

LEMMA Started == ASSUME Unborn, NEW t \in TaskID, run[t].pc # "none" PROVE HasRow(t)
BY DEF Unborn, NoGoroutine

LEMMA NewRow ==
  ASSUME TypeOK, SessionsNamed, NEW t \in TaskID, CreateTask(t)
  PROVE  /\ rows'[t] = [session |-> req.session, status |-> "waiting", final |-> 0]
         /\ \A u \in TaskID : u # t => rows'[u] = rows[u]
         /\ ~HasRow(t) /\ req.session \in Sessions /\ HasRow(t)'
BY RowsType DEF CreateTask, IsNextOrder, HasRow, Insert, SessionsNamed, InRequest

LEMMA KeepUnborn == ASSUME TypeOK, SessionsNamed, Unborn, RowsGrow, [Next]_vars PROVE Unborn'
<1> SUFFICES ASSUME NEW t \in TaskID, ~HasRow(t)'
             PROVE  /\ run'[t] = NoGoroutine /\ events'[t] = {} /\ resumed'[t] = 0
                    /\ \A e \in EventID : <<t, e>> \notin unacked'
  BY DEF Unborn
<1>1. /\ ~HasRow(t) /\ run[t] = NoGoroutine /\ events[t] = {} /\ resumed[t] = 0
      /\ \A e \in EventID : <<t, e>> \notin unacked
  BY DEF Unborn, RowsGrow
<1>2. ~CreateTask(t) BY NewRow
<1>3. run'[t] = NoGoroutine BY <1>1, <1>2, StepsOfGoroutines DEF GoroutineStep, NoGoroutine
<1>4. resumed'[t] = 0 /\ events'[t] = {} /\ \A e \in EventID : <<t, e>> \notin unacked'
  <2>1. CASE Requests
    <3>1. ASSUME NEW u \in TaskID, CreateTask(u)
          PROVE  resumed'[t] = 0 /\ events' = events /\ unacked' = unacked
      BY <1>1, <1>2, <3>1 DEF CreateTask, TypeOK
    <3>2. CASE resumed' = resumed /\ events' = events /\ unacked' = unacked BY <1>1, <3>2
    <3> QED BY <1>1, <2>1, <3>1, <3>2 DEF Requests, BeginChat, BeginResume, BeginCancel, CheckActive,
      LockSession, LockProject, CreateConflict, CreateFails, CancelTask
  <2>2. CASE Execution
    <3>1. PICK u \in TaskID : \/ StartTask(u) \/ StartFails(u) \/ Assemble(u) \/ Publish(u) \/ PublishFails(u)
                        \/ RunEnds(u) \/ Decide(u) \/ FinishTask(u) \/ FinishFails(u)
                        \/ UnlockProject(u) \/ UnlockSession(u) \/ Unregister(u)
      BY <2>2 DEF Execution
    <3>2. resumed' = resumed
      BY <3>1 DEF GoroutineFrame, StartTask, StartFails, StartLost, Assemble, Publish, PublishFails,
        RunEnds, Decide, FinishTask, FinishFails, UnlockProject, UnlockSession, Unregister
    <3>3. CASE u = t
      BY <1>1, <3>1, <3>3 DEF NoGoroutine, StartTask, StartFails, StartLost, Assemble, Publish, PublishFails,
        RunEnds, Decide, FinishTask, FinishFails, UnlockProject, UnlockSession, Unregister
    <3>4. CASE u # t
      BY <1>1, <3>1, <3>2, <3>4, EventsType DEF Purge, StartTask, StartFails, StartLost, Assemble, Publish,
        PublishFails, RunEnds, Decide, FinishTask, FinishFails, UnlockProject, UnlockSession, Unregister
    <3> QED BY <3>3, <3>4
  <2>3. CASE Evaluation
    BY <1>1, <2>3, EvaluationFrame DEF SnapshotFrame
  <2>4. CASE Lifecycle
    BY <1>1, <2>4 DEF Lifecycle, Stop, ProcessEnds, Restart, Ready, RecoverTask, RecoverConflict,
      RecoverFails, Reset, Purge
  <2>5. CASE Streams
    BY <1>1, <2>5, StreamsFrame DEF SubFrame
  <2>6. CASE Network
    BY <1>1, <2>6, EventsType DEF Network, ApplyLate, StoreLate, GoroutineFrame
  <2>7. CASE UNCHANGED vars BY <1>1, <2>7 DEF vars
  <2> QED BY <2>1, <2>2, <2>3, <2>4, <2>5, <2>6, <2>7 DEF Next
<1> QED BY <1>3, <1>4

LEMMA KeepRunnerIsRecorded ==
  ASSUME TypeOK, SessionsNamed, Quiet, LateWrites, Unborn, RunnerIsRecorded, [Next]_vars
  PROVE  RunnerIsRecorded'
<1> SUFFICES ASSUME NEW t \in TaskID, run'[t].pc \in Working PROVE Active(rows'[t])
  BY DEF RunnerIsRecorded
<1>1. CASE CreateTask(t) BY <1>1, NewRow DEF Active
<1>2. CASE ~CreateTask(t)
  <2>1. run[t].pc \in Working /\ Active(rows[t]) /\ HasRow(t)
    BY <1>2, StepsOfGoroutines DEF GoroutineStep, RunnerIsRecorded, Active, HasRow
  <2>2. CASE rows' = rows BY <2>1, <2>2
  <2>3. ASSUME NEW u \in TaskID, NEW s, IsNextOrder(u), rows' = Insert(rows, u, s) PROVE Active(rows'[t])
    BY <2>1, <2>3, RowsType DEF IsNextOrder, Insert, HasRow
  <2>4. ASSUME NEW u \in TaskID, rows' = Begin(rows, u) PROVE Active(rows'[t])
    BY <2>1, <2>4, RowsType DEF Begin, Active, Row
  <2>5. ASSUME NEW u \in TaskID, FinishTask(u) PROVE Active(rows'[t])
    <3>1. run'[u].pc = "unlockProject" BY <2>5, RunType DEF FinishTask, Goroutine
    <3>2. t # u BY <3>1 DEF Working
    <3> QED BY <2>1, <2>5, <3>2, RowsType DEF FinishTask, Finish
  <2>6. ASSUME NEW u \in TaskID, RecoverTask(u) PROVE Active(rows'[t])
    BY <2>1, <2>6, QuietMeans DEF RecoverTask, Serving, Working
  <2>7. ASSUME NEW w \in late, ApplyLate(w), w.op = "finish" PROVE Active(rows'[t])
    <3>1. w.task # t BY <2>1, <2>7 DEF LateWrites
    <3> QED BY <2>1, <2>7, <3>1, RowsType DEF ApplyLate, Finish
  <2>8. CASE Requests
    BY <1>2, <2>2, <2>3, <2>8 DEF Requests, BeginChat, BeginResume, BeginCancel, CheckActive,
      LockSession, LockProject, CreateTask, CreateConflict, CreateFails, CancelTask
  <2>9. CASE Execution
    BY <2>2, <2>4, <2>5, <2>9 DEF Execution, StartTask, StartFails, StartLost, Assemble, Publish,
      PublishFails, RunEnds, Decide, FinishFails, UnlockProject, UnlockSession, Unregister
  <2>10. CASE Evaluation
    BY <2>2, <2>10, EvaluationFrame DEF SnapshotFrame
  <2>11. CASE Lifecycle
    BY <2>2, <2>6, <2>11 DEF Lifecycle, Stop, ProcessEnds, Restart, Ready, RecoverConflict, RecoverFails
  <2>12. CASE Streams
    BY <2>2, <2>12, StreamsFrame DEF SubFrame
  <2>13. CASE Network
    BY <2>2, <2>3, <2>4, <2>7, <2>13 DEF Network, ApplyLate, StoreLate, LateWrites
  <2>14. CASE UNCHANGED vars BY <2>2, <2>14 DEF vars
  <2> QED BY <2>8, <2>9, <2>10, <2>11, <2>12, <2>13, <2>14 DEF Next
<1> QED BY <1>1, <1>2

-----------------------------------------------------------------------------
(***************************************************************************)
(* The lock of a project                                                   *)
(***************************************************************************)
\* A lock that is given back was held by nobody else
Releases(gone) ==
  /\ projectLocks' = projectLocks \ gone
  /\ \A p \in Projects :
       /\ Creating(p)' => Creating(p) /\ p \notin gone
       /\ Copying(p)' => Copying(p) /\ p \notin gone
       /\ \A t \in TaskID : HoldsProject(t, p)' => HoldsProject(t, p) /\ p \notin gone

LEMMA HeldShrinks == ASSUME ProjectHeld, NEW gone, Releases(gone) PROVE ProjectHeld'
<1> USE DEF Releases
<1>1. ASSUME NEW p \in Projects, Creating(p)' \/ Copying(p)' PROVE p \in projectLocks'
  BY <1>1 DEF ProjectHeld
<1>2. ASSUME NEW p \in Projects, Creating(p)', Copying(p)' PROVE FALSE
  BY <1>2 DEF ProjectHeld
<1>3. ASSUME NEW p \in Projects, NEW t \in TaskID, HoldsProject(t, p)'
      PROVE  /\ p \in projectLocks' /\ ~Creating(p)' /\ ~Copying(p)'
             /\ \A u \in TaskID : HoldsProject(u, p)' => t = u
  BY <1>3 DEF ProjectHeld
<1> QED BY <1>1, <1>2, <1>3 DEF ProjectHeld

LEMMA HeldBefore ==
  ASSUME TypeOK, SessionsNamed, Unborn, RowsGrow, [Next]_vars, NEW t \in TaskID, NEW p,
         HoldsProject(t, p)'
  PROVE  CreateTask(t) \/ HoldsProject(t, p)
<1>1. CASE ~CreateTask(t)
  <2>1. run[t].pc \in Working \cup {"unlockProject"}
    BY <1>1, StepsOfGoroutines DEF GoroutineStep, HoldsProject, Working
  <2>2. HasRow(t) BY <2>1, Started DEF Working
  <2> QED BY <2>1, <2>2 DEF RowsGrow, HoldsProject
<1> QED BY <1>1

LEMMA KeepProjectHeld ==
  ASSUME TypeOK, SessionsNamed, Unborn, ProjectHeld, RowsGrow, [Next]_vars
  PROVE  ProjectHeld'
<1> DEFINE Kept == \A t \in TaskID, p \in Projects : HoldsProject(t, p)' => HoldsProject(t, p)
<1>0. CASE projectLocks' = projectLocks /\ (req' = req \/ req'.pc # "create")
           /\ (snapshot' = snapshot \/ snapshot'.pc # "copy") /\ Kept
  <2>1. \A p : (Creating(p)' => Creating(p)) /\ (Copying(p)' => Copying(p))
    BY <1>0 DEF Creating, Copying
  <2>2. Releases({}) BY <1>0, <2>1 DEF Releases
  <2> QED BY <2>2, HeldShrinks
<1>1. ASSUME rows' = rows \/ req' = req PROVE Kept
  <2>1. ASSUME NEW t \in TaskID, CreateTask(t) PROVE FALSE
    <3>1. rows' # rows BY <2>1, NewRow DEF HasRow
    <3>2. req' # req BY <2>1 DEF CreateTask, NoRequest
    <3> QED BY <1>1, <3>1, <3>2
  <2> QED BY <2>1, HeldBefore
<1>2. ASSUME NEW t \in TaskID, CreateTask(t) PROVE ProjectHeld'
  <2> DEFINE q == ProjectOf[req.session]
  <2>1. req.session \in Sessions /\ q \in Projects /\ Creating(q)
    BY <1>2, NewRow, ProjectAssumption DEF CreateTask, Creating
  <2>2. \A u \in TaskID, p \in Projects : HoldsProject(u, p)' => HoldsProject(u, p) \/ (u = t /\ p = q)
    <3>1. \A u \in TaskID : u # t => run'[u] = run[u] /\ rows'[u] = rows[u]
      BY <1>2, NewRow, RunType DEF CreateTask
    <3>2. rows'[t].session = req.session BY <1>2, NewRow
    <3> QED BY <3>1, <3>2 DEF HoldsProject
  <2>3. \A p : ~Creating(p)' /\ (Copying(p)' => Copying(p))
    BY <1>2 DEF CreateTask, Creating, Copying, NoRequest
  <2>4. projectLocks' = projectLocks BY <1>2 DEF CreateTask
  <2> HIDE DEF q
  <2> QED BY <2>1, <2>2, <2>3, <2>4 DEF ProjectHeld
<1>3. CASE LockProject
  <2> DEFINE q == ProjectOf[req.session]
  <2>1. q \in Projects BY <1>3, ProjectAssumption DEF LockProject, SessionsNamed, InRequest
  <2>2. CASE LockedProject(q)
    BY <1>0, <1>1, <1>3, <2>2 DEF LockProject, NoRequest
  <2>3. CASE ~LockedProject(q)
    <3>1. projectLocks' = projectLocks \cup {q} /\ q \notin projectLocks /\ snapshot' = snapshot
      BY <1>3, <2>3 DEF LockProject, LockedProject
    <3>2. Kept BY <1>1, <1>3 DEF LockProject
    <3>3. \A p : Creating(p)' => p = q
      BY <1>3, <2>3, ReqType DEF LockProject, Creating, Request
    <3>4. \A p : Copying(p)' => Copying(p) BY <3>1 DEF Copying
    <3> HIDE DEF q
    <3> QED BY <2>1, <3>1, <3>2, <3>3, <3>4 DEF ProjectHeld
  <2> QED BY <2>2, <2>3
<1>4. CASE CreateConflict \/ CreateFails
  <2> DEFINE q == ProjectOf[req.session]
  <2>1. q \in Projects /\ Creating(q)
    BY <1>4, ProjectAssumption DEF CreateConflict, CreateFails, SessionsNamed, InRequest, Creating
  <2>2. projectLocks' = projectLocks \ {q} /\ snapshot' = snapshot /\ req' = NoRequest
    BY <1>4 DEF CreateConflict, CreateFails, ReleaseBoth
  <2>3. Kept BY <1>1, <1>4 DEF CreateConflict, CreateFails
  <2>4. \A p : ~Creating(p)' /\ (Copying(p)' => Copying(p))
    BY <2>2 DEF Creating, Copying, NoRequest
  <2>5. \A p \in Projects : Copying(p) \/ (\E t \in TaskID : HoldsProject(t, p)) => p # q
    BY <2>1 DEF ProjectHeld
  <2> HIDE DEF q
  <2>6. Releases({q}) BY <2>2, <2>3, <2>4, <2>5 DEF Releases
  <2> QED BY <2>6, HeldShrinks
<1>5. ASSUME NEW t \in TaskID, UnlockProject(t) PROVE ProjectHeld'
  <2> DEFINE q == ProjectOf[rows[t].session]
  <2>1. HoldsProject(t, q) BY <1>5 DEF UnlockProject, HoldsProject
  <2>2. projectLocks' = projectLocks \ {q} /\ snapshot' = snapshot /\ req' = req
    BY <1>5 DEF UnlockProject, GoroutineFrame
  <2>3. Kept BY <1>1, <1>5 DEF UnlockProject
  <2>4. \A p : ~HoldsProject(t, p)'
    BY <1>5, RunType DEF UnlockProject, HoldsProject, Working, Goroutine
  <2>5. \A p \in Projects, u \in TaskID : HoldsProject(u, p)' => p # q
    BY <2>1, <2>3, <2>4 DEF ProjectHeld
  <2>6. \A p \in Projects : Creating(p) \/ Copying(p) => p # q BY <2>1 DEF ProjectHeld
  <2>7. \A p : (Creating(p)' => Creating(p)) /\ (Copying(p)' => Copying(p))
    BY <2>2 DEF Creating, Copying
  <2> HIDE DEF q
  <2>8. Releases({q}) BY <2>2, <2>3, <2>5, <2>6, <2>7 DEF Releases
  <2> QED BY <2>8, HeldShrinks
<1>6. CASE EvalLockProject
  <2> DEFINE q == ProjectOf[snapshot.session]
  <2>1. Kept /\ req' = req /\ snapshot \in Snapshot
    BY <1>1, <1>6 DEF EvalLockProject, SnapshotFrame, TypeOK
  <2>2. CASE snapshot' = NoSnapshot /\ projectLocks' = projectLocks
    BY <1>0, <2>1, <2>2 DEF NoSnapshot
  <2>3. CASE ~LockedProject(q) /\ projectLocks' = projectLocks \cup {q}
             /\ snapshot' = [snapshot EXCEPT !.pc = "copy"]
    <3>1. q \notin projectLocks BY <2>3 DEF LockedProject
    <3>2. \A p : (Copying(p)' => p = q) /\ (Creating(p)' => Creating(p))
      BY <2>1, <2>3 DEF Copying, Creating, Snapshot
    <3> HIDE DEF q
    <3> QED BY <2>1, <2>3, <3>1, <3>2 DEF ProjectHeld
  <2> QED BY <1>6, <2>2, <2>3 DEF EvalLockProject
<1>7. CASE EvalRelease
  <2> DEFINE q == ProjectOf[snapshot.session]
  <2>1. q \in Projects /\ Copying(q)
    BY <1>7, ProjectAssumption DEF EvalRelease, SessionsNamed, Copying
  <2>2. projectLocks' = projectLocks \ {q} /\ snapshot' = NoSnapshot /\ req' = req /\ Kept
    BY <1>1, <1>7 DEF EvalRelease, ReleaseBoth, SnapshotFrame
  <2>3. \A p : ~Copying(p)' /\ (Creating(p)' => Creating(p))
    BY <2>2 DEF Creating, Copying, NoSnapshot
  <2>4. \A p \in Projects : Creating(p) \/ (\E t \in TaskID : HoldsProject(t, p)) => p # q
    BY <2>1 DEF ProjectHeld
  <2> HIDE DEF q
  <2>5. Releases({q}) BY <2>2, <2>3, <2>4 DEF Releases
  <2> QED BY <2>5, HeldShrinks
<1>8. CASE Reset
  <2>1. \A p : ~Creating(p)' /\ ~Copying(p)' /\ \A t \in TaskID : ~HoldsProject(t, p)'
    BY <1>8 DEF Reset, Creating, Copying, HoldsProject, NoRequest, NoSnapshot, NoGoroutine, Working
  <2> QED BY <2>1 DEF ProjectHeld
<1>9. CASE Requests
  <2>1. CASE CheckActive \/ LockSession
    <3>1. req'.pc # "create" BY <2>1, ReqType DEF CheckActive, LockSession, NoRequest, Request
    <3> QED BY <1>0, <1>1, <2>1, <3>1 DEF CheckActive, LockSession
  <2>2. CASE CancelTask BY <1>0, <1>1, <2>2 DEF CancelTask, NoRequest
  <2>3. ASSUME NEW s, NEW t, BeginChat(s) \/ BeginResume(s, t) \/ BeginCancel(t) PROVE ProjectHeld'
    BY <1>0, <1>1, <2>3 DEF BeginChat, BeginResume, BeginCancel
  <2> QED BY <1>2, <1>3, <1>4, <1>9, <2>1, <2>2, <2>3 DEF Requests
<1>10. CASE Execution
  <2>1. CASE req' = req /\ snapshot' = snapshot /\ projectLocks' = projectLocks
    BY <1>0, <1>1, <2>1
  <2> QED BY <1>5, <1>10, <2>1 DEF Execution, GoroutineFrame, StartTask, StartFails, StartLost,
    Assemble, Publish, PublishFails, RunEnds, Decide, FinishTask, FinishFails, UnlockSession, Unregister
<1>11. CASE Evaluation
  <2>1. ASSUME NEW s, EvalLockSession(s) PROVE ProjectHeld'
    BY <1>0, <1>1, <2>1 DEF EvalLockSession, SnapshotFrame
  <2> QED BY <1>6, <1>7, <1>11, <2>1 DEF Evaluation
<1>12. CASE Lifecycle
  <2>1. CASE req' = req /\ snapshot' = snapshot /\ projectLocks' = projectLocks
    BY <1>0, <1>1, <2>1
  <2> QED BY <1>8, <1>12, <2>1 DEF Lifecycle, Stop, ProcessEnds, Restart, Ready, RecoverTask,
    RecoverConflict, RecoverFails
<1>13. CASE Streams BY <1>0, <1>1, <1>13, StreamsFrame DEF SubFrame
<1>14. CASE Network BY <1>0, <1>1, <1>14 DEF Network, ApplyLate, StoreLate, GoroutineFrame
<1>15. CASE UNCHANGED vars BY <1>0, <1>1, <1>15 DEF vars
<1> QED BY <1>9, <1>10, <1>11, <1>12, <1>13, <1>14, <1>15 DEF Next

-----------------------------------------------------------------------------
(***************************************************************************)
(* The event stream and the writes on their way                            *)
(***************************************************************************)
\* A purge spares the last task of a session
LEMMA PurgeSpares ==
  ASSUME TypeOK, NEW t \in TaskID, Latest(t), NEW u \in TaskID,
         Assemble(u) \/ RecoverTask(u)
  PROVE  events'[t] = events[t]
<1>1. CASE Assemble(u)
  <2>1. t \notin Older(u) BY DEF Older, Latest, TaskID
  <2> QED BY <1>1, <2>1 DEF Assemble, Purge
<1>2. CASE RecoverTask(u)
  <2>1. recovery.listed \in 0 .. MaxTask BY DEF TypeOK, Recovery
  <2>2. Superseded(u) => u # t BY <2>1, TaskBounds DEF Superseded, Latest, TaskID
  <2> QED BY <1>2, <2>2 DEF RecoverTask, Purge
<1> QED BY <1>1, <1>2

LEMMA EventsKept ==
  ASSUME TypeOK, [Next]_vars, NEW t \in TaskID, Latest(t)
  PROVE  events[t] \subseteq events'[t]
<1>0. events \in [TaskID -> SUBSET EventID] BY EventsType
<1>1. CASE Requests
  BY <1>1 DEF Requests, BeginChat, BeginResume, BeginCancel, CheckActive, LockSession, LockProject,
    CreateTask, CreateConflict, CreateFails, CancelTask
<1>2. CASE Execution
  <2>1. ASSUME NEW u \in TaskID, Publish(u) PROVE events[t] \subseteq events'[t]
    BY <1>0, <2>1 DEF Publish
  <2> QED BY <1>2, <2>1, PurgeSpares DEF Execution, StartTask, StartFails, StartLost, PublishFails,
    RunEnds, Decide, FinishTask, FinishFails, UnlockProject, UnlockSession, Unregister
<1>3. CASE Evaluation BY <1>3, EvaluationFrame DEF SnapshotFrame
<1>4. CASE Lifecycle
  BY <1>4, PurgeSpares DEF Lifecycle, Stop, ProcessEnds, Restart, Ready, RecoverConflict, RecoverFails
<1>5. CASE Streams BY <1>5, StreamsFrame DEF SubFrame
<1>6. CASE Network BY <1>0, <1>6 DEF Network, ApplyLate, StoreLate
<1>7. CASE UNCHANGED vars BY <1>7 DEF vars
<1> QED BY <1>1, <1>2, <1>3, <1>4, <1>5, <1>6, <1>7 DEF Next

\* The largest stored event of a session's last task has all others below it
LEMMA LastIsStored ==
  ASSUME TypeOK, Stored, NEW t \in TaskID, HasRow(t), Latest(t)
  PROVE  1 .. LastEvent(events[t]) \subseteq events[t]
<1>1. events[t] \in SUBSET EventID BY EventsType
<1>2. LastEvent(events[t]) \in events[t] \/ LastEvent(events[t]) = 0 BY <1>1, LastIsLargest
<1>3. CASE LastEvent(events[t]) \in events[t] BY <1>3 DEF Stored
<1>4. CASE LastEvent(events[t]) = 0 BY <1>4
<1> QED BY <1>2, <1>3, <1>4

LEMMA KeepLateWrites ==
  ASSUME TypeOK, SessionsNamed, Unborn, LateWrites, Stored, Recovering, RowsGrow, [Next]_vars
  PROVE  LateWrites'
<1> DEFINE Harmless(w) ==
      /\ w.op = "create" => w.session \in Sessions
      /\ w.op = "start" => w.task \in TaskID
      /\ w.op = "finish" =>
           /\ w.task \in TaskID /\ HasRow(w.task)' /\ Terminal(w) /\ run'[w.task].pc \notin Working
           /\ Latest(w.task)' => 1 .. w.final \subseteq events'[w.task]
<1> SUFFICES ASSUME NEW w \in late' PROVE Harmless(w) BY DEF LateWrites
<1>1. CASE w \in late
  <2>1. CASE w.op # "finish" BY <1>1, <2>1 DEF LateWrites
  <2>2. CASE w.op = "finish"
    <3>1. /\ w.task \in TaskID /\ HasRow(w.task) /\ Terminal(w) /\ run[w.task].pc \notin Working
          /\ Latest(w.task) => 1 .. w.final \subseteq events[w.task]
      BY <1>1, <2>2 DEF LateWrites
    <3>2. HasRow(w.task)' /\ (Latest(w.task)' => Latest(w.task)) BY <3>1 DEF RowsGrow
    <3>3. run'[w.task].pc \notin Working
      BY <3>1, StepsOfGoroutines, NewRow DEF GoroutineStep
    <3>4. Latest(w.task) => events[w.task] \subseteq events'[w.task] BY <3>1, EventsKept
    <3> QED BY <2>2, <3>1, <3>2, <3>3, <3>4
  <2> QED BY <2>1, <2>2
<1>2. CASE CreateFails /\ w = LateWrite("create", 0, req.session, "waiting", 0)
  BY <1>2 DEF CreateFails, LateWrite, SessionsNamed, InRequest
<1>3. ASSUME NEW t \in TaskID, w = LateWrite("start", t, rows[t].session, "running", 0)
      PROVE  Harmless(w)
  BY <1>3 DEF LateWrite
<1>4. ASSUME NEW t \in TaskID, FinishFails(t),
             w = LateWrite("finish", t, rows[t].session, Result(t), run[t].lastID)
      PROVE  Harmless(w)
  <2>1. w.op = "finish" /\ w.task = t /\ w.final = run[t].lastID /\ Terminal(w)
    BY <1>4 DEF LateWrite, Terminal, Result
  <2>2. HasRow(t) BY <1>4, Started DEF FinishFails
  <2>3. HasRow(t)' /\ (Latest(t)' => Latest(t)) BY <2>2 DEF RowsGrow
  <2>4. run'[t].pc \notin Working BY <1>4, RunType DEF FinishFails, Goroutine, Working
  <2>5. events' = events BY <1>4 DEF FinishFails
  <2>6. Latest(t) => 1 .. run[t].lastID \subseteq events[t] BY <2>2 DEF Stored
  <2> QED BY <2>1, <2>3, <2>4, <2>5, <2>6
<1>5. ASSUME NEW t \in TaskID, RecoverFails(t),
             w = LateWrite("finish", t, rows[t].session, "fail", LastEvent(events[t]))
      PROVE  Harmless(w)
  <2>1. w.op = "finish" /\ w.task = t /\ w.final = LastEvent(events[t]) /\ Terminal(w)
    BY <1>5 DEF LateWrite, Terminal
  <2>2. HasRow(t) BY <1>5 DEF RecoverFails, SeenActive, Recovering
  <2>3. HasRow(t)' /\ (Latest(t)' => Latest(t)) BY <2>2 DEF RowsGrow
  <2>4. run'[t].pc \notin Working BY <1>5 DEF RecoverFails, Reset, NoGoroutine, Working
  <2>5. events' = events BY <1>5 DEF RecoverFails
  <2>6. Latest(t) => 1 .. LastEvent(events[t]) \subseteq events[t] BY <2>2, LastIsStored
  <2> QED BY <2>1, <2>3, <2>4, <2>5, <2>6
<1> HIDE DEF Harmless
<1>6. CASE Requests
  BY <1>1, <1>2, <1>6 DEF Requests, BeginChat, BeginResume, BeginCancel, CheckActive, LockSession,
    LockProject, CreateTask, CreateConflict, CreateFails, CancelTask
<1>7. CASE Execution
  BY <1>1, <1>3, <1>4, <1>7 DEF Execution, StartTask, StartFails, StartLost, Assemble, Publish,
    PublishFails, RunEnds, Decide, FinishTask, FinishFails, UnlockProject, UnlockSession, Unregister
<1>8. CASE Evaluation BY <1>1, <1>8, EvaluationFrame DEF SnapshotFrame
<1>9. CASE Lifecycle
  BY <1>1, <1>5, <1>9 DEF Lifecycle, Stop, ProcessEnds, Restart, Ready, RecoverTask, RecoverConflict,
    RecoverFails
<1>10. CASE Streams BY <1>1, <1>10, StreamsFrame DEF SubFrame
<1>11. CASE Network BY <1>1, <1>11 DEF Network, ApplyLate, StoreLate
<1>12. CASE UNCHANGED vars BY <1>1, <1>12 DEF vars
<1> QED BY <1>6, <1>7, <1>8, <1>9, <1>10, <1>11, <1>12 DEF Next

\* The row that a step inserts: nothing was stored for it
LEMMA FreshRow ==
  ASSUME TypeOK, SessionsNamed, LateWrites, Unborn, RowStep, [Next]_vars,
         NEW t \in TaskID, ~HasRow(t), HasRow(t)'
  PROVE  /\ rows'[t].status = "waiting" /\ events'[t] = {} /\ run'[t].lastID = 0
         /\ \A e \in EventID : <<t, e>> \notin unacked'
<1>0. /\ run[t] = NoGoroutine /\ events[t] = {} /\ run[t].pc = "none"
      /\ \A e \in EventID : <<t, e>> \notin unacked
  BY DEF Unborn, NoGoroutine
<1>1. rows'[t].status = "waiting"
  <2>0. rows'[t] # rows[t] /\ ~Active(rows[t]) BY DEF HasRow, Active
  <2>1. ASSUME NEW u \in TaskID, NEW s, rows' = Insert(rows, u, s) PROVE rows'[t].status = "waiting"
    BY <2>0, <2>1, RowsType DEF Insert
  <2>2. ASSUME NEW u \in TaskID, rows' = Begin(rows, u) PROVE FALSE
    BY <2>0, <2>2, RowsType DEF Begin, Active
  <2>3. ASSUME NEW u \in TaskID, NEW status, NEW final, rows' = Finish(rows, u, status, final) PROVE FALSE
    BY <2>0, <2>3, RowsType DEF Finish
  <2> QED BY <2>0, <2>1, <2>2, <2>3 DEF RowStep
<1>2. run'[t].lastID = 0
  <2>1. CASE CreateTask(t) BY <2>1, RunType DEF CreateTask, NoGoroutine
  <2>2. CASE ~CreateTask(t)
    BY <1>0, <2>2, StepsOfGoroutines DEF GoroutineStep, NoGoroutine
  <2> QED BY <2>1, <2>2
<1>3. events'[t] = {} /\ \A e \in EventID : <<t, e>> \notin unacked'
  <2>1. CASE Requests
    BY <1>0, <2>1 DEF Requests, BeginChat, BeginResume, BeginCancel, CheckActive, LockSession,
      LockProject, CreateTask, CreateConflict, CreateFails, CancelTask
  <2>2. CASE rows' = rows BY <2>2 DEF HasRow
  <2>3. ASSUME NEW u \in TaskID, StartTask(u) \/ FinishTask(u) PROVE events'[t] = {} /\ unacked' = unacked
    BY <1>0, <2>3 DEF StartTask, FinishTask
  <2>4. ASSUME NEW u \in TaskID, RecoverTask(u) PROVE events'[t] = {} /\ unacked' = unacked
    BY <1>0, <2>4 DEF RecoverTask, Purge
  <2>5. CASE Execution
    BY <1>0, <2>2, <2>3, <2>5 DEF Execution, StartFails, StartLost, Assemble, Publish, PublishFails, RunEnds,
      Decide, FinishFails, UnlockProject, UnlockSession, Unregister
  <2>6. CASE Evaluation BY <2>2, <2>6, EvaluationFrame DEF SnapshotFrame
  <2>7. CASE Lifecycle
    BY <1>0, <2>2, <2>4, <2>7 DEF Lifecycle, Stop, ProcessEnds, Restart, Ready, RecoverConflict, RecoverFails
  <2>8. CASE Streams BY <2>2, <2>8, StreamsFrame DEF SubFrame
  <2>9. CASE Network BY <1>0, <2>2, <2>9 DEF Network, ApplyLate, StoreLate
  <2>10. CASE UNCHANGED vars BY <2>2, <2>10 DEF vars
  <2> QED BY <2>1, <2>5, <2>6, <2>7, <2>8, <2>9, <2>10 DEF Next
<1> QED BY <1>1, <1>2, <1>3

\* Whoever writes a final_event_id for the last task of a session has the
\* events up to it stored: the goroutine, the recovery, an unanswered write
LEMMA FinalIsStored ==
  ASSUME TypeOK, LateWrites, Stored, Unborn, Recovering, RowsGrow, [Next]_vars,
         NEW t \in TaskID, HasRow(t), Latest(t), Terminal(rows'[t])
  PROVE  1 .. rows'[t].final \subseteq events[t]
<1>1. CASE Terminal(rows[t]) BY <1>1 DEF RowsGrow, Stored
<1>2. CASE rows'[t] = rows[t] BY <1>1, <1>2
<1>3. ASSUME NEW u \in TaskID, NEW status, NEW final, rows' = Finish(rows, u, status, final),
             u = t => 1 .. final \subseteq events[t]
      PROVE  1 .. rows'[t].final \subseteq events[t]
  <2>1. CASE rows'[t] = rows[t] BY <1>2, <2>1
  <2>2. CASE rows'[t] # rows[t]
    <3>1. u = t /\ rows'[t].final = final BY <1>3, <2>2, RowsType DEF Finish, Row
    <3> QED BY <1>3, <3>1
  <2> QED BY <2>1, <2>2
<1>4. ASSUME NEW u \in TaskID, NEW s, IsNextOrder(u), rows' = Insert(rows, u, s)
      PROVE  rows'[t] = rows[t]
  BY <1>4, RowsType DEF IsNextOrder, Insert, HasRow
<1>5. ASSUME NEW u \in TaskID, rows' = Begin(rows, u) PROVE rows'[t] = rows[t]
  BY <1>5, RowsType DEF Begin, Terminal, Row
<1>6. ASSUME NEW u \in TaskID, FinishTask(u) PROVE 1 .. rows'[t].final \subseteq events[t]
  <2>1. 1 .. run[t].lastID \subseteq events[t] BY DEF Stored
  <2> QED BY <1>3, <1>6, <2>1 DEF FinishTask
<1>7. ASSUME NEW u \in TaskID, RecoverTask(u) PROVE 1 .. rows'[t].final \subseteq events[t]
  <2>1. 1 .. LastEvent(events[t]) \subseteq events[t] BY LastIsStored
  <2> QED BY <1>2, <1>3, <1>7, <2>1 DEF RecoverTask
<1>8. ASSUME NEW w \in late, ApplyLate(w) PROVE 1 .. rows'[t].final \subseteq events[t]
  <2>1. CASE w.op = "finish"
    <3>1. w.task \in TaskID /\ (w.task = t => 1 .. w.final \subseteq events[t])
      BY <2>1 DEF LateWrites
    <3> QED BY <1>3, <1>8, <2>1, <3>1 DEF ApplyLate
  <2>2. CASE w.op # "finish" BY <1>2, <1>4, <1>5, <1>8, <2>2 DEF ApplyLate, LateWrites
  <2> QED BY <2>1, <2>2
<1>9. CASE Requests
  BY <1>2, <1>4, <1>9 DEF Requests, BeginChat, BeginResume, BeginCancel, CheckActive, LockSession,
    LockProject, CreateTask, CreateConflict, CreateFails, CancelTask
<1>10. CASE Execution
  BY <1>2, <1>5, <1>6, <1>10 DEF Execution, StartTask, StartFails, StartLost, Assemble, Publish,
    PublishFails, RunEnds, Decide, FinishFails, UnlockProject, UnlockSession, Unregister
<1>11. CASE Evaluation BY <1>2, <1>11, EvaluationFrame DEF SnapshotFrame
<1>12. CASE Lifecycle
  BY <1>2, <1>7, <1>12 DEF Lifecycle, Stop, ProcessEnds, Restart, Ready, RecoverConflict, RecoverFails
<1>13. CASE Streams BY <1>2, <1>13, StreamsFrame DEF SubFrame
<1>14. CASE Network BY <1>2, <1>8, <1>14 DEF Network, StoreLate
<1>15. CASE UNCHANGED vars BY <1>2, <1>15 DEF vars
<1> QED BY <1>9, <1>10, <1>11, <1>12, <1>13, <1>14, <1>15 DEF Next

\* What a step that stores no event of t may do to its records
StoresNothing(t) ==
  /\ events'[t] = events[t]
  /\ run'[t].lastID = run[t].lastID \/ run'[t].lastID = 0
  /\ \A e \in EventID : <<t, e>> \in unacked' => <<t, e>> \in unacked

LEMMA KeepStored ==
  ASSUME TypeOK, SessionsNamed, LateWrites, Stored, Unborn, Recovering, RowStep, RowsGrow, [Next]_vars
  PROVE  Stored'
<1> SUFFICES ASSUME NEW t \in TaskID, HasRow(t)', Latest(t)'
             PROVE  /\ \A e \in events'[t] : 1 .. e \subseteq events'[t]
                    /\ 1 .. run'[t].lastID \subseteq events'[t]
                    /\ \A e \in EventID : <<t, e>> \in unacked' => 1 .. e - 1 \subseteq events'[t]
                    /\ Terminal(rows'[t]) => 1 .. rows'[t].final \subseteq events'[t]
  BY DEF Stored
<1>1. CASE ~HasRow(t) BY <1>1, FreshRow DEF Terminal
<1>2. CASE HasRow(t)
  <2>1. Latest(t) BY <1>2 DEF RowsGrow
  <2>2. events[t] \subseteq events'[t] BY <2>1, EventsKept
  <2>3. Terminal(rows'[t]) => 1 .. rows'[t].final \subseteq events'[t]
    BY <1>2, <2>1, <2>2, FinalIsStored
  <2>4. /\ \A e \in events[t] : 1 .. e \subseteq events[t]
        /\ 1 .. run[t].lastID \subseteq events[t]
        /\ \A e \in EventID : <<t, e>> \in unacked => 1 .. e - 1 \subseteq events[t]
    BY <1>2, <2>1 DEF Stored
  <2>5. events[t] \in SUBSET EventID /\ run[t].lastID \in 0 .. MaxEvent BY EventsType, RunType DEF Goroutine
  <2> DEFINE Gapless ==
        /\ \A e \in events'[t] : 1 .. e \subseteq events'[t]
        /\ 1 .. run'[t].lastID \subseteq events'[t]
        /\ \A e \in EventID : <<t, e>> \in unacked' => 1 .. e - 1 \subseteq events'[t]
  <2>6. ASSUME StoresNothing(t) PROVE Gapless BY <2>4, <2>6 DEF StoresNothing
  <2>7. ASSUME Publish(t) PROVE Gapless
    <3> DEFINE n == run[t].lastID
    <3>1. events'[t] = events[t] \cup {n + 1} /\ run'[t].lastID = n + 1 /\ unacked' = unacked
      BY <2>7, EventsType, RunType DEF Publish, Goroutine
    <3>2. 1 .. n + 1 = (1 .. n) \cup {n + 1} BY <2>5
    <3> QED BY <2>4, <3>1, <3>2
  <2>8. ASSUME PublishFails(t) PROVE Gapless
    <3>1. events' = events /\ run'[t].lastID = run[t].lastID
      BY <2>8, RunType DEF PublishFails, Goroutine
    <3>2. \A e \in EventID : <<t, e>> \in unacked' => <<t, e>> \in unacked \/ e = run[t].lastID + 1
      BY <2>8 DEF PublishFails
    <3>3. ASSUME NEW e \in EventID, <<t, e>> \in unacked' PROVE 1 .. e - 1 \subseteq events[t]
      <4>1. CASE <<t, e>> \in unacked BY <2>4, <4>1
      <4>2. CASE e = run[t].lastID + 1
        <5>1. e - 1 = run[t].lastID BY <2>5, <4>2
        <5> QED BY <2>4, <5>1
      <4> QED BY <3>2, <3>3, <4>1, <4>2
    <3> QED BY <2>4, <3>1, <3>3
  <2>9. ASSUME NEW e \in EventID, StoreLate(t, e) PROVE Gapless
    <3>1. events'[t] = events[t] \cup {e} /\ run' = run /\ unacked' \subseteq unacked /\ <<t, e>> \in unacked
      BY <2>9, EventsType DEF StoreLate
    <3>2. 1 .. e = (1 .. e - 1) \cup {e} BY TaskBounds DEF EventID
    <3> QED BY <2>4, <3>1, <3>2
  <2>10. Gapless
    <3> HIDE DEF Gapless
    <3>1. CASE events' = events /\ run' = run /\ unacked' = unacked BY <2>6, <3>1 DEF StoresNothing
    <3>2. CASE Requests
      <4>1. CASE CancelTask
        <5>1. run'[t].lastID = run[t].lastID BY <4>1, RunType DEF CancelTask, Goroutine
        <5> QED BY <2>6, <4>1, <5>1 DEF CancelTask, StoresNothing
      <4>2. ASSUME NEW u \in TaskID, CreateTask(u) PROVE Gapless
        <5>1. u # t BY <1>2, <4>2, NewRow
        <5> QED BY <2>6, <4>2, <5>1, RunType DEF CreateTask, StoresNothing
      <4> QED BY <3>1, <3>2, <4>1, <4>2 DEF Requests, BeginChat, BeginResume, BeginCancel, CheckActive,
        LockSession, LockProject, CreateConflict, CreateFails
    <3>3. CASE Execution
      <4>1. ASSUME NEW u \in TaskID, Publish(u) \/ PublishFails(u), u # t PROVE StoresNothing(t)
        BY <4>1, RunType, EventsType DEF Publish, PublishFails, StoresNothing
      <4>2. ASSUME NEW u \in TaskID, Assemble(u) PROVE StoresNothing(t)
        <5>1. run'[t].lastID = run[t].lastID BY <4>2, RunType DEF Assemble, Goroutine
        <5> QED BY <2>1, <4>2, <5>1, PurgeSpares DEF Assemble, StoresNothing
      <4>3. ASSUME NEW u \in TaskID,
                   StartTask(u) \/ StartFails(u) \/ RunEnds(u) \/ Decide(u) \/ FinishTask(u)
                     \/ FinishFails(u) \/ UnlockProject(u) \/ UnlockSession(u) \/ Unregister(u)
            PROVE  StoresNothing(t)
        <5>1. run'[t].lastID = run[t].lastID \/ run'[t].lastID = 0
          BY <4>3, RunType DEF StartTask, StartFails, StartLost, RunEnds, Decide, FinishTask, FinishFails,
            UnlockProject, UnlockSession, Unregister, Goroutine, NoGoroutine
        <5>2. events' = events /\ unacked' = unacked
          BY <4>3 DEF StartTask, StartFails, StartLost, RunEnds, Decide, FinishTask, FinishFails,
            UnlockProject, UnlockSession, Unregister
        <5> QED BY <5>1, <5>2 DEF StoresNothing
      <4> QED BY <2>6, <2>7, <2>8, <3>3, <4>1, <4>2, <4>3 DEF Execution
    <3>4. CASE Evaluation BY <3>1, <3>4, EvaluationFrame DEF SnapshotFrame
    <3>5. CASE Lifecycle
      <4>1. CASE Stop
        <5>1. run'[t].lastID = run[t].lastID BY <4>1, RunType DEF Stop, Goroutine
        <5> QED BY <2>6, <4>1, <5>1 DEF Stop, StoresNothing
      <4>2. CASE Reset /\ events' = events
        BY <2>6, <4>2 DEF Reset, StoresNothing, NoGoroutine
      <4>3. ASSUME NEW u \in TaskID, RecoverTask(u) PROVE Gapless
        <5>1. events'[t] = events[t] BY <2>1, <4>3, PurgeSpares
        <5> QED BY <2>6, <4>3, <5>1 DEF RecoverTask, StoresNothing
      <4> QED BY <3>1, <3>5, <4>1, <4>2, <4>3 DEF Lifecycle, ProcessEnds, Restart, Ready, RecoverConflict,
        RecoverFails
    <3>6. CASE Streams BY <3>1, <3>6, StreamsFrame DEF SubFrame
    <3>7. CASE Network
      <4>1. ASSUME NEW u \in TaskID, NEW e \in EventID, StoreLate(u, e), u # t PROVE StoresNothing(t)
        BY <4>1, EventsType DEF StoreLate, StoresNothing
      <4> QED BY <2>6, <2>9, <3>1, <3>7, <4>1 DEF Network, ApplyLate
    <3>8. CASE UNCHANGED vars BY <3>1, <3>8 DEF vars
    <3> QED BY <3>2, <3>3, <3>4, <3>5, <3>6, <3>7, <3>8 DEF Next
  <2> QED BY <2>3, <2>10
<1> QED BY <1>1, <1>2

-----------------------------------------------------------------------------
(***************************************************************************)
(* Rows left behind                                                        *)
(***************************************************************************)
LEMMA RowIsBorn ==
  ASSUME TypeOK, RowStep, [Next]_vars, NEW t \in TaskID, ~HasRow(t), HasRow(t)'
  PROVE  CreateTask(t) \/ t \in orphans'
<1>0. rows'[t] # rows[t] /\ ~Active(rows[t]) /\ rows[t].status # "waiting" BY DEF HasRow, Active
<1>1. ASSUME NEW u \in TaskID, rows' = Begin(rows, u) PROVE FALSE
  BY <1>0, <1>1, RowsType DEF Begin
<1>2. ASSUME NEW u, NEW status, NEW final, rows' = Finish(rows, u, status, final) PROVE FALSE
  BY <1>0, <1>2, RowsType DEF Finish
<1>3. ASSUME NEW u \in TaskID, NEW s, rows' = Insert(rows, u, s) PROVE u = t
  BY <1>0, <1>3, RowsType DEF Insert
<1>4. ASSUME NEW w, ApplyLate(w) PROVE t \in orphans'
  <2>1. ~ \E u, status, final : rows' = Finish(rows, u, status, final) BY <1>2
  <2>2. rows' # Begin(rows, w.task)
    <3>1. CASE w.task \in TaskID BY <1>1, <3>1
    <3>2. CASE w.task \notin TaskID BY <1>0, <3>2, RowsType DEF Begin
    <3> QED BY <3>1, <3>2
  <2> QED BY <1>3, <1>4, <2>1, <2>2 DEF ApplyLate
<1>5. CASE Requests
  BY <1>0, <1>3, <1>5 DEF Requests, BeginChat, BeginResume, BeginCancel, CheckActive, LockSession,
    LockProject, CreateTask, CreateConflict, CreateFails, CancelTask
<1>6. CASE Execution
  BY <1>0, <1>1, <1>2, <1>6 DEF Execution, StartTask, StartFails, StartLost, Assemble, Publish,
    PublishFails, RunEnds, Decide, FinishTask, FinishFails, UnlockProject, UnlockSession, Unregister
<1>7. CASE Evaluation BY <1>0, <1>7, EvaluationFrame DEF SnapshotFrame
<1>8. CASE Lifecycle
  BY <1>0, <1>2, <1>8 DEF Lifecycle, Stop, ProcessEnds, Restart, Ready, RecoverTask, RecoverConflict,
    RecoverFails
<1>9. CASE Streams BY <1>0, <1>9, StreamsFrame DEF SubFrame
<1>10. CASE Network BY <1>0, <1>4, <1>10 DEF Network, StoreLate
<1>11. CASE UNCHANGED vars BY <1>0, <1>11 DEF vars
<1> QED BY <1>5, <1>6, <1>7, <1>8, <1>9, <1>10, <1>11 DEF Next

LEMMA ActiveBefore ==
  ASSUME TypeOK, RowsGrow, NEW t \in TaskID, HasRow(t), Active(rows'[t])
  PROVE  Active(rows[t])
<1>1. rows[t].status \in Statuses BY RowsType DEF Row
<1>2. ~Terminal(rows[t]) BY DEF RowsGrow, Terminal, Active
<1> QED BY <1>1, <1>2 DEF Statuses, HasRow, Active, Terminal

LEMMA OrphansGrow == ASSUME [Next]_vars PROVE orphans \subseteq orphans'
<1>1. CASE Requests
  BY <1>1 DEF Requests, BeginChat, BeginResume, BeginCancel, CheckActive, LockSession,
    LockProject, CreateTask, CreateConflict, CreateFails, CancelTask
<1>2. CASE Execution
  BY <1>2 DEF Execution, StartTask, StartFails, StartLost, Assemble, Publish,
    PublishFails, RunEnds, Decide, FinishTask, FinishFails, UnlockProject, UnlockSession, Unregister
<1>3. CASE Evaluation BY <1>3, EvaluationFrame DEF SnapshotFrame
<1>4. CASE Lifecycle
  BY <1>4 DEF Lifecycle, Stop, ProcessEnds, Restart, Ready, RecoverTask, RecoverConflict, RecoverFails
<1>5. CASE Streams BY <1>5, StreamsFrame DEF SubFrame
<1>6. CASE Network BY <1>6 DEF Network, ApplyLate, StoreLate
<1>7. CASE UNCHANGED vars BY <1>7 DEF vars
<1> QED BY <1>1, <1>2, <1>3, <1>4, <1>5, <1>6, <1>7 DEF Next

\* While the process lives, a goroutine works until it has written its row
LEMMA WorkContinues ==
  ASSUME TypeOK, SessionsNamed, Unborn, [Next]_vars, Serving', NEW t \in TaskID, run[t].pc \in Working
  PROVE  run'[t].pc \in Working \/ FinishTask(t) \/ FinishFails(t)
<1>0. HasRow(t) BY Started DEF Working
<1>1. CASE run' = run BY <1>1
<1>2. CASE Requests
  <2>1. ASSUME NEW u \in TaskID, CreateTask(u) PROVE run'[t] = run[t]
    BY <1>0, <2>1, NewRow, RunType DEF CreateTask
  <2>2. CASE CancelTask BY <2>2, RunType DEF CancelTask, Goroutine
  <2> QED BY <1>1, <1>2, <2>1, <2>2 DEF Requests, BeginChat, BeginResume, BeginCancel, CheckActive,
    LockSession, LockProject, CreateConflict, CreateFails
<1>3. CASE Execution
  BY <1>3, RunType DEF Execution, StartTask, StartFails, StartLost, Assemble, Publish, PublishFails,
    RunEnds, Decide, FinishTask, FinishFails, UnlockProject, UnlockSession, Unregister, Goroutine, Working
<1>4. CASE Lifecycle
  <2>1. CASE Stop BY <2>1, RunType DEF Stop, Goroutine
  <2>2. ~Reset BY DEF Reset, Serving
  <2> QED BY <1>1, <1>4, <2>1, <2>2 DEF Lifecycle, ProcessEnds, Restart, Ready, RecoverTask,
    RecoverConflict, RecoverFails
<1> QED BY <1>1, <1>2, <1>3, <1>4, EvaluationFrame, StreamsFrame
        DEF Next, SnapshotFrame, SubFrame, Network, ApplyLate, StoreLate, vars

LEMMA KeepNoSilentOrphan ==
  ASSUME TypeOK, SessionsNamed, Unborn, Recovering, NoSilentOrphan, RowStep, RowsGrow, [Next]_vars
  PROVE  NoSilentOrphan'
<1> SUFFICES ASSUME Serving', NEW t \in TaskID, Active(rows'[t]), t \notin orphans'
             PROVE  run'[t].pc \in Working
  BY DEF NoSilentOrphan
<1>1. HasRow(t)' BY DEF Active, HasRow
<1>2. CASE ~HasRow(t)
  <2>1. CreateTask(t) BY <1>1, <1>2, RowIsBorn
  <2> QED BY <2>1, RunType DEF CreateTask, NoGoroutine, Working
<1>3. CASE HasRow(t)
  <2>1. Active(rows[t]) /\ t \notin orphans BY <1>3, ActiveBefore, OrphansGrow
  <2>2. CASE Serving
    <3>1. run[t].pc \in Working BY <2>1, <2>2 DEF NoSilentOrphan
    <3>2. ~FinishFails(t) BY DEF FinishFails
    <3>3. ~FinishTask(t)
      <4>1. ASSUME FinishTask(t) PROVE Terminal(rows'[t])
        BY <2>1, <4>1, RowsType DEF FinishTask, Finish, Result, Terminal, Row
      <4> QED BY <4>1 DEF Terminal, Active
    <3> QED BY <3>1, <3>2, <3>3, WorkContinues
  <2>3. CASE ~Serving
    <3>1. Ready
      BY <2>3, ProcessFrame DEF Serving, Lifecycle, Stop, ProcessEnds, Restart, Reset, RecoverTask,
        RecoverConflict, RecoverFails
    <3>2. t <= 0 BY <2>1, <3>1 DEF Ready, Recovering
    <3> QED BY <3>2 DEF TaskID
  <2> QED BY <2>2, <2>3
<1> QED BY <1>2, <1>3

LEMMA KeepRecovering ==
  ASSUME TypeOK, Quiet, SessionsNamed, Recovering, RowStep, RowsGrow, [Next]_vars
  PROVE  Recovering'
<1> SUFFICES ASSUME proc' = "recovering"
             PROVE  /\ \A t \in recovery'.active : HasRow(t)'
                    /\ \A t \in TaskID : Active(rows'[t]) /\ t \notin orphans' =>
                         t \in recovery'.active /\ t <= recovery'.next
  BY DEF Recovering
<1>0. recovery \in Recovery /\ recovery.active \subseteq TaskID BY DEF TypeOK, Recovery
<1>1. CASE Restart
  <2>1. PICK n \in 0 .. MaxTask :
          /\ \A t \in TaskID : t <= n <=> rows[t].status # "none"
          /\ recovery' = [listed |-> n, next |-> n, active |-> {t \in TaskID : Active(rows[t])}]
    BY <1>1 DEF Restart
  <2>2. rows' = rows BY <1>1 DEF Restart
  <2> QED BY <2>1, <2>2 DEF Active, HasRow
<1>2. CASE proc = "recovering" /\ ~Restart
  <2>1. \A t \in recovery.active : HasRow(t)' BY <1>0, <1>2 DEF Recovering, RowsGrow
  <2>2. ASSUME NEW t \in TaskID, Active(rows'[t]), t \notin orphans'
        PROVE  t \in recovery.active /\ t <= recovery.next /\ Active(rows[t])
    <3>1. HasRow(t)' BY <2>2 DEF HasRow, Active
    <3>2. ~CreateTask(t) BY <1>2, QuietMeans DEF CreateTask, Serving
    <3>3. HasRow(t) BY <2>2, <3>1, <3>2, RowIsBorn
    <3>4. Active(rows[t]) /\ t \notin orphans BY <2>2, <3>3, ActiveBefore, OrphansGrow
    <3> QED BY <1>2, <3>4 DEF Recovering
  <2>3. CASE recovery' = recovery BY <2>1, <2>2, <2>3
  <2>4. ASSUME NEW u \in TaskID, RecoverTask(u)
        PROVE  /\ recovery'.active = recovery.active
               /\ \A t \in TaskID : Active(rows'[t]) /\ t \notin orphans' => t <= recovery'.next
    <3>1. recovery'.active = recovery.active /\ recovery'.next = u - 1 /\ recovery.next = u
      BY <1>0, <2>4 DEF RecoverTask, Recovery
    <3>2. ASSUME NEW t \in TaskID, Active(rows'[t]), t \notin orphans' PROVE t # u
      <4>1. SUFFICES ASSUME t = u PROVE FALSE OBVIOUS
      <4>2. SeenActive(t) /\ Active(rows[t]) BY <2>2, <3>2 DEF SeenActive
      <4>3. rows'[t].status = "fail" BY <2>4, <4>1, <4>2, RowsType DEF RecoverTask, Finish, Row
      <4> QED BY <3>2, <4>3 DEF Active
    <3> QED BY <2>2, <3>1, <3>2 DEF TaskID
  <2> QED BY <1>2, <2>1, <2>2, <2>3, <2>4, ProcessFrame
          DEF Lifecycle, Stop, ProcessEnds, Ready, Reset, RecoverConflict, RecoverFails
<1>3. proc = "recovering" \/ Restart
  BY ProcessFrame DEF Lifecycle, Stop, ProcessEnds, Ready, Reset, RecoverTask, RecoverConflict,
     RecoverFails
<1> QED BY <1>1, <1>2, <1>3

-----------------------------------------------------------------------------
(***************************************************************************)
(* Subscribers and continuations                                           *)
(***************************************************************************)
\* What subscriber i knows
Knows(i) ==
  /\ subs[i].pc \in {"reading", "state"} =>
       /\ subs[i].task \in TaskID /\ HasRow(subs[i].task) /\ subs[i].status # "none"
       /\ ~Active(subs[i]) => /\ subs[i].status = rows[subs[i].task].status
                              /\ subs[i].final = rows[subs[i].task].final
  /\ subs[i].pc = "state" => Complete(subs[i])

\* A closed row stays as the subscriber read it
LEMMA KnowledgeLasts ==
  ASSUME TypeOK, RowsGrow, NEW i \in Subscribers, Knows(i), subs'[i] = subs[i]
  PROVE  Knows(i)'
<1>1. subs[i].status \in Statuses BY DEF TypeOK, Subscriber
<1>2. CASE subs[i].pc \in {"reading", "state"}
  <2> DEFINE u == subs[i].task
  <2>1. u \in TaskID /\ HasRow(u) /\ HasRow(u)' BY <1>2 DEF Knows, RowsGrow
  <2>2. ~Active(subs[i]) => rows'[u] = rows[u]
    BY <1>1, <1>2, <2>1 DEF Knows, RowsGrow, Active, Terminal, Statuses
  <2> QED BY <1>2, <2>1, <2>2 DEF Knows, Complete, Active
<1>3. CASE subs[i].pc \notin {"reading", "state"} BY <1>3 DEF Knows
<1> QED BY <1>2, <1>3

LEMMA KeepFollowed == ASSUME TypeOK, Followed, RowsGrow, [Next]_vars PROVE Followed'
<1>0. \A i \in Subscribers : Knows(i) BY DEF Followed, Knows
<1> SUFFICES ASSUME NEW i \in Subscribers PROVE Knows(i)' BY DEF Followed, Knows
<1>1. CASE subs'[i] = subs[i] BY <1>0, <1>1, KnowledgeLasts
<1>2. CASE Reset
  <2>1. subs'[i] = subs[i] \/ subs'[i].pc = "gone" BY <1>2 DEF Reset, NoSubscriber
  <2> QED BY <1>1, <2>1 DEF Knows
<1>3. CASE Streams
  <2>0. subs \in [Subscribers -> Subscriber] /\ subs[i] \in Subscriber BY DEF TypeOK
  <2>1. PICK j \in Subscribers : \/ \E t \in TaskID : Subscribe(j, t)
                                 \/ SendState(j) \/ Tick(j) \/ Deliver(j) \/ Disconnect(j)
    BY <1>3 DEF Streams
  <2>2. CASE i # j
    <3>1. subs'[i] = subs[i]
      BY <2>0, <2>1, <2>2 DEF Subscribe, SendState, Tick, Deliver, Disconnect, Close
    <3> QED BY <1>1, <3>1
  <2>3. CASE i = j
    <3>1. rows' = rows BY <1>3, StreamsFrame DEF SubFrame
    <3>2. ASSUME NEW told \in {"refresh", "gone"}, Close(i, told) PROVE Knows(i)'
      BY <2>0, <3>2 DEF Close, NoSubscriber, Knows
    <3>3. ASSUME NEW t \in TaskID, Subscribe(i, t) PROVE Knows(i)'
      BY <2>0, <3>1, <3>3 DEF Subscribe, Knows, HasRow
    <3>4. CASE SendState(i)
      <4>1. subs'[i] = [subs[i] EXCEPT !.pc = "state"] /\ subs[i].pc = "reading" /\ Complete(subs[i])
        BY <2>0, <3>4 DEF SendState
      <4> QED BY <1>0, <2>0, <3>1, <4>1 DEF Knows, HasRow, Complete, Active, Subscriber
    <3>5. CASE Tick(i)
      <4> DEFINE u == subs[i].task
      <4>1. subs[i].pc = "reading" /\ u \in TaskID /\ HasRow(u) BY <1>0, <3>5 DEF Tick, Knows
      <4>2. CASE IsLatest(rows[u].session, u)
        <5>1. subs'[i] = [subs[i] EXCEPT !.status = rows[u].status, !.final = rows[u].final]
          BY <2>0, <3>5, <4>2 DEF Tick
        <5> QED BY <2>0, <3>1, <4>1, <5>1 DEF Knows, HasRow, Active, Subscriber
      <4>3. CASE ~IsLatest(rows[u].session, u) BY <3>2, <3>5, <4>3 DEF Tick
      <4> QED BY <4>2, <4>3
    <3>6. CASE Deliver(i)
      <4>1. subs[i].pc = "reading" BY <3>6 DEF Deliver
      <4>2. ASSUME NEW e, subs' = [subs EXCEPT ![i].delivered = e] PROVE Knows(i)'
        <5>1. subs'[i] = [subs[i] EXCEPT !.delivered = e] BY <2>0, <4>2
        <5> QED BY <1>0, <2>0, <3>1, <4>1, <5>1 DEF Knows, HasRow, Active, Subscriber
      <4> QED BY <3>2, <3>6, <4>2 DEF Deliver
    <3> QED BY <2>1, <2>3, <3>2, <3>3, <3>4, <3>5, <3>6 DEF Disconnect
  <2> QED BY <2>2, <2>3
<1>4. CASE Requests
  BY <1>1, <1>4 DEF Requests, BeginChat, BeginResume, BeginCancel, CheckActive, LockSession,
    LockProject, CreateTask, CreateConflict, CreateFails, CancelTask
<1>5. CASE Execution
  BY <1>1, <1>5 DEF Execution, GoroutineFrame, StartTask, StartFails, StartLost, Assemble, Publish,
    PublishFails, RunEnds, Decide, FinishTask, FinishFails, UnlockProject, UnlockSession, Unregister
<1>6. CASE Evaluation BY <1>1, <1>6, EvaluationFrame DEF SnapshotFrame
<1>7. CASE Lifecycle
  BY <1>1, <1>2, <1>7 DEF Lifecycle, Stop, ProcessEnds, Restart, Ready, RecoverTask, RecoverConflict,
    RecoverFails
<1>8. CASE Network BY <1>1, <1>8 DEF Network, ApplyLate, StoreLate, GoroutineFrame
<1>9. CASE UNCHANGED vars BY <1>1, <1>9 DEF vars
<1> QED BY <1>3, <1>4, <1>5, <1>6, <1>7, <1>8, <1>9 DEF Next

\* Only CreateTask records a continuation
LEMMA ResumedFrame ==
  ASSUME [Next]_vars PROVE resumed' = resumed \/ \E t \in TaskID : CreateTask(t)
<1>1. CASE Requests
  BY <1>1 DEF Requests, BeginChat, BeginResume, BeginCancel, CheckActive, LockSession, LockProject,
    CreateConflict, CreateFails, CancelTask
<1>2. CASE Execution
  BY <1>2 DEF Execution, GoroutineFrame, StartTask, StartFails, StartLost, Assemble, Publish,
    PublishFails, RunEnds, Decide, FinishTask, FinishFails, UnlockProject, UnlockSession, Unregister
<1>3. CASE Lifecycle
  BY <1>3 DEF Lifecycle, Stop, ProcessEnds, Restart, Ready, RecoverTask, RecoverConflict, RecoverFails
<1> QED BY <1>1, <1>2, <1>3, EvaluationFrame, StreamsFrame
        DEF Next, SnapshotFrame, SubFrame, Network, ApplyLate, StoreLate, GoroutineFrame, vars

\* A request keeps what it asked for
LEMMA RequestFrame ==
  ASSUME TypeOK, [Next]_vars, InRequest'
  PROVE  \/ InRequest /\ req'.session = req.session /\ req'.task = req.task /\ resumed' = resumed
         \/ resumed' = resumed /\ req'.task = 0
         \/ \E s \in Sessions, t \in 0 .. MaxTask : BeginResume(s, t)
<1>0. \A t \in TaskID : ~CreateTask(t) BY DEF CreateTask, NoRequest, InRequest
<1>1. resumed' = resumed BY <1>0, ResumedFrame
<1>2. CASE req' = req BY <1>1, <1>2 DEF InRequest
<1>3. req' # NoRequest BY DEF InRequest, NoRequest
<1>4. CASE Requests
  <2>1. CASE CheckActive \/ LockSession \/ LockProject
    BY <1>1, <1>3, <2>1, ReqType DEF CheckActive, LockSession, LockProject, InRequest, Request
  <2>2. ASSUME NEW t, BeginCancel(t) PROVE FALSE BY <2>2 DEF BeginCancel, InRequest
  <2> QED BY <1>0, <1>1, <1>3, <1>4, <2>1, <2>2 DEF Requests, BeginChat, CreateConflict, CreateFails,
    CancelTask
<1>5. CASE Execution
  BY <1>2, <1>5 DEF Execution, GoroutineFrame, StartTask, StartFails, StartLost, Assemble, Publish,
    PublishFails, RunEnds, Decide, FinishTask, FinishFails, UnlockProject, UnlockSession, Unregister
<1>6. CASE Lifecycle
  BY <1>2, <1>3, <1>6 DEF Lifecycle, Stop, ProcessEnds, Restart, Ready, RecoverTask, RecoverConflict,
    RecoverFails, Reset
<1> QED BY <1>2, <1>4, <1>5, <1>6, EvaluationFrame, StreamsFrame
        DEF Next, SnapshotFrame, SubFrame, Network, ApplyLate, StoreLate, GoroutineFrame, vars

LEMMA KeepResumptions ==
  ASSUME TypeOK, SessionsNamed, Rows, Resumptions, RowsGrow, [Next]_vars
  PROVE  Resumptions'
<1>0. resumed \in [TaskID -> 0 .. MaxTask] BY DEF TypeOK
<1>1. ASSUME NEW t \in TaskID, resumed[t] # 0
      PROVE  resumed[t] < t /\ HasRow(t)' /\ rows'[resumed[t]].session = rows'[t].session
  <2>1. resumed[t] < t /\ HasRow(t) /\ rows[resumed[t]].session = rows[t].session
    BY <1>1 DEF Resumptions
  <2>2. resumed[t] \in TaskID /\ resumed[t] \in 1 .. t - 1 BY <1>0, <1>1, <2>1, TaskBounds DEF TaskID
  <2>3. HasRow(resumed[t]) BY <2>1, <2>2 DEF Rows
  <2> QED BY <2>1, <2>2, <2>3 DEF RowsGrow
<1>2. ASSUME NEW t \in TaskID, resumed'[t] # 0
      PROVE  resumed'[t] < t /\ HasRow(t)' /\ rows'[resumed'[t]].session = rows'[t].session
  <2>1. CASE resumed'[t] = resumed[t] BY <1>1, <1>2, <2>1
  <2>2. CASE CreateTask(t)
    <3>1. resumed'[t] = req.task BY <1>0, <2>2 DEF CreateTask
    <3>2. HasRow(req.task) /\ rows[req.task].session = req.session
      BY <1>2, <2>2, <3>1 DEF Resumptions, CreateTask, InRequest
    <3>3. req.task \in TaskID BY <1>2, <3>1, ReqType DEF Request, TaskID
    <3>4. ~HasRow(t) /\ HasRow(t)' /\ rows'[t].session = req.session BY <2>2, NewRow
    <3>5. ~(t < req.task) /\ t # req.task
      <4>1. ASSUME t < req.task PROVE FALSE
        <5>1. t \in 1 .. req.task - 1 BY <3>3, <4>1 DEF TaskID
        <5> QED BY <3>2, <3>3, <3>4, <5>1 DEF Rows
      <4> QED BY <3>2, <3>4, <4>1
    <3>6. rows'[req.task].session = req.session BY <3>2, <3>3 DEF RowsGrow
    <3> QED BY <3>1, <3>3, <3>4, <3>5, <3>6 DEF TaskID
  <2>3. ASSUME NEW u \in TaskID, CreateTask(u), u # t PROVE resumed'[t] = resumed[t]
    BY <1>0, <2>3 DEF CreateTask
  <2> QED BY <2>1, <2>2, <2>3, ResumedFrame
<1>3. ASSUME InRequest', req'.task # 0
      PROVE  /\ rows'[req'.task].status # "none" /\ rows'[req'.task].session = req'.session
             /\ \A t \in TaskID : resumed'[t] # req'.task
  <2>1. CASE InRequest /\ req'.session = req.session /\ req'.task = req.task /\ resumed' = resumed
    <3>1. req.task \in TaskID BY <1>3, <2>1, ReqType DEF Request, TaskID
    <3>2. /\ HasRow(req.task) /\ rows[req.task].session = req.session
          /\ \A t \in TaskID : resumed[t] # req.task
      BY <1>3, <2>1 DEF Resumptions
    <3>3. rows'[req.task].status # "none" /\ rows'[req.task].session = req.session
      BY <3>1, <3>2 DEF RowsGrow, HasRow
    <3> QED BY <2>1, <3>2, <3>3 DEF HasRow
  <2>2. ASSUME NEW s \in Sessions, NEW u \in 0 .. MaxTask, BeginResume(s, u)
        PROVE  /\ rows'[req'.task].status # "none" /\ rows'[req'.task].session = req'.session
               /\ \A t \in TaskID : resumed'[t] # req'.task
    <3>1. /\ req'.task = u /\ req'.session = s /\ u # 0 /\ IsLatest(s, u) /\ rows' = rows
          /\ resumed' = resumed
      BY <1>3, <2>2 DEF BeginResume, ResumeAllowed
    <3>2. u \in TaskID /\ rows[u].session = s /\ \A v \in TasksOf(s) : v <= u
      BY <3>1 DEF IsLatest, TasksOf
    <3>3. HasRow(u) BY <3>2, SessionAssumption DEF Rows, NoRow
    <3>4. ASSUME NEW t \in TaskID, resumed[t] = u PROVE FALSE
      <4>1. u < t /\ rows[u].session = rows[t].session BY <3>1, <3>4 DEF Resumptions
      <4>2. t \in TasksOf(s) BY <3>2, <4>1 DEF TasksOf
      <4> QED BY <3>2, <4>1, <4>2 DEF TaskID
    <3> QED BY <3>1, <3>2, <3>3, <3>4 DEF HasRow
  <2> QED BY <1>3, <2>1, <2>2, RequestFrame
<1> QED BY <1>2, <1>3 DEF Resumptions, HasRow

LEMMA KeepResumedOnce ==
  ASSUME TypeOK, Resumptions, ResumedOnce, [Next]_vars
  PROVE  ResumedOnce'
<1>0. resumed \in [TaskID -> 0 .. MaxTask] BY DEF TypeOK
<1>1. CASE resumed' = resumed BY <1>1 DEF ResumedOnce
<1>2. ASSUME NEW t \in TaskID, CreateTask(t) PROVE ResumedOnce'
  <2>1. resumed' = [resumed EXCEPT ![t] = req.task] BY <1>2 DEF CreateTask
  <2>2. req.task # 0 => \A u \in TaskID : resumed[u] # req.task
    BY <1>2 DEF Resumptions, CreateTask, InRequest
  <2> QED BY <1>0, <2>1, <2>2 DEF ResumedOnce
<1> QED BY <1>1, <1>2, ResumedFrame

-----------------------------------------------------------------------------
(***************************************************************************)
(* The inductive invariant                                                 *)
(***************************************************************************)
LEMMA KeepTypeOK ==
  ASSUME TypeOK, SessionsNamed, LateWrites, Followed, [Next]_vars PROVE TypeOK'
<1>1. CASE UNCHANGED vars BY <1>1 DEF vars, TypeOK
<1> QED BY <1>1, TypeRequests, TypeExecution, TypeEvaluation, TypeLifecycle, TypeStreams, TypeNetwork
        DEF Next

LEMMA InitIInv == Init => IInv
<1> SUFFICES ASSUME Init PROVE IInv OBVIOUS
<1> USE TaskBounds, SessionAssumption DEF Init
<1>1. TypeOK
  <2>1. rows \in [TaskID -> Row] BY DEF NoRow, Row, Statuses
  <2>2. run \in [TaskID -> Goroutine] BY NoGoroutineType
  <2>3. recovery \in Recovery /\ req \in Request /\ snapshot \in Snapshot
    BY DEF NoRecovery, Recovery, NoRequest, Request, NoSnapshot, Snapshot
  <2>4. NoSubscriber \in Subscriber BY DEF NoSubscriber, Subscriber, Statuses
  <2>5. subs \in [Subscribers -> Subscriber] BY <2>4
  <2> QED BY <2>1, <2>2, <2>3, <2>5 DEF TypeOK
<1>2. \A t \in TaskID : ~HasRow(t) /\ ~Active(rows[t]) /\ rows[t] = NoRow
  BY DEF HasRow, Active, NoRow
<1>3. \A t \in TaskID : run[t].pc = "none" /\ run[t] = NoGoroutine BY DEF NoGoroutine
<1>4. Rows /\ OneActive BY <1>2 DEF Rows, OneActive
<1>5. Quiet /\ Unborn BY DEF Quiet, Unborn
<1>6. SessionsNamed BY DEF SessionsNamed, InRequest, NoRequest, NoSnapshot
<1>7. RunnerIsRecorded /\ NoSilentOrphan /\ Recovering
  BY <1>3 DEF RunnerIsRecorded, NoSilentOrphan, Serving, Recovering, Working
<1>8. ProjectHeld
  BY <1>3 DEF ProjectHeld, Creating, Copying, HoldsProject, NoRequest, NoSnapshot, Working
<1>9. LateWrites /\ Stored BY <1>2 DEF LateWrites, Stored
<1>10. Followed BY DEF Followed, NoSubscriber
<1>11. Resumptions /\ ResumedOnce BY DEF Resumptions, ResumedOnce, InRequest, NoRequest
<1> QED BY <1>1, <1>4, <1>5, <1>6, <1>7, <1>8, <1>9, <1>10, <1>11 DEF IInv

LEMMA StepIInv == IInv /\ [Next]_vars => IInv'
<1> SUFFICES ASSUME IInv, [Next]_vars PROVE IInv' OBVIOUS
<1> USE DEF IInv
<1>1. TypeOK' BY KeepTypeOK
<1>2. RowStep BY StepsOfRows
<1>3. RowsGrow BY <1>2, GrowingRows
<1>4. Rows' /\ OneActive' BY <1>2, KeepRows, KeepOneActive
<1>5. Quiet' /\ SessionsNamed' BY KeepQuiet, KeepSessionsNamed
<1>6. Unborn' BY <1>3, KeepUnborn
<1>7. RunnerIsRecorded' BY KeepRunnerIsRecorded
<1>8. ProjectHeld' BY <1>3, KeepProjectHeld
<1>9. LateWrites' BY <1>3, KeepLateWrites
<1>10. Stored' BY <1>2, <1>3, KeepStored
<1>11. NoSilentOrphan' BY <1>2, <1>3, KeepNoSilentOrphan
<1>12. Recovering' BY <1>2, <1>3, KeepRecovering
<1>13. Followed' BY <1>3, KeepFollowed
<1>14. Resumptions' BY <1>3, KeepResumptions
<1>15. ResumedOnce' BY KeepResumedOnce
<1> QED BY <1>1, <1>4, <1>5, <1>6, <1>7, <1>8, <1>9, <1>10, <1>11, <1>12, <1>13, <1>14, <1>15

\* The table, the goroutines, the locks, the event stream, its readers and the
\* unanswered writes agree in every reachable state: IInv is inductive.
THEOREM Inductive == Spec => []IInv
<1> QED BY InitIInv, StepIInv, PTL DEF Spec

\* Every variable keeps its type.
THEOREM TypeCorrect == Spec => []TypeOK
<1>1. IInv => TypeOK BY DEF IInv
<1> QED BY <1>1, Inductive, PTL

\* One execution or one snapshot at a time uses the files of a project: the
\* holders of a project's lock exclude each other (tasks.go:71-84,
\* evaluation.go:67-96), and a goroutine works under that lock.
THEOREM ProjectExclusive == Spec => []Exclusive
<1>1. ASSUME IInv PROVE Exclusive
  <2> SUFFICES ASSUME NEW p \in Projects
               PROVE  Cardinality(UsersOf(p)) <= 1 /\ (Copying(p) => UsersOf(p) = {})
    BY DEF Exclusive
  <2>1. \A t \in UsersOf(p) : t \in TaskID /\ HoldsProject(t, p) BY DEF UsersOf, HoldsProject
  <2>2. \A t, u \in UsersOf(p) : t = u BY <1>1, <2>1 DEF IInv, ProjectHeld
  <2>3. Cardinality(UsersOf(p)) <= 1
    <3>1. CASE UsersOf(p) = {} BY <3>1, FS_EmptySet
    <3>2. ASSUME NEW t \in UsersOf(p) PROVE Cardinality(UsersOf(p)) <= 1
      <4>1. UsersOf(p) = {t} BY <2>2
      <4> QED BY <4>1, FS_Singleton
    <3> QED BY <3>1, <3>2
  <2>4. Copying(p) => UsersOf(p) = {} BY <1>1, <2>1 DEF IInv, ProjectHeld
  <2> QED BY <2>3, <2>4
<1> QED BY <1>1, Inductive, PTL

\* The table never calls a task finished whose goroutine still works: neither
\* a stop nor an unanswered FinishTask of an earlier process writes its row.
THEOREM RunningIsRecorded == Spec => []RunnerIsRecorded
<1>1. IInv => RunnerIsRecorded BY DEF IInv
<1> QED BY <1>1, Inductive, PTL

\* An active row of a serving process has its goroutine, unless a write
\* without an answer left it behind (cloud.go:86-104 closes all others).
THEOREM NoneForgotten == Spec => []NoSilentOrphan
<1>1. IInv => NoSilentOrphan BY DEF IInv
<1> QED BY <1>1, Inductive, PTL

\* The task the store calls a session's latest has no later one
LEMMA LatestOfSession ==
  ASSUME TypeOK, NEW t \in TaskID, IsLatest(rows[t].session, t) PROVE Latest(t)
BY DEF IsLatest, TasksOf, Latest, TaskID

\* Every event up to the final_event_id of a session's last, finished task can
\* be replayed, whichever of the goroutine, the recovery or an unanswered write
\* closed the row, and whatever the purges of later tasks removed.
THEOREM FinalEventsStored == Spec => []FinalReplayable
<1>1. ASSUME IInv, NEW t \in TaskID, Terminal(rows[t]), IsLatest(rows[t].session, t)
      PROVE  1 .. rows[t].final \subseteq events[t]
  <2>1. Latest(t) BY <1>1, LatestOfSession DEF IInv
  <2>2. HasRow(t) BY <1>1 DEF Terminal, HasRow
  <2> QED BY <1>1, <2>1, <2>2 DEF IInv, Stored
<1>2. IInv => FinalReplayable BY <1>1 DEF FinalReplayable
<1> QED BY <1>2, Inductive, PTL

\* A subscriber that got task_state was told the true result, after all events
\* up to final_event_id (tasks.go:474): a closed row is never written again.
THEOREM ToldTheTruth == Spec => []TaskStateIsTrue
<1>1. ASSUME IInv, NEW i \in Subscribers, subs[i].pc = "state"
      PROVE  /\ Terminal(rows[subs[i].task]) /\ subs[i].status = rows[subs[i].task].status
             /\ subs[i].delivered >= rows[subs[i].task].final
  <2>1. subs[i].status \in Statuses BY <1>1 DEF IInv, TypeOK, Subscriber
  <2>2. /\ subs[i].status # "none" /\ Complete(subs[i])
        /\ ~Active(subs[i]) => /\ subs[i].status = rows[subs[i].task].status
                               /\ subs[i].final = rows[subs[i].task].final
    BY <1>1 DEF IInv, Followed
  <2> QED BY <2>1, <2>2 DEF Complete, Active, Terminal, Statuses
<1>2. IInv => TaskStateIsTrue BY <1>1 DEF TaskStateIsTrue
<1> QED BY <1>2, Inductive, PTL

\* A failed task is continued by at most one execution (tasks.go:216): only the
\* last task of a session can be named, and a continuation comes after it.
THEOREM ContinuedOnce == Spec => []ResumedOnce
<1>1. IInv => ResumedOnce BY DEF IInv
<1> QED BY <1>1, Inductive, PTL

\* A terminal row is never written again, in whatever order a late FinishTask,
\* a late StartTask and the recovery of a restart reach the store.
THEOREM ClosedForever == Spec => TerminalIsFinal
<1>1. IInv /\ [Next]_vars => \A t \in TaskID : Terminal(rows[t]) => rows'[t] = rows[t]
  <2> SUFFICES ASSUME IInv, [Next]_vars PROVE RowsGrow BY DEF RowsGrow
  <2>1. RowStep BY StepsOfRows DEF IInv
  <2> QED BY <2>1, GrowingRows DEF IInv
<1> QED BY <1>1, Inductive, PTL DEF Spec, TerminalIsFinal
=============================================================================
