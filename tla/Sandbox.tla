------------------------------- MODULE Sandbox -------------------------------
(***************************************************************************)
(* One user's sandbox, from the proxy in front of it to the work inside:   *)
(* requests wake it and are forwarded, the idle ticker stops it, a session *)
(* is deleted behind its back, evaluations run in it and report to the     *)
(* host database through the proxy.  The user's gate (a channel of one)    *)
(* serialises everything that changes the sandbox's life.                  *)
(*                                                                         *)
(* One session.  OpenShell is external and is modelled by the phases that  *)
(* the proxy reads.  The execution of a chat task is ChatTasks' subject:   *)
(* here it only runs or does not.                                          *)
(***************************************************************************)
EXTENDS Naturals, FiniteSets

CONSTANTS
  Requests,     \* requests that may be under way at once
  Jobs,         \* evaluation jobs, at most
  MaxArrivals,  \* requests, at most
  MaxFaults     \* lost or late writes, crashes, external stops, disconnects, at most

ASSUME SandboxAssumption ==
  /\ IsFiniteSet(Requests) /\ IsFiniteSet(Jobs) /\ Jobs \subseteq Nat
  /\ MaxArrivals \in Nat /\ MaxFaults \in Nat

VARIABLES
  box,       \* OpenShell's phase: none, stopped (or completed), starting, ready
  cloud,     \* the laxcode-cloud process in it: down, boot, up
  up,        \* the proxy runs
  gate,      \* userState.gate, free or held by a request or the ticker
  endpoint,  \* userState.endpoint is known
  api,       \* userState.api, the host-side workspace, is open
  active,    \* userState.active
  idle,      \* the idle timeout has passed since userState.lastUsed
  ticker,    \* the background goroutine: restore, wait, activity or stop
  req,       \* the proxy's side of a request
  handler,   \* the cloud's side of a request
  cut,       \* the client or the proxy of a request has gone away
  task,      \* a chat task runs (activeTasks)
  taskRow,   \* its row is active
  jobs,      \* evaluation_jobs: status of each row
  worker,    \* the evaluation goroutines (activeEvaluations)
  reports,   \* the report files written
  late,      \* writes still on their way whose sender has given up
  deleted,   \* the session's rows are deleted
  arrivals, faults

lifeVars == <<box, cloud, up, gate, endpoint, api, active, idle, ticker>>
workVars == <<task, taskRow, jobs, worker, reports, late, deleted>>
vars == <<lifeVars, req, handler, cut, workVars, arrivals, faults>>

NoHandler == [pc |-> "none", job |-> 0]

Init ==
  /\ box = "none" /\ cloud = "down"
  /\ up = TRUE /\ gate = "free" /\ endpoint = FALSE /\ api = FALSE
  /\ active = 0 /\ idle = FALSE /\ ticker = "restore"
  /\ req = [r \in Requests |-> [pc |-> "none", kind |-> "none"]]
  /\ handler = [r \in Requests |-> NoHandler]
  /\ cut = [r \in Requests |-> FALSE]
  /\ task = FALSE /\ taskRow = FALSE
  /\ jobs = [j \in Jobs |-> "none"] /\ worker = [j \in Jobs |-> "none"]
  /\ reports = {} /\ late = {} /\ deleted = FALSE
  /\ arrivals = 0 /\ faults = 0

At(r, pc) == req[r].pc = pc
GoTo(r, pc) == req' = [req EXCEPT ![r].pc = pc]
Free == gate = "free" /\ up
Fault == faults < MaxFaults /\ faults' = faults + 1

-----------------------------------------------------------------------------
(* Shared pieces: what a stop kills, what the cloud counts, the jobs table.*)

Handling(r) == handler[r].pc \notin {"none", "transit"}

\* cloudService: GET /internal/activity.
Activity ==
  Cardinality({r \in Requests : Handling(r)}) + Cardinality({j \in Jobs : worker[j] # "none"})
    + (IF task THEN 1 ELSE 0)

\* Nothing in the sandbox survives a stop; the rows stay as they are.
Killed ==
  /\ box' = "stopped" /\ cloud' = "down" /\ task' = FALSE
  /\ worker' = [j \in Jobs |-> "none"]
  /\ handler' = [r \in Requests |-> NoHandler]

ActiveJob(j) == jobs[j] \in {"queued", "running"}

FailActiveEvaluationJobs == jobs' = [j \in Jobs |-> IF ActiveJob(j) THEN "failed" ELSE jobs[j]]

\* UpdateEvaluationJob overwrites whatever status an existing row has.
Updated(j, status) == [jobs EXCEPT ![j] = IF @ = "none" THEN "none" ELSE status]
Created(j) == [jobs EXCEPT ![j] = "queued"]

-----------------------------------------------------------------------------
(* OpenShell and the cloud process.                                        *)

BoxReady ==
  /\ box = "starting" /\ box' = "ready"
  /\ UNCHANGED <<cloud, up, gate, endpoint, api, active, idle, ticker, req, handler, cut, workVars, arrivals, faults>>

CloudStarts ==
  /\ box \in {"starting", "ready"} /\ cloud = "down" /\ cloud' = "boot"
  /\ UNCHANGED <<box, up, gate, endpoint, api, active, idle, ticker, req, handler, cut, workVars, arrivals, faults>>

\* serveStore: a call of the cloud is served at once when the workspace is
\* open, and otherwise opens it under the gate.
StoreServes == up /\ (api \/ gate = "free") /\ api' = TRUE

\* newCloudServiceWithRepository: what an earlier process left is failed first.
CloudBoots ==
  /\ cloud = "boot" /\ StoreServes
  /\ cloud' = "up" /\ FailActiveEvaluationJobs /\ taskRow' = FALSE
  /\ UNCHANGED <<box, up, gate, endpoint, active, idle, ticker, req, handler, cut, task, worker, reports, late, deleted, arrivals, faults>>

\* Without the host's storage the process ends, and the sandbox completes.
BootFails ==
  /\ cloud = "boot" /\ ~up
  /\ Killed
  /\ UNCHANGED <<up, gate, endpoint, api, active, idle, ticker, req, cut, taskRow, jobs, reports, late, deleted, arrivals, faults>>

\* The sandbox is stopped by somebody else, or its process ends.
ExternalStop ==
  /\ box \in {"starting", "ready"} /\ Fault
  /\ Killed
  /\ UNCHANGED <<up, gate, endpoint, api, active, idle, ticker, req, cut, taskRow, jobs, reports, late, deleted, arrivals>>

-----------------------------------------------------------------------------
(* A request at the proxy.                                                 *)

Kinds == {"chat", "evaluate", "control", "delete"}

\* Job identifiers are not reused.
Unused == {j \in Jobs : jobs[j] = "none" /\ <<j, "queued">> \notin late}

UnderWay(r) == ~At(r, "none") \/ handler[r] # NoHandler

\* ServeHTTP up to the gate.  A refusal before it (identity, quota, too many
\* submissions at once) changes nothing.
Arrive(r, kind) ==
  /\ up /\ arrivals < MaxArrivals
  /\ ~UnderWay(r) /\ \A q \in Requests : q < r => UnderWay(q)   \* the slots are interchangeable
  /\ kind = "evaluate" =>   \* a bound: there is an identifier for each
       Cardinality(Unused) > Cardinality({q \in Requests : UnderWay(q) /\ req[q].kind = kind})
  /\ arrivals' = arrivals + 1
  /\ req' = [req EXCEPT ![r] = [pc |-> "gate", kind |-> kind]]
  /\ cut' = [cut EXCEPT ![r] = FALSE]
  /\ UNCHANGED <<lifeVars, handler, workVars, faults>>

Forward(r) ==
  /\ gate' = "free" /\ active' = active + 1
  /\ GoTo(r, "sent")
  /\ handler' = [handler EXCEPT ![r].pc = "transit"]

Lock_Bug(r) ==
  /\ At(r, "gate") /\ Free
  /\ IF req[r].kind = "control" /\ endpoint
     THEN Forward(r) /\ UNCHANGED api
     ELSE /\ gate' = "held" /\ GoTo(r, IF req[r].kind = "delete" THEN "check" ELSE "lookup")
          /\ UNCHANGED <<active, handler, api>>
  /\ UNCHANGED <<box, cloud, up, endpoint, idle, ticker, cut, workVars, arrivals, faults>>

\* The gate, and prepareWorkspace under it.  Reading or stopping a task uses a
\* known endpoint as it is.
Lock(r) ==
  /\ At(r, "gate") /\ Free
  /\ api' = TRUE
  /\ IF req[r].kind = "control" /\ endpoint
     THEN Forward(r)
     ELSE /\ gate' = "held" /\ GoTo(r, IF req[r].kind = "delete" THEN "check" ELSE "lookup")
          /\ UNCHANGED <<active, handler>>
  /\ UNCHANGED <<box, cloud, up, endpoint, idle, ticker, cut, workVars, arrivals, faults>>

\* Lookup: the user's one sandbox is ready, admitted and under its policy.
IsReady == box = "ready"

\* Lookup found none, or one that does not run.
IsDown == box \in {"none", "stopped"}

\* Create makes a sandbox where there is none, Start wakes a stopped one.
Woken == IF IsDown THEN "starting" ELSE box

\* Endpoint names the sandbox's service and the process behind it answers.
Reachable == IsReady /\ cloud = "up"

\* ensure: a known endpoint is used, by a proxy that keeps quotas only if the
\* sandbox is ready; else the sandbox is created or started.  A create that only
\* looked failed is found by Lookup.
Ensure(r) ==
  /\ At(r, "lookup")
  /\ \/ endpoint /\ Forward(r) /\ UNCHANGED <<box, endpoint>>
     \/ /\ ~(endpoint /\ IsReady)
        /\ endpoint' = FALSE
        /\ box' = Woken
        /\ GoTo(r, "wait")
        /\ UNCHANGED <<gate, active, handler>>
  /\ UNCHANGED <<cloud, up, api, idle, ticker, cut, workVars, arrivals, faults>>

WaitReady(r) ==
  /\ At(r, "wait") /\ IsReady
  /\ GoTo(r, "health")
  /\ UNCHANGED <<lifeVars, handler, cut, workVars, arrivals, faults>>

\* Endpoint, quota ensure and GET /healthz until it answers.
Healthy(r) ==
  /\ At(r, "health") /\ Reachable
  /\ endpoint' = TRUE
  /\ Forward(r)
  /\ UNCHANGED <<box, cloud, up, api, idle, ticker, cut, workVars, arrivals, faults>>

\* ensure fails: an error, or two minutes without a usable sandbox.
EnsureFails(r) ==
  /\ req[r].pc \in {"lookup", "wait", "health"}
  /\ \/ Fault
     \/ ~At(r, "lookup") /\ IsDown /\ UNCHANGED faults
  /\ gate' = "free" /\ GoTo(r, "none")
  /\ UNCHANGED <<box, cloud, up, endpoint, api, active, idle, ticker, handler, cut, workVars, arrivals>>

\* The sandbox is gone before it answered, or the client before the answer:
\* ModifyResponse or ErrorHandler forget the endpoint.
SendFails(r) ==
  /\ At(r, "sent")
  /\ \/ handler[r].pc = "none" /\ UNCHANGED <<handler, cut, faults>>
     \/ /\ handler[r].pc = "transit" /\ cloud # "up"
        /\ handler' = [handler EXCEPT ![r] = NoHandler]
        /\ UNCHANGED <<cut, faults>>
     \/ Fault /\ cut' = [cut EXCEPT ![r] = TRUE] /\ UNCHANGED handler
  /\ GoTo(r, "forget")
  /\ UNCHANGED <<lifeVars, workVars, arrivals>>

ForgetEndpoint(r) ==
  /\ At(r, "forget") /\ Free
  /\ endpoint' = FALSE /\ GoTo(r, "leave")
  /\ UNCHANGED <<box, cloud, up, gate, api, active, idle, ticker, handler, cut, workVars, arrivals, faults>>

Leave(r) ==
  /\ At(r, "leave") /\ Free
  /\ active' = active - 1 /\ idle' = FALSE /\ GoTo(r, "none")
  /\ UNCHANGED <<box, cloud, up, gate, endpoint, api, ticker, handler, cut, workVars, arrivals, faults>>

-----------------------------------------------------------------------------
(* Deleting the session, under the gate.                                   *)

Release(r) == gate' = "free" /\ GoTo(r, "none")

\* checkInactive: refused unless the sandbox is down or reports no activity.
CheckInactive(r) ==
  /\ At(r, "check")
  /\ LET down == IsDown
         quiet == Reachable /\ Activity = 0
     IN /\ IF active = 0 /\ (down \/ quiet) THEN GoTo(r, "delete") /\ UNCHANGED gate ELSE Release(r)
        /\ IF active = 0 /\ down THEN FailActiveEvaluationJobs ELSE UNCHANGED jobs
  /\ UNCHANGED <<box, cloud, up, endpoint, api, active, idle, ticker, handler, cut,
                 task, taskRow, worker, reports, late, deleted, arrivals, faults>>

DeleteSession_Bug(r) ==
  /\ At(r, "delete")
  /\ deleted' = TRUE
  /\ Release(r)
  /\ UNCHANGED <<box, cloud, up, endpoint, api, active, idle, ticker, handler, cut,
                 task, taskRow, jobs, worker, reports, late, arrivals, faults>>

\* The transaction looks at the rows again.
DeleteSession(r) ==
  /\ At(r, "delete")
  /\ deleted' = (deleted \/ (~taskRow /\ \A j \in Jobs : ~ActiveJob(j)))
  /\ Release(r)
  /\ UNCHANGED <<box, cloud, up, endpoint, api, active, idle, ticker, handler, cut,
                 task, taskRow, jobs, worker, reports, late, arrivals, faults>>

-----------------------------------------------------------------------------
(* The background goroutine: restoreRunning once, then stopIdle.           *)

Restore ==
  /\ ticker = "restore" /\ Free
  /\ ticker' = "wait"
  /\ \/ IsReady /\ ~endpoint /\ endpoint' = TRUE /\ UNCHANGED <<api, jobs, faults>>
     \/ /\ IsDown /\ ~endpoint /\ api' = TRUE /\ FailActiveEvaluationJobs
        /\ UNCHANGED <<endpoint, faults>>
     \/ (box = "starting" \/ endpoint) /\ UNCHANGED <<endpoint, api, jobs, faults>>
     \/ Fault /\ UNCHANGED <<endpoint, api, jobs>>   \* Lookup fails
  /\ UNCHANGED <<box, cloud, up, gate, active, idle, req, handler, cut,
                 task, taskRow, worker, reports, late, deleted, arrivals>>

\* The idle timeout is far longer than the time a request needs to reach the
\* sandbox, so it does not pass with one on its way.
IdleElapses ==
  /\ up /\ ~idle /\ \A r \in Requests : handler[r].pc # "transit"
  /\ idle' = TRUE
  /\ UNCHANGED <<box, cloud, up, gate, endpoint, api, active, ticker, req, handler, cut, workVars, arrivals, faults>>

StopIdle_Bug ==
  /\ ticker = "wait" /\ Free
  /\ endpoint /\ idle
  /\ gate' = "held" /\ ticker' = "activity"
  /\ UNCHANGED <<box, cloud, up, endpoint, api, active, idle, req, handler, cut, workVars, arrivals, faults>>

StopIdle ==
  /\ ticker = "wait" /\ Free
  /\ active = 0 /\ endpoint /\ idle
  /\ gate' = "held" /\ ticker' = "activity"
  /\ UNCHANGED <<box, cloud, up, endpoint, api, active, idle, req, handler, cut, workVars, arrivals, faults>>

\* An unreachable sandbox is left alone, a busy one counts as used.
ReadActivity ==
  /\ ticker = "activity"
  /\ LET reached == Reachable
     IN IF reached /\ Activity = 0
        THEN ticker' = "stop" /\ UNCHANGED <<gate, idle>>
        ELSE /\ ticker' = "wait" /\ gate' = "free"
             /\ idle' = (idle /\ ~reached)
  /\ UNCHANGED <<box, cloud, up, endpoint, api, active, req, handler, cut, workVars, arrivals, faults>>

StopSandbox ==
  /\ ticker = "stop"
  /\ Killed /\ endpoint' = FALSE
  /\ IF api THEN FailActiveEvaluationJobs ELSE UNCHANGED jobs
  /\ ticker' = "wait" /\ gate' = "free"
  /\ UNCHANGED <<up, api, active, idle, req, cut, taskRow, reports, late, deleted, arrivals, faults>>

StopFails ==
  /\ ticker = "stop" /\ Fault
  /\ ticker' = "wait" /\ gate' = "free"
  /\ UNCHANGED <<box, cloud, up, endpoint, api, active, idle, req, handler, cut, workVars, arrivals>>

\* The proxy ends: its requests break off, what they started goes on.
ProxyEnds ==
  /\ up /\ Fault
  /\ up' = FALSE /\ gate' = "free" /\ endpoint' = FALSE /\ api' = FALSE /\ active' = 0
  /\ ticker' = "restore"
  /\ req' = [r \in Requests |-> [req[r] EXCEPT !.pc = "none"]]
  /\ cut' = [r \in Requests |-> TRUE]
  /\ UNCHANGED <<box, cloud, idle, handler, workVars, arrivals>>

ProxyRestarts ==
  /\ ~up /\ up' = TRUE /\ idle' = FALSE
  /\ UNCHANGED <<box, cloud, gate, endpoint, api, active, ticker, req, handler, cut, workVars, arrivals, faults>>

-----------------------------------------------------------------------------
(* A request in the cloud.                                                 *)

Accept(r) ==
  /\ handler[r].pc = "transit" /\ cloud = "up"
  /\ handler' = [handler EXCEPT ![r].pc = req[r].kind]
  /\ UNCHANGED <<lifeVars, req, cut, workVars, arrivals, faults>>

\* A request that was given up need not arrive.
Vanish(r) ==
  /\ handler[r].pc = "transit" /\ cut[r]
  /\ handler' = [handler EXCEPT ![r] = NoHandler]
  /\ UNCHANGED <<lifeVars, req, cut, workVars, arrivals, faults>>

\* The handler returns; its answer reaches a client that still waits.
Answer(r) ==
  /\ handler' = [handler EXCEPT ![r] = NoHandler]
  /\ IF At(r, "sent") THEN GoTo(r, "leave") ELSE UNCHANGED req

\* sessionLocks: held by a chat task for its whole life, by the creation of an
\* evaluation until its worker starts.
SessionLocked == task \/ \E r \in Requests : handler[r].pc \in {"create", "prepare", "settle"}

HandleControl(r) ==
  /\ handler[r].pc = "control"
  /\ Answer(r)
  /\ UNCHANGED <<lifeVars, cut, workVars, arrivals, faults>>

\* handleChat: refused while the session is locked, gone or has an active row.
HandleChat(r) ==
  /\ handler[r].pc = "chat"
  /\ LET starts == ~SessionLocked /\ ~deleted /\ ~taskRow /\ up
     IN /\ task' = (task \/ starts) /\ taskRow' = (taskRow \/ starts)
        /\ IF up THEN StoreServes ELSE UNCHANGED api
  /\ Answer(r)
  /\ UNCHANGED <<box, cloud, up, gate, endpoint, active, idle, ticker, cut, jobs, worker, reports, late, deleted, arrivals, faults>>

\* FinishTask, then the locks and the count; when the write fails the row stays
\* active until the next process boots.
TaskEnds ==
  /\ task /\ task' = FALSE
  /\ \/ StoreServes /\ taskRow' = FALSE /\ UNCHANGED faults
     \/ ~up /\ UNCHANGED <<api, taskRow, faults>>
     \/ Fault /\ UNCHANGED <<api, taskRow>>
  /\ UNCHANGED <<box, cloud, up, gate, endpoint, active, idle, ticker, req, handler, cut,
                 jobs, worker, reports, late, deleted, arrivals>>

HandleEvaluate_Bug(r) ==
  /\ handler[r].pc = "evaluate"
  /\ IF SessionLocked \/ deleted \/ ~up
     THEN Answer(r) /\ UNCHANGED api
     ELSE StoreServes /\ handler' = [handler EXCEPT ![r].pc = "create"] /\ UNCHANGED req
  /\ UNCHANGED <<box, cloud, up, gate, endpoint, active, idle, ticker, cut, workVars, arrivals, faults>>

\* handleCreateEvaluation: the locks, GetSession and the active rows.
HandleEvaluate(r) ==
  /\ handler[r].pc = "evaluate"
  /\ IF SessionLocked \/ deleted \/ ~up \/ \E j \in Jobs : ActiveJob(j)
     THEN Answer(r) /\ UNCHANGED api
     ELSE StoreServes /\ handler' = [handler EXCEPT ![r].pc = "create"] /\ UNCHANGED req
  /\ UNCHANGED <<box, cloud, up, gate, endpoint, active, idle, ticker, cut, workVars, arrivals, faults>>

NextJob == CHOOSE j \in Unused : \A k \in Unused : j <= k

\* CreateEvaluationJob: stored; or its answer is lost and the job is settled as
\* failed, whether or not the row is there.
CreateEvaluationJob(r) ==
  /\ handler[r].pc = "create" /\ Unused # {}
  /\ \/ /\ StoreServes
        /\ jobs' = Created(NextJob)
        /\ handler' = [handler EXCEPT ![r] = [pc |-> "prepare", job |-> NextJob]]
        /\ UNCHANGED <<late, faults>>
     \/ /\ Fault
        /\ handler' = [handler EXCEPT ![r] = [pc |-> "settle", job |-> NextJob]]
        /\ \/ StoreServes /\ jobs' = Created(NextJob) /\ UNCHANGED late
           \/ late' = late \cup {<<NextJob, "queued">>} /\ UNCHANGED <<api, jobs>>
  /\ UNCHANGED <<box, cloud, up, gate, endpoint, active, idle, ticker, req, cut,
                 task, taskRow, worker, reports, deleted, arrivals>>

\* The host is down: there is no row, and nothing for finishEvaluationJob to settle.
CreateFails(r) ==
  /\ handler[r].pc = "create" /\ ~up
  /\ Answer(r)
  /\ UNCHANGED <<lifeVars, cut, workVars, arrivals, faults>>

\* copySessionSnapshot finds the files of a session that is not deleted.
SnapshotCopied == ~deleted

\* The snapshot of the session's files is copied and the worker started, unless
\* the files or the client are gone or something else fails.
PrepareEvaluation(r) ==
  /\ handler[r].pc = "prepare"
  /\ \/ /\ SnapshotCopied /\ ~cut[r]
        /\ worker' = [worker EXCEPT ![handler[r].job] = "start"]
        /\ Answer(r) /\ UNCHANGED faults
     \/ /\ \/ (~SnapshotCopied \/ cut[r]) /\ UNCHANGED faults
           \/ Fault
        /\ handler' = [handler EXCEPT ![r].pc = "settle"]
        /\ UNCHANGED <<worker, req>>
  /\ UNCHANGED <<lifeVars, cut, task, taskRow, jobs, reports, late, deleted, arrivals>>

-----------------------------------------------------------------------------
(* Status writes and the worker.                                           *)

\* UpdateEvaluationJob through the store: known to be done; or not known, and
\* then done, still on its way, or never sent.
Write(j, status, known) ==
  \/ known /\ StoreServes /\ jobs' = Updated(j, status) /\ UNCHANGED <<late, faults>>
  \/ /\ ~known /\ Fault
     /\ \/ StoreServes /\ jobs' = Updated(j, status) /\ UNCHANGED late
        \/ late' = late \cup {<<j, status>>} /\ UNCHANGED <<api, jobs>>
  \/ ~known /\ ~up /\ UNCHANGED <<api, jobs, late, faults>>

\* finishEvaluationJob logs a failing write and goes on.
Settle(r) ==
  /\ handler[r].pc = "settle"
  /\ \E known \in BOOLEAN : Write(handler[r].job, "failed", known)
  /\ Answer(r)
  /\ UNCHANGED <<box, cloud, up, gate, endpoint, active, idle, ticker, cut, task, taskRow, worker, reports, deleted, arrivals>>

Working(j, pc) == worker' = [worker EXCEPT ![j] = pc]

WorkerStarts(j) ==
  /\ worker[j] = "start"
  /\ \E known \in BOOLEAN : Write(j, "running", known) /\ Working(j, IF known THEN "run" ELSE "fail")
  /\ UNCHANGED <<box, cloud, up, gate, endpoint, active, idle, ticker, req, handler, cut, task, taskRow, reports, deleted, arrivals>>

WriteReport_Bug(j) ==
  /\ worker[j] = "run"
  /\ \/ Working(j, "report") /\ UNCHANGED faults
     \/ Fault /\ Working(j, "fail")
  /\ UNCHANGED <<lifeVars, req, handler, cut, task, taskRow, jobs, reports, late, deleted, arrivals>>

\* The evaluator answers and its report is written, or something fails.
WriteReport(j) ==
  /\ worker[j] = "run"
  /\ \/ Working(j, "report") /\ reports' = reports \cup {j} /\ UNCHANGED faults
     \/ Fault /\ Working(j, "fail") /\ UNCHANGED reports
  /\ UNCHANGED <<lifeVars, req, handler, cut, task, taskRow, jobs, late, deleted, arrivals>>

WorkerSucceeds(j) ==
  /\ worker[j] = "report"
  /\ \E known \in BOOLEAN : Write(j, "succeeded", known) /\ Working(j, IF known THEN "none" ELSE "fail")
  /\ UNCHANGED <<box, cloud, up, gate, endpoint, active, idle, ticker, req, handler, cut, task, taskRow, reports, deleted, arrivals>>

WorkerFails(j) ==
  /\ worker[j] = "fail"
  /\ \E known \in BOOLEAN : Write(j, "failed", known)
  /\ Working(j, "none")
  /\ UNCHANGED <<box, cloud, up, gate, endpoint, active, idle, ticker, req, handler, cut, task, taskRow, reports, deleted, arrivals>>

\* A write arrives after its sender has given up.
DeliverLate(w) ==
  /\ w \in late /\ up
  /\ late' = late \ {w}
  /\ jobs' = IF w[2] = "queued" THEN Created(w[1]) ELSE Updated(w[1], w[2])
  /\ UNCHANGED <<lifeVars, req, handler, cut, task, taskRow, worker, reports, deleted, arrivals, faults>>

-----------------------------------------------------------------------------

RequestStep(r) ==
  \/ Lock(r) \/ Ensure(r) \/ WaitReady(r) \/ Healthy(r) \/ ForgetEndpoint(r) \/ Leave(r)
  \/ CheckInactive(r) \/ DeleteSession(r)
  \/ Accept(r) \/ HandleControl(r) \/ HandleChat(r) \/ HandleEvaluate(r)
  \/ CreateEvaluationJob(r) \/ CreateFails(r) \/ PrepareEvaluation(r) \/ Settle(r)
  \/ EnsureFails(r) \/ SendFails(r)

WorkerStep(j) == WorkerStarts(j) \/ WriteReport(j) \/ WorkerSucceeds(j) \/ WorkerFails(j)

TickerStep == Restore \/ ReadActivity \/ StopSandbox

Next ==
  \/ BoxReady \/ CloudStarts \/ CloudBoots \/ BootFails \/ ExternalStop
  \/ TickerStep \/ StopIdle \/ StopFails \/ IdleElapses \/ ProxyEnds \/ ProxyRestarts \/ TaskEnds
  \/ \E r \in Requests : RequestStep(r) \/ Vanish(r) \/ \E kind \in Kinds : Arrive(r, kind)
  \/ \E j \in Jobs : WorkerStep(j)
  \/ \E w \in late : DeliverLate(w)

\* A sandbox that was started becomes ready and its process boots; goroutines
\* run; a channel serves those who wait for it in turn.
Fairness ==
  /\ WF_vars(BoxReady) /\ WF_vars(CloudStarts) /\ WF_vars(CloudBoots) /\ WF_vars(BootFails)
  /\ WF_vars(ProxyRestarts) /\ WF_vars(TickerStep)
  /\ \A r \in Requests : SF_vars(RequestStep(r))
  /\ \A j \in Jobs : WF_vars(WorkerStep(j))

Spec == Init /\ [][Next]_vars
FairSpec == Spec /\ Fairness

-----------------------------------------------------------------------------
(* Properties.                                                             *)

\* The idle ticker never stops a sandbox with work in it: no task, evaluation
\* or handler, and no request that its proxy still waits for, although the
\* activity is read before the stop.
StopKillsNoWork ==
  [][ticker = "stop" /\ box' = "stopped" /\ box # "stopped" /\ faults' = faults =>
       Activity = 0 /\ \A r \in Requests : ~At(r, "sent")]_vars

\* The worker is at its evaluation; one that only has to record its failure is not.
Evaluating(j) == worker[j] \in {"start", "run", "report"}

\* A deleted session has no running task and no evaluation, then and later:
\* neither a request that slipped past its own client's departure nor one
\* accepted between the activity check and the transaction gets to work on it.
DeletedIsQuiet == deleted => ~task /\ \A j \in Jobs : ~Evaluating(j)

\* One evaluation of a session runs at a time, whatever late writes have made
\* of the rows.
OneEvaluation == Cardinality({j \in Jobs : Evaluating(j)}) <= 1

\* A job shown as succeeded has its report, however its status was overwritten.
SucceededHasReport == \A j \in Jobs : jobs[j] = "succeeded" => j \in reports

\* Every request ends: nobody waits for the gate, for a sandbox that waits for
\* the gate to reach its storage, or for an answer that cannot come.
Served == \A r \in Requests : ~At(r, "none") ~> At(r, "none")
=============================================================================
