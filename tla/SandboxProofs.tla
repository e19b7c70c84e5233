---------------------------- MODULE SandboxProofs ----------------------------
(***************************************************************************)
(* IInv is an invariant of Sandbox, and with it the properties of its      *)
(* evaluations, its deletions and its idle stops, for any number of        *)
(* requests, jobs, arrivals and faults.                                    *)
(***************************************************************************)
EXTENDS SandboxInv, FiniteSetTheorems, WellFoundedInduction, TLAPS

-----------------------------------------------------------------------------
(***************************************************************************)
(* Types and small facts                                                   *)
(***************************************************************************)
LEMMA InitIInv == Init => IInv
<1> SUFFICES ASSUME Init PROVE IInv OBVIOUS
<1> USE DEF Init
<1>1. \A r \in Requests : req[r].pc = "none" /\ handler[r].pc = "none" BY DEF NoHandler
<1>2. TypeOK
  <2>1. handler \in [Requests -> Handler] BY DEF NoHandler, Handler
  <2>2. up \in BOOLEAN /\ endpoint \in BOOLEAN /\ api \in BOOLEAN /\ idle \in BOOLEAN
        /\ task \in BOOLEAN /\ taskRow \in BOOLEAN /\ deleted \in BOOLEAN
    OBVIOUS
  <2>3. cut \in [Requests -> BOOLEAN] OBVIOUS
  <2>4. req \in [Requests -> Request] BY DEF Request
  <2> QED BY <2>1, <2>2, <2>3, <2>4 DEF TypeOK, Statuses
<1>3. Emptied BY <1>1 DEF Emptied, Empty, Handling, IsDown
<1>4. TaskRecorded BY DEF TaskRecorded
<1>5. Evaluations /\ Reported BY DEF Evaluations, Reported, Evaluating
<1>6. Creations BY <1>1 DEF Creations, Creating
<1>7. Gate BY <1>1 DEF Gate, AtGate, Stopping, At
<1>8. Forwarded = {} BY <1>1 DEF Forwarded
<1>9. Counted BY <1>8, FS_EmptySet DEF Counted
<1>10. OnItsWay /\ TickerAlone BY DEF OnItsWay, TickerAlone, Stopping
<1> QED BY <1>2, <1>3, <1>4, <1>5, <1>6, <1>7, <1>9, <1>10 DEF IInv, Inside, Outside

LEMMA ForwardedFinite == IsFiniteSet(Forwarded) /\ Cardinality(Forwarded) \in Nat
<1>1. IsFiniteSet(Forwarded) BY SandboxAssumption, FS_Subset DEF Forwarded
<1> QED BY <1>1, FS_CardinalityType

\* checkInactive and stopIdle read the activity as zero: the sandbox is empty
LEMMA ActivityIsZero == TypeOK => (Activity = 0 <=> Empty)
<1> SUFFICES ASSUME TypeOK PROVE Activity = 0 <=> Empty OBVIOUS
<1> DEFINE H == {r \in Requests : Handling(r)}
           W == {j \in Jobs : worker[j] # "none"}
<1>1. IsFiniteSet(H) /\ IsFiniteSet(W) BY SandboxAssumption, FS_Subset
<1>2. Cardinality(H) \in Nat /\ Cardinality(W) \in Nat BY <1>1, FS_CardinalityType
<1>3. (Cardinality(H) = 0 <=> H = {}) /\ (Cardinality(W) = 0 <=> W = {}) BY <1>1, FS_EmptySet
<1>4. Empty <=> ~task /\ W = {} /\ H = {} BY DEF Empty
<1>5. Activity = Cardinality(H) + Cardinality(W) + (IF task THEN 1 ELSE 0) BY DEF Activity
<1> HIDE DEF H, W
<1>6. Activity = 0 <=> Cardinality(H) = 0 /\ Cardinality(W) = 0 /\ ~task BY <1>2, <1>5
<1> QED BY <1>3, <1>4, <1>6

\* The identifier that is taken next is an unused one
LEMMA NextJobIsUnused == ASSUME Unused # {} PROVE NextJob \in Unused
<1>1. Unused \subseteq Nat BY SandboxAssumption DEF Unused
<1>2. PICK j \in Unused : \A k \in Unused : <<k, j>> \notin OpToRel(<, Nat)
  BY <1>1, WFMin, NatLessThanWellFounded
<1>3. \A k \in Unused : ~(k < j) BY <1>1, <1>2 DEF OpToRel
<1>4. ASSUME NEW k \in Unused PROVE j <= k
  <2>1. j \in Nat /\ k \in Nat /\ ~(k < j) BY <1>1, <1>3
  <2> QED BY <2>1
<1> QED BY <1>4 DEF NextJob

\* How requests and handlers move
LEMMA GoToType ==
  ASSUME TypeOK, NEW r \in Requests, NEW pc, GoTo(r, pc),
         pc \in {"none", "gate", "lookup", "wait", "health", "check", "delete", "sent", "forget", "leave"}
  PROVE  /\ req' \in [Requests -> Request] /\ req'[r].pc = pc
         /\ \A q \in Requests : q # r => req'[q] = req[q]
<1>1. req \in [Requests -> Request] /\ req' = [req EXCEPT ![r].pc = pc] BY DEF TypeOK, GoTo
<1>2. req[r] \in Request BY <1>1
<1>3. [req[r] EXCEPT !.pc = pc] \in Request /\ [req[r] EXCEPT !.pc = pc].pc = pc BY <1>2 DEF Request
<1> QED BY <1>1, <1>3

LEMMA HandlerMoves ==
  ASSUME TypeOK, NEW r \in Requests, NEW pc, handler' = [handler EXCEPT ![r].pc = pc],
         pc \in Kinds \cup {"none", "transit", "create", "prepare", "settle"}
  PROVE  /\ handler' \in [Requests -> Handler] /\ handler'[r].pc = pc /\ handler'[r].job = handler[r].job
         /\ \A q \in Requests : q # r => handler'[q] = handler[q]
<1>1. handler \in [Requests -> Handler] BY DEF TypeOK
<1>2. handler[r] \in Handler BY <1>1
<1> DEFINE h == [handler[r] EXCEPT !.pc = pc]
<1>3. h \in Handler /\ h.pc = pc /\ h.job = handler[r].job BY <1>2 DEF Handler
<1> QED BY <1>1, <1>3

LEMMA HandlerSet ==
  ASSUME TypeOK, NEW r \in Requests, NEW h \in Handler, handler' = [handler EXCEPT ![r] = h]
  PROVE  /\ handler' \in [Requests -> Handler] /\ handler'[r] = h
         /\ \A q \in Requests : q # r => handler'[q] = handler[q]
BY DEF TypeOK

LEMMA NoHandlerType == NoHandler \in Handler /\ NoHandler.pc = "none"
BY DEF NoHandler, Handler

\* A handler answers: its client, if it still waits, leaves
LEMMA AnswerType ==
  ASSUME TypeOK, NEW r \in Requests, Answer(r)
  PROVE  /\ req' \in [Requests -> Request] /\ handler' \in [Requests -> Handler]
         /\ handler'[r] = NoHandler /\ \A q \in Requests : q # r => handler'[q] = handler[q]
         /\ \A q \in Requests : req'[q] = req[q] \/ (q = r /\ At(q, "sent") /\ req'[q].pc = "leave")
<1>1. /\ handler' \in [Requests -> Handler] /\ handler'[r] = NoHandler
      /\ \A q \in Requests : q # r => handler'[q] = handler[q]
  BY HandlerSet, NoHandlerType DEF Answer
<1>2. CASE At(r, "sent") BY <1>1, <1>2, GoToType DEF Answer
<1>3. CASE ~At(r, "sent") BY <1>1, <1>3 DEF Answer, TypeOK
<1> QED BY <1>2, <1>3

LEMMA ForwardType ==
  ASSUME TypeOK, NEW r \in Requests, Forward(r)
  PROVE  /\ req' \in [Requests -> Request] /\ handler' \in [Requests -> Handler]
         /\ req'[r].pc = "sent" /\ \A q \in Requests : q # r => req'[q] = req[q]
         /\ handler'[r].pc = "transit" /\ \A q \in Requests : q # r => handler'[q] = handler[q]
         /\ active' = active + 1 /\ active' \in Nat /\ gate' = "free"
<1>1. active' = active + 1 /\ active' \in Nat /\ gate' = "free" BY DEF Forward, TypeOK
<1>2. /\ req' \in [Requests -> Request] /\ req'[r].pc = "sent"
      /\ \A q \in Requests : q # r => req'[q] = req[q]
  BY GoToType DEF Forward
<1>3. /\ handler' \in [Requests -> Handler] /\ handler'[r].pc = "transit"
      /\ \A q \in Requests : q # r => handler'[q] = handler[q]
  BY HandlerMoves DEF Forward
<1> QED BY <1>1, <1>2, <1>3

LEMMA KilledType ==
  ASSUME Killed
  PROVE  /\ handler' \in [Requests -> Handler] /\ \A r \in Requests : handler'[r] = NoHandler
         /\ worker' \in [Jobs -> {"none", "start", "run", "report", "fail"}]
         /\ \A j \in Jobs : worker'[j] = "none"
         /\ box' = "stopped" /\ cloud' = "down" /\ task' = FALSE
BY NoHandlerType DEF Killed

\* The statements on evaluation_jobs
LEMMA RowWrites ==
  ASSUME TypeOK
  PROVE  /\ FailActiveEvaluationJobs =>
              /\ jobs' \in [Jobs -> Statuses]
              /\ \A j \in Jobs : jobs'[j] = IF ActiveJob(j) THEN "failed" ELSE jobs[j]
         /\ \A j \in Jobs, s \in Statuses :
              /\ Updated(j, s) \in [Jobs -> Statuses]
              /\ Updated(j, s)[j] = IF jobs[j] = "none" THEN "none" ELSE s
              /\ \A i \in Jobs : i # j => Updated(j, s)[i] = jobs[i]
         /\ \A j \in Jobs :
              /\ Created(j) \in [Jobs -> Statuses] /\ Created(j)[j] = "queued"
              /\ \A i \in Jobs : i # j => Created(j)[i] = jobs[i]
<1>1. jobs \in [Jobs -> Statuses] /\ "failed" \in Statuses /\ "queued" \in Statuses /\ "none" \in Statuses
  BY DEF TypeOK, Statuses
<1> QED BY <1>1 DEF FailActiveEvaluationJobs, Updated, Created

-----------------------------------------------------------------------------
(***************************************************************************)
(* TypeOK is kept                                                          *)
(***************************************************************************)
\* What every fault leaves
LEMMA FaultType == ASSUME TypeOK, Fault PROVE faults' \in Nat
BY DEF TypeOK, Fault

LEMMA LifeTypes ==
  ASSUME TypeOK, BoxReady \/ CloudStarts \/ CloudBoots \/ BootFails \/ ExternalStop \/ Restore
                 \/ ReadActivity \/ StopSandbox \/ StopIdle \/ StopFails \/ IdleElapses
  PROVE  TypeOK'
<1> USE DEF lifeVars, workVars
<1>1. CASE BoxReady BY <1>1 DEF BoxReady, TypeOK
<1>2. CASE CloudStarts BY <1>2 DEF CloudStarts, TypeOK
<1>3. CASE CloudBoots
  <2>1. jobs' \in [Jobs -> Statuses] /\ taskRow' \in BOOLEAN /\ api' \in BOOLEAN
    BY <1>3, RowWrites DEF CloudBoots, StoreServes
  <2> QED BY <1>3, <2>1 DEF CloudBoots, TypeOK
<1>4. CASE BootFails BY <1>4, KilledType DEF BootFails, TypeOK
<1>5. CASE ExternalStop BY <1>5, KilledType, FaultType DEF ExternalStop, TypeOK
<1>6. CASE Restore
  <2>1. jobs' \in [Jobs -> Statuses] BY <1>6, RowWrites DEF Restore, TypeOK
  <2>2. endpoint' \in BOOLEAN /\ api' \in BOOLEAN BY <1>6 DEF Restore, TypeOK
  <2>3. faults' \in Nat BY <1>6, FaultType DEF Restore, TypeOK
  <2> QED BY <1>6, <2>1, <2>2, <2>3 DEF Restore, TypeOK
<1>7. CASE ReadActivity
  <2>1. idle' \in BOOLEAN /\ gate' \in {"free", "held"} /\ ticker' \in {"wait", "stop"}
    BY <1>7 DEF ReadActivity, TypeOK
  <2> QED BY <1>7, <2>1 DEF ReadActivity, TypeOK
<1>8. CASE StopSandbox
  <2>1. jobs' \in [Jobs -> Statuses] /\ endpoint' \in BOOLEAN BY <1>8, RowWrites DEF StopSandbox, TypeOK
  <2> QED BY <1>8, <2>1, KilledType DEF StopSandbox, TypeOK
<1>9. CASE StopIdle BY <1>9 DEF StopIdle, TypeOK
<1>10. CASE StopFails BY <1>10, FaultType DEF StopFails, TypeOK
<1>11. CASE IdleElapses BY <1>11 DEF IdleElapses, TypeOK
<1> QED BY <1>1, <1>2, <1>3, <1>4, <1>5, <1>6, <1>7, <1>8, <1>9, <1>10, <1>11

LEMMA ProxyTypes ==
  ASSUME TypeOK, ProxyEnds \/ ProxyRestarts \/ TaskEnds PROVE TypeOK'
<1> USE DEF lifeVars, workVars
<1>1. CASE ProxyEnds
  <2>1. req \in [Requests -> Request] BY DEF TypeOK
  <2>2. req' \in [Requests -> Request] BY <1>1, <2>1 DEF ProxyEnds, Request
  <2>3. cut' \in [Requests -> BOOLEAN] BY <1>1 DEF ProxyEnds
  <2>4. up' \in BOOLEAN /\ endpoint' \in BOOLEAN /\ api' \in BOOLEAN /\ active' \in Nat
    BY <1>1 DEF ProxyEnds
  <2> QED BY <1>1, <2>2, <2>3, <2>4, FaultType DEF ProxyEnds, TypeOK
<1>2. CASE ProxyRestarts
  <2>1. up' \in BOOLEAN /\ idle' \in BOOLEAN BY <1>2 DEF ProxyRestarts
  <2> QED BY <1>2, <2>1 DEF ProxyRestarts, TypeOK
<1>3. CASE TaskEnds
  <2>1. task' \in BOOLEAN /\ taskRow' \in BOOLEAN /\ api' \in BOOLEAN
    BY <1>3 DEF TaskEnds, StoreServes, TypeOK
  <2>2. faults' \in Nat BY <1>3, FaultType DEF TaskEnds, TypeOK
  <2> QED BY <1>3, <2>1, <2>2 DEF TaskEnds, TypeOK
<1> QED BY <1>1, <1>2, <1>3

\* A request that leaves has been counted
LEMMA LeaverIsCounted ==
  ASSUME Counted, NEW r \in Forwarded PROVE active \in Nat /\ active > 0
<1>1. Cardinality(Forwarded) # 0 BY ForwardedFinite, FS_EmptySet
<1> QED BY <1>1, ForwardedFinite DEF Counted

LEMMA RequestTypes ==
  ASSUME TypeOK, Counted, NEW r \in Requests,
         \/ \E kind \in Kinds : Arrive(r, kind)
         \/ Lock(r) \/ Ensure(r) \/ WaitReady(r) \/ Healthy(r) \/ EnsureFails(r) \/ SendFails(r)
         \/ ForgetEndpoint(r) \/ Leave(r) \/ CheckInactive(r) \/ DeleteSession(r)
  PROVE  TypeOK'
<1> USE DEF lifeVars, workVars
<1>1. ASSUME NEW kind \in Kinds, Arrive(r, kind) PROVE TypeOK'
  <2>1. [pc |-> "gate", kind |-> kind] \in Request BY DEF Request
  <2>2. req' \in [Requests -> Request] BY <1>1, <2>1 DEF Arrive, TypeOK
  <2>3. cut' \in [Requests -> BOOLEAN] /\ arrivals' \in Nat BY <1>1 DEF Arrive, TypeOK
  <2> QED BY <1>1, <2>2, <2>3 DEF Arrive, TypeOK
<1>2. CASE Lock(r)
  <2>0. api' \in BOOLEAN BY <1>2 DEF Lock
  <2>1. CASE Forward(r) BY <1>2, <2>0, <2>1, ForwardType DEF Lock, TypeOK
  <2>2. CASE ~Forward(r)
    <3>1. gate' = "held" /\ GoTo(r, IF req[r].kind = "delete" THEN "check" ELSE "lookup")
      BY <1>2, <2>2 DEF Lock
    <3>2. req' \in [Requests -> Request] BY <3>1, GoToType
    <3> QED BY <1>2, <2>0, <2>2, <3>1, <3>2 DEF Lock, TypeOK
  <2> QED BY <2>1, <2>2
<1>3. CASE Ensure(r)
  <2>1. CASE Forward(r) /\ UNCHANGED <<box, endpoint>>
    BY <1>3, <2>1, ForwardType DEF Ensure, TypeOK
  <2>2. CASE endpoint' = FALSE /\ box' = Woken /\ GoTo(r, "wait") /\ UNCHANGED <<gate, active, handler>>
    <3>1. endpoint' \in BOOLEAN /\ box' \in {"none", "stopped", "starting", "ready"}
      BY <2>2 DEF Woken, TypeOK
    <3>2. req' \in [Requests -> Request] BY <2>2, GoToType
    <3> QED BY <1>3, <2>2, <3>1, <3>2 DEF Ensure, TypeOK
  <2> QED BY <1>3, <2>1, <2>2 DEF Ensure
<1>4. CASE WaitReady(r)
  <2>1. req' \in [Requests -> Request] BY <1>4, GoToType DEF WaitReady
  <2> QED BY <1>4, <2>1 DEF WaitReady, TypeOK
<1>5. CASE Healthy(r)
  <2>1. endpoint' \in BOOLEAN BY <1>5 DEF Healthy
  <2> QED BY <1>5, <2>1, ForwardType DEF Healthy, TypeOK
<1>6. CASE EnsureFails(r)
  <2>1. req' \in [Requests -> Request] BY <1>6, GoToType DEF EnsureFails
  <2>2. faults' \in Nat BY <1>6, FaultType DEF EnsureFails, TypeOK
  <2> QED BY <1>6, <2>1, <2>2 DEF EnsureFails, TypeOK
<1>7. CASE SendFails(r)
  <2>1. req' \in [Requests -> Request] BY <1>7, GoToType DEF SendFails
  <2>2. handler' \in [Requests -> Handler] BY <1>7, HandlerSet, NoHandlerType DEF SendFails, TypeOK
  <2>3. cut' \in [Requests -> BOOLEAN] BY <1>7 DEF SendFails, TypeOK
  <2>4. faults' \in Nat BY <1>7, FaultType DEF SendFails, TypeOK
  <2> QED BY <1>7, <2>1, <2>2, <2>3, <2>4 DEF SendFails, TypeOK
<1>8. CASE ForgetEndpoint(r)
  <2>1. req' \in [Requests -> Request] /\ endpoint' \in BOOLEAN BY <1>8, GoToType DEF ForgetEndpoint
  <2> QED BY <1>8, <2>1 DEF ForgetEndpoint, TypeOK
<1>9. CASE CheckInactive(r)
  <2>1. req' \in [Requests -> Request] /\ gate' \in {"free", "held"}
    BY <1>9, GoToType DEF CheckInactive, Release, TypeOK
  <2>2. jobs' \in [Jobs -> Statuses] BY <1>9, RowWrites DEF CheckInactive, TypeOK
  <2> QED BY <1>9, <2>1, <2>2 DEF CheckInactive, TypeOK
<1>10. CASE DeleteSession(r)
  <2>1. req' \in [Requests -> Request] /\ gate' = "free" BY <1>10, GoToType DEF DeleteSession, Release
  <2>2. deleted' \in BOOLEAN BY <1>10 DEF DeleteSession
  <2> QED BY <1>10, <2>1, <2>2 DEF DeleteSession, TypeOK
<1>11. CASE Leave(r)
  <2>1. req' \in [Requests -> Request] /\ idle' \in BOOLEAN BY <1>11, GoToType DEF Leave
  <2>2. active' \in Nat
    <3>1. r \in Forwarded BY <1>11 DEF Leave, At, Forwarded
    <3> QED BY <1>11, <3>1, LeaverIsCounted DEF Leave
  <2> QED BY <1>11, <2>1, <2>2 DEF Leave, TypeOK
<1> QED BY <1>1, <1>2, <1>3, <1>4, <1>5, <1>6, <1>7, <1>8, <1>9, <1>10, <1>11

\* A status write, known or not
LEMMA WriteType ==
  ASSUME TypeOK, NEW j \in Jobs, NEW s \in Statuses, NEW known \in BOOLEAN, Write(j, s, known)
  PROVE  /\ jobs' \in {jobs, Updated(j, s)} /\ jobs' \in [Jobs -> Statuses]
         /\ late' \in {late, late \cup {<<j, s>>}} /\ late' \in SUBSET (Jobs \X Statuses)
         /\ known => late' = late /\ jobs' = Updated(j, s)
         /\ api' \in BOOLEAN /\ faults' \in Nat
<1>0. jobs \in [Jobs -> Statuses] /\ Updated(j, s) \in [Jobs -> Statuses] BY RowWrites DEF TypeOK
<1>1. jobs' \in {jobs, Updated(j, s)} /\ late' \in {late, late \cup {<<j, s>>}}
      /\ (known => late' = late /\ jobs' = Updated(j, s))
  BY DEF Write
<1>2. jobs' \in [Jobs -> Statuses] BY <1>0, <1>1
<1>3. late' \in SUBSET (Jobs \X Statuses) BY <1>1 DEF TypeOK
<1>4. api' \in BOOLEAN BY DEF Write, StoreServes, TypeOK
<1>5. faults' \in Nat BY FaultType DEF Write, TypeOK
<1> QED BY <1>1, <1>2, <1>3, <1>4, <1>5

\* The creation of a row, stored or on its way
LEMMA CreateType ==
  ASSUME TypeOK, NEW r \in Requests, CreateEvaluationJob(r)
  PROVE  /\ NextJob \in Unused /\ NextJob \in Jobs
         /\ handler' \in [Requests -> Handler] /\ handler'[r].pc \in {"prepare", "settle"}
         /\ handler'[r].job = NextJob /\ \A q \in Requests : q # r => handler'[q] = handler[q]
         /\ jobs' \in [Jobs -> Statuses] /\ late' \in SUBSET (Jobs \X Statuses)
         /\ \/ jobs' = Created(NextJob) /\ late' = late
            \/ /\ handler'[r].pc = "settle" /\ jobs' = jobs
               /\ late' = late \cup {<<NextJob, "queued">>}
         /\ api' \in BOOLEAN /\ faults' \in Nat
<1>1. NextJob \in Unused /\ NextJob \in Jobs BY NextJobIsUnused DEF CreateEvaluationJob, Unused
<1>2. PICK pc \in {"prepare", "settle"} :
        handler' = [handler EXCEPT ![r] = [pc |-> pc, job |-> NextJob]]
  BY DEF CreateEvaluationJob
<1>3. [pc |-> pc, job |-> NextJob] \in Handler BY <1>1 DEF Handler
<1>4. /\ handler' \in [Requests -> Handler] /\ handler'[r] = [pc |-> pc, job |-> NextJob]
      /\ \A q \in Requests : q # r => handler'[q] = handler[q]
  BY <1>2, <1>3, HandlerSet
<1>5. \/ jobs' = Created(NextJob) /\ late' = late
      \/ handler'[r].pc = "settle" /\ jobs' = jobs /\ late' = late \cup {<<NextJob, "queued">>}
  BY <1>4 DEF CreateEvaluationJob, TypeOK
<1>6. jobs' \in [Jobs -> Statuses]
  <2>1. Created(NextJob) \in [Jobs -> Statuses] BY <1>1, RowWrites
  <2>2. jobs \in [Jobs -> Statuses] BY DEF TypeOK
  <2> QED BY <1>5, <2>1, <2>2
<1>7. late' \in SUBSET (Jobs \X Statuses) BY <1>1, <1>5 DEF TypeOK, Statuses
<1>8. api' \in BOOLEAN BY DEF CreateEvaluationJob, StoreServes, TypeOK
<1>9. faults' \in Nat BY FaultType DEF CreateEvaluationJob, TypeOK
<1> QED BY <1>1, <1>4, <1>5, <1>6, <1>7, <1>8, <1>9

LEMMA HandlerTypes ==
  ASSUME TypeOK, NEW r \in Requests, Creations,
         \/ Accept(r) \/ Vanish(r) \/ HandleControl(r) \/ CreateFails(r) \/ HandleChat(r) \/ HandleEvaluate(r)
         \/ CreateEvaluationJob(r) \/ PrepareEvaluation(r) \/ Settle(r)
  PROVE  TypeOK'
<1> USE DEF lifeVars, workVars
<1>1. CASE Accept(r)
  <2>1. req[r] \in Request BY DEF TypeOK
  <2>2. req[r].kind \in Kinds \cup {"none", "transit", "create", "prepare", "settle"} BY <2>1 DEF Request
  <2>3. handler' \in [Requests -> Handler] BY <1>1, <2>2, HandlerMoves DEF Accept
  <2> QED BY <1>1, <2>3 DEF Accept, TypeOK
<1>2. CASE Vanish(r)
  <2>1. handler' \in [Requests -> Handler] BY <1>2, HandlerSet, NoHandlerType DEF Vanish
  <2> QED BY <1>2, <2>1 DEF Vanish, TypeOK
<1>3. CASE HandleControl(r) \/ CreateFails(r) BY <1>3, AnswerType DEF HandleControl, CreateFails, TypeOK
<1>4. CASE HandleChat(r)
  <2>1. task' \in BOOLEAN /\ taskRow' \in BOOLEAN /\ api' \in BOOLEAN
    BY <1>4 DEF HandleChat, StoreServes, TypeOK
  <2> QED BY <1>4, <2>1, AnswerType DEF HandleChat, TypeOK
<1>5. CASE HandleEvaluate(r)
  <2>1. api' \in BOOLEAN BY <1>5 DEF HandleEvaluate, StoreServes, TypeOK
  <2>2. handler' \in [Requests -> Handler] /\ req' \in [Requests -> Request]
    BY <1>5, AnswerType, HandlerMoves DEF HandleEvaluate, TypeOK
  <2> QED BY <1>5, <2>1, <2>2 DEF HandleEvaluate, TypeOK
<1>6. CASE CreateEvaluationJob(r) BY <1>6, CreateType DEF CreateEvaluationJob, TypeOK
<1>7. CASE PrepareEvaluation(r)
  <2>1. handler' \in [Requests -> Handler] /\ req' \in [Requests -> Request]
    BY <1>7, AnswerType, HandlerMoves DEF PrepareEvaluation, TypeOK
  <2>2. worker' \in [Jobs -> {"none", "start", "run", "report", "fail"}]
    BY <1>7 DEF PrepareEvaluation, TypeOK, Creations
  <2>3. faults' \in Nat BY <1>7, FaultType DEF PrepareEvaluation, TypeOK
  <2> QED BY <1>7, <2>1, <2>2, <2>3 DEF PrepareEvaluation, TypeOK
<1>8. CASE Settle(r)
  <2>1. handler[r].job \in Jobs /\ "failed" \in Statuses BY <1>8 DEF Settle, Creations, Statuses
  <2>2. PICK known \in BOOLEAN : Write(handler[r].job, "failed", known) BY <1>8 DEF Settle
  <2>3. /\ jobs' \in [Jobs -> Statuses] /\ late' \in SUBSET (Jobs \X Statuses)
        /\ api' \in BOOLEAN /\ faults' \in Nat
    BY <2>1, <2>2, WriteType
  <2> QED BY <1>8, <2>3, AnswerType DEF Settle, TypeOK
<1> QED BY <1>1, <1>2, <1>3, <1>4, <1>5, <1>6, <1>7, <1>8

LEMMA WorkerTypes ==
  ASSUME TypeOK, NEW j \in Jobs, WorkerStep(j)
  PROVE  TypeOK'
<1> USE DEF lifeVars, workVars
<1>1. \A pc \in {"none", "start", "run", "report", "fail"} :
        Working(j, pc) => worker' \in [Jobs -> {"none", "start", "run", "report", "fail"}]
  BY DEF Working, TypeOK
<1>2. CASE WorkerStarts(j)
  <2>1. PICK known \in BOOLEAN : Write(j, "running", known) /\ Working(j, IF known THEN "run" ELSE "fail")
    BY <1>2 DEF WorkerStarts
  <2>2. "running" \in Statuses /\ worker' \in [Jobs -> {"none", "start", "run", "report", "fail"}]
    BY <1>1, <2>1 DEF Statuses
  <2>3. /\ jobs' \in [Jobs -> Statuses] /\ late' \in SUBSET (Jobs \X Statuses)
        /\ api' \in BOOLEAN /\ faults' \in Nat
    BY <2>1, <2>2, WriteType
  <2> QED BY <1>2, <2>2, <2>3 DEF WorkerStarts, TypeOK
<1>3. CASE WriteReport(j)
  <2>1. worker' \in [Jobs -> {"none", "start", "run", "report", "fail"}] BY <1>1, <1>3 DEF WriteReport
  <2>2. reports' \in SUBSET Jobs BY <1>3 DEF WriteReport, TypeOK
  <2>3. faults' \in Nat BY <1>3, FaultType DEF WriteReport, TypeOK
  <2> QED BY <1>3, <2>1, <2>2, <2>3 DEF WriteReport, TypeOK
<1>4. CASE WorkerSucceeds(j)
  <2>1. PICK known \in BOOLEAN : Write(j, "succeeded", known) /\ Working(j, IF known THEN "none" ELSE "fail")
    BY <1>4 DEF WorkerSucceeds
  <2>2. "succeeded" \in Statuses /\ worker' \in [Jobs -> {"none", "start", "run", "report", "fail"}]
    BY <1>1, <2>1 DEF Statuses
  <2>3. /\ jobs' \in [Jobs -> Statuses] /\ late' \in SUBSET (Jobs \X Statuses)
        /\ api' \in BOOLEAN /\ faults' \in Nat
    BY <2>1, <2>2, WriteType
  <2> QED BY <1>4, <2>2, <2>3 DEF WorkerSucceeds, TypeOK
<1>5. CASE WorkerFails(j)
  <2>1. PICK known \in BOOLEAN : Write(j, "failed", known) BY <1>5 DEF WorkerFails
  <2>2. "failed" \in Statuses /\ worker' \in [Jobs -> {"none", "start", "run", "report", "fail"}]
    BY <1>1, <1>5 DEF WorkerFails, Statuses
  <2>3. /\ jobs' \in [Jobs -> Statuses] /\ late' \in SUBSET (Jobs \X Statuses)
        /\ api' \in BOOLEAN /\ faults' \in Nat
    BY <2>1, <2>2, WriteType
  <2> QED BY <1>5, <2>2, <2>3 DEF WorkerFails, TypeOK
<1> QED BY <1>2, <1>3, <1>4, <1>5 DEF WorkerStep

LEMMA DeliveryType == ASSUME TypeOK, NEW w \in late, DeliverLate(w) PROVE TypeOK'
<1>1. w[1] \in Jobs /\ w[2] \in Statuses BY DEF TypeOK
<1>2. jobs' \in [Jobs -> Statuses] BY <1>1, RowWrites DEF DeliverLate
<1>3. late' \in SUBSET (Jobs \X Statuses) BY DEF DeliverLate, TypeOK
<1> QED BY <1>2, <1>3 DEF DeliverLate, TypeOK, lifeVars

-----------------------------------------------------------------------------
(***************************************************************************)
(* In the sandbox                                                          *)
(***************************************************************************)
\* Steps that leave the work alone: requests come, go and are forwarded
LEMMA WorkKept ==
  ASSUME Inside, UNCHANGED workVars, cloud' = "up" <=> cloud = "up", IsDown' => cloud' = "down",
         \A r \in Requests : \/ handler'[r] = handler[r]
                             \/ /\ handler'[r].pc \notin {"create", "prepare", "settle"}
                                /\ handler'[r].pc \notin {"none", "transit"} => cloud = "up"
  PROVE  Inside'
<1> USE DEF workVars
<1>1. Emptied' BY DEF Inside, Emptied, Empty, Handling
<1>2. TaskRecorded' /\ Reported' BY DEF Inside, TaskRecorded, Reported
<1>3. Evaluations' BY DEF Inside, Evaluations, Evaluating, Settled, ActiveJob, Known
<1>4. \A r \in Requests : Creating(r)' => handler'[r] = handler[r] /\ Creating(r) BY DEF Creating
<1>5. Creations'
  BY <1>4 DEF Inside, Creations, Creating, Evaluating, Settled, ActiveJob, Known
<1> QED BY <1>1, <1>2, <1>3, <1>5 DEF Inside

\* Steps after which the sandbox is empty: stops, and what recovers from them
LEMMA EmptyInside ==
  ASSUME Inside, Empty', late' = late, reports' = reports, IsDown' => cloud' = "down",
         \A j \in Jobs : /\ jobs'[j] = "none" <=> jobs[j] = "none"
                         /\ jobs'[j] = "succeeded" => jobs[j] = "succeeded"
  PROVE  Inside'
<1>1. Emptied' BY DEF Emptied
<1>2. TaskRecorded' BY DEF Empty, TaskRecorded
<1>3. \A j \in Jobs : worker'[j] = "none" BY DEF Empty
<1>4. \A r \in Requests : handler'[r].pc \in {"none", "transit"} BY DEF Empty, Handling
<1>5. Evaluations' BY <1>3 DEF Inside, Evaluations, Evaluating, Known
<1>6. Reported' BY <1>3 DEF Inside, Reported
<1>7. Creations' BY <1>4 DEF Creations, Creating
<1> QED BY <1>1, <1>2, <1>5, <1>6, <1>7 DEF Inside

\* A status write by the one who holds the job; who does not know its outcome
\* does not evaluate afterwards
LEMMA WriteKept ==
  ASSUME TypeOK, Inside, NEW j \in Jobs, NEW s \in Statuses, s # "none", s # "queued",
         NEW known \in BOOLEAN, Write(j, s, known),
         Known(j), s = "succeeded" => j \in reports,
         UNCHANGED <<box, cloud, task, taskRow, reports, deleted>>,
         \A i \in Jobs : i # j => worker'[i] = worker[i],
         worker'[j] # "none" => worker[j] # "none", worker'[j] # "report",
         Evaluating(j)' => Evaluating(j) /\ known /\ s = "running",
         \A r \in Requests : \/ handler'[r] = handler[r] /\ (handler[r].pc \in {"prepare", "settle"} => handler[r].job # j)
                             \/ handler'[r] = NoHandler
  PROVE  Inside'
<1>1. /\ jobs' \in {jobs, Updated(j, s)} /\ late' \in {late, late \cup {<<j, s>>}}
      /\ known => late' = late /\ jobs' = Updated(j, s)
  BY WriteType
<1>2. /\ \A i \in Jobs : i # j => jobs'[i] = jobs[i]
      /\ jobs'[j] \in {jobs[j], s} /\ (jobs'[j] = "none" <=> jobs[j] = "none")
      /\ known /\ jobs[j] # "none" => jobs'[j] = s
  <2>1. /\ Updated(j, s)[j] = (IF jobs[j] = "none" THEN "none" ELSE s)
        /\ \A i \in Jobs : i # j => Updated(j, s)[i] = jobs[i]
    BY RowWrites
  <2> QED BY <1>1, <2>1
<1>3. /\ \A i \in Jobs, t \in Statuses : <<i, t>> \in late => <<i, t>> \in late'
      /\ \A i \in Jobs, t \in Statuses : <<i, t>> \in late' => <<i, t>> \in late \/ (i = j /\ t = s)
  BY <1>1
<1>4. \A i \in Jobs : Known(i) => Known(i)'
  BY <1>2, <1>3 DEF Known, Statuses
<1>5. \A i \in Jobs : i # j /\ Settled(i) => Settled(i)' BY <1>2, <1>3 DEF Settled, ActiveJob
<1>6. \A i \in Jobs : Evaluating(i)' => Evaluating(i) BY DEF Evaluating
<1>7. Emptied'
  <2>1. Empty => Empty' BY NoHandlerType DEF Empty, Handling
  <2> QED BY <2>1 DEF Inside, Emptied, IsDown
<1>8. TaskRecorded' BY DEF Inside, TaskRecorded
<1>9. Evaluations'
  <2>1. ASSUME NEW i \in Jobs, Evaluating(i)' PROVE Settled(i)' /\ ~deleted'
    <3>1. Evaluating(i) /\ Settled(i) /\ ~deleted BY <1>6, <2>1 DEF Inside, Evaluations
    <3>2. CASE i # j BY <1>5, <3>1, <3>2
    <3>3. CASE i = j
      <4>1. known /\ s = "running" /\ late' = late BY <1>1, <2>1, <3>3
      <4>2. jobs[j] # "none" BY <3>1, <3>3 DEF Settled, ActiveJob
      <4>3. jobs'[j] = "running" BY <1>2, <4>1, <4>2
      <4> QED BY <3>1, <3>3, <4>1, <4>3 DEF Settled, ActiveJob
    <3> QED BY <3>2, <3>3
  <2>2. \A i, k \in Jobs : Evaluating(i)' /\ Evaluating(k)' => i = k BY <1>6 DEF Inside, Evaluations
  <2>3. \A i \in Jobs : worker'[i] # "none" => jobs'[i] # "none" BY <1>2 DEF Inside, Evaluations
  <2>4. \A i \in Jobs, t \in Statuses : <<i, t>> \in late' => Known(i)' /\ t # "none"
    BY <1>3, <1>4 DEF Inside, Evaluations
  <2> QED BY <2>1, <2>2, <2>3, <2>4 DEF Evaluations
<1>10. Reported'
  <2>1. \A i \in Jobs : jobs'[i] = "succeeded" => i \in reports BY <1>2 DEF Inside, Reported
  <2>2. \A i \in Jobs : worker'[i] = "report" => i \in reports BY DEF Inside, Reported
  <2>3. \A i \in Jobs : <<i, "succeeded">> \in late' => i \in reports
    BY <1>3 DEF Inside, Reported, Statuses
  <2> QED BY <2>1, <2>2, <2>3 DEF Reported
<1>11. \A r \in Requests : Creating(r)' => handler'[r] = handler[r] /\ Creating(r)
                             /\ (handler[r].pc \in {"prepare", "settle"} => handler[r].job # j)
  BY NoHandlerType DEF Creating
<1>12. Creations'
  <2>1. \A r, q \in Requests : Creating(r)' /\ Creating(q)' => r = q BY <1>11 DEF Inside, Creations
  <2>2. \A r \in Requests : Creating(r)' => \A i \in Jobs : ~Evaluating(i)'
    BY <1>6, <1>11 DEF Inside, Creations
  <2>3. ASSUME NEW r \in Requests, handler'[r].pc \in {"prepare", "settle"}
        PROVE  /\ handler'[r].job \in Jobs /\ worker'[handler'[r].job] = "none" /\ Known(handler[r].job)'
               /\ handler'[r] = handler[r] /\ (handler[r].pc = "prepare" => Settled(handler[r].job)')
    <3>1. handler'[r] = handler[r] /\ handler[r].pc \in {"prepare", "settle"} /\ handler[r].job # j
      BY <1>11, <2>3 DEF Creating
    <3>2. /\ handler[r].job \in Jobs /\ worker[handler[r].job] = "none" /\ Known(handler[r].job)
          /\ (handler[r].pc = "prepare" => Settled(handler[r].job))
      BY <3>1 DEF Inside, Creations
    <3> QED BY <1>4, <1>5, <3>1, <3>2
  <2> QED BY <2>1, <2>2, <2>3 DEF Creations
<1> QED BY <1>7, <1>8, <1>9, <1>10, <1>12 DEF Inside

\* The recoveries of rows, where nothing runs
LEMMA StopsInside ==
  ASSUME TypeOK, Inside, TickerAlone,
         CloudBoots \/ BootFails \/ ExternalStop \/ StopSandbox
  PROVE  Inside'
<1>1. CASE CloudBoots
  <2>1. Empty /\ ~IsDown BY <1>1 DEF CloudBoots, Inside, Emptied
  <2>2. Empty' BY <1>1, <2>1 DEF CloudBoots, Empty, Handling
  <2>3. ~IsDown' BY <1>1, <2>1 DEF CloudBoots, IsDown
  <2>4. \A j \in Jobs : jobs'[j] = IF ActiveJob(j) THEN "failed" ELSE jobs[j]
    BY <1>1, RowWrites DEF CloudBoots
  <2> QED BY <1>1, <2>2, <2>3, <2>4, EmptyInside DEF CloudBoots, ActiveJob
<1>2. ASSUME Killed PROVE Empty' /\ cloud' = "down"
  BY <1>2, KilledType, NoHandlerType DEF Empty, Handling
<1>3. CASE BootFails BY <1>2, <1>3, EmptyInside DEF BootFails
<1>4. CASE ExternalStop BY <1>2, <1>4, EmptyInside DEF ExternalStop
<1>5. CASE StopSandbox
  <2>1. \A j \in Jobs : jobs'[j] = jobs[j] \/ jobs'[j] = IF ActiveJob(j) THEN "failed" ELSE jobs[j]
    BY <1>5, RowWrites DEF StopSandbox
  <2> QED BY <1>2, <1>5, <2>1, EmptyInside DEF StopSandbox, ActiveJob
<1> QED BY <1>1, <1>3, <1>4, <1>5

LEMMA RecoveryInside ==
  ASSUME TypeOK, Inside, Restore \/ \E r \in Requests : CheckInactive(r)
  PROVE  Inside'
<1>1. UNCHANGED <<box, cloud, task, taskRow, worker, handler, reports, late, deleted>>
  BY DEF Restore, CheckInactive
<1>2. jobs' = jobs \/ (IsDown /\ FailActiveEvaluationJobs) BY DEF Restore, CheckInactive
<1>3. CASE jobs' = jobs
  <2>1. IsDown' => cloud' = "down" BY <1>1 DEF Inside, Emptied, IsDown
  <2>2. UNCHANGED workVars BY <1>1, <1>3 DEF workVars
  <2> QED BY <1>1, <2>1, <2>2, WorkKept
<1>4. CASE IsDown /\ FailActiveEvaluationJobs
  <2>1. Empty /\ cloud = "down" BY <1>4 DEF Inside, Emptied
  <2>2. Empty' /\ cloud' = "down" BY <1>1, <2>1 DEF Empty, Handling
  <2>3. \A j \in Jobs : jobs'[j] = IF ActiveJob(j) THEN "failed" ELSE jobs[j] BY <1>4, RowWrites
  <2> QED BY <1>1, <2>2, <2>3, EmptyInside DEF ActiveJob
<1> QED BY <1>2, <1>3, <1>4

\* The proxy's own steps
LEMMA ProxyInside ==
  ASSUME TypeOK, Inside,
         BoxReady \/ CloudStarts \/ ReadActivity \/ StopIdle \/ StopFails \/ IdleElapses
         \/ ProxyEnds \/ ProxyRestarts
  PROVE  Inside'
<1> USE DEF BoxReady, CloudStarts, ReadActivity, StopIdle, StopFails, IdleElapses, ProxyEnds, ProxyRestarts
<1>1. UNCHANGED workVars /\ handler' = handler OBVIOUS
<1>2. cloud' = "up" <=> cloud = "up" OBVIOUS
<1>3. IsDown' => cloud' = "down" BY DEF Inside, Emptied, IsDown
<1> QED BY <1>1, <1>2, <1>3, WorkKept

LEMMA RequestInside ==
  ASSUME TypeOK, Inside, NEW r \in Requests,
         \/ \E kind \in Kinds : Arrive(r, kind)
         \/ Lock(r) \/ Ensure(r) \/ WaitReady(r) \/ Healthy(r) \/ EnsureFails(r) \/ SendFails(r)
         \/ ForgetEndpoint(r) \/ Leave(r)
  PROVE  Inside'
<1> USE DEF lifeVars
<1>1. UNCHANGED workVars /\ cloud' = cloud
  BY DEF Arrive, Lock, Ensure, WaitReady, Healthy, EnsureFails, SendFails, ForgetEndpoint, Leave
<1>2. IsDown' => cloud' = "down"
  <2>1. box' = box \/ box' = Woken
    BY DEF Arrive, Lock, Ensure, WaitReady, Healthy, EnsureFails, SendFails, ForgetEndpoint, Leave
  <2> QED BY <1>1, <2>1 DEF Inside, Emptied, IsDown, Woken
<1>3. \/ handler' = handler \/ Forward(r) \/ handler' = [handler EXCEPT ![r] = NoHandler]
  BY DEF Arrive, Lock, Ensure, WaitReady, Healthy, EnsureFails, SendFails, ForgetEndpoint, Leave
<1>4. \A q \in Requests : handler'[q] = handler[q] \/ handler'[q].pc \in {"none", "transit"}
  <2>1. CASE handler' = handler BY <2>1
  <2>2. CASE Forward(r) BY <2>2, ForwardType
  <2>3. CASE handler' = [handler EXCEPT ![r] = NoHandler] BY <2>3, HandlerSet, NoHandlerType
  <2> QED BY <1>3, <2>1, <2>2, <2>3
<1> QED BY <1>1, <1>2, <1>4, WorkKept

\* Accepted, dropped or answered without work; the session's work begins
LEMMA HandlersInside ==
  ASSUME TypeOK, Inside, NEW r \in Requests, Accept(r) \/ Vanish(r) \/ HandleControl(r) \/ CreateFails(r)
  PROVE  Inside'
<1> USE DEF lifeVars
<1>1. UNCHANGED workVars /\ cloud' = cloud /\ box' = box BY DEF Accept, Vanish, HandleControl, CreateFails
<1>2. IsDown' => cloud' = "down" BY <1>1 DEF Inside, Emptied, IsDown
<1>3. CASE Accept(r)
  <2>1. req[r] \in Request BY DEF TypeOK
  <2>2. req[r].kind \in Kinds \cup {"none", "transit", "create", "prepare", "settle"}
        /\ req[r].kind \notin {"create", "prepare", "settle"} BY <2>1 DEF Request, Kinds
  <2>3. /\ handler'[r].pc = req[r].kind /\ cloud = "up"
        /\ \A q \in Requests : q # r => handler'[q] = handler[q]
    BY <1>3, <2>2, HandlerMoves DEF Accept
  <2>4. \A q \in Requests : handler'[q] = handler[q] \/ (handler'[q].pc \notin {"create", "prepare", "settle"} /\ cloud = "up")
    BY <2>2, <2>3
  <2> QED BY <1>1, <1>2, <2>4, WorkKept
<1>4. CASE Vanish(r) \/ HandleControl(r) \/ CreateFails(r)
  <2>1. handler' = [handler EXCEPT ![r] = NoHandler] BY <1>4 DEF Vanish, HandleControl, CreateFails, Answer
  <2>2. \A q \in Requests : handler'[q] = handler[q] \/ handler'[q].pc = "none"
    BY <2>1, HandlerSet, NoHandlerType
  <2> QED BY <1>1, <1>2, <2>2, WorkKept
<1> QED BY <1>3, <1>4

\* The chat task and the deletion leave the evaluations alone
LEMMA TasksInside ==
  ASSUME Inside, UNCHANGED <<box, cloud, jobs, worker, reports, late>>,
         task' => cloud = "up", TaskRecorded', deleted' => \A j \in Jobs : ~Evaluating(j),
         \A r \in Requests : handler'[r] = handler[r] \/ handler'[r].pc = "none"
  PROVE  Inside'
<1>1. Emptied' BY DEF Inside, Emptied, Empty, Handling, IsDown
<1>2. Evaluations' BY DEF Inside, Evaluations, Evaluating, Settled, ActiveJob, Known
<1>3. Reported' BY DEF Inside, Reported
<1>4. \A r \in Requests : Creating(r)' => handler'[r] = handler[r] /\ Creating(r) BY DEF Creating
<1>5. Creations'
  BY <1>4 DEF Inside, Creations, Creating, Evaluating, Settled, ActiveJob, Known
<1> QED BY <1>1, <1>2, <1>3, <1>5 DEF Inside

LEMMA TaskStepsInside ==
  ASSUME TypeOK, Inside, TaskEnds \/ \E r \in Requests : HandleChat(r) \/ DeleteSession(r)
  PROVE  Inside'
<1>1. CASE TaskEnds
  <2>1. TaskRecorded' /\ ~task' BY <1>1 DEF TaskEnds, TaskRecorded
  <2>2. deleted' => \A j \in Jobs : ~Evaluating(j) BY <1>1 DEF TaskEnds, Inside, Evaluations
  <2> QED BY <1>1, <2>1, <2>2, TasksInside DEF TaskEnds
<1>2. ASSUME NEW r \in Requests, HandleChat(r) PROVE Inside'
  <2>1. cloud = "up" BY <1>2 DEF HandleChat, Inside, Emptied, Empty, Handling
  <2>2. TaskRecorded' BY <1>2 DEF HandleChat, Inside, TaskRecorded
  <2>3. deleted' => \A j \in Jobs : ~Evaluating(j) BY <1>2 DEF HandleChat, Inside, Evaluations
  <2>4. Answer(r) BY <1>2 DEF HandleChat
  <2>5. \A q \in Requests : handler'[q] = handler[q] \/ handler'[q].pc = "none"
    BY <2>4, AnswerType, NoHandlerType
  <2>6. UNCHANGED <<box, cloud, jobs, worker, reports, late>> BY <1>2 DEF HandleChat
  <2> QED BY <2>1, <2>2, <2>3, <2>5, <2>6, TasksInside
<1>3. ASSUME NEW r \in Requests, DeleteSession(r) PROVE Inside'
  <2>1. deleted' => deleted \/ (~taskRow /\ \A j \in Jobs : ~ActiveJob(j)) BY <1>3 DEF DeleteSession
  <2>2. UNCHANGED <<box, cloud, task, taskRow, jobs, worker, reports, late, handler>> BY <1>3 DEF DeleteSession
  <2>3. TaskRecorded' BY <2>1, <2>2 DEF Inside, TaskRecorded
  <2>4. deleted' => \A j \in Jobs : ~Evaluating(j) BY <2>1 DEF Inside, Evaluations, Settled
  <2>5. task' => cloud = "up" BY <2>2 DEF Inside, Emptied, Empty
  <2> QED BY <2>2, <2>3, <2>4, <2>5, TasksInside
<1> QED BY <1>1, <1>2, <1>3

\* The first check of an evaluation takes the session's lock
LEMMA EvaluateInside ==
  ASSUME TypeOK, Inside, NEW r \in Requests, HandleEvaluate(r)
  PROVE  Inside'
<1>1. UNCHANGED workVars /\ UNCHANGED <<box, cloud>> BY DEF HandleEvaluate
<1>2. IsDown' => cloud' = "down" BY <1>1 DEF Inside, Emptied, IsDown
<1>3. CASE Answer(r)
  <2>1. \A q \in Requests : handler'[q] = handler[q] \/ handler'[q].pc = "none"
    BY <1>3, AnswerType, NoHandlerType
  <2> QED BY <1>1, <1>2, <2>1, WorkKept
<1>4. CASE ~Answer(r)
  <2>1. /\ ~SessionLocked /\ \A j \in Jobs : ~ActiveJob(j)
        /\ handler' = [handler EXCEPT ![r].pc = "create"]
    BY <1>4 DEF HandleEvaluate
  <2>2. handler'[r].pc = "create" /\ \A q \in Requests : q # r => handler'[q] = handler[q]
    BY <2>1, HandlerMoves
  <2>3. \A q \in Requests : ~Creating(q) BY <2>1 DEF SessionLocked, Creating
  <2>4. \A j \in Jobs : ~Evaluating(j) BY <2>1 DEF Inside, Evaluations, Settled
  <2>5. cloud = "up" BY DEF HandleEvaluate, Inside, Emptied, Empty, Handling
  <2>6. Emptied' BY <1>1, <1>2, <2>5 DEF Emptied
  <2>7. TaskRecorded' /\ Reported' BY <1>1 DEF Inside, TaskRecorded, Reported, workVars
  <2>8. Evaluations' BY <1>1 DEF Inside, Evaluations, Evaluating, Settled, ActiveJob, Known, workVars
  <2>9. \A q \in Requests : Creating(q)' => q = r /\ handler'[q].pc = "create"
    BY <2>2, <2>3 DEF Creating
  <2>10. \A j \in Jobs : ~Evaluating(j)' BY <1>1, <2>4 DEF workVars, Evaluating
  <2>11. Creations' BY <2>9, <2>10 DEF Creations, Creating
  <2> QED BY <2>6, <2>7, <2>8, <2>11 DEF Inside
<1> QED BY <1>3, <1>4

\* A new job is nobody's: no worker, no write on its way
LEMMA CreateInside ==
  ASSUME TypeOK, Inside, NEW r \in Requests, CreateEvaluationJob(r)
  PROVE  Inside'
<1>1. PICK n \in Jobs :
      /\ n \in Unused
      /\ handler'[r].pc \in {"prepare", "settle"} /\ handler'[r].job = n
      /\ \A q \in Requests : q # r => handler'[q] = handler[q]
      /\ \/ jobs' = Created(n) /\ late' = late
         \/ handler'[r].pc = "settle" /\ jobs' = jobs /\ late' = late \cup {<<n, "queued">>}
  BY CreateType
<1>2. UNCHANGED <<box, cloud, task, taskRow, worker, reports, deleted>> BY DEF CreateEvaluationJob
<1>3. jobs[n] = "none" /\ ~Known(n) BY <1>1 DEF Unused, Known
<1>4. worker[n] = "none" /\ \A s \in Statuses : <<n, s>> \notin late
  BY <1>1, <1>3 DEF Inside, Evaluations
<1>5. /\ \A i \in Jobs : i # n => jobs'[i] = jobs[i]
      /\ jobs'[n] \in {"none", "queued"} /\ (handler'[r].pc = "prepare" => jobs'[n] = "queued" /\ late' = late)
      /\ jobs'[n] = "queued" \/ <<n, "queued">> \in late'
  <2>1. Created(n)[n] = "queued" /\ \A i \in Jobs : i # n => Created(n)[i] = jobs[i] BY <1>1, RowWrites
  <2> QED BY <1>1, <1>3, <2>1
<1>6. /\ \A i \in Jobs, s \in Statuses : <<i, s>> \in late => <<i, s>> \in late'
      /\ \A i \in Jobs, s \in Statuses : <<i, s>> \in late' => <<i, s>> \in late \/ (i = n /\ s = "queued")
  BY <1>1
<1>7. Creating(r) /\ cloud = "up"
  BY DEF CreateEvaluationJob, Creating, Inside, Emptied, Empty, Handling
<1>8. \A q \in Requests : Creating(q)' => q = r BY <1>1, <1>7 DEF Inside, Creations, Creating
<1>9. \A j \in Jobs : ~Evaluating(j)' BY <1>2, <1>7 DEF Inside, Creations, Evaluating
<1>10. \A i \in Jobs : i # n => (Known(i) <=> Known(i)')
  <2>1. "queued" \in Statuses BY DEF Statuses
  <2> QED BY <1>5, <1>6, <2>1 DEF Known
<1>11. Known(n)' BY <1>5 DEF Known
<1>12. Emptied' BY <1>2, <1>7 DEF Inside, Emptied, IsDown
<1>13. TaskRecorded' BY <1>2 DEF Inside, TaskRecorded
<1>14. Evaluations'
  <2>1. \A i \in Jobs : worker'[i] # "none" => jobs'[i] # "none" BY <1>2, <1>4, <1>5 DEF Inside, Evaluations
  <2>2. \A i \in Jobs, s \in Statuses : <<i, s>> \in late' => Known(i)' /\ s # "none"
    BY <1>6, <1>10, <1>11 DEF Inside, Evaluations
  <2> QED BY <1>9, <2>1, <2>2 DEF Evaluations
<1>15. Reported'
  <2>1. \A i \in Jobs : jobs'[i] = "succeeded" => jobs[i] = "succeeded" BY <1>5
  <2>2. \A i \in Jobs : <<i, "succeeded">> \in late' => <<i, "succeeded">> \in late BY <1>6 DEF Statuses
  <2> QED BY <1>2, <2>1, <2>2 DEF Inside, Reported
<1>16. Settled(n)' \/ handler'[r].pc = "settle"
  BY <1>1, <1>4, <1>5 DEF Settled, ActiveJob
<1>17. Creations'
  <2>1. \A q \in Requests : handler'[q].pc \in {"prepare", "settle"} => q = r BY <1>8 DEF Creating
  <2>2. handler'[r].job = n /\ n \in Jobs /\ worker'[n] = "none" BY <1>1, <1>2, <1>4
  <2>3. Known(handler[r].job)' BY <1>11, <2>2 DEF Known
  <2>4. Settled(handler[r].job)' \/ handler'[r].pc = "settle" BY <1>16, <2>2 DEF Settled, ActiveJob
  <2> QED BY <1>8, <1>9, <2>1, <2>2, <2>3, <2>4 DEF Creations
<1> QED BY <1>12, <1>13, <1>14, <1>15, <1>17 DEF Inside

\* The worker is started under the session's lock, or the job is given up
LEMMA PrepareInside ==
  ASSUME TypeOK, Inside, NEW r \in Requests, PrepareEvaluation(r)
  PROVE  Inside'
<1>1. UNCHANGED <<box, cloud, task, taskRow, jobs, reports, late, deleted>>
  BY DEF PrepareEvaluation, lifeVars
<1>2. PICK n \in Jobs : handler[r].job = n /\ worker[n] = "none" /\ Known(n) /\ Settled(n)
  BY DEF PrepareEvaluation, Inside, Creations
<1>3. Creating(r) /\ cloud = "up"
  BY DEF PrepareEvaluation, Creating, Inside, Emptied, Empty, Handling
<1>4. /\ \A q \in Requests : Creating(q) => q = r
      /\ \A i \in Jobs : ~Evaluating(i)
  BY <1>3 DEF Inside, Creations
<1>5. Emptied' BY <1>1, <1>3 DEF Inside, Emptied, IsDown
<1>6. TaskRecorded' BY <1>1 DEF Inside, TaskRecorded
<1>7. \A i \in Jobs : (Known(i) => Known(i)') /\ (Settled(i) => Settled(i)')
  BY <1>1 DEF Known, Settled, ActiveJob
<1>8. CASE Answer(r)
  <2>1. (~deleted /\ worker' = [worker EXCEPT ![n] = "start"]) \/ worker' = worker
    BY <1>2, <1>8 DEF PrepareEvaluation, SnapshotCopied
  <2>2. /\ \A i \in Jobs : i # n => worker'[i] = worker[i]
        /\ (worker'[n] = "start" /\ ~deleted) \/ worker' = worker
    BY <2>1 DEF TypeOK
  <2>3. \A q \in Requests : q # r => handler'[q] = handler[q] BY <1>8, AnswerType
  <2>4. \A q \in Requests : ~Creating(q)'
    BY <1>4, <1>8, <2>3, AnswerType, NoHandlerType DEF Creating
  <2>5. \A i \in Jobs : Evaluating(i)' => i = n /\ ~deleted BY <1>4, <2>2 DEF Evaluating
  <2>6. \A i \in Jobs : worker'[i] # "none" => jobs'[i] # "none"
    BY <1>1, <1>2, <2>2 DEF Inside, Evaluations, Settled, ActiveJob
  <2>7. Settled(n)' BY <1>2, <1>7
  <2>8. Evaluations' BY <1>1, <1>7, <2>5, <2>6, <2>7 DEF Inside, Evaluations
  <2>9. Reported' BY <1>1, <2>2 DEF Inside, Reported
  <2>10. Creations' BY <2>4 DEF Creations, Creating
  <2> QED BY <1>5, <1>6, <2>8, <2>9, <2>10 DEF Inside
<1>9. CASE handler' = [handler EXCEPT ![r].pc = "settle"] /\ worker' = worker
  <2>1. /\ handler'[r].pc = "settle" /\ handler'[r].job = n
        /\ \A q \in Requests : q # r => handler'[q] = handler[q]
    BY <1>2, <1>9, HandlerMoves
  <2>2. \A q \in Requests : Creating(q)' => q = r BY <1>4, <2>1 DEF Creating
  <2>3. \A i \in Jobs : ~Evaluating(i)' BY <1>4, <1>9 DEF Evaluating
  <2>4. Evaluations' BY <1>1, <1>7, <1>9, <2>3 DEF Inside, Evaluations
  <2>5. Reported' BY <1>1, <1>9 DEF Inside, Reported
  <2>6. Known(handler[r].job)' /\ handler'[r].job \in Jobs /\ worker'[handler'[r].job] = "none"
    BY <1>2, <1>7, <1>9, <2>1 DEF Known
  <2>7. \A q \in Requests : handler'[q].pc \in {"prepare", "settle"} => q = r /\ handler'[q].pc # "prepare"
    BY <2>1, <2>2 DEF Creating
  <2>8. Creations' BY <2>2, <2>3, <2>6, <2>7 DEF Creations
  <2> QED BY <1>5, <1>6, <2>4, <2>5, <2>8 DEF Inside
<1> QED BY <1>8, <1>9 DEF PrepareEvaluation

\* A job is settled as failed; the lock is given back
LEMMA SettleInside ==
  ASSUME TypeOK, Inside, NEW r \in Requests, Settle(r)
  PROVE  Inside'
<1>1. PICK j \in Jobs : handler[r].job = j /\ worker[j] = "none" /\ Known(j)
  BY DEF Settle, Inside, Creations
<1>2. PICK known \in BOOLEAN : Write(j, "failed", known) BY <1>1 DEF Settle
<1>3. UNCHANGED <<box, cloud, task, taskRow, worker, reports, deleted>> BY DEF Settle
<1>4. Answer(r) BY DEF Settle
<1>5. handler'[r] = NoHandler /\ \A q \in Requests : q # r => handler'[q] = handler[q] BY <1>4, AnswerType
<1>6. Creating(r) BY DEF Settle, Creating
<1>7. \A q \in Requests : q # r => handler[q].pc \notin {"prepare", "settle"}
  BY <1>6 DEF Inside, Creations, Creating
<1>8. \A q \in Requests : \/ handler'[q] = handler[q] /\ (handler[q].pc \in {"prepare", "settle"} => handler[q].job # j)
                          \/ handler'[q] = NoHandler
  BY <1>5, <1>7
<1>9. ~Evaluating(j)' /\ worker'[j] = "none" BY <1>1, <1>3 DEF Evaluating
<1>10. "failed" \in Statuses BY DEF Statuses
<1> QED BY <1>1, <1>2, <1>3, <1>8, <1>9, <1>10, WriteKept

\* The worker's writes are about its own row
LEMMA WorkersInside ==
  ASSUME TypeOK, Inside, NEW j \in Jobs, WorkerStarts(j) \/ WorkerSucceeds(j) \/ WorkerFails(j)
  PROVE  Inside'
<1>1. UNCHANGED <<box, cloud, task, taskRow, handler, reports, deleted>> /\ worker[j] # "none"
  BY DEF WorkerStarts, WorkerSucceeds, WorkerFails
<1>2. Known(j) BY <1>1 DEF Inside, Evaluations, Known
<1>3. \A r \in Requests : handler[r].pc \in {"prepare", "settle"} => handler[r].job # j
  BY <1>1 DEF Inside, Creations
<1>4. \A pc : Working(j, pc) => worker'[j] = pc /\ \A i \in Jobs : i # j => worker'[i] = worker[i]
  BY DEF Working, TypeOK
<1>5. CASE WorkerStarts(j)
  <2>1. PICK known \in BOOLEAN : Write(j, "running", known) /\ Working(j, IF known THEN "run" ELSE "fail")
    BY <1>5 DEF WorkerStarts
  <2>2. /\ worker'[j] = (IF known THEN "run" ELSE "fail")
        /\ \A i \in Jobs : i # j => worker'[i] = worker[i]
    BY <1>4, <2>1
  <2>3. Evaluating(j)' => Evaluating(j) /\ known BY <1>5, <2>2 DEF WorkerStarts, Evaluating
  <2>4. "running" \in Statuses /\ worker'[j] # "report" BY <2>2 DEF Statuses
  <2> QED BY <1>1, <1>2, <1>3, <2>1, <2>2, <2>3, <2>4, WriteKept
<1>6. CASE WorkerSucceeds(j)
  <2>1. PICK known \in BOOLEAN : Write(j, "succeeded", known) /\ Working(j, IF known THEN "none" ELSE "fail")
    BY <1>6 DEF WorkerSucceeds
  <2>2. /\ worker'[j] = (IF known THEN "none" ELSE "fail")
        /\ \A i \in Jobs : i # j => worker'[i] = worker[i]
    BY <1>4, <2>1
  <2>3. ~Evaluating(j)' BY <2>2 DEF Evaluating
  <2>4. "succeeded" \in Statuses /\ worker'[j] # "report" BY <2>2 DEF Statuses
  <2>5. j \in reports BY <1>6 DEF WorkerSucceeds, Inside, Reported
  <2> QED BY <1>1, <1>2, <1>3, <2>1, <2>2, <2>3, <2>4, <2>5, WriteKept
<1>7. CASE WorkerFails(j)
  <2>1. PICK known \in BOOLEAN : Write(j, "failed", known) BY <1>7 DEF WorkerFails
  <2>2. worker'[j] = "none" /\ \A i \in Jobs : i # j => worker'[i] = worker[i]
    BY <1>4, <1>7 DEF WorkerFails
  <2>3. ~Evaluating(j)' BY <2>2 DEF Evaluating
  <2>4. "failed" \in Statuses /\ worker'[j] # "report" BY <2>2 DEF Statuses
  <2> QED BY <1>1, <1>2, <1>3, <2>1, <2>2, <2>3, <2>4, WriteKept
<1> QED BY <1>5, <1>6, <1>7

LEMMA ReportInside ==
  ASSUME TypeOK, Inside, NEW j \in Jobs, WriteReport(j)
  PROVE  Inside'
<1>1. UNCHANGED <<box, cloud, task, taskRow, jobs, handler, late, deleted>> /\ worker[j] = "run"
  BY DEF WriteReport, lifeVars
<1>2. /\ \A i \in Jobs : i # j => worker'[i] = worker[i]
      /\ worker'[j] \in {"report", "fail"} /\ (worker'[j] = "report" => j \in reports')
      /\ reports \subseteq reports'
  BY DEF WriteReport, Working, TypeOK
<1>3. \A i \in Jobs : Evaluating(i)' => Evaluating(i) BY <1>1, <1>2 DEF Evaluating
<1>4. \A i \in Jobs : worker'[i] = "none" <=> worker[i] = "none" BY <1>1, <1>2
<1>5. Emptied' BY <1>1, <1>4 DEF Inside, Emptied, Empty, Handling, IsDown
<1>6. TaskRecorded' BY <1>1 DEF Inside, TaskRecorded
<1>7. Reported' BY <1>1, <1>2 DEF Inside, Reported
<1>8. \A i \in Jobs : (Known(i)' <=> Known(i)) /\ (Settled(i)' <=> Settled(i))
  BY <1>1 DEF Known, Settled, ActiveJob
<1>9. Evaluations' BY <1>1, <1>3, <1>4, <1>8 DEF Inside, Evaluations
<1>10. Creations'
  BY <1>1, <1>3, <1>4 DEF Inside, Creations, Creating, Known, Settled, ActiveJob
<1> QED BY <1>5, <1>6, <1>7, <1>9, <1>10 DEF Inside

\* A late write finds its job over
LEMMA DeliveryInside ==
  ASSUME TypeOK, Inside, NEW w \in late, DeliverLate(w)
  PROVE  Inside'
<1>1. PICK j \in Jobs, s \in Statuses : w = <<j, s>> BY DEF TypeOK
<1>2. <<j, s>> \in late /\ late' = late \ {<<j, s>>} /\ jobs' = (IF s = "queued" THEN Created(j) ELSE Updated(j, s))
  BY <1>1 DEF DeliverLate
<1>3. UNCHANGED <<box, cloud, task, taskRow, worker, handler, reports, deleted>> BY DEF DeliverLate, lifeVars
<1>4. Known(j) /\ s # "none" /\ ~Settled(j) BY <1>2 DEF Inside, Evaluations, Settled
<1>5. /\ \A i \in Jobs : i # j => jobs'[i] = jobs[i]
      /\ jobs'[j] \in {jobs[j], s} /\ (s = "queued" => jobs'[j] # "none")
      /\ jobs[j] # "none" => jobs'[j] # "none"
  <2>1. /\ Updated(j, s)[j] = (IF jobs[j] = "none" THEN "none" ELSE s) /\ Created(j)[j] = "queued"
        /\ \A i \in Jobs : i # j => Updated(j, s)[i] = jobs[i] /\ Created(j)[i] = jobs[i]
    BY RowWrites
  <2> QED BY <1>2, <1>4, <2>1
<1>6. /\ \A i \in Jobs, t \in Statuses : <<i, t>> \in late' => <<i, t>> \in late
      /\ \A i \in Jobs, t \in Statuses : <<i, t>> \in late /\ (i # j \/ t # s) => <<i, t>> \in late'
  BY <1>2
<1>7. \A i \in Jobs : Known(i) => Known(i)'
  <2>1. "queued" \in Statuses BY DEF Statuses
  <2> QED BY <1>4, <1>5, <1>6, <2>1 DEF Known
<1>8. \A i \in Jobs : Settled(i) => Settled(i)' BY <1>4, <1>5, <1>6 DEF Settled, ActiveJob
<1>9. \A i \in Jobs : Evaluating(i)' <=> Evaluating(i) BY <1>3 DEF Evaluating
<1>10. Emptied' BY <1>3 DEF Inside, Emptied, Empty, Handling, IsDown
<1>11. TaskRecorded' BY <1>3 DEF Inside, TaskRecorded
<1>12. Evaluations'
  <2>1. \A i \in Jobs : worker'[i] # "none" => jobs'[i] # "none" BY <1>3, <1>5 DEF Inside, Evaluations
  <2>2. \A i \in Jobs, t \in Statuses : <<i, t>> \in late' => Known(i)' /\ t # "none"
    BY <1>6, <1>7 DEF Inside, Evaluations
  <2> QED BY <1>3, <1>8, <1>9, <2>1, <2>2 DEF Inside, Evaluations
<1>13. Reported'
  <2>1. s = "succeeded" => j \in reports BY <1>2 DEF Inside, Reported
  <2>2. \A i \in Jobs : jobs'[i] = "succeeded" => i \in reports BY <1>5, <2>1 DEF Inside, Reported
  <2>3. \A i \in Jobs : <<i, "succeeded">> \in late' => <<i, "succeeded">> \in late BY <1>6 DEF Statuses
  <2> QED BY <1>3, <2>2, <2>3 DEF Inside, Reported
<1>14. Creations'
  <2>1. ASSUME NEW r \in Requests, handler'[r].pc \in {"prepare", "settle"}
        PROVE  /\ handler'[r].job \in Jobs /\ worker'[handler'[r].job] = "none" /\ Known(handler[r].job)'
               /\ (handler'[r].pc = "prepare" => Settled(handler[r].job)')
    <3>1. /\ handler[r].job \in Jobs /\ worker[handler[r].job] = "none" /\ Known(handler[r].job)
          /\ (handler[r].pc = "prepare" => Settled(handler[r].job))
      BY <1>3, <2>1 DEF Inside, Creations
    <3>2. PICK i \in Jobs : handler[r].job = i BY <3>1
    <3> QED BY <1>3, <1>7, <1>8, <3>1, <3>2
  <2> QED BY <1>3, <1>9, <2>1 DEF Inside, Creations, Creating
<1> QED BY <1>10, <1>11, <1>12, <1>13, <1>14 DEF Inside

-----------------------------------------------------------------------------
(***************************************************************************)
(* At the proxy                                                            *)
(***************************************************************************)
\* Steps that leave the gate to its holder and the count as it is
LEMMA ProxyKept ==
  ASSUME TypeOK, Outside, UNCHANGED <<up, gate, active, idle, ticker>>, ticker = "stop" => Empty',
         \A r \in Requests : InTransit(r)' => InTransit(r),
         \A r \in Requests :
           \/ req'[r].pc = req[r].pc
           \/ req'[r].pc \in {"sent", "forget", "leave"} /\ req[r].pc \in {"sent", "forget", "leave"}
           \/ AtGate(r)' /\ AtGate(r)
           \/ up /\ req'[r].pc \in {"none", "gate"} /\ req[r].pc \in {"none", "gate"}
  PROVE  Outside'
<1>1. \A r \in Requests : AtGate(r)' <=> AtGate(r) BY DEF AtGate
<1>2. Forwarded' = Forwarded BY DEF Forwarded, AtGate
<1>3. ~up => \A r \in Requests : At(r, "none") => At(r, "none")' BY DEF At, AtGate
<1>4. Gate' BY <1>1, <1>3 DEF Outside, Gate, Stopping
<1>5. Counted' BY <1>2 DEF Outside, Counted
<1>6. OnItsWay' BY <1>2 DEF Outside, OnItsWay
<1>7. TickerAlone' BY <1>2 DEF Outside, TickerAlone, Stopping
<1> QED BY <1>4, <1>5, <1>6, <1>7 DEF Outside

\* Whoever holds the gate, or finds it free, keeps the ticker out
LEMMA AtTheGate ==
  ASSUME Outside, NEW r \in Requests, AtGate(r)
  PROVE  up /\ ~Stopping /\ \A q \in Requests : AtGate(q) => q = r
BY DEF Outside, Gate, AtGate, At

LEMMA GateIsFree ==
  ASSUME Outside, Free PROVE up /\ ~Stopping /\ \A q \in Requests : ~AtGate(q)
BY DEF Outside, Gate, Free

\* The holder of the gate gives it back without having been forwarded
LEMMA ReleaseOutside ==
  ASSUME TypeOK, Outside, NEW r \in Requests, AtGate(r), Release(r),
         UNCHANGED <<up, active, idle, ticker, handler>>
  PROVE  Outside'
<1>1. req'[r].pc = "none" /\ \A q \in Requests : q # r => req'[q] = req[q]
  BY GoToType DEF Release
<1>2. up /\ ~Stopping /\ \A q \in Requests : AtGate(q) => q = r BY AtTheGate
<1>3. \A q \in Requests : ~AtGate(q)' BY <1>1, <1>2 DEF AtGate
<1>4. Forwarded' = Forwarded BY <1>1 DEF Forwarded, AtGate
<1>5. ~Stopping' /\ up' BY <1>2 DEF Stopping
<1>6. Gate' BY <1>3, <1>5 DEF Gate
<1>7. Counted' /\ OnItsWay' BY <1>4 DEF Outside, Counted, OnItsWay, InTransit
<1>8. TickerAlone' BY <1>5 DEF TickerAlone, Stopping
<1> QED BY <1>6, <1>7, <1>8 DEF Outside

\* A forwarded request is counted before the gate is given back
LEMMA ForwardOutside ==
  ASSUME TypeOK, Outside, NEW r \in Requests, Forward(r), r \notin Forwarded,
         up, ~Stopping, \A q \in Requests : AtGate(q) => q = r, UNCHANGED <<up, idle, ticker>>
  PROVE  Outside'
<1>1. /\ req'[r].pc = "sent" /\ \A q \in Requests : q # r => req'[q] = req[q]
      /\ handler'[r].pc = "transit" /\ \A q \in Requests : q # r => handler'[q] = handler[q]
      /\ active' = active + 1
  BY ForwardType
<1>2. \A q \in Requests : ~AtGate(q)' BY <1>1 DEF AtGate
<1>3. Forwarded' = Forwarded \cup {r} BY <1>1 DEF Forwarded
<1>4. ~Stopping' /\ up' BY DEF Stopping
<1>5. Gate' BY <1>2, <1>4 DEF Gate
<1>6. Counted'
  <2>1. Cardinality(Forwarded \cup {r}) = Cardinality(Forwarded) + 1 BY ForwardedFinite, FS_AddElement
  <2> QED BY <1>1, <1>3, <2>1 DEF Outside, Counted
<1>7. OnItsWay' BY <1>1, <1>3 DEF Outside, OnItsWay, InTransit
<1>8. TickerAlone' BY <1>4 DEF TickerAlone, Stopping
<1> QED BY <1>5, <1>6, <1>7, <1>8 DEF Outside

LEMMA LockOutside ==
  ASSUME TypeOK, Outside, NEW r \in Requests, Lock(r)
  PROVE  Outside'
<1>1. req[r].pc = "gate" /\ Free /\ UNCHANGED <<up, idle, ticker>> BY DEF Lock, At
<1>2. up /\ ~Stopping /\ \A q \in Requests : ~AtGate(q) BY <1>1, GateIsFree
<1>3. CASE Forward(r)
  <2>1. r \notin Forwarded BY <1>1 DEF Forwarded
  <2> QED BY <1>1, <1>2, <1>3, <2>1, ForwardOutside
<1>4. CASE ~Forward(r)
  <2>1. /\ gate' = "held" /\ GoTo(r, IF req[r].kind = "delete" THEN "check" ELSE "lookup")
        /\ UNCHANGED <<active, handler>>
    BY <1>4 DEF Lock
  <2>2. req'[r].pc \in {"check", "lookup"} /\ \A q \in Requests : q # r => req'[q] = req[q]
    BY <2>1, GoToType
  <2>3. \A q \in Requests : AtGate(q)' => q = r BY <1>2, <2>2 DEF AtGate
  <2>4. Forwarded' = Forwarded BY <1>1, <2>2 DEF Forwarded
  <2>5. ~Stopping' /\ up' BY <1>1, <1>2 DEF Stopping
  <2>6. Gate' BY <2>1, <2>3, <2>5 DEF Gate
  <2>7. Counted' /\ OnItsWay' BY <1>1, <2>1, <2>4 DEF Outside, Counted, OnItsWay, InTransit
  <2>8. TickerAlone' BY <2>5 DEF TickerAlone, Stopping
  <2> QED BY <2>6, <2>7, <2>8 DEF Outside
<1> QED BY <1>3, <1>4

LEMMA EnsureOutside ==
  ASSUME TypeOK, Outside, NEW r \in Requests,
         Ensure(r) \/ WaitReady(r) \/ Healthy(r) \/ EnsureFails(r)
  PROVE  Outside'
<1>1. req[r].pc \in {"lookup", "wait", "health"} BY DEF Ensure, WaitReady, Healthy, EnsureFails, At
<1>2. AtGate(r) /\ r \notin Forwarded BY <1>1 DEF AtGate, Forwarded
<1>3. up /\ ~Stopping /\ \A q \in Requests : AtGate(q) => q = r BY <1>2, AtTheGate
<1>4. UNCHANGED <<up, idle, ticker>> BY DEF Ensure, WaitReady, Healthy, EnsureFails, lifeVars
<1>5. CASE Forward(r) BY <1>2, <1>3, <1>4, <1>5, ForwardOutside
<1>6. CASE EnsureFails(r)
  <2>1. Release(r) /\ UNCHANGED <<active, handler>> BY <1>6 DEF EnsureFails, Release
  <2> QED BY <1>2, <1>4, <2>1, ReleaseOutside
<1>7. CASE ~Forward(r) /\ ~EnsureFails(r)
  <2>1. PICK pc \in {"wait", "health"} : GoTo(r, pc) /\ UNCHANGED <<gate, active, handler>>
    BY <1>7 DEF Ensure, WaitReady, Healthy, lifeVars
  <2>2. req'[r].pc = pc /\ \A q \in Requests : q # r => req'[q] = req[q] BY <2>1, GoToType
  <2>3. AtGate(r)' BY <2>2 DEF AtGate
  <2>4. \A q \in Requests : InTransit(q)' => InTransit(q) BY <2>1 DEF InTransit
  <2>5. ticker # "stop" BY <1>3 DEF Stopping
  <2> QED BY <1>2, <1>4, <2>1, <2>2, <2>3, <2>4, <2>5, ProxyKept
<1> QED BY <1>5, <1>6, <1>7

LEMMA DeletionOutside ==
  ASSUME TypeOK, Outside, NEW r \in Requests, CheckInactive(r) \/ DeleteSession(r)
  PROVE  Outside'
<1>1. AtGate(r) BY DEF CheckInactive, DeleteSession, At, AtGate
<1>2. UNCHANGED <<up, active, idle, ticker, handler>> BY DEF CheckInactive, DeleteSession
<1>3. CASE Release(r) BY <1>1, <1>2, <1>3, ReleaseOutside
<1>4. CASE GoTo(r, "delete") /\ UNCHANGED gate
  <2>1. req'[r].pc = "delete" /\ \A q \in Requests : q # r => req'[q] = req[q] BY <1>4, GoToType
  <2>2. AtGate(r)' BY <2>1 DEF AtGate
  <2>3. \A q \in Requests : InTransit(q)' => InTransit(q) BY <1>2 DEF InTransit
  <2>4. ticker # "stop" BY <1>1, AtTheGate DEF Stopping
  <2> QED BY <1>1, <1>2, <1>4, <2>1, <2>2, <2>3, <2>4, ProxyKept
<1> QED BY <1>3, <1>4 DEF CheckInactive, DeleteSession

\* A request that is counted keeps the ticker waiting
LEMMA CountedKeepsOut == ASSUME Outside, NEW r \in Forwarded PROVE ~Stopping
BY DEF Outside, TickerAlone

LEMMA ArriveOutside ==
  ASSUME TypeOK, Outside, NEW r \in Requests, NEW kind \in Kinds, Arrive(r, kind)
  PROVE  Outside'
<1>1. UNCHANGED <<up, gate, active, idle, ticker, handler, worker, task>> /\ up
  BY DEF Arrive, lifeVars, workVars
<1>2. req[r].pc = "none" /\ req'[r].pc = "gate" /\ \A q \in Requests : q # r => req'[q] = req[q]
  BY DEF Arrive, UnderWay, At, TypeOK
<1>3. ticker = "stop" => Empty' BY <1>1 DEF Outside, TickerAlone, Empty, Handling
<1>4. \A q \in Requests : InTransit(q)' => InTransit(q) BY <1>1 DEF InTransit
<1> QED BY <1>1, <1>2, <1>3, <1>4, ProxyKept

LEMMA LeavingOutside ==
  ASSUME TypeOK, Outside, NEW r \in Requests, SendFails(r) \/ ForgetEndpoint(r)
  PROVE  Outside'
<1>1. UNCHANGED <<up, gate, active, idle, ticker>> BY DEF SendFails, ForgetEndpoint, lifeVars
<1>2. PICK pc \in {"forget", "leave"} : GoTo(r, pc) BY DEF SendFails, ForgetEndpoint
<1>3. req'[r].pc = pc /\ \A q \in Requests : q # r => req'[q] = req[q] BY <1>2, GoToType
<1>4. req[r].pc \in {"sent", "forget", "leave"} BY DEF SendFails, ForgetEndpoint, At
<1>5. ticker # "stop"
  <2>1. r \in Forwarded BY <1>4 DEF Forwarded
  <2> QED BY <2>1, CountedKeepsOut DEF Stopping
<1>6. \A q \in Requests : InTransit(q)' => InTransit(q)
  <2>1. handler' = handler \/ handler' = [handler EXCEPT ![r] = NoHandler]
    BY DEF SendFails, ForgetEndpoint
  <2>2. \A q \in Requests : handler'[q] = handler[q] \/ handler'[q] = NoHandler
    BY <2>1, HandlerSet, NoHandlerType
  <2> QED BY <2>2, NoHandlerType DEF InTransit
<1> QED BY <1>1, <1>3, <1>4, <1>5, <1>6, ProxyKept

LEMMA LeaveOutside ==
  ASSUME TypeOK, Outside, NEW r \in Requests, Leave(r)
  PROVE  Outside'
<1>1. req'[r].pc = "none" /\ \A q \in Requests : q # r => req'[q] = req[q] BY GoToType DEF Leave
<1>2. /\ UNCHANGED <<up, ticker, handler>> /\ active' = active - 1 /\ idle' = FALSE
      /\ req[r].pc = "leave" /\ Free
  BY DEF Leave, At
<1>3. up /\ ~Stopping /\ \A q \in Requests : ~AtGate(q) BY <1>2, GateIsFree
<1>4. \A q \in Requests : ~AtGate(q)' BY <1>1, <1>3 DEF AtGate
<1>5. r \in Forwarded /\ Forwarded' = Forwarded \ {r} BY <1>1, <1>2 DEF Forwarded
<1>6. ~Stopping' /\ up' BY <1>2, <1>3 DEF Stopping
<1>7. Gate' BY <1>4, <1>6 DEF Gate
<1>8. Counted'
  <2>1. Cardinality(Forwarded \ {r}) = Cardinality(Forwarded) - 1 BY <1>5, ForwardedFinite, FS_RemoveElement
  <2> QED BY <1>2, <1>5, <2>1 DEF Outside, Counted
<1>9. OnItsWay' BY <1>2 DEF OnItsWay
<1>10. TickerAlone' BY <1>6 DEF TickerAlone, Stopping
<1> QED BY <1>7, <1>8, <1>9, <1>10 DEF Outside

\* The ticker waits again
LEMMA TickerWaits ==
  ASSUME TypeOK, Outside, ticker' = "wait", up, UNCHANGED <<up, active, req>>, idle' => idle,
         \A r \in Requests : ~AtGate(r), \A r \in Requests : InTransit(r)' => InTransit(r)
  PROVE  Outside'
<1>1. Forwarded' = Forwarded BY DEF Forwarded
<1>2. ~Stopping' /\ \A r \in Requests : ~AtGate(r)' BY DEF Stopping, AtGate
<1>3. Gate' BY <1>2 DEF Gate
<1>4. Counted' /\ OnItsWay' BY <1>1 DEF Outside, Counted, OnItsWay
<1>5. TickerAlone' BY <1>2 DEF TickerAlone, Stopping
<1> QED BY <1>3, <1>4, <1>5 DEF Outside

\* The ticker at work holds the gate alone
LEMMA StoppingIsAlone ==
  ASSUME Outside, Stopping PROVE up /\ \A r \in Requests : ~AtGate(r)
BY DEF Outside, Gate, Stopping

LEMMA TickerOutside ==
  ASSUME TypeOK, Outside,
         Restore \/ StopIdle \/ ReadActivity \/ StopSandbox \/ StopFails \/ IdleElapses
  PROVE  Outside'
<1>1. CASE Restore
  <2>1. Free BY <1>1 DEF Restore
  <2>2. \A r \in Requests : InTransit(r)' => InTransit(r) BY <1>1 DEF Restore, InTransit
  <2> QED BY <1>1, <2>1, <2>2, GateIsFree, TickerWaits DEF Restore
<1>2. CASE StopFails
  <2>1. Stopping BY <1>2 DEF StopFails, Stopping
  <2>2. \A r \in Requests : InTransit(r)' => InTransit(r) BY <1>2 DEF StopFails, InTransit
  <2> QED BY <1>2, <2>1, <2>2, StoppingIsAlone, TickerWaits DEF StopFails
<1>3. CASE StopSandbox
  <2>1. Stopping BY <1>3 DEF StopSandbox, Stopping
  <2>2. \A r \in Requests : ~InTransit(r)' BY <1>3, KilledType, NoHandlerType DEF StopSandbox, InTransit
  <2> QED BY <1>3, <2>1, <2>2, StoppingIsAlone, TickerWaits DEF StopSandbox
<1>4. CASE ReadActivity
  <2>0. Stopping /\ UNCHANGED <<up, active, req, handler, task, worker>>
    BY <1>4 DEF ReadActivity, Stopping, workVars
  <2>1. CASE Reachable /\ Activity = 0
    <3>1. ticker' = "stop" /\ UNCHANGED <<gate, idle>> BY <1>4, <2>1 DEF ReadActivity
    <3>2. Empty' BY <2>0, <2>1, ActivityIsZero DEF Empty, Handling
    <3>3. Forwarded' = Forwarded /\ \A r \in Requests : AtGate(r)' <=> AtGate(r)
      BY <2>0 DEF Forwarded, AtGate
    <3>4. \A r \in Requests : ~AtGate(r) /\ up BY <2>0, StoppingIsAlone
    <3>5. Gate' BY <2>0, <3>1, <3>3, <3>4, StoppingIsAlone DEF Outside, Gate
    <3>6. Counted' /\ OnItsWay' BY <2>0, <3>1, <3>3 DEF Outside, Counted, OnItsWay, InTransit
    <3>7. TickerAlone' BY <2>0, <3>2, <3>3 DEF Outside, TickerAlone, InTransit
    <3> QED BY <3>5, <3>6, <3>7 DEF Outside
  <2>2. CASE ~(Reachable /\ Activity = 0)
    <3>1. ticker' = "wait" /\ (idle' => idle) BY <1>4, <2>2 DEF ReadActivity
    <3>2. \A r \in Requests : InTransit(r)' => InTransit(r) BY <2>0 DEF InTransit
    <3> QED BY <2>0, <3>1, <3>2, StoppingIsAlone, TickerWaits
  <2> QED BY <2>1, <2>2
<1>5. CASE StopIdle
  <2>1. /\ Free /\ active = 0 /\ idle /\ gate' = "held" /\ ticker' = "activity"
        /\ UNCHANGED <<up, active, idle, req, handler>>
    BY <1>5 DEF StopIdle
  <2>2. up /\ \A r \in Requests : ~AtGate(r) BY <2>1, GateIsFree
  <2>3. Forwarded = {} BY <2>1, ForwardedFinite, FS_EmptySet DEF Outside, Counted
  <2>4. \A r \in Requests : ~InTransit(r) BY <2>1, <2>2, <2>3 DEF Outside, OnItsWay
  <2>5. Forwarded' = Forwarded /\ \A r \in Requests : ~AtGate(r)' /\ ~InTransit(r)'
    BY <2>1, <2>2, <2>4 DEF Forwarded, AtGate, InTransit
  <2>6. Gate' BY <2>1, <2>2, <2>5 DEF Gate
  <2>7. Counted' BY <2>1, <2>5 DEF Outside, Counted
  <2>8. OnItsWay' /\ TickerAlone' BY <2>1, <2>3, <2>5 DEF OnItsWay, TickerAlone
  <2> QED BY <2>6, <2>7, <2>8 DEF Outside
<1>6. CASE IdleElapses
  <2>1. UNCHANGED <<up, gate, active, ticker, req, handler, task, worker>>
        /\ \A r \in Requests : ~InTransit(r)
    BY <1>6 DEF IdleElapses, workVars, InTransit
  <2>2. Forwarded' = Forwarded /\ \A r \in Requests : ~InTransit(r)' BY <2>1 DEF Forwarded, InTransit
  <2>3. Gate' BY <2>1 DEF Outside, Gate, AtGate, Stopping, At
  <2>4. Counted' BY <2>1, <2>2 DEF Outside, Counted
  <2>5. OnItsWay' BY <2>2 DEF OnItsWay
  <2>6. TickerAlone' BY <2>1, <2>2 DEF Outside, TickerAlone, Stopping, Empty, Handling
  <2> QED BY <2>3, <2>4, <2>5, <2>6 DEF Outside
<1> QED BY <1>1, <1>2, <1>3, <1>4, <1>5, <1>6

LEMMA ProxyOutside ==
  ASSUME TypeOK, Outside, ProxyEnds \/ ProxyRestarts
  PROVE  Outside'
<1>1. CASE ProxyEnds
  <2>1. \A r \in Requests : req'[r].pc = "none"
    <3>1. req \in [Requests -> Request] BY DEF TypeOK
    <3> QED BY <1>1, <3>1 DEF ProxyEnds, Request
  <2>2. Forwarded' = {} BY <2>1 DEF Forwarded
  <2>3. active' = 0 /\ ~up' /\ ticker' = "restore" BY <1>1 DEF ProxyEnds
  <2>4. Gate' BY <2>1, <2>3 DEF Gate, AtGate, Stopping, At
  <2>5. Counted' BY <2>2, <2>3, FS_EmptySet DEF Counted
  <2>6. OnItsWay' /\ TickerAlone' BY <2>3 DEF OnItsWay, TickerAlone, Stopping
  <2> QED BY <2>4, <2>5, <2>6 DEF Outside
<1>2. CASE ProxyRestarts
  <2>1. ~up /\ up' /\ ~idle' /\ UNCHANGED <<gate, active, ticker, req, handler, task, worker>>
    BY <1>2 DEF ProxyRestarts, workVars
  <2>2. Forwarded' = Forwarded BY <2>1 DEF Forwarded
  <2>3. ticker' = "restore" /\ \A r \in Requests : req'[r].pc = "none"
    BY <2>1 DEF Outside, Gate, At
  <2>4. Gate' BY <2>1, <2>3 DEF Gate, AtGate, Stopping
  <2>5. Counted' BY <2>1, <2>2 DEF Outside, Counted
  <2>6. OnItsWay' /\ TickerAlone' BY <2>1, <2>3 DEF OnItsWay, TickerAlone, Stopping
  <2> QED BY <2>4, <2>5, <2>6 DEF Outside
<1> QED BY <1>1, <1>2

\* What happens in the sandbox is no business of the gate
LEMMA CloudOutside ==
  ASSUME TypeOK, Outside, BoxReady \/ CloudStarts \/ CloudBoots \/ BootFails \/ ExternalStop \/ TaskEnds
  PROVE  Outside'
<1>1. UNCHANGED <<up, gate, active, idle, ticker, req>>
  BY DEF BoxReady, CloudStarts, CloudBoots, BootFails, ExternalStop, TaskEnds
<1>2. CASE Killed
  <2>1. Empty' BY <1>2, KilledType, NoHandlerType DEF Empty, Handling
  <2>2. \A r \in Requests : ~InTransit(r)' BY <1>2, KilledType, NoHandlerType DEF InTransit
  <2> QED BY <1>1, <2>1, <2>2, ProxyKept
<1>3. CASE UNCHANGED <<handler, worker>> /\ (task' => task)
  <2>1. ticker = "stop" => Empty' BY <1>3 DEF Outside, TickerAlone, Empty, Handling
  <2>2. \A r \in Requests : InTransit(r)' => InTransit(r) BY <1>3 DEF InTransit
  <2> QED BY <1>1, <2>1, <2>2, ProxyKept
<1> QED BY <1>2, <1>3 DEF BoxReady, CloudStarts, CloudBoots, BootFails, ExternalStop, TaskEnds, workVars

LEMMA HandlersOutside ==
  ASSUME TypeOK, Outside, NEW r \in Requests,
         \/ Accept(r) \/ Vanish(r) \/ HandleControl(r) \/ CreateFails(r) \/ HandleChat(r) \/ HandleEvaluate(r)
         \/ CreateEvaluationJob(r) \/ PrepareEvaluation(r) \/ Settle(r)
  PROVE  Outside'
<1> USE DEF lifeVars
<1>1. UNCHANGED <<up, gate, active, idle, ticker>>
  BY DEF Accept, Vanish, HandleControl, CreateFails, HandleChat, HandleEvaluate, CreateEvaluationJob, PrepareEvaluation, Settle
<1>2. handler[r].pc # "none"
  BY DEF Accept, Vanish, HandleControl, CreateFails, HandleChat, HandleEvaluate, CreateEvaluationJob, PrepareEvaluation, Settle
<1>3. ticker # "stop"
  BY <1>2 DEF Outside, TickerAlone, Stopping, Empty, Handling, InTransit
<1>4. CASE Answer(r)
  <2>1. \A q \in Requests : InTransit(q)' => InTransit(q)
    BY <1>4, AnswerType, NoHandlerType DEF InTransit
  <2>2. \A q \in Requests : req'[q].pc = req[q].pc \/ (req[q].pc = "sent" /\ req'[q].pc = "leave")
    BY <1>4, AnswerType DEF At
  <2> QED BY <1>1, <1>3, <2>1, <2>2, ProxyKept
<1>5. CASE ~Answer(r)
  <2>1. req' = req
    BY <1>5 DEF Accept, Vanish, HandleControl, CreateFails, HandleChat, HandleEvaluate, CreateEvaluationJob, PrepareEvaluation, Settle
  <2>2. \A q \in Requests : InTransit(q)' => InTransit(q)
    <3>1. CASE Accept(r)
      <4>1. req[r] \in Request BY DEF TypeOK
      <4>2. req[r].kind \in Kinds \cup {"none", "transit", "create", "prepare", "settle"} /\ req[r].kind # "transit"
        BY <4>1 DEF Request, Kinds
      <4> QED BY <3>1, <4>2, HandlerMoves DEF Accept, InTransit
    <3>2. CASE Vanish(r) BY <3>2, HandlerSet, NoHandlerType DEF Vanish, InTransit
    <3>3. CASE HandleEvaluate(r)
      <4>1. handler' = [handler EXCEPT ![r].pc = "create"] BY <1>5, <3>3 DEF HandleEvaluate
      <4> QED BY <4>1, HandlerMoves DEF InTransit
    <3>4. CASE CreateEvaluationJob(r) BY <3>4, CreateType DEF InTransit
    <3>5. CASE PrepareEvaluation(r)
      <4>1. handler' = [handler EXCEPT ![r].pc = "settle"] BY <1>5, <3>5 DEF PrepareEvaluation
      <4> QED BY <4>1, HandlerMoves DEF InTransit
    <3> QED BY <1>5, <3>1, <3>2, <3>3, <3>4, <3>5 DEF HandleControl, CreateFails, HandleChat, Settle
  <2> QED BY <1>1, <1>3, <2>1, <2>2, ProxyKept
<1> QED BY <1>4, <1>5

LEMMA WorkersOutside ==
  ASSUME TypeOK, Outside, (\E j \in Jobs : WorkerStep(j)) \/ (\E w \in late : DeliverLate(w))
  PROVE  Outside'
<1> USE DEF lifeVars
<1>1. UNCHANGED <<up, gate, active, idle, ticker, req, handler, task>>
  BY DEF WorkerStep, WorkerStarts, WriteReport, WorkerSucceeds, WorkerFails, DeliverLate
<1>2. ticker # "stop" \/ worker' = worker
  BY DEF Outside, TickerAlone, Empty, WorkerStep, WorkerStarts, WriteReport, WorkerSucceeds, WorkerFails, DeliverLate
<1>3. ticker = "stop" => Empty' BY <1>1, <1>2 DEF Outside, TickerAlone, Empty, Handling
<1>4. \A r \in Requests : InTransit(r)' => InTransit(r) BY <1>1 DEF InTransit
<1> QED BY <1>1, <1>3, <1>4, ProxyKept

-----------------------------------------------------------------------------
(***************************************************************************)
(* The theorems                                                            *)
(***************************************************************************)
LEMMA RequestKeeps ==
  ASSUME IInv, NEW r \in Requests, RequestStep(r) \/ Vanish(r) \/ \E kind \in Kinds : Arrive(r, kind)
  PROVE  IInv'
<1> USE DEF IInv
<1>0. Counted /\ Creations BY DEF Outside, Inside
<1>1. CASE \E kind \in Kinds : Arrive(r, kind)
  BY <1>0, <1>1, RequestTypes, RequestInside, ArriveOutside
<1>2. CASE Lock(r) BY <1>0, <1>2, RequestTypes, RequestInside, LockOutside
<1>3. CASE Ensure(r) \/ WaitReady(r) \/ Healthy(r) \/ EnsureFails(r)
  BY <1>0, <1>3, RequestTypes, RequestInside, EnsureOutside
<1>4. CASE SendFails(r) \/ ForgetEndpoint(r)
  BY <1>0, <1>4, RequestTypes, RequestInside, LeavingOutside
<1>5. CASE Leave(r) BY <1>0, <1>5, RequestTypes, RequestInside, LeaveOutside
<1>6. CASE CheckInactive(r) BY <1>0, <1>6, RequestTypes, RecoveryInside, DeletionOutside
<1>7. CASE DeleteSession(r) BY <1>0, <1>7, RequestTypes, TaskStepsInside, DeletionOutside
<1>8. CASE Accept(r) \/ Vanish(r) \/ HandleControl(r) \/ CreateFails(r)
  BY <1>0, <1>8, HandlerTypes, HandlersInside, HandlersOutside
<1>9. CASE HandleChat(r) BY <1>0, <1>9, HandlerTypes, TaskStepsInside, HandlersOutside
<1>10. CASE HandleEvaluate(r) BY <1>0, <1>10, HandlerTypes, EvaluateInside, HandlersOutside
<1>11. CASE CreateEvaluationJob(r) BY <1>0, <1>11, HandlerTypes, CreateInside, HandlersOutside
<1>12. CASE PrepareEvaluation(r) BY <1>0, <1>12, HandlerTypes, PrepareInside, HandlersOutside
<1>13. CASE Settle(r) BY <1>0, <1>13, HandlerTypes, SettleInside, HandlersOutside
<1> QED BY <1>1, <1>2, <1>3, <1>4, <1>5, <1>6, <1>7, <1>8, <1>9, <1>10, <1>11, <1>12, <1>13 DEF RequestStep

LEMMA NextKeeps == ASSUME IInv, [Next]_vars PROVE IInv'
<1> USE DEF IInv
<1>0. TickerAlone BY DEF Outside
<1>1. CASE BoxReady \/ CloudStarts BY <1>1, LifeTypes, ProxyInside, CloudOutside
<1>2. CASE CloudBoots \/ BootFails \/ ExternalStop BY <1>0, <1>2, LifeTypes, StopsInside, CloudOutside
<1>3. CASE Restore BY <1>3, LifeTypes, RecoveryInside, TickerOutside
<1>4. CASE StopSandbox BY <1>0, <1>4, LifeTypes, StopsInside, TickerOutside
<1>5. CASE ReadActivity \/ StopIdle \/ StopFails \/ IdleElapses
  BY <1>5, LifeTypes, ProxyInside, TickerOutside
<1>6. CASE ProxyEnds \/ ProxyRestarts BY <1>6, ProxyTypes, ProxyInside, ProxyOutside
<1>7. CASE TaskEnds BY <1>7, ProxyTypes, TaskStepsInside, CloudOutside
<1>8. ASSUME NEW r \in Requests, RequestStep(r) \/ Vanish(r) \/ \E kind \in Kinds : Arrive(r, kind)
      PROVE  IInv'
  BY <1>8, RequestKeeps
<1>9. ASSUME NEW j \in Jobs, WorkerStep(j) PROVE IInv'
  <2>1. CASE WriteReport(j) BY <1>9, <2>1, WorkerTypes, ReportInside, WorkersOutside
  <2>2. CASE ~WriteReport(j) BY <1>9, <2>2, WorkerTypes, WorkersInside, WorkersOutside DEF WorkerStep
  <2> QED BY <2>1, <2>2
<1>10. ASSUME NEW w \in late, DeliverLate(w) PROVE IInv'
  BY <1>10, DeliveryType, DeliveryInside, WorkersOutside
<1>11. CASE UNCHANGED vars
  <2> USE DEF vars, lifeVars, workVars
  <2>1. TypeOK' BY <1>11 DEF TypeOK
  <2>2. Inside'
    <3>1. IsDown' => cloud' = "down" BY <1>11 DEF Inside, Emptied, IsDown
    <3>2. UNCHANGED workVars /\ handler' = handler /\ cloud' = cloud BY <1>11
    <3> QED BY <3>1, <3>2, WorkKept
  <2>3. Outside'
    <3>1. ticker = "stop" => Empty' BY <1>11 DEF Outside, TickerAlone, Empty, Handling
    <3>2. \A r \in Requests : InTransit(r)' => InTransit(r) BY <1>11 DEF InTransit
    <3>3. UNCHANGED <<up, gate, active, idle, ticker, req>> BY <1>11
    <3> QED BY <3>1, <3>2, <3>3, ProxyKept
  <2> QED BY <2>1, <2>2, <2>3
<1>12. CASE Next
  BY <1>1, <1>2, <1>3, <1>4, <1>5, <1>6, <1>7, <1>8, <1>9, <1>10, <1>12 DEF Next, TickerStep
<1> QED BY <1>11, <1>12

\* The inductive invariant holds in every state of the sandbox and its proxy,
\* with any number of requests, jobs and faults.
THEOREM Inductive == Spec => []IInv
<1>1. IInv /\ [Next]_vars => IInv' BY NextKeeps
<1> QED BY <1>1, InitIInv, PTL DEF Spec

\* Every variable keeps its type; userState.active never goes below zero.
THEOREM TypeCorrect == Spec => []TypeOK
<1>1. IInv => TypeOK BY DEF IInv
<1> QED BY <1>1, Inductive, PTL

\* Nothing works on a deleted session: DELETE /sessions/{id} decides on rows
\* that a running task or evaluation keeps active whatever happens meanwhile.
THEOREM DeletedStaysQuiet == Spec => []DeletedIsQuiet
<1>1. IInv => DeletedIsQuiet BY DEF IInv, Inside, TaskRecorded, Evaluations, DeletedIsQuiet
<1> QED BY <1>1, Inductive, PTL

\* handleCreateEvaluation lets one evaluation of a session run at a time.
THEOREM OnlyOneEvaluates == Spec => []OneEvaluation
<1>1. ASSUME IInv PROVE OneEvaluation
  <2> DEFINE S == {j \in Jobs : Evaluating(j)}
  <2>1. \A i, j \in S : i = j BY <1>1 DEF IInv, Inside, Evaluations
  <2>2. CASE S = {} BY <2>2, FS_EmptySet DEF OneEvaluation
  <2>3. CASE S # {}
    <3>1. PICK j \in S : S = {j} BY <2>1, <2>3
    <3>2. Cardinality(S) = 1 BY <3>1, FS_Singleton
    <3> QED BY <3>2 DEF OneEvaluation
  <2> QED BY <2>2, <2>3
<1>2. IInv => OneEvaluation BY <1>1
<1> QED BY <1>2, Inductive, PTL

\* A job that the evaluation API shows as succeeded has its report.
THEOREM SuccessReported == Spec => []SucceededHasReport
<1>1. IInv => SucceededHasReport BY DEF IInv, Inside, Reported, SucceededHasReport
<1> QED BY <1>1, Inductive, PTL

\* stopIdle kills no work: what it read of the sandbox's activity under the
\* gate is still true when it stops the sandbox.
THEOREM IdleStopHarmless == Spec => StopKillsNoWork
<1>1. IInv =>
        [ticker = "stop" /\ box' = "stopped" /\ box # "stopped" /\ faults' = faults =>
           Activity = 0 /\ \A r \in Requests : ~At(r, "sent")]_vars
  <2> SUFFICES ASSUME IInv, ticker = "stop"
               PROVE  Activity = 0 /\ \A r \in Requests : ~At(r, "sent")
    OBVIOUS
  <2>1. Empty /\ Forwarded = {} BY DEF IInv, Outside, TickerAlone, Stopping
  <2>2. Activity = 0 BY <2>1, ActivityIsZero DEF IInv
  <2>3. \A r \in Requests : ~At(r, "sent") BY <2>1 DEF Forwarded, At
  <2> QED BY <2>2, <2>3
<1> QED BY <1>1, Inductive, PTL DEF StopKillsNoWork
=============================================================================
