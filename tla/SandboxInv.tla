------------------------------ MODULE SandboxInv ------------------------------
(***************************************************************************)
(* The inductive invariant behind the safety properties of Sandbox.        *)
(* Two arguments meet in it.  In the sandbox: a worker's row can only be   *)
(* changed by the worker itself while it evaluates, since recoveries find  *)
(* the sandbox empty (Emptied) and writes without an answer belong to jobs *)
(* that are over (Evaluations).  At the proxy: whoever is counted, on its  *)
(* way or at the gate keeps the idle ticker out (Gate, Counted, OnItsWay), *)
(* so what it read of the activity is still true when it stops.            *)
(***************************************************************************)
EXTENDS Sandbox

Statuses == {"none", "queued", "running", "succeeded", "failed"}

Request == [pc: {"none", "gate", "lookup", "wait", "health", "check", "delete", "sent", "forget", "leave"},
            kind: Kinds \cup {"none"}]
Handler == [pc: Kinds \cup {"none", "transit", "create", "prepare", "settle"}, job: Jobs \cup {0}]

\* Type invariant of the proxy, the sandbox and the rows.
TypeOK ==
  /\ box \in {"none", "stopped", "starting", "ready"} /\ cloud \in {"down", "boot", "up"}
  /\ up \in BOOLEAN /\ gate \in {"free", "held"} /\ endpoint \in BOOLEAN /\ api \in BOOLEAN
  /\ active \in Nat /\ idle \in BOOLEAN /\ ticker \in {"restore", "wait", "activity", "stop"}
  /\ req \in [Requests -> Request] /\ handler \in [Requests -> Handler]
  /\ cut \in [Requests -> BOOLEAN]
  /\ task \in BOOLEAN /\ taskRow \in BOOLEAN /\ deleted \in BOOLEAN
  /\ jobs \in [Jobs -> Statuses] /\ worker \in [Jobs -> {"none", "start", "run", "report", "fail"}]
  /\ reports \in SUBSET Jobs /\ late \in SUBSET (Jobs \X Statuses)
  /\ arrivals \in Nat /\ faults \in Nat

-----------------------------------------------------------------------------
(* In the sandbox.                                                         *)

\* Nothing runs where no process has booted, and none has where the sandbox is
\* down.
Empty == ~task /\ (\A j \in Jobs : worker[j] = "none") /\ (\A r \in Requests : ~Handling(r))
Emptied == (cloud # "up" => Empty) /\ (IsDown => cloud = "down")

\* A running task has an active row and a session.
TaskRecorded == task => taskRow /\ ~deleted

\* The job has a row, or will have one
Known(j) == jobs[j] # "none" \/ <<j, "queued">> \in late
\* Nobody but its holder writes the job's row
Settled(j) == ActiveJob(j) /\ \A s \in Statuses : <<j, s>> \notin late

\* The row of an evaluation under way is active and nobody else's; there is one
\* at a time, of a session that exists.
Evaluations ==
  /\ \A j \in Jobs : Evaluating(j) => Settled(j) /\ ~deleted
  /\ \A i, j \in Jobs : Evaluating(i) /\ Evaluating(j) => i = j
  /\ \A j \in Jobs : worker[j] # "none" => jobs[j] # "none"
  /\ \A j \in Jobs, s \in Statuses : <<j, s>> \in late => Known(j) /\ s # "none"

\* A success, shown, on its way or about to be written, has its report.
Reported ==
  \A j \in Jobs :
    jobs[j] = "succeeded" \/ worker[j] = "report" \/ <<j, "succeeded">> \in late => j \in reports

\* One request at a time creates an evaluation, and then none runs.
Creating(r) == handler[r].pc \in {"create", "prepare", "settle"}
Creations ==
  /\ \A r, q \in Requests : Creating(r) /\ Creating(q) => r = q
  /\ \A r \in Requests : Creating(r) => \A j \in Jobs : ~Evaluating(j)
  /\ \A r \in Requests : handler[r].pc \in {"prepare", "settle"} =>
       handler[r].job \in Jobs /\ worker[handler[r].job] = "none" /\ Known(handler[r].job)
  /\ \A r \in Requests : handler[r].pc = "prepare" => Settled(handler[r].job)

-----------------------------------------------------------------------------
(* At the proxy.                                                           *)

AtGate(r) == req[r].pc \in {"lookup", "wait", "health", "check", "delete"}
Stopping == ticker \in {"activity", "stop"}

\* The gate has one holder.
Gate ==
  /\ \A r \in Requests : AtGate(r) => gate = "held" /\ ~Stopping /\ \A q \in Requests : AtGate(q) => q = r
  /\ Stopping => gate = "held"
  /\ ~up => ticker = "restore" /\ \A r \in Requests : At(r, "none")

\* userState.active counts the requests that were forwarded and have not left.
Forwarded == {r \in Requests : req[r].pc \in {"sent", "forget", "leave"}}
Counted == active = Cardinality(Forwarded)

InTransit(r) == handler[r].pc = "transit"

\* The idle timeout has not passed for a request on its way, unless it is counted.
OnItsWay == up /\ idle => \A r \in Requests : InTransit(r) => r \in Forwarded

\* The ticker at work: nobody is counted or on its way; about to stop the
\* sandbox: nothing runs in it.
TickerAlone ==
  /\ Stopping => Forwarded = {} /\ \A r \in Requests : ~InTransit(r)
  /\ ticker = "stop" => Empty

\* The inductive invariant: the sandbox's work and the proxy's view of it agree.
Inside == Emptied /\ TaskRecorded /\ Evaluations /\ Reported /\ Creations
Outside == Gate /\ Counted /\ OnItsWay /\ TickerAlone
IInv == TypeOK /\ Inside /\ Outside
=============================================================================
