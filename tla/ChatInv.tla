------------------------------- MODULE ChatInv -------------------------------
(***************************************************************************)
(* The inductive invariant behind the safety properties of ChatTasks.      *)
(* They are not inductive by themselves.  That the table never calls a     *)
(* running task finished rests on where unanswered writes may come from    *)
(* (LateWrites); that a snapshot is alone in its project rests on who      *)
(* holds the project's lock (ProjectHeld); that a final event can be       *)
(* replayed rests on the stored events of a session's last task having no  *)
(* gap, while publishes without an answer are outstanding (Stored).        *)
(***************************************************************************)
EXTENDS ChatTasks

HasRow(t) == rows[t].status # "none"
\* No later task of the session
Latest(t) == \A u \in TaskID : u > t => rows[u].session # rows[t].session

\* Rows of the table are numbered without gaps and belong to sessions.
Rows ==
  \A t \in TaskID :
    /\ ~HasRow(t) => rows[t] = NoRow
    /\ HasRow(t) => rows[t].session \in Sessions /\ \A u \in 1 .. t - 1 : HasRow(u)

\* The unique index one_active_task_per_project
OneActive ==
  \A t, u \in TaskID :
    Active(rows[t]) /\ Active(rows[u]) /\ ProjectOf[rows[t].session] = ProjectOf[rows[u].session]
      => t = u

\* Nothing runs before the recovery is over.
Quiet ==
  proc \in {"down", "recovering"} =>
    /\ req = NoRequest /\ snapshot = NoSnapshot /\ unacked = {}
    /\ run = [t \in TaskID |-> NoGoroutine]

\* Nothing is known of a task without a row.
Unborn ==
  \A t \in TaskID : ~HasRow(t) =>
    /\ run[t] = NoGoroutine /\ events[t] = {} /\ resumed[t] = 0
    /\ \A e \in EventID : <<t, e>> \notin unacked

InRequest == req.pc \in {"check", "lockSession", "lockProject", "create"}
SessionsNamed ==
  /\ InRequest => req.session \in Sessions
  /\ snapshot.pc # "none" => snapshot.session \in Sessions

\* Who holds the lock of project p: a goroutine until it unlocks, a request
\* that creates its task, a snapshot being copied
HoldsProject(t, p) ==
  run[t].pc \in Working \cup {"unlockProject"} /\ ProjectOf[rows[t].session] = p
Creating(p) == req.pc = "create" /\ ProjectOf[req.session] = p

ProjectHeld ==
  \A p \in Projects :
    /\ Creating(p) \/ Copying(p) => p \in projectLocks
    /\ ~(Creating(p) /\ Copying(p))
    /\ \A t \in TaskID : HoldsProject(t, p) =>
         /\ p \in projectLocks /\ ~Creating(p) /\ ~Copying(p)
         /\ \A u \in TaskID : HoldsProject(u, p) => t = u

\* A write on its way no longer concerns a running goroutine.
LateWrites ==
  \A w \in late :
    /\ w.op = "create" => w.session \in Sessions
    /\ w.op = "start" => w.task \in TaskID
    /\ w.op = "finish" =>
         /\ w.task \in TaskID /\ HasRow(w.task) /\ Terminal(w) /\ run[w.task].pc \notin Working
         /\ Latest(w.task) => 1 .. w.final \subseteq events[w.task]

\* The stored events of the last task of a session have no gap.
Stored ==
  \A t \in TaskID : HasRow(t) /\ Latest(t) =>
    /\ \A e \in events[t] : 1 .. e \subseteq events[t]
    /\ 1 .. run[t].lastID \subseteq events[t]
    /\ \A e \in EventID : <<t, e>> \in unacked => 1 .. e - 1 \subseteq events[t]
    /\ Terminal(rows[t]) => 1 .. rows[t].final \subseteq events[t]

\* The loop of the recovery still has before it what it must close.
Recovering ==
  proc = "recovering" =>
    /\ \A t \in recovery.active : HasRow(t)
    /\ \A t \in TaskID : Active(rows[t]) /\ t \notin orphans =>
         t \in recovery.active /\ t <= recovery.next

\* What a subscriber knows of its task
Followed ==
  \A i \in Subscribers :
    /\ subs[i].pc \in {"reading", "state"} =>
         /\ subs[i].task \in TaskID /\ HasRow(subs[i].task) /\ subs[i].status # "none"
         /\ ~Active(subs[i]) => /\ subs[i].status = rows[subs[i].task].status
                                /\ subs[i].final = rows[subs[i].task].final
    /\ subs[i].pc = "state" => Complete(subs[i])

\* A task that was continued has a later one in its session; the task a
\* request is about to continue has not been continued.
Resumptions ==
  /\ \A t \in TaskID : resumed[t] # 0 =>
       resumed[t] < t /\ HasRow(t) /\ rows[resumed[t]].session = rows[t].session
  /\ InRequest /\ req.task # 0 =>
       /\ HasRow(req.task) /\ rows[req.task].session = req.session
       /\ \A t \in TaskID : resumed[t] # req.task

\* The inductive invariant: the table, the goroutines, the locks, the event
\* stream, its readers and the writes still on their way agree at every step.
IInv ==
  /\ TypeOK /\ Rows /\ OneActive /\ Quiet /\ Unborn /\ SessionsNamed
  /\ RunnerIsRecorded /\ ProjectHeld /\ LateWrites /\ Stored
  /\ NoSilentOrphan /\ Recovering /\ Followed /\ Resumptions /\ ResumedOnce
=============================================================================
