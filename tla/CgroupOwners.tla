----------------------------- MODULE CgroupOwners -----------------------------
(***************************************************************************)
(* How the quota manager finds out whose traffic a cgroup carries: it      *)
(* lists the containers of the sandboxes, reads the processes behind them  *)
(* and publishes cgroup -> user in the pinned map cgroup_owner that the    *)
(* traffic guard reads.  Containers stop and start while it looks, and     *)
(* process ids are reused.                                                 *)
(*                                                                         *)
(* A start of a container is numbered: the number stands for the process   *)
(* start time and for the cgroup's id, which the kernel does not reuse.    *)
(***************************************************************************)
EXTENDS Naturals, FiniteSets

CONSTANTS
  Sandboxes,
  UserOf,      \* the user named by the bind mount of a sandbox's workload
  Pids,        \* process ids
  MaxStarts,   \* starts of containers, at most
  MaxFaults,   \* failing Docker requests and map operations, at most
  MaxCrashes   \* restarts of the manager, at most

Containers == Sandboxes \X {"supervisor", "workload"}
Users == {UserOf[s] : s \in Sandboxes}
Cgroups == 1..MaxStarts

ASSUME CgroupAssumption ==
  /\ IsFiniteSet(Pids) /\ Cardinality(Pids) >= Cardinality(Containers)
  /\ MaxStarts \in Nat /\ MaxStarts >= Cardinality(Containers)
  /\ MaxFaults \in Nat /\ MaxCrashes \in Nat
  /\ {"none", "loopback"} \cap Users = {} /\ IsFiniteSet(Sandboxes)

VARIABLES
  start,     \* the current start of a container, 0 when it does not run
  pid,       \* its process id
  starts,    \* starts so far
  owner,     \* map cgroup_owner: a user, "loopback" (user 0) or "none"
  up,        \* the manager runs
  fatal,     \* manager.fatal: "none" or why the guard was disabled
  ready,     \* manager.ready
  bindings,  \* manager.bindings: the cgroups of each bound sandbox
  scan,      \* the reconcile that holds scanMu
  faults, crashes

boxVars == <<start, pid, starts>>
vars == <<boxVars, owner, up, fatal, ready, bindings, scan, faults, crashes>>

\* left: sandboxes not yet looked at; box, pids: the one being looked at;
\* role, read, id: the container whose cgroup is being read; cgid: the cgroup of
\* its supervisor, once known; found: results.
NoScan == [pc |-> "idle", left |-> {}, box |-> "none", pids |-> <<>>, role |-> "none", read |-> <<>>,
           id |-> 0, cgid |-> 0, found |-> {}]

Init ==
  /\ start = CHOOSE o \in [Containers -> 1..Cardinality(Containers)] : \A c, d \in Containers : o[c] = o[d] => c = d
  /\ pid = CHOOSE p \in [Containers -> Pids] : \A c, d \in Containers : p[c] = p[d] => c = d
  /\ starts = Cardinality(Containers)
  /\ owner = [g \in Cgroups |-> "none"]
  /\ up = TRUE /\ fatal = "none" /\ ready = FALSE /\ bindings = {} /\ scan = NoScan
  /\ faults = 0 /\ crashes = 0

Runs(c) == start[c] # 0
-----------------------------------------------------------------------------
(* Containers.                                                             *)

Stop(c) ==
  /\ Runs(c)
  /\ start' = [start EXCEPT ![c] = 0]
  /\ UNCHANGED <<pid, starts, owner, up, fatal, ready, bindings, scan, faults, crashes>>

\* The new process takes any process id that is free.
Start(c) ==
  /\ ~Runs(c) /\ starts < MaxStarts
  /\ starts' = starts + 1
  /\ start' = [start EXCEPT ![c] = starts + 1]
  /\ \E p \in Pids : /\ \A d \in Containers : Runs(d) => pid[d] # p
                     /\ pid' = [pid EXCEPT ![c] = p]
  /\ UNCHANGED <<owner, up, fatal, ready, bindings, scan, faults, crashes>>

-----------------------------------------------------------------------------
(* discover.                                                               *)

At(pc) == up /\ scan.pc = pc
Scanning(next) == scan' = next /\ UNCHANGED <<boxVars, owner, up, fatal, ready, bindings, faults, crashes>>

\* The manager's loop (ticker or Docker event) or an ensure request.
StartScan == At("idle") /\ fatal = "none" /\ Scanning([NoScan EXCEPT !.pc = "next", !.left = Sandboxes])

\* identity, workloadUser and the state of both containers; a sandbox that is
\* not running as a whole is left out.  The two requests are one step: a
\* container that changes between them is caught by guardedCgroup as one that
\* changes after them.
Inspect(s) ==
  /\ At("next") /\ s \in scan.left
  /\ LET rest == [scan EXCEPT !.left = @ \ {s}]
         roles == {"supervisor", "workload"}
     IN Scanning(IF \A r \in roles : Runs(<<s, r>>)
                 THEN [rest EXCEPT !.pc = "process", !.box = s, !.role = "supervisor", !.cgid = 0,
                                   !.pids = [r \in roles |-> pid[<<s, r>>]]]
                 ELSE rest)

\* discover's errors: nothing is known, so everything is unbound first.
Unknown ==
  /\ bindings' = {} /\ ready' = FALSE
  /\ scan' = [NoScan EXCEPT !.pc = "clear"]
  /\ UNCHANGED <<boxVars, owner, up, fatal, crashes>>

Discovering == {"next", "process", "cgroup", "again", "inspect"}

DiscoverFails_Bug ==
  /\ up /\ scan.pc \in Discovering /\ faults < MaxFaults
  /\ faults' = faults + 1
  /\ fatal' = "discover" /\ bindings' = {} /\ ready' = FALSE /\ scan' = NoScan
  /\ UNCHANGED <<boxVars, owner, up, crashes>>

\* A Docker request fails or takes too long, or the client that asked for the
\* scan has gone away.
DiscoverFails ==
  /\ up /\ scan.pc \in Discovering /\ faults < MaxFaults
  /\ faults' = faults + 1
  /\ Unknown

\* processIdentity: whoever has the process id now.
Process(p) == {c \in Containers : Runs(c) /\ pid[c] = p}

\* guardedCgroup reads the process, the cgroup at its path, the process again
\* and the container again.
ReadProcess ==
  /\ At("process")
  /\ LET seen == Process(scan.pids[scan.role])
     IN \/ \E c \in seen : Scanning([scan EXCEPT !.pc = "cgroup", !.read = <<c, start[c]>>])
        \/ seen = {} /\ Unknown /\ UNCHANGED faults

\* cgroupID of the path, which belongs to the container.
ReadCgroup ==
  /\ At("cgroup")
  /\ LET c == scan.read[1]
     IN \/ Runs(c) /\ Scanning([scan EXCEPT !.pc = "again", !.id = start[c]])
        \/ ~Runs(c) /\ Unknown /\ UNCHANGED faults

ReadProcessAgain ==
  /\ At("again")
  /\ LET same == \E c \in Process(scan.pids[scan.role]) : scan.read = <<c, start[c]>>
     IN \/ same /\ Scanning([scan EXCEPT !.pc = "inspect"])
        \/ ~same /\ Unknown /\ UNCHANGED faults

StillRuns(c, p) == Runs(c) /\ pid[c] = p

InspectAgain_Bug ==
  /\ At("inspect")
  /\ Scanning(IF scan.role = "supervisor"
              THEN [scan EXCEPT !.pc = "process", !.role = "workload", !.cgid = scan.id]
              ELSE [scan EXCEPT !.pc = "next",
                                !.found = @ \cup {[box |-> scan.box, cgroup |-> scan.cgid, workload |-> scan.id]}])

InspectAgain ==
  /\ At("inspect")
  /\ LET c == <<scan.box, scan.role>>
         found == [box |-> scan.box, cgroup |-> scan.cgid, workload |-> scan.id]
     IN \/ /\ StillRuns(c, scan.pids[scan.role]) /\ scan.role = "supervisor"
           /\ Scanning([scan EXCEPT !.pc = "process", !.role = "workload", !.cgid = scan.id])
        \/ /\ StillRuns(c, scan.pids[scan.role]) /\ scan.role = "workload" /\ scan.cgid # scan.id
           /\ Scanning([scan EXCEPT !.pc = "next", !.found = @ \cup {found}])
        \/ /\ ~StillRuns(c, scan.pids[scan.role]) \/ (scan.role = "workload" /\ scan.cgid = scan.id)
           /\ Unknown /\ UNCHANGED faults

-----------------------------------------------------------------------------
(* reconcile.                                                              *)

\* manager.fail: the first error that disables the guard is the one that is kept.
Disabled(why) == fatal' = (IF fatal = "none" THEN why ELSE fatal) /\ ready' = FALSE

Fail(why) == Disabled(why) /\ scan' = NoScan

Wanted(g) ==
  {UserOf[b.box] : b \in {x \in scan.found : x.cgroup = g}}
    \cup {"loopback" : b \in {x \in scan.found : x.workload = g}}

\* The found cgroups, each with one owner; two owners disable the guard for
\* good.  (ensureUser for each found user is part of QuotaSync.)
Conflict == \E g \in Cgroups : Cardinality(Wanted(g)) > 1 \/ Cardinality({b \in scan.found : b.workload = g}) > 1

Collect ==
  /\ At("next") /\ scan.left = {}
  /\ IF Conflict THEN Fail("conflict") ELSE scan' = [scan EXCEPT !.pc = "remove"] /\ UNCHANGED <<fatal, ready>>
  /\ UNCHANGED <<boxVars, owner, up, bindings, faults, crashes>>

\* The refresh of every second, a refill event or another request fails to
\* synchronise a user: the guard is disabled under a scan, which goes on.
\* discover neither reads nor writes what that changes, so a failure during
\* discover is taken at its end.
SyncFails ==
  /\ up /\ fatal = "none" /\ scan.pc \notin Discovering /\ faults < MaxFaults
  /\ faults' = faults + 1
  /\ Disabled("sync")
  /\ UNCHANGED <<boxVars, owner, up, bindings, scan, crashes>>

\* ensureUser fails for a found user: a cancelled or slow request only ends the
\* scan, any other error disables the guard.
EnsureFails ==
  /\ At("next") /\ scan.left = {} /\ scan.found # {} /\ faults < MaxFaults
  /\ faults' = faults + 1
  /\ \/ Fail("sync")
     \/ scan' = NoScan /\ UNCHANGED <<fatal, ready>>
  /\ UNCHANGED <<boxVars, owner, up, bindings, crashes>>

Stale == {g \in Cgroups : owner[g] # "none" /\ owner[g] \notin Wanted(g)}
Missing == {g \in Cgroups : Wanted(g) # {} /\ owner[g] \notin Wanted(g)}

SetOwner(g, u) ==
  /\ owner' = [owner EXCEPT ![g] = u]
  /\ UNCHANGED <<boxVars, up, fatal, ready, bindings, scan, faults, crashes>>

\* Stale entries go first, one by one; then the wanted ones come.
RemoveOwner(g) == At("remove") /\ g \in Stale /\ SetOwner(g, "none")

PublishOwner(g) ==
  /\ At("remove") /\ Stale = {} /\ g \in Missing
  /\ \E u \in Wanted(g) : SetOwner(g, u)

EndScan ==
  /\ At("remove") /\ Stale = {} /\ Missing = {}
  /\ bindings' = scan.found /\ ready' = (fatal = "none")
  /\ scan' = NoScan
  /\ UNCHANGED <<boxVars, owner, up, fatal, faults, crashes>>

ClearOwner(g) == At("clear") /\ owner[g] # "none" /\ SetOwner(g, "none")

EndClear == At("clear") /\ (\A g \in Cgroups : owner[g] = "none") /\ Scanning(NoScan)

\* A map operation fails: manager.fail disables the guard until a restart.
MapFails ==
  /\ up /\ scan.pc \in {"remove", "clear"} /\ faults < MaxFaults
  /\ faults' = faults + 1
  /\ Fail("map")
  /\ UNCHANGED <<boxVars, owner, up, bindings, crashes>>

\* The manager ends; the pinned map stays as it is.
Crash ==
  /\ up /\ crashes < MaxCrashes
  /\ crashes' = crashes + 1
  /\ up' = FALSE /\ fatal' = "none" /\ ready' = FALSE /\ bindings' = {} /\ scan' = NoScan
  /\ UNCHANGED <<boxVars, owner, faults>>

Restart == ~up /\ up' = TRUE /\ UNCHANGED <<boxVars, owner, fatal, ready, bindings, scan, faults, crashes>>

Manager ==
  \/ StartScan \/ ReadProcess \/ ReadCgroup \/ ReadProcessAgain \/ InspectAgain
  \/ Collect \/ EndScan \/ EndClear \/ Restart
  \/ \E s \in Sandboxes : Inspect(s)
  \/ \E g \in Cgroups : RemoveOwner(g) \/ PublishOwner(g) \/ ClearOwner(g)

Next ==
  \/ Manager \/ DiscoverFails \/ SyncFails \/ EnsureFails \/ MapFails \/ Crash
  \/ \E c \in Containers : Stop(c) \/ Start(c)

\* The manager's loop never stops scanning and systemd restarts the manager.
Spec == Init /\ [][Next]_vars /\ WF_vars(Manager)

-----------------------------------------------------------------------------
(* Properties.                                                             *)

\* Traffic is never charged to somebody else: the cgroup of a running
\* container has no owner or its own, however process ids were reused while
\* discover looked.
OwnerIsTrue ==
  \A c \in Containers : Runs(c) =>
    owner[start[c]] \in {"none", IF c[2] = "supervisor" THEN UserOf[c[1]] ELSE "loopback"}

\* Containers that come and go never look like one cgroup with two owners,
\* which would disable the guard until an operator acts.
ChurnIsNotFatal == fatal # "conflict"

Whole(s) == \A r \in {"supervisor", "workload"} : Runs(<<s, r>>)
Bound(s) == owner[start[<<s, "supervisor">>]] = UserOf[s] /\ owner[start[<<s, "workload">>]] = "loopback"

\* A sandbox cut off by a failed discovery, a crash or a restart of its
\* containers is served again as long as it runs; only an error of the map or
\* of the quota synchronisation stops that.
Rebound == \A s \in Sandboxes : Whole(s) ~> ~Whole(s) \/ Bound(s) \/ fatal \in {"map", "sync"}
=============================================================================
