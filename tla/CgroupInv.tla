------------------------------ MODULE CgroupInv ------------------------------
(***************************************************************************)
(* The inductive invariant behind OwnerIsTrue and ChurnIsNotFatal.         *)
(* Docker and /proc are read one after the other while containers come and *)
(* go, so what a scan holds may be out of date.  What stays true of it is  *)
(* stated with starts: a number read for a container is its, or nobody's   *)
(* any more, and was given out before.                                     *)
(***************************************************************************)
EXTENDS CgroupOwners

Roles == {"supervisor", "workload"}
Found == [box: Sandboxes, cgroup: Cgroups, workload: Cgroups]
Scan == [pc: {"idle", "next", "process", "cgroup", "again", "inspect", "remove", "clear"},
         left: SUBSET Sandboxes, box: Sandboxes \cup {"none"}, pids: [Roles -> Pids] \cup {<<>>},
         role: Roles \cup {"none"}, read: (Containers \X Cgroups) \cup {<<>>},
         id: 0 .. MaxStarts, cgid: 0 .. MaxStarts, found: SUBSET Found]

\* Type invariant of the containers, the map and the scan.
TypeOK ==
  /\ start \in [Containers -> 0 .. MaxStarts] /\ pid \in [Containers -> Pids]
  /\ starts \in 0 .. MaxStarts
  /\ owner \in [Cgroups -> Users \cup {"none", "loopback"}]
  /\ up \in BOOLEAN /\ fatal \in {"none", "conflict", "sync", "map"} /\ ready \in BOOLEAN
  /\ bindings \in SUBSET Found /\ scan \in Scan
  /\ faults \in 0 .. MaxFaults /\ crashes \in 0 .. MaxCrashes

\* Starts are numbered once; two processes that live have different ids.
Boxes ==
  /\ \A c \in Containers : start[c] <= starts
  /\ \A c, d \in Containers : Runs(c) /\ start[c] = start[d] => c = d
  /\ \A c, d \in Containers : Runs(c) /\ Runs(d) /\ pid[c] = pid[d] => c = d

\* Start n was given out; who runs as n now is container c; has process id p; does
\* not have it
Given(n) == n \in 1 .. starts
Is(n, c) == Given(n) /\ \A d \in Containers : start[d] = n => d = c
HasPid(n, p) == \A d \in Containers : start[d] = n => pid[d] = p
NotPid(n, p) == \A d \in Containers : start[d] = n => pid[d] # p

\* A cgroup that does not exist yet has no owner.
Unborn == \A g \in Cgroups : g > starts => owner[g] = "none"

\* guardedCgroup is at work on container scan.role of sandbox scan.box
Looking == scan.pc \in {"process", "cgroup", "again", "inspect"}

Numbers(b) == {b.cgroup, b.workload}

\* A result names its containers' own cgroups, no two results name the same one,
\* and a sandbox that has a result is not looked at again.
ResultsTrue ==
  /\ \A b \in scan.found :
       /\ Is(b.cgroup, <<b.box, "supervisor">>) /\ Is(b.workload, <<b.box, "workload">>)
       /\ b.cgroup # b.workload /\ b.box \notin scan.left
  /\ \A b, e \in scan.found : b # e => Numbers(b) \cap Numbers(e) = {}

\* guardedCgroup holds the process ids of two containers that ran at the same
\* time, after every earlier result was read.
TwoProcesses ==
  /\ scan.box \in Sandboxes \ scan.left /\ scan.role \in Roles /\ scan.pids \in [Roles -> Pids]
  /\ scan.pids["supervisor"] # scan.pids["workload"]
  /\ \A b \in scan.found, n \in Cgroups, r \in Roles : n \in Numbers(b) => NotPid(n, scan.pids[r])

\* The supervisor's cgroup, which is read first, is the supervisor's.
SupervisorRead ==
  scan.role = "workload" =>
    /\ Is(scan.cgid, <<scan.box, "supervisor">>) /\ NotPid(scan.cgid, scan.pids["workload"])
    /\ \A b \in scan.found : scan.cgid \notin Numbers(b)

\* The process read may be any container's; the cgroup at its path is that
\* container's, though perhaps of a later start.
ProcessRead ==
  scan.pc \in {"cgroup", "again"} =>
    scan.read \in Containers \X Cgroups /\ Is(scan.read[2], scan.read[1])

CgroupRead ==
  scan.pc = "again" =>
    /\ Is(scan.id, scan.read[1])
    /\ start[scan.read[1]] = scan.read[2] => scan.id = scan.read[2]

\* Seen twice, the process had the cgroup that was read in between.
ProcessSeenAgain ==
  scan.pc = "inspect" =>
    /\ Given(scan.id) /\ HasPid(scan.id, scan.pids[scan.role])
    /\ \A b \in scan.found : scan.id \notin Numbers(b)
    /\ scan.role = "workload" => scan.id # scan.cgid

Reading == Looking => TwoProcesses /\ SupervisorRead /\ ProcessRead /\ CgroupRead /\ ProcessSeenAgain

\* The inductive invariant: whatever the containers do between two reads, the
\* scan's results are the cgroups of the containers they are recorded for.
IInv ==
  /\ TypeOK /\ Boxes /\ Unborn /\ OwnerIsTrue /\ ChurnIsNotFatal
  /\ ResultsTrue /\ Reading
=============================================================================
