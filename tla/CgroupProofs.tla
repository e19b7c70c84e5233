---------------------------- MODULE CgroupProofs ----------------------------
(***************************************************************************)
(* IInv is an invariant of CgroupOwners, and with it OwnerIsTrue and       *)
(* ChurnIsNotFatal, for every finite set of sandboxes and every number of  *)
(* process ids, starts, failures and crashes.                              *)
(***************************************************************************)
EXTENDS CgroupInv, FiniteSetTheorems, FunctionTheorems, TLAPS

USE DEF boxVars

-----------------------------------------------------------------------------
(***************************************************************************)
(* Starts of containers                                                    *)
(***************************************************************************)
LEMMA ContainersFinite == IsFiniteSet(Containers) /\ Cardinality(Containers) \in Nat
<1>1. IsFiniteSet({"supervisor", "workload"})
  <2>1. IsFiniteSet({"supervisor"} \cup {"workload"}) BY FS_Singleton, FS_AddElement
  <2>2. {"supervisor", "workload"} = {"supervisor"} \cup {"workload"} OBVIOUS
  <2> QED BY <2>1, <2>2
<1>2. IsFiniteSet(Containers) BY <1>1, CgroupAssumption, FS_Product DEF Containers
<1> QED BY <1>2, FS_CardinalityType

\* The containers can be numbered, and there are enough process ids for them
LEMMA FirstStarts ==
  /\ \E o \in [Containers -> 1 .. Cardinality(Containers)] :
       \A c, d \in Containers : o[c] = o[d] => c = d
  /\ \E p \in [Containers -> Pids] : \A c, d \in Containers : p[c] = p[d] => c = d
<1> DEFINE n == Cardinality(Containers)
<1>1. PICK o \in Bijection(Containers, 1 .. n) : TRUE
  BY ContainersFinite, FS_CardinalityType, Fun_ExistsBijSymmetric DEF ExistsBijection
<1>2. o \in [Containers -> 1 .. n] /\ \A c, d \in Containers : o[c] = o[d] => c = d
  BY <1>1 DEF Bijection, Injection, IsInjective
<1> DEFINE m == Cardinality(Pids)
<1>3. PICK q \in Bijection(1 .. m, Pids) : TRUE
  BY CgroupAssumption, FS_CardinalityType DEF ExistsBijection
<1>4. q \in [1 .. m -> Pids] /\ \A i, j \in 1 .. m : q[i] = q[j] => i = j
  BY <1>3 DEF Bijection, Injection, IsInjective
<1>5. n \in Nat /\ m \in Nat /\ n <= m
  BY ContainersFinite, CgroupAssumption, FS_CardinalityType
<1> HIDE DEF n, m
<1>6. 1 .. n \subseteq 1 .. m BY <1>5
<1> DEFINE p == [c \in Containers |-> q[o[c]]]
<1>7. p \in [Containers -> Pids] BY <1>2, <1>4, <1>6
<1>8. \A c, d \in Containers : p[c] = p[d] => c = d BY <1>2, <1>4, <1>6
<1> QED BY <1>2, <1>7, <1>8 DEF n

LEMMA InitIInv == Init => IInv
<1> SUFFICES ASSUME Init PROVE IInv OBVIOUS
<1> USE CgroupAssumption
<1>1. /\ start \in [Containers -> 1 .. Cardinality(Containers)]
      /\ \A c, d \in Containers : start[c] = start[d] => c = d
  BY FirstStarts DEF Init
<1>2. pid \in [Containers -> Pids] /\ \A c, d \in Containers : pid[c] = pid[d] => c = d
  BY FirstStarts DEF Init
<1>3. starts = Cardinality(Containers) /\ starts \in 0 .. MaxStarts /\ 1 .. starts \subseteq 0 .. MaxStarts
  BY ContainersFinite DEF Init
<1>4. scan \in Scan /\ scan.found = {} /\ scan.pc = "idle" BY DEF Init, NoScan, Scan
<1>5. TypeOK
  <2>1. start \in [Containers -> 0 .. MaxStarts] BY <1>1, <1>3
  <2>2. owner \in [Cgroups -> Users \cup {"none", "loopback"}] BY DEF Init
  <2>3. up \in BOOLEAN /\ ready \in BOOLEAN /\ fatal \in {"none", "conflict", "sync", "map"}
    BY DEF Init
  <2>4. bindings \in SUBSET Found /\ faults \in 0 .. MaxFaults /\ crashes \in 0 .. MaxCrashes
    BY DEF Init
  <2> QED BY <1>2, <1>3, <1>4, <2>1, <2>2, <2>3, <2>4 DEF TypeOK
<1>6. Boxes BY <1>1, <1>2, <1>3 DEF Boxes
<1>7. Unborn /\ OwnerIsTrue /\ ChurnIsNotFatal
  <2>1. \A g \in Cgroups : owner[g] = "none" BY DEF Init
  <2>2. \A c \in Containers : start[c] \in Cgroups BY <1>1, <1>3 DEF Cgroups
  <2> QED BY <2>1, <2>2 DEF Init, Unborn, OwnerIsTrue, ChurnIsNotFatal
<1>8. ResultsTrue /\ Reading BY <1>4 DEF ResultsTrue, Reading, Looking
<1> QED BY <1>5, <1>6, <1>7, <1>8 DEF IInv

\* What is said of a start stays true when containers stop and start
BoxStep ==
  \A n : Given(n) => /\ Given(n)'
                     /\ \A d \in Containers : start'[d] = n => start[d] = n /\ pid'[d] = pid[d]

LEMMA Lasting ==
  ASSUME BoxStep, NEW n, Given(n)
  PROVE  /\ Given(n)' /\ \A c : Is(n, c) => Is(n, c)'
         /\ \A p : (HasPid(n, p) => HasPid(n, p)') /\ (NotPid(n, p) => NotPid(n, p)')
BY DEF BoxStep, Is, HasPid, NotPid

LEMMA StepsOfBoxes ==
  ASSUME TypeOK, Boxes,
         UNCHANGED boxVars \/ \E c \in Containers : Stop(c) \/ Start(c)
  PROVE  BoxStep
<1>0. start \in [Containers -> 0 .. MaxStarts] /\ pid \in [Containers -> Pids] /\ starts \in Nat
  BY CgroupAssumption DEF TypeOK
<1>1. CASE UNCHANGED boxVars BY <1>1 DEF BoxStep, Given
<1>2. ASSUME NEW c \in Containers, Stop(c) PROVE BoxStep
  BY <1>0, <1>2 DEF Stop, BoxStep, Given
<1>3. ASSUME NEW c \in Containers, Start(c) PROVE BoxStep
  BY <1>0, <1>3 DEF Start, BoxStep, Given
<1> QED BY <1>1, <1>2, <1>3

\* A step that leaves the scan alone keeps what the scan knows
LEMMA ScanKept ==
  ASSUME IInv, BoxStep, scan' = scan PROVE ResultsTrue' /\ Reading'
<1>0. \A b \in scan.found : b.cgroup \in Cgroups /\ b.workload \in Cgroups
  BY DEF IInv, TypeOK, Scan, Found
<1>1. \A b \in scan.found : Given(b.cgroup) /\ Given(b.workload) BY DEF IInv, ResultsTrue, Is
<1>2. ResultsTrue' BY <1>1, Lasting DEF IInv, ResultsTrue, Numbers
<1>3. CASE ~Looking
  <2>1. ~Looking' BY <1>3 DEF Looking
  <2> QED BY <1>2, <2>1 DEF Reading
<1>4. CASE Looking
  <2>0. TwoProcesses /\ SupervisorRead /\ ProcessRead /\ CgroupRead /\ ProcessSeenAgain
    BY <1>4 DEF IInv, Reading
  <2>1. TwoProcesses'
    <3>1. ASSUME NEW b \in scan.found, NEW n \in Cgroups, NEW r \in Roles, n \in Numbers(b)
          PROVE  NotPid(n, scan.pids[r])'
      <4>1. Given(n) /\ NotPid(n, scan.pids[r]) BY <1>1, <2>0, <3>1 DEF TwoProcesses, Numbers
      <4> QED BY <4>1, Lasting
    <3> QED BY <2>0, <3>1 DEF TwoProcesses, Numbers
  <2>2. SupervisorRead'
    <3>1. scan.role = "workload" =>
            /\ Given(scan.cgid) /\ Is(scan.cgid, <<scan.box, "supervisor">>)
            /\ NotPid(scan.cgid, scan.pids["workload"])
      BY <2>0 DEF SupervisorRead, Is
    <3>2. scan.role = "workload" =>
            Is(scan.cgid, <<scan.box, "supervisor">>)' /\ NotPid(scan.cgid, scan.pids["workload"])'
      BY <3>1, Lasting
    <3> QED BY <2>0, <3>2 DEF SupervisorRead, Numbers
  <2>3. ProcessRead'
    <3>1. scan.pc \in {"cgroup", "again"} => Given(scan.read[2]) /\ Is(scan.read[2], scan.read[1])
      BY <2>0 DEF ProcessRead, Is
    <3>2. scan.pc \in {"cgroup", "again"} => Is(scan.read[2], scan.read[1])' BY <3>1, Lasting
    <3> QED BY <2>0, <3>2 DEF ProcessRead
  <2>4. CgroupRead'
    <3>1. scan.pc = "again" =>
            /\ Given(scan.id) /\ Is(scan.id, scan.read[1]) /\ Given(scan.read[2])
            /\ scan.read[1] \in Containers
            /\ start[scan.read[1]] = scan.read[2] => scan.id = scan.read[2]
      BY <2>0 DEF ProcessRead, CgroupRead, Is
    <3>2. scan.pc = "again" /\ start'[scan.read[1]] = scan.read[2] => start[scan.read[1]] = scan.read[2]
      BY <3>1 DEF BoxStep
    <3>3. scan.pc = "again" => Is(scan.id, scan.read[1])' BY <3>1, Lasting
    <3> QED BY <3>1, <3>2, <3>3 DEF CgroupRead
  <2>5. ProcessSeenAgain'
    <3>1. scan.pc = "inspect" => Given(scan.id) /\ HasPid(scan.id, scan.pids[scan.role])
      BY <2>0 DEF ProcessSeenAgain
    <3>2. scan.pc = "inspect" => Given(scan.id)' /\ HasPid(scan.id, scan.pids[scan.role])'
      BY <3>1, Lasting
    <3> QED BY <2>0, <3>2 DEF ProcessSeenAgain, Numbers
  <2> QED BY <1>2, <2>1, <2>2, <2>3, <2>4, <2>5 DEF Reading
<1> QED BY <1>3, <1>4

LEMMA StopKeeps == ASSUME IInv, NEW c \in Containers, Stop(c) PROVE IInv'
<1>0. TypeOK /\ Boxes BY DEF IInv
<1>1. ResultsTrue' /\ Reading' BY <1>0, StepsOfBoxes, ScanKept DEF Stop
<1>2. start \in [Containers -> 0 .. MaxStarts] BY DEF IInv, TypeOK
<1>3. TypeOK' BY <1>2, CgroupAssumption DEF IInv, TypeOK, Stop
<1>4. Boxes' BY <1>2, CgroupAssumption DEF IInv, TypeOK, Boxes, Stop, Runs
<1>5. Unborn' /\ OwnerIsTrue' /\ ChurnIsNotFatal'
  BY <1>2 DEF IInv, Unborn, OwnerIsTrue, ChurnIsNotFatal, Stop, Runs
<1> QED BY <1>1, <1>3, <1>4, <1>5 DEF IInv

LEMMA StartKeeps == ASSUME IInv, NEW c \in Containers, Start(c) PROVE IInv'
<1>0. TypeOK /\ Boxes BY DEF IInv
<1>1. ResultsTrue' /\ Reading' BY <1>0, StepsOfBoxes, ScanKept DEF Start
<1>2. /\ start \in [Containers -> 0 .. MaxStarts] /\ pid \in [Containers -> Pids]
      /\ starts \in 0 .. MaxStarts /\ MaxStarts \in Nat
  BY CgroupAssumption DEF IInv, TypeOK
<1>3. PICK p \in Pids : (\A d \in Containers : Runs(d) => pid[d] # p) /\ pid' = [pid EXCEPT ![c] = p]
  BY DEF Start
<1>4. start' = [start EXCEPT ![c] = starts + 1] /\ starts' = starts + 1 /\ starts < MaxStarts /\ ~Runs(c)
  BY DEF Start
<1>5. TypeOK' BY <1>2, <1>3, <1>4 DEF IInv, TypeOK, Start
<1>6. Boxes'
  <2>1. \A d \in Containers : start'[d] <= starts' BY <1>2, <1>4 DEF IInv, Boxes
  <2>2. \A d \in Containers : d # c => start'[d] = start[d] /\ pid'[d] = pid[d] /\ start[d] # starts + 1
    BY <1>2, <1>3, <1>4 DEF IInv, Boxes
  <2>3. start'[c] = starts + 1 /\ pid'[c] = p BY <1>2, <1>3, <1>4
  <2> QED BY <1>0, <1>3, <2>1, <2>2, <2>3 DEF Boxes, Runs
<1>7. Unborn' BY <1>2, <1>4 DEF IInv, Unborn, Start, Cgroups
<1>8. OwnerIsTrue'
  <2>1. owner[starts + 1] = "none" BY <1>2, <1>4 DEF IInv, Unborn, Cgroups
  <2> QED BY <1>2, <1>4, <2>1 DEF IInv, OwnerIsTrue, Start, Runs
<1>9. ChurnIsNotFatal' BY DEF IInv, ChurnIsNotFatal, Start
<1> QED BY <1>1, <1>5, <1>6, <1>7, <1>8, <1>9 DEF IInv

-----------------------------------------------------------------------------
(***************************************************************************)
(* Steps of the manager                                                    *)
(***************************************************************************)
\* No container moves: what is true of a start is true of it afterwards
LEMMA Still ==
  ASSUME UNCHANGED boxVars
  PROVE  /\ \A n : Given(n)' <=> Given(n)
         /\ \A n, c : Is(n, c)' <=> Is(n, c)
         /\ \A n, p : (HasPid(n, p)' <=> HasPid(n, p)) /\ (NotPid(n, p)' <=> NotPid(n, p))
BY DEF Given, Is, HasPid, NotPid

LEMMA BoxesKept ==
  ASSUME IInv, UNCHANGED boxVars PROVE Boxes'
BY DEF IInv, Boxes, Runs

LEMMA OwnersKept ==
  ASSUME IInv, UNCHANGED boxVars, owner' = owner PROVE Unborn' /\ OwnerIsTrue'
BY DEF IInv, Unborn, OwnerIsTrue, Runs

\* A scan without results that looks at nothing claims nothing
LEMMA NothingClaimed ==
  ASSUME scan'.found = {}, scan'.pc \in {"idle", "next", "remove", "clear"}
  PROVE  ResultsTrue' /\ Reading'
<1>1. ~Looking' BY DEF Looking
<1> QED BY <1>1 DEF ResultsTrue, Reading

LEMMA EmptyScans ==
  /\ NoScan \in Scan /\ NoScan.found = {} /\ NoScan.pc = "idle"
  /\ LET c == [NoScan EXCEPT !.pc = "clear"] IN c \in Scan /\ c.found = {} /\ c.pc = "clear"
  /\ LET c == [NoScan EXCEPT !.pc = "next", !.left = Sandboxes]
     IN c \in Scan /\ c.found = {} /\ c.pc = "next" /\ c.left = Sandboxes
<1>1. NoScan \in Scan BY CgroupAssumption DEF NoScan, Scan
<1> QED BY <1>1 DEF NoScan, Scan

\* A step that only replaces the scan
LEMMA ScanningKeeps ==
  ASSUME IInv, NEW next \in Scan, Scanning(next), ResultsTrue', Reading'
  PROVE  IInv'
<1>1. TypeOK' BY DEF IInv, TypeOK, Scanning
<1>2. Boxes' /\ Unborn' /\ OwnerIsTrue' BY BoxesKept, OwnersKept DEF Scanning
<1>3. ChurnIsNotFatal' BY DEF IInv, ChurnIsNotFatal, Scanning
<1> QED BY <1>1, <1>2, <1>3 DEF IInv

LEMMA UnknownKeeps ==
  ASSUME IInv, Unknown, faults' \in 0 .. MaxFaults PROVE IInv'
<1>1. scan' \in Scan /\ ResultsTrue' /\ Reading' BY EmptyScans, NothingClaimed DEF Unknown
<1>2. TypeOK' 
  <2>1. bindings' \in SUBSET Found /\ ready' \in BOOLEAN BY DEF Unknown
  <2> QED BY <1>1, <2>1 DEF IInv, TypeOK, Unknown
<1>3. Boxes' /\ Unborn' /\ OwnerIsTrue' BY BoxesKept, OwnersKept DEF Unknown
<1>4. ChurnIsNotFatal' BY DEF IInv, ChurnIsNotFatal, Unknown
<1> QED BY <1>1, <1>2, <1>3, <1>4 DEF IInv

LEMMA StartScanKeeps == ASSUME IInv, StartScan PROVE IInv'
<1>1. scan' \in Scan /\ ResultsTrue' /\ Reading'
  BY EmptyScans, NothingClaimed DEF StartScan, Scanning
<1>2. Scanning(scan') BY DEF StartScan, Scanning
<1> QED BY <1>1, <1>2, ScanningKeeps

LEMMA DiscoverFailsKeeps == ASSUME IInv, DiscoverFails PROVE IInv'
<1>1. faults' \in 0 .. MaxFaults BY CgroupAssumption DEF IInv, TypeOK, DiscoverFails
<1> QED BY <1>1, UnknownKeeps DEF DiscoverFails

\* The results do not change and no sandbox comes back to be looked at
LEMMA ResultsKept ==
  ASSUME IInv, UNCHANGED boxVars, scan'.found = scan.found, scan'.left \subseteq scan.left
  PROVE  ResultsTrue'
BY Still DEF IInv, ResultsTrue, Numbers

LEMMA InspectKeeps == ASSUME IInv, NEW s \in Sandboxes, Inspect(s) PROVE IInv'
<1> DEFINE rest == [scan EXCEPT !.left = @ \ {s}]
           ps == [r \in Roles |-> pid[<<s, r>>]]
           look == [rest EXCEPT !.pc = "process", !.box = s, !.role = "supervisor", !.cgid = 0, !.pids = ps]
<1>0. scan \in Scan /\ scan.pc = "next" /\ s \in scan.left /\ UNCHANGED boxVars
  BY DEF IInv, TypeOK, Inspect, At, Scanning
<1>1. rest \in Scan /\ rest.pc = "next" /\ rest.found = scan.found /\ rest.left = scan.left \ {s}
  BY <1>0 DEF Scan
<1>2. CASE Scanning(rest)
  <2>1. scan' = rest BY <1>2 DEF Scanning
  <2>2. ResultsTrue' BY <1>0, <1>1, <2>1, ResultsKept
  <2>3. Reading' BY <1>1, <2>1 DEF Reading, Looking
  <2> QED BY <1>1, <1>2, <2>2, <2>3, ScanningKeeps
<1>3. CASE (\A r \in Roles : Runs(<<s, r>>)) /\ Scanning(look)
  <2>1. \A r \in Roles : <<s, r>> \in Containers BY DEF Containers, Roles
  <2>2. ps \in [Roles -> Pids] BY <2>1 DEF IInv, TypeOK
  <2>3. /\ look \in Scan /\ look.pc = "process" /\ look.found = scan.found /\ look.left = scan.left \ {s}
        /\ look.box = s /\ look.role = "supervisor" /\ look.pids = ps
    <3>1. 0 \in 0 .. MaxStarts BY CgroupAssumption
    <3>2. "supervisor" \in Roles BY DEF Roles
    <3> HIDE DEF ps
    <3> QED BY <1>1, <2>2, <3>1, <3>2 DEF Scan
  <2>4. scan' = look BY <1>3 DEF Scanning
  <2> HIDE DEF look
  <2>5. ResultsTrue' BY <1>0, <2>3, <2>4, ResultsKept
  <2>6. ASSUME NEW b \in scan.found, NEW n, NEW r \in Roles, n \in Numbers(b) PROVE NotPid(n, ps[r])
    <3>1. SUFFICES ASSUME NEW d \in Containers, start[d] = n, pid[d] = pid[<<s, r>>] PROVE FALSE
      BY DEF NotPid
    <3>2. /\ Is(b.cgroup, <<b.box, "supervisor">>) /\ Is(b.workload, <<b.box, "workload">>)
          /\ b.box \notin scan.left
      BY DEF IInv, ResultsTrue
    <3>3. d = <<b.box, "supervisor">> \/ d = <<b.box, "workload">> BY <2>6, <3>1, <3>2 DEF Is, Numbers
    <3>4. Runs(d) BY <2>6, <3>1, <3>2 DEF Is, Numbers, Given, Runs
    <3>5. d = <<s, r>> BY <1>3, <2>1, <3>1, <3>4 DEF IInv, Boxes
    <3> QED BY <1>0, <3>2, <3>3, <3>5
  <2>7. ps["supervisor"] # ps["workload"]
    <3>1. Runs(<<s, "supervisor">>) /\ Runs(<<s, "workload">>) BY <1>3 DEF Roles
    <3>2. <<s, "supervisor">> \in Containers /\ <<s, "workload">> \in Containers BY <2>1 DEF Roles
    <3>3. pid[<<s, "supervisor">>] # pid[<<s, "workload">>] BY <3>1, <3>2 DEF IInv, Boxes
    <3> QED BY <3>3 DEF Roles
  <2>8. TwoProcesses'
    BY <1>0, <2>2, <2>3, <2>4, <2>6, <2>7, Still DEF TwoProcesses, Roles, Numbers
  <2>9. SupervisorRead' /\ ProcessRead' /\ CgroupRead' /\ ProcessSeenAgain'
    BY <2>3, <2>4 DEF SupervisorRead, ProcessRead, CgroupRead, ProcessSeenAgain
  <2>10. Reading' BY <2>8, <2>9 DEF Reading
  <2> QED BY <1>3, <2>3, <2>5, <2>10, ScanningKeeps
<1> QED BY <1>2, <1>3 DEF Inspect, Roles

\* The step reads on about the same container
SameTarget ==
  /\ scan'.left = scan.left /\ scan'.box = scan.box /\ scan'.pids = scan.pids /\ scan'.role = scan.role
  /\ scan'.cgid = scan.cgid /\ scan'.found = scan.found

LEMMA TargetKept ==
  ASSUME IInv, UNCHANGED boxVars, SameTarget, Looking
  PROVE  ResultsTrue' /\ TwoProcesses' /\ SupervisorRead'
<1>1. ResultsTrue' BY ResultsKept DEF SameTarget
<1>2. TwoProcesses /\ SupervisorRead BY DEF IInv, Reading
<1>3. TwoProcesses' BY <1>2, Still DEF SameTarget, TwoProcesses, Numbers
<1>4. SupervisorRead' BY <1>2, Still DEF SameTarget, SupervisorRead, Numbers
<1> QED BY <1>1, <1>3, <1>4

LEMMA ReadProcessKeeps == ASSUME IInv, ReadProcess PROVE IInv'
<1>0. scan \in Scan /\ scan.pc = "process" /\ Looking BY DEF IInv, TypeOK, ReadProcess, At, Looking
<1>1. CASE Unknown /\ UNCHANGED faults BY <1>1, UnknownKeeps DEF IInv, TypeOK
<1>2. ASSUME NEW c \in Process(scan.pids[scan.role]),
             Scanning([scan EXCEPT !.pc = "cgroup", !.read = <<c, start[c]>>])
      PROVE  IInv'
  <2> DEFINE next == [scan EXCEPT !.pc = "cgroup", !.read = <<c, start[c]>>]
  <2>1. c \in Containers /\ Runs(c) BY DEF Process
  <2>2. start[c] \in 1 .. starts /\ start[c] \in Cgroups
    BY <2>1, CgroupAssumption DEF IInv, TypeOK, Boxes, Runs, Cgroups
  <2>3. <<c, start[c]>> \in Containers \X Cgroups BY <2>1, <2>2
  <2>4. /\ next \in Scan /\ next.pc = "cgroup" /\ next.read = <<c, start[c]>>
        /\ next.left = scan.left /\ next.box = scan.box /\ next.pids = scan.pids /\ next.role = scan.role
        /\ next.cgid = scan.cgid /\ next.found = scan.found
    BY <1>0, <2>3 DEF Scan
  <2>5. scan' = next /\ UNCHANGED boxVars BY <1>2 DEF Scanning
  <2> HIDE DEF next
  <2>6. SameTarget BY <2>4, <2>5 DEF SameTarget
  <2>7. Is(start[c], c) BY <2>1, <2>2 DEF Is, Given, IInv, Boxes
  <2>8. ProcessRead' BY <2>3, <2>4, <2>5, <2>7, Still DEF ProcessRead
  <2>9. CgroupRead' /\ ProcessSeenAgain' BY <2>4, <2>5 DEF CgroupRead, ProcessSeenAgain
  <2>10. ResultsTrue' /\ Reading' BY <1>0, <2>5, <2>6, <2>8, <2>9, TargetKept DEF Reading
  <2>11. Scanning(next) BY <1>2 DEF next
  <2> QED BY <2>4, <2>10, <2>11, ScanningKeeps
<1> QED BY <1>1, <1>2 DEF ReadProcess

LEMMA ReadCgroupKeeps == ASSUME IInv, ReadCgroup PROVE IInv'
<1> DEFINE c == scan.read[1]
           next == [scan EXCEPT !.pc = "again", !.id = start[c]]
<1>0. scan \in Scan /\ scan.pc = "cgroup" /\ Looking BY DEF IInv, TypeOK, ReadCgroup, At, Looking
<1>1. CASE Unknown /\ UNCHANGED faults BY <1>1, UnknownKeeps DEF IInv, TypeOK
<1>2. CASE Runs(c) /\ Scanning(next)
  <2>0. scan.read \in Containers \X Cgroups /\ Is(scan.read[2], scan.read[1])
    BY <1>0 DEF IInv, Reading, ProcessRead
  <2>1. c \in Containers BY <2>0
  <2>2. start[c] \in 1 .. starts /\ start[c] \in 0 .. MaxStarts
    BY <1>2, <2>1, CgroupAssumption DEF IInv, TypeOK, Boxes, Runs
  <2>3. Is(start[c], c) BY <1>2, <2>1, <2>2 DEF Is, Given, IInv, Boxes
  <2>4. /\ next \in Scan /\ next.pc = "again" /\ next.read = scan.read /\ next.id = start[c]
        /\ next.left = scan.left /\ next.box = scan.box /\ next.pids = scan.pids /\ next.role = scan.role
        /\ next.cgid = scan.cgid /\ next.found = scan.found
    BY <1>0, <2>2 DEF Scan
  <2>5. scan' = next /\ UNCHANGED boxVars BY <1>2 DEF Scanning
  <2> HIDE DEF next
  <2>6. SameTarget BY <2>4, <2>5 DEF SameTarget
  <2>7. ProcessRead' BY <2>0, <2>4, <2>5, Still DEF ProcessRead
  <2>8. CgroupRead' BY <2>3, <2>4, <2>5, Still DEF CgroupRead
  <2>9. ProcessSeenAgain' BY <2>4, <2>5 DEF ProcessSeenAgain
  <2>10. ResultsTrue' /\ Reading' BY <1>0, <2>5, <2>6, <2>7, <2>8, <2>9, TargetKept DEF Reading
  <2> QED BY <1>2, <2>4, <2>10, ScanningKeeps
<1> QED BY <1>1, <1>2 DEF ReadCgroup

LEMMA ReadProcessAgainKeeps == ASSUME IInv, ReadProcessAgain PROVE IInv'
<1> DEFINE next == [scan EXCEPT !.pc = "inspect"]
           p == scan.pids[scan.role]
<1>0. scan \in Scan /\ scan.pc = "again" /\ Looking
  BY DEF IInv, TypeOK, ReadProcessAgain, At, Looking
<1>1. CASE Unknown /\ UNCHANGED faults BY <1>1, UnknownKeeps DEF IInv, TypeOK
<1>2. ASSUME NEW c \in Process(p), scan.read = <<c, start[c]>>, Scanning(next) PROVE IInv'
  <2>0. TwoProcesses /\ SupervisorRead /\ ProcessRead /\ CgroupRead BY <1>0 DEF IInv, Reading
  <2>1. c \in Containers /\ Runs(c) /\ pid[c] = p BY DEF Process
  <2>2. scan.read[1] = c /\ scan.read[2] = start[c] BY <1>2
  <2>3. scan.id = start[c] BY <1>0, <2>0, <2>2 DEF CgroupRead
  <2>4. Given(scan.id) /\ HasPid(scan.id, p)
    <3>1. Is(scan.id, c) BY <1>0, <2>0, <2>2 DEF CgroupRead
    <3> QED BY <2>1, <3>1 DEF Is, HasPid
  <2>5. \A b \in scan.found : scan.id \notin Numbers(b)
    <3>1. ASSUME NEW b \in scan.found, scan.id \in Numbers(b) PROVE FALSE
      <4>1. scan.id \in Cgroups BY <3>1, <1>0 DEF Scan, Found, Numbers
      <4>2. scan.role \in Roles BY <2>0 DEF TwoProcesses
      <4>3. NotPid(scan.id, p) BY <2>0, <3>1, <4>1, <4>2 DEF TwoProcesses
      <4> QED BY <2>1, <2>3, <4>3 DEF NotPid
    <3> QED BY <3>1
  <2>6. scan.role = "workload" => scan.id # scan.cgid
    <3>1. SUFFICES ASSUME scan.role = "workload", scan.id = scan.cgid PROVE FALSE OBVIOUS
    <3>2. NotPid(scan.id, p) BY <2>0, <3>1 DEF SupervisorRead
    <3> QED BY <2>1, <2>3, <3>2 DEF NotPid
  <2>7. /\ next \in Scan /\ next.pc = "inspect" /\ next.id = scan.id
        /\ next.left = scan.left /\ next.box = scan.box /\ next.pids = scan.pids /\ next.role = scan.role
        /\ next.cgid = scan.cgid /\ next.found = scan.found
    BY <1>0 DEF Scan
  <2>8. scan' = next /\ UNCHANGED boxVars BY <1>2 DEF Scanning
  <2> HIDE DEF next
  <2>9. SameTarget BY <2>7, <2>8 DEF SameTarget
  <2>10. ProcessRead' /\ CgroupRead' BY <2>7, <2>8 DEF ProcessRead, CgroupRead
  <2>11. ProcessSeenAgain' BY <2>4, <2>5, <2>6, <2>7, <2>8, Still DEF ProcessSeenAgain, Numbers
  <2>12. ResultsTrue' /\ Reading' BY <1>0, <2>8, <2>9, <2>10, <2>11, TargetKept DEF Reading
  <2> QED BY <1>2, <2>7, <2>12, ScanningKeeps
<1> QED BY <1>1, <1>2 DEF ReadProcessAgain

\* The process that was read twice is the container's, when the container still
\* has the process id: nobody else can have it.
LEMMA ReadIsOwn ==
  ASSUME IInv, scan.pc = "inspect", StillRuns(<<scan.box, scan.role>>, scan.pids[scan.role])
  PROVE  Is(scan.id, <<scan.box, scan.role>>)
<1> DEFINE c == <<scan.box, scan.role>>
<1>1. TwoProcesses /\ ProcessSeenAgain BY DEF IInv, Reading, Looking
<1>2. c \in Containers BY <1>1 DEF TwoProcesses, Containers, Roles
<1>3. Runs(c) /\ pid[c] = scan.pids[scan.role] BY DEF StillRuns
<1>4. Given(scan.id) /\ HasPid(scan.id, scan.pids[scan.role]) BY <1>1 DEF ProcessSeenAgain
<1>5. ASSUME NEW d \in Containers, start[d] = scan.id PROVE d = c
  <2>1. Runs(d) /\ pid[d] = pid[c] BY <1>3, <1>4, <1>5 DEF HasPid, Given, Runs
  <2> QED BY <1>2, <1>3, <2>1 DEF IInv, Boxes
<1> QED BY <1>4, <1>5 DEF Is

LEMMA SupervisorKeeps ==
  ASSUME IInv, scan.pc = "inspect", scan.role = "supervisor",
         StillRuns(<<scan.box, scan.role>>, scan.pids[scan.role]),
         Scanning([scan EXCEPT !.pc = "process", !.role = "workload", !.cgid = scan.id])
  PROVE  IInv'
<1> DEFINE next == [scan EXCEPT !.pc = "process", !.role = "workload", !.cgid = scan.id]
<1>0. scan \in Scan /\ Looking BY DEF IInv, TypeOK, Looking
<1>1. TwoProcesses /\ ProcessSeenAgain BY <1>0 DEF IInv, Reading
<1>2. /\ next \in Scan /\ next.pc = "process" /\ next.role = "workload" /\ next.cgid = scan.id
      /\ next.left = scan.left /\ next.box = scan.box /\ next.pids = scan.pids /\ next.found = scan.found
  BY <1>0 DEF Scan, Roles
<1>3. scan' = next /\ UNCHANGED boxVars BY DEF Scanning
<1>4. Scanning(next) OBVIOUS
<1> HIDE DEF next
<1>5. ResultsTrue' BY <1>2, <1>3, ResultsKept
<1>6. TwoProcesses' BY <1>1, <1>2, <1>3, Still DEF TwoProcesses, Numbers, Roles
<1>7. SupervisorRead'
  <2>1. Is(scan.id, <<scan.box, "supervisor">>) BY ReadIsOwn
  <2>2. NotPid(scan.id, scan.pids["workload"]) BY <1>1 DEF TwoProcesses, ProcessSeenAgain, HasPid, NotPid
  <2>3. \A b \in scan.found : scan.id \notin Numbers(b) BY <1>1 DEF ProcessSeenAgain
  <2> QED BY <1>2, <1>3, <2>1, <2>2, <2>3, Still DEF SupervisorRead, Numbers
<1>8. ProcessRead' /\ CgroupRead' /\ ProcessSeenAgain'
  BY <1>2, <1>3 DEF ProcessRead, CgroupRead, ProcessSeenAgain
<1>9. Reading' BY <1>6, <1>7, <1>8 DEF Reading
<1> QED BY <1>2, <1>4, <1>5, <1>9, ScanningKeeps

LEMMA WorkloadKeeps ==
  ASSUME IInv, scan.pc = "inspect", scan.role = "workload",
         StillRuns(<<scan.box, scan.role>>, scan.pids[scan.role]),
         Scanning([scan EXCEPT !.pc = "next",
                     !.found = @ \cup {[box |-> scan.box, cgroup |-> scan.cgid, workload |-> scan.id]}])
  PROVE  IInv'
<1> DEFINE f == [box |-> scan.box, cgroup |-> scan.cgid, workload |-> scan.id]
           next == [scan EXCEPT !.pc = "next", !.found = @ \cup {f}]
<1>0. scan \in Scan /\ Looking BY DEF IInv, TypeOK, Looking
<1>1. TwoProcesses /\ SupervisorRead /\ ProcessSeenAgain BY <1>0 DEF IInv, Reading
<1>2. Is(scan.id, <<scan.box, "workload">>) BY ReadIsOwn
<1>3. Is(scan.cgid, <<scan.box, "supervisor">>) BY <1>1 DEF SupervisorRead
<1>4. scan.id \in Cgroups /\ scan.cgid \in Cgroups
  BY <1>2, <1>3, CgroupAssumption DEF Is, Given, Cgroups, IInv, TypeOK
<1>5. f \in Found BY <1>1, <1>4 DEF TwoProcesses, Found
<1>6. f.box = scan.box /\ f.cgroup = scan.cgid /\ f.workload = scan.id OBVIOUS
<1> HIDE DEF f
<1>7. next \in Scan /\ next.pc = "next" /\ next.left = scan.left /\ next.found = scan.found \cup {f}
  BY <1>0, <1>5 DEF Scan
<1>8. Scanning(next) BY DEF f
<1>9. scan' = next /\ UNCHANGED boxVars BY <1>8 DEF Scanning
<1> HIDE DEF next
<1>10. ASSUME NEW b \in scan.found \cup {f}
       PROVE  /\ Is(b.cgroup, <<b.box, "supervisor">>) /\ Is(b.workload, <<b.box, "workload">>)
              /\ b.cgroup # b.workload /\ b.box \notin scan.left
  <2>1. CASE b \in scan.found BY <2>1 DEF IInv, ResultsTrue
  <2>2. CASE b = f BY <1>1, <1>2, <1>3, <1>6, <2>2 DEF TwoProcesses, ProcessSeenAgain
  <2> QED BY <2>1, <2>2
<1>11. \A b \in scan.found : Numbers(b) \cap Numbers(f) = {}
  BY <1>1, <1>6 DEF SupervisorRead, ProcessSeenAgain, Numbers
<1>12. ASSUME NEW b \in scan.found \cup {f}, NEW e \in scan.found \cup {f}, b # e
       PROVE  Numbers(b) \cap Numbers(e) = {}
  <2>1. CASE b \in scan.found /\ e \in scan.found BY <1>12, <2>1 DEF IInv, ResultsTrue
  <2>2. CASE b = f \/ e = f BY <1>11, <1>12, <2>2
  <2> QED BY <2>1, <2>2
<1>13. ResultsTrue'
  BY <1>7, <1>9, <1>10, <1>12, Still DEF ResultsTrue, Numbers
<1>14. Reading' BY <1>7, <1>9 DEF Reading, Looking
<1> QED BY <1>7, <1>8, <1>13, <1>14, ScanningKeeps

LEMMA InspectAgainKeeps == ASSUME IInv, InspectAgain PROVE IInv'
<1>0. scan.pc = "inspect" /\ faults \in 0 .. MaxFaults BY DEF InspectAgain, At, IInv, TypeOK
<1>1. CASE Unknown /\ UNCHANGED faults BY <1>0, <1>1, UnknownKeeps
<1>2. CASE ~(Unknown /\ UNCHANGED faults)
  BY <1>0, <1>2, SupervisorKeeps, WorkloadKeeps DEF InspectAgain
<1> QED BY <1>1, <1>2

-----------------------------------------------------------------------------
(***************************************************************************)
(* Results and the map                                                     *)
(***************************************************************************)
\* A cgroup is wanted by the result that names it and by no other
LEMMA OneWants ==
  ASSUME IInv, NEW b \in scan.found, NEW g, g \in Numbers(b)
  PROVE  /\ Wanted(g) = IF g = b.cgroup THEN {UserOf[b.box]} ELSE {"loopback"}
         /\ {e \in scan.found : e.workload = g} = IF g = b.cgroup THEN {} ELSE {b}
<1>1. \A e \in scan.found : g \in Numbers(e) => e = b BY DEF IInv, ResultsTrue
<1>2. b.cgroup # b.workload BY DEF IInv, ResultsTrue
<1>3. CASE g = b.cgroup
  <2>1. {x \in scan.found : x.cgroup = g} = {b} BY <1>1, <1>3 DEF Numbers
  <2>2. {x \in scan.found : x.workload = g} = {} BY <1>1, <1>2, <1>3 DEF Numbers
  <2> QED BY <1>3, <2>1, <2>2 DEF Wanted
<1>4. CASE g # b.cgroup
  <2>0. g = b.workload BY <1>4 DEF Numbers
  <2>1. {x \in scan.found : x.cgroup = g} = {} BY <1>1, <1>4 DEF Numbers
  <2>2. {x \in scan.found : x.workload = g} = {b} BY <1>1, <2>0 DEF Numbers
  <2> QED BY <1>4, <2>1, <2>2 DEF Wanted
<1> QED BY <1>3, <1>4

\* Containers that come and go never make two owners of one cgroup
LEMMA NoConflict == ASSUME IInv PROVE ~Conflict
<1>1. SUFFICES ASSUME NEW g \in Cgroups
               PROVE  /\ ~(Cardinality(Wanted(g)) > 1)
                      /\ ~(Cardinality({b \in scan.found : b.workload = g}) > 1)
  BY DEF Conflict
<1>2. Cardinality({}) = 0 BY FS_EmptySet
<1>3. \A x : Cardinality({x}) = 1 BY FS_Singleton
<1>4. CASE \E b \in scan.found : g \in Numbers(b)
  <2>1. PICK b \in scan.found : g \in Numbers(b) BY <1>4
  <2>2. Wanted(g) = {UserOf[b.box]} \/ Wanted(g) = {"loopback"} BY <2>1, OneWants
  <2>3. {e \in scan.found : e.workload = g} \in {{}, {b}} BY <2>1, OneWants
  <2>4. Cardinality(Wanted(g)) = 1 BY <1>3, <2>2
  <2>5. Cardinality({e \in scan.found : e.workload = g}) \in {0, 1} BY <1>2, <1>3, <2>3
  <2> QED BY <2>4, <2>5
<1>5. CASE \A b \in scan.found : g \notin Numbers(b)
  <2>1. Wanted(g) = {} BY <1>5 DEF Wanted, Numbers
  <2>2. {b \in scan.found : b.workload = g} = {} BY <1>5 DEF Numbers
  <2> QED BY <1>2, <2>1, <2>2
<1> QED BY <1>4, <1>5

\* The owner a result wants for a cgroup is the one its container has
LEMMA WantedIsTrue ==
  ASSUME IInv, NEW g \in Cgroups, NEW u \in Wanted(g)
  PROVE  /\ Given(g) /\ u \in Users \cup {"loopback"}
         /\ \A c \in Containers :
              start[c] = g => u = IF c[2] = "supervisor" THEN UserOf[c[1]] ELSE "loopback"
<1>0. PICK b \in scan.found : g \in Numbers(b) BY DEF Wanted, Numbers
<1>1. u = IF g = b.cgroup THEN UserOf[b.box] ELSE "loopback" BY <1>0, OneWants
<1>2. Is(b.cgroup, <<b.box, "supervisor">>) /\ Is(b.workload, <<b.box, "workload">>) /\ b.box \in Sandboxes
  BY DEF IInv, ResultsTrue, TypeOK, Scan, Found
<1>3. Given(g) BY <1>0, <1>2 DEF Is, Numbers
<1>4. u \in Users \cup {"loopback"} BY <1>1, <1>2 DEF Users
<1>5. ASSUME NEW c \in Containers, start[c] = g
      PROVE  u = IF c[2] = "supervisor" THEN UserOf[c[1]] ELSE "loopback"
  <2>1. CASE g = b.cgroup
    <3>1. c = <<b.box, "supervisor">> BY <1>2, <1>5, <2>1 DEF Is
    <3> QED BY <1>1, <2>1, <3>1
  <2>2. CASE g # b.cgroup
    <3>1. c = <<b.box, "workload">> BY <1>0, <1>2, <1>5, <2>2 DEF Is, Numbers
    <3> QED BY <1>1, <2>2, <3>1
  <2> QED BY <2>1, <2>2
<1> QED BY <1>3, <1>4, <1>5

LEMMA CollectKeeps == ASSUME IInv, Collect PROVE IInv'
<1> DEFINE next == [scan EXCEPT !.pc = "remove"]
<1>0. scan \in Scan /\ scan' = next /\ UNCHANGED <<boxVars, owner, up, fatal, ready, bindings, faults, crashes>>
  BY NoConflict DEF IInv, TypeOK, Collect
<1>1. next \in Scan /\ next.pc = "remove" /\ next.found = scan.found /\ next.left = scan.left
  BY <1>0 DEF Scan
<1> HIDE DEF next
<1>2. ResultsTrue' BY <1>0, <1>1, ResultsKept
<1>3. Reading' BY <1>0, <1>1 DEF Reading, Looking
<1>4. Scanning(next) BY <1>0 DEF Scanning
<1> QED BY <1>1, <1>2, <1>3, <1>4, ScanningKeeps

\* The scan ends, by an error or not
LEMMA ScanEnds ==
  ASSUME IInv, UNCHANGED <<boxVars, owner>>, scan' = NoScan,
         up' \in BOOLEAN, fatal' \in {fatal, "none", "sync", "map"}, ready' \in BOOLEAN,
         bindings' \in SUBSET Found, faults' \in 0 .. MaxFaults, crashes' \in 0 .. MaxCrashes
  PROVE  IInv'
<1>1. scan' \in Scan /\ ResultsTrue' /\ Reading' BY EmptyScans, NothingClaimed
<1>2. fatal' \in {"none", "conflict", "sync", "map"} /\ ChurnIsNotFatal'
  BY DEF IInv, TypeOK, ChurnIsNotFatal
<1>3. TypeOK' BY <1>1, <1>2 DEF IInv, TypeOK
<1>4. Boxes' /\ Unborn' /\ OwnerIsTrue' BY BoxesKept, OwnersKept
<1> QED BY <1>1, <1>2, <1>3, <1>4 DEF IInv

LEMMA EndsKeep ==
  ASSUME IInv, EndScan \/ EndClear \/ EnsureFails \/ MapFails \/ Crash PROVE IInv'
<1>0. /\ up \in BOOLEAN /\ ready \in BOOLEAN /\ bindings \in SUBSET Found /\ scan.found \in SUBSET Found
      /\ faults \in 0 .. MaxFaults /\ crashes \in 0 .. MaxCrashes
      /\ MaxFaults \in Nat /\ MaxCrashes \in Nat
  BY CgroupAssumption DEF IInv, TypeOK, Scan
<1>1. CASE EndScan
  <2>1. ready' \in BOOLEAN BY <1>1 DEF EndScan
  <2> QED BY <1>0, <1>1, <2>1, ScanEnds DEF EndScan
<1>2. CASE EndClear BY <1>0, <1>2, ScanEnds DEF EndClear, Scanning
<1>3. CASE EnsureFails
  <2>1. ready' \in BOOLEAN /\ fatal' \in {fatal, "none", "sync", "map"} /\ scan' = NoScan
    BY <1>0, <1>3 DEF EnsureFails, Fail, Disabled
  <2>2. faults' \in 0 .. MaxFaults BY <1>0, <1>3 DEF EnsureFails
  <2> QED BY <1>0, <1>3, <2>1, <2>2, ScanEnds DEF EnsureFails
<1>4. CASE MapFails
  <2>1. ready' \in BOOLEAN BY <1>4 DEF MapFails, Fail, Disabled
  <2>2. faults' \in 0 .. MaxFaults BY <1>0, <1>4 DEF MapFails
  <2> QED BY <1>0, <1>4, <2>1, <2>2, ScanEnds DEF MapFails, Fail, Disabled
<1>5. CASE Crash
  <2>1. ready' \in BOOLEAN /\ up' \in BOOLEAN BY <1>5 DEF Crash
  <2>2. crashes' \in 0 .. MaxCrashes BY <1>0, <1>5 DEF Crash
  <2> QED BY <1>0, <1>5, <2>1, <2>2, ScanEnds DEF Crash
<1> QED BY <1>1, <1>2, <1>3, <1>4, <1>5

LEMMA SetOwnerKeeps ==
  ASSUME IInv, NEW g \in Cgroups, NEW u \in Wanted(g) \cup {"none"}, SetOwner(g, u) PROVE IInv'
<1>0. scan' = scan /\ UNCHANGED boxVars /\ owner' = [owner EXCEPT ![g] = u] BY DEF SetOwner
<1>1. u \in Users \cup {"none", "loopback"} BY WantedIsTrue
<1>2. owner \in [Cgroups -> Users \cup {"none", "loopback"}] BY DEF IInv, TypeOK
<1>3. TypeOK' BY <1>0, <1>1, <1>2 DEF IInv, TypeOK, SetOwner
<1>4. Boxes' BY <1>0, BoxesKept
<1>5. ResultsTrue' /\ Reading'
  <2>1. TypeOK /\ Boxes BY DEF IInv
  <2> QED BY <1>0, <2>1, StepsOfBoxes, ScanKept
<1>6. Unborn'
  <2>1. u # "none" => Given(g) BY WantedIsTrue
  <2> QED BY <1>0, <1>2, <2>1, CgroupAssumption DEF IInv, TypeOK, Unborn, Given, Cgroups
<1>7. OwnerIsTrue'
  <2>1. \A c \in Containers : start[c] = g /\ u # "none" =>
          u = IF c[2] = "supervisor" THEN UserOf[c[1]] ELSE "loopback"
    BY WantedIsTrue
  <2>2. \A h \in Cgroups : owner'[h] = IF h = g THEN u ELSE owner[h] BY <1>0, <1>2
  <2>3. \A c \in Containers : Runs(c) => start[c] \in Cgroups
    BY CgroupAssumption DEF IInv, TypeOK, Runs, Cgroups
  <2> QED BY <1>0, <2>1, <2>2, <2>3 DEF IInv, OwnerIsTrue, Runs
<1>8. ChurnIsNotFatal' BY DEF IInv, ChurnIsNotFatal, SetOwner
<1> QED BY <1>3, <1>4, <1>5, <1>6, <1>7, <1>8 DEF IInv

LEMMA OwnerSteps ==
  ASSUME IInv, NEW g \in Cgroups, RemoveOwner(g) \/ PublishOwner(g) \/ ClearOwner(g) PROVE IInv'
BY SetOwnerKeeps DEF RemoveOwner, PublishOwner, ClearOwner

LEMMA RestartKeeps == ASSUME IInv, Restart PROVE IInv'
<1>1. up' \in BOOLEAN BY DEF Restart
<1>2. TypeOK' BY <1>1 DEF IInv, TypeOK, Restart
<1>3. Boxes' /\ Unborn' /\ OwnerIsTrue' BY BoxesKept, OwnersKept DEF Restart
<1>4. ChurnIsNotFatal' BY DEF IInv, ChurnIsNotFatal, Restart
<1>5. TypeOK /\ Boxes BY DEF IInv
<1>6. ResultsTrue' /\ Reading' BY <1>5, StepsOfBoxes, ScanKept DEF Restart
<1> QED BY <1>2, <1>3, <1>4, <1>6 DEF IInv

LEMMA SyncFailsKeeps == ASSUME IInv, SyncFails PROVE IInv'
<1>1. /\ faults' \in 0 .. MaxFaults /\ ready' \in BOOLEAN
      /\ fatal' \in {"none", "conflict", "sync", "map"} /\ ChurnIsNotFatal'
  <2>1. faults \in 0 .. MaxFaults /\ MaxFaults \in Nat BY CgroupAssumption DEF IInv, TypeOK
  <2>2. faults' \in 0 .. MaxFaults BY <2>1 DEF SyncFails
  <2>3. fatal' = "sync" /\ ready' = FALSE BY DEF SyncFails, Disabled
  <2> QED BY <2>2, <2>3 DEF ChurnIsNotFatal
<1>2. TypeOK' BY <1>1 DEF IInv, TypeOK, SyncFails
<1>3. Boxes' /\ Unborn' /\ OwnerIsTrue' BY BoxesKept, OwnersKept DEF SyncFails
<1>4. TypeOK /\ Boxes BY DEF IInv
<1>5. ResultsTrue' /\ Reading' BY <1>4, StepsOfBoxes, ScanKept DEF SyncFails
<1> QED BY <1>1, <1>2, <1>3, <1>5 DEF IInv

LEMMA StutterKeeps == ASSUME IInv, UNCHANGED vars PROVE IInv'
<1>1. TypeOK' BY DEF IInv, TypeOK, vars
<1>2. Boxes' /\ Unborn' /\ OwnerIsTrue' BY BoxesKept, OwnersKept DEF vars
<1>3. ChurnIsNotFatal' BY DEF IInv, ChurnIsNotFatal, vars
<1>4. TypeOK /\ Boxes BY DEF IInv
<1>5. ResultsTrue' /\ Reading' BY <1>4, StepsOfBoxes, ScanKept DEF vars
<1> QED BY <1>1, <1>2, <1>3, <1>5 DEF IInv

LEMMA StepIInv == IInv /\ [Next]_vars => IInv'
<1> SUFFICES ASSUME IInv, [Next]_vars PROVE IInv' OBVIOUS
<1>1. CASE Manager
  BY <1>1, StartScanKeeps, ReadProcessKeeps, ReadCgroupKeeps, ReadProcessAgainKeeps, InspectAgainKeeps,
     CollectKeeps, EndsKeep, RestartKeeps, InspectKeeps, OwnerSteps DEF Manager
<1>2. CASE DiscoverFails BY <1>2, DiscoverFailsKeeps
<1>3. CASE EnsureFails \/ MapFails \/ Crash BY <1>3, EndsKeep
<1>4. CASE \E c \in Containers : Stop(c) \/ Start(c) BY <1>4, StopKeeps, StartKeeps
<1>5. CASE SyncFails BY <1>5, SyncFailsKeeps
<1>6. CASE UNCHANGED vars BY <1>6, StutterKeeps
<1> QED BY <1>1, <1>2, <1>3, <1>4, <1>5, <1>6 DEF Next

-----------------------------------------------------------------------------
(***************************************************************************)
(* The results                                                             *)
(***************************************************************************)
\* Whatever containers do between the requests of a scan, what it has read of
\* a container is that container's (guardedCgroup, discover, reconcile)
THEOREM Inductive == Spec => []IInv
<1> QED BY InitIInv, StepIInv, PTL DEF Spec

\* The state of containers, map and manager has its type
THEOREM TypeCorrect == Spec => []TypeOK
<1>1. IInv => TypeOK BY DEF IInv
<1> QED BY <1>1, Inductive, PTL

\* Traffic is never charged to another user: a running container's cgroup has no
\* owner in the pinned map or its own, however process ids are reused
THEOREM TrueOwners == Spec => []OwnerIsTrue
<1>1. IInv => OwnerIsTrue BY DEF IInv
<1> QED BY <1>1, Inductive, PTL

\* reconcile never meets one cgroup with two owners, which would disable the
\* guard until an operator acts
THEOREM ChurnHarmless == Spec => []ChurnIsNotFatal
<1>1. IInv => ChurnIsNotFatal BY DEF IInv
<1> QED BY <1>1, Inductive, PTL
=============================================================================
