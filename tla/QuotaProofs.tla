----------------------------- MODULE QuotaProofs -----------------------------
(***************************************************************************)
(* IInv is an invariant of QuotaSync, and with it the safety properties of *)
(* that module, for every set of users and CPUs, every set of valid        *)
(* configurations and every value of the bounds.                           *)
(***************************************************************************)
EXTENDS QuotaInv, QuotaLedgerProofs

(* Types, in the small pieces the steps below need.                        *)

LEMMA RowType ==
  ASSUME TypeOK, NEW e \in EpochID
  PROVE  /\ epochs[e].user \in Users \cup {0} /\ epochs[e].day \in Nat
         /\ epochs[e].status \in {"none", "active", "closed"}
         /\ epochs[e].granted \in Nat /\ epochs[e].rx \in Nat /\ epochs[e].tx \in Nat
         /\ epochs[e].boot \in Nat
  BY BoundsAssumption DEF TypeOK, Row, Days

LEMMA MapType ==
  ASSUME TypeOK, NEW e \in EpochID
  PROVE  /\ bucketMeta[e] \in Users \cup {0} /\ grants[e] \in Nat
         /\ usage[e].rx \in Nat /\ usage[e].tx \in Nat /\ passed[e] \in Nat
  BY DEF TypeOK, Counters

LEMMA NoZero == 0 \notin EpochID /\ 0 \notin Users
  BY BoundsAssumption, UsersAssumption DEF EpochID

LEMMA ClockType ==
  ASSUME TypeOK
  PROVE  day \in Nat /\ boot \in Nat
  BY BoundsAssumption DEF TypeOK, Days

LEMMA LockType ==
  ASSUME TypeOK, NEW u \in Users
  PROVE  /\ userBucket[u] \in EpochID \cup {0}
         /\ loc[u].day \in Nat /\ loc[u].bucket \in EpochID \cup {0}
         /\ loc[u].live \in BOOLEAN /\ loc[u].grant \in Nat
         /\ loc[u].rx \in Nat /\ loc[u].tx \in Nat
         /\ loc[u].active \in EpochID \cup {0} /\ loc[u].ids \in SUBSET EpochID
<1>1. loc[u] \in Locals /\ userBucket[u] \in EpochID \cup {0} BY DEF TypeOK
<1>2. Days \subseteq Nat BY BoundsAssumption DEF Days
<1> QED BY <1>1, <1>2 DEF Locals

LEMMA FlightType ==
  ASSUME TypeOK, NEW c \in CPUs
  PROVE  flight[c].bucket \in EpochID \cup {0} /\ flight[c].limit \in Nat
  BY DEF TypeOK

-----------------------------------------------------------------------------
(* What steps of others leave alone.                                       *)

\* The epoch e as the holder of its user's lock sees it
SameEpoch(e) ==
  /\ epochs'[e] = epochs[e] /\ bucketMeta'[e] = bucketMeta[e] /\ grants'[e] = grants[e]
  /\ (e \in grantKeys') <=> (e \in grantKeys)
  /\ (e \in usageKeys') <=> (e \in usageKeys)
  /\ usage'[e].rx >= usage[e].rx /\ usage'[e].tx >= usage[e].tx

\* A step that leaves the epochs of v alone, but for traffic charged to them,
\* leaves what the holder of v's lock knows alone.
LEMMA LockFrame ==
  ASSUME NEW v \in Users, TypeOK, TypeOK', Entries, Pointers, LockHolder(v),
         pc'[v] = pc[v], loc'[v] = loc[v], userBucket'[v] = userBucket[v],
         day' >= day, boot' = boot,
         \A e \in EpochID : epochs[e].user = v \/ epochs'[e].user = v => SameEpoch(e)
  PROVE  LockHolder(v)'
<1> USE DEF SameEpoch
<1>0. \A e \in EpochID : /\ epochs[e].day \in Nat /\ usage[e].rx \in Nat /\ usage[e].tx \in Nat
                         /\ usage'[e].rx \in Nat /\ usage'[e].tx \in Nat
                         /\ epochs[e].rx \in Nat /\ epochs[e].tx \in Nat
  <2>1. \A e \in EpochID : usage'[e].rx \in Nat /\ usage'[e].tx \in Nat BY DEF TypeOK, Counters
  <2> QED BY RowType, MapType, <2>1
<1>1. \A e \in EpochID : bucketMeta[e] = v => epochs[e].user = v
  BY NoZero DEF Entries
<1>2. DayCaptured(v) => DayCaptured(v)'
  <2>1. day' \in Nat BY BoundsAssumption DEF TypeOK, Days
  <2> QED BY LockType, ClockType, <1>0, <2>1 DEF DayCaptured
<1>3. PartialFound(v) => PartialFound(v)' BY LockType, <1>0 DEF PartialFound, ActiveOf
<1>4. LiveFound(v) => LiveFound(v)' BY LockType, <1>0, <1>1 DEF LiveFound, Complete
<1>5. NoneStale(v) => NoneStale(v)' BY DEF NoneStale, ActiveOn, ActiveOf
<1>6. ActiveChosen(v) => ActiveChosen(v)' BY LockType DEF ActiveChosen, ActiveOn, ActiveOf
<1>7. Found(v) => Found(v)' BY <1>4 DEF Found
<1>8. OldClosed(v) => OldClosed(v)' BY <1>1, LockType DEF OldClosed, IsActive, Pointers
<1>9. ActiveChosen(v) => loc[v].active \in EpochID /\ SameEpoch(loc[v].active)
  BY LockType DEF ActiveChosen, ActiveOn, ActiveOf
<1>10. Building(v) => Building(v)' BY <1>6, <1>8 DEF Building
<1>11. Inserted(v) => Inserted(v)' BY <1>6, <1>8, <1>9 DEF Inserted
<1>12. ActiveChosen(v) /\ Snapshot(v) => Snapshot(v)' BY <1>9, <1>0, LockType DEF Snapshot
<1>13. \A b \in loc[v].ids : epochs[b].user = v => epochs'[b].user = v
  BY LockType
<1> DEFINE early == /\ pc[v] \in SyncSteps => DayCaptured(v)
                    /\ pc[v] = "lookup" => ~loc[v].live
                    /\ pc[v] = "deletePartial" => PartialFound(v)
                    /\ pc[v] = "closeLost" => ~loc[v].live /\ userBucket[v] = 0
                    /\ pc[v] = "ensure" => Found(v) /\ NoneStale(v)
                    /\ pc[v] = "closeSnapshot" =>
                         LiveFound(v) /\ ActiveChosen(v) /\ loc[v].active # loc[v].bucket
<1>14. early'
  <2>1. early BY DEF LockHolder
  <2> QED BY <2>1, <1>2, <1>3, <1>4, <1>5, <1>6, <1>7
<1>15. (pc[v] = "initGrants" => Building(v))' BY <1>10 DEF LockHolder
<1>16. (pc[v] = "initUsage" =>
         /\ Building(v) /\ loc[v].active \in grantKeys
         /\ loc[v].grant = grants[loc[v].active]
         /\ loc[v].rx = epochs[loc[v].active].rx /\ loc[v].tx = epochs[loc[v].active].tx)'
  <2> SUFFICES ASSUME pc[v] = "initUsage"
               PROVE  ( /\ Building(v) /\ loc[v].active \in grantKeys
                        /\ loc[v].grant = grants[loc[v].active]
                        /\ loc[v].rx = epochs[loc[v].active].rx
                        /\ loc[v].tx = epochs[loc[v].active].tx )'
    OBVIOUS
  <2>1. Building(v) /\ SameEpoch(loc[v].active) BY <1>9 DEF LockHolder, Building
  <2> QED BY <2>1, <1>10 DEF LockHolder
<1>17. (pc[v] = "checkpoint" => Inserted(v) /\ Snapshot(v))'
  BY <1>11, <1>12 DEF LockHolder, Inserted
<1>18. (/\ pc[v] \in {"publishGrants", "publishMeta"} => Inserted(v)
        /\ pc[v] = "publishPointer" => Inserted(v) /\ bucketMeta[loc[v].active] = v)'
  BY <1>11, <1>9 DEF LockHolder, Inserted
<1>19. (pc[v] = "cleanupDelete" => \A b \in loc[v].ids : epochs[b].user = v /\ b # userBucket[v])'
  BY <1>13 DEF LockHolder
<1> QED
  BY <1>14, <1>15, <1>16, <1>17, <1>18, <1>19 DEF LockHolder

LEMMA IdleHolder ==
  ASSUME NEW v \in Users, pc'[v] \in {"idle", "cleanupClose"}
  PROVE  LockHolder(v)'
  BY DEF LockHolder, SyncSteps

\* A step of the process, of the clock or of a packet that is not charged
LEMMA QuietStep ==
  ASSUME IInv, TypeOK', day' >= day,
         UNCHANGED <<epochs, limits, userBucket, bucketMeta, grants, grantKeys>>,
         UNCHANGED <<usage, usageKeys, boot, passed>>,
         \A c \in CPUs : flight'[c] \in {flight[c], Idle},
         \A v \in Users : (pc'[v] = pc[v] /\ loc'[v] = loc[v]) \/ LockHolder(v)'
  PROVE  IInv'
<1> USE DEF IInv
<1>1. Rows'
  <2>1. day' \in Nat BY BoundsAssumption DEF TypeOK, Days
  <2> QED BY <2>1, RowType, ClockType DEF Rows, HasRow
<1>2. OneActivePerDay' BY DEF OneActivePerDay
<1>3. HeldWithinLimit' BY DEF HeldWithinLimit
<1>4. Bytes' BY DEF Bytes, HasRow
<1>5. Entries' BY DEF Entries, HasRow, HasEntry
<1>6. Pointers' BY DEF Pointers, Complete
<1>7. Flights' BY DEF Flights, HasRow, IsActive, Idle
<1>8. Unpublished' BY DEF Unpublished, IsActive
<1>9. Stale' BY DEF Stale, IsActive
<1>10. LockHolders'
  <2> SUFFICES ASSUME NEW v \in Users, pc'[v] = pc[v], loc'[v] = loc[v]
               PROVE  LockHolder(v)'
    BY DEF LockHolders
  <2>1. LockHolder(v) BY DEF LockHolders
  <2>2. \A e \in EpochID : SameEpoch(e) BY MapType DEF SameEpoch
  <2> QED BY <2>1, <2>2, LockFrame
<1> QED BY <1>1, <1>2, <1>3, <1>4, <1>5, <1>6, <1>7, <1>8, <1>9, <1>10

-----------------------------------------------------------------------------
(* Steps of the process and of the clock.                                  *)

\* SyncEpochToEbpf or the cleanup returns early and releases the user lock.
LEMMA ReleaseKeeps ==
  ASSUME IInv, NEW u \in Users, Release(u), UNCHANGED <<ledgerVars, flight, passed>>,
         UNCHANGED <<userBucket, bucketMeta, grants, grantKeys, usage, usageKeys>>,
         UNCHANGED <<mgr, todo, cfg, fatal, cleanup, day, grace, boot, crashes>>,
         ready' \in BOOLEAN, failing' \in BOOLEAN, faults' \in Nat
  PROVE  IInv'
<1> USE DEF Release, Goto, ledgerVars
<1>1. TypeOK'
  <2>1. NoLocals \in Locals BY BoundsAssumption DEF NoLocals, Locals, Days
  <2> QED BY <2>1 DEF IInv, TypeOK
<1>2. \A v \in Users : (pc'[v] = pc[v] /\ loc'[v] = loc[v]) \/ pc'[v] = "idle"
  BY DEF IInv, TypeOK
<1>3. day' >= day BY ClockType DEF IInv
<1> QED BY <1>1, <1>2, <1>3, IdleHolder, QuietStep

LEMMA ErrorReturnKeeps ==
  ASSUME IInv, NEW u \in Users, ErrorReturn(u), UNCHANGED envVars
  PROVE  IInv'
<1>1. ready' \in BOOLEAN /\ failing' \in BOOLEAN /\ faults' \in Nat
  BY DEF IInv, TypeOK, ErrorReturn, envVars
<1> QED BY <1>1, ReleaseKeeps DEF ErrorReturn, envVars, ledgerVars

LEMMA EarlyReturnKeeps ==
  ASSUME IInv, NEW u \in Users, CleanupFails(u) \/ ContextCancelled(u) \/ IOError(u)
  PROVE  IInv'
<1>1. CASE CleanupFails(u)
  BY <1>1, ReleaseKeeps DEF IInv, TypeOK, CleanupFails, mapVars, procVars, ledgerVars
<1>2. CASE ContextCancelled(u)
  BY <1>2, ReleaseKeeps DEF IInv, TypeOK, ContextCancelled, mapVars, procVars, ledgerVars
<1>3. CASE IOError(u)
  <2>1. ready' \in BOOLEAN
    <3>1. ready' = IF mgr = "starting" THEN FALSE ELSE ready BY <1>3 DEF IOError, ErrorReturn
    <3>2. ready \in BOOLEAN BY DEF IInv, TypeOK
    <3> QED BY <3>1, <3>2
  <2>2. failing' \in BOOLEAN BY <1>3 DEF IOError, ErrorReturn
  <2>3. faults' \in Nat BY <1>3 DEF IInv, TypeOK, IOError
  <2> QED BY <1>3, <2>1, <2>2, <2>3, ReleaseKeeps DEF IOError, ErrorReturn, ledgerVars
<1> QED BY <1>1, <1>2, <1>3

\* m.fail, a failed start, a crash, a start and the end of the starting refresh
LEMMA ProcessKeeps ==
  ASSUME IInv, Fail \/ StartupExit \/ Crash \/ StartRefused \/ Start \/ Enable
  PROVE  IInv'
<1> USE DEF Fail, StartupExit, Crash, StartRefused, Start, Enable, ProcessEnds,
            ledgerVars, mapVars, procVars, lockVars, envVars
<1>1. NoLocals \in Locals /\ NoCleanup \in Cleanup
  BY BoundsAssumption DEF NoLocals, Locals, NoCleanup, Cleanup, Days
<1>2. TypeOK'
  <2>1. CASE Fail BY <2>1 DEF IInv, TypeOK
  <2>2. CASE StartupExit BY <1>1, <2>2 DEF IInv, TypeOK
  <2>3. CASE Crash
    <3>1. crashes' \in Nat BY <2>3 DEF IInv, TypeOK
    <3>2. pc' \in [Users -> {"idle"} \cup SyncSteps \cup CleanupSteps] BY <2>3
    <3>3. loc' \in [Users -> Locals] /\ cleanup' \in [Users -> Cleanup] BY <1>1, <2>3
    <3> QED BY <3>1, <3>2, <3>3, <2>3 DEF IInv, TypeOK
  <2>4. CASE Start BY <2>4 DEF IInv, TypeOK
  <2>5. CASE Enable BY <2>5 DEF IInv, TypeOK
  <2>6. CASE StartRefused
    <3>1. faults' \in Nat BY <2>6 DEF IInv, TypeOK
    <3>2. ready \in BOOLEAN BY DEF IInv, TypeOK
    <3>3. ready' \in BOOLEAN BY <2>6, <3>2
    <3>4. UNCHANGED <<pc, loc, cleanup, procVars, day, grace, boot, crashes, passed, flight>> BY <2>6
    <3>5. UNCHANGED <<ledgerVars, userBucket, bucketMeta, grants, grantKeys, usage, usageKeys>> BY <2>6
    <3> QED BY <3>1, <3>3, <3>4, <3>5 DEF IInv, TypeOK
  <2> QED BY <2>1, <2>2, <2>3, <2>4, <2>5, <2>6
<1>3. \A v \in Users : (pc'[v] = pc[v] /\ loc'[v] = loc[v]) \/ pc'[v] = "idle"
  BY DEF IInv, TypeOK
<1>4. day' >= day
  <2>1. day' = day OBVIOUS
  <2> QED BY <2>1, ClockType DEF IInv
<1>5. UNCHANGED <<epochs, limits, userBucket, bucketMeta, grants, grantKeys>>
  OBVIOUS
<1>6. UNCHANGED <<usage, usageKeys, boot, passed, flight>>
  OBVIOUS
<1> QED BY ONLY <1>2, <1>3, <1>4, <1>5, <1>6, IdleHolder, QuietStep, IInv

LEMMA ClockKeeps ==
  ASSUME IInv, NextDay \/ GraceEnds
  PROVE  IInv'
<1> USE DEF NextDay, GraceEnds, ledgerVars, mapVars, procVars, lockVars
<1>1. TypeOK'
  <2>1. day' \in Days /\ grace' \in BOOLEAN
    <3>1. day \in Days BY DEF IInv, TypeOK
    <3>2. day' \in Days BY <3>1, BoundsAssumption DEF Days
    <3>3. grace' \in BOOLEAN OBVIOUS
    <3> QED BY <3>2, <3>3
  <2>2. CASE NextDay BY <2>1, <2>2 DEF IInv, TypeOK
  <2>3. CASE GraceEnds BY <2>1, <2>3 DEF IInv, TypeOK
  <2> QED BY <2>2, <2>3
<1>2. day' >= day BY ClockType DEF IInv
<1> QED BY <1>1, <1>2, QuietStep

-----------------------------------------------------------------------------
(* Packets.                                                                *)

LEMMA FetchKeeps ==
  ASSUME IInv, NEW c \in CPUs, NEW u \in Users, Fetch(c, u)
  PROVE  IInv'
<1> USE DEF Fetch, ledgerVars, mapVars, procVars, lockVars, envVars
<1> DEFINE b == userBucket[u]
<1>1. TypeOK'
  <2>1. b \in EpochID \cup {0} /\ grants[b] \in Nat
    BY LockType, MapType DEF IInv
  <2> QED BY <2>1 DEF IInv, TypeOK
<1>2. Flights'
  <2> SUFFICES ASSUME NEW d \in CPUs, flight'[d].bucket # 0
               PROVE  LET f == flight'[d].bucket IN
                      /\ HasRow(f) /\ epochs[f].boot = boot
                      /\ flight'[d].limit <= epochs[f].granted
                      /\ f \in grantKeys => flight'[d].limit <= grants[f]
                      /\ IsActive(f) => userBucket[epochs[f].user] = f
    BY DEF Flights, HasRow, IsActive
  <2>1. CASE d # c
    <3>1. flight'[d] = flight[d] BY <2>1 DEF IInv, TypeOK
    <3> QED BY <3>1 DEF IInv, Flights
  <2>2. CASE d = c
    <3>1. flight'[d].bucket = b /\ flight'[d].limit = grants[b]
      BY <2>2 DEF IInv, TypeOK
    <3>2. b \in EpochID BY LockType DEF IInv
    <3>3. HasRow(b) /\ epochs[b].boot = boot /\ epochs[b].user = u
          /\ grants[b] <= epochs[b].granted
      BY <3>2, NoZero DEF IInv, Entries, HasEntry, Complete
    <3> QED BY <3>1, <3>2, <3>3, MapType DEF IInv
  <2> QED BY <2>1, <2>2
<1>3. LockHolders' BY DEF IInv, LockHolders, LockHolder, SyncSteps, DayCaptured, PartialFound,
        LiveFound, Found, Complete, NoneStale, ActiveChosen, OldClosed, Building, Inserted,
        Snapshot, IsActive, ActiveOf, ActiveOn
<1>4. Rows' /\ OneActivePerDay' /\ HeldWithinLimit'
  BY DEF IInv, Rows, HasRow, OneActivePerDay, HeldWithinLimit
<1>5. Bytes' /\ Entries' /\ Pointers'
  BY DEF IInv, Bytes, HasRow, Entries, HasEntry, Pointers, Complete
<1>6. Unpublished' /\ Stale' BY DEF IInv, Unpublished, Stale, IsActive
<1> QED BY <1>1, <1>2, <1>3, <1>4, <1>5, <1>6 DEF IInv

LEMMA DropKeeps ==
  ASSUME IInv, NEW c \in CPUs, NEW n \in 1 .. MaxPacket, Drop(c, n)
  PROVE  IInv'
<1> USE DEF Drop, ledgerVars, mapVars, procVars, lockVars, envVars
<1>1. TypeOK' BY DEF IInv, TypeOK, Idle
<1>2. \A d \in CPUs : flight'[d] \in {flight[d], Idle} BY DEF IInv, TypeOK
<1>3. day' >= day BY ClockType DEF IInv
<1> QED BY <1>1, <1>2, <1>3, QuietStep

-----------------------------------------------------------------------------
(* Steps of SyncEpochToEbpf.                                               *)

\* A step under the lock of u leaves what the holders of other locks know.
LEMMA OthersKeep ==
  ASSUME IInv, TypeOK', NEW u \in Users, day' >= day, boot' = boot,
         \A v \in Users : v # u => /\ pc'[v] = pc[v] /\ loc'[v] = loc[v]
                                   /\ userBucket'[v] = userBucket[v],
         \A e \in EpochID : \/ SameEpoch(e)
                            \/ epochs[e].user \in {u, 0} /\ epochs'[e].user = u,
         LockHolder(u)'
  PROVE  LockHolders'
<1> SUFFICES ASSUME NEW v \in Users, v # u
             PROVE  LockHolder(v)'
  BY DEF LockHolders
<1>1. LockHolder(v) BY DEF IInv, LockHolders
<1>2. \A e \in EpochID : epochs[e].user = v \/ epochs'[e].user = v => SameEpoch(e)
  BY NoZero
<1>3. pc'[v] = pc[v] /\ loc'[v] = loc[v] /\ userBucket'[v] = userBucket[v] OBVIOUS
<1> QED BY ONLY <1>1, <1>2, <1>3, LockFrame, IInv, TypeOK', day' >= day, boot' = boot,
                v \in Users DEF IInv

LEMMA StartSyncKeeps ==
  ASSUME IInv, NEW u \in Users, StartSync(u)
  PROVE  IInv'
<1> USE DEF StartSync, Goto, ledgerVars, mapVars, envVars
<1> DEFINE new == [NoLocals EXCEPT !.day = day]
<1>0. loc \in [Users -> Locals] /\ day \in Days
      /\ pc \in [Users -> {"idle"} \cup SyncSteps \cup CleanupSteps]
  BY DEF IInv, TypeOK
<1>1. new \in Locals /\ new.day = day /\ new.live = FALSE
  BY <1>0, BoundsAssumption DEF NoLocals, Locals
<1>2. loc' = [loc EXCEPT ![u] = new] BY DEF NoLocals
<1> HIDE DEF new
<1>3. TypeOK'
  <2>1. pc' \in [Users -> {"idle"} \cup SyncSteps \cup CleanupSteps]
    BY <1>0 DEF SyncSteps
  <2>2. loc' \in [Users -> Locals] BY <1>0, <1>1, <1>2
  <2>3. todo' \in SUBSET Users BY DEF IInv, TypeOK
  <2> QED BY <2>1, <2>2, <2>3 DEF IInv, TypeOK
<1>4. LockHolder(u)'
  <2>1. pc'[u] = "lookup" /\ loc'[u] = new BY <1>0, <1>2
  <2>2. DayCaptured(u)' BY <2>1, <1>1, ClockType, RowType DEF IInv, DayCaptured, Rows
  <2> QED BY <2>1, <2>2, <1>1 DEF LockHolder, SyncSteps
<1>5. \A v \in Users : (pc'[v] = pc[v] /\ loc'[v] = loc[v]) \/ LockHolder(v)'
  BY <1>0, <1>2, <1>4
<1>6. day' >= day BY ClockType DEF IInv
<1>7. UNCHANGED <<epochs, limits, userBucket, bucketMeta, grants, grantKeys,
                  usage, usageKeys, boot, passed, flight>> OBVIOUS
<1> QED BY ONLY IInv, <1>3, <1>5, <1>6, <1>7, QuietStep

\* Once the inspected bucket is of this lifetime, no active epoch of the day is
\* of an earlier one.
LEMMA InspectedIsNewest ==
  ASSUME IInv, NEW u \in Users, DayCaptured(u), NEW b \in EpochID,
         epochs[b].user = u, epochs[b].boot = boot,
         \/ userBucket[u] = b
         \/ b \in ActiveOf(epochs, u)
            /\ \A e \in ActiveOf(epochs, u) : epochs[e].day <= epochs[b].day
  PROVE  NoneStale(u)
<1> SUFFICES ASSUME NEW e \in ActiveOn(epochs, u, loc[u].day), epochs[e].boot # boot
             PROVE  FALSE
  BY DEF NoneStale
<1>1. e \in EpochID /\ IsActive(e) /\ epochs[e].user = u /\ epochs[e].day = loc[u].day
  BY DEF ActiveOn, ActiveOf, IsActive
<1>2. epochs[b].day <= loc[u].day BY DEF DayCaptured
<1>3. CASE userBucket[u] = b
  <2>1. epochs[e].day < epochs[b].day BY <1>1, <1>3, NoZero DEF IInv, Stale
  <2> QED BY <2>1, <1>1, <1>2, RowType DEF IInv
<1>4. CASE b \in ActiveOf(epochs, u) /\ \A f \in ActiveOf(epochs, u) : epochs[f].day <= epochs[b].day
  <2>1. epochs[e].day <= epochs[b].day BY <1>1, <1>4 DEF ActiveOn
  <2>2. epochs[e].day = epochs[b].day BY <2>1, <1>1, <1>2, RowType DEF IInv
  <2>3. e = b BY <2>2, <1>1, <1>4 DEF IInv, OneActivePerDay, ActiveOf, IsActive
  <2> QED BY <2>3
<1> QED BY <1>3, <1>4

LEMMA LookupKeeps ==
  ASSUME IInv, NEW u \in Users, LookupBucket(u)
  PROVE  IInv'
<1> USE DEF Goto, ledgerVars, envVars
<1>0. /\ loc \in [Users -> Locals] /\ ready \in BOOLEAN /\ failing \in BOOLEAN
      /\ pc \in [Users -> {"idle"} \cup SyncSteps \cup CleanupSteps]
  BY DEF IInv, TypeOK
<1>1. PICK b \in EpochID \cup {0} :
        /\ IsBucketToInspect(u, b)
        /\ \/ /\ Absent(b)
              /\ Goto(u, "closeLost")
              /\ loc' = [loc EXCEPT ![u].bucket = b]
              /\ UNCHANGED <<failing, ready>>
           \/ /\ ~Absent(b) /\ ~Complete(b)
              /\ Goto(u, "deletePartial")
              /\ loc' = [loc EXCEPT ![u].bucket = b]
              /\ UNCHANGED <<failing, ready>>
           \/ /\ Complete(b) /\ bucketMeta[b] = u
              /\ Goto(u, "ensure")
              /\ loc' = [loc EXCEPT ![u].bucket = b, ![u].live = TRUE,
                                    ![u].grant = grants[b],
                                    ![u].rx = usage[b].rx, ![u].tx = usage[b].tx]
              /\ UNCHANGED <<failing, ready>>
           \/ /\ Release(u) /\ failing' = TRUE
              /\ ready' = IF mgr = "starting" THEN FALSE ELSE ready
  BY DEF LookupBucket
<1>2. /\ pc[u] = "lookup" /\ UNCHANGED <<ledgerVars, userBucket, bucketMeta, grants, grantKeys>>
      /\ UNCHANGED <<usage, usageKeys, flight, mgr, todo, cfg, fatal, cleanup, envVars, passed>>
  BY DEF LookupBucket
<1>3. DayCaptured(u) /\ ~loc[u].live
  BY <1>2 DEF IInv, LockHolders, LockHolder, SyncSteps
<1>4. userBucket[u] # 0 => b = userBucket[u] /\ Complete(b) /\ bucketMeta[b] = u
  BY <1>1 DEF IInv, Pointers, IsBucketToInspect
<1>5. userBucket[u] = 0 => IsLatestActive(epochs, u, b)
  BY <1>1 DEF IsBucketToInspect
<1>6. day' >= day BY <1>2, ClockType DEF IInv
<1>7. ASSUME NEW l \in Locals, NEW s \in {"closeLost", "deletePartial", "ensure"},
             loc' = [loc EXCEPT ![u] = l], Goto(u, s), UNCHANGED <<failing, ready>>,
             LockHolder(u)'
      PROVE  IInv'
  <2>1. TypeOK' BY <1>7, <1>0, <1>2 DEF IInv, TypeOK, SyncSteps
  <2>2. \A v \in Users : (pc'[v] = pc[v] /\ loc'[v] = loc[v]) \/ LockHolder(v)'
    BY <1>7, <1>0
  <2> QED BY <2>1, <2>2, <1>2, <1>6, QuietStep
<1>8. loc[u] \in Locals /\ loc[u].day \in Nat BY <1>0, LockType DEF IInv
<1>9. ASSUME NEW l \in Locals, loc' = [loc EXCEPT ![u] = l], l.day = loc[u].day
      PROVE  loc'[u] = l /\ DayCaptured(u)'
  BY <1>9, <1>3, <1>2, <1>0 DEF DayCaptured
<1>10. CASE /\ Absent(b) /\ Goto(u, "closeLost") /\ loc' = [loc EXCEPT ![u].bucket = b]
            /\ UNCHANGED <<failing, ready>>
  <2> DEFINE l == [loc[u] EXCEPT !.bucket = b]
  <2>1. l \in Locals /\ l.day = loc[u].day /\ l.live = loc[u].live BY <1>8 DEF Locals
  <2>2. loc' = [loc EXCEPT ![u] = l] BY <1>10
  <2>3. userBucket'[u] = 0 BY <1>2, <1>4, <1>10 DEF Absent, Complete
  <2>4. loc'[u] = l /\ DayCaptured(u)' BY ONLY <2>1, <2>2, <1>9
  <2>5. pc'[u] = "closeLost" BY <1>10, <1>0
  <2>6. LockHolder(u)' BY <2>1, <2>3, <2>4, <2>5, <1>3 DEF LockHolder, SyncSteps
  <2> QED BY <2>1, <2>2, <2>6, <1>7, <1>10
<1>11. CASE /\ ~Absent(b) /\ ~Complete(b)
            /\ Goto(u, "deletePartial") /\ loc' = [loc EXCEPT ![u].bucket = b]
            /\ UNCHANGED <<failing, ready>>
  <2> DEFINE l == [loc[u] EXCEPT !.bucket = b]
  <2>1. l \in Locals /\ l.day = loc[u].day /\ l.live = loc[u].live /\ l.bucket = b
    BY <1>8, <1>1 DEF Locals
  <2>2. loc' = [loc EXCEPT ![u] = l] BY <1>11
  <2>3. userBucket[u] = 0 BY <1>4, <1>11
  <2>4. loc'[u] = l /\ DayCaptured(u)' BY ONLY <2>1, <2>2, <1>9
  <2>5. pc'[u] = "deletePartial" BY <1>11, <1>0
  <2>6. b # 0 /\ b \in EpochID /\ HasEntry(b) BY <1>11, <1>1 DEF Absent, HasEntry
  <2>7. epochs[b].boot = boot BY <2>6 DEF IInv, Entries
  <2>8. b \in ActiveOf(epochs, u) /\ \A e \in ActiveOf(epochs, u) : epochs[e].day <= epochs[b].day
    BY <2>6, <2>3, <1>5, RowType DEF IInv, IsLatestActive, ActiveOf
  <2>9. PartialFound(u)'
    BY <2>1, <2>3, <2>4, <2>6, <2>7, <2>8, <1>2, <1>3 DEF PartialFound, ActiveOf
  <2>10. LockHolder(u)' BY <2>4, <2>5, <2>9 DEF LockHolder, SyncSteps
  <2> QED BY <2>1, <2>2, <2>10, <1>7, <1>11
<1>12. CASE /\ Complete(b) /\ bucketMeta[b] = u /\ Goto(u, "ensure")
            /\ loc' = [loc EXCEPT ![u].bucket = b, ![u].live = TRUE, ![u].grant = grants[b],
                                  ![u].rx = usage[b].rx, ![u].tx = usage[b].tx]
            /\ UNCHANGED <<failing, ready>>
  <2> DEFINE l == [loc[u] EXCEPT !.bucket = b, !.live = TRUE, !.grant = grants[b],
                                 !.rx = usage[b].rx, !.tx = usage[b].tx]
  <2>0. b \in EpochID /\ b # 0 BY <1>12, <1>1 DEF Complete
  <2>1. l \in Locals BY <1>8, <2>0, MapType DEF IInv, Locals
  <2>2. /\ l.day = loc[u].day /\ l.live /\ l.bucket = b
        /\ l.grant = grants[b] /\ l.rx = usage[b].rx /\ l.tx = usage[b].tx
    BY <1>8 DEF Locals
  <2>3. loc' = [loc EXCEPT ![u] = l] BY <1>12, <1>0, <1>8 DEF Locals
  <2> HIDE DEF l
  <2>4. loc'[u] = l /\ DayCaptured(u)' BY ONLY <2>1, <2>2, <2>3, <1>9
  <2>5. pc'[u] = "ensure" BY <1>12, <1>0
  <2>6. epochs[b].boot = boot /\ epochs[b].user = u /\ passed[b] <= grants[b]
    BY <2>0, <1>12, NoZero DEF IInv, Entries, HasEntry, Complete
  <2>7. /\ usage[b].rx + usage[b].tx <= grants[b]
        /\ epochs[b].rx <= usage[b].rx /\ epochs[b].tx <= usage[b].tx
    BY <2>0, <2>6 DEF IInv, Bytes, Used
  <2>8. LiveFound(u)'
    BY <2>0, <2>2, <2>4, <2>7, <1>2, <1>4, <1>12, MapType DEF IInv, LiveFound, Complete
  <2>9. \/ userBucket[u] = b
        \/ b \in ActiveOf(epochs, u)
           /\ \A e \in ActiveOf(epochs, u) : epochs[e].day <= epochs[b].day
    BY <2>0, <1>4, <1>5, RowType DEF IInv, IsLatestActive, ActiveOf
  <2>10. NoneStale(u) BY ONLY <2>0, <2>6, <2>9, <1>3, IInv, InspectedIsNewest, u \in Users
  <2>11. NoneStale(u)' BY <2>10, <2>2, <2>4, <1>2 DEF NoneStale, ActiveOn, ActiveOf
  <2>12. LockHolder(u)' BY <2>2, <2>4, <2>5, <2>8, <2>11 DEF LockHolder, SyncSteps, Found
  <2> QED BY <2>1, <2>3, <2>12, <1>7, <1>12
<1>13. CASE /\ Release(u) /\ failing' = TRUE
            /\ ready' = IF mgr = "starting" THEN FALSE ELSE ready
  <2>1. ready' \in BOOLEAN BY <1>13, <1>0
  <2>2. failing' \in BOOLEAN /\ faults' \in Nat BY <1>13, <1>2 DEF IInv, TypeOK
  <2> QED BY <2>1, <2>2, <1>2, <1>13, ReleaseKeeps
<1> QED BY <1>1, <1>10, <1>11, <1>12, <1>13

\* deleteBucket on an epoch that is not published.
LEMMA DeleteEntryKeeps ==
  ASSUME IInv, NEW u \in Users, NEW b \in EpochID, epochs[b].user = u, userBucket[u] # b,
         DeleteEntry(b), UNCHANGED <<ledgerVars, ready, userBucket, usage, flight, procVars>>,
         UNCHANGED <<lockVars, envVars, passed>>, LockHolder(u)'
  PROVE  IInv'
<1> USE DEF ledgerVars, procVars, lockVars, envVars
<1>0. /\ bucketMeta \in [EpochID -> Users \cup {0}] /\ grants \in [EpochID -> Nat]
      /\ grantKeys \in SUBSET EpochID /\ usageKeys \in SUBSET EpochID
  BY DEF IInv, TypeOK
<1>1. /\ bucketMeta' = [bucketMeta EXCEPT ![b] = 0]
      /\ grantKeys' \in SUBSET grantKeys /\ usageKeys' \in SUBSET usageKeys
      /\ grants' \in [EpochID -> Nat]
      /\ \A e \in EpochID : e # b => /\ grants'[e] = grants[e] /\ (e \in grantKeys' <=> e \in grantKeys)
                                     /\ (e \in usageKeys' <=> e \in usageKeys)
      /\ b \in grantKeys' => grants'[b] = grants[b]
  BY <1>0 DEF DeleteEntry
<1>2. TypeOK'
  <2>1. /\ bucketMeta' \in [EpochID -> Users \cup {0}]
        /\ grantKeys' \in SUBSET EpochID /\ usageKeys' \in SUBSET EpochID
    BY <1>0, <1>1
  <2> QED BY <2>1, <1>1 DEF IInv, TypeOK
<1>3. \A e \in EpochID : SameEpoch(e) \/ e = b
  BY <1>0, <1>1, MapType DEF IInv, SameEpoch
<1>4. Entries' BY <1>0, <1>1 DEF IInv, Entries, HasEntry, HasRow
<1>5. Pointers'
  <2> SUFFICES ASSUME NEW v \in Users, userBucket[v] # 0
               PROVE  (Complete(userBucket[v]) /\ bucketMeta[userBucket[v]] = v)'
    BY DEF Pointers
  <2>1. userBucket[v] \in EpochID BY LockType DEF IInv
  <2>2. Complete(userBucket[v]) /\ bucketMeta[userBucket[v]] = v BY DEF IInv, Pointers
  <2>3. userBucket[v] # b BY <2>1, <2>2, NoZero DEF IInv, Entries, Complete
  <2> QED BY <2>1, <2>2, <2>3, <1>0, <1>1 DEF Complete
<1>6. Flights'
  <2> SUFFICES ASSUME NEW c \in CPUs, flight[c].bucket # 0, flight[c].bucket \in grantKeys'
               PROVE  flight[c].limit <= grants'[flight[c].bucket]
    BY DEF IInv, Flights, HasRow, IsActive
  <2> QED BY <1>0, <1>1, FlightType DEF IInv, Flights
<1>7. Rows' /\ OneActivePerDay' /\ HeldWithinLimit' /\ Bytes' /\ Unpublished' /\ Stale'
  BY DEF IInv, Rows, OneActivePerDay, HeldWithinLimit, Bytes, Unpublished, Stale, HasRow, IsActive
<1>8. day' >= day BY ClockType DEF IInv
<1>9. LockHolders' BY <1>2, <1>3, <1>8, OthersKeep
<1> QED BY <1>2, <1>4, <1>5, <1>6, <1>7, <1>9 DEF IInv

LEMMA DeletePartialKeeps ==
  ASSUME IInv, NEW u \in Users, DeletePartial(u)
  PROVE  IInv'
<1> USE DEF DeletePartial
<1> DEFINE b == loc[u].bucket
<1>0. pc \in [Users -> {"idle"} \cup SyncSteps \cup CleanupSteps] BY DEF IInv, TypeOK
<1>1. DayCaptured(u) /\ PartialFound(u)
  BY DEF IInv, LockHolders, LockHolder, SyncSteps
<1>2. b \in EpochID /\ epochs[b].user = u /\ epochs[b].boot = boot /\ userBucket[u] = 0 /\ b # 0
  BY <1>1, LockType DEF IInv, PartialFound, ActiveOf
<1>3. CASE ~Absent(b) /\ DeleteEntry(b) /\ UNCHANGED pc
  <2>1. LockHolder(u)'
    <3>1. PartialFound(u)' /\ DayCaptured(u)'
      BY <1>1 DEF PartialFound, DayCaptured, ActiveOf, ledgerVars, envVars
    <3> QED BY <3>1, <1>3 DEF LockHolder, SyncSteps
  <2> QED BY <2>1, <1>2, <1>3, DeleteEntryKeeps DEF lockVars
<1>4. CASE /\ Absent(b) /\ Goto(u, "ensure")
           /\ UNCHANGED <<bucketMeta, grants, grantKeys, usageKeys>>
  <2> USE DEF ledgerVars, procVars, envVars
  <2>1. TypeOK'
    <3>1. pc' \in [Users -> {"idle"} \cup SyncSteps \cup CleanupSteps]
      BY <1>0, <1>4 DEF Goto, SyncSteps
    <3> QED BY <3>1, <1>4 DEF IInv, TypeOK
  <2>2. NoneStale(u)
    <3>1. b \in ActiveOf(epochs, u)
          /\ \A e \in ActiveOf(epochs, u) : epochs[e].day <= epochs[b].day
      BY <1>1 DEF PartialFound
    <3> QED BY ONLY IInv, u \in Users, <1>1, <1>2, <3>1, InspectedIsNewest
  <2>3. LockHolder(u)'
    <3>1. pc'[u] = "ensure" BY <1>0, <1>4 DEF Goto
    <3>2. DayCaptured(u)' BY <1>1 DEF DayCaptured
    <3>3. NoneStale(u)' BY <2>2 DEF NoneStale, ActiveOn, ActiveOf
    <3>4. Found(u)' BY <1>1, <1>2 DEF Found, PartialFound
    <3> QED BY <3>1, <3>2, <3>3, <3>4 DEF LockHolder, SyncSteps
  <2>4. \A v \in Users : (pc'[v] = pc[v] /\ loc'[v] = loc[v]) \/ LockHolder(v)'
    BY <2>3, <1>0, <1>4 DEF Goto
  <2>5. day' >= day BY ClockType DEF IInv
  <2> QED BY <2>1, <2>4, <2>5, <1>4, QuietStep
<1> QED BY <1>3, <1>4

\* Closing epochs of u that are not published.
LEMMA CloseKeeps ==
  ASSUME IInv, NEW u \in Users, NEW S \in SUBSET EpochID,
         \A e \in S : HasRow(e) /\ epochs[e].user = u,
         epochs' = Close(epochs, S), TypeOK',
         UNCHANGED <<limits, mapVars, flight, envVars, passed>>,
         \A v \in Users : v # u => pc'[v] = pc[v] /\ loc'[v] = loc[v],
         LockHolder(u)'
  PROVE  IInv'
<1> USE DEF mapVars, envVars
<1>0. epochs \in [EpochID -> Row] /\ epochs' \in [EpochID -> Row] BY DEF IInv, TypeOK
<1>1. \A e \in EpochID :
        /\ epochs'[e].user = epochs[e].user /\ epochs'[e].day = epochs[e].day
        /\ epochs'[e].granted = epochs[e].granted /\ epochs'[e].boot = epochs[e].boot
        /\ epochs'[e].rx = epochs[e].rx /\ epochs'[e].tx = epochs[e].tx
        /\ epochs'[e].status = "active" => epochs[e].status = "active"
        /\ epochs'[e].status = "none" <=> epochs[e].status = "none"
        /\ e \notin S => epochs'[e] = epochs[e]
  BY <1>0 DEF Close, Row, HasRow
<1>2. Rows'
  <2> SUFFICES ASSUME NEW e \in EpochID
               PROVE  /\ epochs'[e].status = "none" => epochs'[e] = NoRow
                      /\ epochs'[e].status # "none" => epochs'[e].user \in Users
                      /\ epochs'[e].day <= day /\ epochs'[e].boot <= boot
    BY DEF Rows, HasRow
  <2>1. e \in S => epochs[e].status # "none" BY DEF HasRow
  <2> QED BY <2>1, <1>1 DEF IInv, Rows, HasRow
<1>3. OneActivePerDay' BY <1>1 DEF IInv, OneActivePerDay
<1>4. HeldWithinLimit'
  <2> SUFFICES ASSUME NEW v \in Users, NEW d \in Days
               PROVE  Held(epochs', v, d) <= limits[v][d]
    BY DEF HeldWithinLimit
  <2>1. epochs \in Table /\ epochs' \in Table BY <1>0 DEF Table
  <2>2. Held(epochs', v, d) <= Held(epochs, v, d)
    BY <2>1, <1>1, RowType, HeldMonotone DEF IInv
  <2>3. Held(epochs', v, d) \in Nat /\ Held(epochs, v, d) \in Nat BY <2>1, HeldType
  <2>4. Held(epochs, v, d) <= limits[v][d] /\ limits[v][d] \in Nat
    BY DEF IInv, HeldWithinLimit, TypeOK
  <2> QED BY <2>2, <2>3, <2>4
<1>5. Bytes' BY <1>1 DEF IInv, Bytes, HasRow, Used
<1>6. Entries' BY <1>1 DEF IInv, Entries, HasEntry, HasRow
<1>7. Pointers' BY DEF IInv, Pointers, Complete
<1>8. Flights'
  <2> SUFFICES ASSUME NEW c \in CPUs, flight[c].bucket # 0
               PROVE  LET f == flight[c].bucket IN
                      /\ epochs'[f].status # "none" /\ epochs'[f].boot = boot
                      /\ flight[c].limit <= epochs'[f].granted
                      /\ f \in grantKeys => flight[c].limit <= grants[f]
                      /\ epochs'[f].status = "active" => userBucket[epochs'[f].user] = f
    BY DEF Flights, HasRow, IsActive
  <2>1. flight[c].bucket \in EpochID BY FlightType DEF IInv
  <2> QED BY <2>1, <1>1 DEF IInv, Flights, HasRow, IsActive
<1>9. Unpublished' BY <1>1 DEF IInv, Unpublished, IsActive
<1>10. Stale'
  <2> SUFFICES ASSUME NEW e \in EpochID, epochs'[e].status = "active", epochs'[e].boot # boot,
                      userBucket[epochs'[e].user] # 0
               PROVE  epochs'[e].day < epochs'[userBucket[epochs'[e].user]].day
    BY DEF Stale, IsActive
  <2>1. epochs[e].user \in Users BY <1>1 DEF IInv, Rows, HasRow
  <2>2. userBucket[epochs[e].user] \in EpochID BY <2>1, <1>1, LockType DEF IInv
  <2> QED BY <2>2, <1>1 DEF IInv, Stale, IsActive
<1>11. LockHolders'
  <2>1. \A e \in EpochID : \/ SameEpoch(e)
                           \/ epochs[e].user \in {u, 0} /\ epochs'[e].user = u
    BY <1>1, MapType DEF IInv, SameEpoch
  <2>2. day' >= day BY ClockType DEF IInv
  <2> QED BY <2>1, <2>2, OthersKeep
<1> QED BY <1>2, <1>3, <1>4, <1>5, <1>6, <1>7, <1>8, <1>9, <1>10, <1>11 DEF IInv

LEMMA CloseLostKeeps ==
  ASSUME IInv, NEW u \in Users, CloseLost(u)
  PROVE  IInv'
<1> USE DEF CloseLost, Goto, mapVars, procVars, envVars
<1> DEFINE S == LostEpochs(u, loc[u].day)
<1>0. /\ pc \in [Users -> {"idle"} \cup SyncSteps \cup CleanupSteps]
      /\ epochs \in [EpochID -> Row]
  BY DEF IInv, TypeOK
<1>1. S \in SUBSET EpochID /\ \A e \in S : HasRow(e) /\ epochs[e].user = u
  BY DEF LostEpochs, ActiveOn, ActiveOf, HasRow
<1>2. epochs' \in [EpochID -> Row] BY <1>0 DEF Close, Row
<1>3. TypeOK'
  <2>1. pc' \in [Users -> {"idle"} \cup SyncSteps \cup CleanupSteps] BY <1>0 DEF SyncSteps
  <2> QED BY <1>2, <2>1 DEF IInv, TypeOK
<1>4. DayCaptured(u) /\ ~loc[u].live /\ userBucket[u] = 0
  BY DEF IInv, LockHolders, LockHolder, SyncSteps
<1>5. \A e \in EpochID : /\ epochs'[e].user = epochs[e].user /\ epochs'[e].day = epochs[e].day
                         /\ e \in S => epochs'[e].status = "closed"
                         /\ e \notin S => epochs'[e] = epochs[e]
  BY <1>0 DEF Close, Row
<1>6. LockHolder(u)'
  <2>1. pc'[u] = "ensure" BY <1>0
  <2>2. DayCaptured(u)' BY <1>4, <1>5 DEF DayCaptured
  <2>3. NoneStale(u)' BY <1>5 DEF NoneStale, ActiveOn, ActiveOf, LostEpochs
  <2>4. Found(u)' BY <1>4 DEF Found
  <2> QED BY <2>1, <2>2, <2>3, <2>4 DEF LockHolder, SyncSteps
<1>7. \A v \in Users : v # u => pc'[v] = pc[v] /\ loc'[v] = loc[v] BY <1>0
<1> QED BY <1>1, <1>3, <1>6, <1>7, CloseKeeps

\* What follows from the bucket found complete.
LEMMA LiveBucket ==
  ASSUME IInv, NEW u \in Users, LiveFound(u)
  PROVE  /\ loc[u].bucket \in EpochID /\ loc[u].bucket \in grantKeys
         /\ epochs[loc[u].bucket].user = u /\ epochs[loc[u].bucket].boot = boot
         /\ HasRow(loc[u].bucket)
<1>1. loc[u].bucket \in EpochID BY LockType DEF IInv, LiveFound
<1> QED BY <1>1, NoZero DEF IInv, LiveFound, Complete, Entries, HasEntry

\* ledger.ensure inserts a row that has authorised and confirmed nothing.
LEMMA InsertKeeps ==
  ASSUME IInv, NEW u \in Users, NEW e \in EpochID, ~HasRow(e),
         ActiveOn(epochs, u, loc[u].day) = {}, DayCaptured(u),
         epochs' = [epochs EXCEPT ![e] = NewRow(u, loc[u].day, boot)],
         TypeOK', UNCHANGED <<mapVars, flight, envVars, passed>>,
         \A v \in Users, d \in Days : limits'[v][d] >= limits[v][d],
         \A v \in Users : v # u => pc'[v] = pc[v] /\ loc'[v] = loc[v],
         LockHolder(u)'
  PROVE  IInv'
<1> USE DEF mapVars, envVars
<1>0. epochs \in [EpochID -> Row] /\ epochs' \in [EpochID -> Row] BY DEF IInv, TypeOK
<1>1. /\ epochs'[e].user = u /\ epochs'[e].day = loc[u].day /\ epochs'[e].status = "active"
      /\ epochs'[e].granted = 0 /\ epochs'[e].rx = 0 /\ epochs'[e].tx = 0
      /\ epochs'[e].boot = boot
      /\ \A f \in EpochID : f # e => epochs'[f] = epochs[f]
  BY <1>0 DEF NewRow
<1>2. /\ epochs[e] = NoRow /\ usage[e] = NoCount /\ ~HasEntry(e) /\ passed[e] = 0
  <2>1. epochs[e] = NoRow /\ usage[e] = NoCount /\ ~HasEntry(e)
    BY DEF IInv, Rows, Bytes, Entries
  <2> QED BY <2>1, MapType DEF IInv, Bytes, NoRow
<1>3. Rows' BY <1>1, ClockType DEF IInv, Rows, HasRow, DayCaptured
<1>4. OneActivePerDay'
  <2>1. \A f \in EpochID : ~(epochs[f].status = "active" /\ epochs[f].user = u
                             /\ epochs[f].day = loc[u].day)
    BY DEF ActiveOn, ActiveOf
  <2> QED BY <2>1, <1>1 DEF IInv, OneActivePerDay
<1>5. HeldWithinLimit'
  <2> SUFFICES ASSUME NEW v \in Users, NEW d \in Days
               PROVE  Held(epochs', v, d) <= limits'[v][d]
    BY DEF HeldWithinLimit
  <2>1. epochs \in Table /\ epochs' \in Table BY <1>0 DEF Table
  <2>2. Held(epochs', v, d) <= Held(epochs, v, d)
    <3>1. \A f \in EpochID : epochs'[f].user = v /\ epochs'[f].day = d =>
            \/ epochs'[f].granted = 0
            \/ /\ epochs[f].user = v /\ epochs[f].day = d
               /\ epochs'[f].granted <= epochs[f].granted
      BY <1>1, RowType DEF IInv
    <3> QED BY ONLY <2>1, <3>1, HeldMonotone
  <2>3. Held(epochs', v, d) \in Nat /\ Held(epochs, v, d) \in Nat BY <2>1, HeldType
  <2>4. Held(epochs, v, d) <= limits[v][d] /\ limits[v][d] \in Nat
    BY DEF IInv, HeldWithinLimit, TypeOK
  <2>5. limits'[v][d] \in Nat /\ limits'[v][d] >= limits[v][d] BY DEF TypeOK
  <2> QED BY <2>2, <2>3, <2>4, <2>5
<1>6. Bytes' BY <1>1, <1>2 DEF IInv, Bytes, HasRow, Used, NoCount
<1>7. Entries' BY <1>1, <1>2 DEF IInv, Entries, HasEntry, HasRow
<1>8. Pointers' BY DEF IInv, Pointers, Complete
<1>9. Flights'
  <2> SUFFICES ASSUME NEW c \in CPUs, flight[c].bucket # 0
               PROVE  LET f == flight[c].bucket IN
                      /\ epochs'[f].status # "none" /\ epochs'[f].boot = boot
                      /\ flight[c].limit <= epochs'[f].granted
                      /\ f \in grantKeys => flight[c].limit <= grants[f]
                      /\ epochs'[f].status = "active" => userBucket[epochs'[f].user] = f
    BY DEF Flights, HasRow, IsActive
  <2>1. flight[c].bucket \in EpochID /\ flight[c].bucket # e
    BY FlightType DEF IInv, Flights
  <2> QED BY <2>1, <1>1 DEF IInv, Flights, HasRow, IsActive
<1>10. Unpublished' BY <1>1, <1>2 DEF IInv, Unpublished, IsActive
<1>11. Stale'
  <2> SUFFICES ASSUME NEW f \in EpochID, epochs'[f].status = "active", epochs'[f].boot # boot,
                      userBucket[epochs'[f].user] # 0
               PROVE  epochs'[f].day < epochs'[userBucket[epochs'[f].user]].day
    BY DEF Stale, IsActive
  <2>1. f # e /\ epochs'[f] = epochs[f] BY <1>1
  <2>2. epochs[f].user \in Users BY <2>1 DEF IInv, Rows, HasRow
  <2>3. userBucket[epochs[f].user] \in EpochID BY <2>1, <2>2, LockType DEF IInv
  <2>4. HasEntry(userBucket[epochs[f].user]) BY <2>1, <2>2 DEF IInv, Pointers, Complete, HasEntry
  <2> QED BY <2>1, <2>3, <2>4, <1>1, <1>2 DEF IInv, Stale, IsActive
<1>12. LockHolders'
  <2>1. \A f \in EpochID : \/ SameEpoch(f)
                           \/ epochs[f].user \in {u, 0} /\ epochs'[f].user = u
    BY <1>1, <1>2, MapType DEF IInv, SameEpoch, NoRow
  <2>2. day' >= day BY ClockType DEF IInv
  <2> QED BY <2>1, <2>2, OthersKeep
<1> QED BY <1>3, <1>4, <1>5, <1>6, <1>7, <1>8, <1>9, <1>10, <1>11, <1>12 DEF IInv

LEMMA EnsureKeeps ==
  ASSUME IInv, NEW u \in Users, EnsureEpoch(u)
  PROVE  IInv'
<1> USE DEF Goto, mapVars, procVars, envVars
<1> DEFINE d == loc[u].day
<1>0. /\ pc \in [Users -> {"idle"} \cup SyncSteps \cup CleanupSteps]
      /\ epochs \in [EpochID -> Row] /\ limits \in [Users -> [Days -> Nat]]
      /\ loc \in [Users -> Locals] /\ cfg.limit \in Nat /\ d \in Days /\ boot \in Nat
  <2>1. cfg.limit \in Nat BY ConfigsAssumption DEF IInv, TypeOK, Config
  <2>2. loc[u] \in Locals BY DEF IInv, TypeOK
  <2> QED BY <2>1, <2>2 DEF IInv, TypeOK, Locals
<1>1. /\ pc[u] = "ensure" /\ UNCHANGED <<mapVars, flight, procVars, cleanup, envVars, passed>>
      /\ limits' = [limits EXCEPT ![u][d] = IF limits[u][d] = 0 THEN cfg.limit ELSE limits[u][d]]
  BY DEF EnsureEpoch, EnsureLimit
<1>2. PICK e \in EpochID :
        /\ \/ e \in ActiveOn(epochs, u, d) /\ UNCHANGED epochs
           \/ /\ ActiveOn(epochs, u, d) = {} /\ IsNewID(epochs, e)
              /\ epochs' = [epochs EXCEPT ![e] = NewRow(u, d, boot)]
        /\ loc' = [loc EXCEPT ![u].active = e]
        /\ pc' = [pc EXCEPT ![u] = AfterEnsure(loc[u], e)]
  BY DEF EnsureEpoch
<1>3. DayCaptured(u) /\ Found(u) /\ NoneStale(u)
  BY <1>1 DEF IInv, LockHolders, LockHolder, SyncSteps
<1>4. limits' \in [Users -> [Days -> Nat]]
      /\ \A v \in Users, x \in Days : limits'[v][x] >= limits[v][x]
  BY <1>0, <1>1
<1>5. /\ loc' \in [Users -> Locals] /\ loc'[u].active = e /\ loc'[u].day = loc[u].day
      /\ loc'[u].live = loc[u].live /\ loc'[u].bucket = loc[u].bucket
      /\ loc'[u].grant = loc[u].grant /\ loc'[u].rx = loc[u].rx /\ loc'[u].tx = loc[u].tx
      /\ \A v \in Users : v # u => loc'[v] = loc[v]
  <2> DEFINE new == [loc[u] EXCEPT !.active = e]
  <2>1. loc[u] \in Locals BY <1>0
  <2>2. /\ new \in Locals /\ new.active = e /\ new.day = loc[u].day /\ new.live = loc[u].live
        /\ new.bucket = loc[u].bucket /\ new.grant = loc[u].grant
        /\ new.rx = loc[u].rx /\ new.tx = loc[u].tx
    BY <2>1 DEF Locals
  <2>3. loc' = [loc EXCEPT ![u] = new] BY <1>2
  <2> HIDE DEF new
  <2> QED BY <2>2, <2>3, <1>0
<1>6. /\ pc' \in [Users -> {"idle"} \cup SyncSteps \cup CleanupSteps] /\ pc'[u] = AfterEnsure(loc[u], e)
      /\ \A v \in Users : v # u => pc'[v] = pc[v]
  BY <1>0, <1>2 DEF SyncSteps, AfterEnsure
<1>7. ASSUME NEW f \in EpochID, HasRow(f)
      PROVE  epochs'[f] = epochs[f]
  BY <1>0, <1>2, <1>7 DEF IsNewID, HasRow
<1>8. /\ epochs' \in [EpochID -> Row] /\ epochs'[e].status = "active"
      /\ epochs'[e].user = u /\ epochs'[e].day = d /\ epochs'[e].boot = boot
  <2>1. CASE e \in ActiveOn(epochs, u, d) /\ UNCHANGED epochs
    BY <2>1, <1>0, <1>3 DEF ActiveOn, ActiveOf, NoneStale
  <2>2. CASE epochs' = [epochs EXCEPT ![e] = NewRow(u, d, boot)]
    <3>1. NewRow(u, d, boot) \in Row BY <1>0 DEF NewRow, Row
    <3> QED BY <3>1, <2>2, <1>0 DEF NewRow
  <2> QED BY <2>1, <2>2, <1>2
<1>9. TypeOK' BY <1>1, <1>4, <1>5, <1>6, <1>8 DEF IInv, TypeOK
<1>10. DayCaptured(u)'
  <2>1. \A f \in EpochID : f # e => epochs'[f] = epochs[f] BY <1>0, <1>2
  <2>2. \A f \in EpochID : epochs'[f].user = u => epochs'[f].day <= d
    BY <2>1, <1>3, <1>8, LockType DEF IInv, DayCaptured
  <2> QED BY <2>2, <1>1, <1>3, <1>5 DEF DayCaptured
<1>11. ActiveChosen(u)'
  BY <1>1, <1>5, <1>8, NoZero DEF ActiveChosen, ActiveOn, ActiveOf
<1>12. LiveFound(u) => LiveFound(u)'
  <2> HAVE LiveFound(u)
  <2>1. epochs'[loc[u].bucket] = epochs[loc[u].bucket] BY <1>7, LiveBucket
  <2> QED BY <2>1, <1>1, <1>5 DEF LiveFound, Complete
<1>13. LockHolder(u)'
  <2>1. CASE ~loc[u].live
    <3>1. pc'[u] = "initGrants" BY <1>6, <2>1 DEF AfterEnsure
    <3>2. userBucket[u] = 0 BY <1>3, <2>1 DEF Found
    <3>3. Building(u)' BY <1>1, <1>5, <1>11, <3>2, NoZero DEF Building, OldClosed
    <3> QED BY <3>1, <3>3, <1>10 DEF LockHolder, SyncSteps
  <2>2. CASE loc[u].live /\ loc[u].bucket # e
    <3>1. pc'[u] = "closeSnapshot" BY <1>6, <2>2 DEF AfterEnsure
    <3>2. LiveFound(u)' BY <1>3, <1>12, <2>2 DEF Found
    <3> QED BY <3>1, <3>2, <1>5, <1>10, <1>11, <2>2 DEF LockHolder, SyncSteps
  <2>3. CASE loc[u].live /\ loc[u].bucket = e
    <3>1. pc'[u] = "checkpoint" BY <1>6, <2>3 DEF AfterEnsure
    <3>2. LiveFound(u)' BY <1>3, <1>12, <2>3 DEF Found
    <3>3. Snapshot(u)' BY <3>2, <1>5, <2>3 DEF Snapshot, LiveFound
    <3>4. Inserted(u)'
      BY <3>2, <1>1, <1>5, <1>11, <2>3 DEF Inserted, OldClosed, LiveFound, Complete
    <3> QED BY <3>1, <3>3, <3>4, <1>10 DEF LockHolder, SyncSteps
  <2> QED BY <2>1, <2>2, <2>3
<1>14. CASE e \in ActiveOn(epochs, u, d) /\ UNCHANGED epochs
  <2>1. Rows' /\ OneActivePerDay' /\ Bytes' /\ Entries' /\ Pointers'
    BY <1>1, <1>14 DEF IInv, Rows, OneActivePerDay, Bytes, Entries, Pointers, HasRow,
                       HasEntry, Complete
  <2>2. Flights' /\ Unpublished' /\ Stale'
    BY <1>1, <1>14 DEF IInv, Flights, Unpublished, Stale, HasRow, IsActive
  <2>3. HeldWithinLimit'
    <3> SUFFICES ASSUME NEW v \in Users, NEW x \in Days
                 PROVE  Held(epochs, v, x) <= limits'[v][x]
      BY <1>14 DEF HeldWithinLimit
    <3>1. Held(epochs, v, x) \in Nat BY <1>0, HeldType DEF Table
    <3>2. Held(epochs, v, x) <= limits[v][x] BY DEF IInv, HeldWithinLimit
    <3>3. limits[v][x] \in Nat /\ limits'[v][x] \in Nat /\ limits'[v][x] >= limits[v][x]
      BY <1>0, <1>4
    <3> QED BY <3>1, <3>2, <3>3
  <2>4. LockHolders'
    <3>1. \A f \in EpochID : SameEpoch(f) BY <1>1, <1>14, MapType DEF IInv, SameEpoch
    <3>2. day' >= day BY <1>1, ClockType DEF IInv
    <3> QED BY <3>1, <3>2, <1>1, <1>5, <1>6, <1>9, <1>13, OthersKeep
  <2> QED BY <2>1, <2>2, <2>3, <2>4, <1>9 DEF IInv
<1>15. CASE /\ ActiveOn(epochs, u, d) = {} /\ IsNewID(epochs, e)
            /\ epochs' = [epochs EXCEPT ![e] = NewRow(u, d, boot)]
  <2>1. ~HasRow(e) BY <1>15 DEF IsNewID, HasRow
  <2>2. \A v \in Users : v # u => pc'[v] = pc[v] /\ loc'[v] = loc[v] BY <1>5, <1>6
  <2> QED BY <2>1, <2>2, <1>1, <1>3, <1>4, <1>9, <1>13, <1>15, InsertKeeps
<1> QED BY <1>2, <1>14, <1>15

\* closeSnapshot may return unused authorisation: no byte that passed and no
\* limit a CPU still holds exceeds the authorisation the kernel was given.
LEMMA CloseSnapshotKeeps ==
  ASSUME IInv, NEW u \in Users, CloseSnapshotStep(u)
  PROVE  IInv'
<1> USE DEF Goto, mapVars, procVars, envVars
<1> DEFINE l == loc[u]
           b == loc[u].bucket
<1>0. /\ pc \in [Users -> {"idle"} \cup SyncSteps \cup CleanupSteps]
      /\ epochs \in [EpochID -> Row] /\ loc \in [Users -> Locals]
  BY DEF IInv, TypeOK
<1>1. /\ DayCaptured(u) /\ LiveFound(u) /\ ActiveChosen(u) /\ loc[u].active # b
  BY DEF IInv, LockHolders, LockHolder, SyncSteps, CloseSnapshotStep
<1>2. /\ b \in EpochID /\ b \in grantKeys /\ epochs[b].user = u /\ epochs[b].boot = boot
      /\ HasRow(b)
  BY <1>1, LiveBucket
<1>3. CASE ErrorReturn(u)
  BY <1>3, ErrorReturnKeeps DEF CloseSnapshotStep
<1>4. CASE /\ SnapshotMatches(epochs, b, u, l.grant, l.rx, l.tx)
           /\ epochs' = CloseSnapshot(epochs, b, l.grant, l.rx, l.tx)
           /\ loc' = [loc EXCEPT ![u].live = FALSE]
           /\ Goto(u, "initGrants")
           /\ UNCHANGED <<limits, mapVars, flight, procVars, cleanup, passed>>
  <2>0. UNCHANGED envVars BY DEF CloseSnapshotStep
  <2>1. l.grant \in Nat /\ l.rx \in Nat /\ l.tx \in Nat BY LockType DEF IInv
  <2>2. /\ epochs' \in [EpochID -> Row]
        /\ epochs'[b].user = u /\ epochs'[b].day = epochs[b].day
        /\ epochs'[b].status = "closed" /\ epochs'[b].boot = boot
        /\ epochs'[b].granted = l.grant /\ epochs'[b].rx = l.rx /\ epochs'[b].tx = l.tx
        /\ \A e \in EpochID : e # b => epochs'[e] = epochs[e]
    BY <1>0, <1>2, <1>4, <2>1 DEF CloseSnapshot, Row
  <2>3. /\ l.grant = grants[b] /\ l.grant <= epochs[b].granted /\ l.rx + l.tx <= l.grant
        /\ passed[b] <= l.grant /\ l.rx + l.tx <= passed[b]
        /\ l.rx <= usage[b].rx /\ l.tx <= usage[b].tx
    <3>1. /\ l.grant = grants[b] /\ passed[b] <= grants[b] /\ grants[b] <= epochs[b].granted
          /\ l.rx + l.tx <= l.grant /\ l.rx <= usage[b].rx /\ l.tx <= usage[b].tx
      BY <1>1, <1>2 DEF IInv, LiveFound, Entries
    <3>2. usage[b].rx + usage[b].tx = passed[b] BY <1>2 DEF IInv, Bytes, Used
    <3> QED BY <3>1, <3>2, <1>2, <2>1, MapType DEF IInv
  <2>4. /\ pc' \in [Users -> {"idle"} \cup SyncSteps \cup CleanupSteps]
        /\ pc'[u] = "initGrants" /\ \A v \in Users : v # u => pc'[v] = pc[v]
    BY <1>0, <1>4 DEF SyncSteps
  <2>5. /\ loc' \in [Users -> Locals] /\ loc'[u].day = loc[u].day
        /\ loc'[u].active = loc[u].active /\ \A v \in Users : v # u => loc'[v] = loc[v]
    BY <1>0, <1>4 DEF Locals
  <2>6. TypeOK' BY <2>0, <2>2, <2>4, <2>5, <1>4 DEF IInv, TypeOK
  <2>7. Rows' /\ OneActivePerDay'
    BY <2>0, <2>2, <1>2 DEF IInv, Rows, OneActivePerDay, HasRow
  <2>8. HeldWithinLimit'
    <3> SUFFICES ASSUME NEW v \in Users, NEW x \in Days
                 PROVE  Held(epochs', v, x) <= limits[v][x]
      BY <1>4 DEF HeldWithinLimit
    <3>1. epochs \in Table /\ epochs' \in Table BY <1>0, <2>2 DEF Table
    <3>2. \A f \in EpochID : epochs'[f].user = v /\ epochs'[f].day = x =>
            /\ epochs[f].user = v /\ epochs[f].day = x
            /\ epochs'[f].granted <= epochs[f].granted
      BY <2>2, <2>3, <1>2, RowType DEF IInv
    <3>3. Held(epochs', v, x) <= Held(epochs, v, x) BY ONLY <3>1, <3>2, HeldMonotone
    <3>4. Held(epochs', v, x) \in Nat /\ Held(epochs, v, x) \in Nat BY <3>1, HeldType
    <3>5. Held(epochs, v, x) <= limits[v][x] /\ limits[v][x] \in Nat
      BY DEF IInv, HeldWithinLimit, TypeOK
    <3> QED BY <3>3, <3>4, <3>5
  <2>9. Bytes' BY <2>0, <2>2, <2>3, <1>2, <1>4 DEF IInv, Bytes, HasRow, Used
  <2>10. Entries'
    BY <2>0, <2>2, <2>3, <1>2, <1>4, MapType DEF IInv, Entries, HasEntry, HasRow
  <2>11. Pointers' BY <1>4 DEF IInv, Pointers, Complete
  <2>12. Flights'
    <3> SUFFICES ASSUME NEW c \in CPUs, flight[c].bucket # 0
                 PROVE  LET f == flight[c].bucket IN
                        /\ epochs'[f].status # "none" /\ epochs'[f].boot = boot
                        /\ flight[c].limit <= epochs'[f].granted
                        /\ f \in grantKeys => flight[c].limit <= grants[f]
                        /\ epochs'[f].status = "active" => userBucket[epochs'[f].user] = f
      BY <1>4, <2>0 DEF Flights, HasRow, IsActive
    <3>1. flight[c].bucket \in EpochID BY FlightType DEF IInv
    <3> QED BY <3>1, <2>2, <2>3, <1>2 DEF IInv, Flights, HasRow, IsActive
  <2>13. Unpublished' BY <2>0, <2>2, <1>2, <1>4 DEF IInv, Unpublished, IsActive
  <2>14. Stale'
    <3> SUFFICES ASSUME NEW f \in EpochID, epochs'[f].status = "active", epochs'[f].boot # boot,
                        userBucket[epochs'[f].user] # 0
                 PROVE  epochs'[f].day < epochs'[userBucket[epochs'[f].user]].day
      BY <1>4, <2>0 DEF Stale, IsActive
    <3>1. f # b /\ epochs'[f] = epochs[f] BY <2>2
    <3>2. epochs[f].user \in Users BY <3>1 DEF IInv, Rows, HasRow
    <3>3. userBucket[epochs[f].user] \in EpochID BY <3>1, <3>2, LockType DEF IInv
    <3> QED BY <3>1, <3>3, <2>2 DEF IInv, Stale, IsActive
  <2>15. LockHolder(u)'
    <3>1. DayCaptured(u)'
      BY <2>0, <2>2, <2>5, <1>1, <1>2 DEF DayCaptured
    <3>2. ActiveChosen(u)'
      BY <2>0, <2>2, <2>5, <1>1 DEF ActiveChosen, ActiveOn, ActiveOf
    <3>3. userBucket[u] \in {0, b} BY <1>1 DEF LiveFound
    <3>4. Building(u)'
      BY <3>2, <3>3, <2>2, <2>5, <1>1, <1>4 DEF Building, OldClosed, IsActive, ActiveChosen
    <3> QED BY <3>1, <3>4, <2>4 DEF LockHolder, SyncSteps
  <2>16. LockHolders'
    <3>1. \A e \in EpochID : \/ SameEpoch(e)
                             \/ epochs[e].user \in {u, 0} /\ epochs'[e].user = u
      BY <2>2, <1>2, <1>4, MapType DEF IInv, SameEpoch
    <3>2. day' >= day BY <2>0, ClockType DEF IInv
    <3> QED BY <3>1, <3>2, <2>0, <2>4, <2>5, <2>6, <2>15, <1>4, OthersKeep
  <2> QED BY <2>6, <2>7, <2>8, <2>9, <2>10, <2>11, <2>12, <2>13, <2>14, <2>16 DEF IInv
<1> QED BY <1>3, <1>4 DEF CloseSnapshotStep

\* No CPU is about to charge an epoch that is being built.
LEMMA BuildingIsQuiet ==
  ASSUME IInv, NEW u \in Users, Building(u)
  PROVE  /\ loc[u].active \in EpochID /\ IsActive(loc[u].active) /\ HasRow(loc[u].active)
         /\ epochs[loc[u].active].user = u /\ epochs[loc[u].active].boot = boot
         /\ passed[loc[u].active] = 0
         /\ epochs[loc[u].active].rx = 0 /\ epochs[loc[u].active].tx = 0
         /\ \A c \in CPUs : flight[c].bucket # loc[u].active
         /\ \A v \in Users : userBucket[v] # loc[u].active
<1> DEFINE e == loc[u].active
<1>1. /\ e \in EpochID /\ IsActive(e) /\ HasRow(e) /\ epochs[e].user = u
      /\ epochs[e].boot = boot /\ userBucket[u] # e
  BY DEF Building, ActiveChosen, ActiveOn, ActiveOf, IsActive, HasRow
<1>2. passed[e] = 0 BY <1>1 DEF IInv, Unpublished
<1>3. epochs[e].rx = 0 /\ epochs[e].tx = 0
  <2>1. epochs[e].rx + epochs[e].tx <= passed[e] BY <1>1 DEF IInv, Bytes, Used
  <2> QED BY <2>1, <1>1, <1>2, RowType DEF IInv
<1>4. \A c \in CPUs : flight[c].bucket # e
  BY <1>1, NoZero DEF IInv, Flights
<1>5. \A v \in Users : userBucket[v] # e
  <2> SUFFICES ASSUME NEW v \in Users, userBucket[v] = e PROVE FALSE OBVIOUS
  <2>1. bucketMeta[e] = v BY <1>1, NoZero DEF IInv, Pointers
  <2>2. v = u BY <2>1, <1>1, NoZero DEF IInv, Entries
  <2> QED BY <2>2, <1>1
<1> QED BY <1>1, <1>2, <1>3, <1>4, <1>5

LEMMA InitGrantsKeeps ==
  ASSUME IInv, NEW u \in Users, InitGrants(u)
  PROVE  IInv'
<1> USE DEF InitGrants, Goto, ledgerVars, procVars, envVars
<1> DEFINE e == loc[u].active
<1>0. /\ pc \in [Users -> {"idle"} \cup SyncSteps \cup CleanupSteps]
      /\ grants \in [EpochID -> Nat] /\ grantKeys \in SUBSET EpochID
      /\ loc \in [Users -> Locals]
  BY DEF IInv, TypeOK
<1>1. DayCaptured(u) /\ Building(u)
  BY DEF IInv, LockHolders, LockHolder, SyncSteps
<1>2. /\ e \in EpochID /\ IsActive(e) /\ HasRow(e) /\ epochs[e].user = u
      /\ epochs[e].boot = boot /\ passed[e] = 0
      /\ \A c \in CPUs : flight[c].bucket # e
      /\ \A v \in Users : userBucket[v] # e
  BY <1>1, BuildingIsQuiet
<1>3. /\ epochs[e].granted \in Nat /\ epochs[e].rx \in Nat /\ epochs[e].tx \in Nat
  BY <1>2, RowType DEF IInv
<1>4. /\ loc' \in [Users -> Locals] /\ loc'[u].active = e /\ loc'[u].day = loc[u].day
      /\ loc'[u].grant = epochs[e].granted
      /\ loc'[u].rx = epochs[e].rx /\ loc'[u].tx = epochs[e].tx
      /\ \A v \in Users : v # u => loc'[v] = loc[v]
  <2> DEFINE new == [loc[u] EXCEPT !.grant = epochs[e].granted,
                                   !.rx = epochs[e].rx, !.tx = epochs[e].tx]
  <2>1. loc[u] \in Locals BY <1>0
  <2>2. /\ new \in Locals /\ new.active = e /\ new.day = loc[u].day
        /\ new.grant = epochs[e].granted /\ new.rx = epochs[e].rx /\ new.tx = epochs[e].tx
    BY <2>1, <1>3 DEF Locals
  <2>3. loc' = [loc EXCEPT ![u] = new] BY <1>0
  <2> HIDE DEF new
  <2> QED BY <2>2, <2>3, <1>0
<1>5. /\ pc' \in [Users -> {"idle"} \cup SyncSteps \cup CleanupSteps]
      /\ pc'[u] = "initUsage" /\ \A v \in Users : v # u => pc'[v] = pc[v]
  BY <1>0 DEF SyncSteps
<1>6. /\ grants' \in [EpochID -> Nat] /\ grants'[e] = epochs[e].granted
      /\ grantKeys' \in SUBSET EpochID /\ e \in grantKeys'
      /\ \A f \in EpochID : f # e => /\ grants'[f] = grants[f]
                                     /\ (f \in grantKeys' <=> f \in grantKeys)
  BY <1>0, <1>2, <1>3
<1>7. TypeOK' BY <1>4, <1>5, <1>6 DEF IInv, TypeOK
<1>8. Rows' /\ OneActivePerDay' /\ HeldWithinLimit' /\ Bytes' /\ Unpublished' /\ Stale'
  BY DEF IInv, Rows, OneActivePerDay, HeldWithinLimit, Bytes, Unpublished, Stale, HasRow, IsActive
<1>9. Entries' BY <1>2, <1>3, <1>6 DEF IInv, Entries, HasEntry, HasRow
<1>10. Pointers' BY <1>2, <1>6, LockType DEF IInv, Pointers, Complete
<1>11. Flights' BY <1>2, <1>6, FlightType DEF IInv, Flights, HasRow, IsActive
<1>12. LockHolder(u)'
  <2>1. Building(u)'
    BY <1>1, <1>4 DEF Building, ActiveChosen, ActiveOn, ActiveOf, OldClosed, IsActive
  <2>2. DayCaptured(u)' BY <1>1, <1>4 DEF DayCaptured
  <2> QED BY <2>1, <2>2, <1>4, <1>5, <1>6 DEF LockHolder, SyncSteps
<1>13. LockHolders'
  <2>1. \A f \in EpochID : \/ SameEpoch(f)
                           \/ epochs[f].user \in {u, 0} /\ epochs'[f].user = u
    BY <1>2, <1>6, MapType DEF IInv, SameEpoch
  <2>2. day' >= day BY ClockType DEF IInv
  <2> QED BY <2>1, <2>2, <1>4, <1>5, <1>7, <1>12, OthersKeep
<1> QED BY <1>7, <1>8, <1>9, <1>10, <1>11, <1>13 DEF IInv

\* The counters are set to what the ledger confirmed, which is nothing.
LEMMA InitUsageKeeps ==
  ASSUME IInv, NEW u \in Users, InitUsage(u)
  PROVE  IInv'
<1> USE DEF InitUsage, Goto, ledgerVars, procVars, envVars
<1> DEFINE e == loc[u].active
<1>0. /\ pc \in [Users -> {"idle"} \cup SyncSteps \cup CleanupSteps]
      /\ usage \in [EpochID -> Counters] /\ usageKeys \in SUBSET EpochID
  BY DEF IInv, TypeOK
<1>1. /\ DayCaptured(u) /\ Building(u) /\ e \in grantKeys /\ loc[u].grant = grants[e]
      /\ loc[u].rx = epochs[e].rx /\ loc[u].tx = epochs[e].tx
  BY DEF IInv, LockHolders, LockHolder, SyncSteps
<1>2. /\ e \in EpochID /\ IsActive(e) /\ HasRow(e) /\ epochs[e].user = u
      /\ epochs[e].boot = boot /\ passed[e] = 0 /\ epochs[e].rx = 0 /\ epochs[e].tx = 0
      /\ \A v \in Users : userBucket[v] # e
  BY <1>1, BuildingIsQuiet
<1>3. usage[e].rx = 0 /\ usage[e].tx = 0
  <2>1. usage[e].rx + usage[e].tx = 0 BY <1>2 DEF IInv, Bytes, Used
  <2> QED BY <2>1, <1>2, MapType DEF IInv
<1>4. /\ usage' \in [EpochID -> Counters] /\ usage'[e].rx = 0 /\ usage'[e].tx = 0
      /\ usageKeys' \in SUBSET EpochID /\ e \in usageKeys'
      /\ \A f \in EpochID : f # e => /\ usage'[f] = usage[f]
                                     /\ (f \in usageKeys' <=> f \in usageKeys)
  BY <1>0, <1>1, <1>2 DEF Counters
<1>5. /\ pc' \in [Users -> {"idle"} \cup SyncSteps \cup CleanupSteps]
      /\ pc'[u] = "checkpoint" /\ \A v \in Users : v # u => pc'[v] = pc[v]
  BY <1>0 DEF SyncSteps
<1>6. TypeOK' BY <1>4, <1>5 DEF IInv, TypeOK
<1>7. Rows' /\ OneActivePerDay' /\ HeldWithinLimit' /\ Unpublished' /\ Stale'
  BY DEF IInv, Rows, OneActivePerDay, HeldWithinLimit, Unpublished, Stale, HasRow, IsActive
<1>8. Bytes' BY <1>2, <1>4 DEF IInv, Bytes, Used, HasRow
<1>9. Entries' BY <1>2, <1>4 DEF IInv, Entries, HasEntry, HasRow
<1>10. Pointers' BY <1>2, <1>4, LockType DEF IInv, Pointers, Complete
<1>11. Flights' BY DEF IInv, Flights, HasRow, IsActive
<1>12. LockHolder(u)'
  <2>1. Inserted(u)'
    BY <1>1, <1>4 DEF Building, Inserted, ActiveChosen, ActiveOn, ActiveOf, OldClosed, IsActive
  <2>2. DayCaptured(u)' BY <1>1 DEF DayCaptured
  <2>3. Snapshot(u)' BY <1>1, <1>2, <1>4, MapType DEF IInv, Snapshot
  <2> QED BY <2>1, <2>2, <2>3, <1>5 DEF LockHolder, SyncSteps
<1>13. LockHolders'
  <2>1. \A f \in EpochID : \/ SameEpoch(f)
                           \/ epochs[f].user \in {u, 0} /\ epochs'[f].user = u
    BY <1>2, <1>4, MapType DEF IInv, SameEpoch
  <2>2. day' >= day BY ClockType DEF IInv
  <2> QED BY <2>1, <2>2, <1>5, <1>6, <1>12, OthersKeep
<1> QED BY <1>6, <1>7, <1>8, <1>9, <1>10, <1>11, <1>13 DEF IInv

\* What follows from an inserted bucket.
LEMMA InsertedBucket ==
  ASSUME IInv, NEW u \in Users, Inserted(u)
  PROVE  /\ loc[u].active \in EpochID /\ IsActive(loc[u].active) /\ HasRow(loc[u].active)
         /\ epochs[loc[u].active].user = u /\ epochs[loc[u].active].boot = boot
         /\ epochs[loc[u].active].day = loc[u].day
         /\ loc[u].active \in grantKeys /\ loc[u].active \in usageKeys
  BY DEF Inserted, ActiveChosen, ActiveOn, ActiveOf, IsActive, HasRow

\* A refill never takes the day above its limit.
LEMMA RefillBound ==
  ASSUME NEW used \in Nat, NEW granted \in Nat, NEW held \in Nat, NEW limit \in Nat,
         NEW chunk \in Nat, held <= limit
  PROVE  /\ RefillDelta(used, granted, held, limit, chunk) \in Nat
         /\ held + RefillDelta(used, granted, held, limit, chunk) <= limit
  BY DEF RefillDelta, Least

LEMMA CheckpointKeeps ==
  ASSUME IInv, NEW u \in Users, Checkpoint(u)
  PROVE  IInv'
<1> USE DEF Goto, mapVars, procVars, envVars
<1> DEFINE l == loc[u]
           e == loc[u].active
           r == epochs[e]
           delta == IF NeedsRefill(l, cfg.low)
                    THEN RefillDelta(l.rx + l.tx, r.granted, Held(epochs, u, r.day),
                                     limits[u][r.day], cfg.chunk)
                    ELSE 0
<1>0. /\ pc \in [Users -> {"idle"} \cup SyncSteps \cup CleanupSteps]
      /\ epochs \in [EpochID -> Row]
  BY DEF IInv, TypeOK
<1>1. /\ DayCaptured(u) /\ Inserted(u) /\ Snapshot(u)
  BY DEF IInv, LockHolders, LockHolder, SyncSteps, Checkpoint
<1>2. /\ e \in EpochID /\ IsActive(e) /\ HasRow(e) /\ epochs[e].user = u
      /\ epochs[e].boot = boot /\ epochs[e].day = loc[u].day
      /\ e \in grantKeys /\ e \in usageKeys
  BY <1>1, InsertedBucket
<1>3. CASE ErrorReturn(u)
  BY <1>3, ErrorReturnKeeps DEF Checkpoint
<1>4. CASE /\ epochs' = [epochs EXCEPT ![e] =
                           [r EXCEPT !.granted = r.granted + delta, !.rx = l.rx, !.tx = l.tx]]
           /\ Goto(u, IF l.grant # r.granted + delta THEN "publishGrants" ELSE "publishMeta")
           /\ UNCHANGED <<limits, mapVars, flight, procVars, loc, cleanup, passed>>
  <2>0. UNCHANGED envVars BY DEF Checkpoint
  <2>1. l.grant \in Nat /\ l.rx \in Nat /\ l.tx \in Nat /\ r.granted \in Nat
    BY <1>2, LockType, RowType DEF IInv
  <2>2. epochs[e].day \in Days BY <1>0, <1>2 DEF Row
  <2>3. /\ limits[u][r.day] \in Nat /\ Held(epochs, u, r.day) \in Nat
        /\ Held(epochs, u, r.day) <= limits[u][r.day] /\ cfg.chunk \in Nat
    <3>1. cfg.chunk \in Nat BY ConfigsAssumption DEF IInv, TypeOK, Config
    <3>2. limits[u][r.day] \in Nat /\ Held(epochs, u, r.day) <= limits[u][r.day]
      BY <2>2 DEF IInv, TypeOK, HeldWithinLimit
    <3> QED BY <3>1, <3>2, <1>0, HeldType DEF Table
  <2>4. delta \in Nat /\ Held(epochs, u, r.day) + delta <= limits[u][r.day]
    <3> DEFINE refill == RefillDelta(l.rx + l.tx, r.granted, Held(epochs, u, r.day),
                                     limits[u][r.day], cfg.chunk)
    <3>1. l.rx + l.tx \in Nat BY <2>1
    <3>2. refill \in Nat /\ Held(epochs, u, r.day) + refill <= limits[u][r.day]
      BY ONLY <3>1, <2>1, <2>3, RefillBound
    <3>3. delta \in {refill, 0} OBVIOUS
    <3> HIDE DEF refill, delta
    <3> QED BY <3>2, <3>3, <2>3
  <2> HIDE DEF delta
  <2>5. /\ epochs' \in [EpochID -> Row]
        /\ epochs'[e].user = u /\ epochs'[e].day = epochs[e].day
        /\ epochs'[e].status = epochs[e].status /\ epochs'[e].boot = boot
        /\ epochs'[e].granted = epochs[e].granted + delta
        /\ epochs'[e].rx = l.rx /\ epochs'[e].tx = l.tx
        /\ \A f \in EpochID : f # e => epochs'[f] = epochs[f]
    <3> DEFINE g == epochs[e].granted + delta
    <3>1. epochs' = [epochs EXCEPT ![e] = [epochs[e] EXCEPT !.granted = g, !.rx = l.rx, !.tx = l.tx]]
      BY <1>4
    <3>2. g \in Nat BY <2>1, <2>4
    <3> HIDE DEF g
    <3>3. /\ epochs' \in [EpochID -> Row]
          /\ epochs'[e].user = u /\ epochs'[e].day = epochs[e].day
          /\ epochs'[e].status = epochs[e].status /\ epochs'[e].boot = boot
          /\ epochs'[e].granted = g /\ epochs'[e].rx = l.rx /\ epochs'[e].tx = l.tx
          /\ \A f \in EpochID : f # e => epochs'[f] = epochs[f]
      BY ONLY <3>1, <3>2, <1>0, <1>2, <2>1 DEF Row
    <3> QED BY <3>3 DEF g
  <2>6. /\ l.rx <= usage[e].rx /\ l.tx <= usage[e].tx /\ l.rx + l.tx <= passed[e]
        /\ usage[e].rx + usage[e].tx = passed[e]
    <3>1. usage[e].rx + usage[e].tx = passed[e] BY <1>2 DEF IInv, Bytes, Used
    <3>2. l.rx <= usage[e].rx /\ l.tx <= usage[e].tx BY <1>1 DEF Snapshot
    <3> QED BY <3>1, <3>2, <2>1, <1>2, MapType DEF IInv
  <2>7. /\ pc' \in [Users -> {"idle"} \cup SyncSteps \cup CleanupSteps]
        /\ pc'[u] \in {"publishGrants", "publishMeta"} /\ \A v \in Users : v # u => pc'[v] = pc[v]
    BY <1>0, <1>4 DEF SyncSteps
  <2>8. TypeOK' BY <2>0, <2>5, <2>7, <1>4 DEF IInv, TypeOK
  <2>9. Rows' /\ OneActivePerDay'
    BY <2>0, <2>5, <1>2 DEF IInv, Rows, OneActivePerDay, HasRow
  <2>10. HeldWithinLimit'
    <3> SUFFICES ASSUME NEW v \in Users, NEW x \in Days
                 PROVE  Held(epochs', v, x) <= limits[v][x]
      BY <1>4 DEF HeldWithinLimit
    <3>1. epochs \in Table /\ epochs' \in Table BY <1>0, <2>5 DEF Table
    <3>2. Held(epochs', v, x) \in Nat /\ Held(epochs, v, x) \in Nat
          /\ Held(epochs', u, r.day) \in Nat
      BY <3>1, HeldType
    <3>3. CASE v = u /\ x = r.day
      <4>1. Held(epochs', epochs[e].user, epochs[e].day)
              <= Held(epochs, epochs[e].user, epochs[e].day) + delta
        BY <3>1, <2>4, <2>5, <1>2, HeldRaise
      <4>2. Held(epochs', u, r.day) <= Held(epochs, u, r.day) + delta BY <4>1, <1>2
      <4> QED BY <4>2, <3>2, <3>3, <2>3, <2>4
    <3>4. CASE ~(v = u /\ x = r.day)
      <4>1. \A f \in EpochID : epochs'[f].user = v /\ epochs'[f].day = x =>
              /\ epochs[f].user = v /\ epochs[f].day = x
              /\ epochs'[f].granted <= epochs[f].granted
        BY <3>4, <2>5, RowType DEF IInv
      <4>2. Held(epochs', v, x) <= Held(epochs, v, x) BY ONLY <3>1, <4>1, HeldMonotone
      <4>3. Held(epochs, v, x) <= limits[v][x] /\ limits[v][x] \in Nat
        BY DEF IInv, HeldWithinLimit, TypeOK
      <4> QED BY <4>2, <4>3, <3>2
    <3> QED BY <3>3, <3>4
  <2>11. Bytes'
    BY <2>0, <2>1, <2>4, <2>5, <2>6, <1>2, <1>4, MapType DEF IInv, Bytes, HasRow, Used
  <2>12. Entries'
    BY <2>0, <2>1, <2>4, <2>5, <1>2, <1>4, MapType DEF IInv, Entries, HasEntry, HasRow
  <2>13. Pointers' BY <1>4 DEF IInv, Pointers, Complete
  <2>14. Flights'
    <3> SUFFICES ASSUME NEW c \in CPUs, flight[c].bucket # 0
                 PROVE  LET f == flight[c].bucket IN
                        /\ epochs'[f].status # "none" /\ epochs'[f].boot = boot
                        /\ flight[c].limit <= epochs'[f].granted
                        /\ f \in grantKeys => flight[c].limit <= grants[f]
                        /\ epochs'[f].status = "active" => userBucket[epochs'[f].user] = f
      BY <1>4, <2>0 DEF Flights, HasRow, IsActive
    <3>1. flight[c].bucket \in EpochID /\ flight[c].limit \in Nat BY FlightType DEF IInv
    <3> QED BY <3>1, <2>1, <2>4, <2>5, <1>2 DEF IInv, Flights, HasRow, IsActive
  <2>15. Unpublished' BY <2>0, <2>5, <1>2, <1>4 DEF IInv, Unpublished, IsActive
  <2>16. Stale'
    <3> SUFFICES ASSUME NEW f \in EpochID, epochs'[f].status = "active", epochs'[f].boot # boot,
                        userBucket[epochs'[f].user] # 0
                 PROVE  epochs'[f].day < epochs'[userBucket[epochs'[f].user]].day
      BY <1>4, <2>0 DEF Stale, IsActive
    <3>1. f # e /\ epochs'[f] = epochs[f] BY <2>5
    <3>2. epochs[f].user \in Users BY <3>1 DEF IInv, Rows, HasRow
    <3>3. userBucket[epochs[f].user] \in EpochID BY <3>1, <3>2, LockType DEF IInv
    <3> QED BY <3>1, <3>3, <2>5 DEF IInv, Stale, IsActive
  <2>17. LockHolder(u)'
    <3>1. DayCaptured(u)' BY <2>0, <2>5, <1>1, <1>2, <1>4 DEF DayCaptured
    <3>2. Inserted(u)'
      <4>1. ActiveChosen(u)'
        BY <2>0, <2>5, <1>1, <1>4 DEF Inserted, ActiveChosen, ActiveOn, ActiveOf
      <4>2. OldClosed(u)' BY <2>5, <1>1, <1>4, LockType DEF IInv, Inserted, OldClosed, IsActive
      <4> QED BY <4>1, <4>2, <1>1, <1>4 DEF Inserted
    <3> QED BY <3>1, <3>2, <2>7 DEF LockHolder, SyncSteps
  <2>18. LockHolders'
    <3>1. \A f \in EpochID : \/ SameEpoch(f)
                             \/ epochs[f].user \in {u, 0} /\ epochs'[f].user = u
      BY <2>5, <1>2, <1>4, MapType DEF IInv, SameEpoch
    <3>2. day' >= day BY <2>0, ClockType DEF IInv
    <3> QED BY <3>1, <3>2, <2>0, <2>7, <2>8, <2>17, <1>4, OthersKeep
  <2> QED BY <2>8, <2>9, <2>10, <2>11, <2>12, <2>13, <2>14, <2>15, <2>16, <2>18 DEF IInv
<1> QED BY <1>3, <1>4 DEF Checkpoint

LEMMA PublishGrantsKeeps ==
  ASSUME IInv, NEW u \in Users, PublishGrants(u)
  PROVE  IInv'
<1> USE DEF Goto, ledgerVars, procVars, envVars
<1> DEFINE e == loc[u].active
<1>0. /\ pc \in [Users -> {"idle"} \cup SyncSteps \cup CleanupSteps]
      /\ grants \in [EpochID -> Nat]
  BY DEF IInv, TypeOK
<1>1. DayCaptured(u) /\ Inserted(u)
  BY DEF IInv, LockHolders, LockHolder, SyncSteps, PublishGrants
<1>2. /\ e \in EpochID /\ IsActive(e) /\ HasRow(e) /\ epochs[e].user = u
      /\ epochs[e].boot = boot /\ e \in grantKeys
  BY <1>1, InsertedBucket
<1>3. CASE ErrorReturn(u)
  BY <1>3, ErrorReturnKeeps DEF PublishGrants
<1>4. CASE /\ grants' = [grants EXCEPT ![e] = epochs[e].granted]
           /\ Goto(u, "publishMeta")
           /\ UNCHANGED <<ledgerVars, ready, userBucket, bucketMeta, grantKeys>>
           /\ UNCHANGED <<usage, usageKeys, flight, procVars, loc, cleanup, passed>>
  <2>0. UNCHANGED envVars BY DEF PublishGrants
  <2>1. /\ grants' \in [EpochID -> Nat] /\ grants'[e] = epochs[e].granted
        /\ \A f \in EpochID : f # e => grants'[f] = grants[f]
    BY <1>0, <1>2, <1>4, RowType DEF IInv
  <2>2. /\ pc' \in [Users -> {"idle"} \cup SyncSteps \cup CleanupSteps]
        /\ pc'[u] = "publishMeta" /\ \A v \in Users : v # u => pc'[v] = pc[v]
    BY <1>0, <1>4 DEF SyncSteps
  <2>3. TypeOK' BY <2>0, <2>1, <2>2, <1>4 DEF IInv, TypeOK
  <2>4. Rows' /\ OneActivePerDay' /\ HeldWithinLimit' /\ Bytes' /\ Unpublished' /\ Stale'
    BY <2>0, <1>4 DEF IInv, Rows, OneActivePerDay, HeldWithinLimit, Bytes, Unpublished, Stale,
                      HasRow, IsActive
  <2>5. Entries'
    BY <2>0, <2>1, <1>2, <1>4, RowType DEF IInv, Entries, HasEntry, HasRow, Bytes
  <2>6. Pointers' BY <1>4 DEF IInv, Pointers, Complete
  <2>7. Flights'
    BY <2>0, <2>1, <1>2, <1>4, FlightType DEF IInv, Flights, HasRow, IsActive
  <2>8. LockHolder(u)'
    <3>1. Inserted(u)'
      BY <2>0, <1>1, <1>4 DEF Inserted, ActiveChosen, ActiveOn, ActiveOf, OldClosed, IsActive
    <3>2. DayCaptured(u)' BY <2>0, <1>1, <1>4 DEF DayCaptured
    <3> QED BY <3>1, <3>2, <2>2 DEF LockHolder, SyncSteps
  <2>9. LockHolders'
    <3>1. \A f \in EpochID : \/ SameEpoch(f)
                             \/ epochs[f].user \in {u, 0} /\ epochs'[f].user = u
      BY <2>1, <1>2, <1>4, MapType DEF IInv, SameEpoch
    <3>2. day' >= day BY <2>0, ClockType DEF IInv
    <3> QED BY <3>1, <3>2, <2>0, <2>2, <2>3, <2>8, <1>4, OthersKeep
  <2> QED BY <2>3, <2>4, <2>5, <2>6, <2>7, <2>9 DEF IInv
<1> QED BY <1>3, <1>4 DEF PublishGrants

LEMMA PublishMetaKeeps ==
  ASSUME IInv, NEW u \in Users, PublishMeta(u)
  PROVE  IInv'
<1> USE DEF PublishMeta, Goto, ledgerVars, procVars, envVars
<1> DEFINE e == loc[u].active
<1>0. /\ pc \in [Users -> {"idle"} \cup SyncSteps \cup CleanupSteps]
      /\ bucketMeta \in [EpochID -> Users \cup {0}]
  BY DEF IInv, TypeOK
<1>1. DayCaptured(u) /\ Inserted(u)
  BY DEF IInv, LockHolders, LockHolder, SyncSteps
<1>2. /\ e \in EpochID /\ IsActive(e) /\ HasRow(e) /\ epochs[e].user = u
      /\ epochs[e].boot = boot /\ e \in grantKeys /\ e \in usageKeys
  BY <1>1, InsertedBucket
<1>3. /\ bucketMeta' \in [EpochID -> Users \cup {0}] /\ bucketMeta'[e] = u
      /\ \A f \in EpochID : f # e => bucketMeta'[f] = bucketMeta[f]
  BY <1>0, <1>2
<1>4. /\ pc' \in [Users -> {"idle"} \cup SyncSteps \cup CleanupSteps]
      /\ pc'[u] = "publishPointer" /\ \A v \in Users : v # u => pc'[v] = pc[v]
  BY <1>0 DEF SyncSteps
<1>5. TypeOK' BY <1>3, <1>4 DEF IInv, TypeOK
<1>6. Rows' /\ OneActivePerDay' /\ HeldWithinLimit' /\ Bytes' /\ Unpublished' /\ Stale' /\ Flights'
  BY DEF IInv, Rows, OneActivePerDay, HeldWithinLimit, Bytes, Unpublished, Stale, Flights,
         HasRow, IsActive
<1>7. Entries' BY <1>2, <1>3 DEF IInv, Entries, HasEntry, HasRow
<1>8. Pointers'
  <2> SUFFICES ASSUME NEW v \in Users, userBucket[v] # 0
               PROVE  (Complete(userBucket[v]) /\ bucketMeta[userBucket[v]] = v)'
    BY DEF Pointers
  <2>1. userBucket[v] \in EpochID BY LockType DEF IInv
  <2>2. Complete(userBucket[v]) /\ bucketMeta[userBucket[v]] = v BY DEF IInv, Pointers
  <2>3. userBucket[v] = e => v = u BY <2>2, <1>2, NoZero DEF IInv, Entries
  <2> QED BY <2>1, <2>2, <2>3, <1>3, NoZero DEF Complete
<1>9. LockHolder(u)'
  <2>1. Inserted(u)'
    BY <1>1 DEF Inserted, ActiveChosen, ActiveOn, ActiveOf, OldClosed, IsActive
  <2>2. DayCaptured(u)' BY <1>1 DEF DayCaptured
  <2> QED BY <2>1, <2>2, <1>3, <1>4 DEF LockHolder, SyncSteps
<1>10. LockHolders'
  <2>1. \A f \in EpochID : \/ SameEpoch(f)
                           \/ epochs[f].user \in {u, 0} /\ epochs'[f].user = u
    BY <1>2, <1>3, MapType DEF IInv, SameEpoch
  <2>2. day' >= day BY ClockType DEF IInv
  <2> QED BY <2>1, <2>2, <1>4, <1>5, <1>9, OthersKeep
<1> QED BY <1>5, <1>6, <1>7, <1>8, <1>10 DEF IInv

\* The pointer moves to an epoch at least as young as every active one.
LEMMA PublishPointerKeeps ==
  ASSUME IInv, NEW u \in Users, PublishPointer(u)
  PROVE  IInv'
<1> USE DEF PublishPointer, Release, Goto, ledgerVars, procVars, envVars
<1> DEFINE e == loc[u].active
<1>0. /\ pc \in [Users -> {"idle"} \cup SyncSteps \cup CleanupSteps]
      /\ userBucket \in [Users -> EpochID \cup {0}] /\ loc \in [Users -> Locals]
      /\ cleanup \in [Users -> Cleanup]
  BY DEF IInv, TypeOK
<1>1. DayCaptured(u) /\ Inserted(u) /\ bucketMeta[e] = u
  BY DEF IInv, LockHolders, LockHolder, SyncSteps
<1>2. /\ e \in EpochID /\ IsActive(e) /\ HasRow(e) /\ epochs[e].user = u
      /\ epochs[e].boot = boot /\ epochs[e].day = loc[u].day
      /\ e \in grantKeys /\ e \in usageKeys
  BY <1>1, InsertedBucket
<1>3. /\ userBucket' \in [Users -> EpochID \cup {0}] /\ userBucket'[u] = e
      /\ \A v \in Users : v # u => userBucket'[v] = userBucket[v]
  BY <1>0, <1>2
<1>4. /\ pc' \in [Users -> {"idle"} \cup SyncSteps \cup CleanupSteps]
      /\ pc'[u] = "idle" /\ \A v \in Users : v # u => pc'[v] = pc[v]
  BY <1>0
<1>5. loc' \in [Users -> Locals] /\ \A v \in Users : v # u => loc'[v] = loc[v]
  <2>1. NoLocals \in Locals BY BoundsAssumption DEF NoLocals, Locals, Days
  <2> QED BY <2>1, <1>0
<1>6. cleanup' \in [Users -> Cleanup]
  <2>1. loc[u].day \in Days
    <3>1. loc[u] \in Locals BY <1>0
    <3> QED BY <3>1 DEF Locals
  <2> DEFINE new == [cleanup[u] EXCEPT !.pending = TRUE, !.day = loc[u].day, !.epoch = e]
  <2>2. new \in Cleanup
    <3>1. cleanup[u] \in Cleanup BY <1>0
    <3> QED BY <3>1, <2>1, <1>2 DEF Cleanup
  <2>3. cleanup' \in {cleanup, [cleanup EXCEPT ![u] = new]} OBVIOUS
  <2> HIDE DEF new
  <2> QED BY <2>2, <2>3, <1>0
<1>7. TypeOK' BY <1>3, <1>4, <1>5, <1>6 DEF IInv, TypeOK
<1>8. Rows' /\ OneActivePerDay' /\ HeldWithinLimit' /\ Bytes' /\ Entries'
  BY DEF IInv, Rows, OneActivePerDay, HeldWithinLimit, Bytes, Entries, HasRow, HasEntry
<1>9. Pointers' BY <1>1, <1>2, <1>3, NoZero DEF IInv, Pointers, Complete
<1>10. userBucket[u] # 0 /\ userBucket[u] # e => ~IsActive(userBucket[u])
  BY <1>1 DEF Inserted, OldClosed
<1>11. Flights'
  <2> SUFFICES ASSUME NEW c \in CPUs, flight[c].bucket # 0, IsActive(flight[c].bucket)
               PROVE  userBucket'[epochs[flight[c].bucket].user] = flight[c].bucket
    BY DEF IInv, Flights, HasRow, IsActive
  <2>1. flight[c].bucket \in EpochID /\ HasRow(flight[c].bucket)
        /\ userBucket[epochs[flight[c].bucket].user] = flight[c].bucket
    BY FlightType DEF IInv, Flights
  <2>2. epochs[flight[c].bucket].user \in Users BY <2>1 DEF IInv, Rows
  <2> QED BY <2>1, <2>2, <1>3, <1>10
<1>12. Unpublished'
  <2> SUFFICES ASSUME NEW f \in EpochID, IsActive(f), epochs[f].boot = boot,
                      userBucket'[epochs[f].user] # f
               PROVE  passed[f] = 0
    BY DEF Unpublished, IsActive
  <2>1. epochs[f].user \in Users BY DEF IInv, Rows, HasRow, IsActive
  <2>2. userBucket[epochs[f].user] # f BY <2>1, <1>3, <1>10, NoZero
  <2> QED BY <2>2 DEF IInv, Unpublished
<1>13. Stale'
  <2> SUFFICES ASSUME NEW f \in EpochID, IsActive(f), epochs[f].boot # boot,
                      userBucket'[epochs[f].user] # 0
               PROVE  epochs[f].day < epochs[userBucket'[epochs[f].user]].day
    BY DEF Stale, IsActive
  <2>1. epochs[f].user \in Users BY DEF IInv, Rows, HasRow, IsActive
  <2>2. CASE epochs[f].user # u BY <2>1, <2>2, <1>3 DEF IInv, Stale
  <2>3. CASE epochs[f].user = u
    <3>1. epochs[f].day <= loc[u].day BY <2>3, <1>1 DEF DayCaptured
    <3>2. epochs[f].day # epochs[e].day BY <2>3, <1>2 DEF IInv, OneActivePerDay, IsActive
    <3> QED BY <3>1, <3>2, <2>3, <1>2, <1>3, RowType DEF IInv
  <2> QED BY <2>2, <2>3
<1>14. LockHolder(u)' BY <1>4, IdleHolder
<1>15. LockHolders'
  <2>1. \A f \in EpochID : SameEpoch(f) BY MapType DEF IInv, SameEpoch
  <2>2. day' >= day BY ClockType DEF IInv
  <2> QED BY <2>1, <2>2, <1>3, <1>4, <1>5, <1>7, <1>14, OthersKeep
<1> QED BY <1>7, <1>8, <1>9, <1>11, <1>12, <1>13, <1>15 DEF IInv

-----------------------------------------------------------------------------
(* The cleanup goroutine.                                                  *)

LEMMA StartCleanupKeeps ==
  ASSUME IInv, NEW u \in Users, StartCleanup(u)
  PROVE  IInv'
<1> USE DEF StartCleanup, Goto, ledgerVars, mapVars, procVars, envVars
<1> DEFINE new == [NoLocals EXCEPT !.day = cleanup[u].day, !.active = cleanup[u].epoch]
<1>0. /\ pc \in [Users -> {"idle"} \cup SyncSteps \cup CleanupSteps]
      /\ loc \in [Users -> Locals] /\ cleanup \in [Users -> Cleanup]
  BY DEF IInv, TypeOK
<1>1. cleanup[u].day \in Days /\ cleanup[u].epoch \in EpochID \cup {0}
  <2>1. cleanup[u] \in Cleanup BY <1>0
  <2> QED BY <2>1 DEF Cleanup
<1>2. new \in Locals BY <1>1 DEF NoLocals, Locals
<1>3. cleanup' \in [Users -> Cleanup] BY <1>0 DEF Cleanup
<1>4. /\ pc' \in [Users -> {"idle"} \cup SyncSteps \cup CleanupSteps]
      /\ loc' \in [Users -> Locals]
  <2>1. CASE userBucket[u] # 0 BY <2>1, <1>0, <1>2 DEF CleanupSteps
  <2>2. CASE userBucket[u] = 0 BY <2>2, <1>0
  <2> QED BY <2>1, <2>2
<1>5. TypeOK' BY <1>3, <1>4 DEF IInv, TypeOK
<1>6. \A v \in Users : (pc'[v] = pc[v] /\ loc'[v] = loc[v]) \/ pc'[v] = "cleanupClose"
  BY <1>0
<1>7. day' >= day BY ClockType DEF IInv
<1>8. UNCHANGED <<epochs, limits, userBucket, bucketMeta, grants, grantKeys,
                  usage, usageKeys, boot, passed, flight>> OBVIOUS
<1> QED BY ONLY IInv, <1>5, <1>6, <1>7, <1>8, IdleHolder, QuietStep

LEMMA CleanupCloseKeeps ==
  ASSUME IInv, NEW u \in Users, CleanupClose(u)
  PROVE  IInv'
<1> USE DEF CleanupClose, Goto, mapVars, procVars, envVars
<1> DEFINE old == Historical(epochs, u, loc[u].day, userBucket[u])
           S == old \cap ActiveOf(epochs, u)
<1>0. /\ pc \in [Users -> {"idle"} \cup SyncSteps \cup CleanupSteps]
      /\ epochs \in [EpochID -> Row] /\ loc \in [Users -> Locals]
  BY DEF IInv, TypeOK
<1>1. /\ S \in SUBSET EpochID /\ \A e \in S : HasRow(e) /\ epochs[e].user = u
      /\ old \in SUBSET EpochID /\ \A e \in old : epochs[e].user = u /\ e # userBucket[u]
  BY DEF Historical, ActiveOf, HasRow
<1>2. epochs' \in [EpochID -> Row] /\ epochs' = Close(epochs, S) BY <1>0 DEF Close, Row
<1> HIDE DEF old
<1>3. /\ loc' \in [Users -> Locals] /\ loc'[u].ids = old
      /\ \A v \in Users : v # u => loc'[v] = loc[v]
  <2>1. loc' = [loc EXCEPT ![u].ids = old] BY DEF old
  <2> QED BY <2>1, <1>0, <1>1 DEF Locals
<1>4. /\ pc' \in [Users -> {"idle"} \cup SyncSteps \cup CleanupSteps]
      /\ pc'[u] = "cleanupDelete" /\ \A v \in Users : v # u => pc'[v] = pc[v]
  BY <1>0 DEF CleanupSteps
<1>5. TypeOK' BY <1>2, <1>3, <1>4 DEF IInv, TypeOK
<1>6. LockHolder(u)'
  <2>1. \A e \in old : epochs'[e].user = epochs[e].user
    BY <1>0, <1>1, <1>2 DEF Close, Row
  <2> QED BY <2>1, <1>1, <1>3, <1>4 DEF LockHolder, SyncSteps
<1> QED BY <1>1, <1>2, <1>3, <1>4, <1>5, <1>6, CloseKeeps

LEMMA CleanupDeleteKeeps ==
  ASSUME IInv, NEW u \in Users, CleanupDelete(u)
  PROVE  IInv'
<1> USE DEF CleanupDelete
<1>0. \A b \in loc[u].ids : b \in EpochID /\ epochs[b].user = u /\ b # userBucket[u]
  BY LockType DEF IInv, LockHolders, LockHolder
<1>1. ASSUME NEW b \in loc[u].ids, DeleteEntry(b), UNCHANGED <<pc, loc, cleanup>>
      PROVE  IInv'
  <2>1. LockHolder(u)' BY <1>0, <1>1 DEF LockHolder, SyncSteps, ledgerVars
  <2> QED BY <2>1, <1>0, <1>1, DeleteEntryKeeps DEF lockVars
<1>2. CASE /\ cleanup' = [cleanup EXCEPT ![u].cleaned = loc[u].active]
           /\ Release(u) /\ UNCHANGED <<bucketMeta, grants, grantKeys, usageKeys>>
  <2> USE DEF ledgerVars, procVars, envVars, Release, Goto
  <2>0. /\ pc \in [Users -> {"idle"} \cup SyncSteps \cup CleanupSteps]
        /\ loc \in [Users -> Locals] /\ cleanup \in [Users -> Cleanup]
    BY DEF IInv, TypeOK
  <2>1. cleanup' \in [Users -> Cleanup] BY <2>0, <1>2, LockType DEF IInv, Cleanup
  <2>2. loc' \in [Users -> Locals] /\ pc' \in [Users -> {"idle"} \cup SyncSteps \cup CleanupSteps]
    <3>1. NoLocals \in Locals BY BoundsAssumption DEF NoLocals, Locals, Days
    <3> QED BY <3>1, <2>0, <1>2
  <2>3. TypeOK' BY <2>1, <2>2, <1>2 DEF IInv, TypeOK
  <2>4. \A v \in Users : (pc'[v] = pc[v] /\ loc'[v] = loc[v]) \/ pc'[v] = "idle"
    BY <2>0, <1>2
  <2>5. day' >= day BY ClockType DEF IInv
  <2>6. UNCHANGED <<epochs, limits, userBucket, bucketMeta, grants, grantKeys,
                    usage, usageKeys, boot, passed, flight>> BY <1>2
  <2> QED BY ONLY IInv, <2>3, <2>4, <2>5, <2>6, IdleHolder, QuietStep
<1> QED BY <1>1, <1>2

-----------------------------------------------------------------------------
(* A charged packet, and the loss of the maps.                             *)

LEMMA ChargeType ==
  ASSUME NEW k \in Counters, NEW dir, NEW n \in Nat
  PROVE  /\ Charge(k, dir, n) \in Counters
         /\ Used(Charge(k, dir, n)) = Used(k) + n
         /\ Charge(k, dir, n).rx >= k.rx /\ Charge(k, dir, n).tx >= k.tx
<1>1. k.rx \in Nat /\ k.tx \in Nat BY DEF Counters
<1>2. CASE dir = "rx"
  <2>1. Charge(k, dir, n) = [k EXCEPT !.rx = k.rx + n] BY <1>2 DEF Charge
  <2>2. /\ Charge(k, dir, n) \in Counters /\ Charge(k, dir, n).rx = k.rx + n
        /\ Charge(k, dir, n).tx = k.tx
    BY <2>1, <1>1 DEF Counters
  <2> QED BY <2>2, <1>1 DEF Used
<1>3. CASE dir # "rx"
  <2>1. Charge(k, dir, n) = [k EXCEPT !.tx = k.tx + n] BY <1>3 DEF Charge
  <2>2. /\ Charge(k, dir, n) \in Counters /\ Charge(k, dir, n).tx = k.tx + n
        /\ Charge(k, dir, n).rx = k.rx
    BY <2>1, <1>1 DEF Counters
  <2> QED BY <2>2, <1>1 DEF Used
<1> QED BY <1>2, <1>3

\* A packet charged late, after the epoch was closed or its grant deleted,
\* still fits the authorisation the program had read.
LEMMA PassKeeps ==
  ASSUME IInv, NEW c \in CPUs, NEW dir \in Directions, NEW n \in 1 .. MaxPacket, Pass(c, dir, n)
  PROVE  IInv'
<1> USE DEF Pass, ledgerVars, procVars, lockVars, envVars
<1> DEFINE b == flight[c].bucket
<1>0. /\ usage \in [EpochID -> Counters] /\ passed \in [EpochID -> Nat]
      /\ flight \in [CPUs -> [bucket: EpochID \cup {0}, limit: Nat]] /\ n \in Nat
  BY EnvironmentAssumption DEF IInv, TypeOK
<1>1. /\ b \in EpochID /\ b # 0 /\ HasRow(b) /\ epochs[b].boot = boot
      /\ flight[c].limit <= epochs[b].granted /\ flight[c].limit \in Nat
      /\ b \in grantKeys => flight[c].limit <= grants[b]
      /\ IsActive(b) => userBucket[epochs[b].user] = b
  BY FlightType DEF IInv, Flights
<1>2. Used(usage[b]) = passed[b] /\ passed[b] \in Nat
  BY <1>0, <1>1 DEF IInv, Bytes
<1>3. passed[b] + n <= flight[c].limit
  BY <1>0, <1>1, <1>2 DEF Fits
<1>4. /\ usage' \in [EpochID -> Counters] /\ Used(usage'[b]) = Used(usage[b]) + n
      /\ usage'[b].rx >= usage[b].rx /\ usage'[b].tx >= usage[b].tx
      /\ \A e \in EpochID : e # b => usage'[e] = usage[e]
  <2> DEFINE k == Charge(usage[b], dir, n)
  <2>1. usage[b] \in Counters BY <1>0, <1>1
  <2>2. k \in Counters /\ Used(k) = Used(usage[b]) + n /\ k.rx >= usage[b].rx /\ k.tx >= usage[b].tx
    BY <2>1, <1>0, ChargeType
  <2>3. usage' = [usage EXCEPT ![b] = k] OBVIOUS
  <2> HIDE DEF k
  <2> QED BY <2>2, <2>3, <1>0, <1>1
<1>5. /\ passed' \in [EpochID -> Nat] /\ passed'[b] = passed[b] + n
      /\ \A e \in EpochID : e # b => passed'[e] = passed[e]
  BY <1>0, <1>1
<1>6. /\ flight' \in [CPUs -> [bucket: EpochID \cup {0}, limit: Nat]]
      /\ \A d \in CPUs : flight'[d] \in {flight[d], Idle}
  BY <1>0 DEF Idle
<1>7. TypeOK' BY <1>4, <1>5, <1>6 DEF IInv, TypeOK
<1>8. Rows' /\ OneActivePerDay' /\ HeldWithinLimit' /\ Stale'
  BY DEF IInv, Rows, OneActivePerDay, HeldWithinLimit, Stale, HasRow, IsActive
<1>9. Bytes'
  <2> SUFFICES ASSUME NEW e \in EpochID
               PROVE  /\ passed'[e] <= epochs[e].granted
                      /\ Used(epochs[e]) <= passed'[e]
                      /\ epochs[e].boot = boot => /\ Used(usage'[e]) = passed'[e]
                                                  /\ epochs[e].rx <= usage'[e].rx
                                                  /\ epochs[e].tx <= usage'[e].tx
                      /\ ~HasRow(e) => usage'[e] = NoCount
    BY DEF Bytes, HasRow
  <2>1. CASE e # b BY <2>1, <1>4, <1>5 DEF IInv, Bytes
  <2>2. CASE e = b
    <3>1. /\ epochs[b].granted \in Nat /\ epochs[b].rx \in Nat /\ epochs[b].tx \in Nat
          /\ usage[b].rx \in Nat /\ usage[b].tx \in Nat
      BY <1>1, RowType, MapType DEF IInv
    <3>2. usage'[b].rx \in Nat /\ usage'[b].tx \in Nat BY <1>1, <1>4 DEF Counters
    <3>3. /\ Used(epochs[b]) <= passed[b] /\ Used(epochs[b]) \in Nat
          /\ epochs[b].rx <= usage[b].rx /\ epochs[b].tx <= usage[b].tx
      BY <1>1, <3>1 DEF IInv, Bytes, Used
    <3>4. passed'[b] <= epochs[b].granted /\ Used(epochs[b]) <= passed'[b]
      BY <3>1, <3>3, <1>0, <1>1, <1>2, <1>3, <1>5
    <3>5. Used(usage'[b]) = passed'[b] BY <1>2, <1>4, <1>5
    <3>6. epochs[b].rx <= usage'[b].rx /\ epochs[b].tx <= usage'[b].tx
      BY <3>1, <3>2, <3>3, <1>4
    <3> QED BY <3>4, <3>5, <3>6, <2>2, <1>1
  <2> QED BY <2>1, <2>2
<1>10. Entries'
  <2>1. b \in grantKeys => passed'[b] <= grants[b]
    BY <1>0, <1>1, <1>2, <1>3, <1>5, MapType DEF IInv
  <2> QED BY <2>1, <1>5 DEF IInv, Entries, HasEntry, HasRow
<1>11. Pointers' BY DEF IInv, Pointers, Complete
<1>12. Flights' BY <1>6 DEF IInv, Flights, HasRow, IsActive, Idle
<1>13. Unpublished' BY <1>1, <1>5 DEF IInv, Unpublished, IsActive
<1>14. LockHolders'
  <2> SUFFICES ASSUME NEW v \in Users PROVE LockHolder(v)' BY DEF LockHolders
  <2>1. LockHolder(v) BY DEF IInv, LockHolders
  <2>2. \A e \in EpochID : SameEpoch(e) BY <1>4, MapType DEF IInv, SameEpoch
  <2>3. day' >= day BY ClockType DEF IInv
  <2> QED BY <2>1, <2>2, <2>3, <1>7, LockFrame DEF IInv
<1> QED BY <1>7, <1>8, <1>9, <1>10, <1>11, <1>12, <1>13, <1>14 DEF IInv

LEMMA LoseKernelStateKeeps ==
  ASSUME IInv, LoseKernelState
  PROVE  IInv'
<1> USE DEF LoseKernelState, ProcessEnds, ledgerVars
<1>0. NoLocals \in Locals /\ NoCleanup \in Cleanup /\ NoCount \in Counters
      /\ Idle \in [bucket: EpochID \cup {0}, limit: Nat]
  BY BoundsAssumption DEF NoLocals, Locals, NoCleanup, Cleanup, Days, NoCount, Counters, Idle
<1>1. boot' = boot + 1 /\ boot' \in Nat BY DEF IInv, TypeOK
<1>2. TypeOK'
  <2>1. /\ pc' \in [Users -> {"idle"} \cup SyncSteps \cup CleanupSteps]
        /\ userBucket' \in [Users -> EpochID \cup {0}]
        /\ bucketMeta' \in [EpochID -> Users \cup {0}]
        /\ grants' \in [EpochID -> Nat] /\ grantKeys' \in SUBSET EpochID
        /\ usageKeys' \in SUBSET EpochID
    OBVIOUS
  <2>2. /\ loc' \in [Users -> Locals] /\ cleanup' \in [Users -> Cleanup]
        /\ usage' \in [EpochID -> Counters]
        /\ flight' \in [CPUs -> [bucket: EpochID \cup {0}, limit: Nat]]
    BY <1>0
  <2> QED BY <2>1, <2>2, <1>1 DEF IInv, TypeOK
<1>3. \A e \in EpochID : epochs[e].boot # boot' /\ epochs[e].boot <= boot'
  BY <1>1, RowType, ClockType DEF IInv, Rows
<1>4. Rows' BY <1>3 DEF IInv, Rows, HasRow
<1>5. OneActivePerDay' /\ HeldWithinLimit' BY DEF IInv, OneActivePerDay, HeldWithinLimit
<1>6. Bytes' BY <1>3 DEF IInv, Bytes, HasRow
<1>7. Entries' BY DEF IInv, Entries, HasEntry, HasRow
<1>8. Pointers' /\ Flights' BY DEF Pointers, Flights, Idle
<1>9. Unpublished' BY <1>3 DEF Unpublished
<1>10. Stale'
  <2>1. \A e \in EpochID : IsActive(e)' => epochs[e].user \in Users
    BY DEF IInv, Rows, HasRow, IsActive
  <2> QED BY <2>1 DEF Stale
<1>11. LockHolders' BY IdleHolder DEF LockHolders
<1> QED BY <1>2, <1>4, <1>5, <1>6, <1>7, <1>8, <1>9, <1>10, <1>11 DEF IInv

-----------------------------------------------------------------------------
LEMMA StutterKeeps ==
  ASSUME IInv, UNCHANGED vars
  PROVE  IInv'
<1> USE DEF vars, ledgerVars, mapVars, procVars, lockVars, envVars
<1>1. TypeOK' BY DEF IInv, TypeOK
<1>2. day' >= day BY ClockType DEF IInv
<1> QED BY <1>1, <1>2, QuietStep

LEMMA InitIInv == Init => IInv
<1> SUFFICES ASSUME Init PROVE IInv OBVIOUS
<1> USE DEF Init
<1>0. /\ NoLocals \in Locals /\ NoCleanup \in Cleanup /\ NoCount \in Counters /\ NoRow \in Row
      /\ Idle \in [bucket: EpochID \cup {0}, limit: Nat] /\ 0 \in Days
  BY BoundsAssumption
  DEF NoLocals, Locals, NoCleanup, Cleanup, Days, NoCount, Counters, Idle, NoRow, Row
<1>1. TypeOK
  <2>1. /\ epochs \in [EpochID -> Row] /\ usage \in [EpochID -> Counters]
        /\ flight \in [CPUs -> [bucket: EpochID \cup {0}, limit: Nat]]
        /\ loc \in [Users -> Locals] /\ cleanup \in [Users -> Cleanup]
    BY <1>0
  <2>2. /\ pc \in [Users -> {"idle"} \cup SyncSteps \cup CleanupSteps]
        /\ limits \in [Users -> [Days -> Nat]] /\ userBucket \in [Users -> EpochID \cup {0}]
        /\ bucketMeta \in [EpochID -> Users \cup {0}] /\ grants \in [EpochID -> Nat]
        /\ passed \in [EpochID -> Nat]
    OBVIOUS
  <2> QED BY <2>1, <2>2, <1>0 DEF TypeOK
<1>2. \A e \in EpochID : /\ epochs[e] = NoRow /\ epochs[e].status = "none" /\ epochs[e].user = 0
                         /\ epochs[e].day = 0 /\ epochs[e].boot = 0 /\ epochs[e].granted = 0
                         /\ epochs[e].rx = 0 /\ epochs[e].tx = 0
  BY DEF NoRow
<1>3. Rows /\ OneActivePerDay /\ Unpublished /\ Stale
  BY <1>2 DEF Rows, OneActivePerDay, Unpublished, Stale, HasRow, IsActive
<1>4. HeldWithinLimit
  <2> SUFFICES ASSUME NEW u \in Users, NEW d \in Days PROVE Held(epochs, u, d) <= 0
    BY DEF HeldWithinLimit
  <2>1. RowsOf(epochs, u, d) = {} BY <1>2, NoZero DEF RowsOf
  <2>2. Units(Granted(epochs), RowsOf(epochs, u, d)) = {} BY <2>1 DEF Units
  <2>3. Held(epochs, u, d) = 0 BY <2>2, FS_EmptySet DEF Held, SumOver
  <2> QED BY <2>3
<1>5. Bytes BY <1>2 DEF Bytes, HasRow, Used, NoCount
<1>6. Entries BY DEF Entries, HasEntry
<1>7. Pointers /\ Flights BY DEF Pointers, Flights, Idle
<1>8. LockHolders BY DEF LockHolders, LockHolder, SyncSteps
<1> QED BY <1>1, <1>3, <1>4, <1>5, <1>6, <1>7, <1>8 DEF IInv

\* IInv is inductive: it holds initially and every step keeps it.
THEOREM Inductive == Spec => []IInv
<1>1. IInv /\ [Next]_vars => IInv'
  <2> SUFFICES ASSUME IInv, [Next]_vars PROVE IInv' OBVIOUS
  <2>1. ASSUME NEW u \in Users, StartSync(u) \/ SyncStep(u) \/ CleanupStep(u) PROVE IInv'
    BY <2>1, StartSyncKeeps, LookupKeeps, DeletePartialKeeps, CloseLostKeeps, EnsureKeeps,
       CloseSnapshotKeeps, InitGrantsKeeps, InitUsageKeeps, CheckpointKeeps, PublishGrantsKeeps,
       PublishMetaKeeps, PublishPointerKeeps, StartCleanupKeeps, CleanupCloseKeeps,
       CleanupDeleteKeeps
    DEF SyncStep, CleanupStep
  <2>2. CASE Kernel BY <2>2, FetchKeeps, DropKeeps, PassKeeps DEF Kernel
  <2>3. CASE Process BY <2>3, ProcessKeeps DEF Process
  <2>4. CASE Environment
    BY <2>4, ProcessKeeps, LoseKernelStateKeeps, ClockKeeps, EarlyReturnKeeps DEF Environment
  <2>5. CASE UNCHANGED vars BY <2>5, StutterKeeps
  <2> QED BY <2>1, <2>2, <2>3, <2>4, <2>5 DEF Next
<1> QED BY <1>1, InitIInv, PTL DEF Spec

-----------------------------------------------------------------------------
(***************************************************************************)
(* The properties of QuotaSync, from IInv.                                 *)
(***************************************************************************)
\* Every variable of the manager and of the kernel keeps its type.
THEOREM TypeCorrect == Spec => []TypeOK
<1>1. IInv => TypeOK BY DEF IInv
<1> QED BY <1>1, Inductive, PTL

\* No byte passes outside an authorisation the ledger holds (account and the
\* authorisations checkpoint has committed).
THEOREM PassedAuthorised == Spec => []PassedIsHeld
<1>1. IInv => PassedIsHeld BY DEF IInv, Bytes, PassedIsHeld
<1> QED BY <1>1, Inductive, PTL

\* No byte is confirmed by a checkpoint or a closing snapshot that did not pass.
THEOREM ConfirmedPassed == Spec => []ConfirmedIsReal
<1>1. IInv => ConfirmedIsReal BY DEF IInv, Bytes, ConfirmedIsReal
<1> QED BY <1>1, Inductive, PTL

\* The authorisations of a day stay within the limit recorded for it.
THEOREM AuthorisedWithinLimit == Spec => []HeldWithinLimit
<1>1. IInv => HeldWithinLimit BY DEF IInv
<1> QED BY <1>1, Inductive, PTL

\* The daily limit holds for what the kernel really passes.
THEOREM DailyLimitHolds == Spec => []DailyLimit
<1>1. ASSUME IInv PROVE DailyLimit
  <2> SUFFICES ASSUME NEW u \in Users, NEW d \in Days PROVE Spent(u, d) <= limits[u][d]
    BY DEF DailyLimit
  <2> DEFINE S == RowsOf(epochs, u, d)
  <2>1. S \in SUBSET EpochID BY DEF RowsOf
  <2>2. epochs \in Table BY <1>1 DEF IInv, TypeOK, Table
  <2>3. \A e \in S : /\ Granted(epochs)[e] \in Nat /\ passed[e] \in Nat
                     /\ passed[e] <= Granted(epochs)[e]
    BY <1>1, <2>1, <2>2, GrantedNat, MapType DEF IInv, Bytes
  <2> HIDE DEF S
  <2>4. SumOver(passed, S) <= SumOver(Granted(epochs), S) BY ONLY <2>1, <2>3, SumMonotone
  <2>5. SumOver(passed, S) \in Nat /\ SumOver(Granted(epochs), S) \in Nat
    BY ONLY <2>1, <2>3, SumType
  <2>6. SumOver(Granted(epochs), S) <= limits[u][d] /\ limits[u][d] \in Nat
    BY <1>1 DEF IInv, HeldWithinLimit, Held, TypeOK, S
  <2>7. SumOver(passed, S) <= limits[u][d] BY <2>4, <2>5, <2>6
  <2> QED BY <2>7 DEF Spent, S
<1>2. IInv => DailyLimit BY <1>1
<1> QED BY <1>2, Inductive, PTL

\* A published bucket is complete, its user's, of this lifetime of the maps and
\* within the authorisation of its row.
THEOREM PublishedBacked == Spec => []PublishedIsBacked
<1>1. ASSUME IInv PROVE PublishedIsBacked
  <2> SUFFICES ASSUME NEW u \in Users, userBucket[u] # 0
               PROVE  LET b == userBucket[u] IN
                      /\ Complete(b) /\ bucketMeta[b] = u /\ epochs[b].user = u
                      /\ epochs[b].boot = boot /\ grants[b] <= epochs[b].granted
    BY DEF PublishedIsBacked
  <2>1. userBucket[u] \in EpochID BY <1>1, LockType DEF IInv
  <2>2. Complete(userBucket[u]) /\ bucketMeta[userBucket[u]] = u BY <1>1 DEF IInv, Pointers
  <2> QED BY <1>1, <2>1, <2>2, NoZero DEF IInv, Entries, HasEntry, Complete
<1>2. IInv => PublishedIsBacked BY <1>1
<1> QED BY <1>2, Inductive, PTL

\* No consistency check of SyncEpochToEbpf, closeSnapshot or checkpoint fails.
THEOREM ChecksNeverFail == Spec => []ChecksPass
<1>1. ASSUME IInv PROVE ChecksPass
  <2> SUFFICES ASSUME NEW u \in Users
               PROVE  LET l == loc[u] IN
                      /\ pc[u] = "lookup" =>
                           \A b \in EpochID : IsBucketToInspect(u, b) /\ Complete(b) => bucketMeta[b] = u
                      /\ pc[u] = "closeSnapshot" =>
                           SnapshotMatches(epochs, l.bucket, u, l.grant, l.rx, l.tx)
                      /\ pc[u] = "checkpoint" => CheckpointAllowed(u)
                      /\ pc[u] = "publishGrants" => l.active \in grantKeys
    BY DEF ChecksPass
  <2>0. LockHolder(u) BY <1>1 DEF IInv, LockHolders
  <2>1. ASSUME NEW b \in EpochID, IsBucketToInspect(u, b), Complete(b) PROVE bucketMeta[b] = u
    <3>1. CASE userBucket[u] # 0 BY <1>1, <2>1, <3>1 DEF IInv, Pointers, IsBucketToInspect
    <3>2. CASE userBucket[u] = 0
      <4>1. epochs[b].user = u
        BY <2>1, <3>2, NoZero DEF IsBucketToInspect, IsLatestActive, ActiveOf
      <4> QED BY <4>1, <1>1, <2>1 DEF IInv, Entries, Complete
    <3> QED BY <3>1, <3>2
  <2>2. ASSUME pc[u] = "closeSnapshot"
        PROVE  SnapshotMatches(epochs, loc[u].bucket, u, loc[u].grant, loc[u].rx, loc[u].tx)
    <3>1. LiveFound(u) BY <2>0, <2>2 DEF LockHolder
    <3>2. /\ loc[u].bucket \in EpochID /\ loc[u].bucket \in grantKeys
          /\ epochs[loc[u].bucket].user = u
      BY <3>1, <1>1, LiveBucket
    <3>3. grants[loc[u].bucket] <= epochs[loc[u].bucket].granted
      BY <3>2, <1>1 DEF IInv, Entries
    <3> QED BY <3>1, <3>2, <3>3, <1>1, MapType, RowType DEF IInv, SnapshotMatches, LiveFound
  <2>3. ASSUME pc[u] = "checkpoint" PROVE CheckpointAllowed(u)
    <3> DEFINE e == loc[u].active
    <3>1. Inserted(u) /\ Snapshot(u) BY <2>0, <2>3 DEF LockHolder
    <3>2. e \in EpochID /\ IsActive(e) /\ epochs[e].user = u /\ e \in grantKeys
      BY <3>1, <1>1, InsertedBucket
    <3>3. /\ epochs[e].granted \in Nat /\ epochs[e].rx \in Nat /\ epochs[e].tx \in Nat
          /\ loc[u].grant \in Nat /\ loc[u].rx \in Nat /\ loc[u].tx \in Nat
      BY <3>2, <1>1, RowType, LockType DEF IInv
    <3>4. loc[u].grant <= epochs[e].granted BY <3>1, <3>2, <1>1 DEF IInv, Entries, Snapshot
    <3>5. Held(epochs, u, epochs[e].day) <= limits[u][epochs[e].day]
          /\ Held(epochs, u, epochs[e].day) \in Nat /\ limits[u][epochs[e].day] \in Nat
      <4>1. epochs \in [EpochID -> Row] BY <1>1 DEF IInv, TypeOK
      <4>2. epochs[e].day \in Days BY <4>1, <3>2 DEF Row
      <4>3. Held(epochs, u, epochs[e].day) \in Nat BY <4>1, HeldType DEF Table
      <4> QED BY <4>2, <4>3, <1>1 DEF IInv, TypeOK, HeldWithinLimit
    <3>6. /\ loc[u].rx + loc[u].tx <= loc[u].grant
          /\ epochs[e].rx <= loc[u].rx /\ epochs[e].tx <= loc[u].tx
      BY <3>1 DEF Snapshot
    <3>7. ~CheckpointRefused(epochs, e, loc[u].rx, loc[u].tx, limits[u][epochs[e].day])
      BY <3>2, <3>3, <3>4, <3>5, <3>6 DEF CheckpointRefused, IsActive
    <3> QED BY <3>4, <3>6, <3>7 DEF CheckpointAllowed
  <2>4. pc[u] = "publishGrants" => loc[u].active \in grantKeys
    BY <2>0 DEF LockHolder, Inserted
  <2> QED BY <2>1, <2>2, <2>3, <2>4
<1>2. IInv => ChecksPass BY <1>1
<1> QED BY <1>2, Inductive, PTL

-----------------------------------------------------------------------------
(***************************************************************************)
(* What a step may never do.                                               *)
(***************************************************************************)
\* The transactions that write table epochs
WritesRows(u) ==
  CloseLost(u) \/ EnsureEpoch(u) \/ CloseSnapshotStep(u) \/ Checkpoint(u) \/ CleanupClose(u)

LEMMA RowWriters ==
  ASSUME [Next]_vars PROVE epochs' = epochs \/ \E u \in Users : WritesRows(u)
<1> USE DEF ledgerVars
<1>1. ASSUME NEW u \in Users, StartSync(u) \/ SyncStep(u) \/ CleanupStep(u)
      PROVE  epochs' = epochs \/ WritesRows(u)
  BY <1>1 DEF StartSync, SyncStep, CleanupStep, WritesRows, LookupBucket, DeletePartial, InitGrants,
       InitUsage, PublishGrants, ErrorReturn, PublishMeta, PublishPointer, StartCleanup, CleanupDelete
<1>2. CASE Kernel BY <1>2 DEF Kernel, Fetch, Drop, Pass
<1>3. CASE Process BY <1>3 DEF Process, Fail, StartupExit, Start, Enable
<1>4. CASE Environment
  BY <1>4 DEF Environment, Crash, StartRefused, LoseKernelState, NextDay, GraceEnds,
       ContextCancelled, IOError, CleanupFails, ErrorReturn
<1>5. CASE UNCHANGED vars BY <1>5 DEF vars
<1> QED BY <1>1, <1>2, <1>3, <1>4, <1>5 DEF Next

RowFinal(e) ==
  epochs[e].status = "closed" =>
    /\ epochs'[e].status = "closed" /\ epochs'[e].granted <= epochs[e].granted
    /\ epochs'[e].rx >= epochs[e].rx /\ epochs'[e].tx >= epochs[e].tx

LEMMA UnwrittenRow == ASSUME TypeOK, NEW e \in EpochID, epochs'[e] = epochs[e] PROVE RowFinal(e)
BY RowType DEF RowFinal

LEMMA ClosingIsFinal ==
  ASSUME TypeOK, NEW S, epochs' = Close(epochs, S), NEW e \in EpochID PROVE RowFinal(e)
<1>1. epochs[e] \in Row BY DEF TypeOK
<1>2. epochs'[e] = IF e \in S THEN [epochs[e] EXCEPT !.status = "closed"] ELSE epochs[e] BY DEF Close
<1> QED BY <1>1, <1>2, RowType DEF Row, RowFinal

LEMMA WriterIsFinal ==
  ASSUME IInv, NEW u \in Users, WritesRows(u), NEW e \in EpochID PROVE RowFinal(e)
<1>0. TypeOK /\ epochs \in [EpochID -> Row] BY DEF IInv, TypeOK
<1>1. CASE CloseLost(u) BY <1>0, <1>1, ClosingIsFinal DEF CloseLost
<1>2. CASE CleanupClose(u) BY <1>0, <1>2, ClosingIsFinal DEF CleanupClose
<1>3. CASE EnsureEpoch(u)
  <2>1. CASE epochs' = epochs BY <1>0, <2>1, UnwrittenRow
  <2>2. ASSUME NEW f \in EpochID, IsNewID(epochs, f), epochs' = [epochs EXCEPT ![f] = NewRow(u, loc[u].day, boot)]
        PROVE  RowFinal(e)
    <3>1. CASE e = f BY <2>2, <3>1 DEF IsNewID, RowFinal
    <3>2. CASE e # f BY <1>0, <2>2, <3>2, UnwrittenRow
    <3> QED BY <3>1, <3>2
  <2> QED BY <1>3, <2>1, <2>2 DEF EnsureEpoch
<1>4. CASE CloseSnapshotStep(u)
  <2> DEFINE l == loc[u]
  <2>1. CASE epochs' = epochs BY <1>0, <2>1, UnwrittenRow
  <2>2. CASE /\ SnapshotMatches(epochs, l.bucket, u, l.grant, l.rx, l.tx)
             /\ epochs' = CloseSnapshot(epochs, l.bucket, l.grant, l.rx, l.tx)
    <3>1. CASE e = l.bucket
      <4>1. epochs[e] \in Row BY <1>0
      <4>2. epochs'[e] = [epochs[e] EXCEPT !.status = "closed", !.granted = l.grant, !.rx = l.rx, !.tx = l.tx]
        BY <1>0, <2>2, <3>1 DEF CloseSnapshot
      <4>3. /\ epochs'[e].status = "closed" /\ epochs'[e].granted = l.grant
            /\ epochs'[e].rx = l.rx /\ epochs'[e].tx = l.tx
        BY <4>1, <4>2 DEF Row
      <4> QED BY <1>0, <2>2, <3>1, <4>3, RowType, LockType DEF SnapshotMatches, RowFinal
    <3>2. CASE e # l.bucket
      <4>1. epochs'[e] = epochs[e] BY <1>0, <2>2, <3>2 DEF CloseSnapshot
      <4> QED BY <1>0, <4>1, UnwrittenRow
    <3> QED BY <3>1, <3>2
  <2> QED BY <1>4, <2>1, <2>2 DEF CloseSnapshotStep, ErrorReturn, ledgerVars
<1>5. CASE Checkpoint(u)
  <2>1. CASE epochs' = epochs BY <1>0, <2>1, UnwrittenRow
  <2>2. CASE CheckpointAllowed(u)
    <3>1. epochs[loc[u].active].status = "active" BY <2>2 DEF CheckpointAllowed, CheckpointRefused
    <3>2. e # loc[u].active => epochs'[e] = epochs[e] BY <1>0, <1>5, <2>2 DEF Checkpoint
    <3>3. CASE e = loc[u].active BY <3>1, <3>3 DEF RowFinal
    <3> QED BY <1>0, <3>2, <3>3, UnwrittenRow
  <2> QED BY <1>5, <2>1, <2>2 DEF Checkpoint, ErrorReturn, ledgerVars
<1> QED BY <1>1, <1>2, <1>3, <1>4, <1>5 DEF WritesRows

\* A closed epoch stays closed, is not refilled and keeps its confirmed usage,
\* whichever of ensure, checkpoint, closeSnapshot and the cleanup comes next.
THEOREM ClosedForGood == Spec => ClosedIsFinal
<1>1. IInv /\ [Next]_vars => \A e \in EpochID : RowFinal(e)
  <2> SUFFICES ASSUME IInv, [Next]_vars, NEW e \in EpochID PROVE RowFinal(e) OBVIOUS
  <2>1. CASE epochs' = epochs BY <2>1, UnwrittenRow DEF IInv
  <2>2. CASE \E u \in Users : WritesRows(u) BY <2>2, WriterIsFinal
  <2> QED BY <2>1, <2>2, RowWriters
<1>2. IInv /\ [Next]_vars =>
        [\A e \in EpochID : epochs[e].status = "closed" =>
           /\ epochs'[e].status = "closed"
           /\ epochs'[e].granted <= epochs[e].granted
           /\ epochs'[e].rx >= epochs[e].rx /\ epochs'[e].tx >= epochs[e].tx]_vars
  BY <1>1 DEF RowFinal
<1> QED BY <1>2, Inductive, PTL DEF Spec, ClosedIsFinal

\* The map operations on buckets
WritesMaps ==
  \/ \E u \in Users :
       DeletePartial(u) \/ InitGrants(u) \/ InitUsage(u) \/ PublishGrants(u) \/ CleanupDelete(u)
  \/ \E c \in CPUs, dir \in Directions, n \in 1 .. MaxPacket : Pass(c, dir, n)

LEMMA MapWriters ==
  ASSUME [Next]_vars, boot' = boot, boot \in Nat
  PROVE  UNCHANGED <<grants, grantKeys, usage, usageKeys>> \/ WritesMaps
<1> USE DEF mapVars
<1>1. ASSUME NEW u \in Users, StartSync(u) \/ SyncStep(u) \/ CleanupStep(u)
      PROVE  UNCHANGED <<grants, grantKeys, usage, usageKeys>> \/ WritesMaps
  BY <1>1 DEF StartSync, SyncStep, CleanupStep, WritesMaps, LookupBucket, CloseLost, EnsureEpoch,
       CloseSnapshotStep, Checkpoint, ErrorReturn, PublishMeta, PublishPointer, StartCleanup, CleanupClose
<1>2. CASE Kernel BY <1>2 DEF Kernel, Fetch, Drop, WritesMaps
<1>3. CASE Process BY <1>3 DEF Process, Fail, StartupExit, Start, Enable
<1>4. CASE Environment
  <2>1. ~LoseKernelState BY DEF LoseKernelState
  <2> QED BY <1>4, <2>1 DEF Environment, Crash, StartRefused, NextDay, GraceEnds,
       ContextCancelled, IOError, CleanupFails, ErrorReturn
<1>5. CASE UNCHANGED vars BY <1>5 DEF vars
<1> QED BY <1>1, <1>2, <1>3, <1>4, <1>5 DEF Next

BucketGrows(b) ==
  /\ b \in grantKeys' /\ b \in usageKeys' /\ grants'[b] >= grants[b]
  /\ usage'[b].rx >= usage[b].rx /\ usage'[b].tx >= usage[b].tx

\* The published bucket of a user is complete and of the user
LEMMA OwnBucket ==
  ASSUME IInv, NEW u \in Users, userBucket[u] # 0
  PROVE  /\ userBucket[u] \in EpochID /\ epochs[userBucket[u]].user = u
         /\ userBucket[u] \in grantKeys /\ userBucket[u] \in usageKeys
<1>1. userBucket[u] \in EpochID BY LockType DEF IInv
<1>2. Complete(userBucket[u]) /\ bucketMeta[userBucket[u]] = u BY DEF IInv, Pointers
<1> QED BY <1>1, <1>2 DEF IInv, Entries, Complete

LEMMA SameBucket ==
  ASSUME IInv, NEW u \in Users, userBucket[u] # 0, LET b == userBucket[u] IN
           /\ b \in grantKeys' /\ b \in usageKeys' /\ grants'[b] = grants[b] /\ usage'[b] = usage[b]
  PROVE  BucketGrows(userBucket[u])
<1>1. userBucket[u] \in EpochID BY OwnBucket
<1>2. grants[userBucket[u]] \in Nat /\ usage[userBucket[u]].rx \in Nat /\ usage[userBucket[u]].tx \in Nat
  BY <1>1, MapType DEF IInv
<1> QED BY <1>2 DEF BucketGrows

LEMMA DeletedOther ==
  ASSUME IInv, NEW u \in Users, userBucket[u] # 0, NEW b \in EpochID, b # userBucket[u],
         DeleteEntry(b), usage' = usage
  PROVE  BucketGrows(userBucket[u])
<1>1. grants \in [EpochID -> Nat] BY DEF IInv, TypeOK
<1> QED BY <1>1, OwnBucket, SameBucket DEF DeleteEntry

\* What one user's synchronisation writes is no other user's bucket, and not
\* the one that is published
LEMMA MapStepGrows ==
  ASSUME IInv, NEW u \in Users, userBucket[u] # 0, NEW v \in Users,
         DeletePartial(v) \/ InitGrants(v) \/ InitUsage(v) \/ PublishGrants(v) \/ CleanupDelete(v)
  PROVE  BucketGrows(userBucket[u])
<1> DEFINE b == userBucket[u]
<1>0. /\ b \in EpochID /\ epochs[b].user = u /\ b \in grantKeys /\ b \in usageKeys
      /\ grants \in [EpochID -> Nat] /\ usage \in [EpochID -> Counters]
  BY OwnBucket DEF IInv, TypeOK
<1>L. LockHolder(v) /\ loc[v].active \in EpochID \cup {0} /\ loc[v].bucket \in EpochID \cup {0}
  BY LockType DEF IInv, LockHolders
<1>U. CASE UNCHANGED <<grants, grantKeys, usage, usageKeys>> BY <1>0, <1>U, SameBucket
<1>1. CASE DeletePartial(v)
  <2>1. CASE DeleteEntry(loc[v].bucket)
    <3>1. PartialFound(v) BY <1>L, <1>1 DEF DeletePartial, LockHolder
    <3>2. loc[v].bucket \in EpochID /\ epochs[loc[v].bucket].user = v /\ userBucket[v] = 0
      BY <1>L, <3>1 DEF PartialFound, ActiveOf
    <3>3. loc[v].bucket # b BY <1>0, <3>2
    <3> QED BY <1>1, <2>1, <3>2, <3>3, DeletedOther DEF DeletePartial
  <2> QED BY <1>1, <1>U, <2>1 DEF DeletePartial
<1>2. CASE InitGrants(v)
  <2>1. Building(v) BY <1>L, <1>2 DEF InitGrants, LockHolder
  <2>2. loc[v].active # b BY <1>0, <2>1 DEF Building, ActiveChosen, ActiveOn, ActiveOf
  <2> QED BY <1>0, <1>2, <2>2, SameBucket DEF InitGrants
<1>3. CASE InitUsage(v)
  <2>1. Building(v) BY <1>L, <1>3 DEF InitUsage, LockHolder
  <2>2. loc[v].active # b BY <1>0, <2>1 DEF Building, ActiveChosen, ActiveOn, ActiveOf
  <2> QED BY <1>0, <1>3, <2>2, SameBucket DEF InitUsage
<1>4. CASE PublishGrants(v)
  <2>1. CASE loc[v].active \in grantKeys
    <3>0. grants' = [grants EXCEPT ![loc[v].active] = epochs[loc[v].active].granted]
          /\ UNCHANGED <<grantKeys, usage, usageKeys>>
      BY <1>4, <2>1 DEF PublishGrants
    <3>1. CASE loc[v].active # b BY <1>0, <3>0, <3>1, SameBucket
    <3>2. CASE loc[v].active = b
      <4>1. grants[b] <= epochs[b].granted /\ epochs[b].granted \in Nat /\ grants[b] \in Nat
            /\ usage[b].rx \in Nat /\ usage[b].tx \in Nat
        BY <1>0, RowType, MapType DEF IInv, Entries
      <4> QED BY <1>0, <3>0, <3>2, <4>1 DEF BucketGrows
    <3> QED BY <3>1, <3>2
  <2> QED BY <1>4, <1>U, <2>1 DEF PublishGrants, ErrorReturn
<1>5. CASE CleanupDelete(v)
  <2>1. ASSUME NEW f \in loc[v].ids, DeleteEntry(f) PROVE BucketGrows(b)
    <3>1. f \in EpochID /\ epochs[f].user = v /\ f # userBucket[v]
      BY <1>L, <1>5, LockType DEF CleanupDelete, LockHolder, IInv
    <3>2. f # b BY <1>0, <3>1
    <3> QED BY <1>5, <2>1, <3>1, <3>2, DeletedOther DEF CleanupDelete
  <2> QED BY <1>5, <1>U, <2>1 DEF CleanupDelete
<1> QED BY <1>1, <1>2, <1>3, <1>4, <1>5

LEMMA PassGrows ==
  ASSUME IInv, NEW u \in Users, userBucket[u] # 0,
         NEW c \in CPUs, NEW dir \in Directions, NEW n \in 1 .. MaxPacket, Pass(c, dir, n)
  PROVE  BucketGrows(userBucket[u])
<1> DEFINE b == userBucket[u]
           f == flight[c].bucket
<1>0. /\ b \in EpochID /\ b \in grantKeys /\ b \in usageKeys /\ usage \in [EpochID -> Counters]
      /\ f \in EpochID /\ n \in Nat /\ grants[b] \in Nat
  BY OwnBucket, FlightType, MapType DEF IInv, TypeOK, Pass
<1>1. usage' = [usage EXCEPT ![f] = Charge(usage[f], dir, n)] /\ UNCHANGED <<grants, grantKeys, usageKeys>>
  BY DEF Pass
<1>2. CASE f # b BY <1>0, <1>1, <1>2, SameBucket
<1>3. CASE f = b
  <2>1. usage[b] \in Counters BY <1>0
  <2>2. usage'[b] = Charge(usage[b], dir, n) BY <1>0, <1>1, <1>3
  <2>3. usage'[b].rx >= usage[b].rx /\ usage'[b].tx >= usage[b].tx BY <1>0, <2>1, <2>2, ChargeType
  <2> QED BY <1>0, <1>1, <2>3 DEF BucketGrows
<1> QED BY <1>2, <1>3

\* While a bucket is published, recovery, refill and cleanup, of its own user
\* and of others, and the packets of all CPUs only let it grow.
THEOREM PublishedOnlyGrows == Spec => LiveBucketOnlyGrows
<1>1. ASSUME IInv, [Next]_vars, NEW u \in Users, userBucket[u] # 0, boot' = boot
      PROVE  BucketGrows(userBucket[u])
  <2>1. boot \in Nat BY <1>1, ClockType DEF IInv
  <2>2. CASE UNCHANGED <<grants, grantKeys, usage, usageKeys>> BY <1>1, <2>2, SameBucket, OwnBucket
  <2>3. CASE WritesMaps BY <1>1, <2>3, MapStepGrows, PassGrows DEF WritesMaps
  <2> QED BY <1>1, <2>1, <2>2, <2>3, MapWriters
<1>2. IInv /\ [Next]_vars =>
        [\A u \in Users : userBucket[u] # 0 /\ boot' = boot =>
           LET b == userBucket[u] IN
           /\ b \in grantKeys' /\ b \in usageKeys' /\ grants'[b] >= grants[b]
           /\ usage'[b].rx >= usage[b].rx /\ usage'[b].tx >= usage[b].tx]_vars
  BY <1>1 DEF BucketGrows
<1> QED BY <1>2, Inductive, PTL DEF Spec, LiveBucketOnlyGrows
=============================================================================
