------------------------------ MODULE QuotaSync ------------------------------
(***************************************************************************)
(* How laxcode-manager keeps its ledger (SQLite) and the kernel's BPF maps *)
(* in step: SyncEpochToEbpf and its asynchronous cleanup, the eBPF program *)
(* that charges packets against the maps meanwhile, and the start, fatal   *)
(* error, crash and loss of the maps that can fall between any two steps.  *)
(*                                                                         *)
(* One action is one SQLite transaction or one map operation of the code.  *)
(* All steps of a user's synchronisation and cleanup run under that user's *)
(* lock (userLock), so a user has one program counter pc[u].               *)
(***************************************************************************)
EXTENDS QuotaLedger

CONSTANTS
  CPUs,        \* CPUs on which the eBPF program can be between its two reads
  Directions,  \* directions a packet may have, a subset of {"rx", "tx"}
  MaxPacket,   \* bound: packet lengths are 1..MaxPacket
  MaxBoots,    \* bound: how often the kernel maps are lost
  MaxCrashes,  \* bound: how often the manager process dies
  MaxFaults    \* bound: cancelled contexts, I/O errors

ASSUME DirectionsAssumption == Directions \subseteq {"rx", "tx"}
ASSUME EnvironmentAssumption ==
  MaxPacket \in Nat /\ MaxBoots \in Nat /\ MaxCrashes \in Nat /\ MaxFaults \in Nat

VARIABLES
  \* quota.db
  epochs,      \* table epochs
  limits,      \* table user_days: limit_bytes of (user, day), 0 = no row
  \* pinned BPF maps
  ready,       \* metadata.ready
  userBucket,  \* user_bucket: 0 = no entry
  bucketMeta,  \* bucket_meta: the user of the entry, 0 = no entry
  grants,      \* grants: values, and
  grantKeys,   \* ... the keys that have an entry
  usage,       \* usage: counters (an element outlives its key for who holds it)
  usageKeys,   \* ... the keys that have an entry
  flight,      \* per CPU: bucket and limit the program has read, 0 = idle
  \* the manager process
  mgr,         \* "down", "starting" (refresh of run) or "up"
  todo,        \* users the starting refresh has still to synchronise
  cfg,         \* configuration of this process
  failing,     \* an error is on its way to m.fail
  fatal,       \* m.fatal is set
  pc, loc,     \* per user: holder of the user lock and its locals
  cleanup,     \* per user: cleanupPending with its captured values, cleanedEpoch
  \* environment
  day, grace,  \* wall-clock date; the first 30 seconds of it
  boot,        \* which lifetime of the kernel maps this is
  crashes, faults,
  \* history
  passed       \* bytes the kernel really let through, per epoch

ledgerVars == <<epochs, limits>>
mapVars    == <<ready, userBucket, bucketMeta, grants, grantKeys, usage, usageKeys>>
procVars   == <<mgr, todo, cfg, failing, fatal>>
lockVars   == <<pc, loc, cleanup>>
envVars    == <<day, grace, boot, crashes, faults>>
vars == <<ledgerVars, mapVars, flight, procVars, lockVars, envVars, passed>>

-----------------------------------------------------------------------------
SyncSteps == {"lookup", "deletePartial", "closeLost", "ensure", "closeSnapshot",
              "initGrants", "initUsage", "checkpoint", "publishGrants",
              "publishMeta", "publishPointer"}
CleanupSteps == {"cleanupClose", "cleanupDelete"}

Counters == [rx: Nat, tx: Nat]
NoCount == [rx |-> 0, tx |-> 0]

\* Locals of SyncEpochToEbpf: day; bucketID; whether dayBucketMeta is set;
\* dayGrants and dayUsage; activeEpoch.ID.  Cleanup uses day, active and ids.
Locals == [day: Days, bucket: EpochID \cup {0}, live: BOOLEAN, grant: Nat,
           rx: Nat, tx: Nat, active: EpochID \cup {0}, ids: SUBSET EpochID]
NoLocals == [day |-> 0, bucket |-> 0, live |-> FALSE, grant |-> 0,
             rx |-> 0, tx |-> 0, active |-> 0, ids |-> {}]

Cleanup == [pending: BOOLEAN, day: Days, epoch: EpochID \cup {0},
            cleaned: EpochID \cup {0}]
NoCleanup == [pending |-> FALSE, day |-> 0, epoch |-> 0, cleaned |-> 0]

Idle == [bucket |-> 0, limit |-> 0]

\* Type invariant of the ledger, the BPF maps, the manager and the packets in flight.
TypeOK ==
  /\ epochs \in [EpochID -> Row]
  /\ limits \in [Users -> [Days -> Nat]]
  /\ ready \in BOOLEAN
  /\ userBucket \in [Users -> EpochID \cup {0}]
  /\ bucketMeta \in [EpochID -> Users \cup {0}]
  /\ grants \in [EpochID -> Nat] /\ grantKeys \in SUBSET EpochID
  /\ usage \in [EpochID -> Counters] /\ usageKeys \in SUBSET EpochID
  /\ flight \in [CPUs -> [bucket: EpochID \cup {0}, limit: Nat]]
  /\ mgr \in {"down", "starting", "up"}
  /\ todo \in SUBSET Users
  /\ cfg \in Configs
  /\ failing \in BOOLEAN /\ fatal \in BOOLEAN
  /\ pc \in [Users -> {"idle"} \cup SyncSteps \cup CleanupSteps]
  /\ loc \in [Users -> Locals]
  /\ cleanup \in [Users -> Cleanup]
  /\ day \in Days /\ grace \in BOOLEAN
  /\ boot \in Nat /\ crashes \in Nat /\ faults \in Nat
  /\ passed \in [EpochID -> Nat]

Init ==
  /\ epochs = [e \in EpochID |-> NoRow]
  /\ limits = [u \in Users |-> [d \in Days |-> 0]]
  /\ ready = FALSE
  /\ userBucket = [u \in Users |-> 0]
  /\ bucketMeta = [e \in EpochID |-> 0]
  /\ grants = [e \in EpochID |-> 0] /\ grantKeys = {}
  /\ usage = [e \in EpochID |-> NoCount] /\ usageKeys = {}
  /\ flight = [c \in CPUs |-> Idle]
  /\ mgr = "down" /\ todo = {} /\ cfg \in Configs
  /\ failing = FALSE /\ fatal = FALSE
  /\ pc = [u \in Users |-> "idle"]
  /\ loc = [u \in Users |-> NoLocals]
  /\ cleanup = [u \in Users |-> NoCleanup]
  /\ day = 0 /\ grace = FALSE /\ boot = 0 /\ crashes = 0 /\ faults = 0
  /\ passed = [e \in EpochID |-> 0]

-----------------------------------------------------------------------------
(***************************************************************************)
(* The eBPF program: account() reads the pointer, the three entries and    *)
(* the limit, then takes the spin lock of the counters and charges.        *)
(***************************************************************************)
Complete(b) == b # 0 /\ bucketMeta[b] # 0 /\ b \in grantKeys /\ b \in usageKeys
Absent(b)   == b # 0 => (bucketMeta[b] = 0 /\ b \notin grantKeys /\ b \notin usageKeys)

\* now >= bm->deadline_ns, where the deadline is midnight plus 30 seconds.
Expired(b) == ~ \/ epochs[b].day = day
                \/ epochs[b].day + 1 = day /\ grace

\* A packet of user u up to the reads: every check before the lock passes
Fetch(c, u) ==
  LET b == userBucket[u] IN
  /\ flight[c] = Idle /\ ready
  /\ b # 0 /\ Complete(b) /\ bucketMeta[b] = u /\ ~Expired(b)
  /\ flight' = [flight EXCEPT ![c] = [bucket |-> b, limit |-> grants[b]]]
  /\ UNCHANGED <<ledgerVars, mapVars, procVars, lockVars, envVars, passed>>

\* used <= limit && len <= limit - used, tested under the spin lock
Fits(b, limit, n) == Used(usage[b]) <= limit /\ n <= limit - Used(usage[b])

Charge_Bug(count, dir, n) == [rx |-> count.rx + n, tx |-> count.tx + n]
Charge(count, dir, n) ==
  IF dir = "rx" THEN [count EXCEPT !.rx = count.rx + n] ELSE [count EXCEPT !.tx = count.tx + n]

Pass(c, dir, n) ==
  LET b == flight[c].bucket IN
  /\ b # 0 /\ Fits(b, flight[c].limit, n)
  /\ usage' = [usage EXCEPT ![b] = Charge(usage[b], dir, n)]
  /\ passed' = [passed EXCEPT ![b] = @ + n]
  /\ flight' = [flight EXCEPT ![c] = Idle]
  /\ UNCHANGED <<ready, userBucket, bucketMeta, grants, grantKeys, usageKeys>>
  /\ UNCHANGED <<ledgerVars, procVars, lockVars, envVars>>

Drop(c, n) ==
  LET b == flight[c].bucket IN
  /\ b # 0 /\ ~Fits(b, flight[c].limit, n)
  /\ flight' = [flight EXCEPT ![c] = Idle]
  /\ UNCHANGED <<ledgerVars, mapVars, procVars, lockVars, envVars, passed>>

-----------------------------------------------------------------------------
(***************************************************************************)
(* SyncEpochToEbpf                                                         *)
(***************************************************************************)
Goto(u, step) == pc' = [pc EXCEPT ![u] = step]
Release(u) == Goto(u, "idle") /\ loc' = [loc EXCEPT ![u] = NoLocals]

\* SyncEpochToEbpf returns an error.  While running it is handed to m.fail by
\* the caller; during the starting refresh run disables the guard at once.
ErrorReturn(u) ==
  /\ Release(u)
  /\ failing' = TRUE
  /\ ready' = IF mgr = "starting" THEN FALSE ELSE ready
  /\ UNCHANGED <<ledgerVars, userBucket, bucketMeta, grants, grantKeys, usage, usageKeys>>
  /\ UNCHANGED <<flight, mgr, todo, cfg, fatal, cleanup, passed>>

\* Steps 1 and 2.  Ring events, the one-second refresh, Docker discovery,
\* ensure and network-usage may all start one at any time.
StartSync(u) ==
  /\ pc[u] = "idle" /\ ~fatal
  /\ \/ mgr = "up"
     \/ /\ mgr = "starting" /\ ~failing /\ u \in todo
        /\ \A v \in Users : pc[v] \notin SyncSteps
  /\ Goto(u, "lookup")
  /\ loc' = [loc EXCEPT ![u] = [NoLocals EXCEPT !.day = day]]
  /\ todo' = todo \ {u}
  /\ UNCHANGED <<ledgerVars, mapVars, flight, mgr, cfg, failing, fatal>>
  /\ UNCHANGED <<cleanup, envVars, passed>>

\* Step 3: the published bucket, else the one an interrupted sync was building
IsBucketToInspect(u, b) ==
  IF userBucket[u] # 0 THEN b = userBucket[u] ELSE IsLatestActive(epochs, u, b)

\* Steps 3-6: read the three entries and choose one of three preparations
LookupBucket(u) ==
  /\ pc[u] = "lookup"
  /\ \E b \in EpochID \cup {0} :
       /\ IsBucketToInspect(u, b)
       /\ \/ /\ Absent(b)
             /\ Goto(u, "closeLost")
             /\ loc' = [loc EXCEPT ![u].bucket = b]
             /\ UNCHANGED <<failing, ready>>
          \/ /\ ~Absent(b) /\ ~Complete(b)
             /\ Goto(u, "deletePartial")
             /\ loc' = [loc EXCEPT ![u].bucket = b]
             /\ UNCHANGED <<failing, ready>>
          \/ /\ Complete(b)
             /\ IF bucketMeta[b] = u
                THEN /\ Goto(u, "ensure")
                     /\ loc' = [loc EXCEPT ![u].bucket = b, ![u].live = TRUE,
                                           ![u].grant = grants[b],
                                           ![u].rx = usage[b].rx, ![u].tx = usage[b].tx]
                     /\ UNCHANGED <<failing, ready>>
                ELSE /\ Release(u) /\ failing' = TRUE
                     /\ ready' = IF mgr = "starting" THEN FALSE ELSE ready
  /\ UNCHANGED <<ledgerVars, userBucket, bucketMeta, grants, grantKeys, usage, usageKeys>>
  /\ UNCHANGED <<flight, mgr, todo, cfg, fatal, cleanup, envVars, passed>>

\* kernel.deleteBucket, one map per step: bucket_meta, then grants, then usage
DeleteEntry(b) ==
  /\ bucketMeta' = [bucketMeta EXCEPT ![b] = 0]
  /\ IF bucketMeta[b] # 0
     THEN UNCHANGED <<grants, grantKeys, usageKeys>>
     ELSE /\ grantKeys' = grantKeys \ {b}
          /\ grants' = [grants EXCEPT ![b] = 0]
          /\ usageKeys' = IF b \in grantKeys THEN usageKeys ELSE usageKeys \ {b}

\* Step 4
DeletePartial(u) ==
  /\ pc[u] = "deletePartial"
  /\ \/ /\ ~Absent(loc[u].bucket)
        /\ DeleteEntry(loc[u].bucket)
        /\ UNCHANGED pc
     \/ /\ Absent(loc[u].bucket)
        /\ Goto(u, "ensure")
        /\ UNCHANGED <<bucketMeta, grants, grantKeys, usageKeys>>
  /\ UNCHANGED <<ledgerVars, ready, userBucket, usage, flight, procVars>>
  /\ UNCHANGED <<loc, cleanup, envVars, passed>>

\* Step 5: what the lost bucket may have used stays charged to the day
LostEpochs(u, d) == ActiveOn(epochs, u, d)

CloseLost(u) ==
  /\ pc[u] = "closeLost"
  /\ epochs' = Close(epochs, LostEpochs(u, loc[u].day))
  /\ Goto(u, "ensure")
  /\ UNCHANGED <<limits, mapVars, flight, procVars, loc, cleanup, envVars, passed>>

\* Where steps 8-10 go once the epoch e of the day is known
AfterEnsure_Bug(l, e) == IF l.live /\ l.bucket # e THEN "closeSnapshot" ELSE "initGrants"
AfterEnsure(l, e) ==
  IF ~l.live THEN "initGrants" ELSE IF l.bucket # e THEN "closeSnapshot" ELSE "checkpoint"

\* Step 7: ledger.ensure
EnsureEpoch(u) ==
  LET d == loc[u].day IN
  /\ pc[u] = "ensure"
  /\ limits' = [limits EXCEPT ![u][d] = EnsureLimit(limits[u][d], cfg.limit)]
  /\ \E e \in EpochID :
       /\ \/ e \in ActiveOn(epochs, u, d) /\ UNCHANGED epochs
          \/ /\ ActiveOn(epochs, u, d) = {} /\ IsNewID(epochs, e)
             /\ epochs' = [epochs EXCEPT ![e] = NewRow(u, d, boot)]
       /\ loc' = [loc EXCEPT ![u].active = e]
       /\ Goto(u, AfterEnsure(loc[u], e))
  /\ UNCHANGED <<mapVars, flight, procVars, cleanup, envVars, passed>>

\* Step 8: snapshot, close, and only then switch
CloseSnapshotStep(u) ==
  LET l == loc[u] IN
  /\ pc[u] = "closeSnapshot"
  /\ IF SnapshotMatches(epochs, l.bucket, u, l.grant, l.rx, l.tx)
     THEN /\ epochs' = CloseSnapshot(epochs, l.bucket, l.grant, l.rx, l.tx)
          /\ loc' = [loc EXCEPT ![u].live = FALSE]
          /\ Goto(u, "initGrants")
          /\ UNCHANGED <<limits, mapVars, flight, procVars, cleanup, passed>>
     ELSE ErrorReturn(u)
  /\ UNCHANGED envVars

\* Step 9: the new bucket starts from the ledger
InitGrants(u) ==
  LET e == loc[u].active IN
  /\ pc[u] = "initGrants"
  /\ grants' = [grants EXCEPT ![e] = epochs[e].granted]
  /\ grantKeys' = grantKeys \cup {e}
  /\ loc' = [loc EXCEPT ![u].grant = epochs[e].granted,
                        ![u].rx = epochs[e].rx, ![u].tx = epochs[e].tx]
  /\ Goto(u, "initUsage")
  /\ UNCHANGED <<ledgerVars, ready, userBucket, bucketMeta, usage, usageKeys>>
  /\ UNCHANGED <<flight, procVars, cleanup, envVars, passed>>

InitUsage(u) ==
  LET e == loc[u].active IN
  /\ pc[u] = "initUsage"
  /\ usage' = [usage EXCEPT ![e] = [rx |-> loc[u].rx, tx |-> loc[u].tx]]
  /\ usageKeys' = usageKeys \cup {e}
  /\ Goto(u, "checkpoint")
  /\ UNCHANGED <<ledgerVars, ready, userBucket, bucketMeta, grants, grantKeys>>
  /\ UNCHANGED <<flight, procVars, loc, cleanup, envVars, passed>>

\* The check at the head of step 10 and those of ledger.checkpoint
CheckpointAllowed(u) ==
  LET l == loc[u] IN
  /\ l.grant <= epochs[l.active].granted /\ l.rx + l.tx <= l.grant
  /\ ~CheckpointRefused(epochs, l.active, l.rx, l.tx,
                        limits[u][epochs[l.active].day])

\* remaining <= LowWatermark
NeedsRefill_Bug(l, low) == l.grant - (l.rx + l.tx) < low
NeedsRefill(l, low) == l.grant - (l.rx + l.tx) <= low

\* Step 10: commit usage and authorisation before the kernel sees either
Checkpoint(u) ==
  LET l == loc[u]
      r == epochs[l.active]
      delta == IF NeedsRefill(l, cfg.low)
               THEN RefillDelta(l.rx + l.tx, r.granted, Held(epochs, u, r.day),
                                limits[u][r.day], cfg.chunk)
               ELSE 0
  IN
  /\ pc[u] = "checkpoint"
  /\ IF CheckpointAllowed(u)
     THEN /\ epochs' = [epochs EXCEPT ![l.active] =
                          [r EXCEPT !.granted = r.granted + delta, !.rx = l.rx, !.tx = l.tx]]
          /\ Goto(u, IF l.grant # r.granted + delta THEN "publishGrants" ELSE "publishMeta")
          /\ UNCHANGED <<limits, mapVars, flight, procVars, loc, cleanup, passed>>
     ELSE ErrorReturn(u)
  /\ UNCHANGED envVars

\* grants is updated with UpdateExist: a missing entry is an error
PublishGrants(u) ==
  LET e == loc[u].active IN
  /\ pc[u] = "publishGrants"
  /\ IF e \in grantKeys
     THEN /\ grants' = [grants EXCEPT ![e] = epochs[e].granted]
          /\ Goto(u, "publishMeta")
          /\ UNCHANGED <<ledgerVars, ready, userBucket, bucketMeta, grantKeys>>
          /\ UNCHANGED <<usage, usageKeys, flight, procVars, loc, cleanup, passed>>
     ELSE ErrorReturn(u)
  /\ UNCHANGED envVars

\* Step 11
PublishMeta(u) ==
  /\ pc[u] = "publishMeta"
  /\ bucketMeta' = [bucketMeta EXCEPT ![loc[u].active] = u]
  /\ Goto(u, "publishPointer")
  /\ UNCHANGED <<ledgerVars, ready, userBucket, grants, grantKeys, usage, usageKeys>>
  /\ UNCHANGED <<flight, procVars, loc, cleanup, envVars, passed>>

\* Steps 12 and 13: publish, then queue at most one cleanup
PublishPointer(u) ==
  LET e == loc[u].active IN
  /\ pc[u] = "publishPointer"
  /\ userBucket' = [userBucket EXCEPT ![u] = e]
  /\ cleanup' = IF cleanup[u].cleaned # e /\ ~cleanup[u].pending
                THEN [cleanup EXCEPT ![u].pending = TRUE, ![u].day = loc[u].day,
                                     ![u].epoch = e]
                ELSE cleanup
  /\ Release(u)
  /\ UNCHANGED <<ledgerVars, ready, bucketMeta, grants, grantKeys, usage, usageKeys>>
  /\ UNCHANGED <<flight, procVars, envVars, passed>>

-----------------------------------------------------------------------------
(***************************************************************************)
(* The cleanup goroutine: takes the user lock, re-reads the pointer.       *)
(***************************************************************************)
StartCleanup(u) ==
  /\ pc[u] = "idle" /\ cleanup[u].pending
  /\ cleanup' = [cleanup EXCEPT ![u].pending = FALSE]
  /\ IF userBucket[u] # 0
     THEN /\ Goto(u, "cleanupClose")
          /\ loc' = [loc EXCEPT ![u] = [NoLocals EXCEPT !.day = cleanup[u].day,
                                                        !.active = cleanup[u].epoch]]
     ELSE UNCHANGED <<pc, loc>>
  /\ UNCHANGED <<ledgerVars, mapVars, flight, procVars, envVars, passed>>

CleanupClose(u) ==
  LET old == Historical(epochs, u, loc[u].day, userBucket[u]) IN
  /\ pc[u] = "cleanupClose"
  /\ epochs' = Close(epochs, old \cap ActiveOf(epochs, u))
  /\ loc' = [loc EXCEPT ![u].ids = old]
  /\ Goto(u, "cleanupDelete")
  /\ UNCHANGED <<limits, mapVars, flight, procVars, cleanup, envVars, passed>>

CleanupDelete(u) ==
  /\ pc[u] = "cleanupDelete"
  /\ \/ \E b \in loc[u].ids :
          /\ ~Absent(b) /\ DeleteEntry(b)
          /\ UNCHANGED <<pc, loc, cleanup>>
     \/ /\ \A b \in loc[u].ids : Absent(b)
        /\ cleanup' = [cleanup EXCEPT ![u].cleaned = loc[u].active]
        /\ Release(u)
        /\ UNCHANGED <<bucketMeta, grants, grantKeys, usageKeys>>
  /\ UNCHANGED <<ledgerVars, ready, userBucket, usage, flight, procVars, envVars, passed>>

\* The error (or the five-second timeout) of a cleanup is only logged
CleanupFails(u) ==
  /\ pc[u] \in CleanupSteps /\ faults < MaxFaults
  /\ Release(u)
  /\ faults' = faults + 1
  /\ UNCHANGED <<ledgerVars, mapVars, flight, procVars, cleanup, day, grace, boot>>
  /\ UNCHANGED <<crashes, passed>>

-----------------------------------------------------------------------------
(***************************************************************************)
(* Errors, fatal state, start and stop.                                    *)
(***************************************************************************)
\* A request's context ends while a transaction runs; m.fail ignores it
ContextCancelled(u) ==
  /\ pc[u] \in {"lookup", "closeLost", "ensure", "closeSnapshot", "checkpoint"}
  /\ mgr = "up" /\ faults < MaxFaults
  /\ Release(u)
  /\ faults' = faults + 1
  /\ UNCHANGED <<ledgerVars, mapVars, flight, procVars, cleanup, day, grace, boot>>
  /\ UNCHANGED <<crashes, passed>>

\* A transaction or a map operation fails
IOError(u) ==
  /\ pc[u] \in SyncSteps /\ faults < MaxFaults
  /\ ErrorReturn(u)
  /\ faults' = faults + 1
  /\ UNCHANGED <<day, grace, boot, crashes>>

\* m.fail: disable the guard and refuse every later synchronisation
Fail ==
  /\ mgr = "up" /\ failing
  /\ failing' = FALSE /\ fatal' = TRUE /\ ready' = FALSE
  /\ UNCHANGED <<ledgerVars, userBucket, bucketMeta, grants, grantKeys, usage, usageKeys>>
  /\ UNCHANGED <<flight, mgr, todo, cfg, lockVars, envVars, passed>>

ProcessEnds ==
  /\ mgr' = "down" /\ todo' = {} /\ failing' = FALSE /\ fatal' = FALSE
  /\ pc' = [u \in Users |-> "idle"]
  /\ loc' = [u \in Users |-> NoLocals]
  /\ cleanup' = [u \in Users |-> NoCleanup]
  /\ UNCHANGED <<cfg, passed>>

\* run returns the refresh's error once its cleanups are done (cleanupWG.Wait)
StartupExit ==
  /\ mgr = "starting" /\ failing
  /\ \A u \in Users : pc[u] = "idle" /\ ~cleanup[u].pending
  /\ ProcessEnds
  /\ UNCHANGED <<ledgerVars, mapVars, flight, envVars>>

\* The process dies (or is restarted by the operator); pins and links survive
Crash ==
  /\ mgr # "down" /\ crashes < MaxCrashes
  /\ ProcessEnds
  /\ crashes' = crashes + 1
  /\ UNCHANGED <<ledgerVars, mapVars, flight, day, grace, boot, faults>>

\* The host reboots, or reset_quota.py removes the pins of a stopped manager
LoseKernelState ==
  /\ boot < MaxBoots
  /\ boot' = boot + 1
  /\ ProcessEnds
  /\ ready' = FALSE
  /\ userBucket' = [u \in Users |-> 0]
  /\ bucketMeta' = [e \in EpochID |-> 0]
  /\ grants' = [e \in EpochID |-> 0] /\ grantKeys' = {}
  /\ usage' = [e \in EpochID |-> NoCount] /\ usageKeys' = {}
  /\ flight' = [c \in CPUs |-> Idle]
  /\ UNCHANGED <<ledgerVars, day, grace, crashes, faults>>

\* run up to m.refresh; openKernel adopts existing pins as they are
Start ==
  /\ mgr = "down"
  /\ mgr' = "starting"
  /\ cfg' \in Configs
  /\ todo' = {u \in Users : ActiveOf(epochs, u) # {}}
  /\ UNCHANGED <<ledgerVars, mapVars, flight, failing, fatal, lockVars, envVars, passed>>

\* openKernel fails: pins of another ABI, ledger, parent or configuration, or a
\* missing pin or link.  Most of these refusals clear metadata.ready, some do not
StartRefused ==
  /\ mgr = "down" /\ faults < MaxFaults
  /\ ready' \in {ready, FALSE}
  /\ faults' = faults + 1
  /\ UNCHANGED <<ledgerVars, userBucket, bucketMeta, grants, grantKeys, usage, usageKeys>>
  /\ UNCHANGED <<flight, procVars, lockVars, day, grace, boot, crashes, passed>>

\* refresh returned nil: k.enable
Enable ==
  /\ mgr = "starting" /\ ~failing /\ todo = {}
  /\ \A u \in Users : pc[u] \notin SyncSteps
  /\ mgr' = "up" /\ ready' = TRUE
  /\ UNCHANGED <<ledgerVars, userBucket, bucketMeta, grants, grantKeys, usage, usageKeys>>
  /\ UNCHANGED <<flight, todo, cfg, failing, fatal, lockVars, envVars, passed>>

\* Midnight in Beijing.  The accounting date is assumed not to go back
NextDay ==
  /\ day < MaxDay /\ ~grace
  /\ day' = day + 1 /\ grace' = TRUE
  /\ UNCHANGED <<ledgerVars, mapVars, flight, procVars, lockVars, boot, crashes, faults, passed>>

GraceEnds ==
  /\ grace /\ grace' = FALSE
  /\ UNCHANGED <<ledgerVars, mapVars, flight, procVars, lockVars, day, boot, crashes, faults, passed>>

-----------------------------------------------------------------------------
SyncStep(u) ==
  \/ LookupBucket(u) \/ DeletePartial(u) \/ CloseLost(u) \/ EnsureEpoch(u)
  \/ CloseSnapshotStep(u) \/ InitGrants(u) \/ InitUsage(u) \/ Checkpoint(u)
  \/ PublishGrants(u) \/ PublishMeta(u) \/ PublishPointer(u)

CleanupStep(u) == StartCleanup(u) \/ CleanupClose(u) \/ CleanupDelete(u)

Kernel ==
  \E c \in CPUs :
    \/ \E u \in Users : Fetch(c, u)
    \/ \E n \in 1 .. MaxPacket : Drop(c, n) \/ \E dir \in Directions : Pass(c, dir, n)

Process == Fail \/ StartupExit \/ Start \/ Enable

Environment ==
  \/ Crash \/ StartRefused \/ LoseKernelState \/ NextDay \/ GraceEnds
  \/ \E u \in Users : ContextCancelled(u) \/ IOError(u) \/ CleanupFails(u)

Next ==
  \/ \E u \in Users : StartSync(u) \/ SyncStep(u) \/ CleanupStep(u)
  \/ Kernel \/ Process \/ Environment

Spec == Init /\ [][Next]_vars

\* The program's own steps are taken; what the environment does need not happen.
\* StartSync(u) is the five-second Docker scan (reconcile calls ensureUser for
\* every running sandbox) and the one-second refresh of users with active rows.
Fairness ==
  /\ WF_vars(Process)
  /\ WF_vars(GraceEnds)
  /\ \A u \in Users : /\ WF_vars(SyncStep(u)) /\ WF_vars(CleanupStep(u))
                       /\ WF_vars(StartSync(u))

FairSpec == Spec /\ Fairness

-----------------------------------------------------------------------------
(***************************************************************************)
(* Safety                                                                  *)
(***************************************************************************)
\* What the kernel let through on the epochs of (u, d)
Spent(u, d) == SumOver(passed, RowsOf(epochs, u, d))

\* The bytes the eBPF program passes for a user on the epochs of a day never
\* exceed the limit recorded for that day, whatever crashes, reboots, limit
\* changes and midnights fall between the steps of SyncEpochToEbpf.
DailyLimit == \A u \in Users, d \in Days : Spent(u, d) <= limits[u][d]

\* Every byte that passed is inside an authorisation the ledger still holds,
\* closed epochs and bytes passed after their closing snapshot included.
PassedIsHeld == \A e \in EpochID : passed[e] <= epochs[e].granted

\* SUM(granted) of a day never exceeds its limit_bytes (checkpoint, report).
HeldWithinLimit == \A u \in Users, d \in Days : Held(epochs, u, d) <= limits[u][d]

\* A ledger row never confirms bytes that did not pass: a user is not charged
\* for traffic the kernel dropped, also when counters are rebuilt (step 9).
ConfirmedIsReal == \A e \in EpochID : Used(epochs[e]) <= passed[e]

\* The bucket a user's traffic is charged to has its three entries, belongs to
\* the user, was made in this lifetime of the maps (its deadline is a reading
\* of the running boot clock) and carries no more than the ledger granted.
PublishedIsBacked ==
  \A u \in Users : userBucket[u] # 0 =>
    LET b == userBucket[u] IN
    /\ Complete(b) /\ bucketMeta[b] = u /\ epochs[b].user = u
    /\ epochs[b].boot = boot
    /\ grants[b] <= epochs[b].granted

\* None of the consistency checks of SyncEpochToEbpf, checkpoint and
\* closeSnapshot can fail: the protocol never disables the guard of the whole
\* host by its own doing, only an I/O error does.
ChecksPass ==
  \A u \in Users :
    LET l == loc[u] IN
    /\ pc[u] = "lookup" =>
         \A b \in EpochID : IsBucketToInspect(u, b) /\ Complete(b) => bucketMeta[b] = u
    /\ pc[u] = "closeSnapshot" =>
         SnapshotMatches(epochs, l.bucket, u, l.grant, l.rx, l.tx)
    /\ pc[u] = "checkpoint" => CheckpointAllowed(u)
    /\ pc[u] = "publishGrants" => l.active \in grantKeys

\* Unique index active_epoch
OneActivePerDay ==
  \A e, f \in EpochID :
    /\ epochs[e].status = "active" /\ epochs[f].status = "active"
    /\ epochs[e].user = epochs[f].user /\ epochs[e].day = epochs[f].day
    => e = f

\* A closed epoch is final: it is not reopened, gets no further authorisation
\* and keeps the usage it confirmed.
ClosedIsFinal ==
  [][\A e \in EpochID : epochs[e].status = "closed" =>
       /\ epochs'[e].status = "closed"
       /\ epochs'[e].granted <= epochs[e].granted
       /\ epochs'[e].rx >= epochs[e].rx /\ epochs'[e].tx >= epochs[e].tx]_vars

\* While a bucket is published its counters are never set back and its
\* authorisation is never lowered, by refill, recovery or cleanup.
LiveBucketOnlyGrows ==
  [][\A u \in Users : userBucket[u] # 0 /\ boot' = boot =>
       LET b == userBucket[u] IN
       /\ b \in grantKeys' /\ b \in usageKeys' /\ grants'[b] >= grants[b]
       /\ usage'[b].rx >= usage[b].rx /\ usage'[b].tx >= usage[b].tx]_vars

-----------------------------------------------------------------------------
(***************************************************************************)
(* Liveness                                                                *)
(***************************************************************************)
Allocatable(u, d) == limits[u][d] - Held(epochs, u, d)

\* When the manager is up and healthy for good, every user ends up charged to
\* an epoch of the current day ...
ServedToday ==
  <>[](mgr = "up" /\ ~fatal) =>
    \A u \in Users : <>[](userBucket[u] # 0 /\ epochs[userBucket[u]].day = day)

\* ... and does not stay below the low watermark while the day has bytes left.
Refilled ==
  <>[](mgr = "up" /\ ~fatal) =>
    \A u \in Users :
      []<>(/\ userBucket[u] # 0
           /\ LET b == userBucket[u] IN
              \/ grants[b] - Used(usage[b]) > cfg.low
              \/ Allocatable(u, epochs[b].day) = 0)
=============================================================================
