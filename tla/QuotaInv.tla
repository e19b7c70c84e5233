------------------------------- MODULE QuotaInv -------------------------------
(***************************************************************************)
(* The inductive invariant behind the safety properties of QuotaSync.      *)
(* The properties are not inductive by themselves: that a rebuilt bucket   *)
(* may start from the ledger's counters is only true because no epoch that *)
(* carried traffic can be chosen for rebuilding, and that in turn rests on *)
(* how epochs left over from an earlier lifetime of the maps are ordered   *)
(* by day against the published one (parts Unpublished and Stale).         *)
(***************************************************************************)
EXTENDS QuotaSync

HasRow(e) == epochs[e].status # "none"
IsActive(e) == epochs[e].status = "active"
HasEntry(e) == bucketMeta[e] # 0 \/ e \in grantKeys \/ e \in usageKeys

\* Rows of the ledger
Rows ==
  \A e \in EpochID :
    /\ ~HasRow(e) => epochs[e] = NoRow
    /\ HasRow(e) => epochs[e].user \in Users
    /\ epochs[e].day <= day
    /\ epochs[e].boot <= boot

\* What passed, against the row and the counters of the running kernel
Bytes ==
  \A e \in EpochID :
    /\ passed[e] <= epochs[e].granted
    /\ Used(epochs[e]) <= passed[e]
    /\ epochs[e].boot = boot => /\ Used(usage[e]) = passed[e]
                                /\ epochs[e].rx <= usage[e].rx
                                /\ epochs[e].tx <= usage[e].tx
    /\ ~HasRow(e) => usage[e] = NoCount

\* Map entries belong to rows made in this lifetime of the maps
Entries ==
  \A e \in EpochID :
    /\ HasEntry(e) => HasRow(e) /\ epochs[e].boot = boot
    /\ bucketMeta[e] # 0 => bucketMeta[e] = epochs[e].user
    /\ e \in grantKeys => passed[e] <= grants[e] /\ grants[e] <= epochs[e].granted

Pointers ==
  \A u \in Users : userBucket[u] # 0 =>
    Complete(userBucket[u]) /\ bucketMeta[userBucket[u]] = u

\* The limit a CPU has read stays within the authorisation; an epoch still
\* active on that CPU is the published one
Flights ==
  \A c \in CPUs : flight[c].bucket # 0 =>
    LET b == flight[c].bucket IN
    /\ HasRow(b) /\ epochs[b].boot = boot
    /\ flight[c].limit <= epochs[b].granted
    /\ b \in grantKeys => flight[c].limit <= grants[b]
    /\ IsActive(b) => userBucket[epochs[b].user] = b

\* An active epoch of this lifetime that is not published carried no traffic
Unpublished ==
  \A e \in EpochID :
    IsActive(e) /\ epochs[e].boot = boot /\ userBucket[epochs[e].user] # e => passed[e] = 0

\* An active epoch of an earlier lifetime is older than the published bucket
Stale ==
  \A e \in EpochID :
    IsActive(e) /\ epochs[e].boot # boot /\ userBucket[epochs[e].user] # 0 =>
      epochs[e].day < epochs[userBucket[epochs[e].user]].day

-----------------------------------------------------------------------------
(* What the holder of the user lock knows, step by step.                   *)

\* Every row of u is at most as young as the captured day
DayCaptured(u) ==
  /\ loc[u].day <= day
  /\ \A e \in EpochID : epochs[e].user = u => epochs[e].day <= loc[u].day

\* The bucket that was found partly built
PartialFound(u) ==
  LET b == loc[u].bucket IN
  /\ ~loc[u].live /\ userBucket[u] = 0
  /\ b # 0 /\ b \in ActiveOf(epochs, u) /\ epochs[b].boot = boot
  /\ \A e \in ActiveOf(epochs, u) : epochs[e].day <= epochs[b].day

\* The bucket that was found complete, and its snapshot
LiveFound(u) ==
  LET b == loc[u].bucket IN
  /\ b # 0 /\ Complete(b) /\ bucketMeta[b] = u
  /\ userBucket[u] \in {0, b}
  /\ loc[u].grant = grants[b] /\ loc[u].rx + loc[u].tx <= loc[u].grant
  /\ epochs[b].rx <= loc[u].rx /\ loc[u].rx <= usage[b].rx
  /\ epochs[b].tx <= loc[u].tx /\ loc[u].tx <= usage[b].tx

Found(u) == IF loc[u].live THEN LiveFound(u) ELSE userBucket[u] = 0

\* No epoch of an earlier lifetime can be taken for today's
NoneStale(u) ==
  \A e \in ActiveOn(epochs, u, loc[u].day) : epochs[e].boot = boot

ActiveChosen(u) ==
  LET e == loc[u].active IN
  e # 0 /\ e \in ActiveOn(epochs, u, loc[u].day) /\ epochs[e].boot = boot

\* The bucket that is being replaced has been closed
OldClosed(u) ==
  userBucket[u] # 0 /\ userBucket[u] # loc[u].active => ~IsActive(userBucket[u])

Building(u) == ActiveChosen(u) /\ userBucket[u] # loc[u].active /\ OldClosed(u)

Inserted(u) ==
  ActiveChosen(u) /\ OldClosed(u) /\ loc[u].active \in grantKeys /\ loc[u].active \in usageKeys

Snapshot(u) ==
  LET e == loc[u].active IN
  /\ loc[u].grant = grants[e] /\ loc[u].rx + loc[u].tx <= loc[u].grant
  /\ epochs[e].rx <= loc[u].rx /\ loc[u].rx <= usage[e].rx
  /\ epochs[e].tx <= loc[u].tx /\ loc[u].tx <= usage[e].tx

LockHolder(u) ==
  /\ pc[u] \in SyncSteps => DayCaptured(u)
  /\ pc[u] = "lookup" => ~loc[u].live
  /\ pc[u] = "deletePartial" => PartialFound(u)
  /\ pc[u] = "closeLost" => ~loc[u].live /\ userBucket[u] = 0
  /\ pc[u] = "ensure" => Found(u) /\ NoneStale(u)
  /\ pc[u] = "closeSnapshot" => LiveFound(u) /\ ActiveChosen(u) /\ loc[u].active # loc[u].bucket
  /\ pc[u] = "initGrants" => Building(u)
  /\ pc[u] = "initUsage" =>
       /\ Building(u) /\ loc[u].active \in grantKeys
       /\ loc[u].grant = grants[loc[u].active]
       /\ loc[u].rx = epochs[loc[u].active].rx /\ loc[u].tx = epochs[loc[u].active].tx
  /\ pc[u] = "checkpoint" => Inserted(u) /\ Snapshot(u)
  /\ pc[u] \in {"publishGrants", "publishMeta"} => Inserted(u)
  /\ pc[u] = "publishPointer" => Inserted(u) /\ bucketMeta[loc[u].active] = u
  /\ pc[u] = "cleanupDelete" =>
       \A b \in loc[u].ids : epochs[b].user = u /\ b # userBucket[u]

LockHolders == \A u \in Users : LockHolder(u)

\* The inductive invariant: the ledger, the kernel maps, packets in flight and the
\* locals of a running SyncEpochToEbpf agree at every step of the protocol.
IInv ==
  /\ TypeOK /\ Rows /\ OneActivePerDay /\ HeldWithinLimit
  /\ Bytes /\ Entries /\ Pointers /\ Flights /\ Unpublished /\ Stale /\ LockHolders
=============================================================================
