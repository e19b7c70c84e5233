----------------------------- MODULE QuotaLedger -----------------------------
(***************************************************************************)
(* The durable side of laxcode-manager: the tables of quota.db             *)
(* (laxcode-manager/ledger.go) and the questions its transactions ask of   *)
(* them.  A table is a value here; the module that owns the state is       *)
(* QuotaSync.  Everything is a plain operator over the `epochs' table E,   *)
(* so that the statements read like the SQL they translate and TLAPS can   *)
(* reason about them.                                                      *)
(*                                                                         *)
(* Operators whose name ends in _Bug are seeded faults: each is a plausible *)
(* mistake in the definition that follows it.  No specification uses them; *)
(* the project's mutation runs put one in the place of that definition and *)
(* expect TLC to find a property violated.                                 *)
(*                                                                         *)
(* Bytes are natural numbers.  config.validate keeps every limit at or     *)
(* below 2^50, so no sum in the uint64 arithmetic of the code can wrap.    *)
(***************************************************************************)
EXTENDS Naturals, FiniteSets

CONSTANTS
  Users,     \* ids of the rows of table users; SQLite ids start at 1
  MaxDay,    \* bound: accounting days are 0..MaxDay
  MaxEpoch,  \* bound: AUTOINCREMENT ids of table epochs are 1..MaxEpoch
  Configs    \* configurations an operator may start the manager with

Config == [limit: Nat, chunk: Nat, low: Nat]

\* config.validate: 0 < low < chunk <= limit
ValidConfig(c) == 0 < c.low /\ c.low < c.chunk /\ c.chunk <= c.limit

ASSUME UsersAssumption == Users \subseteq Nat \ {0}
ASSUME BoundsAssumption == MaxDay \in Nat /\ MaxEpoch \in Nat
ASSUME ConfigsAssumption ==
  Configs # {} /\ Configs \subseteq Config /\ \A c \in Configs : ValidConfig(c)

Days    == 0 .. MaxDay
EpochID == 1 .. MaxEpoch

\* A row of table epochs.  Status "none" is an id no row has yet.  `boot' stands
\* for the deadline column: a CLOCK_BOOTTIME reading, meaningful only in the
\* lifetime of the kernel maps in which it was computed.
Row == [user: Users \cup {0}, day: Days, status: {"none", "active", "closed"},
        granted: Nat, rx: Nat, tx: Nat, boot: Nat]

NoRow == [user |-> 0, day |-> 0, status |-> "none",
          granted |-> 0, rx |-> 0, tx |-> 0, boot |-> 0]

Used(r) == r.rx + r.tx

-----------------------------------------------------------------------------
ActiveOn_Bug(E, u, d) == {e \in EpochID : E[e].status = "active" /\ E[e].user = u}
\* SELECT ... WHERE user_id=u AND status='active' [AND day=d]
ActiveOf(E, u) == {e \in EpochID : E[e].status = "active" /\ E[e].user = u}
ActiveOn(E, u, d) == {e \in ActiveOf(E, u) : E[e].day = d}

\* UPDATE epochs SET status='closed' for the rows S
Close(E, S) == [e \in EpochID |->
                  IF e \in S THEN [E[e] EXCEPT !.status = "closed"] ELSE E[e]]

\* latestActive: ORDER BY day DESC, id DESC LIMIT 1; 0 when there is no row
IsLatestActive(E, u, b) ==
  \/ b = 0 /\ ActiveOf(E, u) = {}
  \/ /\ b \in ActiveOf(E, u)
     /\ \A e \in ActiveOf(E, u) : \/ E[e].day < E[b].day
                                  \/ E[e].day = E[b].day /\ e <= b

Historical_Bug(E, u, d, current) ==
  {e \in EpochID : E[e].status # "none" /\ E[e].user = u /\ E[e].day <= d}

\* historicalEpochs: rows of the user up to day d, except the one in use
Historical(E, u, d, current) ==
  {e \in EpochID : E[e].status # "none" /\ E[e].user = u /\ E[e].day <= d /\ e # current}

\* The sum of f[e] over e in S, as the number of single bytes <<e, k>>
Units(f, S) == UNION {{e} \X (1 .. f[e]) : e \in S}
SumOver(f, S) == Cardinality(Units(f, S))

RowsOf(E, u, d) == {e \in EpochID : E[e].user = u /\ E[e].day = d}
Granted(E) == [e \in EpochID |-> E[e].granted]

\* SELECT SUM(granted) FROM epochs WHERE user_id=u AND day=d
Held(E, u, d) == SumOver(Granted(E), RowsOf(E, u, d))

IsNewID_Bug(E, e) == E[e].status # "active" /\ \A f \in 1 .. e - 1 : E[f].status # "none"

\* The id AUTOINCREMENT gives the next row: one more than the largest so far
IsNewID(E, e) == E[e].status = "none" /\ \A f \in 1 .. e - 1 : E[f].status # "none"

NewRow(u, d, b) == [user |-> u, day |-> d, status |-> "active",
                    granted |-> 0, rx |-> 0, tx |-> 0, boot |-> b]

\* INSERT OR IGNORE INTO user_days: the day keeps the limit it started with
EnsureLimit_Bug(old, limit) == limit
EnsureLimit(old, limit) == IF old = 0 THEN limit ELSE old

-----------------------------------------------------------------------------
\* closeSnapshot: the WHERE clause and the check above it
SnapshotMatches(E, id, u, g, rx, tx) ==
  /\ rx + tx <= g
  /\ E[id].user = u /\ E[id].granted >= g /\ E[id].rx <= rx /\ E[id].tx <= tx

CloseSnapshot_Bug(E, id, g, rx, tx) ==
  [E EXCEPT ![id] = [@ EXCEPT !.status = "closed", !.granted = rx + tx, !.rx = rx, !.tx = tx]]

CloseSnapshot(E, id, g, rx, tx) ==
  [E EXCEPT ![id] = [@ EXCEPT !.status = "closed", !.granted = g, !.rx = rx, !.tx = tx]]

\* checkpoint: the refusals, in the order of the code
CheckpointRefused(E, e, rx, tx, limit) ==
  \/ E[e].status # "active"
  \/ rx < E[e].rx \/ tx < E[e].tx
  \/ rx + tx > E[e].granted
  \/ Held(E, E[e].user, E[e].day) > limit

Least(a, b) == IF a <= b THEN a ELSE b

RefillUncapped_Bug(used, granted, held, limit, chunk) ==
  IF used + chunk > granted THEN used + chunk - granted ELSE 0
RefillOwnOnly_Bug(used, granted, held, limit, chunk) ==
  IF used + chunk > granted THEN Least(used + chunk - granted, limit - granted) ELSE 0

\* checkpoint: how much a refill adds; never more than the day has left
RefillDelta(used, granted, held, limit, chunk) ==
  IF used + chunk > granted THEN Least(used + chunk - granted, limit - held) ELSE 0
=============================================================================
