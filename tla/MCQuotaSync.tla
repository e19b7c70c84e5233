----------------------------- MODULE MCQuotaSync -----------------------------
EXTENDS QuotaInv, FiniteSetsExt

Steady == {[limit |-> 3, chunk |-> 2, low |-> 1]}
Changing == {[limit |-> 3, chunk |-> 2, low |-> 1], [limit |-> 2, chunk |-> 2, low |-> 1]}

\* Held counts authorised bytes; the code sums a column.  The two agree.
SampleTable(f) == [e \in EpochID |-> [NoRow EXCEPT !.user = IF e = 1 THEN 0 ELSE 1,
                                                    !.granted = f[e]]]
ASSUME HeldIsSum ==
  \A f \in [EpochID -> 0 .. 2] :
    Held(SampleTable(f), 1, 0) = MapThenSumSet(LAMBDA e : f[e], EpochID \ {1})
=============================================================================
