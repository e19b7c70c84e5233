-------------------------- MODULE QuotaLedgerProofs --------------------------
(***************************************************************************)
(* Facts about sums over rows (SumOver), hence about SUM(granted) (Held):  *)
(* a sum is defined, is monotone in the summed column and in the set of    *)
(* rows, and grows by at most n when one row grows by n.                   *)
(***************************************************************************)
EXTENDS QuotaLedger, FiniteSetTheorems, TLAPS

LEMMA UnitsMember ==
  ASSUME NEW f, NEW S, NEW p
  PROVE  p \in Units(f, S) <=> \E e \in S : \E k \in 1 .. f[e] : p = <<e, k>>
  BY DEF Units

LEMMA IntervalFinite ==
  ASSUME NEW a \in Nat, NEW b \in Nat
  PROVE  IsFiniteSet(a .. b) /\ Cardinality(a .. b) = IF a > b THEN 0 ELSE b - a + 1
  BY FS_Interval

LEMMA EpochIDFinite == IsFiniteSet(EpochID)
  BY IntervalFinite, BoundsAssumption DEF EpochID

\* The bytes of finitely many rows are finitely many.
LEMMA UnitsFinite ==
  ASSUME NEW f, NEW S, IsFiniteSet(S), \A e \in S : f[e] \in Nat
  PROVE  IsFiniteSet(Units(f, S))
<1> DEFINE g == [e \in S |-> {e} \X (1 .. f[e])]
           T == {{e} \X (1 .. f[e]) : e \in S}
<1>1. g \in Surjection(S, T)
  BY DEF Surjection
<1>2. IsFiniteSet(T)
  <2> HIDE DEF g, T
  <2> QED BY <1>1, FS_Surjection
<1>3. \A X \in T : IsFiniteSet(X)
  <2> SUFFICES ASSUME NEW e \in S PROVE IsFiniteSet({e} \X (1 .. f[e]))
    OBVIOUS
  <2>1. IsFiniteSet({e}) BY FS_Singleton
  <2>2. IsFiniteSet(1 .. f[e]) BY IntervalFinite
  <2> QED BY <2>1, <2>2, FS_Product
<1> QED
  <2>1. Units(f, S) = UNION T BY DEF Units
  <2> HIDE DEF T
  <2> QED BY <1>2, <1>3, <2>1, FS_UNION

LEMMA SumType ==
  ASSUME NEW f, NEW S \in SUBSET EpochID, \A e \in S : f[e] \in Nat
  PROVE  IsFiniteSet(Units(f, S)) /\ SumOver(f, S) \in Nat
<1>1. IsFiniteSet(S) BY EpochIDFinite, FS_Subset
<1>2. IsFiniteSet(Units(f, S)) BY <1>1, UnitsFinite
<1> QED BY <1>2, FS_CardinalityType DEF SumOver

\* Fewer rows, or rows with less, give no larger sum.
LEMMA SumMonotone ==
  ASSUME NEW f, NEW S \in SUBSET EpochID, \A e \in S : f[e] \in Nat,
         NEW g, NEW T \in SUBSET EpochID, \A e \in T : g[e] \in Nat,
         \A e \in T : g[e] = 0 \/ (e \in S /\ g[e] <= f[e])
  PROVE  SumOver(g, T) <= SumOver(f, S)
<1>1. Units(g, T) \subseteq Units(f, S)
  BY UnitsMember
<1>2. IsFiniteSet(Units(f, S)) BY SumType
<1> QED BY <1>1, <1>2, FS_Subset DEF SumOver

\* Raising one row by n raises the sum by at most n.
LEMMA SumRaise ==
  ASSUME NEW f, NEW S \in SUBSET EpochID, \A e \in S : f[e] \in Nat,
         NEW g, NEW x \in S, NEW n \in Nat, g[x] = f[x] + n,
         \A e \in S \ {x} : g[e] = f[e]
  PROVE  SumOver(g, S) <= SumOver(f, S) + n
<1> DEFINE a == f[x] + 1
           b == f[x] + n
           New == {x} \X (a .. b)
<1>0. f[x] \in Nat /\ a \in Nat /\ b \in Nat OBVIOUS
<1>1. Units(g, S) = Units(f, S) \cup New
  <2>1. ASSUME NEW p, p \in Units(g, S) PROVE p \in Units(f, S) \cup New
    <3>1. PICK e \in S : \E k \in 1 .. g[e] : p = <<e, k>> BY <2>1, UnitsMember
    <3>2. PICK k \in 1 .. g[e] : p = <<e, k>> BY <3>1
    <3>3. CASE e # x
      <4>1. k \in 1 .. f[e] BY <3>3
      <4> QED BY <3>2, <4>1, UnitsMember
    <3>4. CASE e = x /\ k <= f[x]
      <4>1. k \in 1 .. f[e] BY <3>4, <1>0
      <4> QED BY <3>2, <4>1, UnitsMember
    <3>5. CASE e = x /\ ~(k <= f[x])
      <4>1. k \in a .. b BY <3>5, <1>0
      <4> QED BY <3>2, <3>5, <4>1
    <3> QED BY <3>3, <3>4, <3>5
  <2>2. ASSUME NEW p, p \in Units(f, S) PROVE p \in Units(g, S)
    <3>1. PICK e \in S : \E k \in 1 .. f[e] : p = <<e, k>> BY <2>2, UnitsMember
    <3>2. PICK k \in 1 .. f[e] : p = <<e, k>> BY <3>1
    <3>3. k \in 1 .. g[e] BY <1>0
    <3> QED BY <3>2, <3>3, UnitsMember
  <2>3. ASSUME NEW p, p \in New PROVE p \in Units(g, S)
    <3>1. PICK k \in a .. b : p = <<x, k>> BY <2>3
    <3>2. k \in 1 .. g[x] BY <1>0
    <3> QED BY <3>1, <3>2, UnitsMember
  <2> QED BY <2>1, <2>2, <2>3
<1>2. IsFiniteSet(New) /\ Cardinality(New) = n
  <2>1. IsFiniteSet(a .. b) /\ Cardinality(a .. b) = n
    <3> HIDE DEF a, b
    <3>1. IsFiniteSet(a .. b) /\ Cardinality(a .. b) = IF a > b THEN 0 ELSE b - a + 1
      BY <1>0, IntervalFinite
    <3> QED BY <3>1, <1>0 DEF a, b
  <2>2. IsFiniteSet({x}) /\ Cardinality({x}) = 1 BY FS_Singleton
  <2> HIDE DEF a, b
  <2>3. IsFiniteSet({x} \X (a .. b)) /\ Cardinality({x} \X (a .. b)) = 1 * n
    BY <2>1, <2>2, FS_Product
  <2> QED BY <2>3
<1>3. IsFiniteSet(Units(f, S)) /\ SumOver(f, S) \in Nat BY SumType
<1> HIDE DEF New
<1>4. /\ Cardinality(Units(f, S) \cup New)
           = Cardinality(Units(f, S)) + Cardinality(New) - Cardinality(Units(f, S) \cap New)
  BY <1>2, <1>3, FS_Union
<1>5. Cardinality(Units(f, S) \cap New) \in Nat
  BY <1>3, FS_Intersection, FS_CardinalityType
<1> QED BY <1>1, <1>2, <1>3, <1>4, <1>5 DEF SumOver

-----------------------------------------------------------------------------
Table == [EpochID -> Row]

LEMMA GrantedNat ==
  ASSUME NEW E \in Table, NEW e \in EpochID
  PROVE  Granted(E)[e] = E[e].granted /\ E[e].granted \in Nat
  BY DEF Granted, Table, Row

LEMMA HeldType ==
  ASSUME NEW E \in Table, NEW u, NEW d
  PROVE  Held(E, u, d) \in Nat
<1>1. RowsOf(E, u, d) \in SUBSET EpochID BY DEF RowsOf
<1>2. \A e \in RowsOf(E, u, d) : Granted(E)[e] \in Nat BY <1>1, GrantedNat
<1> QED BY <1>1, <1>2, SumType DEF Held

\* SUM(granted) of a day does not grow when no row of the day gains bytes.
LEMMA HeldMonotone ==
  ASSUME NEW E \in Table, NEW F \in Table, NEW u, NEW d,
         \A e \in EpochID : F[e].user = u /\ F[e].day = d =>
            \/ F[e].granted = 0
            \/ E[e].user = u /\ E[e].day = d /\ F[e].granted <= E[e].granted
  PROVE  Held(F, u, d) <= Held(E, u, d)
<1> DEFINE S == RowsOf(E, u, d)
           T == RowsOf(F, u, d)
<1>1. S \in SUBSET EpochID /\ T \in SUBSET EpochID BY DEF RowsOf
<1>2. \A e \in S : Granted(E)[e] \in Nat BY <1>1, GrantedNat
<1>3. \A e \in T : Granted(F)[e] \in Nat BY <1>1, GrantedNat
<1>4. \A e \in T : Granted(F)[e] = 0 \/ (e \in S /\ Granted(F)[e] <= Granted(E)[e])
  BY GrantedNat DEF RowsOf
<1> HIDE DEF S, T
<1>5. SumOver(Granted(F), T) <= SumOver(Granted(E), S)
  BY <1>1, <1>2, <1>3, <1>4, SumMonotone
<1> QED BY <1>5 DEF Held, S, T

\* SUM(granted) of a day grows by at most what one row of it gains.
LEMMA HeldRaise ==
  ASSUME NEW E \in Table, NEW F \in Table, NEW x \in EpochID, NEW n \in Nat,
         F[x].user = E[x].user, F[x].day = E[x].day, F[x].granted = E[x].granted + n,
         \A e \in EpochID \ {x} : F[e] = E[e]
  PROVE  Held(F, E[x].user, E[x].day) <= Held(E, E[x].user, E[x].day) + n
<1> DEFINE S == RowsOf(E, E[x].user, E[x].day)
<1>1. S \in SUBSET EpochID /\ x \in S BY DEF RowsOf
<1>2. RowsOf(F, E[x].user, E[x].day) = S
  BY DEF RowsOf
<1>3. \A e \in S : Granted(E)[e] \in Nat BY <1>1, GrantedNat
<1>4. Granted(F)[x] = Granted(E)[x] + n BY GrantedNat
<1>5. \A e \in S \ {x} : Granted(F)[e] = Granted(E)[e] BY <1>1, GrantedNat
<1> HIDE DEF S
<1>6. SumOver(Granted(F), S) <= SumOver(Granted(E), S) + n
  BY <1>1, <1>3, <1>4, <1>5, SumRaise
<1> QED BY <1>2, <1>6 DEF Held, S
=============================================================================
