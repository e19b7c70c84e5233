----------------------------- MODULE AgentProofs -----------------------------
(***************************************************************************)
(* AgentRun's store properties, for any number of runs, messages, replies, *)
(* faults and late requests.                                               *)
(***************************************************************************)
EXTENDS AgentInv, TLAPS, WellFoundedInduction, SequenceTheorems, FiniteSetTheorems

-----------------------------------------------------------------------------
(* Least and greatest elements.                                            *)

\* A non-empty set of natural numbers has a least element
LEMMA LeastExists ==
  ASSUME NEW S \in SUBSET Nat, S # {}
  PROVE  \E x \in S : \A y \in S : x <= y
<1>1. PICK x \in S : \A y \in S : ~(<<y, x>> \in OpToRel(<, Nat))
  BY NatLessThanWellFounded, WFMin
<1>2. \A y \in S : ~(y < x) BY <1>1 DEF OpToRel
<1> QED BY <1>2

\* A non-empty bounded set of natural numbers has a greatest element
LEMMA GreatestExists ==
  ASSUME NEW n \in Nat, NEW S \in SUBSET (0..n), S # {}
  PROVE  \E x \in S : \A y \in S : x >= y
<1> DEFINE T == {n - y : y \in S}
<1>1. T \in SUBSET Nat /\ T # {}
  <2>1. \A y \in 0..n : n - y \in Nat OBVIOUS
  <2> QED BY <2>1
<1>2. PICK t \in T : \A u \in T : t <= u BY <1>1, LeastExists
<1>3. PICK x \in S : t = n - x BY <1>2
<1>4. ASSUME NEW y \in S PROVE x >= y
  <2>1. n - x <= n - y BY <1>2, <1>3
  <2> QED BY <2>1
<1> QED BY <1>4

\* Max of a bounded set is its greatest element
LEMMA MaxIs ==
  ASSUME NEW n \in Nat, NEW S \in SUBSET (0..n), S # {}
  PROVE  Max(S) \in S /\ \A y \in S : Max(S) >= y
BY GreatestExists DEF Max

\* Min is the least element
LEMMA MinIsLeast ==
  ASSUME NEW S \in SUBSET Nat, S # {}
  PROVE  Min(S) \in S /\ \A y \in S : Min(S) <= y
BY LeastExists DEF Min

\* Only the least element is Min
LEMMA MinIs ==
  ASSUME NEW S \in SUBSET Nat, NEW x \in S, \A y \in S : x <= y
  PROVE  Min(S) = x
<1>1. Min(S) \in S /\ Min(S) <= x BY MinIsLeast
<1>2. x <= Min(S) BY <1>1
<1>3. x \in Nat /\ Min(S) \in Nat BY <1>1
<1> QED BY <1>1, <1>2, <1>3

-----------------------------------------------------------------------------
(* Working sets.                                                           *)

\* The positions of a working set
LEMMA Positions ==
  ASSUME NEW ms \in Seq(Messages)
  PROVE  /\ Len(ms) \in Nat /\ DOMAIN ms = 1..Len(ms)
         /\ ms = <<>> <=> Len(ms) = 0
         /\ \A i \in DOMAIN ms : ms[i] \in Messages
BY LenProperties, ElementOfSeq, EmptySeq

\* A function on 1..n is a sequence
LEMMA Sequence ==
  ASSUME NEW S, NEW n \in Nat, NEW s \in [1..n -> S]
  PROVE  s \in Seq(S) /\ Len(s) = n /\ DOMAIN s = 1..n
OBVIOUS

\* The fields of a message that the proofs use
LEMMA Fields ==
  ASSUME NEW m \in Messages
  PROVE  m.seq \in Nat /\ m.src \in SUBSET Nat /\ m.role \in Roles /\ m.chat \in Nat
BY DEF Messages

\* What identify gives a new message
LEMMA NewMessageTyped ==
  ASSUME NEW role \in Roles, NEW n \in Nat
  PROVE  /\ NewMessage(role, n) \in Messages
         /\ NewMessage(role, n).seq = n /\ NewMessage(role, n).src = {n} /\ NewMessage(role, n).role = role
         /\ NewMessage(role, n).body = "plain" /\ NewMessage(role, n).art = FALSE
         /\ NewMessage(role, n).calls = <<>>
<1>1. <<>> \in Seq(CallNumbers \X Nat) OBVIOUS
<1>2. NoCall \in CallNumbers BY DEF NoCall, CallNumbers
<1>3. {n} \in SUBSET Nat OBVIOUS
<1> QED BY <1>1, <1>2, <1>3 DEF NewMessage, Messages

\* A working set passes the validation of a context
LEMMA WorkingIsValid ==
  ASSUME NEW c \in Sessions, c.gen # 0, Working(c.msgs, c.last)
  PROVE  Validate(c)
<1> DEFINE ms == c.msgs
<1>1. c.gen \in Nat /\ c.last \in Nat /\ ms \in Seq(Messages) BY DEF Sessions
<1>2. CASE ms = <<>> BY <1>1, <1>2 DEF Working, Validate
<1>3. CASE ms # <<>>
  <2>1. Len(ms) \in Nat \ {0} /\ DOMAIN ms = 1..Len(ms) BY <1>1, <1>3, Positions
  <2>2. ASSUME NEW i \in DOMAIN ms
        PROVE  /\ (i = 1) <=> (ms[i].role = "system")
               /\ ms[i].seq > 0
               /\ i > 1 => ms[i].seq > ms[i-1].seq
               /\ validateOriginalSeq(ms[i], c.last)
    <3>1. ms[i].seq \in Nat /\ ms[i].src \in SUBSET Nat /\ ms[1].seq = 1
      BY <1>1, <1>3, Positions, Fields DEF Working
    <3>2. ms[i].seq > 0
      <4>1. CASE i = 1 BY <3>1, <4>1
      <4>2. CASE i # 1
        <5>1. ms[1].seq < ms[i].seq BY <2>1, <4>2 DEF Working
        <5> QED BY <3>1, <5>1
      <4> QED BY <4>1, <4>2
    <3>3. i > 1 => ms[i].seq > ms[i-1].seq
      <4> SUFFICES ASSUME i > 1 PROVE ms[i].seq > ms[i-1].seq OBVIOUS
      <4>1. i \in Int /\ i - 1 \in DOMAIN ms /\ i - 1 < i BY <2>1
      <4>2. ms[i-1].seq \in Nat BY <1>1, <4>1, Positions, Fields
      <4>3. ms[i-1].seq < ms[i].seq BY <4>1 DEF Working
      <4> QED BY <3>1, <4>2, <4>3
    <3>4. ms[i].seq \in ms[i].src /\ \A s \in ms[i].src : ms[i].seq <= s /\ s <= c.last
      BY DEF Working
    <3>5. Min(ms[i].src) = ms[i].seq BY <3>1, <3>4, MinIs
    <3>6. \A s \in ms[i].src : s > 0 BY <3>1, <3>2, <3>4
    <3>7. validateOriginalSeq(ms[i], c.last) BY <3>4, <3>5, <3>6 DEF validateOriginalSeq
    <3>8. (i = 1) <=> (ms[i].role = "system") BY DEF Working
    <3> QED BY <3>2, <3>3, <3>7, <3>8
  <2>3. Last(ms).seq = c.last BY <1>3 DEF Working, Last
  <2> QED BY <1>1, <1>3, <2>2, <2>3 DEF Validate
<1> QED BY <1>2, <1>3

\* What appending a message does to a working set
LEMMA AppendedMessage ==
  ASSUME NEW ms \in Seq(Messages), NEW m \in Messages
  PROVE  /\ Append(ms, m) \in Seq(Messages) /\ Append(ms, m) # <<>>
         /\ Len(Append(ms, m)) = Len(ms) + 1
         /\ DOMAIN Append(ms, m) = DOMAIN ms \cup {Len(ms) + 1}
         /\ \A i \in DOMAIN ms : Append(ms, m)[i] = ms[i]
         /\ Append(ms, m)[Len(ms) + 1] = m
         /\ Last(Append(ms, m)) = m
<1>1. /\ Append(ms, m) \in Seq(Messages) /\ Len(Append(ms, m)) = Len(ms) + 1
      /\ \A i \in 1..Len(ms) : Append(ms, m)[i] = ms[i]
      /\ Append(ms, m)[Len(ms) + 1] = m
  BY AppendProperties
<1>2. Len(ms) \in Nat /\ DOMAIN ms = 1..Len(ms) BY Positions
<1>3. DOMAIN Append(ms, m) = 1..(Len(ms) + 1) BY <1>1, LenProperties
<1>4. 1..(Len(ms) + 1) = (1..Len(ms)) \cup {Len(ms) + 1} BY <1>2
<1>5. Append(ms, m) # <<>> BY <1>1, <1>2, Positions
<1> QED BY <1>1, <1>2, <1>3, <1>4, <1>5 DEF Last

\* Appending a message with a fresh number keeps a working set one
LEMMA AppendWorks ==
  ASSUME NEW ms \in Seq(Messages), NEW last \in Nat, Working(ms, last),
         NEW m \in Messages, m.seq > last, m.src = {m.seq},
         ms = <<>> => m.role = "system" /\ m.seq = 1,
         ms # <<>> => m.role # "system"
  PROVE  Working(Append(ms, m), m.seq) /\ Sources(Append(ms, m)) = Sources(ms) \cup {m.seq}
<1> DEFINE as == Append(ms, m)
           n == Len(ms) + 1
<1>1. /\ as \in Seq(Messages) /\ as # <<>> /\ Len(as) = n /\ DOMAIN as = DOMAIN ms \cup {n}
      /\ \A i \in DOMAIN ms : as[i] = ms[i]
      /\ as[n] = m
  BY AppendedMessage
<1>2. Len(ms) \in Nat /\ DOMAIN ms = 1..Len(ms) /\ (ms = <<>> <=> Len(ms) = 0) BY Positions
<1>3. m.seq \in Nat BY Fields
<1>4. \A i \in DOMAIN ms : ms[i].seq \in Nat /\ ms[i].src \in SUBSET Nat /\ ms[i].seq <= last
  BY Positions, Fields DEF Working
<1>5. as[1].seq = 1 /\ as[1].src = {1} /\ as[Len(as)].seq = m.seq
  <2>1. CASE ms = <<>> BY <1>1, <1>2, <2>1
  <2>2. CASE ms # <<>>
    <3>1. 1 \in DOMAIN ms BY <1>2, <2>2
    <3> QED BY <1>1, <2>2, <3>1 DEF Working
  <2> QED BY <2>1, <2>2
<1>6. ASSUME NEW i \in DOMAIN as
      PROVE  /\ (i = 1) <=> (as[i].role = "system")
             /\ as[i].seq \in as[i].src
             /\ \A s \in as[i].src : as[i].seq <= s /\ s <= m.seq
  <2>1. CASE i \in DOMAIN ms
    <3>1. as[i] = ms[i] /\ ((i = 1) <=> (ms[i].role = "system")) /\ ms[i].seq \in ms[i].src
      BY <1>1, <2>1 DEF Working
    <3>2. \A s \in ms[i].src : s \in Nat /\ ms[i].seq <= s /\ s <= last BY <1>4, <2>1 DEF Working
    <3> QED BY <1>3, <3>1, <3>2
  <2>2. CASE i = n
    <3>1. as[i] = m BY <1>1, <2>2
    <3>2. (i = 1) <=> (m.role = "system") BY <1>2, <2>2
    <3> QED BY <1>3, <3>1, <3>2
  <2> QED BY <1>1, <2>1, <2>2
<1>7. ASSUME NEW i \in DOMAIN as, NEW j \in DOMAIN as, i < j PROVE as[i].seq < as[j].seq
  <2>1. i \in DOMAIN ms BY <1>1, <1>2, <1>7
  <2>2. CASE j \in DOMAIN ms BY <1>1, <1>7, <2>1, <2>2 DEF Working
  <2>3. CASE j = n BY <1>1, <1>3, <1>4, <2>1, <2>3
  <2> QED BY <1>1, <2>2, <2>3
<1>8. Working(as, m.seq) BY <1>1, <1>5, <1>6, <1>7 DEF Working
<1>9. Sources(as) = Sources(ms) \cup {m.seq} BY <1>1 DEF Sources
<1> QED BY <1>8, <1>9

\* Sequences with the same positions have the same length
LEMMA SameLength ==
  ASSUME NEW a \in Nat, NEW b \in Nat, 1..a = 1..b
  PROVE  a = b
<1>1. a > 0 => a \in 1..b OBVIOUS
<1>2. b > 0 => b \in 1..a OBVIOUS
<1> QED BY <1>1, <1>2

\* A working set whose messages are edited in place
Like(as, ms) ==
  /\ as \in Seq(Messages) /\ DOMAIN as = DOMAIN ms
  /\ \A i \in DOMAIN ms : Echoes(as[i], ms[i])

\* Editing in place keeps a working set one, with the same originals
LEMMA LikeWorks ==
  ASSUME NEW ms \in Seq(Messages), NEW last \in Nat, Working(ms, last), NEW as, Like(as, ms)
  PROVE  /\ as \in Seq(Messages) /\ Working(as, last) /\ Sources(as) = Sources(ms)
         /\ as = <<>> <=> ms = <<>>
<1>1. as \in Seq(Messages) BY DEF Like
<1>2. /\ Len(ms) \in Nat /\ DOMAIN ms = 1..Len(ms) /\ (ms = <<>> <=> Len(ms) = 0)
      /\ Len(as) \in Nat /\ DOMAIN as = 1..Len(as) /\ (as = <<>> <=> Len(as) = 0)
  BY <1>1, Positions
<1>3. Len(as) = Len(ms) /\ DOMAIN as = DOMAIN ms
  <2>1. DOMAIN as = DOMAIN ms BY DEF Like
  <2>2. 1..Len(as) = 1..Len(ms) BY <1>2, <2>1
  <2>3. Len(as) = Len(ms) BY <1>2, <2>2, SameLength
  <2> QED BY <2>1, <2>3
<1>4. as = <<>> <=> ms = <<>> BY <1>2, <1>3
<1>5. as # <<>> => as[1].seq = 1 /\ as[1].src = {1} /\ as[Len(as)].seq = last
  <2> SUFFICES ASSUME as # <<>> PROVE as[1].seq = 1 /\ as[1].src = {1} /\ as[Len(as)].seq = last
    OBVIOUS
  <2>1. ms # <<>> /\ Len(ms) # 0 BY <1>2, <1>4
  <2>2. 1 \in DOMAIN ms /\ Len(ms) \in DOMAIN ms BY <1>2, <2>1
  <2>3. /\ as[1].seq = ms[1].seq /\ as[1].src = ms[1].src /\ as[Len(as)].seq = ms[Len(ms)].seq
    BY <1>3, <2>2 DEF Like, Echoes
  <2> QED BY <2>1, <2>3 DEF Working
<1>6. \A i \in DOMAIN as :
        /\ (i = 1) <=> (as[i].role = "system")
        /\ as[i].seq \in as[i].src
        /\ \A s \in as[i].src : as[i].seq <= s /\ s <= last
  BY <1>3 DEF Like, Echoes, Working
<1>7. \A i, j \in DOMAIN as : i < j => as[i].seq < as[j].seq BY <1>3 DEF Like, Echoes, Working
<1>8. Working(as, last) BY <1>1, <1>4, <1>5, <1>6, <1>7 DEF Working
<1>9. Sources(as) = Sources(ms) BY <1>3 DEF Like, Echoes, Sources
<1> QED BY <1>1, <1>4, <1>8, <1>9

\* Replacing the system prompt
LEMMA PromptReplaced ==
  ASSUME NEW ms \in Seq(Messages), ms # <<>>, NEW last \in Nat, Working(ms, last),
         NEW sys \in Messages, sys.seq = 1, sys.src = {1}, sys.role = "system"
  PROVE  /\ Like([ms EXCEPT ![1] = sys], ms)
         /\ [i \in DOMAIN ms |-> IF ms[i].seq = 1 THEN sys ELSE ms[i]] = [ms EXCEPT ![1] = sys]
<1>1. Len(ms) \in Nat \ {0} /\ DOMAIN ms = 1..Len(ms) /\ 1 \in DOMAIN ms BY Positions
<1>2. ms[1].seq = 1 /\ ms[1].src = {1} /\ ms[1].role = "system" BY <1>1 DEF Working
<1>3. [ms EXCEPT ![1] = sys] \in Seq(Messages) BY <1>1, ExceptSeq
<1>4. Like([ms EXCEPT ![1] = sys], ms) BY <1>1, <1>2, <1>3 DEF Like, Echoes
<1>5. ASSUME NEW i \in DOMAIN ms PROVE (ms[i].seq = 1) <=> (i = 1)
  <2>1. CASE i = 1 BY <1>2, <2>1
  <2>2. CASE i # 1
    <3>1. ms[i].seq \in Nat BY Positions, Fields
    <3>2. ms[1].seq < ms[i].seq BY <1>1, <2>2 DEF Working
    <3> QED BY <1>2, <2>2, <3>1, <3>2
  <2> QED BY <2>1, <2>2
<1>6. [ms EXCEPT ![1] = sys] = [i \in DOMAIN ms |-> IF i = 1 THEN sys ELSE ms[i]] OBVIOUS
<1> QED BY <1>4, <1>5, <1>6

-----------------------------------------------------------------------------
(* Compaction.                                                             *)

\* The call groups are finitely many positions
LEMMA GroupsArePositions ==
  ASSUME NEW ms \in Seq(Messages)
  PROVE  /\ collectToolCallGroups(ms) \in SUBSET (1..Len(ms)) /\ Len(ms) \in Nat
         /\ IsFiniteSet(collectToolCallGroups(ms))
<1>1. collectToolCallGroups(ms) \in SUBSET (1..Len(ms)) /\ Len(ms) \in Nat
  BY Positions DEF collectToolCallGroups
<1>2. IsFiniteSet(1..Len(ms)) BY <1>1, FS_Interval
<1> QED BY <1>1, <1>2, FS_Subset

\* The call groups that compaction keeps are from p on
Spares(ms, p) == Cardinality({g \in collectToolCallGroups(ms) : g >= p}) >= KeepRecentToolCallGroups

\* The protected region starts at the first message or at a call group
LEMMA ProtectedIsPosition ==
  ASSUME NEW ms \in Seq(Messages)
  PROVE  \/ ProtectedStart(ms) = 1
         \/ ProtectedStart(ms) \in collectToolCallGroups(ms) /\ Spares(ms, ProtectedStart(ms))
<1> DEFINE groups == collectToolCallGroups(ms)
           recent(start) == {g \in groups : g >= start}
           closed == {start \in groups : /\ Cardinality(recent(start)) >= KeepRecentToolCallGroups
                                         /\ \A g \in groups : ~Crossing(ms, g, start)}
<1>1. /\ groups \in SUBSET (1..Len(ms)) /\ Len(ms) \in Nat /\ DOMAIN ms = 1..Len(ms)
      /\ Cardinality(groups) \in Nat
  BY GroupsArePositions, Positions, FS_CardinalityType
<1>2. CASE Cardinality(groups) < KeepRecentToolCallGroups BY <1>2 DEF ProtectedStart
<1>3. CASE ~(Cardinality(groups) < KeepRecentToolCallGroups)
  <2>1. Cardinality(groups) >= KeepRecentToolCallGroups /\ Cardinality(groups) # 0
    BY <1>1, <1>3, WorkingSetAssumption
  <2>2. groups # {} BY <2>1, FS_EmptySet
  <2>3. PICK first \in groups : \A g \in groups : first <= g BY <1>1, <2>2, LeastExists
  <2>4. recent(first) = groups BY <1>1, <2>3
  <2>5. \A g \in groups : ~Crossing(ms, g, first) BY <1>1, <2>3 DEF Crossing
  <2>6. closed # {} BY <2>1, <2>4, <2>5
  <2>7. closed \in SUBSET (0..Len(ms)) BY <1>1
  <2> HIDE DEF closed
  <2>8. Max(closed) \in closed BY <1>1, <2>6, <2>7, MaxIs
  <2>9. ProtectedStart(ms) = Max(closed) BY <1>3 DEF ProtectedStart, closed
  <2> QED BY <1>1, <2>8, <2>9 DEF closed, Spares
<1> QED BY <1>2, <1>3

\* Only outputs that are archived are cleared
LEMMA ShortenedMessage ==
  ASSUME NEW m \in Messages, m.role = "tool" => m.body = "large"
  PROVE  /\ Shortened(m) \in Messages
         /\ Echoes(Shortened(m), m)
         /\ Shortened(m).art = m.art
         /\ Shortened(m).body = IF m.body = "large" THEN "cleared" ELSE "plain"
BY DEF Messages, Shortened, Echoes

\* An edit of the compactor touches a large output only where it is archived
LEMMA EditsOnlyArchived ==
  ASSUME NEW ms \in Seq(Messages), NEW e \in Edits(ms), NEW i \in e.msgs
  PROVE  i \in DOMAIN ms /\ (ms[i].body = "large" => ms[i].art) /\ (ms[i].role = "tool" => ms[i].body = "large")
<1> DEFINE protected == ProtectedStart(ms)
           open == {j \in DOMAIN ms : j < protected}
           ofBody(body) == {j \in open : IsAssistant(ms[j]) /\ ms[j].body = body}
           outputs(g) == {j \in Results(ms, g) : ms[j].art /\ ms[j].body = "large"}
<1>1. CASE \E g \in collectToolCallGroups(ms) \cap open : e = [strategy |-> 1, at |-> g, msgs |-> outputs(g)]
  BY <1>1 DEF Results
<1>2. CASE \E j \in ofBody("reasoned") : e = [strategy |-> 2, at |-> j, msgs |-> {j}] BY <1>2 DEF IsAssistant
<1>3. CASE \E j \in ofBody("long") : e = [strategy |-> 3, at |-> j, msgs |-> {j}] BY <1>3 DEF IsAssistant
<1> QED BY <1>1, <1>2, <1>3 DEF Edits

\* What Compress does to each message
LEMMA CompressedMessages ==
  ASSUME NEW ms \in Seq(Messages), NEW n
  PROVE  /\ Like(Compress(ms, n), ms)
         /\ \A i \in DOMAIN ms :
              /\ Compress(ms, n)[i].art = ms[i].art
              /\ Compress(ms, n)[i].body = "cleared" => ms[i].body = "cleared" \/ ms[i].art
<1> DEFINE saved(e) == Cardinality(UNION {f.msgs : f \in {x \in Edits(ms) : Earlier(x, e)}})
           edited == UNION {e.msgs : e \in {x \in Edits(ms) : saved(x) < n}}
           as == Compress(ms, n)
<1>1. as = [i \in DOMAIN ms |-> IF i \in edited THEN Shortened(ms[i]) ELSE ms[i]] BY DEF Compress
<1>2. \A i \in edited : (ms[i].body = "large" => ms[i].art) /\ (ms[i].role = "tool" => ms[i].body = "large")
  BY EditsOnlyArchived
<1> HIDE DEF edited, as
<1>3. \A i \in DOMAIN ms : ms[i] \in Messages BY Positions
<1>4. ASSUME NEW i \in DOMAIN ms
      PROVE  /\ as[i] \in Messages /\ Echoes(as[i], ms[i])
             /\ as[i].art = ms[i].art
             /\ as[i].body = "cleared" => ms[i].body = "cleared" \/ ms[i].art
  <2>1. CASE i \in edited
    <3>1. as[i] = Shortened(ms[i]) BY <1>1, <2>1
    <3>2. /\ Shortened(ms[i]) \in Messages
          /\ Echoes(Shortened(ms[i]), ms[i]) /\ Shortened(ms[i]).art = ms[i].art
          /\ Shortened(ms[i]).body = IF ms[i].body = "large" THEN "cleared" ELSE "plain"
      BY <1>2, <1>3, <2>1, ShortenedMessage
    <3>3. ms[i].body = "large" => ms[i].art BY <1>2, <2>1
    <3> QED BY <3>1, <3>2, <3>3
  <2>2. CASE i \notin edited
    <3>1. as[i] = ms[i] BY <1>1, <2>2
    <3> QED BY <1>3, <3>1 DEF Echoes
  <2> QED BY <2>1, <2>2
<1>5. DOMAIN as = DOMAIN ms BY <1>1
<1>6. Len(ms) \in Nat /\ DOMAIN ms = 1..Len(ms) BY Positions
<1>7. as = [i \in 1..Len(ms) |-> as[i]] BY <1>1, <1>6
<1>8. as \in Seq(Messages)
  <2>1. as \in [1..Len(ms) -> Messages] BY <1>4, <1>6, <1>7
  <2> QED BY <1>6, <2>1, Sequence
<1>9. Like(as, ms) BY <1>4, <1>5, <1>8 DEF Like
<1> QED BY <1>4, <1>9 DEF as

\* The result of local compaction: archived outputs are candidates or were
\* archived before, and only archived outputs are cleared
LEMMA LocallyCompacted ==
  ASSUME NEW ms \in Seq(Messages)
  PROVE  /\ Like(compactLocally(ms), ms)
         /\ \A i \in DOMAIN ms :
              compactLocally(ms)[i].body = "cleared" \/ compactLocally(ms)[i].art
                => ms[i].body = "cleared" \/ ms[i].art \/ i \in ArtifactCandidates(ms)
<1> DEFINE archived == [i \in DOMAIN ms |->
                          IF i \in ArtifactCandidates(ms) THEN [ms[i] EXCEPT !.art = TRUE] ELSE ms[i]]
           n == InputTokens(ms) - TargetTokens
<1>1. compactLocally(ms) = Compress(archived, n) BY DEF compactLocally
<1>2. Len(ms) \in Nat /\ DOMAIN ms = 1..Len(ms) /\ \A i \in DOMAIN ms : ms[i] \in Messages BY Positions
<1>3. ASSUME NEW m \in Messages
      PROVE  /\ [m EXCEPT !.art = TRUE] \in Messages
             /\ Echoes([m EXCEPT !.art = TRUE], m) /\ [m EXCEPT !.art = TRUE].body = m.body
  BY DEF Messages, Echoes
<1>4. ASSUME NEW i \in DOMAIN ms
      PROVE  /\ archived[i] \in Messages /\ Echoes(archived[i], ms[i]) /\ archived[i].body = ms[i].body
             /\ archived[i].art => ms[i].art \/ i \in ArtifactCandidates(ms)
  <2>1. CASE i \in ArtifactCandidates(ms) BY <1>2, <1>3, <2>1
  <2>2. CASE i \notin ArtifactCandidates(ms) BY <1>2, <2>2 DEF Echoes
  <2> QED BY <2>1, <2>2
<1>5. archived \in [1..Len(ms) -> Messages] BY <1>2, <1>4
<1>6. archived \in Seq(Messages) /\ DOMAIN archived = DOMAIN ms BY <1>2, <1>5, Sequence
<1>7. Like(archived, ms) BY <1>4, <1>6 DEF Like
<1> HIDE DEF archived, n
<1>8. /\ Like(Compress(archived, n), archived)
      /\ \A i \in DOMAIN archived :
           /\ Compress(archived, n)[i].art = archived[i].art
           /\ Compress(archived, n)[i].body = "cleared" => archived[i].body = "cleared" \/ archived[i].art
  BY <1>6, CompressedMessages
<1>9. Like(Compress(archived, n), ms) BY <1>6, <1>7, <1>8 DEF Like, Echoes
<1> QED BY <1>1, <1>4, <1>6, <1>8, <1>9

\* The summary stands for what it replaces
LEMMA SummaryMessage ==
  ASSUME NEW sources, sources[1].seq \in Nat, NEW size \in Nat,
         UNION {sources[i].src : i \in DOMAIN sources} \in SUBSET Nat
  PROVE  LET m == Summary(sources, size)
         IN  /\ m \in Messages /\ m.seq = sources[1].seq
             /\ m.src = UNION {sources[i].src : i \in DOMAIN sources}
             /\ m.role = "user" /\ m.body = "summary" /\ m.art = FALSE
<1> DEFINE m == NewMessage("user", sources[1].seq)
<1>1. PICK src \in SUBSET Nat : src = UNION {sources[i].src : i \in DOMAIN sources} OBVIOUS
<1>2. m \in Messages /\ m.seq = sources[1].seq /\ m.role = "user" /\ m.art = FALSE
  BY NewMessageTyped DEF Roles
<1>3. Summary(sources, size) = [m EXCEPT !.src = src, !.body = "summary", !.size = size]
  BY <1>1 DEF Summary
<1> HIDE DEF m
<1>4. [m EXCEPT !.src = src, !.body = "summary", !.size = size] \in Messages BY <1>2 DEF Messages
<1>5. LET s == [m EXCEPT !.src = src, !.body = "summary", !.size = size]
      IN  s.seq = m.seq /\ s.role = m.role /\ s.art = m.art /\ s.src = src /\ s.body = "summary"
  BY <1>2 DEF Messages
<1> QED BY <1>1, <1>2, <1>3, <1>4, <1>5

\* A working set of the same originals that clears nothing more
Merged(as, ms, last) ==
  /\ as \in Seq(Messages) /\ as # <<>> /\ Working(as, last) /\ Sources(as) = Sources(ms)
  /\ \A i \in DOMAIN as : as[i].body = "cleared" \/ as[i].art => \E j \in DOMAIN ms : as[i] = ms[j]

\* Where the messages of a merged working set come from
Layout(as, ms, p) ==
  /\ as \in Seq(Messages)
  /\ \E n, k \in Nat :
       /\ n >= 3 /\ n + k = Len(ms) /\ k + 3 = p /\ Len(as) = n
       /\ as[1] = ms[1] /\ as[2].role = "user"
       /\ \A i \in 3..n : as[i] = ms[i + k]

\* MergeSummary keeps every original and clears nothing
LEMMA MergedMessages ==
  ASSUME NEW ms \in Seq(Messages), NEW last \in Nat, Working(ms, last),
         NEW p \in 3..Len(ms), NEW size \in Nat
  PROVE  Merged(MergeSummary(ms, p, size), ms, last) /\ Layout(MergeSummary(ms, p, size), ms, p)
<1> DEFINE sources == SubSeq(ms, 2, p - 1)
           src == UNION {sources[i].src : i \in DOMAIN sources}
           rest == SubSeq(ms, p, Len(ms))
           as == MergeSummary(ms, p, size)
<1>1. Len(ms) \in Nat /\ DOMAIN ms = 1..Len(ms) /\ p \in Nat /\ p >= 3 /\ p <= Len(ms)
  BY Positions
<1>2. \A i \in DOMAIN ms : ms[i] \in Messages /\ ms[i].seq \in Nat /\ ms[i].src \in SUBSET Nat
  BY Positions, Fields
<1>3. /\ sources \in Seq(Messages) /\ Len(sources) = p - 2 /\ DOMAIN sources = 1..(p - 2)
      /\ \A i \in 1..(p - 2) : sources[i] = ms[i + 1]
  <2>1. 2 \in 1..(Len(ms) + 1) /\ p - 1 \in 2-1..Len(ms) BY <1>1
  <2>2. /\ sources \in Seq(Messages)
        /\ Len(sources) = IF 2 <= p - 1 THEN p - 1 - 2 + 1 ELSE 0
        /\ \A i \in 1..(p - 1 - 2 + 1) : sources[i] = ms[2 + i - 1]
    BY <2>1, SubSeqProperties
  <2>3. Len(sources) = p - 2 BY <1>1, <2>2
  <2>4. ASSUME NEW i \in 1..(p - 2) PROVE sources[i] = ms[i + 1]
    <3>1. p - 1 - 2 + 1 = p - 2 /\ 2 + i - 1 = i + 1 BY <1>1
    <3> QED BY <2>2, <3>1
  <2> QED BY <2>2, <2>3, <2>4, LenProperties
<1>4. /\ rest \in Seq(Messages) /\ Len(rest) = Len(ms) - p + 1
      /\ \A i \in 1..Len(rest) : rest[i] = ms[p + i - 1]
  <2>1. p \in 1..(Len(ms) + 1) /\ Len(ms) \in p-1..Len(ms) /\ p <= Len(ms) BY <1>1
  <2> QED BY <1>1, <2>1, SubSeqProperties
<1>5. sources[1] = ms[2] /\ 2 \in DOMAIN ms BY <1>1, <1>3
<1>6. src = UNION {ms[i].src : i \in 2..(p-1)}
  <2>1. \A s \in src : \E i \in 2..(p-1) : s \in ms[i].src
    <3> SUFFICES ASSUME NEW i \in 1..(p-2), NEW s \in sources[i].src PROVE \E j \in 2..(p-1) : s \in ms[j].src
      BY <1>3
    <3>1. i + 1 \in 2..(p-1) BY <1>1
    <3> QED BY <1>3, <3>1
  <2>2. \A i \in 2..(p-1) : ms[i].src \subseteq src
    <3> SUFFICES ASSUME NEW i \in 2..(p-1) PROVE ms[i].src \subseteq src OBVIOUS
    <3>1. i - 1 \in 1..(p-2) /\ (i - 1) + 1 = i BY <1>1
    <3>2. sources[i - 1] = ms[i] BY <1>3, <3>1
    <3> QED BY <1>3, <3>1, <3>2
  <2> QED BY <2>1, <2>2
<1>7. src \in SUBSET Nat
  <2>1. \A i \in 2..(p-1) : i \in DOMAIN ms BY <1>1
  <2> QED BY <1>2, <1>6, <2>1
<1> HIDE DEF sources
<1>8. PICK summary :
        /\ summary = Summary(sources, size)
        /\ summary \in Messages /\ summary.seq = ms[2].seq /\ summary.src = src
        /\ summary.role = "user" /\ summary.body = "summary" /\ summary.art = FALSE
  <2>1. sources[1].seq \in Nat /\ sources[1].seq = ms[2].seq BY <1>2, <1>5
  <2>2. /\ Summary(sources, size) \in Messages /\ Summary(sources, size).seq = ms[2].seq
        /\ Summary(sources, size).src = src
        /\ Summary(sources, size).role = "user" /\ Summary(sources, size).body = "summary"
        /\ Summary(sources, size).art = FALSE
    <3>1. UNION {sources[i].src : i \in DOMAIN sources} \in SUBSET Nat BY <1>7
    <3> HIDE DEF src
    <3> QED BY <2>1, <3>1, SummaryMessage DEF src
  <2> QED BY <2>2
<1>9. PICK n \in Nat, k \in Nat :
        /\ n >= 3 /\ n + k = Len(ms) /\ k + 3 = p
        /\ as \in Seq(Messages) /\ Len(as) = n /\ DOMAIN as = 1..n
        /\ as[1] = ms[1] /\ as[2] = summary
        /\ \A i \in 3..n : as[i] = ms[i + k]
  <2> DEFINE head == <<ms[1], summary>>
             k == p - 3
             n == Len(ms) - k
  <2>1. as = head \o rest BY <1>8 DEF MergeSummary, sources
  <2>2. 1 \in DOMAIN ms BY <1>1
  <2>3. head \in Seq(Messages) /\ Len(head) = 2 /\ head[1] = ms[1] /\ head[2] = summary BY <1>2, <1>8, <2>2
  <2> HIDE DEF head, rest
  <2>4. /\ head \o rest \in Seq(Messages) /\ Len(head \o rest) = Len(head) + Len(rest)
        /\ \A i \in 1..(Len(head) + Len(rest)) :
             (head \o rest)[i] = IF i <= Len(head) THEN head[i] ELSE rest[i - Len(head)]
    BY <1>4, <2>3, ConcatProperties
  <2>5. /\ n \in Nat /\ k \in Nat /\ n >= 3 /\ n + k = Len(ms) /\ k + 3 = p
        /\ Len(head) + Len(rest) = n
    <3>1. n \in Nat /\ k \in Nat /\ n >= 3 /\ n + k = Len(ms) /\ k + 3 = p BY <1>1
    <3>2. Len(head) + Len(rest) = 2 + (Len(ms) - p + 1) BY <1>4, <2>3
    <3>3. 2 + (Len(ms) - p + 1) = n BY <1>1
    <3> QED BY <3>1, <3>2, <3>3
  <2>6. ASSUME NEW i \in 3..n PROVE (head \o rest)[i] = ms[i + k]
    <3>1. i \in 1..n /\ ~(i <= 2) /\ i - 2 \in 1..Len(rest) BY <1>1, <1>4
    <3>2. (head \o rest)[i] = rest[i - 2] BY <2>3, <2>4, <2>5, <3>1
    <3>3. p + (i - 2) - 1 = i + k BY <1>1
    <3> QED BY <1>4, <3>1, <3>2, <3>3
  <2>7. 1 \in 1..n /\ 2 \in 1..n BY <1>1
  <2>8. (head \o rest)[1] = ms[1] /\ (head \o rest)[2] = summary
    <3>1. (head \o rest)[1] = head[1] /\ (head \o rest)[2] = head[2]
      <4>1. 1 <= Len(head) /\ 2 <= Len(head) BY <2>3
      <4>2. 1 \in 1..(Len(head) + Len(rest)) /\ 2 \in 1..(Len(head) + Len(rest)) BY <2>5, <2>7
      <4> QED BY <2>4, <4>1, <4>2
    <3> QED BY <2>3, <3>1
  <2>9. DOMAIN (head \o rest) = 1..n BY <2>4, <2>5, LenProperties
  <2> HIDE DEF n, k
  <2>10. Len(as) = n /\ as \in Seq(Messages) BY <2>1, <2>4, <2>5
  <2>11. as[1] = ms[1] /\ as[2] = summary /\ \A i \in 3..n : as[i] = ms[i + k] BY <2>1, <2>6, <2>8
  <2>12. DOMAIN as = 1..n BY <2>1, <2>9
  <2> HIDE DEF as
  <2> QED BY <2>5, <2>10, <2>11, <2>12
<1> HIDE DEF as, src
<1>10. \A i \in 3..n : i + k \in DOMAIN ms /\ i + k > 2 /\ as[i] = ms[i + k]
  <2> SUFFICES ASSUME NEW i \in 3..n PROVE i + k \in DOMAIN ms /\ i + k > 2 /\ as[i] = ms[i + k] OBVIOUS
  <2>1. i + k \in 1..Len(ms) /\ i + k > 2 BY <1>9
  <2> QED BY <1>1, <1>9, <2>1
<1>11. 1 \in DOMAIN ms /\ Len(ms) \in DOMAIN ms /\ ms # <<>> /\ n \in 3..n
  BY <1>1, <1>9, Positions
<1>12. as[1].seq = 1 /\ as[1].src = {1} /\ as[Len(as)].seq = last
  BY <1>9, <1>10, <1>11 DEF Working
<1>13. \A i \in 2..(p-1) : i \in DOMAIN ms /\ ms[2].seq <= ms[i].seq
  <2> SUFFICES ASSUME NEW i \in 2..(p-1) PROVE i \in DOMAIN ms /\ ms[2].seq <= ms[i].seq OBVIOUS
  <2>1. i \in DOMAIN ms BY <1>1
  <2>2. CASE i = 2 BY <1>2, <1>5, <2>2
  <2>3. CASE i > 2
    <3>1. ms[2].seq < ms[i].seq BY <1>5, <2>1, <2>3 DEF Working
    <3> QED BY <1>2, <1>5, <2>1, <3>1
  <2> QED BY <2>1, <2>2, <2>3
<1>14. summary.seq \in src /\ \A s \in src : summary.seq <= s /\ s <= last
  <2>1. ms[2].seq \in ms[2].src /\ 2 \in 2..(p-1) BY <1>1, <1>5 DEF Working
  <2>2. ASSUME NEW i \in 2..(p-1), NEW s \in ms[i].src PROVE ms[2].seq <= s /\ s <= last
    <3>1. ms[2].seq \in Nat /\ ms[i].seq \in Nat /\ s \in Nat /\ ms[2].seq <= ms[i].seq
      BY <1>2, <1>5, <1>13
    <3>2. ms[i].seq <= s /\ s <= last BY <1>13 DEF Working
    <3> QED BY <3>1, <3>2
  <2> QED BY <1>6, <1>8, <2>1, <2>2
<1>15. ASSUME NEW i \in 1..n
       PROVE  /\ (i = 1) <=> (as[i].role = "system")
              /\ as[i].seq \in as[i].src
              /\ \A s \in as[i].src : as[i].seq <= s /\ s <= last
  <2>1. CASE i = 1 BY <1>9, <1>11, <2>1 DEF Working
  <2>2. CASE i = 2
    <3>1. as[i] = summary BY <1>9, <2>2
    <3>2. (i = 1) <=> (summary.role = "system") BY <1>8, <2>2
    <3>3. summary.src = src BY <1>8
    <3> QED BY <1>14, <3>1, <3>2, <3>3
  <2>3. CASE i \in 3..n
    <3>1. i + k \in DOMAIN ms /\ as[i] = ms[i + k] BY <1>10, <2>3
    <3>2. i + k # 1 /\ i # 1 BY <1>9, <2>3
    <3> QED BY <3>1, <3>2 DEF Working
  <2>4. i = 1 \/ i = 2 \/ i \in 3..n BY <1>9
  <2> QED BY <2>1, <2>2, <2>3, <2>4
<1>16. ASSUME NEW i \in 1..n, NEW j \in 1..n, i < j PROVE as[i].seq < as[j].seq
  <2>1. j \in 2..n BY <1>9, <1>16
  <2>2. CASE j = 2
    <3>1. i = 1 BY <1>16, <2>1, <2>2
    <3>2. ms[1].seq < ms[2].seq BY <1>5, <1>11 DEF Working
    <3> QED BY <1>8, <1>9, <2>2, <3>1, <3>2
  <2>3. CASE j # 2
    <3>1. j \in 3..n BY <2>1, <2>3
    <3>2. j + k \in DOMAIN ms /\ j + k > 2 /\ as[j] = ms[j + k] BY <1>10, <3>1
    <3>3. CASE i = 1
      <4>1. ms[1].seq < ms[j + k].seq BY <1>1, <1>11, <3>2 DEF Working
      <4> QED BY <1>9, <3>2, <3>3, <4>1
    <3>4. CASE i = 2
      <4>1. ms[2].seq < ms[j + k].seq BY <1>1, <1>5, <3>2 DEF Working
      <4> QED BY <1>8, <1>9, <3>2, <3>4, <4>1
    <3>5. CASE i \in 3..n
      <4>1. i + k < j + k BY <1>9, <1>16
      <4>2. i + k \in DOMAIN ms /\ as[i] = ms[i + k] BY <1>10, <3>5
      <4> QED BY <3>2, <4>1, <4>2 DEF Working
    <3>6. i = 1 \/ i = 2 \/ i \in 3..n BY <1>9
    <3> QED BY <3>3, <3>4, <3>5, <3>6
  <2> QED BY <2>2, <2>3
<1>17. as # <<>>
  <2>1. as \in Seq(Messages) BY <1>9
  <2>2. Len(as) = n BY <1>9
  <2>3. n # 0 BY <1>9
  <2> QED BY <2>1, <2>2, <2>3, Positions
<1>18. Working(as, last)
  <2>1. DOMAIN as = 1..n /\ as \in Seq(Messages) BY <1>9
  <2> QED BY <1>12, <1>15, <1>16, <1>17, <2>1 DEF Working
<1>19. Sources(as) = Sources(ms)
  <2>1. ASSUME NEW i \in 1..n, NEW s \in as[i].src PROVE \E j \in DOMAIN ms : s \in ms[j].src
    <3>1. CASE i = 1 BY <1>9, <1>11, <2>1, <3>1
    <3>2. CASE i = 2
      <4>1. as[i] = summary /\ summary.src = src BY <1>8, <1>9, <3>2
      <4>2. PICK j \in 2..(p-1) : s \in ms[j].src BY <1>6, <2>1, <4>1
      <4> QED BY <1>13, <4>2
    <3>3. CASE i \in 3..n BY <1>10, <2>1, <3>3
    <3>4. i = 1 \/ i = 2 \/ i \in 3..n BY <1>9
    <3> QED BY <3>1, <3>2, <3>3, <3>4
  <2>2. ASSUME NEW j \in 1..Len(ms), NEW s \in ms[j].src PROVE \E i \in 1..n : s \in as[i].src
    <3>1. CASE j = 1
      <4>1. 1 \in 1..n BY <1>9
      <4> QED BY <1>9, <2>2, <3>1, <4>1
    <3>2. CASE j \in 2..(p-1)
      <4>1. 2 \in 1..n BY <1>9
      <4>2. s \in src BY <1>6, <2>2, <3>2
      <4> QED BY <1>8, <1>9, <4>1, <4>2
    <3>3. CASE j \in p..Len(ms)
      <4>1. j - k \in 3..n /\ (j - k) + k = j BY <1>1, <1>9, <3>3
      <4>2. as[j - k] = ms[j] BY <1>10, <4>1
      <4>3. j - k \in 1..n BY <1>9, <4>1
      <4> QED BY <2>2, <4>2, <4>3
    <3>4. j = 1 \/ j \in 2..(p-1) \/ j \in p..Len(ms) BY <1>1
    <3> QED BY <3>1, <3>2, <3>3, <3>4
  <2>3. DOMAIN as = 1..n BY <1>9
  <2>4. Sources(as) \subseteq Sources(ms) BY <2>1, <2>3 DEF Sources
  <2>5. Sources(ms) \subseteq Sources(as) BY <1>1, <2>2, <2>3 DEF Sources
  <2> QED BY <2>4, <2>5
<1>20. ASSUME NEW i \in 1..n, as[i].body = "cleared" \/ as[i].art PROVE \E j \in DOMAIN ms : as[i] = ms[j]
  <2>1. i # 2
    <3>1. summary.body # "cleared" /\ ~summary.art BY <1>8
    <3>2. as[2] = summary BY <1>9
    <3> QED BY <1>20, <3>1, <3>2
  <2>2. CASE i = 1 BY <1>9, <1>11, <2>2
  <2>3. CASE i \in 3..n BY <1>10, <2>3
  <2>4. i = 1 \/ i = 2 \/ i \in 3..n BY <1>9
  <2> QED BY <2>1, <2>2, <2>3, <2>4
<1>21. DOMAIN as = 1..n /\ as \in Seq(Messages) BY <1>9
<1>22. Layout(as, ms, p)
  <2>1. as[2].role = "user" BY <1>8, <1>9
  <2> QED BY <1>9, <2>1 DEF Layout
<1> QED BY <1>17, <1>18, <1>19, <1>20, <1>21, <1>22 DEF as, Merged

\* A summary has a natural number of tokens
LEMMA SummarySizes ==
  ASSUME NEW maxTokens, NEW n \in generateContextSummary(maxTokens)
  PROVE  n \in Nat
BY WorkingSetAssumption DEF generateContextSummary

\* What compaction makes of a working set: messages edited in place, and all
\* but those from a call group on merged into one
Trimmed(msgs, ms) ==
  \/ Like(msgs, ms)
  \/ \E local : Like(local, ms) /\ \E p \in collectToolCallGroups(ms) : Spares(ms, p) /\ Layout(msgs, local, p)

\* Whichever way the candidate was made, it is a working set of the same
\* messages that clears only what is archived or about to be
LEMMA CompactedMessages ==
  ASSUME NEW ms \in Seq(Messages), ms # <<>>, NEW last \in Nat, Working(ms, last),
         NEW msgs \in IF InputTokens(compactLocally(ms)) <= TargetTokens THEN {compactLocally(ms)}
                      ELSE compactWithSummary(compactLocally(ms), ProtectedStart(ms))
  PROVE  /\ msgs \in Seq(Messages) /\ msgs # <<>> /\ Working(msgs, last) /\ Sources(msgs) = Sources(ms)
         /\ Trimmed(msgs, ms)
         /\ \A i \in DOMAIN msgs : msgs[i].body = "cleared" \/ msgs[i].art =>
              \E j \in DOMAIN ms : /\ msgs[i].seq = ms[j].seq
                                   /\ ms[j].body = "cleared" \/ ms[j].art \/ j \in ArtifactCandidates(ms)
<1> DEFINE local == compactLocally(ms)
           p == ProtectedStart(ms)
           Origin(m) == \E j \in DOMAIN ms : /\ m.seq = ms[j].seq
                                             /\ ms[j].body = "cleared" \/ ms[j].art \/ j \in ArtifactCandidates(ms)
<1>1. Like(local, ms) BY LocallyCompacted
<1>2. /\ local \in Seq(Messages) /\ Working(local, last) /\ Sources(local) = Sources(ms) /\ local # <<>>
  BY <1>1, LikeWorks
<1>3. \A i \in DOMAIN local : local[i].body = "cleared" \/ local[i].art => Origin(local[i])
  BY <1>1, LocallyCompacted DEF Like, Echoes
<1>4. msgs = local \/ msgs \in compactWithSummary(local, p) OBVIOUS
<1>5. CASE msgs = local BY <1>1, <1>2, <1>3, <1>5 DEF Trimmed
<1>6. CASE msgs \in compactWithSummary(local, p)
  <2>1. PICK n \in Nat : ~(p <= 2) /\ msgs = MergeSummary(local, p, 1 + n)
    BY <1>6, SummarySizes DEF compactWithSummary
  <2>0. p \in collectToolCallGroups(ms) /\ Spares(ms, p) BY <2>1, ProtectedIsPosition
  <2>2. p \in 3..Len(local)
    <3>1. Len(local) \in Nat /\ DOMAIN local = 1..Len(local) BY <1>2, Positions
    <3>2. p = 1 \/ p \in DOMAIN local BY <1>1, ProtectedIsPosition DEF Like, collectToolCallGroups
    <3>3. p \in 1..Len(local) BY <2>1, <3>1, <3>2
    <3> QED BY <2>1, <3>1, <3>3
  <2>3. 1 + n \in Nat BY <2>1
  <2> HIDE DEF local, p, Origin
  <2>4. /\ msgs \in Seq(Messages) /\ msgs # <<>> /\ Working(msgs, last) /\ Sources(msgs) = Sources(local)
        /\ \A i \in DOMAIN msgs : msgs[i].body = "cleared" \/ msgs[i].art => \E j \in DOMAIN local : msgs[i] = local[j]
    <3>1. Merged(msgs, local, last) BY <1>2, <2>1, <2>2, <2>3, MergedMessages
    <3> QED BY <3>1 DEF Merged
  <2>6. Layout(msgs, local, p) BY <1>2, <2>1, <2>2, <2>3, MergedMessages
  <2>7. Trimmed(msgs, ms) BY <1>1, <2>0, <2>6 DEF Trimmed
  <2>5. \A i \in DOMAIN msgs : msgs[i].body = "cleared" \/ msgs[i].art => Origin(msgs[i]) BY <1>3, <2>4
  <2> QED BY <1>2, <2>4, <2>5, <2>7 DEF Origin
<1> QED BY <1>4, <1>5, <1>6

-----------------------------------------------------------------------------
(* The transactions.                                                       *)

\* What a request leaves of the rows: the invariants of the store hold, the
\* head has moved on, and the past is as it was.
Moved ==
  /\ ctx' \in [exists : BOOLEAN, rev : Nat, gen : Nat, last : Nat]
  /\ original' \in Seq(Messages) /\ memory' \in Seq(Seq(Messages)) /\ reserved' \in Nat
  /\ memory' # <<>> /\ ctx'.gen = Len(memory')
  /\ Rows' /\ NothingForgotten'
  /\ ctx'.last >= ctx.last

Preserved ==
  /\ IsPrefix(original, original')
  /\ \A g \in 1..Len(memory)-1 : memory'[g] = memory[g]

\* No output that was archived is lost, but by a deletion
StillThere == wiped' \in BOOLEAN /\ \A seq : Stored(seq) => Stored(seq)'

\* Where the artifact store is left alone
LEMMA ArtifactsStay ==
  ASSUME TypeOK, UNCHANGED <<artifacts, wiped, gone>>
  PROVE  StillThere
<1>1. wiped' \in BOOLEAN BY DEF TypeOK
<1>2. \A seq : Stored(seq) => Stored(seq)' BY DEF Stored
<1> QED BY <1>1, <1>2 DEF StillThere

\* The head names the latest generation
LEMMA Generations ==
  ASSUME TypeOK
  PROVE  /\ Len(memory) \in Nat \ {0} /\ DOMAIN memory = 1..Len(memory)
         /\ ctx.gen \in DOMAIN memory /\ ctx.gen \in Nat \ {0}
         /\ \A g \in DOMAIN memory : memory[g] \in Seq(Messages)
<1>1. memory \in Seq(Seq(Messages)) /\ memory # <<>> /\ ctx.gen = Len(memory) BY DEF TypeOK
<1> QED BY <1>1, LenProperties, ElementOfSeq, EmptySeq

\* The fields of the head
LEMMA HeadTyped ==
  ASSUME TypeOK
  PROVE  ctx.exists \in BOOLEAN /\ ctx.rev \in Nat /\ ctx.gen \in Nat /\ ctx.last \in Nat
BY DEF TypeOK

\* The fields of a session
LEMMA SessionTyped ==
  ASSUME NEW s \in Sessions
  PROVE  s.rev \in Nat /\ s.gen \in Nat /\ s.last \in Nat /\ s.msgs \in Seq(Messages)
BY DEF Sessions

\* Rewriting the last element of a sequence
LEMMA SeqUpdated ==
  ASSUME NEW S, NEW s \in Seq(S), NEW n \in Nat \ {0}, n = Len(s), NEW e \in S
  PROVE  /\ [s EXCEPT ![n] = e] \in Seq(S) /\ Len([s EXCEPT ![n] = e]) = n /\ [s EXCEPT ![n] = e][n] = e
         /\ DOMAIN [s EXCEPT ![n] = e] = 1..n
         /\ \A g \in 1..n : g # n => [s EXCEPT ![n] = e][g] = s[g]
<1>1. n \in 1..Len(s) OBVIOUS
<1>2. /\ [s EXCEPT ![n] = e] \in Seq(S) /\ Len([s EXCEPT ![n] = e]) = n
      /\ \A j \in 1..n : [s EXCEPT ![n] = e][j] = IF j = n THEN e ELSE s[j]
  BY <1>1, ExceptSeq
<1> QED BY <1>1, <1>2, LenProperties

\* Appending to a sequence
LEMMA SeqAppended ==
  ASSUME NEW S, NEW s \in Seq(S), NEW n \in Nat, n = Len(s), NEW e \in S
  PROVE  /\ Append(s, e) \in Seq(S) /\ Len(Append(s, e)) = n + 1 /\ Append(s, e)[n + 1] = e
         /\ Append(s, e) # <<>> /\ DOMAIN Append(s, e) = 1..(n + 1)
         /\ \A g \in 1..n : Append(s, e)[g] = s[g]
BY AppendProperties, LenProperties

\* The current generation is written in place, or a new one is added
InPlace(as, last) ==
  /\ ctx' = [exists |-> TRUE, rev |-> ctx.rev + 1, gen |-> ctx.gen, last |-> last]
  /\ memory' = [memory EXCEPT ![ctx.gen] = as]

Added(as, last) ==
  /\ ctx' = [exists |-> TRUE, rev |-> ctx.rev + 1, gen |-> ctx.gen + 1, last |-> last]
  /\ memory' = Append(memory, as)

\* Writing the current generation in place keeps the rows in order
LEMMA CurrentRewritten ==
  ASSUME TypeOK, Rows, NEW as \in Seq(Messages), as # <<>>, NEW last \in Nat, Working(as, last),
         Archived(as), StillThere,
         InPlace(as, last)
  PROVE  /\ ctx' \in [exists : BOOLEAN, rev : Nat, gen : Nat, last : Nat]
         /\ memory' \in Seq(Seq(Messages)) /\ memory' # <<>> /\ ctx'.gen = Len(memory')
         /\ memory'[ctx'.gen] = as /\ Rows'
         /\ \A g \in 1..Len(memory)-1 : memory'[g] = memory[g]
<1>1. PICK n \in Nat \ {0} : n = Len(memory) /\ DOMAIN memory = 1..n /\ ctx.gen = n
  BY Generations DEF TypeOK
<1>2. memory \in Seq(Seq(Messages)) /\ n \in 1..n BY <1>1 DEF TypeOK
<1>3. /\ memory' \in Seq(Seq(Messages)) /\ Len(memory') = n /\ memory'[n] = as
      /\ \A g \in 1..n : g # n => memory'[g] = memory[g]
  <2>1. memory' = [memory EXCEPT ![n] = as] BY <1>1 DEF InPlace
  <2>2. /\ [memory EXCEPT ![n] = as] \in Seq(Seq(Messages)) /\ Len([memory EXCEPT ![n] = as]) = n
        /\ [memory EXCEPT ![n] = as][n] = as
        /\ \A g \in 1..n : g # n => [memory EXCEPT ![n] = as][g] = memory[g]
    <3>1. PICK S : S = Seq(Messages) OBVIOUS
    <3>2. memory \in Seq(S) /\ as \in S BY <1>2, <3>1
    <3>3. n = Len(memory) BY <1>1
    <3>4. [memory EXCEPT ![n] = as] \in Seq(S) BY <3>2, <3>3, SeqUpdated
    <3>5. Len([memory EXCEPT ![n] = as]) = n BY <3>2, <3>3, SeqUpdated
    <3>6. [memory EXCEPT ![n] = as][n] = as BY <1>1, <1>2
    <3>7. \A g \in 1..n : g # n => [memory EXCEPT ![n] = as][g] = memory[g] BY <1>1
    <3> QED BY <3>1, <3>4, <3>5, <3>6, <3>7
  <2> QED BY <2>1, <2>2
<1>4. DOMAIN memory' = 1..n BY <1>3, LenProperties
<1>5. memory' # <<>> BY <1>1, <1>3, EmptySeq
<1>6. /\ ctx'.exists = TRUE /\ ctx'.rev = ctx.rev + 1 /\ ctx'.gen = n /\ ctx'.last = last BY <1>1 DEF InPlace
<1>7. ctx.rev \in Nat /\ ctx.gen \in Nat BY HeadTyped
<1>8. ctx' \in [exists : BOOLEAN, rev : Nat, gen : Nat, last : Nat] BY <1>7 DEF InPlace
<1>9. Rows'
  <2>1. Working(memory'[ctx'.gen], ctx'.last) BY <1>3, <1>6
  <2>2. (\A g \in 1..n : Archived(memory[g]))'
    <3>1. \A g \in 1..n : Archived(memory[g]) BY <1>1 DEF Rows
    <3>2. \A g \in 1..n : memory'[g] = as \/ memory'[g] = memory[g] BY <1>3
    <3>3. ASSUME NEW g \in 1..n PROVE Archived(memory[g])'
      <4>1. CASE memory'[g] = as BY <4>1 DEF Archived, StillThere
      <4>2. CASE memory'[g] = memory[g] BY <3>1, <4>2 DEF Archived, StillThere
      <4> QED BY <3>2, <4>1, <4>2
    <3> QED BY <3>3
  <2>3. ctx'.rev # 0 BY <1>6, <1>7
  <2>4. memory'[ctx'.gen] # <<>> BY <1>3, <1>6
  <2> QED BY <1>4, <1>6, <2>1, <2>2, <2>3, <2>4 DEF Rows
<1>10. \A g \in 1..Len(memory)-1 : memory'[g] = memory[g]
  <2>1. \A g \in 1..n-1 : g \in 1..n /\ g # n BY <1>1
  <2> QED BY <1>1, <1>3, <2>1
<1> QED BY <1>3, <1>5, <1>6, <1>8, <1>9, <1>10

\* Adding a generation keeps the rows in order
LEMMA GenerationAdded ==
  ASSUME TypeOK, Rows, NEW as \in Seq(Messages), as # <<>>, NEW last \in Nat, Working(as, last),
         Archived(as), StillThere,
         Added(as, last)
  PROVE  /\ ctx' \in [exists : BOOLEAN, rev : Nat, gen : Nat, last : Nat]
         /\ memory' \in Seq(Seq(Messages)) /\ memory' # <<>> /\ ctx'.gen = Len(memory')
         /\ memory'[ctx'.gen] = as /\ Rows'
         /\ \A g \in 1..Len(memory)-1 : memory'[g] = memory[g]
<1>1. PICK n \in Nat \ {0} : n = Len(memory) /\ DOMAIN memory = 1..n /\ ctx.gen = n
  BY Generations DEF TypeOK
<1>2. memory \in Seq(Seq(Messages)) BY DEF TypeOK
<1>3. /\ memory' \in Seq(Seq(Messages)) /\ Len(memory') = n + 1 /\ memory'[n + 1] = as
      /\ \A g \in 1..n : memory'[g] = memory[g]
  <2>1. /\ Append(memory, as) \in Seq(Seq(Messages)) /\ Len(Append(memory, as)) = n + 1
        /\ Append(memory, as)[n + 1] = as
        /\ \A g \in 1..n : Append(memory, as)[g] = memory[g]
    <3>1. PICK S : S = Seq(Messages) OBVIOUS
    <3>2. memory \in Seq(S) /\ as \in S BY <1>2, <3>1
    <3>3. n = Len(memory) BY <1>1
    <3>4. Append(memory, as) \in Seq(S) BY <3>2, <3>3, SeqAppended
    <3>5. Len(Append(memory, as)) = n + 1 BY <3>2, <3>3, SeqAppended
    <3>6. Append(memory, as)[n + 1] = as BY <3>2, <3>3, AppendProperties
    <3>7. \A g \in 1..n : Append(memory, as)[g] = memory[g] BY <3>2, <3>3, SeqAppended
    <3> QED BY <3>1, <3>4, <3>5, <3>6, <3>7
  <2> QED BY <2>1 DEF Added
<1>4. DOMAIN memory' = 1..(n + 1) BY <1>3, LenProperties
<1>5. memory' # <<>>
  <2>1. n + 1 # 0 BY <1>1
  <2> QED BY <1>3, <2>1, EmptySeq
<1>6. /\ ctx'.exists = TRUE /\ ctx'.rev = ctx.rev + 1 /\ ctx'.gen = n + 1 /\ ctx'.last = last BY <1>1 DEF Added
<1>7. ctx.rev \in Nat /\ ctx.gen \in Nat BY HeadTyped
<1>8. ctx' \in [exists : BOOLEAN, rev : Nat, gen : Nat, last : Nat] BY <1>7 DEF Added
<1>9. Rows'
  <2>1. Working(memory'[ctx'.gen], ctx'.last) BY <1>3, <1>6
  <2>2. (\A g \in 1..(n + 1) : Archived(memory[g]))'
    <3>1. \A g \in 1..n : Archived(memory[g]) BY <1>1 DEF Rows
    <3>2. \A g \in 1..(n + 1) : g \in 1..n \/ g = n + 1 BY <1>1
    <3>3. \A g \in 1..(n + 1) : memory'[g] = as \/ (g \in 1..n /\ memory'[g] = memory[g]) BY <1>3, <3>2
    <3> QED BY <3>1, <3>3 DEF Archived, StillThere
  <2>3. ctx'.rev # 0 BY <1>6, <1>7
  <2>4. memory'[ctx'.gen] # <<>> BY <1>3, <1>6
  <2> QED BY <1>4, <1>6, <2>1, <2>2, <2>3, <2>4 DEF Rows
<1>10. \A g \in 1..Len(memory)-1 : memory'[g] = memory[g]
  <2>1. \A g \in 1..n-1 : g \in 1..n BY <1>1
  <2> QED BY <1>1, <1>3, <2>1
<1> QED BY <1>3, <1>5, <1>6, <1>8, <1>9, <1>10

\* A prefix of a sequence
LEMMA FirstPart ==
  ASSUME NEW S, NEW s \in Seq(S), NEW n \in Nat, n <= Len(s)
  PROVE  /\ SubSeq(s, 1, n) \in Seq(S) /\ Len(SubSeq(s, 1, n)) = n
         /\ \A i \in 1..n : SubSeq(s, 1, n)[i] = s[i]
<1>1. \A i \in 1..n : s[i] \in S /\ 1 + i - 1 = i BY ElementOfSeq
<1>2. 1 \in Int /\ n \in Int /\ n - 1 + 1 = n OBVIOUS
<1> QED BY <1>1, <1>2, SubSeqProperties

\* A history that stays, or grows at its end, has its old self as a prefix
LEMMA PrefixKept ==
  ASSUME NEW ms \in Seq(Messages)
  PROVE  IsPrefix(ms, ms) /\ \A m \in Messages : IsPrefix(ms, Append(ms, m))
<1>1. Len(ms) \in Nat /\ DOMAIN ms = 1..Len(ms) BY Positions
<1>2. IsPrefix(ms, ms) BY <1>1 DEF IsPrefix
<1>3. ASSUME NEW m \in Messages PROVE IsPrefix(ms, Append(ms, m))
  <2> DEFINE as == Append(ms, m)
             n == Len(ms)
  <2>1. Len(as) = n + 1 /\ as \in Seq(Messages) /\ \A i \in 1..n : as[i] = ms[i] BY <1>1, AppendedMessage
  <2> HIDE DEF as
  <2>2. n \in Nat /\ n <= Len(ms) /\ n <= Len(as) BY <1>1, <2>1
  <2> HIDE DEF n
  <2>3. /\ SubSeq(ms, 1, n) \in Seq(Messages) /\ Len(SubSeq(ms, 1, n)) = n
        /\ \A i \in 1..n : SubSeq(ms, 1, n)[i] = ms[i]
    BY <2>2, FirstPart
  <2>4. /\ SubSeq(as, 1, n) \in Seq(Messages) /\ Len(SubSeq(as, 1, n)) = n
        /\ \A i \in 1..n : SubSeq(as, 1, n)[i] = as[i]
    BY <2>1, <2>2, FirstPart
  <2>5. SubSeq(ms, 1, n) = SubSeq(as, 1, n) BY <2>1, <2>3, <2>4, SeqEqual
  <2> QED BY <2>2, <2>5 DEF IsPrefix, as, n
<1> QED BY <1>2, <1>3

\* A message that the store accepts: it was computed from the revision that is
\* current, and it fits at the end of what is stored
LEMMA CreateFits ==
  ASSUME TypeOK, Rows, NEW s \in Sessions, Snapshot(s), s.msgs # <<>>, s.rev = 0 <=> Len(s.msgs) = 1,
         CreateAllowed(s)
  PROVE  /\ s.rev = ctx.rev /\ s.gen = ctx.gen /\ s.last > ctx.last
         /\ Last(s.msgs) \in Messages /\ Last(s.msgs).seq = s.last /\ Last(s.msgs).src = {s.last}
         /\ memory[ctx.gen] = <<>> => Last(s.msgs).role = "system" /\ s.last = 1
         /\ memory[ctx.gen] # <<>> => Last(s.msgs).role # "system"
         /\ Last(s.msgs).body = "cleared" \/ Last(s.msgs).art => Stored(s.last)
<1>1. /\ s.rev \in Nat /\ s.last \in Nat /\ s.msgs \in Seq(Messages) BY SessionTyped
<1>2. ctx.exists \in BOOLEAN /\ ctx.rev \in Nat /\ ctx.gen \in Nat /\ ctx.last \in Nat BY HeadTyped
<1>3. PICK n \in Nat : n = Len(s.msgs) /\ n # 0 /\ DOMAIN s.msgs = 1..n BY <1>1, Positions
<1>4. PICK m : m = Last(s.msgs) OBVIOUS
<1>5. n \in DOMAIN s.msgs /\ m = s.msgs[n] BY <1>3, <1>4 DEF Last
<1>6. m \in Messages BY <1>1, <1>5, Positions
<1>7. m.seq = s.last /\ m.src = {s.last} BY <1>4 DEF CreateAllowed, validateCreatedMessage
<1>8. (n = 1) <=> (m.role = "system") BY <1>5 DEF Snapshot, Working
<1>9. n = 1 => m.seq = 1 BY <1>3, <1>5 DEF Snapshot, Working
<1>10. m.body = "cleared" \/ m.art => Stored(m.seq) BY <1>5 DEF Snapshot, Archived
<1>11. s.rev = ctx.rev /\ s.gen = ctx.gen /\ s.last > ctx.last
  <2>1. CASE ctx.exists BY <2>1 DEF CreateAllowed, validateCreateTransition
  <2>2. CASE ~ctx.exists
    <3>1. s.rev = 0 /\ s.gen = 1 /\ s.last = 1 BY <2>2 DEF CreateAllowed, validateCreateTransition
    <3>2. ctx.rev = 0 /\ ctx.gen = 1 /\ memory[ctx.gen] = <<>> BY <2>2 DEF Rows
    <3>3. ctx.last = 0 BY <3>2 DEF Rows, Working
    <3> QED BY <3>1, <3>2, <3>3
  <2> QED BY <1>2, <2>1, <2>2
<1>12. memory[ctx.gen] = <<>> <=> n = 1
  <2>1. memory[ctx.gen] = <<>> <=> ctx.rev = 0 BY DEF Rows
  <2> QED BY <1>3, <1>11, <2>1
<1> QED BY <1>4, <1>6, <1>7, <1>8, <1>9, <1>10, <1>11, <1>12

\* CommitCreateMessage: the message enters the history and the working set
LEMMA CreateMoves ==
  ASSUME TypeOK, Rows, NothingForgotten, NEW s \in Sessions, Snapshot(s), s.msgs # <<>>,
         s.rev = 0 <=> Len(s.msgs) = 1, CreateAllowed(s), CommitCreateMessage(s), UNCHANGED <<artifacts, wiped, gone>>
  PROVE  /\ Moved /\ Preserved /\ s.rev = ctx.rev /\ ctx'.rev = ctx.rev + 1
         /\ original' = Append(original, Last(s.msgs))
         /\ GetRequestContext' = [rev |-> s.rev + 1, gen |-> s.gen, last |-> s.last,
                                  msgs |-> Append(memory[ctx.gen], Last(s.msgs))]
<1>1. PICK m : m = Last(s.msgs) OBVIOUS
<1>2. /\ s.rev = ctx.rev /\ s.gen = ctx.gen /\ s.last > ctx.last
      /\ m \in Messages /\ m.seq = s.last /\ m.src = {s.last}
      /\ memory[ctx.gen] = <<>> => m.role = "system" /\ s.last = 1
      /\ memory[ctx.gen] # <<>> => m.role # "system"
      /\ m.body = "cleared" \/ m.art => Stored(s.last)
  BY <1>1, CreateFits
<1>3. PICK ms \in Seq(Messages) : ms = memory[ctx.gen] BY Generations
<1>4. ctx.rev \in Nat /\ ctx.gen \in Nat /\ ctx.last \in Nat /\ s.last \in Nat BY HeadTyped, SessionTyped
<1>5. PICK as \in Seq(Messages) : as = Append(ms, m) BY <1>2, <1>3, AppendedMessage
<1>6. as # <<>> BY <1>2, <1>5, AppendedMessage
<1>7. Working(ms, ctx.last) /\ Archived(ms)
  <2>1. ctx.gen \in DOMAIN memory BY Generations
  <2> QED BY <1>3, <2>1 DEF Rows
<1>8. Working(as, s.last) /\ Sources(as) = Sources(ms) \cup {s.last}
  <2>1. m.src = {m.seq} /\ m.seq > ctx.last /\ (ms = <<>> => m.role = "system" /\ m.seq = 1)
        /\ (ms # <<>> => m.role # "system") BY <1>2, <1>3
  <2>2. Working(Append(ms, m), m.seq) /\ Sources(Append(ms, m)) = Sources(ms) \cup {m.seq}
    BY <1>2, <1>4, <1>7, <2>1, AppendWorks
  <2> QED BY <1>2, <1>5, <2>2
<1>9. Archived(as)
  <2>1. PICK n : n = Len(ms) + 1 OBVIOUS
  <2>2. DOMAIN as = DOMAIN ms \cup {n} /\ (\A i \in DOMAIN ms : as[i] = ms[i]) /\ as[n] = m
    BY <1>2, <1>5, <2>1, AppendedMessage
  <2>3. ASSUME NEW i \in DOMAIN as, as[i].body = "cleared" \/ as[i].art PROVE Stored(as[i].seq)
    <3>1. CASE i \in DOMAIN ms BY <1>7, <2>2, <2>3, <3>1 DEF Archived
    <3>2. CASE i = n BY <1>2, <2>2, <2>3, <3>2
    <3> QED BY <2>2, <3>1, <3>2
  <2> QED BY <2>3 DEF Archived
<1>10. InPlace(as, s.last)
  <2>1. ctx' = [exists |-> TRUE, rev |-> s.rev + 1, gen |-> s.gen, last |-> s.last]
    BY DEF CommitCreateMessage, writeContext
  <2>2. memory' = [memory EXCEPT ![s.gen] = Append(memory[s.gen], Last(s.msgs))] BY DEF CommitCreateMessage
  <2> QED BY <1>1, <1>2, <1>3, <1>5, <2>1, <2>2 DEF InPlace
<1>11. StillThere /\ gone' = gone BY ArtifactsStay
<1>12. /\ ctx' \in [exists : BOOLEAN, rev : Nat, gen : Nat, last : Nat]
       /\ memory' \in Seq(Seq(Messages)) /\ memory' # <<>> /\ ctx'.gen = Len(memory')
       /\ memory'[ctx'.gen] = as /\ Rows'
       /\ \A g \in 1..Len(memory)-1 : memory'[g] = memory[g]
  BY <1>4, <1>6, <1>8, <1>9, <1>10, <1>11, CurrentRewritten
<1>13. /\ ctx'.rev = ctx.rev + 1 /\ ctx'.gen = s.gen /\ ctx'.last = s.last BY <1>2, <1>10 DEF InPlace
<1>14. original \in Seq(Messages) /\ original' = Append(original, m) /\ reserved' \in Nat
  BY <1>1 DEF TypeOK, CommitCreateMessage
<1>15. original' \in Seq(Messages) BY <1>2, <1>14, AppendedMessage
<1>16. NothingForgotten'
  <2> SUFFICES ASSUME ~gone
        PROVE  Sources(memory'[ctx'.gen]) = {original'[i].seq : i \in DOMAIN original'}
    BY <1>11 DEF NothingForgotten
  <2>1. Sources(ms) = {original[i].seq : i \in DOMAIN original} BY <1>3 DEF NothingForgotten
  <2>2. {original'[i].seq : i \in DOMAIN original'} = {original[i].seq : i \in DOMAIN original} \cup {m.seq}
    <3>1. PICK old \in Seq(Messages) : old = original BY <1>14
    <3>2. PICK new : new = original' /\ new = Append(old, m) BY <1>14, <3>1
    <3>3. PICK n : n = Len(old) + 1 OBVIOUS
    <3>4. DOMAIN new = DOMAIN old \cup {n} /\ (\A i \in DOMAIN old : new[i] = old[i]) /\ new[n] = m
      BY <1>2, <3>2, <3>3, AppendedMessage
    <3>5. {new[i].seq : i \in DOMAIN new} = {old[i].seq : i \in DOMAIN old} \cup {m.seq} BY <3>4
    <3> QED BY <3>1, <3>2, <3>5
  <2> QED BY <1>2, <1>8, <1>12, <2>1, <2>2
<1>17. ctx'.last >= ctx.last BY <1>2, <1>4, <1>13
<1>18. Moved BY <1>12, <1>14, <1>15, <1>16, <1>17 DEF Moved
<1>19. Preserved BY <1>2, <1>12, <1>14, PrefixKept DEF Preserved
<1>20. GetRequestContext' = [rev |-> s.rev + 1, gen |-> s.gen, last |-> s.last, msgs |-> as]
  BY <1>2, <1>12, <1>13 DEF GetRequestContext
<1> QED BY <1>1, <1>2, <1>3, <1>5, <1>13, <1>14, <1>18, <1>19, <1>20

\* CommitUpdateMessage: the prompt is replaced and no original changes
LEMMA UpdateMoves ==
  ASSUME TypeOK, Rows, NothingForgotten, NEW s \in Sessions, Snapshot(s), s.msgs # <<>>,
         UpdateAllowed(s), CommitUpdateMessage(s), UNCHANGED <<artifacts, wiped, gone>>
  PROVE  /\ Moved /\ Preserved /\ s.rev = ctx.rev /\ ctx'.rev = ctx.rev + 1
         /\ original' = original
         /\ GetRequestContext' = [rev |-> s.rev + 1, gen |-> s.gen, last |-> s.last,
                                  msgs |-> [memory[ctx.gen] EXCEPT ![1] = s.msgs[1]]]
<1>1. s.rev = ctx.rev /\ s.gen = ctx.gen /\ s.last = ctx.last BY DEF UpdateAllowed, SameRevision
<1>2. PICK ms \in Seq(Messages) : ms = memory[ctx.gen] BY Generations
<1>3. ctx.rev \in Nat /\ ctx.gen \in Nat /\ ctx.last \in Nat /\ s.last \in Nat BY HeadTyped, SessionTyped
<1>4. Working(ms, ctx.last) /\ Archived(ms)
  <2>1. ctx.gen \in DOMAIN memory BY Generations
  <2> QED BY <1>2, <2>1 DEF Rows
<1>5. PICK sys \in Messages : sys = s.msgs[1] /\ 1 \in DOMAIN s.msgs
  <2>1. s.msgs \in Seq(Messages) BY SessionTyped
  <2>2. 1 \in DOMAIN s.msgs BY <2>1, Positions
  <2> QED BY <2>1, <2>2, Positions
<1>6. sys.seq = 1 /\ sys.src = {1} /\ sys.role = "system" BY <1>5 DEF Snapshot, Working
<1>7. sys.body = "cleared" \/ sys.art => Stored(sys.seq) BY <1>5 DEF Snapshot, Archived
<1>8. ms # <<>>
  <2>1. \E i \in DOMAIN ms : ms[i].seq = sys.seq BY <1>1, <1>2, <1>5 DEF UpdateAllowed
  <2>2. DOMAIN ms # {} BY <2>1
  <2>3. Len(ms) \in Nat /\ DOMAIN ms = 1..Len(ms) BY Positions
  <2>4. Len(ms) # 0 BY <2>2, <2>3
  <2> QED BY <2>4, Positions
<1>9. PICK as : as = [ms EXCEPT ![1] = sys] OBVIOUS
<1>10. Like(as, ms) /\ as = [i \in DOMAIN ms |-> IF ms[i].seq = 1 THEN sys ELSE ms[i]]
  BY <1>3, <1>4, <1>6, <1>8, <1>9, PromptReplaced
<1>11. as \in Seq(Messages) /\ Working(as, ctx.last) /\ Sources(as) = Sources(ms) /\ as # <<>>
  BY <1>3, <1>4, <1>8, <1>10, LikeWorks
<1>12. Archived(as)
  <2>1. DOMAIN as = DOMAIN ms BY <1>10 DEF Like
  <2>2. \A i \in DOMAIN as : as[i] = sys \/ as[i] = ms[i] BY <1>10, <2>1
  <2>3. ASSUME NEW i \in DOMAIN as, as[i].body = "cleared" \/ as[i].art PROVE Stored(as[i].seq)
    <3>1. CASE as[i] = sys BY <1>7, <2>3, <3>1
    <3>2. CASE as[i] = ms[i] BY <1>4, <2>1, <2>3, <3>2 DEF Archived
    <3> QED BY <2>2, <3>1, <3>2
  <2> QED BY <2>3 DEF Archived
<1>13. InPlace(as, ctx.last)
  <2>1. ctx' = [exists |-> TRUE, rev |-> s.rev + 1, gen |-> s.gen, last |-> s.last]
    BY DEF CommitUpdateMessage, writeContext
  <2>2. memory' = [memory EXCEPT ![s.gen] =
           [i \in DOMAIN memory[s.gen] |-> IF memory[s.gen][i].seq = s.msgs[1].seq THEN s.msgs[1]
                                           ELSE memory[s.gen][i]]]
    BY DEF CommitUpdateMessage
  <2>3. [i \in DOMAIN memory[s.gen] |-> IF memory[s.gen][i].seq = s.msgs[1].seq THEN s.msgs[1]
                                        ELSE memory[s.gen][i]] = as
    BY <1>1, <1>2, <1>5, <1>6, <1>10
  <2> QED BY <1>1, <2>1, <2>2, <2>3 DEF InPlace
<1>14. StillThere /\ gone' = gone BY ArtifactsStay
<1>15. /\ ctx' \in [exists : BOOLEAN, rev : Nat, gen : Nat, last : Nat]
       /\ memory' \in Seq(Seq(Messages)) /\ memory' # <<>> /\ ctx'.gen = Len(memory')
       /\ memory'[ctx'.gen] = as /\ Rows'
       /\ \A g \in 1..Len(memory)-1 : memory'[g] = memory[g]
  BY <1>3, <1>11, <1>12, <1>13, <1>14, CurrentRewritten
<1>16. ctx'.rev = ctx.rev + 1 /\ ctx'.gen = s.gen /\ ctx'.last = s.last BY <1>1, <1>13 DEF InPlace
<1>17. original \in Seq(Messages) /\ original' = original /\ reserved' \in Nat
  BY DEF TypeOK, CommitUpdateMessage
<1>18. NothingForgotten' BY <1>2, <1>11, <1>14, <1>15, <1>17 DEF NothingForgotten
<1>19. ctx'.last >= ctx.last BY <1>1, <1>3, <1>16
<1>20. Moved BY <1>15, <1>17, <1>18, <1>19 DEF Moved
<1>21. Preserved BY <1>15, <1>17, PrefixKept DEF Preserved
<1>22. GetRequestContext' = [rev |-> s.rev + 1, gen |-> s.gen, last |-> s.last, msgs |-> as]
  BY <1>1, <1>15, <1>16 DEF GetRequestContext
<1> QED BY <1>1, <1>2, <1>5, <1>9, <1>16, <1>17, <1>20, <1>21, <1>22

\* CommitNextMemoryGeneration: the older generations stay as they were
LEMMA GenerationMoves ==
  ASSUME TypeOK, Rows, NothingForgotten, NEW s \in Sessions, Snapshot(s), s.msgs # <<>>,
         NextGenerationAllowed(s), CommitNextMemoryGeneration(s), UNCHANGED <<artifacts, wiped, gone>>,
         ~gone => Sources(s.msgs) = Sources(memory[ctx.gen])
  PROVE  /\ Moved /\ Preserved /\ s.rev = ctx.rev /\ ctx'.rev = ctx.rev + 1
         /\ original' = original
         /\ GetRequestContext' = [rev |-> s.rev + 1, gen |-> s.gen, last |-> s.last, msgs |-> s.msgs]
<1>1. s.rev = ctx.rev /\ s.gen = ctx.gen + 1 /\ s.last = ctx.last BY DEF NextGenerationAllowed, SameRevision
<1>2. PICK as \in Seq(Messages) : as = s.msgs BY SessionTyped
<1>3. ctx.rev \in Nat /\ ctx.gen \in Nat /\ ctx.last \in Nat BY HeadTyped
<1>4. as # <<>> /\ Working(as, ctx.last) /\ Archived(as) BY <1>1, <1>2 DEF Snapshot
<1>5. Added(as, ctx.last)
  <2>1. ctx' = [exists |-> TRUE, rev |-> s.rev + 1, gen |-> s.gen, last |-> s.last]
    BY DEF CommitNextMemoryGeneration, writeContext
  <2>2. memory' = Append(memory, s.msgs) BY DEF CommitNextMemoryGeneration
  <2> QED BY <1>1, <1>2, <2>1, <2>2 DEF Added
<1>6. StillThere /\ gone' = gone BY ArtifactsStay
<1>7. /\ ctx' \in [exists : BOOLEAN, rev : Nat, gen : Nat, last : Nat]
      /\ memory' \in Seq(Seq(Messages)) /\ memory' # <<>> /\ ctx'.gen = Len(memory')
      /\ memory'[ctx'.gen] = as /\ Rows'
      /\ \A g \in 1..Len(memory)-1 : memory'[g] = memory[g]
  BY <1>3, <1>4, <1>5, <1>6, GenerationAdded
<1>8. ctx'.rev = ctx.rev + 1 /\ ctx'.gen = s.gen /\ ctx'.last = s.last BY <1>1, <1>5 DEF Added
<1>9. original \in Seq(Messages) /\ original' = original /\ reserved' \in Nat
  BY DEF TypeOK, CommitNextMemoryGeneration
<1>10. NothingForgotten' BY <1>2, <1>6, <1>7, <1>9 DEF NothingForgotten
<1>11. ctx'.last >= ctx.last BY <1>1, <1>3, <1>8
<1>12. Moved BY <1>7, <1>9, <1>10, <1>11 DEF Moved
<1>13. Preserved BY <1>7, <1>9, PrefixKept DEF Preserved
<1>14. GetRequestContext' = [rev |-> s.rev + 1, gen |-> s.gen, last |-> s.last, msgs |-> as]
  BY <1>1, <1>7, <1>8 DEF GetRequestContext
<1> QED BY <1>1, <1>2, <1>8, <1>9, <1>12, <1>13, <1>14

\* Max of two numbers
LEMMA GreaterOfTwo ==
  ASSUME NEW a \in Nat, NEW b \in Nat
  PROVE  Max({a, b}) \in Nat /\ Max({a, b}) >= a /\ Max({a, b}) >= b
<1>1. a + b \in Nat /\ {a, b} \in SUBSET (0..(a + b)) /\ {a, b} # {} OBVIOUS
<1> QED BY <1>1, MaxIs

\* A step that leaves the rows alone
LEMMA RowsStay ==
  ASSUME TypeOK, Rows, NothingForgotten, UNCHANGED <<ctx, original, memory, gone>>, reserved' \in Nat,
         StillThere
  PROVE  Moved /\ Preserved
<1>1. original \in Seq(Messages) /\ original' = original BY DEF TypeOK
<1>2. Preserved BY <1>1, PrefixKept DEF Preserved
<1>3. Rows'
  <2>1. (\A g \in DOMAIN memory : Archived(memory[g]))'
    <3>1. \A g \in DOMAIN memory : Archived(memory[g]) BY DEF Rows
    <3>2. \A g \in DOMAIN memory : \A i \in DOMAIN memory[g] :
            memory[g][i].body = "cleared" \/ memory[g][i].art => Stored(memory[g][i].seq)'
      BY <3>1 DEF Archived, StillThere
    <3> QED BY <3>2 DEF Archived
  <2> QED BY <2>1 DEF Rows
<1>4. NothingForgotten' BY DEF NothingForgotten
<1>5. ctx'.last >= ctx.last BY HeadTyped
<1> QED BY <1>2, <1>3, <1>4, <1>5 DEF TypeOK, Moved

\* ReserveMessageSequence changes only the counter
LEMMA ReserveMoves ==
  ASSUME TypeOK, Rows, NothingForgotten, ReserveMessageSequence, UNCHANGED <<artifacts, wiped, gone>>
  PROVE  Moved /\ Preserved /\ UNCHANGED <<ctx, memory, original>>
<1>1. reserved \in Nat /\ ctx.last \in Nat BY HeadTyped DEF TypeOK
<1>2. reserved' \in Nat BY <1>1, GreaterOfTwo DEF ReserveMessageSequence
<1>3. StillThere BY ArtifactsStay
<1> QED BY <1>2, <1>3, RowsStay DEF ReserveMessageSequence

\* The rows stay, or the head goes to its next revision
Advances == (ctx' = ctx /\ memory' = memory /\ original' = original) \/ ctx'.rev = ctx.rev + 1

\* What any request that is accepted does, whoever sent it and when
LEMMA RequestMoves ==
  ASSUME TypeOK, Rows, NothingForgotten, NEW r \in Requested, Sound(r), Timely(r),
         RequestAllowed(r), ApplyRequest(r), UNCHANGED <<artifacts, wiped, gone>>
  PROVE  Moved /\ Preserved /\ Advances
<1>1. r.snap \in Sessions /\ r.op \in {"reserve", "create", "update", "generation"} BY DEF Requested
<1>2. Snapshot(r.snap) BY DEF Sound
<1>3. CASE r.op = "reserve"
  <2>1. ReserveMessageSequence BY <1>3 DEF ApplyRequest
  <2> QED BY <2>1, ReserveMoves DEF Advances
<1>4. CASE r.op = "create"
  <2>1. CreateAllowed(r.snap) /\ CommitCreateMessage(r.snap) BY <1>4 DEF RequestAllowed, ApplyRequest
  <2>2. r.snap.msgs # <<>> /\ (r.snap.rev = 0 <=> Len(r.snap.msgs) = 1) BY <1>4 DEF Sound
  <2> QED BY <1>1, <1>2, <2>1, <2>2, CreateMoves DEF Advances
<1>5. CASE r.op = "update"
  <2>1. UpdateAllowed(r.snap) /\ CommitUpdateMessage(r.snap) BY <1>5 DEF RequestAllowed, ApplyRequest
  <2>2. r.snap.msgs # <<>> BY <1>5 DEF Sound
  <2> QED BY <1>1, <1>2, <2>1, <2>2, UpdateMoves DEF Advances
<1>6. CASE r.op = "generation"
  <2>1. NextGenerationAllowed(r.snap) /\ CommitNextMemoryGeneration(r.snap)
    BY <1>6 DEF RequestAllowed, ApplyRequest
  <2>2. r.snap.msgs # <<>> BY <1>6 DEF Sound
  <2>3. r.snap.rev = ctx.rev BY <2>1 DEF NextGenerationAllowed, SameRevision
  <2>4. ~gone => Sources(r.snap.msgs) = Sources(memory[ctx.gen]) BY <1>6, <2>3 DEF Timely
  <2> QED BY <1>1, <1>2, <2>1, <2>2, <2>4, GenerationMoves DEF Advances
<1> QED BY <1>1, <1>3, <1>4, <1>5, <1>6

-----------------------------------------------------------------------------
(* What stays true of requests and of sessions when the store moves on.    *)

\* What a request asks for stays sound while artifacts stay
LEMMA SoundKept ==
  ASSUME NEW r, Sound(r), StillThere
  PROVE  Sound(r)'
BY DEF Sound, Snapshot, Archived, StillThere

\* A request is timely whatever else is written
LEMMA TimelyKept ==
  ASSUME TypeOK, NEW r \in Requested, Timely(r), Advances, gone' = gone
  PROVE  Timely(r)'
<1>1. r.snap.rev \in Nat /\ ctx.rev \in Nat BY HeadTyped, SessionTyped DEF Requested
<1>2. CASE ctx' = ctx /\ memory' = memory BY <1>2 DEF Timely
<1>3. CASE ctx'.rev = ctx.rev + 1
  <2>1. ~gone => r.snap.rev <= ctx.rev BY DEF Timely
  <2>2. ~gone => r.snap.rev <= ctx'.rev /\ r.snap.rev # ctx'.rev BY <1>1, <1>3, <2>1
  <2> QED BY <2>2 DEF Timely
<1> QED BY <1>2, <1>3 DEF Advances

\* A session stays behind the head whatever is written
LEMMA BehindKept ==
  ASSUME TypeOK, NEW s \in Sessions, Behind(s), Advances, Moved
  PROVE  Behind(s)'
<1>1. s.rev \in Nat /\ s.last \in Nat /\ ctx.rev \in Nat /\ ctx.last \in Nat /\ ctx'.last \in Nat
  BY HeadTyped, SessionTyped DEF Moved
<1>2. CASE ctx' = ctx /\ memory' = memory BY <1>2 DEF Behind, GetRequestContext
<1>3. CASE ctx'.rev = ctx.rev + 1
  <2>1. s.rev <= ctx.rev /\ s.last <= ctx.last /\ ctx'.last >= ctx.last BY DEF Behind, Moved
  <2>2. s.rev <= ctx'.rev /\ s.last <= ctx'.last /\ s.rev # ctx'.rev BY <1>1, <1>3, <2>1
  <2> QED BY <2>2 DEF Behind
<1> QED BY <1>2, <1>3 DEF Advances

-----------------------------------------------------------------------------
(* What a run holds.                                                       *)

\* The fields of a run
LEMMA RunFields ==
  ASSUME NEW w, RunTyped(w)
  PROVE  DOMAIN w = {"pc", "resume", "sess", "chat", "seq", "reason", "err", "cand", "todo", "streak", "cut", "changed"}
BY DEF RunTyped, Idle

\* A run that is idle holds nothing
LEMMA IdleHeld ==
  /\ RunTyped(Idle) /\ HeldBy(Idle)
  /\ Idle.pc = "idle" /\ Idle.err = "none" /\ Idle.sess = NoSession
<1>1. NoSession \in Sessions BY DEF NoSession, Sessions
<1>2. Working(<<>>, 0) BY DEF Working
<1>3. Snapshot(NoSession) BY <1>2 DEF Snapshot, NoSession, Archived
<1>4. Idle.pc = "idle" /\ Idle.err = "none" /\ Idle.sess = NoSession /\ Idle.cand = <<>> /\ Idle.todo = <<>>
      /\ Idle.seq = 0 /\ Idle.chat = 0
  BY DEF Idle
<1>5. RunTyped(Idle) BY <1>1, <1>4 DEF RunTyped
<1>6. NoSession.rev = 0 /\ NoSession.msgs = <<>> BY DEF NoSession
<1>7. HeldBy(Idle) BY <1>3, <1>4, <1>6 DEF HeldBy
<1> QED BY <1>4, <1>5, <1>7

Ended(w, why) == [w EXCEPT !.pc = "finish", !.cand = <<>>, !.err = why]

\* A run that has given up keeps what it held but the compacted messages
LEMMA EndingHeld ==
  ASSUME NEW w, RunTyped(w), HeldBy(w), NEW why \in {"failed", "cancelled"}, NEW e, e = Ended(w, why)
  PROVE  RunTyped(e) /\ HeldBy(e) /\ e.pc = "finish" /\ e.err = why /\ e.sess = w.sess
<1>1. DOMAIN w = {"pc", "resume", "sess", "chat", "seq", "reason", "err", "cand", "todo", "streak", "cut", "changed"}
  BY RunFields
<1>2. /\ e.pc = "finish" /\ e.err = why /\ e.cand = <<>> /\ e.sess = w.sess /\ e.todo = w.todo
      /\ e.seq = w.seq /\ e.chat = w.chat /\ DOMAIN e = DOMAIN w
  BY <1>1 DEF Ended
<1>3. RunTyped(e) BY <1>2 DEF RunTyped
<1>4. HeldBy(e) BY <1>2 DEF HeldBy
<1> QED BY <1>2, <1>3, <1>4

Noting(e, x, y) == [e EXCEPT !.reason = x, !.changed = y]

\* Also a run that remembers what the model and the tools did
LEMMA FailingHeld ==
  ASSUME NEW v, RunTyped(v), HeldBy(v), NEW why \in {"failed", "cancelled"}, NEW x, NEW y,
         NEW e, e = Ended(v, why), NEW w, w = Noting(e, x, y)
  PROVE  RunTyped(w) /\ HeldBy(w) /\ w.pc = "finish" /\ w.err = why /\ w.sess = v.sess
<1>2. RunTyped(e) /\ HeldBy(e) /\ e.pc = "finish" /\ e.err = why /\ e.sess = v.sess BY EndingHeld
<1>3. w = [e EXCEPT !.reason = x, !.changed = y] BY DEF Noting
<1>4. DOMAIN e = {"pc", "resume", "sess", "chat", "seq", "reason", "err", "cand", "todo", "streak", "cut", "changed"}
  BY <1>2, RunFields
<1>5. /\ DOMAIN w = DOMAIN e /\ w.pc = e.pc /\ w.sess = e.sess /\ w.seq = e.seq /\ w.chat = e.chat
      /\ w.cand = e.cand /\ w.todo = e.todo /\ w.err = e.err
  BY <1>3, <1>4
<1>6. RunTyped(w) BY <1>2, <1>5 DEF RunTyped
<1>7. HeldBy(w) BY <1>2, <1>5 DEF HeldBy
<1> QED BY <1>2, <1>5, <1>6, <1>7

\* No session is behind any
LEMMA NothingIsBehind ==
  ASSUME Moved
  PROVE  Behind(NoSession)'
<1>1. ctx'.rev \in Nat /\ ctx'.last \in Nat BY DEF Moved
<1>2. NoSession.rev = 0 /\ NoSession.last = 0 BY DEF NoSession
<1>3. ctx'.rev = 0 => ctx'.gen = 1 /\ memory'[ctx'.gen] = <<>> /\ ctx'.last = 0 BY DEF Moved, Rows, Working
<1>4. ctx'.rev = 0 => NoSession = GetRequestContext' BY <1>3 DEF NoSession, GetRequestContext
<1> QED BY <1>1, <1>2, <1>4 DEF Behind

\* What a run holds stays in order while artifacts stay
LEMMA HeldStays ==
  ASSUME NEW w, HeldBy(w), StillThere
  PROVE  HeldBy(w)'
<1>1. \A ms : Archived(ms) => Archived(ms)' BY DEF Archived, StillThere
<1> QED BY <1>1 DEF HeldBy, Snapshot

\* The parts of the invariant that a step of the run changes
Kept ==
  /\ RunTyped(run') /\ HeldBy(run)' /\ (gone \/ Behind(run.sess)') /\ (gone => run'.pc = "idle")
  /\ \A r \in late' : r \in Requested /\ Sound(r)' /\ Timely(r)'
  /\ Child'

\* A step that moves the store and keeps the rest keeps the invariant
LEMMA PartsKept ==
  ASSUME IInv, Moved, Kept, UNCHANGED <<kind, gone>>, runs' \in Nat, StillThere
  PROVE  IInv'
<1>1. TypeOK' BY DEF IInv, TypeOK, Moved, Kept, StillThere
<1>2. Requests' BY DEF Requests, Kept
<1>3. InStep' BY DEF InStep, Kept
<1> QED BY <1>1, <1>2, <1>3 DEF IInv, Moved, Kept

\* The result of one step: the invariant, and the past as it was
Upheld == IInv' /\ (gone' = gone => Preserved)

\* Requests under way stay sound and timely, whatever is written
LEMMA LateKept ==
  ASSUME IInv, Advances, gone' = gone, StillThere
  PROVE  \A r \in late : r \in Requested /\ Sound(r)' /\ Timely(r)'
<1>1. TypeOK BY DEF IInv
<1>2. ASSUME NEW r \in late PROVE r \in Requested /\ Sound(r)' /\ Timely(r)'
  <2>1. r \in Requested BY <1>1 DEF TypeOK
  <2>2. Sound(r) /\ Timely(r) BY DEF IInv, Requests
  <2> QED BY <1>1, <2>1, <2>2, SoundKept, TimelyKept
<1> QED BY <1>2

-----------------------------------------------------------------------------
(* Sending a request.                                                      *)

Busy == {"load", "sys", "recover", "user", "prepare", "advance", "reply", "tools"}

\* A request that the run may send
Fits(r) ==
  /\ r \in Requested /\ Sound(r)
  /\ r.snap.rev = 0 \/ r.snap.rev = run.sess.rev
  /\ r.op = "generation" => r.snap.rev = run.sess.rev /\ Sources(r.snap.msgs) = Sources(run.sess.msgs)

\* The run once its request is done
Ready(next) ==
  /\ RunTyped(next) /\ HeldBy(next)
  /\ next.pc # "finish" => next.err = "none"

Lands(next) ==
  /\ Behind(next.sess)'
  /\ next.pc = "finish" /\ next.err = "none" /\ next.reason = "stop" => Answered'

\* A request that a run computes from what it holds is timely
LEMMA FitsIsTimely ==
  ASSUME IInv, ~gone, NEW r, Fits(r)
  PROVE  Timely(r)
<1>1. TypeOK /\ Behind(run.sess) BY DEF IInv, InStep
<1>2. run.sess \in Sessions BY <1>1 DEF TypeOK, RunTyped
<1>3. run.sess.rev \in Nat /\ ctx.rev \in Nat /\ r.snap.rev \in Nat
  BY <1>1, <1>2, HeadTyped, SessionTyped DEF Fits, Requested
<1>4. run.sess.rev <= ctx.rev /\ (run.sess.rev = ctx.rev => run.sess.msgs = memory[ctx.gen])
  BY <1>1 DEF Behind, GetRequestContext
<1>5. r.snap.rev <= ctx.rev BY <1>3, <1>4 DEF Fits
<1>6. r.op = "generation" /\ r.snap.rev = ctx.rev => Sources(r.snap.msgs) = Sources(memory[ctx.gen])
  BY <1>4 DEF Fits
<1> QED BY <1>5, <1>6 DEF Timely

\* A sub-agent's run that goes on has no request under way and no report
LEMMA ChildAfterAnswer ==
  ASSUME Child, run.pc \in Busy, UNCHANGED <<kind, runs, gone, report, late>>, NEW next, run' = next,
         next.pc # "finish" => next.err = "none",
         next.pc = "finish" /\ next.err = "none" /\ next.reason = "stop" => Answered'
  PROVE  Child'
<1>1. run.pc # "idle" /\ run.pc # "finish" BY DEF Busy
<1>2. kind = "child" => ~gone /\ runs # 0 /\ late = {} /\ report = "none" BY <1>1 DEF Child
<1> QED BY <1>2 DEF Child

\* A sub-agent's run that fails has no report yet
LEMMA ChildAfterFailure ==
  ASSUME Child, run.pc \in Busy, UNCHANGED <<kind, runs, gone, report>>, NEW next, run' = next,
         (next.pc = "finish" /\ next.err # "none") \/ (next.pc = "idle" /\ next.err = "none")
  PROVE  Child'
<1>1. run.pc # "idle" /\ run.pc # "finish" BY DEF Busy
<1>2. kind = "child" => ~gone /\ runs # 0 /\ late = {} /\ report = "none" BY <1>1 DEF Child
<1> QED BY <1>2 DEF Child

\* The run has given up or died
LEMMA Stopped ==
  ASSUME IInv, Moved, Advances, ~gone, run.pc \in Busy, NEW next, run' \in {Failing(next), Idle},
         UNCHANGED <<kind, runs, gone, report, artifacts, wiped>>
  PROVE  RunTyped(run') /\ HeldBy(run)' /\ Behind(run.sess)' /\ Child'
<1>1. RunTyped(run) /\ HeldBy(run) /\ Behind(run.sess) /\ Child /\ TypeOK /\ run.sess \in Sessions
  BY DEF IInv, InStep, TypeOK, RunTyped
<1>2. PICK w : w = run' OBVIOUS
<1>3. StillThere BY <1>1, ArtifactsStay
<1>4. CASE run' = Failing(next)
  <2>1. RunTyped(w) /\ HeldBy(w) /\ w.pc = "finish" /\ w.err = "failed" /\ w.sess = run.sess
    <3>1. PICK v : v = run OBVIOUS
    <3>5. PICK e : e = Ended(v, "failed") OBVIOUS
    <3>6. e = Ending("failed") BY <3>1, <3>5 DEF Ending, Ended
    <3>2. PICK x, y : w = Noting(e, x, y)
      BY <1>2, <1>4, <3>6 DEF Failing, Noting
    <3>3. RunTyped(v) /\ HeldBy(v) BY <1>1, <3>1
    <3>4. RunTyped(w) /\ HeldBy(w) /\ w.pc = "finish" /\ w.err = "failed" /\ w.sess = v.sess
      BY <3>2, <3>3, <3>5, FailingHeld
    <3> QED BY <3>1, <3>4
  <2>2. HeldBy(w)' BY <1>3, <2>1, HeldStays
  <2>3. Child' BY <1>1, <1>2, <2>1, ChildAfterFailure
  <2>4. PICK s \in Sessions : s = run.sess BY <1>1
  <2>5. Behind(s)' BY <1>1, <2>4, BehindKept
  <2> QED BY <1>2, <2>1, <2>2, <2>3, <2>4, <2>5 DEF HeldBy
<1>5. CASE run' = Idle
  <2>1. RunTyped(w) /\ HeldBy(w) /\ w.pc = "idle" /\ w.err = "none" /\ w.sess = NoSession
    BY <1>2, <1>5, IdleHeld
  <2>2. HeldBy(w)' BY <1>3, <2>1, HeldStays
  <2>3. Child' BY <1>1, <1>2, <2>1, ChildAfterFailure
  <2>4. Behind(NoSession)' BY NothingIsBehind
  <2> QED BY <1>2, <2>1, <2>2, <2>3, <2>4 DEF HeldBy
<1> QED BY <1>4, <1>5

\* A remote write keeps the invariant, whichever of its outcomes happens
LEMMA SendKeeps ==
  ASSUME IInv, ~gone, run.pc \in Busy, NEW r, NEW next, Fits(r), Ready(next), Send(r, next),
         RequestAllowed(r) /\ ApplyRequest(r) => Lands(next),
         UNCHANGED <<artifacts, wiped, report>>
  PROVE  Upheld
<1>1. TypeOK /\ Rows /\ NothingForgotten /\ Child BY DEF IInv
<1>2. r \in Requested /\ Sound(r) /\ Timely(r) BY FitsIsTimely DEF Fits
<1>3. kind' = kind /\ runs' = runs /\ gone' = gone /\ UNCHANGED <<artifacts, wiped, report>> BY DEF Send
<1>4. reserved \in Nat /\ runs \in Nat BY <1>1 DEF TypeOK
<1>5. StillThere BY <1>1, <1>3, ArtifactsStay
<1>6. ASSUME UNCHANGED storeVars PROVE Moved /\ Preserved /\ Advances
  BY <1>1, <1>3, <1>4, <1>5, <1>6, RowsStay DEF storeVars, Advances
<1>7. ASSUME RequestAllowed(r), ApplyRequest(r) PROVE Moved /\ Preserved /\ Advances
  BY <1>1, <1>2, <1>3, <1>7, RequestMoves
<1>8. CASE RequestAllowed(r) /\ ApplyRequest(r) /\ run' = next /\ late' = late
  <2>1. Moved /\ Preserved /\ Advances BY <1>7, <1>8
  <2>2. \A q \in late' : q \in Requested /\ Sound(q)' /\ Timely(q)' BY <1>3, <1>5, <1>8, <2>1, LateKept
  <2>3. RunTyped(next) /\ HeldBy(next) /\ (next.pc # "finish" => next.err = "none") BY DEF Ready
  <2>4. HeldBy(next)' BY <1>5, <2>3, HeldStays
  <2>5. /\ Behind(next.sess)'
        /\ next.pc = "finish" /\ next.err = "none" /\ next.reason = "stop" => Answered'
    BY <1>8 DEF Lands
  <2>6. Child' BY <1>1, <1>3, <1>8, <2>3, <2>5, ChildAfterAnswer
  <2>7. HeldBy(run)' /\ Behind(run.sess)' BY <1>8, <2>4, <2>5 DEF HeldBy
  <2>8. Kept BY <1>8, <2>2, <2>3, <2>6, <2>7 DEF Kept
  <2> QED BY <1>3, <1>4, <1>5, <2>1, <2>8, PartsKept DEF Upheld
<1>9. CASE /\ run' \in {Failing(next), Idle}
           /\ \/ UNCHANGED storeVars
              \/ RequestAllowed(r) /\ ApplyRequest(r)
           /\ late' = late \/ late' = late \cup {r}
  <2>1. Moved /\ Preserved /\ Advances BY <1>6, <1>7, <1>9
  <2>2. \A q \in late : q \in Requested /\ Sound(q)' /\ Timely(q)' BY <1>3, <1>5, <2>1, LateKept
  <2>3. Sound(r)' /\ Timely(r)' BY <1>1, <1>2, <1>3, <1>5, <2>1, SoundKept, TimelyKept
  <2>4. \A q \in late' : q \in Requested /\ Sound(q)' /\ Timely(q)' BY <1>2, <1>9, <2>2, <2>3
  <2>5. RunTyped(run') /\ HeldBy(run)' /\ Behind(run.sess)' /\ Child' BY <1>3, <1>9, <2>1, Stopped
  <2>6. Kept BY <2>4, <2>5 DEF Kept
  <2> QED BY <1>3, <1>4, <1>5, <2>1, <2>6, PartsKept DEF Upheld
<1>10. \/ RequestAllowed(r) /\ ApplyRequest(r) /\ run' = next /\ late' = late
       \/ /\ run' \in {Failing(next), Idle}
          /\ UNCHANGED storeVars \/ (RequestAllowed(r) /\ ApplyRequest(r))
          /\ late' = late \/ late' = late \cup {r}
  BY DEF Send
<1> QED BY <1>8, <1>9, <1>10

-----------------------------------------------------------------------------
(* Appending a message.                                                    *)

\* A message that the run may append
Fresh(m, s) ==
  /\ m.seq > s.last /\ m.src = {m.seq} /\ m.body # "cleared" /\ m.art = FALSE
  /\ s.msgs = <<>> => m.role = "system" /\ m.seq = 1
  /\ s.msgs # <<>> => m.role # "system"

Grown(s, m) == [s EXCEPT !.msgs = Append(@, m), !.last = m.seq]

\* The candidate with one more message
LEMMA Extended ==
  ASSUME NEW s \in Sessions, Snapshot(s), s.rev = 0 <=> s.msgs = <<>>,
         NEW m \in Messages, Fresh(m, s), NEW c, c = Grown(s, m)
  PROVE  /\ c \in Sessions /\ Snapshot(c) /\ c.msgs # <<>> /\ (c.rev = 0 <=> Len(c.msgs) = 1)
         /\ c.rev = s.rev /\ c.gen = s.gen /\ c.last = m.seq /\ c.msgs = Append(s.msgs, m) /\ Last(c.msgs) = m
<1>1. s.rev \in Nat /\ s.gen \in Nat /\ s.last \in Nat /\ s.msgs \in Seq(Messages) BY SessionTyped
<1>2. c.rev = s.rev /\ c.gen = s.gen /\ c.last = m.seq /\ c.msgs = Append(s.msgs, m) BY DEF Sessions, Grown
<1>3. PICK ms \in Seq(Messages) : ms = s.msgs BY <1>1
<1>4. PICK as : as = Append(ms, m) OBVIOUS
<1>5. PICK n \in Nat : n = Len(ms) /\ (ms = <<>> <=> n = 0) BY Positions
<1>6. /\ as \in Seq(Messages) /\ as # <<>> /\ Len(as) = n + 1 /\ Last(as) = m
      /\ DOMAIN as = DOMAIN ms \cup {n + 1} /\ (\A i \in DOMAIN ms : as[i] = ms[i]) /\ as[n + 1] = m
  BY <1>4, <1>5, AppendedMessage
<1>7. Working(as, m.seq)
  <2>1. Working(ms, s.last) BY <1>3 DEF Snapshot
  <2>2. /\ ms = <<>> => m.role = "system" /\ m.seq = 1
        /\ ms # <<>> => m.role # "system"
        /\ m.seq > s.last /\ m.src = {m.seq}
    BY <1>3 DEF Fresh
  <2> QED BY <1>1, <1>4, <2>1, <2>2, AppendWorks
<1>8. Archived(as)
  <2>1. Archived(ms) BY <1>3 DEF Snapshot
  <2>2. ASSUME NEW i \in DOMAIN as, as[i].body = "cleared" \/ as[i].art PROVE Stored(as[i].seq)
    <3>1. CASE i \in DOMAIN ms BY <1>6, <2>1, <2>2, <3>1 DEF Archived
    <3>2. CASE i = n + 1
      <4>1. as[i] = m BY <1>6, <3>2
      <4> QED BY <2>2, <4>1 DEF Fresh
    <3> QED BY <1>6, <3>1, <3>2
  <2> QED BY <2>2 DEF Archived
<1>9. Snapshot(c)
  <2>1. c.msgs = as /\ c.gen # 0 BY <1>2, <1>3, <1>4 DEF Snapshot
  <2> QED BY <1>2, <1>7, <1>8, <2>1 DEF Snapshot
<1>10. m.seq \in Nat BY Fields
<1>11. c \in Sessions
  <2>1. Append(s.msgs, m) \in Seq(Messages) BY <1>3, <1>4, <1>6
  <2> QED BY <1>10, <2>1 DEF Sessions, Grown
<1>12. c.rev = 0 <=> Len(c.msgs) = 1 BY <1>2, <1>3, <1>4, <1>5, <1>6
<1> QED BY <1>2, <1>3, <1>4, <1>6, <1>9, <1>11, <1>12

\* A candidate that is committed
LEMMA CommittedSession ==
  ASSUME NEW c \in Sessions, Snapshot(c), NEW n \in Nat, NEW d, d = [c EXCEPT !.rev = n + 1]
  PROVE  /\ d \in Sessions /\ Snapshot(d) /\ d.rev = n + 1 /\ d.rev # 0 /\ d.msgs = c.msgs /\ d.last = c.last
         /\ d = [rev |-> n + 1, gen |-> c.gen, last |-> c.last, msgs |-> c.msgs]
<1>1. d.rev = n + 1 /\ d.gen = c.gen /\ d.last = c.last /\ d.msgs = c.msgs BY DEF Sessions
<1>2. d = [rev |-> n + 1, gen |-> c.gen, last |-> c.last, msgs |-> c.msgs] BY DEF Sessions
<1>3. d \in Sessions BY DEF Sessions
<1>4. d.rev # 0 BY <1>1
<1> QED BY <1>1, <1>2, <1>3, <1>4 DEF Snapshot

\* The session that a run holds once its message is stored
LEMMA AppendLands ==
  ASSUME IInv, ~gone, NEW c \in Sessions, Snapshot(c), c.msgs # <<>>, c.rev = 0 <=> Len(c.msgs) = 1,
         c.rev = run.sess.rev, NEW m, c.msgs = Append(run.sess.msgs, m), Last(c.msgs) = m,
         CreateAllowed(c), CommitCreateMessage(c), UNCHANGED <<artifacts, wiped, gone>>,
         NEW d, d = [rev |-> c.rev + 1, gen |-> c.gen, last |-> c.last, msgs |-> c.msgs]
  PROVE  Behind(d)' /\ original' = Append(original, m)
<1>1. TypeOK /\ Rows /\ NothingForgotten /\ Behind(run.sess) BY DEF IInv, InStep
<1>2. /\ Moved /\ c.rev = ctx.rev /\ original' = Append(original, Last(c.msgs))
      /\ GetRequestContext' = [rev |-> c.rev + 1, gen |-> c.gen, last |-> c.last,
                               msgs |-> Append(memory[ctx.gen], Last(c.msgs))]
  BY <1>1, CreateMoves
<1>3. run.sess.msgs = memory[ctx.gen] BY <1>1, <1>2 DEF Behind, GetRequestContext
<1>4. d = GetRequestContext' BY <1>2, <1>3
<1>5. d.rev = ctx'.rev /\ d.last = ctx'.last /\ ctx'.rev \in Nat /\ ctx'.last \in Nat
  BY <1>2, <1>4 DEF GetRequestContext, Moved
<1>6. d.rev <= ctx'.rev /\ d.last <= ctx'.last BY <1>5
<1>7. Behind(d)' BY <1>4, <1>6 DEF Behind
<1>8. original' = Append(original, m) BY <1>2
<1> QED BY <1>7, <1>8

\* What an action that appends asks the run to do next
Proceeds(m, next) ==
  /\ RunTyped(next) /\ next.pc \in {"recover", "prepare", "tools", "finish"}
  /\ next.pc = "tools" => next.todo # <<>>
  /\ next.pc # "finish" => next.err = "none"
  /\ next.pc = "finish" /\ next.err = "none" /\ next.reason = "stop" =>
       IsAssistant(m) /\ m.calls = <<>> /\ m.stop

Holding(next, d) == [next EXCEPT !.sess = d, !.seq = 0]

\* The run after its message is stored
LEMMA Proceeded ==
  ASSUME NEW m, NEW next, Proceeds(m, next), NEW d \in Sessions, Snapshot(d), d.rev # 0, d.msgs # <<>>,
         NEW w, w = Holding(next, d)
  PROVE  /\ Ready(w) /\ w.sess = d /\ w.pc = next.pc /\ w.err = next.err /\ w.reason = next.reason
         /\ w.todo = next.todo /\ w.streak = next.streak /\ w.cut = next.cut
<1>1. DOMAIN next = {"pc", "resume", "sess", "chat", "seq", "reason", "err", "cand", "todo", "streak", "cut", "changed"}
  BY RunFields DEF Proceeds
<1>2. /\ w.sess = d /\ w.seq = 0 /\ w.pc = next.pc /\ w.err = next.err /\ w.reason = next.reason
      /\ w.todo = next.todo /\ w.cand = next.cand /\ w.chat = next.chat /\ DOMAIN w = DOMAIN next
      /\ w.streak = next.streak /\ w.cut = next.cut
  BY <1>1 DEF Holding
<1>3. RunTyped(w) BY <1>2 DEF Proceeds, RunTyped
<1>4. HeldBy(w) BY <1>2 DEF Proceeds, HeldBy
<1> QED BY <1>2, <1>3, <1>4 DEF Ready, Proceeds

\* What a run that writes sends, and the run once the request is done
Sends(r, w) ==
  /\ Send(r, w) /\ Fits(r) /\ Ready(w)
  /\ RequestAllowed(r) /\ ApplyRequest(r) => Lands(w)

Appends(m, next) ==
  /\ Append_(m, next)
  /\ m \in Messages /\ Fresh(m, run.sess) /\ Proceeds(m, next)

\* The request with which a message is appended
LEMMA AppendSends ==
  ASSUME IInv, ~gone, NEW m, NEW next, Appends(m, next), UNCHANGED <<artifacts, wiped>>
  PROVE  \E r, w : /\ Sends(r, w)
                   /\ r.op = "create" /\ r.snap.rev = run.sess.rev /\ Last(r.snap.msgs) = m
                   /\ w.sess.msgs = Append(run.sess.msgs, m) /\ w.pc = next.pc /\ w.todo = next.todo
                   /\ w.streak = next.streak /\ w.cut = next.cut
<1>0. m \in Messages /\ Fresh(m, run.sess) /\ Proceeds(m, next) /\ Append_(m, next) BY DEF Appends
<1>1. PICK s \in Sessions : s = run.sess BY DEF IInv, TypeOK, RunTyped
<1>2. Snapshot(s) /\ (s.rev = 0 <=> s.msgs = <<>>) BY <1>1 DEF IInv, HeldBy
<1>3. PICK c : c = Grown(s, m) OBVIOUS
<1>4. c = Candidate(m) BY <1>1, <1>3 DEF Candidate, Grown
<1>5. /\ c \in Sessions /\ Snapshot(c) /\ c.msgs # <<>> /\ (c.rev = 0 <=> Len(c.msgs) = 1)
      /\ c.rev = s.rev /\ c.msgs = Append(s.msgs, m) /\ Last(c.msgs) = m
  <2>1. Fresh(m, s) BY <1>0, <1>1
  <2> QED BY <1>0, <1>2, <1>3, <2>1, Extended
<1>6. s.rev \in Nat BY SessionTyped
<1>7. PICK d : d = [c EXCEPT !.rev = s.rev + 1] OBVIOUS
<1>8. d = Committed(Candidate(m)) BY <1>1, <1>4, <1>7 DEF Committed
<1>9. /\ d \in Sessions /\ Snapshot(d) /\ d.rev # 0 /\ d.msgs = c.msgs
      /\ d = [rev |-> s.rev + 1, gen |-> c.gen, last |-> c.last, msgs |-> c.msgs]
  BY <1>5, <1>6, <1>7, CommittedSession
<1>10. PICK w : w = Holding(next, d) OBVIOUS
<1>11. PICK r : r = Request("create", c) OBVIOUS
<1>12. Send(r, w) BY <1>0, <1>4, <1>8, <1>10, <1>11 DEF Append_, Holding
<1>13. /\ Ready(w) /\ w.sess = d /\ w.pc = next.pc /\ w.err = next.err /\ w.reason = next.reason
       /\ w.todo = next.todo /\ w.streak = next.streak /\ w.cut = next.cut
  BY <1>0, <1>5, <1>9, <1>10, Proceeded
<1>14. r.op = "create" /\ r.snap = c /\ r \in Requested BY <1>5, <1>11 DEF Request, Requested
<1>15. Fits(r) BY <1>1, <1>5, <1>14 DEF Fits, Sound
<1>16. ASSUME RequestAllowed(r), ApplyRequest(r) PROVE Lands(w)
  <2>1. CreateAllowed(c) /\ CommitCreateMessage(c) BY <1>14, <1>16 DEF RequestAllowed, ApplyRequest
  <2>2. gone' = gone BY <1>12 DEF Send
  <2>3. c.rev = run.sess.rev /\ c.msgs = Append(run.sess.msgs, m) /\ d = [rev |-> c.rev + 1, gen |-> c.gen, last |-> c.last, msgs |-> c.msgs]
    BY <1>1, <1>5, <1>9
  <2>4. Behind(d)' /\ original' = Append(original, m) BY <1>5, <2>1, <2>2, <2>3, AppendLands
  <2>5. original \in Seq(Messages) BY DEF IInv, TypeOK
  <2>6. original' # <<>> /\ Last(original') = m BY <1>0, <2>4, <2>5, AppendedMessage
  <2>7. w.pc = "finish" /\ w.err = "none" /\ w.reason = "stop" => Answered'
    BY <1>0, <1>13, <2>6 DEF Proceeds, Answered
  <2>8. Behind(w.sess)' BY <1>13, <2>4 DEF Behind
  <2> QED BY <2>7, <2>8 DEF Lands
<1>17. Sends(r, w) BY <1>12, <1>13, <1>15, <1>16 DEF Sends
<1>18. r.snap.rev = run.sess.rev /\ Last(r.snap.msgs) = m /\ w.sess.msgs = Append(run.sess.msgs, m)
  BY <1>1, <1>5, <1>9, <1>13, <1>14
<1> QED BY <1>13, <1>14, <1>17, <1>18

\* Appending a message keeps the invariant
LEMMA AppendKeeps ==
  ASSUME IInv, ~gone, run.pc \in Busy, NEW m, NEW next, Appends(m, next), UNCHANGED <<artifacts, wiped, report>>
  PROVE  Upheld
<1>1. PICK r, w : Sends(r, w) BY AppendSends
<1> QED BY <1>1, SendKeeps DEF Sends

-----------------------------------------------------------------------------
(* Steps of the run that write nothing.                                    *)

\* A step that writes no row keeps the invariant
LEMMA LocalKeeps ==
  ASSUME IInv, UNCHANGED <<ctx, original, memory, reserved, kind, late, gone>>, runs' \in Nat,
         StillThere, NEW w, run' = w, RunTyped(w), HeldBy(w)',
         gone \/ Behind(w.sess) \/ w.sess = NoSession, gone => w.pc = "idle", Child'
  PROVE  Upheld
<1>1. TypeOK /\ Rows /\ NothingForgotten BY DEF IInv
<1>2. reserved' \in Nat /\ ctx' = ctx /\ memory' = memory /\ original' = original /\ gone' = gone /\ late' = late
  BY <1>1 DEF TypeOK
<1>3. Moved /\ Preserved BY <1>1, <1>2, RowsStay
<1>4. Advances BY <1>2 DEF Advances
<1>5. \A r \in late' : r \in Requested /\ Sound(r)' /\ Timely(r)' BY <1>2, <1>4, LateKept
<1>6. gone \/ Behind(run.sess)'
  <2>1. CASE gone BY <2>1
  <2>2. CASE Behind(w.sess) BY <1>2, <2>2 DEF Behind, GetRequestContext
  <2>3. CASE w.sess = NoSession
    <3>1. Behind(NoSession)' BY <1>3, NothingIsBehind
    <3> QED BY <2>3, <3>1 DEF Behind
  <2> QED BY <2>1, <2>2, <2>3
<1>7. HeldBy(run)' BY DEF HeldBy
<1>8. Kept BY <1>5, <1>6, <1>7 DEF Kept
<1> QED BY <1>3, <1>8, PartsKept DEF Upheld

\* A session whose run goes on is not deleted
LEMMA BusyIsHere ==
  ASSUME IInv, run.pc # "idle"
  PROVE  ~gone /\ Behind(run.sess)
BY DEF IInv, InStep

\* The steps of a run that neither start nor report it
LEMMA RunKeeps ==
  ASSUME IInv, run.pc \in Busy, UNCHANGED <<storeVars, kind, late, gone, runs, report>>,
         StillThere, NEW w, run' = w, RunTyped(w), HeldBy(w)',
         w.sess = run.sess \/ w.sess = GetRequestContext,
         (w.pc \notin {"idle", "finish"} /\ w.err = "none") \/ (w.pc = "finish" /\ w.err # "none")
  PROVE  Upheld
<1>1. run.pc # "idle" BY DEF Busy
<1>2. ~gone /\ Behind(run.sess) /\ Child /\ runs \in Nat /\ TypeOK BY <1>1, BusyIsHere DEF IInv, TypeOK
<1>3. Behind(GetRequestContext)
  <2>1. ctx.rev \in Nat /\ ctx.last \in Nat BY <1>2, HeadTyped
  <2> QED BY <2>1 DEF Behind, GetRequestContext
<1>4. Behind(w.sess) BY <1>2, <1>3
<1>5. Child'
  <2>1. CASE w.pc \notin {"idle", "finish"} /\ w.err = "none" BY <1>2, <2>1, ChildAfterAnswer
  <2>2. CASE w.pc = "finish" /\ w.err # "none" BY <1>2, <2>2, ChildAfterFailure
  <2> QED BY <2>1, <2>2
<1>6. runs' \in Nat /\ UNCHANGED <<ctx, original, memory, reserved>> BY <1>2 DEF storeVars
<1> QED BY <1>2, <1>4, <1>5, <1>6, LocalKeeps

\* Changing what the invariant does not speak of
LEMMA Resteps ==
  ASSUME NEW v, RunTyped(v), HeldBy(v), NEW w, DOMAIN w = DOMAIN v,
         w.sess = v.sess, w.seq = v.seq, w.chat \in Nat, w.cand = v.cand, w.todo = v.todo, w.err = v.err,
         w.pc \in {"user", "prepare", "reply", "finish"},
         w.pc # "finish" => v.sess.msgs # <<>>
  PROVE  RunTyped(w) /\ HeldBy(w)
<1>1. RunTyped(w) BY DEF RunTyped
<1>2. HeldBy(w) BY DEF HeldBy
<1> QED BY <1>1, <1>2

\* Loading the session
LEMMA InitSessionKeeps ==
  ASSUME IInv, InitSession
  PROVE  Upheld
<1>1. /\ run.pc = "load" /\ UNCHANGED <<storeVars, kind, late, artifacts, wiped, report, runs, gone>> BY DEF InitSession, At
<1>2. TypeOK /\ Rows /\ RunTyped(run) /\ HeldBy(run) /\ Child BY DEF IInv, TypeOK
<1>3. PICK v : v = run OBVIOUS
<1>4. PICK c : c = GetRequestContext OBVIOUS
<1>5. PICK w : w = run' OBVIOUS
<1>6. run.pc \in Busy /\ StillThere BY <1>1, ArtifactsStay DEF Busy, IInv
<1>7. CASE w = [v EXCEPT !.pc = "sys", !.sess = c]
  <2>1. DOMAIN v = {"pc", "resume", "sess", "chat", "seq", "reason", "err", "cand", "todo", "streak", "cut", "changed"}
    BY <1>2, <1>3, RunFields
  <2>2. /\ w.pc = "sys" /\ w.sess = c /\ w.seq = v.seq /\ w.chat = v.chat /\ w.cand = v.cand /\ w.todo = v.todo
        /\ w.err = v.err /\ DOMAIN w = DOMAIN v
    BY <1>7, <2>1
  <2>3. ctx.gen \in DOMAIN memory /\ ctx.gen \in Nat \ {0} /\ memory[ctx.gen] \in Seq(Messages) BY <1>2, Generations
  <2>4. /\ c.rev = ctx.rev /\ c.gen = ctx.gen /\ c.last = ctx.last /\ c.msgs = memory[ctx.gen]
    BY <1>4 DEF GetRequestContext
  <2>5. c \in Sessions BY <1>2, <1>4, <2>3, HeadTyped DEF GetRequestContext, Sessions
  <2>6. Snapshot(c) /\ (c.rev = 0 <=> c.msgs = <<>>) BY <1>2, <2>3, <2>4 DEF Rows, Snapshot
  <2>7. v.seq = 0 /\ v.err = "none" BY <1>1, <1>2, <1>3 DEF HeldBy, Child
  <2>8. RunTyped(w) BY <1>2, <1>3, <2>2, <2>5 DEF RunTyped
  <2>9. HeldBy(w) BY <2>2, <2>6, <2>7 DEF HeldBy
  <2>10. HeldBy(w)' BY <1>6, <2>9, HeldStays
  <2> QED BY <1>1, <1>4, <1>5, <1>6, <2>2, <2>7, <2>8, <2>10, RunKeeps
<1>8. CASE w = Ended(v, "failed")
  <2>1. RunTyped(w) /\ HeldBy(w) /\ w.pc = "finish" /\ w.err = "failed" /\ w.sess = v.sess
    BY <1>2, <1>3, <1>8, EndingHeld
  <2>2. HeldBy(w)' BY <1>6, <2>1, HeldStays
  <2> QED BY <1>1, <1>3, <1>5, <1>6, <2>1, <2>2, RunKeeps
<1> QED BY <1>3, <1>4, <1>5, <1>7, <1>8 DEF InitSession, Ending, Ended

\* Giving up
LEMMA EndKeeps ==
  ASSUME IInv, run.pc \in Busy, UNCHANGED <<storeVars, kind, late, gone, runs, report>>,
         StillThere, run' = Ending("failed")
  PROVE  Upheld
<1>1. RunTyped(run) /\ HeldBy(run) BY DEF IInv, TypeOK
<1>2. PICK v : v = run OBVIOUS
<1>3. PICK w : w = run' OBVIOUS
<1>4. w = Ended(v, "failed") BY <1>2, <1>3 DEF Ending, Ended
<1>5. RunTyped(w) /\ HeldBy(w) /\ w.pc = "finish" /\ w.err = "failed" /\ w.sess = v.sess
  BY <1>1, <1>2, <1>4, EndingHeld
<1>6. HeldBy(w)' BY <1>5, HeldStays
<1> QED BY <1>2, <1>3, <1>5, <1>6, RunKeeps

\* Nothing more to recover
LEMMA RecoveredKeeps ==
  ASSUME IInv, Recovered
  PROVE  Upheld
<1>1. run.pc = "recover" /\ UNCHANGED <<storeVars, kind, late, artifacts, wiped, report, runs, gone>> BY DEF Recovered, At
<1>2. run.pc \in Busy /\ StillThere BY <1>1, ArtifactsStay DEF Busy, IInv
<1>3. CASE run' = Ending("failed") BY <1>1, <1>2, <1>3, EndKeeps
<1>4. CASE \/ run' = [run EXCEPT !.pc = "user"]
           \/ run' = [run EXCEPT !.pc = "prepare", !.streak = recentToolStreak(run.sess.msgs)]
  <2>1. RunTyped(run) /\ HeldBy(run) /\ Child BY DEF IInv, TypeOK
  <2>2. PICK v : v = run OBVIOUS
  <2>3. PICK w : w = run' OBVIOUS
  <2>4. PICK streak : streak = recentToolStreak(run.sess.msgs) OBVIOUS
  <2>5. \/ w = [v EXCEPT !.pc = "user"]
        \/ w = [v EXCEPT !.pc = "prepare", !.streak = streak]
    BY <1>4, <2>2, <2>3, <2>4
  <2>6. DOMAIN v = {"pc", "resume", "sess", "chat", "seq", "reason", "err", "cand", "todo", "streak", "cut", "changed"}
    BY <2>1, <2>2, RunFields
  <2>7. /\ DOMAIN w = DOMAIN v /\ w.sess = v.sess /\ w.seq = v.seq /\ w.chat = v.chat /\ w.cand = v.cand
        /\ w.todo = v.todo /\ w.err = v.err /\ w.pc \in {"user", "prepare"}
    BY <2>5, <2>6
  <2>8. v.sess.msgs # <<>> /\ v.chat \in Nat /\ v.err = "none"
    BY <1>1, <2>1, <2>2 DEF HeldBy, RunTyped, Child
  <2>9. RunTyped(v) /\ HeldBy(v) BY <2>1, <2>2
  <2>10. RunTyped(w) /\ HeldBy(w)
    <3>1. w.chat \in Nat /\ w.pc \in {"user", "prepare", "reply", "finish"} BY <2>7, <2>8
    <3> QED BY <2>7, <2>8, <2>9, <3>1, Resteps
  <2>11. HeldBy(w)' BY <1>2, <2>10, HeldStays
  <2>12. w.pc \notin {"idle", "finish"} /\ w.err = "none" BY <2>7, <2>8
  <2> QED BY <1>1, <1>2, <2>2, <2>3, <2>7, <2>10, <2>11, <2>12, RunKeeps
<1> QED BY <1>3, <1>4 DEF Recovered

\* A failure before the next write
LEMMA FailKeeps ==
  ASSUME IInv, Fail
  PROVE  Upheld
<1>1. UNCHANGED <<storeVars, kind, late, artifacts, wiped, report, runs, gone>> BY DEF Fail
<1>2. RunTyped(run) /\ HeldBy(run) BY DEF IInv, TypeOK
<1>3. run.pc \in Busy /\ StillThere BY <1>1, <1>2, ArtifactsStay DEF Busy, Fail, RunTyped, IInv
<1>4. PICK why \in {"failed", "cancelled"} : \E x : run' = [Ending(why) EXCEPT !.changed = x]
  <2>1. PICK ran \in BOOLEAN, why \in IF kind = "child" THEN {"failed", "cancelled"} ELSE {"failed"} :
          run' = [Ending(why) EXCEPT !.changed = @ \/ ran]
    BY DEF Fail
  <2>2. why \in {"failed", "cancelled"} BY <2>1
  <2>3. run' = [Ending(why) EXCEPT !.changed = Ending(why).changed \/ ran] BY <2>1
  <2> QED BY <2>2, <2>3
<1>5. PICK v : v = run OBVIOUS
<1>6. PICK e : e = Ended(v, why) OBVIOUS
<1>7. PICK w : w = run' OBVIOUS
<1>8. PICK x : w = [e EXCEPT !.changed = x] BY <1>4, <1>5, <1>6, <1>7 DEF Ending, Ended
<1>9. RunTyped(e) /\ HeldBy(e) /\ e.pc = "finish" /\ e.err = why /\ e.sess = v.sess
  BY <1>2, <1>5, <1>6, EndingHeld
<1>10. DOMAIN e = {"pc", "resume", "sess", "chat", "seq", "reason", "err", "cand", "todo", "streak", "cut", "changed"}
  BY <1>9, RunFields
<1>11. /\ DOMAIN w = DOMAIN e /\ w.pc = e.pc /\ w.sess = e.sess /\ w.seq = e.seq /\ w.chat = e.chat
       /\ w.cand = e.cand /\ w.todo = e.todo /\ w.err = e.err
  BY <1>8, <1>10
<1>12. e.chat \in Nat BY <1>9 DEF RunTyped
<1>13. RunTyped(w) /\ HeldBy(w)
  <2>1. w.chat \in Nat /\ w.pc \in {"user", "prepare", "reply", "finish"} BY <1>9, <1>11, <1>12
  <2>2. w.pc = "finish" BY <1>9, <1>11
  <2> QED BY <1>9, <1>11, <2>1, <2>2, Resteps
<1>14. HeldBy(w)' BY <1>3, <1>13, HeldStays
<1>15. w.pc = "finish" /\ w.err # "none" BY <1>4, <1>9, <1>11
<1>16. w.sess = run.sess BY <1>5, <1>9, <1>11
<1> QED BY <1>1, <1>3, <1>7, <1>13, <1>14, <1>15, <1>16, RunKeeps

\* Compaction up to its commit
LEMMA PrepareContextKeeps ==
  ASSUME IInv, PrepareContext
  PROVE  Upheld
<1> DEFINE cands(ms) == IF InputTokens(compactLocally(ms)) <= TargetTokens THEN {compactLocally(ms)}
                        ELSE compactWithSummary(compactLocally(ms), ProtectedStart(ms))
<1>1. run.pc = "prepare" /\ UNCHANGED <<storeVars, kind, late, wiped, report, runs, gone>> BY DEF PrepareContext, At
<1>2. run.pc \in Busy BY <1>1 DEF Busy
<1>3. RunTyped(run) /\ HeldBy(run) /\ Child BY DEF IInv, TypeOK
<1>4. PICK v : v = run OBVIOUS
<1>5. PICK w : w = run' OBVIOUS
<1>6. PICK ms : ms = v.sess.msgs OBVIOUS
<1>7. /\ RunTyped(v) /\ HeldBy(v) /\ v.sess \in Sessions /\ ms # <<>> /\ v.err = "none"
  BY <1>1, <1>3, <1>4, <1>6 DEF HeldBy, RunTyped, Child
<1>8. /\ v.sess.last \in Nat /\ ms \in Seq(Messages) /\ Working(ms, v.sess.last) /\ Archived(ms)
  BY <1>6, <1>7, SessionTyped DEF HeldBy, Snapshot
<1>9. DOMAIN v = {"pc", "resume", "sess", "chat", "seq", "reason", "err", "cand", "todo", "streak", "cut", "changed"}
  BY <1>7, RunFields
<1>10. CASE artifacts' = artifacts /\ w = [v EXCEPT !.pc = "reply"]
  <2>1. /\ DOMAIN w = DOMAIN v /\ w.sess = v.sess /\ w.seq = v.seq /\ w.chat = v.chat /\ w.cand = v.cand
        /\ w.todo = v.todo /\ w.err = v.err /\ w.pc = "reply"
    BY <1>9, <1>10
  <2>2. w.chat \in Nat /\ w.pc \in {"user", "prepare", "reply", "finish"} BY <1>7, <2>1 DEF RunTyped
  <2>3. RunTyped(w) /\ HeldBy(w) BY <1>6, <1>7, <2>1, <2>2, Resteps
  <2>4. StillThere BY <1>1, <1>10, ArtifactsStay DEF IInv
  <2>5. HeldBy(w)' BY <2>3, <2>4, HeldStays
  <2>6. w.pc \notin {"idle", "finish"} /\ w.err = "none" BY <1>7, <2>1
  <2> QED BY <1>1, <1>2, <1>4, <1>5, <2>1, <2>3, <2>4, <2>5, <2>6, RunKeeps
<1>11. CASE /\ artifacts' = artifacts \cup {ms[i].seq : i \in ArtifactCandidates(ms)}
            /\ \E msgs \in cands(ms) : w = [v EXCEPT !.pc = "advance", !.cand = msgs]
  <2>1. PICK msgs \in cands(ms) : w = [v EXCEPT !.pc = "advance", !.cand = msgs] BY <1>11
  <2>2. /\ msgs \in Seq(Messages) /\ msgs # <<>> /\ Working(msgs, v.sess.last) /\ Sources(msgs) = Sources(ms)
        /\ \A i \in DOMAIN msgs : msgs[i].body = "cleared" \/ msgs[i].art =>
             \E j \in DOMAIN ms : /\ msgs[i].seq = ms[j].seq
                                  /\ ms[j].body = "cleared" \/ ms[j].art \/ j \in ArtifactCandidates(ms)
    BY <1>7, <1>8, <2>1, CompactedMessages
  <2>3. StillThere
    <3>1. wiped' \in BOOLEAN BY <1>1 DEF IInv, TypeOK
    <3>2. \A seq : Stored(seq) => Stored(seq)' BY <1>1, <1>11 DEF Stored
    <3> QED BY <3>1, <3>2 DEF StillThere
  <2>4. Archived(msgs)'
    <3>1. \A j \in DOMAIN ms : ms[j].body = "cleared" \/ ms[j].art \/ j \in ArtifactCandidates(ms) => Stored(ms[j].seq)'
      BY <1>8, <1>11, <2>3 DEF Archived, StillThere, Stored
    <3> QED BY <2>2, <3>1 DEF Archived
  <2>5. /\ DOMAIN w = DOMAIN v /\ w.sess = v.sess /\ w.seq = v.seq /\ w.chat = v.chat /\ w.cand = msgs
        /\ w.todo = v.todo /\ w.err = v.err /\ w.pc = "advance"
    BY <1>9, <2>1
  <2>6. RunTyped(w) BY <1>7, <2>2, <2>5 DEF RunTyped
  <2>7. HeldBy(w)'
    <3>1. HeldBy(v)' BY <1>7, <2>3, HeldStays
    <3>2. Snapshot(w.sess)' /\ (w.sess.rev = 0 <=> w.sess.msgs = <<>>) /\ (w.seq # 0 => w.seq > w.sess.last)
      BY <2>5, <3>1 DEF HeldBy
    <3>3. w.sess.msgs # <<>> /\ w.cand # <<>> /\ Working(w.cand, w.sess.last) /\ Archived(w.cand)'
          /\ Sources(w.cand) = Sources(w.sess.msgs)
      BY <1>6, <1>7, <2>2, <2>4, <2>5 DEF Archived
    <3> QED BY <2>5, <3>2, <3>3 DEF HeldBy
  <2>8. w.pc \notin {"idle", "finish"} /\ w.err = "none" BY <1>7, <2>5
  <2>9. w.sess = run.sess BY <1>4, <2>5
  <2> QED BY <1>1, <1>2, <1>5, <2>3, <2>6, <2>7, <2>8, <2>9, RunKeeps
<1>12. CASE /\ \E n \in 0..Len(ms) : artifacts' = artifacts \cup {ms[i].seq : i \in ArtifactCandidates(ms) \cap 1..n}
            /\ run' = Ending("failed")
  <2>1. wiped' \in BOOLEAN BY <1>1 DEF IInv, TypeOK
  <2>2. \A seq : Stored(seq) => Stored(seq)' BY <1>1, <1>12 DEF Stored
  <2>3. StillThere BY <2>1, <2>2 DEF StillThere
  <2> QED BY <1>1, <1>2, <1>12, <2>3, EndKeeps
<1>13. ArtifactCandidates(ms) \cap 1..Len(ms) = ArtifactCandidates(ms)
  <2>1. DOMAIN ms = 1..Len(ms) BY <1>8, Positions
  <2> QED BY <2>1 DEF ArtifactCandidates, Results
<1>14. ms = run.sess.msgs BY <1>4, <1>6
<1> DEFINE archive(ss, n) == artifacts' = artifacts \cup {ss[i].seq : i \in ArtifactCandidates(ss) \cap 1..n}
<1>15. \/ artifacts' = artifacts /\ run' = [run EXCEPT !.pc = "reply"]
       \/ /\ archive(run.sess.msgs, Len(run.sess.msgs))
          /\ \E msgs \in cands(run.sess.msgs) : run' = [run EXCEPT !.pc = "advance", !.cand = msgs]
       \/ (\E n \in 0..Len(run.sess.msgs) : archive(run.sess.msgs, n)) /\ run' = Ending("failed")
  BY ZenonT(30) DEF PrepareContext
<1>16. archive(ms, Len(ms)) => artifacts' = artifacts \cup {ms[i].seq : i \in ArtifactCandidates(ms)} BY <1>13
<1>17. CASE artifacts' = artifacts /\ run' = [run EXCEPT !.pc = "reply"] BY <1>4, <1>5, <1>10, <1>17
<1>18. CASE /\ archive(ms, Len(ms))
            /\ \E msgs \in cands(ms) : run' = [run EXCEPT !.pc = "advance", !.cand = msgs]
  <2> HIDE DEF archive, cands
  <2> QED BY <1>4, <1>5, <1>11, <1>16, <1>18
<1> HIDE DEF cands
<1>19. CASE (\E n \in 0..Len(ms) : archive(ms, n)) /\ run' = Ending("failed") BY <1>12, <1>19
<1> HIDE DEF archive
<1> QED BY <1>14, <1>15, <1>17, <1>18, <1>19

-----------------------------------------------------------------------------
(* Runs that begin and end.                                                *)

\* A run that begins holds nothing
LEMMA StartedHeld ==
  ASSUME NEW resume, NEW w, w = [Idle EXCEPT !.pc = "load", !.resume = resume] \/ w = [Idle EXCEPT !.pc = "load"]
  PROVE  RunTyped(w) /\ HeldBy(w) /\ w.pc = "load" /\ w.err = "none" /\ w.sess = NoSession
<1>1. PICK v : v = Idle OBVIOUS
<1>2. RunTyped(v) /\ HeldBy(v) /\ v.pc = "idle" /\ v.err = "none" /\ v.sess = NoSession /\ v.seq = 0
  BY <1>1, IdleHeld DEF Idle
<1>3. DOMAIN v = {"pc", "resume", "sess", "chat", "seq", "reason", "err", "cand", "todo", "streak", "cut", "changed"}
  BY <1>2, RunFields
<1>4. /\ DOMAIN w = DOMAIN v /\ w.pc = "load" /\ w.sess = v.sess /\ w.seq = v.seq /\ w.chat = v.chat
      /\ w.cand = v.cand /\ w.todo = v.todo /\ w.err = v.err
  BY <1>1, <1>3
<1>5. RunTyped(w) BY <1>2, <1>4 DEF RunTyped
<1>6. HeldBy(w) BY <1>2, <1>4 DEF HeldBy
<1> QED BY <1>2, <1>4, <1>5, <1>6

\* A chat or a resume begins
LEMMA StartRunKeeps ==
  ASSUME IInv, NEW resume \in BOOLEAN, StartRun(resume)
  PROVE  Upheld
<1>1. /\ kind = "chat" /\ ~gone /\ UNCHANGED <<ctx, original, memory, reserved, kind, late, gone, artifacts, wiped, report>>
  BY DEF StartRun, storeVars
<1>2. Child /\ runs \in Nat BY DEF IInv, TypeOK
<1>3. PICK w : w = run' OBVIOUS
<1>4. w = [Idle EXCEPT !.pc = "load", !.resume = resume] BY <1>3 DEF StartRun
<1>5. RunTyped(w) /\ HeldBy(w) /\ w.pc = "load" /\ w.err = "none" /\ w.sess = NoSession BY <1>4, StartedHeld
<1>6. StillThere BY <1>1, ArtifactsStay DEF IInv
<1>7. HeldBy(w)' BY <1>5, <1>6, HeldStays
<1>8. Child' BY <1>1, <1>2, <1>3, <1>5 DEF Child
<1>9. runs' \in Nat BY <1>2 DEF StartRun
<1> QED BY <1>1, <1>3, <1>5, <1>6, <1>7, <1>8, <1>9, LocalKeeps

\* A sub-agent begins
LEMMA ExecuteKeeps ==
  ASSUME IInv, Execute
  PROVE  Upheld
<1>1. /\ kind = "child" /\ runs = 0 /\ runs' = 1
      /\ UNCHANGED <<ctx, original, memory, reserved, kind, late, gone, artifacts, wiped, report>>
  BY DEF Execute, storeVars
<1>2. Child BY DEF IInv
<1>3. ~gone /\ late = {} /\ report = "none" BY <1>1, <1>2 DEF Child
<1>4. PICK w : w = run' OBVIOUS
<1>5. w = [Idle EXCEPT !.pc = "load"] BY <1>4 DEF Execute
<1>6. RunTyped(w) /\ HeldBy(w) /\ w.pc = "load" /\ w.err = "none" /\ w.sess = NoSession BY <1>5, StartedHeld
<1>7. StillThere BY <1>1, ArtifactsStay DEF IInv
<1>8. HeldBy(w)' BY <1>6, <1>7, HeldStays
<1>9. Child' BY <1>1, <1>3, <1>4, <1>6 DEF Child
<1>10. runs' \in Nat BY <1>1
<1> QED BY <1>1, <1>3, <1>4, <1>6, <1>7, <1>8, <1>9, <1>10, LocalKeeps

\* A run is over
LEMMA RestKeeps ==
  ASSUME IInv, UNCHANGED <<ctx, original, memory, reserved, kind, late, gone, runs, artifacts, wiped>>, run' = Idle, Child'
  PROVE  Upheld
<1>1. PICK w : w = run' OBVIOUS
<1>2. RunTyped(w) /\ HeldBy(w) /\ w.pc = "idle" /\ w.sess = NoSession BY <1>1, IdleHeld
<1>3. StillThere BY ArtifactsStay DEF IInv
<1>5. runs' \in Nat BY DEF IInv, TypeOK
<1>4. HeldBy(w)' BY <1>2, <1>3, HeldStays
<1> QED BY <1>1, <1>2, <1>3, <1>4, <1>5, LocalKeeps

\* The process dies
LEMMA CrashKeeps ==
  ASSUME IInv, Crash
  PROVE  Upheld
<1>1. /\ run.pc # "idle" /\ run' = Idle
      /\ UNCHANGED <<ctx, original, memory, reserved, kind, late, gone, runs, artifacts, wiped, report>>
  BY DEF Crash, At, storeVars
<1>2. Child BY DEF IInv
<1>3. kind = "child" => ~gone /\ runs # 0 /\ report = "none" BY <1>1, <1>2 DEF Child
<1>4. run'.pc = "idle" /\ run'.err = "none" BY <1>1, IdleHeld
<1>5. Child' BY <1>1, <1>2, <1>3, <1>4 DEF Child
<1> QED BY <1>1, <1>5, RestKeeps

\* A chat or a resume ends
LEMMA FinishRunKeeps ==
  ASSUME IInv, FinishRun
  PROVE  Upheld
<1>1. /\ kind = "chat" /\ run' = Idle
      /\ UNCHANGED <<ctx, original, memory, reserved, kind, late, gone, runs, artifacts, wiped, report>>
  BY DEF FinishRun, UpsertChatFiles, storeVars
<1>2. Child BY DEF IInv
<1>3. run'.pc = "idle" /\ run'.err = "none" BY <1>1, IdleHeld
<1>4. Child' BY <1>1, <1>2, <1>3 DEF Child
<1> QED BY <1>1, <1>4, RestKeeps

\* The parent gets its report
LEMMA FinishSubAgentKeeps ==
  ASSUME IInv, FinishSubAgent
  PROVE  Upheld
<1>1. /\ kind = "child" /\ run.pc = "finish" /\ run' = Idle
      /\ UNCHANGED <<ctx, original, memory, reserved, kind, late, gone, runs, artifacts, wiped>>
  BY DEF FinishSubAgent, At, storeVars
<1>2. Child /\ run.err \in {"none", "failed", "cancelled"} BY DEF IInv, TypeOK, RunTyped
<1>3. run'.pc = "idle" /\ run'.err = "none" BY <1>1, IdleHeld
<1>4. report' = "complete" => run.err = "none" /\ run.reason = "stop"
  <2>1. report' = "error" \/ report' = classifySubAgentRun BY DEF FinishSubAgent
  <2>2. classifySubAgentRun = "complete" => run.err = "none" /\ run.reason = "stop"
    <3>1. CASE run.err # "none" BY <1>2, <3>1 DEF classifySubAgentRun
    <3>2. CASE run.err = "none" /\ run.reason = "stop" BY <3>2
    <3>3. CASE run.err = "none" /\ run.reason # "stop" BY <3>3 DEF classifySubAgentRun
    <3> QED BY <3>1, <3>2, <3>3
  <2> QED BY <2>1, <2>2
<1>5. ~gone /\ runs # 0 /\ (late # {} => run.err # "none") BY <1>1, <1>2 DEF Child
<1>6. report' = "complete" => Answered' BY <1>1, <1>2, <1>4 DEF Child, Answered
<1>7. late # {} => report' # "complete" BY <1>4, <1>5
<1>8. Child' BY <1>1, <1>3, <1>5, <1>6, <1>7 DEF Child
<1> QED BY <1>1, <1>8, RestKeeps

\* The session is deleted
LEMMA DeleteKeeps ==
  ASSUME IInv, Delete
  PROVE  Upheld
<1>1. /\ kind = "chat" /\ run.pc = "idle" /\ ~gone /\ gone' = TRUE /\ UNCHANGED <<kind, run, late, wiped, report, runs>>
      /\ ctx' = NoRow /\ original' = <<>> /\ memory' = << <<>> >> /\ reserved' = 0
  BY DEF Delete, At, DeleteSession
<1>2. TypeOK /\ HeldBy(run) /\ Child /\ Requests BY DEF IInv
<1>3. ctx'.exists = FALSE /\ ctx'.rev = 0 /\ ctx'.gen = 1 /\ ctx'.last = 0 BY <1>1 DEF NoRow
<1>4. ctx' \in [exists : BOOLEAN, rev : Nat, gen : Nat, last : Nat] BY <1>1 DEF NoRow
<1>5. /\ original' \in Seq(Messages) /\ memory' \in Seq(Seq(Messages)) /\ Len(memory') = 1 /\ memory' # <<>>
      /\ DOMAIN memory' = {1} /\ memory'[1] = <<>>
  BY <1>1
<1>0. StillThere
  <2>1. wiped' \in BOOLEAN BY <1>1, <1>2 DEF TypeOK
  <2>2. \A seq : Stored(seq)' BY <1>1 DEF Stored
  <2> QED BY <2>1, <2>2 DEF StillThere
<1>6. TypeOK' BY <1>1, <1>2, <1>3, <1>4, <1>5 DEF TypeOK
<1>7. Rows'
  <2>1. Working(<<>>, 0) BY DEF Working
  <2>2. Archived(<<>>)' BY DEF Archived
  <2>3. (\A g \in DOMAIN memory : Archived(memory[g]))' BY <1>5, <2>2 DEF Archived
  <2>4. memory'[ctx'.gen] = <<>> BY <1>3, <1>5
  <2> QED BY <1>1, <1>3, <2>1, <2>3, <2>4 DEF Rows
<1>8. Requests'
  <2>1. StillThere BY <1>0
  <2>2. ASSUME NEW r \in late PROVE Sound(r)' /\ Timely(r)'
    <3>1. Sound(r) BY <1>2 DEF Requests
    <3> QED BY <1>1, <2>1, <3>1, SoundKept DEF Timely
  <2> QED BY <1>1, <2>2 DEF Requests
<1>9. HeldBy(run)'
  <2>1. PICK w : w = run OBVIOUS
  <2>2. StillThere /\ HeldBy(w) BY <1>2, <1>0, <2>1
  <2>3. HeldBy(w)' BY <2>2, HeldStays
  <2> QED BY <1>1, <2>1, <2>3 DEF HeldBy
<1>10. InStep' BY <1>1 DEF InStep
<1>11. NothingForgotten' BY <1>1 DEF NothingForgotten
<1>12. Child' BY <1>1, <1>2 DEF Child
<1>13. IInv' BY <1>6, <1>7, <1>8, <1>9, <1>10, <1>11, <1>12 DEF IInv
<1> QED BY <1>1, <1>13 DEF Upheld

\* A deletion fails part-way
LEMMA DeleteFailsKeeps ==
  ASSUME IInv, DeleteFails
  PROVE  Upheld
<1>1. wiped' = TRUE /\ UNCHANGED <<ctx, original, memory, reserved, kind, late, gone, runs, report, run>>
  BY DEF DeleteFails, storeVars
<1>2. StillThere BY <1>1 DEF StillThere, Stored
<1>3. PICK w : w = run OBVIOUS
<1>4. RunTyped(w) /\ HeldBy(w) /\ Child /\ runs \in Nat BY <1>3 DEF IInv, TypeOK
<1>5. HeldBy(w)' BY <1>2, <1>4, HeldStays
<1>6. Child' BY <1>1, <1>4 DEF Child, Answered
<1>7. (gone \/ Behind(w.sess)) /\ (gone => w.pc = "idle") BY <1>3 DEF IInv, InStep
<1> QED BY <1>1, <1>2, <1>3, <1>4, <1>5, <1>6, <1>7, LocalKeeps

\* A late request arrives
LEMMA DeliverLateKeeps ==
  ASSUME IInv, NEW r \in late, DeliverLate(r)
  PROVE  Upheld
<1>1. /\ late' = late \ {r} /\ UNCHANGED <<kind, run, artifacts, wiped, report, runs, gone>>
      /\ (RequestAllowed(r) /\ ApplyRequest(r)) \/ UNCHANGED storeVars
  BY DEF DeliverLate
<1>2. TypeOK /\ Rows /\ NothingForgotten /\ HeldBy(run) /\ Child /\ RunTyped(run) /\ runs \in Nat /\ run.sess \in Sessions
  BY DEF IInv, TypeOK, RunTyped
<1>3. r \in Requested /\ Sound(r) /\ Timely(r) BY DEF IInv, TypeOK, Requests
<1>5. StillThere /\ gone' = gone BY <1>1, <1>2, ArtifactsStay
<1>4. Moved /\ Preserved /\ Advances
  <2>1. CASE RequestAllowed(r) /\ ApplyRequest(r) BY <1>1, <1>2, <1>3, <2>1, RequestMoves
  <2>2. CASE UNCHANGED storeVars
    <3>1. UNCHANGED <<ctx, original, memory, gone>> /\ reserved' \in Nat BY <1>1, <1>2, <2>2 DEF storeVars, TypeOK
    <3> QED BY <1>2, <1>5, <3>1, RowsStay DEF Advances
  <2> QED BY <1>1, <2>1, <2>2
<1>6. \A q \in late' : q \in Requested /\ Sound(q)' /\ Timely(q)' BY <1>1, <1>4, <1>5, LateKept
<1>7. HeldBy(run)'
  <2>1. PICK w : w = run OBVIOUS
  <2>2. HeldBy(w) BY <1>2, <2>1
  <2>3. HeldBy(w)' BY <1>5, <2>2, HeldStays
  <2> QED BY <1>1, <2>1, <2>3 DEF HeldBy
<1>8. gone \/ Behind(run.sess)'
  <2>1. PICK s \in Sessions : s = run.sess BY <1>2
  <2>2. gone \/ Behind(s) BY <2>1 DEF IInv, InStep
  <2>3. gone \/ Behind(s)' BY <1>2, <1>4, <2>2, BehindKept
  <2> QED BY <1>1, <2>1, <2>3 DEF Behind
<1>9. gone => run'.pc = "idle" BY <1>1 DEF IInv, InStep
<1>10. Child'
  <2>1. kind = "child" => report # "complete" /\ (run.pc = "idle" \/ (run.pc = "finish" /\ run.err # "none"))
    BY <1>2 DEF Child
  <2> QED BY <1>1, <1>2, <2>1 DEF Child
<1>11. Kept BY <1>1, <1>2, <1>6, <1>7, <1>8, <1>9, <1>10 DEF Kept
<1> QED BY <1>1, <1>2, <1>4, <1>5, <1>11, PartsKept DEF Upheld

-----------------------------------------------------------------------------
(* Steps that write.                                                       *)

\* The request for a number, beyond every stored one
LEMMA ReserveSends ==
  ASSUME IInv, Reserve
  PROVE  \E r, w :
           /\ Sends(r, w) /\ r.op = "reserve"
           /\ w.pc = run.pc /\ w.pc \in Steps /\ w.sess = run.sess /\ w.todo = run.todo
           /\ w.streak = run.streak /\ w.cut = run.cut
<1>1. PICK k : k = Max({reserved, ctx.last}) + 1 OBVIOUS
<1>2. PICK r : r = Request("reserve", NoSession) OBVIOUS
<1>3. PICK v : v = run OBVIOUS
<1>4. PICK w : w = [v EXCEPT !.seq = k] OBVIOUS
<1>5. Send(r, w) /\ UNCHANGED <<artifacts, wiped, report>> BY <1>1, <1>2, <1>3, <1>4 DEF Reserve
<1>6. run.pc \in {"recover", "user", "reply", "tools"} BY DEF Reserve, Steps
<1>7. run.pc \in Busy /\ run.pc # "idle" /\ run.pc # "finish" BY <1>6 DEF Busy
<1>8. ~gone /\ Behind(run.sess) BY <1>7, BusyIsHere
<1>9. TypeOK /\ RunTyped(v) /\ HeldBy(v) /\ v.err = "none" BY <1>3, <1>7 DEF IInv, TypeOK, Child
<1>10. k \in Nat /\ k > v.sess.last
  <2>1. reserved \in Nat /\ ctx.last \in Nat /\ v.sess.last \in Nat BY <1>9, HeadTyped, SessionTyped DEF TypeOK, RunTyped
  <2>2. v.sess.last <= ctx.last BY <1>3, <1>8 DEF Behind
  <2>3. Max({reserved, ctx.last}) \in Nat /\ Max({reserved, ctx.last}) >= ctx.last BY <2>1, GreaterOfTwo
  <2> QED BY <1>1, <2>1, <2>2, <2>3
<1>11. DOMAIN v = {"pc", "resume", "sess", "chat", "seq", "reason", "err", "cand", "todo", "streak", "cut", "changed"}
  BY <1>9, RunFields
<1>12. /\ DOMAIN w = DOMAIN v /\ w.seq = k /\ w.pc = v.pc /\ w.sess = v.sess /\ w.chat = v.chat /\ w.cand = v.cand
       /\ w.todo = v.todo /\ w.err = v.err /\ w.streak = v.streak /\ w.cut = v.cut
  BY <1>4, <1>11
<1>13. v.pc \in {"recover", "user", "reply", "tools"} BY <1>3, <1>6
<1>14. Ready(w)
  <2>1. RunTyped(w) BY <1>9, <1>10, <1>12 DEF RunTyped
  <2>2. HeldBy(w) BY <1>9, <1>10, <1>12, <1>13 DEF HeldBy
  <2> QED BY <1>9, <1>12, <2>1, <2>2 DEF Ready
<1>15. r.op = "reserve" /\ r.snap = NoSession BY <1>2 DEF Request
<1>16. Fits(r)
  <2>1. Snapshot(NoSession) /\ NoSession \in Sessions BY IdleHeld DEF HeldBy, RunTyped
  <2>2. NoSession.rev = 0 BY DEF NoSession
  <2>3. r \in Requested BY <1>2, <2>1 DEF Request, Requested
  <2> QED BY <1>15, <2>1, <2>2, <2>3 DEF Fits, Sound
<1>17. ASSUME RequestAllowed(r), ApplyRequest(r) PROVE Lands(w)
  <2>1. ctx' = ctx /\ memory' = memory BY <1>15, <1>17 DEF ApplyRequest, ReserveMessageSequence
  <2>2. Behind(w.sess) BY <1>3, <1>8, <1>12
  <2>3. Behind(w.sess)' BY <2>1, <2>2 DEF Behind, GetRequestContext
  <2>4. w.pc # "finish" BY <1>12, <1>13
  <2> QED BY <2>3, <2>4 DEF Lands
<1>18. Sends(r, w) BY <1>5, <1>14, <1>16, <1>17 DEF Sends
<1> QED BY <1>3, <1>12, <1>13, <1>15, <1>18 DEF Steps

\* A number is reserved, beyond every stored one
LEMMA ReserveKeeps ==
  ASSUME IInv, Reserve
  PROVE  Upheld
<1>1. run.pc \in {"recover", "user", "reply", "tools"} /\ UNCHANGED <<artifacts, wiped, report>> BY DEF Reserve, At, Steps
<1>2. run.pc \in Busy /\ run.pc # "idle" BY <1>1 DEF Busy
<1>3. ~gone BY <1>2, BusyIsHere
<1>4. PICK r, w : Sends(r, w) BY ReserveSends
<1> QED BY <1>1, <1>2, <1>3, <1>4, SendKeeps DEF Sends

\* The next message's number is beyond those of the session
LEMMA NextIsFresh ==
  ASSUME IInv, ~NeedsNumber
  PROVE  NextSeq \in Nat /\ NextSeq > run.sess.last
<1>1. run.seq \in Nat /\ run.sess.last \in Nat BY SessionTyped DEF IInv, TypeOK, RunTyped
<1>2. run.seq # 0 => run.seq > run.sess.last BY DEF IInv, HeldBy
<1> QED BY <1>1, <1>2 DEF NextSeq, NeedsNumber

\* The note that replaces a missing result
LEMMA RecoverResultAppends ==
  ASSUME IInv, RecoverResult
  PROVE  \E m, next :
           /\ Appends(m, next) /\ m.role = "tool" /\ m.calls = <<>> /\ m.body = "recovery"
           /\ m.callID = run.sess.msgs[latestGroup(run.sess.msgs)].calls[Min(missingToolResults(run.sess.msgs))][1]
           /\ next.pc = "recover"
<1>1. /\ run.pc = "recover" /\ ~NeedsNumber /\ UNCHANGED <<artifacts, wiped, report>>
      /\ missingToolResults(run.sess.msgs) # {}
  BY DEF RecoverResult, At
<1>2. run.pc \in Busy /\ run.pc # "idle" BY <1>1 DEF Busy
<1>3. ~gone BY <1>2, BusyIsHere
<1>4. PICK k \in Nat : k = NextSeq /\ k > run.sess.last BY <1>1, NextIsFresh
<1>5. run.sess.msgs # <<>> /\ run.sess.msgs \in Seq(Messages) /\ RunTyped(run) /\ run.err = "none"
  BY <1>1, SessionTyped DEF IInv, HeldBy, Child, TypeOK, RunTyped
<1>6. PICK ms \in Seq(Messages) : ms = run.sess.msgs BY <1>5
<1>7. PICK id : id = ms[latestGroup(ms)].calls[Min(missingToolResults(ms))][1] OBVIOUS
<1>8. id \in CallNumbers
  <2>1. PICK g : g = latestGroup(ms) OBVIOUS
  <2>2. PICK missing : missing = missingToolResults(ms) OBVIOUS
  <2>3. missing # {} BY <1>1, <1>6, <2>2
  <2>4. g \in DOMAIN ms /\ missing \in SUBSET DOMAIN ms[g].calls
    <3>1. g # 0 /\ missing \in SUBSET DOMAIN ms[g].calls BY <2>1, <2>2, <2>3 DEF missingToolResults
    <3>2. g = 0 \/ g \in DOMAIN ms
      <4>1. g = IF \E i \in 1..Len(ms) : HasCalls(ms[i]) THEN Max({i \in 1..Len(ms) : HasCalls(ms[i])}) ELSE 0
        BY <2>1 DEF latestGroup, SelectLastInSeq
      <4>2. Len(ms) \in Nat /\ DOMAIN ms = 1..Len(ms) BY Positions
      <4>3. PICK S : S = {i \in 1..Len(ms) : HasCalls(ms[i])} OBVIOUS
      <4>4. S \in SUBSET (0..Len(ms)) BY <4>2, <4>3
      <4>5. S # {} => Max(S) \in S BY <4>2, <4>4, MaxIs
      <4> QED BY <4>1, <4>2, <4>3, <4>5
    <3> QED BY <3>1, <3>2
  <2>5. ms[g] \in Messages BY <2>4, Positions
  <2>6. PICK cs \in Seq(CallNumbers \X Nat) : cs = ms[g].calls BY <2>5 DEF Messages
  <2>7. DOMAIN cs = 1..Len(cs) /\ Len(cs) \in Nat BY LenProperties
  <2>8. missing \in SUBSET Nat BY <2>4, <2>6, <2>7
  <2>9. Min(missing) \in missing BY <2>3, <2>8, MinIsLeast
  <2>10. Min(missing) \in 1..Len(cs) BY <2>4, <2>6, <2>7, <2>9
  <2>11. cs[Min(missing)] \in CallNumbers \X Nat BY <2>10, ElementOfSeq
  <2>12. cs[Min(missing)][1] \in CallNumbers BY <2>11
  <2> QED BY <1>7, <2>1, <2>2, <2>6, <2>12
<1>9. PICK b : b = NewMessage("tool", k) OBVIOUS
<1>10. PICK m : m = [b EXCEPT !.callID = id, !.body = "recovery"] OBVIOUS
<1>11. PICK next : next = run OBVIOUS
<1>12. Append_(m, next) BY <1>4, <1>6, <1>7, <1>9, <1>10, <1>11 DEF RecoverResult
<1>13. b \in Messages /\ b.seq = k /\ b.src = {k} /\ b.role = "tool" /\ b.art = FALSE /\ b.calls = <<>>
  BY <1>9, NewMessageTyped DEF Roles
<1>14. /\ m \in Messages /\ m.seq = k /\ m.src = {k} /\ m.role = "tool" /\ m.body = "recovery" /\ m.art = FALSE
       /\ m.calls = <<>> /\ m.callID = id
  BY <1>8, <1>10, <1>13 DEF Messages
<1>15. Fresh(m, run.sess) BY <1>4, <1>5, <1>14 DEF Fresh
<1>16. Proceeds(m, next) BY <1>1, <1>5, <1>11 DEF Proceeds
<1>17. Appends(m, next) BY <1>12, <1>14, <1>15, <1>16 DEF Appends
<1> QED BY <1>1, <1>6, <1>7, <1>11, <1>14, <1>17

\* A missing result is replaced by a note
LEMMA RecoverResultKeeps ==
  ASSUME IInv, RecoverResult
  PROVE  Upheld
<1>1. run.pc \in {"recover"} /\ UNCHANGED <<artifacts, wiped, report>> BY DEF RecoverResult, At
<1>2. run.pc \in Busy /\ run.pc # "idle" BY <1>1 DEF Busy
<1>3. ~gone BY <1>2, BusyIsHere
<1>4. PICK m, next : Appends(m, next) BY RecoverResultAppends
<1> QED BY <1>1, <1>2, <1>3, <1>4, AppendKeeps

\* The message that opens a turn
LEMMA AppendUserAppends ==
  ASSUME IInv, AppendUser
  PROVE  \E m, next : /\ Appends(m, next) /\ m.role = "user" /\ m.calls = <<>> /\ next.pc = "prepare"
                      /\ next.streak = recentToolStreak(Append(run.sess.msgs, m))
<1>1. run.pc = "user" /\ ~NeedsNumber /\ UNCHANGED <<artifacts, wiped, report>> BY DEF AppendUser, At
<1>2. run.pc \in Busy /\ run.pc # "idle" BY <1>1 DEF Busy
<1>3. ~gone BY <1>2, BusyIsHere
<1>4. PICK k \in Nat : k = NextSeq /\ k > run.sess.last BY <1>1, NextIsFresh
<1>5. run.sess.msgs # <<>> /\ RunTyped(run) /\ run.err = "none" /\ run.chat \in Nat
  BY <1>1 DEF IInv, HeldBy, Child, TypeOK, RunTyped
<1>6. PICK b : b = NewMessage("user", k) OBVIOUS
<1>7. PICK m : m = [b EXCEPT !.chat = run.chat] OBVIOUS
<1>8. PICK streak : streak = recentToolStreak(Append(run.sess.msgs, m)) OBVIOUS
<1>9. PICK v : v = run OBVIOUS
<1>10. PICK next : next = [v EXCEPT !.pc = "prepare", !.streak = streak] OBVIOUS
<1>11. Append_(m, next) BY <1>4, <1>6, <1>7, <1>8, <1>9, <1>10 DEF AppendUser
<1>12. /\ b \in Messages /\ b.seq = k /\ b.src = {k} /\ b.role = "user" /\ b.body = "plain" /\ b.art = FALSE
       /\ b.calls = <<>>
  BY <1>6, NewMessageTyped DEF Roles
<1>13. /\ m \in Messages /\ m.seq = k /\ m.src = {k} /\ m.role = "user" /\ m.body = "plain" /\ m.art = FALSE
       /\ m.calls = <<>>
  BY <1>5, <1>7, <1>12 DEF Messages
<1>14. Fresh(m, run.sess) BY <1>4, <1>5, <1>13 DEF Fresh
<1>15. DOMAIN v = {"pc", "resume", "sess", "chat", "seq", "reason", "err", "cand", "todo", "streak", "cut", "changed"}
  BY <1>5, <1>9, RunFields
<1>16. /\ DOMAIN next = DOMAIN v /\ next.pc = "prepare" /\ next.sess = v.sess /\ next.seq = v.seq
       /\ next.chat = v.chat /\ next.cand = v.cand /\ next.todo = v.todo /\ next.err = v.err
       /\ next.streak = streak
  BY <1>10, <1>15
<1>17. RunTyped(next) BY <1>5, <1>9, <1>16 DEF RunTyped
<1>18. Proceeds(m, next) BY <1>5, <1>9, <1>16, <1>17 DEF Proceeds
<1>19. Appends(m, next) BY <1>11, <1>13, <1>14, <1>18 DEF Appends
<1> QED BY <1>8, <1>13, <1>16, <1>19

\* The user's message
LEMMA AppendUserKeeps ==
  ASSUME IInv, AppendUser
  PROVE  Upheld
<1>1. run.pc \in {"user"} /\ UNCHANGED <<artifacts, wiped, report>> BY DEF AppendUser, At
<1>2. run.pc \in Busy /\ run.pc # "idle" BY <1>1 DEF Busy
<1>3. ~gone BY <1>2, BusyIsHere
<1>4. PICK m, next : Appends(m, next) BY AppendUserAppends
<1> QED BY <1>1, <1>2, <1>3, <1>4, AppendKeeps

\* The calls of a reply are calls, as many as it asks for
LEMMA ReplyCalls ==
  ASSUME NEW fps \in Seq(Nat), NEW k \in Nat
  PROVE  Numbered(fps, k) \in Seq(CallNumbers \X Nat) /\ (Numbered(fps, k) = <<>> <=> fps = <<>>)
<1>1. PICK n \in Nat : n = Len(fps) /\ DOMAIN fps = 1..n BY LenProperties
<1>2. PICK calls : calls = [i \in 1..n |-> <<<<k, i>>, fps[i]>>] OBVIOUS
<1>3. \A i \in 1..n : <<<<k, i>>, fps[i]>> \in CallNumbers \X Nat BY <1>1, ElementOfSeq DEF CallNumbers
<1>4. calls \in [1..n -> CallNumbers \X Nat] BY <1>2, <1>3
<1>5. calls \in Seq(CallNumbers \X Nat) /\ Len(calls) = n BY <1>4, Sequence
<1>6. calls = <<>> <=> n = 0 BY <1>5, EmptySeq
<1>7. fps = <<>> <=> n = 0 BY <1>1, EmptySeq
<1>8. calls = Numbered(fps, k) BY <1>1, <1>2 DEF Numbered
<1> QED BY <1>5, <1>6, <1>7, <1>8

\* The message of a reply, its calls numbered after it
LEMMA CommitReplyAppends ==
  ASSUME IInv, CommitReply
  PROVE  \E m, next :
           /\ Appends(m, next) /\ m.role = "assistant" /\ m.seq \in 1..MaxSeq
           /\ \E reply \in Replies : m.calls = Numbered(reply.fps, m.seq)
           /\ next.pc \in {"finish", "tools"} /\ next.todo = m.calls /\ next.streak = run.streak
<1>1. run.pc = "reply" /\ ~NeedsNumber /\ UNCHANGED <<artifacts, wiped, report>> BY DEF CommitReply, At
<1>2. run.pc \in Busy /\ run.pc # "idle" BY <1>1 DEF Busy
<1>3. ~gone BY <1>2, BusyIsHere
<1>4. PICK k \in Nat : k = NextSeq /\ k > run.sess.last BY <1>1, NextIsFresh
<1>5. run.sess.msgs # <<>> /\ RunTyped(run) /\ run.err = "none" /\ run.chat \in Nat
  BY <1>1 DEF IInv, HeldBy, Child, TypeOK, RunTyped
<1>6. PICK b : b = NewMessage("assistant", k) OBVIOUS
<1>7. PICK v : v = run OBVIOUS
<1>8. PICK reply \in Replies :
        LET stop == Finishes(reply.reason)
            m == [b EXCEPT !.calls = [i \in DOMAIN reply.fps |-> <<<<k, i>>, reply.fps[i]>>],
                           !.body = reply.body, !.size = IF reply.body = "plain" THEN 1 ELSE 2,
                           !.stop = stop, !.chat = v.chat]
        IN Append_(m, [v EXCEPT !.pc = IF reply.fps = <<>> THEN "finish" ELSE "tools",
                                !.reason = reply.reason, !.todo = m.calls, !.cut = FALSE])
  BY <1>4, <1>6, <1>7 DEF CommitReply
<1>9. /\ reply.fps \in Seq(Nat) /\ reply.body \in {"plain", "reasoned", "long"} /\ reply.reason \in {"stop", "max_output_tokens", "none"}
  BY AgentRunAssumption
<1>10. PICK calls : calls = Numbered(reply.fps, k) OBVIOUS
<1>11. calls \in Seq(CallNumbers \X Nat) /\ (calls = <<>> <=> reply.fps = <<>>) BY <1>9, <1>10, ReplyCalls
<1>12. PICK size : size = IF reply.body = "plain" THEN 1 ELSE 2 OBVIOUS
<1>30. PICK stop : stop = Finishes(reply.reason) OBVIOUS
<1>29. stop \in BOOLEAN
  <2>1. Finishes(reply.reason) \in BOOLEAN BY DEF Finishes
  <2> QED BY <1>30, <2>1
<1>13. PICK m : m = [b EXCEPT !.calls = calls, !.body = reply.body, !.size = size, !.stop = stop, !.chat = v.chat]
  OBVIOUS
<1>14. b \in Messages /\ b.seq = k /\ b.src = {k} /\ b.role = "assistant" /\ b.art = FALSE
  BY <1>6, NewMessageTyped DEF Roles
<1>15. /\ m \in Messages /\ m.seq = k /\ m.src = {k} /\ m.role = "assistant" /\ m.body = reply.body
       /\ m.art = FALSE /\ m.calls = calls /\ m.stop = stop
  <2>1. size \in Nat /\ v.chat \in Nat BY <1>5, <1>7, <1>12
  <2> QED BY <1>9, <1>11, <1>13, <1>14, <1>29, <2>1 DEF Messages
<1>16. PICK pc : pc = IF reply.fps = <<>> THEN "finish" ELSE "tools" OBVIOUS
<1>17. PICK reason : reason = reply.reason OBVIOUS
<1>18. PICK next : next = [v EXCEPT !.pc = pc, !.reason = reason, !.todo = calls, !.cut = FALSE] OBVIOUS
<1>19. Append_(m, next)
  <2>1. next = [v EXCEPT !.pc = IF reply.fps = <<>> THEN "finish" ELSE "tools",
                         !.reason = reply.reason, !.todo = m.calls, !.cut = FALSE]
    BY <1>15, <1>16, <1>17, <1>18
  <2> QED BY <1>8, <1>10, <1>12, <1>13, <1>30, <2>1 DEF Numbered
<1>20. Fresh(m, run.sess) BY <1>4, <1>5, <1>9, <1>15 DEF Fresh
<1>21. DOMAIN v = {"pc", "resume", "sess", "chat", "seq", "reason", "err", "cand", "todo", "streak", "cut", "changed"}
  BY <1>5, <1>7, RunFields
<1>22. /\ DOMAIN next = DOMAIN v /\ next.pc = pc /\ next.sess = v.sess /\ next.seq = v.seq /\ next.reason = reason
       /\ next.chat = v.chat /\ next.cand = v.cand /\ next.todo = calls /\ next.err = v.err
       /\ next.streak = v.streak
  BY <1>18, <1>21
<1>23. pc \in {"finish", "tools"} /\ (pc = "tools" => calls # <<>>) /\ (pc = "finish" => calls = <<>>)
  BY <1>11, <1>16
<1>24. reason = "stop" => stop BY <1>17, <1>30 DEF Finishes
<1>25. RunTyped(next) BY <1>5, <1>7, <1>11, <1>22, <1>23 DEF RunTyped
<1>26. Proceeds(m, next)
  <2>1. next.err = "none" BY <1>5, <1>7, <1>22
  <2> QED BY <1>15, <1>22, <1>23, <1>24, <1>25, <2>1 DEF Proceeds, IsAssistant
<1>27. Appends(m, next) BY <1>15, <1>19, <1>20, <1>26 DEF Appends
<1>28. m.seq \in 1..MaxSeq
  <2>1. k <= MaxSeq /\ MaxSeq \in Nat BY <1>4, AgentRunAssumption DEF CommitReply
  <2>2. k >= 1
    <3>1. run.sess.last \in Nat BY <1>5, SessionTyped DEF RunTyped
    <3> QED BY <1>4, <3>1
  <2> QED BY <1>4, <1>15, <2>1, <2>2
<1> QED BY <1>7, <1>10, <1>15, <1>22, <1>23, <1>27, <1>28

\* The model's reply
LEMMA CommitReplyKeeps ==
  ASSUME IInv, CommitReply
  PROVE  Upheld
<1>1. run.pc \in {"reply"} /\ UNCHANGED <<artifacts, wiped, report>> BY DEF CommitReply, At
<1>2. run.pc \in Busy /\ run.pc # "idle" BY <1>1 DEF Busy
<1>3. ~gone BY <1>2, BusyIsHere
<1>4. PICK m, next : Appends(m, next) BY CommitReplyAppends
<1> QED BY <1>1, <1>2, <1>3, <1>4, AppendKeeps

\* The result of the next call of the group
LEMMA ToolCallAppends ==
  ASSUME IInv, ToolCall
  PROVE  \E m, next :
           /\ Appends(m, next) /\ m.role = "tool" /\ m.calls = <<>> /\ m.callID = Head(run.todo)[1]
           /\ next.todo = Tail(run.todo) /\ next.pc \in {"tools", "finish", "prepare"}
           /\ next.pc = "prepare" => next.todo = <<>>
           /\ m.body # "recovery"
           /\ m.body = "rejected" \/ (~run.cut /\ ~(observe(run.streak, Head(run.todo)).n >= 3))
           /\ next.pc = "prepare" \/ ~next.cut => ~run.cut /\ next.streak = observe(run.streak, Head(run.todo))
<1>1. run.pc = "tools" /\ ~NeedsNumber /\ UNCHANGED <<artifacts, wiped, report>> BY DEF ToolCall, At
<1>2. run.pc \in Busy /\ run.pc # "idle" BY <1>1 DEF Busy
<1>3. ~gone BY <1>2, BusyIsHere
<1>4. PICK k \in Nat : k = NextSeq /\ k > run.sess.last BY <1>1, NextIsFresh
<1>5. /\ run.sess.msgs # <<>> /\ RunTyped(run) /\ run.err = "none" /\ run.todo # <<>>
      /\ run.todo \in Seq(CallNumbers \X Nat)
  BY <1>1 DEF IInv, HeldBy, Child, TypeOK, RunTyped
<1>6. PICK b : b = NewMessage("tool", k) OBVIOUS
<1>7. PICK v : v = run OBVIOUS
<1>8. PICK call, rest : call = Head(v.todo) /\ rest = Tail(v.todo) OBVIOUS
<1>9. call \in CallNumbers \X Nat /\ rest \in Seq(CallNumbers \X Nat) BY <1>5, <1>7, <1>8
<1>10. call[1] \in CallNumbers BY <1>9
<1>11. PICK streak : streak = IF v.cut THEN v.streak ELSE observe(v.streak, call) OBVIOUS
<1>12. PICK rejected \in BOOLEAN : rejected = (v.cut \/ streak.n >= 3) OBVIOUS
<1>13. PICK changed : changed = (v.changed \/ ~rejected) OBVIOUS
<1>14. PICK pc : pc = CASE rest # <<>> -> "tools" [] rest = <<>> /\ rejected -> "finish" [] OTHER -> "prepare" OBVIOUS
<1>15. PICK err : err = IF rest = <<>> /\ rejected THEN "failed" ELSE "none" OBVIOUS
<1>16. PICK next : next = [v EXCEPT !.todo = rest, !.streak = streak, !.cut = rejected,
                                    !.changed = changed, !.pc = pc, !.err = err]
  OBVIOUS
<1>17. PICK body \in {"rejected", "plain", "large"} :
         /\ Append_([b EXCEPT !.callID = call[1], !.body = body, !.size = IF body = "large" THEN 2 ELSE 1], next)
         /\ rejected => body = "rejected"
  <2>1. \E body \in IF rejected THEN {"rejected"} ELSE OutputBodies :
          Append_([b EXCEPT !.callID = call[1], !.body = body, !.size = IF body = "large" THEN 2 ELSE 1], next)
    BY <1>4, <1>6, <1>7, <1>8, <1>11, <1>12, <1>13, <1>14, <1>15, <1>16 DEF ToolCall
  <2>2. OutputBodies \subseteq {"plain", "large"} BY AgentRunAssumption
  <2> QED BY <2>1, <2>2
<1>18. PICK size : size = IF body = "large" THEN 2 ELSE 1 OBVIOUS
<1>19. PICK m : m = [b EXCEPT !.callID = call[1], !.body = body, !.size = size] OBVIOUS
<1>20. Append_(m, next) BY <1>17, <1>18, <1>19
<1>21. b \in Messages /\ b.seq = k /\ b.src = {k} /\ b.role = "tool" /\ b.art = FALSE /\ b.calls = <<>>
  BY <1>6, NewMessageTyped DEF Roles
<1>22. /\ m \in Messages /\ m.seq = k /\ m.src = {k} /\ m.role = "tool" /\ m.body = body /\ m.art = FALSE
       /\ m.calls = <<>> /\ m.callID = call[1]
  <2>1. size \in Nat BY <1>18
  <2> QED BY <1>10, <1>17, <1>19, <1>21, <2>1 DEF Messages
<1>23. Fresh(m, run.sess)
  <2>1. body # "cleared" BY <1>17
  <2> QED BY <1>4, <1>5, <1>22, <2>1 DEF Fresh
<1>24. DOMAIN v = {"pc", "resume", "sess", "chat", "seq", "reason", "err", "cand", "todo", "streak", "cut", "changed"}
  BY <1>5, <1>7, RunFields
<1>25. /\ DOMAIN next = DOMAIN v /\ next.pc = pc /\ next.sess = v.sess /\ next.seq = v.seq
       /\ next.chat = v.chat /\ next.cand = v.cand /\ next.todo = rest /\ next.err = err
       /\ next.streak = streak /\ next.cut = rejected
  BY <1>16, <1>24
<1>26. /\ pc \in {"tools", "finish", "prepare"} /\ err \in {"none", "failed"} /\ (pc = "tools" => rest # <<>>)
       /\ (pc = "prepare" => rest = <<>> /\ ~rejected)
       /\ (pc = "finish" => err = "failed") /\ (pc # "finish" => err = "none")
  <2>1. CASE rest # <<>> BY <1>14, <1>15, <2>1
  <2>2. CASE rest = <<>> /\ rejected BY <1>14, <1>15, <2>2
  <2>3. CASE rest = <<>> /\ ~rejected BY <1>14, <1>15, <2>3
  <2> QED BY <2>1, <2>2, <2>3
<1>27. RunTyped(next)
  <2>1. /\ next.sess \in Sessions /\ next.cand \in Seq(Messages) /\ next.seq \in Nat /\ next.chat \in Nat
        /\ DOMAIN next = DOMAIN Idle
    BY <1>5, <1>7, <1>25 DEF RunTyped
  <2>2. next.todo \in Seq(CallNumbers \X Nat) BY <1>9, <1>25
  <2>3. next.pc \in {"tools", "finish", "prepare"} /\ next.err \in {"none", "failed"} BY <1>25, <1>26
  <2> QED BY <2>1, <2>2, <2>3 DEF RunTyped
<1>28. Proceeds(m, next) BY <1>25, <1>26, <1>27 DEF Proceeds
<1>29. Appends(m, next) BY <1>20, <1>22, <1>23, <1>28 DEF Appends
<1>30. m.body # "recovery" /\ (rejected => m.body = "rejected") BY <1>17, <1>22
<1>31. ~rejected => ~v.cut /\ streak = observe(v.streak, call) /\ ~(observe(v.streak, call).n >= 3) BY <1>11, <1>12
<1>32. m.body = "rejected" \/ (~run.cut /\ ~(observe(run.streak, Head(run.todo)).n >= 3)) BY <1>7, <1>8, <1>30, <1>31
<1>33. next.pc = "prepare" \/ ~next.cut => ~run.cut /\ next.streak = observe(run.streak, Head(run.todo))
  BY <1>7, <1>8, <1>25, <1>26, <1>31
<1> QED BY <1>7, <1>8, <1>22, <1>25, <1>26, <1>29, <1>30, <1>32, <1>33

\* A tool's result
LEMMA ToolCallKeeps ==
  ASSUME IInv, ToolCall
  PROVE  Upheld
<1>1. run.pc \in {"tools"} /\ UNCHANGED <<artifacts, wiped, report>> BY DEF ToolCall, At
<1>2. run.pc \in Busy /\ run.pc # "idle" BY <1>1 DEF Busy
<1>3. ~gone BY <1>2, BusyIsHere
<1>4. PICK m, next : Appends(m, next) BY ToolCallAppends
<1> QED BY <1>1, <1>2, <1>3, <1>4, AppendKeeps

\* A write that replaces the session the run holds
Replaces(v, w, c) ==
  /\ w.sess = [c EXCEPT !.rev = v.sess.rev + 1] /\ w.seq = v.seq /\ w.todo = v.todo /\ w.err = v.err
  /\ DOMAIN w = DOMAIN v /\ w.cand \in Seq(Messages) /\ w.chat \in Nat

\* The run after such a write
LEMMA ReplacedIsReady ==
  ASSUME NEW v, RunTyped(v), HeldBy(v), v.err = "none", NEW c \in Sessions, Snapshot(c), c.msgs # <<>>,
         NEW w, Replaces(v, w, c), w.pc \in {"recover", "reply"}, v.seq # 0 => v.seq > c.last
  PROVE  /\ Ready(w) /\ w.pc # "finish"
         /\ w.sess = [rev |-> v.sess.rev + 1, gen |-> c.gen, last |-> c.last, msgs |-> c.msgs]
<1>1. v.sess.rev \in Nat BY SessionTyped DEF RunTyped
<1>2. PICK d : d = [c EXCEPT !.rev = v.sess.rev + 1] OBVIOUS
<1>3. PICK n \in Nat : n = v.sess.rev BY <1>1
<1>4. /\ d \in Sessions /\ Snapshot(d) /\ d.rev # 0 /\ d.msgs = c.msgs /\ d.last = c.last
      /\ d = [rev |-> n + 1, gen |-> c.gen, last |-> c.last, msgs |-> c.msgs]
  BY <1>2, <1>3, CommittedSession
<1>5. w.sess = d BY <1>2 DEF Replaces
<1>6. RunTyped(w) BY <1>4, <1>5 DEF RunTyped, Replaces
<1>7. HeldBy(w) BY <1>4, <1>5 DEF HeldBy, Replaces
<1>8. Ready(w) BY <1>6, <1>7 DEF Ready, Replaces
<1> QED BY <1>3, <1>4, <1>5, <1>8

\* A session that is the stored one is behind none
LEMMA StoredIsBehind ==
  ASSUME Moved, NEW d, d = GetRequestContext'
  PROVE  Behind(d)'
<1>1. d.rev = ctx'.rev /\ d.last = ctx'.last /\ ctx'.rev \in Nat /\ ctx'.last \in Nat
  BY DEF GetRequestContext, Moved
<1>2. d.rev <= ctx'.rev /\ d.last <= ctx'.last BY <1>1
<1> QED BY <1>2 DEF Behind

\* The request that stores the compacted messages
LEMMA AdvanceGenerationSends ==
  ASSUME IInv, AdvanceGeneration
  PROVE  \E r, w :
           /\ Sends(r, w) /\ r.op = "generation" /\ r.snap.rev = run.sess.rev /\ r.snap.msgs = run.cand
           /\ w.pc = "reply" /\ w.sess.msgs = run.cand /\ w.streak = run.streak
<1>1. run.pc = "advance" /\ UNCHANGED <<artifacts, wiped, report>> BY DEF AdvanceGeneration, At
<1>2. run.pc \in Busy /\ run.pc # "idle" BY <1>1 DEF Busy
<1>3. ~gone /\ Behind(run.sess) BY <1>2, BusyIsHere
<1>4. PICK v : v = run OBVIOUS
<1>5. PICK s : s = v.sess OBVIOUS
<1>6. PICK c : c = [s EXCEPT !.msgs = v.cand, !.gen = @ + 1] OBVIOUS
<1>7. PICK r : r = Request("generation", c) OBVIOUS
<1>8. PICK w : w = [v EXCEPT !.pc = "reply", !.sess = [c EXCEPT !.rev = s.rev + 1], !.cand = <<>>] OBVIOUS
<1>9. Send(r, w) BY <1>4, <1>5, <1>6, <1>7, <1>8 DEF AdvanceGeneration, Committed
<1>10. TypeOK /\ Rows /\ NothingForgotten /\ RunTyped(v) /\ HeldBy(v) /\ v.err = "none" /\ v.pc = "advance"
  BY <1>1, <1>4 DEF IInv, TypeOK, Child
<1>11. s \in Sessions /\ v.cand \in Seq(Messages) /\ v.chat \in Nat BY <1>5, <1>10 DEF RunTyped
<1>12. s.rev \in Nat /\ s.gen \in Nat /\ s.last \in Nat BY <1>11, SessionTyped
<1>13. /\ v.cand # <<>> /\ Working(v.cand, s.last) /\ Archived(v.cand) /\ Sources(v.cand) = Sources(s.msgs)
       /\ (v.seq # 0 => v.seq > s.last)
  BY <1>5, <1>10 DEF HeldBy
<1>14. c \in Sessions /\ c.rev = s.rev /\ c.gen = s.gen + 1 /\ c.last = s.last /\ c.msgs = v.cand
  <2>1. c = [s EXCEPT !.msgs = v.cand, !.gen = s.gen + 1] BY <1>6
  <2>2. c.rev = s.rev /\ c.gen = s.gen + 1 /\ c.last = s.last /\ c.msgs = v.cand BY <1>11, <2>1 DEF Sessions
  <2>3. PICK g \in Nat : g = s.gen + 1 BY <1>12
  <2>4. PICK ms \in Seq(Messages) : ms = v.cand BY <1>11
  <2>5. c = [s EXCEPT !.msgs = ms, !.gen = g] BY <2>1, <2>3, <2>4
  <2>6. c \in Sessions BY <1>11, <2>3, <2>4, <2>5 DEF Sessions
  <2> QED BY <2>2, <2>6
<1>15. Snapshot(c) /\ c.msgs # <<>>
  <2>1. c.gen # 0 BY <1>12, <1>14
  <2> QED BY <1>13, <1>14, <2>1 DEF Snapshot
<1>16. DOMAIN v = {"pc", "resume", "sess", "chat", "seq", "reason", "err", "cand", "todo", "streak", "cut", "changed"}
  BY <1>10, RunFields
<1>17. Replaces(v, w, c) /\ w.pc = "reply" /\ w.streak = v.streak
  <2>1. /\ w.pc = "reply" /\ w.sess = [c EXCEPT !.rev = s.rev + 1] /\ w.cand = <<>> /\ w.seq = v.seq
        /\ w.streak = v.streak
        /\ w.todo = v.todo /\ w.err = v.err /\ w.chat = v.chat /\ DOMAIN w = DOMAIN v
    BY <1>8, <1>16
  <2>2. <<>> \in Seq(Messages) OBVIOUS
  <2> QED BY <1>5, <1>11, <2>1, <2>2 DEF Replaces
<1>18. /\ Ready(w) /\ w.pc # "finish"
       /\ w.sess = [rev |-> s.rev + 1, gen |-> c.gen, last |-> c.last, msgs |-> c.msgs]
  <2>1. v.seq # 0 => v.seq > c.last BY <1>13, <1>14
  <2> QED BY <1>5, <1>10, <1>14, <1>15, <1>17, <2>1, ReplacedIsReady
<1>19. r.op = "generation" /\ r.snap = c /\ r \in Requested BY <1>7, <1>14 DEF Request, Requested
<1>20. Fits(r) BY <1>4, <1>5, <1>13, <1>14, <1>15, <1>19 DEF Fits, Sound
<1>21. ASSUME RequestAllowed(r), ApplyRequest(r) PROVE Lands(w)
  <2>1. NextGenerationAllowed(c) /\ CommitNextMemoryGeneration(c) BY <1>19, <1>21 DEF RequestAllowed, ApplyRequest
  <2>2. UNCHANGED <<artifacts, wiped, gone>> BY <1>1, <1>9 DEF Send
  <2>3. s.msgs = memory[ctx.gen]
    <3>1. s.rev = ctx.rev BY <1>14, <2>1 DEF NextGenerationAllowed, SameRevision
    <3> QED BY <1>3, <1>4, <1>5, <3>1 DEF Behind, GetRequestContext
  <2>4. Sources(c.msgs) = Sources(memory[ctx.gen]) BY <1>13, <1>14, <2>3
  <2>5. Moved /\ GetRequestContext' = [rev |-> c.rev + 1, gen |-> c.gen, last |-> c.last, msgs |-> c.msgs]
    BY <1>10, <1>14, <1>15, <2>1, <2>2, <2>4, GenerationMoves
  <2>6. w.sess = GetRequestContext' BY <1>14, <1>18, <2>5
  <2>7. Behind(w.sess)' BY <2>5, <2>6, StoredIsBehind
  <2> QED BY <1>18, <2>7 DEF Lands
<1>22. Sends(r, w) BY <1>9, <1>18, <1>20, <1>21 DEF Sends
<1>23. r.snap.rev = run.sess.rev /\ r.snap.msgs = run.cand /\ w.sess.msgs = run.cand
  BY <1>4, <1>5, <1>14, <1>18, <1>19
<1> QED BY <1>4, <1>17, <1>19, <1>22, <1>23

\* The commit of a compaction
LEMMA AdvanceGenerationKeeps ==
  ASSUME IInv, AdvanceGeneration
  PROVE  Upheld
<1>1. run.pc \in {"advance"} /\ UNCHANGED <<artifacts, wiped, report>> BY DEF AdvanceGeneration, At
<1>2. run.pc \in Busy /\ run.pc # "idle" BY <1>1 DEF Busy
<1>3. ~gone BY <1>2, BusyIsHere
<1>4. PICK r, w : Sends(r, w) BY AdvanceGenerationSends
<1> QED BY <1>1, <1>2, <1>3, <1>4, SendKeeps DEF Sends

\* The chat that a resumed run continues has a number
LEMMA ChatIsNumber ==
  ASSUME TypeOK, NEW ms \in Seq(Messages)
  PROVE  ChatOf(ms) \in Nat
<1> DEFINE S == {i \in 1..Len(ms) : ms[i].role = "user"}
<1>1. Len(ms) \in Nat /\ DOMAIN ms = 1..Len(ms) /\ runs \in Nat BY Positions DEF TypeOK
<1>2. S \in SUBSET (0..Len(ms)) BY <1>1
<1>3. S # {} => Max(S) \in S BY <1>1, <1>2, MaxIs
<1>4. PICK at : at = IF S # {} THEN Max(S) ELSE 0 OBVIOUS
<1>5. at # 0 => at \in DOMAIN ms BY <1>1, <1>3, <1>4
<1>6. at # 0 => ms[at].chat \in Nat BY <1>5, Positions, Fields
<1>7. ChatOf(ms) = IF run.resume /\ at # 0 /\ ms[at].chat # 0 THEN ms[at].chat ELSE runs
  BY <1>4 DEF ChatOf, SelectLastInSeq
<1> QED BY <1>1, <1>6, <1>7

\* The request that creates or replaces the system prompt
LEMMA InitSysPromptSends ==
  ASSUME IInv, InitSysPrompt
  PROVE  \E r, w : \E sys \in Messages :
           /\ Sends(r, w) /\ r.snap.rev = run.sess.rev /\ w.pc = "recover"
           /\ sys.seq = 1 /\ sys.src = {1} /\ sys.role = "system" /\ sys.calls = <<>>
           /\ run.sess.msgs = <<>> =>
                r.op = "create" /\ Last(r.snap.msgs) = sys /\ w.sess.msgs = Append(run.sess.msgs, sys)
           /\ run.sess.msgs # <<>> => r.op = "update" /\ w.sess.msgs = [run.sess.msgs EXCEPT ![1] = sys]
<1>1. run.pc = "sys" /\ UNCHANGED <<artifacts, wiped, report>> BY DEF InitSysPrompt, At
<1>2. run.pc \in Busy /\ run.pc # "idle" BY <1>1 DEF Busy
<1>3. ~gone /\ Behind(run.sess) BY <1>2, BusyIsHere
<1>4. PICK v : v = run OBVIOUS
<1>5. PICK s : s = v.sess OBVIOUS
<1>6. TypeOK /\ Rows /\ NothingForgotten /\ RunTyped(v) /\ HeldBy(v) /\ v.err = "none" /\ v.seq = 0 /\ runs \in Nat
  BY <1>1, <1>4 DEF IInv, TypeOK, Child, HeldBy
<1>7. s \in Sessions /\ Snapshot(s) /\ (s.rev = 0 <=> s.msgs = <<>>) /\ v.cand \in Seq(Messages)
  BY <1>5, <1>6 DEF RunTyped, HeldBy
<1>8. s.rev \in Nat /\ s.gen \in Nat /\ s.last \in Nat /\ s.msgs \in Seq(Messages) BY <1>7, SessionTyped
<1>9. PICK sys : sys = [NewMessage("system", 1) EXCEPT !.chat = runs] OBVIOUS
<1>10. /\ sys \in Messages /\ sys.seq = 1 /\ sys.src = {1} /\ sys.role = "system" /\ sys.body = "plain" /\ sys.art = FALSE
       /\ sys.calls = <<>>
  <2>1. PICK b : b = NewMessage("system", 1) OBVIOUS
  <2>2. /\ b \in Messages /\ b.seq = 1 /\ b.src = {1} /\ b.role = "system" /\ b.body = "plain" /\ b.art = FALSE
        /\ b.calls = <<>>
    <3>1. PICK role \in Roles : role = "system" BY DEF Roles
    <3>2. PICK n \in Nat : n = 1 OBVIOUS
    <3>3. b = NewMessage(role, n) BY <2>1, <3>1, <3>2
    <3>4. /\ b \in Messages /\ b.seq = n /\ b.src = {n} /\ b.role = role /\ b.body = "plain" /\ b.art = FALSE
          /\ b.calls = <<>>
      BY <3>3, NewMessageTyped, Zenon
    <3> QED BY <3>1, <3>2, <3>4
  <2>3. sys = [b EXCEPT !.chat = runs] BY <1>9, <2>1
  <2>4. sys \in Messages /\ sys.calls = b.calls BY <1>6, <2>2, <2>3 DEF Messages
  <2>5. sys.seq = 1 /\ sys.src = {1} /\ sys.role = "system" /\ sys.body = "plain" /\ sys.art = FALSE
    BY <1>6, <2>2, <2>3 DEF Messages
  <2> QED BY <2>2, <2>4, <2>5
<1>11. PICK chat \in Nat : chat = ChatOf(run.sess.msgs) BY <1>4, <1>5, <1>6, <1>8, ChatIsNumber
<1>12. PICK c : c = IF s.msgs = <<>> THEN Grown(s, sys) ELSE [s EXCEPT !.msgs[1] = sys] OBVIOUS
<1>13. PICK op : op = IF s.msgs = <<>> THEN "create" ELSE "update" OBVIOUS
<1>14. PICK r : r = Request(op, c) OBVIOUS
<1>15. PICK w : w = [v EXCEPT !.pc = "recover", !.sess = [c EXCEPT !.rev = s.rev + 1], !.chat = chat] OBVIOUS
<1>16. Send(r, w)
  BY <1>4, <1>5, <1>9, <1>11, <1>12, <1>13, <1>14, <1>15 DEF InitSysPrompt, Committed, Candidate, Grown
<1>17. /\ c \in Sessions /\ Snapshot(c) /\ c.msgs # <<>> /\ c.rev = s.rev
       /\ s.msgs = <<>> => Len(c.msgs) = 1 /\ c.msgs = Append(s.msgs, sys) /\ Last(c.msgs) = sys
       /\ s.msgs # <<>> => c.msgs = [s.msgs EXCEPT ![1] = sys] /\ c.msgs[1] = sys
  <2>1. CASE s.msgs = <<>>
    <3>1. c = Grown(s, sys) BY <1>12, <2>1
    <3>2. Fresh(sys, s)
      <4>1. s.last = 0 BY <1>7, <2>1 DEF Snapshot, Working
      <4> QED BY <1>10, <2>1, <4>1 DEF Fresh
    <3>3. /\ c \in Sessions /\ Snapshot(c) /\ c.msgs # <<>> /\ (c.rev = 0 <=> Len(c.msgs) = 1)
          /\ c.rev = s.rev /\ c.msgs = Append(s.msgs, sys) /\ Last(c.msgs) = sys
      BY <1>7, <1>10, <3>1, <3>2, Extended
    <3> QED BY <1>7, <2>1, <3>3
  <2>2. CASE s.msgs # <<>>
    <3>1. PICK ms \in Seq(Messages) : ms = s.msgs BY <1>8
    <3>2. PICK as : as = [ms EXCEPT ![1] = sys] OBVIOUS
    <3>3. c = [s EXCEPT !.msgs = as] BY <1>12, <2>2, <3>1, <3>2
    <3>4. Working(ms, s.last) /\ Archived(ms) /\ s.gen # 0 BY <1>7, <3>1 DEF Snapshot
    <3>5. Like(as, ms) BY <1>8, <1>10, <2>2, <3>1, <3>2, <3>4, PromptReplaced
    <3>6. as \in Seq(Messages) /\ Working(as, s.last) /\ as # <<>> BY <1>8, <2>2, <3>1, <3>4, <3>5, LikeWorks
    <3>7. DOMAIN as = DOMAIN ms /\ 1 \in DOMAIN ms BY <2>2, <3>1, <3>5, Positions DEF Like
    <3>8. as[1] = sys /\ \A i \in DOMAIN as : i # 1 => as[i] = ms[i] BY <3>2, <3>7
    <3>9. Archived(as)
      <4>1. ASSUME NEW i \in DOMAIN as, as[i].body = "cleared" \/ as[i].art PROVE Stored(as[i].seq)
        <5>1. i # 1 BY <1>10, <3>8, <4>1
        <5> QED BY <3>4, <3>7, <3>8, <4>1, <5>1 DEF Archived
      <4> QED BY <4>1 DEF Archived
    <3>10. c.rev = s.rev /\ c.gen = s.gen /\ c.last = s.last /\ c.msgs = as /\ c \in Sessions
      BY <1>7, <3>3, <3>6 DEF Sessions
    <3>11. Snapshot(c) BY <3>4, <3>6, <3>9, <3>10 DEF Snapshot
    <3> QED BY <2>2, <3>1, <3>2, <3>6, <3>8, <3>10, <3>11
  <2> QED BY <2>1, <2>2
<1>18. DOMAIN v = {"pc", "resume", "sess", "chat", "seq", "reason", "err", "cand", "todo", "streak", "cut", "changed"}
  BY <1>6, RunFields
<1>19. Replaces(v, w, c) /\ w.pc = "recover"
  <2>1. /\ w.pc = "recover" /\ w.sess = [c EXCEPT !.rev = s.rev + 1] /\ w.cand = v.cand /\ w.seq = v.seq
        /\ w.todo = v.todo /\ w.err = v.err /\ w.chat = chat /\ DOMAIN w = DOMAIN v
    BY <1>15, <1>18
  <2> QED BY <1>5, <1>7, <1>11, <2>1 DEF Replaces
<1>20. /\ Ready(w) /\ w.pc # "finish"
       /\ w.sess = [rev |-> s.rev + 1, gen |-> c.gen, last |-> c.last, msgs |-> c.msgs]
  <2>1. v.seq # 0 => v.seq > c.last BY <1>6
  <2> QED BY <1>5, <1>6, <1>17, <1>19, <2>1, ReplacedIsReady
<1>21. r.op = op /\ r.snap = c /\ r \in Requested BY <1>13, <1>14, <1>17 DEF Request, Requested
<1>22. Fits(r)
  <2>1. op = "create" => (c.rev = 0 <=> Len(c.msgs) = 1) BY <1>7, <1>13, <1>17
  <2>2. Sound(r) BY <1>17, <1>21, <2>1 DEF Sound
  <2>3. op # "generation" BY <1>13
  <2> QED BY <1>4, <1>5, <1>17, <1>21, <2>2, <2>3 DEF Fits
<1>23. ASSUME RequestAllowed(r), ApplyRequest(r) PROVE Lands(w)
  <2>1. UNCHANGED <<artifacts, wiped, gone>> BY <1>1, <1>16 DEF Send
  <2>2. CASE s.msgs = <<>>
    <3>1. CreateAllowed(c) /\ CommitCreateMessage(c) BY <1>13, <1>21, <1>23, <2>2 DEF RequestAllowed, ApplyRequest
    <3>2. c.rev = 0 <=> Len(c.msgs) = 1 BY <1>7, <1>17, <2>2
    <3>3. c.rev = run.sess.rev /\ c.msgs = Append(run.sess.msgs, sys) BY <1>4, <1>5, <1>17, <2>2
    <3>4. PICK d : d = [rev |-> c.rev + 1, gen |-> c.gen, last |-> c.last, msgs |-> c.msgs] OBVIOUS
    <3>5. Last(c.msgs) = sys BY <1>17, <2>2
    <3>6. Behind(d)' BY <1>3, <1>17, <2>1, <3>1, <3>2, <3>3, <3>4, <3>5, AppendLands
    <3>7. w.sess = d BY <1>17, <1>20, <3>4
    <3>8. Behind(w.sess)' BY <3>6, <3>7
    <3> QED BY <1>20, <3>8 DEF Lands
  <2>3. CASE s.msgs # <<>>
    <3>1. UpdateAllowed(c) /\ CommitUpdateMessage(c) BY <1>13, <1>21, <1>23, <2>3 DEF RequestAllowed, ApplyRequest
    <3>2. /\ Moved /\ c.rev = ctx.rev
          /\ GetRequestContext' = [rev |-> c.rev + 1, gen |-> c.gen, last |-> c.last,
                                   msgs |-> [memory[ctx.gen] EXCEPT ![1] = c.msgs[1]]]
      BY <1>6, <1>17, <2>1, <3>1, UpdateMoves
    <3>3. s.msgs = memory[ctx.gen] BY <1>3, <1>4, <1>5, <1>17, <3>2 DEF Behind, GetRequestContext
    <3>4. w.sess = GetRequestContext' BY <1>17, <1>20, <2>3, <3>2, <3>3
    <3>5. Behind(w.sess)' BY <3>2, <3>4, StoredIsBehind
    <3> QED BY <1>20, <3>5 DEF Lands
  <2> QED BY <2>2, <2>3
<1>24. Sends(r, w) BY <1>16, <1>20, <1>22, <1>23 DEF Sends
<1>25. w.sess.msgs = c.msgs BY <1>20
<1>26. run.sess.msgs = <<>> =>
         r.op = "create" /\ Last(r.snap.msgs) = sys /\ w.sess.msgs = Append(run.sess.msgs, sys)
  BY <1>4, <1>5, <1>13, <1>17, <1>21, <1>25
<1>27. run.sess.msgs # <<>> => r.op = "update" /\ w.sess.msgs = [run.sess.msgs EXCEPT ![1] = sys]
  BY <1>4, <1>5, <1>13, <1>17, <1>21, <1>25
<1>28. r.snap.rev = run.sess.rev /\ w.pc = "recover" BY <1>4, <1>5, <1>17, <1>19, <1>21
<1>29. sys \in Messages /\ sys.seq = 1 /\ sys.src = {1} /\ sys.role = "system" /\ sys.calls = <<>> BY <1>10
<1> HIDE <1>4, <1>5, <1>9, <1>12, <1>13, <1>14, <1>15
<1> QED BY <1>24, <1>26, <1>27, <1>28, <1>29, Zenon

\* The system prompt is created or replaced
LEMMA InitSysPromptKeeps ==
  ASSUME IInv, InitSysPrompt
  PROVE  Upheld
<1>1. run.pc \in {"sys"} /\ UNCHANGED <<artifacts, wiped, report>> BY DEF InitSysPrompt, At
<1>2. run.pc \in Busy /\ run.pc # "idle" BY <1>1 DEF Busy
<1>3. ~gone BY <1>2, BusyIsHere
<1>4. PICK r, w : Sends(r, w) BY InitSysPromptSends
<1> QED BY <1>1, <1>2, <1>3, <1>4, SendKeeps DEF Sends

-----------------------------------------------------------------------------
(* The theorems.                                                           *)

\* The invariant holds at first
LEMMA Initially ==
  ASSUME Init
  PROVE  IInv
<1>1. /\ kind \in {"chat", "child"} /\ run = Idle /\ late = {} /\ wiped = FALSE /\ report = "none"
      /\ runs = 0 /\ gone = FALSE /\ original = <<>> /\ memory = << <<>> >> /\ reserved = 0
  BY AgentRunAssumption DEF Init, StoreInit
<1>2. /\ ctx.rev = 0 /\ ctx.gen = 1 /\ ctx.last = 0
      /\ ctx \in [exists : BOOLEAN, rev : Nat, gen : Nat, last : Nat]
  BY DEF Init, StoreInit, NoRow
<1>3. /\ original \in Seq(Messages) /\ memory \in Seq(Seq(Messages)) /\ Len(memory) = 1 /\ memory # <<>>
      /\ DOMAIN memory = {1} /\ memory[1] = <<>> /\ DOMAIN original = {}
  BY <1>1
<1>4. RunTyped(run) /\ HeldBy(run) /\ run.pc = "idle" /\ run.err = "none" /\ run.sess = NoSession BY <1>1, IdleHeld
<1>5. TypeOK BY <1>1, <1>2, <1>3, <1>4 DEF TypeOK
<1>6. Rows
  <2>1. Working(<<>>, 0) BY DEF Working
  <2>2. Archived(<<>>) BY DEF Archived
  <2>3. \A g \in DOMAIN memory : Archived(memory[g]) BY <1>3, <2>2
  <2>4. memory[ctx.gen] = <<>> BY <1>2, <1>3
  <2> QED BY <1>1, <1>2, <2>1, <2>3, <2>4 DEF Rows
<1>7. Requests BY <1>1 DEF Requests
<1>8. InStep
  <2>1. NoSession = GetRequestContext BY <1>2, <1>3 DEF NoSession, GetRequestContext
  <2>2. NoSession.rev = 0 /\ NoSession.last = 0 BY DEF NoSession
  <2>3. Behind(NoSession) BY <1>2, <2>1, <2>2 DEF Behind
  <2> QED BY <1>1, <1>4, <2>3 DEF InStep
<1>9. NothingForgotten
  <2>1. memory[ctx.gen] = <<>> BY <1>2, <1>3
  <2>2. Sources(<<>>) = {} BY DEF Sources
  <2> QED BY <1>3, <2>1, <2>2 DEF NothingForgotten
<1>10. Child BY <1>1, <1>4 DEF Child
<1> QED BY <1>4, <1>5, <1>6, <1>7, <1>8, <1>9, <1>10 DEF IInv

\* A step that changes nothing
LEMMA Stutter ==
  ASSUME IInv, UNCHANGED vars
  PROVE  Upheld
<1>1. UNCHANGED <<ctx, original, memory, reserved, kind, late, gone, runs, artifacts, wiped, report, run>> BY DEF vars
<1>2. PICK w : w = run OBVIOUS
<1>3. TypeOK /\ RunTyped(w) /\ HeldBy(w) /\ Child /\ runs \in Nat BY <1>2 DEF IInv, TypeOK
<1>4. StillThere /\ runs' \in Nat BY <1>1, <1>3, ArtifactsStay
<1>5. HeldBy(w)' BY <1>3, <1>4, HeldStays
<1>6. Child' BY <1>1, <1>3 DEF Child, Answered
<1>7. (gone \/ Behind(w.sess)) /\ (gone => w.pc = "idle") BY <1>2 DEF IInv, InStep
<1> QED BY <1>1, <1>2, <1>3, <1>4, <1>5, <1>6, <1>7, LocalKeeps

\* Every step keeps the invariant and the past
LEMMA StepUpholds ==
  ASSUME IInv, [Next]_vars
  PROVE  Upheld
<1>1. CASE \E resume \in BOOLEAN : StartRun(resume) BY <1>1, StartRunKeeps
<1>2. CASE Execute BY <1>2, ExecuteKeeps
<1>3. CASE InitSession BY <1>3, InitSessionKeeps
<1>4. CASE InitSysPrompt BY <1>4, InitSysPromptKeeps
<1>5. CASE Reserve BY <1>5, ReserveKeeps
<1>6. CASE RecoverResult BY <1>6, RecoverResultKeeps
<1>7. CASE Recovered BY <1>7, RecoveredKeeps
<1>8. CASE AppendUser BY <1>8, AppendUserKeeps
<1>9. CASE PrepareContext BY <1>9, PrepareContextKeeps
<1>10. CASE AdvanceGeneration BY <1>10, AdvanceGenerationKeeps
<1>11. CASE CommitReply BY <1>11, CommitReplyKeeps
<1>12. CASE ToolCall BY <1>12, ToolCallKeeps
<1>13. CASE Fail BY <1>13, FailKeeps
<1>14. CASE Crash BY <1>14, CrashKeeps
<1>15. CASE FinishRun BY <1>15, FinishRunKeeps
<1>16. CASE FinishSubAgent BY <1>16, FinishSubAgentKeeps
<1>17. CASE Delete BY <1>17, DeleteKeeps
<1>18. CASE DeleteFails BY <1>18, DeleteFailsKeeps
<1>19. CASE \E r \in late : DeliverLate(r) BY <1>19, DeliverLateKeeps
<1>20. CASE UNCHANGED vars BY <1>20, Stutter
<1> QED BY <1>1, <1>2, <1>3, <1>4, <1>5, <1>6, <1>7, <1>8, <1>9, <1>10, <1>11, <1>12, <1>13, <1>14,
          <1>15, <1>16, <1>17, <1>18, <1>19, <1>20 DEF Next

\* Rows, requests under way and the run agree in every reachable state, for
\* any number of runs, crashes, lost answers and late requests.
THEOREM Inductive == Spec => []IInv
<1>1. Init => IInv BY Initially
<1>2. IInv /\ [Next]_vars => IInv' BY StepUpholds DEF Upheld
<1> QED BY <1>1, <1>2, PTL DEF Spec

\* The stored context can be loaded whatever runs died, timed out or wrote
\* late (GetRequestContext, Restore).
THEOREM AlwaysLoadable == Spec => []Loadable
<1>1. IInv => Loadable
  <2> SUFFICES ASSUME IInv PROVE Loadable OBVIOUS
  <2>1. TypeOK /\ Rows BY DEF IInv
  <2>2. PICK c : c = GetRequestContext OBVIOUS
  <2>3. ctx.gen \in Nat \ {0} /\ memory[ctx.gen] \in Seq(Messages) BY <2>1, Generations
  <2>4. /\ c.gen = ctx.gen /\ c.last = ctx.last /\ c.msgs = memory[ctx.gen] BY <2>2 DEF GetRequestContext
  <2>5. c \in Sessions BY <2>1, <2>2, <2>3, HeadTyped DEF GetRequestContext, Sessions
  <2>6. c.gen # 0 /\ Working(c.msgs, c.last) BY <2>1, <2>3, <2>4 DEF Rows
  <2>7. Validate(c) BY <2>5, <2>6, WorkingIsValid
  <2> QED BY <2>2, <2>7 DEF Loadable
<1> QED BY <1>1, Inductive, PTL

\* The working set accounts for every message of the history, and for no
\* other, through every trimming and every summary.
THEOREM HistoryIsCovered == Spec => []NothingForgotten
<1>1. IInv => NothingForgotten BY DEF IInv
<1> QED BY <1>1, Inductive, PTL

\* A run whose revision is the stored one holds the stored context: the
\* optimistic lock of the store's transactions is sound.
THEOREM LockIsSound == Spec => []RevisionMeansContent
<1>1. IInv => RevisionMeansContent
  <2> SUFFICES ASSUME IInv, run.pc \notin {"idle", "load"}, run.sess.rev = ctx.rev
        PROVE  run.sess = GetRequestContext
    BY DEF RevisionMeansContent
  <2>1. Behind(run.sess) BY DEF IInv, InStep
  <2> QED BY <2>1 DEF Behind
<1> QED BY <1>1, Inductive, PTL

\* An output that a working set shows as cleared is in the artifact store, until
\* somebody deletes the session.
THEOREM ClearedCanBeRead == Spec => []ClearedIsArchived
<1>1. IInv => ClearedIsArchived
  <2> SUFFICES ASSUME IInv PROVE ClearedIsArchived OBVIOUS
  <2>1. \A g \in DOMAIN memory : Archived(memory[g]) BY DEF IInv, Rows
  <2> QED BY <2>1 DEF ClearedIsArchived, Archived, Stored
<1> QED BY <1>1, Inductive, PTL

\* A parent that is told "complete" finds the final answer stored.
THEOREM CompleteHasAnswer == Spec => []CompleteIsAnswered
<1>1. IInv => CompleteIsAnswered
  <2> SUFFICES ASSUME IInv, report = "complete" PROVE Answered BY DEF CompleteIsAnswered, Answered
  <2>1. Child /\ kind \in {"chat", "child"} BY DEF IInv, TypeOK
  <2>2. kind = "child" BY <2>1 DEF Child
  <2> QED BY <2>1, <2>2 DEF Child
<1> QED BY <1>1, Inductive, PTL

\* No step rewrites an original message or a sealed generation, but for the
\* deletion of the session.
THEOREM HistoryIsImmutable == Spec => PastIsImmutable
<1>1. IInv /\ [Next]_vars => [gone' = gone => /\ IsPrefix(original, original')
                                              /\ \A g \in 1..Len(memory)-1 : memory'[g] = memory[g]]_vars
  BY StepUpholds DEF Upheld, Preserved
<1> QED BY <1>1, Inductive, PTL DEF Spec, PastIsImmutable
=============================================================================
