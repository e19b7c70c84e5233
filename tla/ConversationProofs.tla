-------------------------- MODULE ConversationProofs --------------------------
(***************************************************************************)
(* Proofs about the talk of AgentRun: calls and their results stay in      *)
(* order in the history, in every working set however compacted, and in    *)
(* what a run holds, so that the model is only asked with complete call    *)
(* groups (RequestIsPaired) and the history implements Conversation; the   *)
(* streak a run counts follows the latest results of the turn; and every   *)
(* working set goes on recounting the history, so that the third identical *)
(* call in a row is not executed in it either (LoopIsBroken).              *)
(***************************************************************************)
EXTENDS AgentProofs

-----------------------------------------------------------------------------
(* Call groups and their results.                                          *)

\* The calls of a message are a sequence
LEMMA CallsTyped ==
  ASSUME NEW m \in Messages
  PROVE  /\ m.calls \in Seq(CallNumbers \X Nat) /\ Len(m.calls) \in Nat /\ DOMAIN m.calls = 1..Len(m.calls)
         /\ m.calls = <<>> <=> Len(m.calls) = 0
<1>1. m.calls \in Seq(CallNumbers \X Nat) BY DEF Messages
<1> QED BY <1>1

\* A position is a number, its calls have one each
LEMMA GroupTyped ==
  ASSUME NEW ms \in Seq(Messages), NEW g \in DOMAIN ms
  PROVE  /\ Len(ms) \in Nat /\ g \in Nat /\ 1 <= g /\ g <= Len(ms) /\ ms[g] \in Messages
         /\ Len(ms[g].calls) \in Nat /\ DOMAIN ms[g].calls = 1..Len(ms[g].calls)
         /\ HasCalls(ms[g]) => Len(ms[g].calls) >= 1
<1>1. Len(ms) \in Nat /\ DOMAIN ms = 1..Len(ms) /\ ms[g] \in Messages BY Positions
<1>2. /\ Len(ms[g].calls) \in Nat /\ DOMAIN ms[g].calls = 1..Len(ms[g].calls)
      /\ ms[g].calls = <<>> <=> Len(ms[g].calls) = 0
  BY <1>1, CallsTyped
<1>3. HasCalls(ms[g]) => ms[g].calls # <<>> BY DEF HasCalls
<1> QED BY <1>1, <1>2, <1>3

\* Two groups do not overlap: the results of the first come before the second.
LEMMA GroupsApart ==
  ASSUME NEW ms \in Seq(Messages), Dialogue(ms), NEW g \in DOMAIN ms, NEW h \in DOMAIN ms,
         HasCalls(ms[g]), HasCalls(ms[h]), g < h
  PROVE  g + Len(ms[g].calls) < h
<1>1. /\ g \in Nat /\ h \in Nat /\ h <= Len(ms) /\ Len(ms) \in Nat
      /\ Len(ms[g].calls) \in Nat /\ DOMAIN ms[g].calls = 1..Len(ms[g].calls)
  BY GroupTyped
<1>2. SUFFICES ASSUME g + Len(ms[g].calls) >= h PROVE FALSE BY <1>1
<1>3. PICK k \in DOMAIN ms[g].calls : g + k = h
  <2>1. h - g \in DOMAIN ms[g].calls /\ g + (h - g) = h BY <1>1, <1>2
  <2> QED BY <2>1
<1>4. ms[g + k].role = "tool" BY <1>1, <1>3 DEF Dialogue
<1> QED BY <1>3, <1>4 DEF HasCalls, IsAssistant

\* An open group is followed by nothing but its results.
LEMMA OpenIsFollowed ==
  ASSUME NEW ms \in Seq(Messages), Dialogue(ms), NEW g \in DOMAIN ms, OpenAt(ms, g), NEW i \in DOMAIN ms, i > g
  PROVE  ms[i].role = "tool"
<1>1. /\ g \in Nat /\ i \in Nat /\ i <= Len(ms) /\ Len(ms) \in Nat
      /\ Len(ms[g].calls) \in Nat /\ DOMAIN ms[g].calls = 1..Len(ms[g].calls)
  BY GroupTyped
<1>2. HasCalls(ms[g]) /\ g + Len(ms[g].calls) > Len(ms) BY DEF OpenAt
<1>3. PICK k \in DOMAIN ms[g].calls : g + k = i
  <2>1. i - g \in DOMAIN ms[g].calls /\ g + (i - g) = i BY <1>1, <1>2
  <2> QED BY <2>1
<1> QED BY <1>1, <1>2, <1>3 DEF Dialogue

\* No group comes after an open one, so at most one is open.
LEMMA OpenIsLatest ==
  ASSUME NEW ms \in Seq(Messages), Dialogue(ms), NEW g \in DOMAIN ms, OpenAt(ms, g),
         NEW h \in DOMAIN ms, HasCalls(ms[h])
  PROVE  h <= g /\ (OpenAt(ms, h) => h = g)
<1>1. g \in Nat /\ h \in Nat BY GroupTyped
<1>2. ~(h > g)
  <2>1. SUFFICES ASSUME h > g PROVE FALSE OBVIOUS
  <2>2. ms[h].role = "tool" BY <2>1, OpenIsFollowed
  <2> QED BY <2>2 DEF HasCalls, IsAssistant
<1>3. ASSUME OpenAt(ms, h) PROVE ~(g > h)
  <2>1. SUFFICES ASSUME g > h PROVE FALSE OBVIOUS
  <2>2. ms[g].role = "tool" BY <1>3, <2>1, OpenIsFollowed
  <2> QED BY <2>2 DEF HasCalls, IsAssistant, OpenAt
<1> QED BY <1>1, <1>2, <1>3

\* Complete groups are what a request to the model needs.
LEMMA FinishedIsPaired ==
  ASSUME NEW ms \in Seq(Messages), Dialogue(ms), Closed(ms)
  PROVE  Paired(ms)
<1>1. ASSUME NEW i \in DOMAIN ms, HasCalls(ms[i]), NEW k \in DOMAIN ms[i].calls
      PROVE  i + k <= Len(ms) /\ ms[i+k].role = "tool" /\ ms[i+k].callID = ms[i].calls[k][1]
  <2>1. /\ i \in Nat /\ Len(ms) \in Nat /\ k \in Nat /\ k <= Len(ms[i].calls)
        /\ Len(ms[i].calls) \in Nat
    BY <1>1, GroupTyped
  <2>2. ~(i + Len(ms[i].calls) > Len(ms)) BY <1>1 DEF Closed, OpenAt
  <2>3. i + k <= Len(ms) BY <2>1, <2>2
  <2> QED BY <1>1, <2>3 DEF Dialogue
<1> QED BY <1>1 DEF Paired, Dialogue

-----------------------------------------------------------------------------
(* One more message.                                                       *)

\* A number grows by another that is not 0.
LEMMA Longer ==
  ASSUME NEW a \in Nat, NEW b \in Nat, b # 0
  PROVE  a + b > a
OBVIOUS

\* as is ms with m behind it: positions, and which groups are open now
Extension(as, ms, m) ==
  /\ as \in Seq(Messages) /\ as # <<>> /\ Len(ms) \in Nat /\ Len(as) = Len(ms) + 1
  /\ DOMAIN as = DOMAIN ms \cup {Len(ms) + 1} /\ DOMAIN ms = 1..Len(ms)
  /\ as[Len(ms) + 1] = m /\ \A i \in DOMAIN ms : as[i] = ms[i]
  /\ hasUserMessage(as) <=> (hasUserMessage(ms) \/ m.role = "user")
  /\ \A g \in DOMAIN ms : OpenAt(as, g) <=> (HasCalls(ms[g]) /\ g + Len(ms[g].calls) > Len(ms) + 1)
  /\ OpenAt(as, Len(ms) + 1) <=> HasCalls(m)

\* What appending a message does
LEMMA OneMore ==
  ASSUME NEW ms \in Seq(Messages), NEW m \in Messages
  PROVE  Extension(Append(ms, m), ms, m)
<1>1. PICK as : as = Append(ms, m) OBVIOUS
<1>2. /\ as \in Seq(Messages) /\ as # <<>> /\ Len(as) = Len(ms) + 1 /\ DOMAIN as = DOMAIN ms \cup {Len(ms) + 1}
      /\ \A i \in DOMAIN ms : as[i] = ms[i]
      /\ as[Len(ms) + 1] = m
  BY <1>1, AppendedMessage
<1>3. Len(ms) \in Nat /\ DOMAIN ms = 1..Len(ms) BY Positions
<1> HIDE <1>1
<1>4. hasUserMessage(as) <=> (hasUserMessage(ms) \/ m.role = "user") BY <1>2 DEF hasUserMessage
<1>5. ASSUME NEW g \in DOMAIN ms
      PROVE  OpenAt(as, g) <=> (HasCalls(ms[g]) /\ g + Len(ms[g].calls) > Len(ms) + 1)
  BY <1>2 DEF OpenAt
<1>6. OpenAt(as, Len(ms) + 1) <=> HasCalls(m)
  <2>1. Len(m.calls) \in Nat /\ (m.calls = <<>> <=> Len(m.calls) = 0) BY CallsTyped
  <2>2. HasCalls(m) => Len(m.calls) # 0 BY <2>1 DEF HasCalls
  <2>3. Len(ms) + 1 \in Nat BY <1>3
  <2>4. HasCalls(m) => Len(ms) + 1 + Len(m.calls) > Len(ms) + 1 BY <2>1, <2>2, <2>3, Longer, Zenon
  <2> QED BY <1>2, <2>4 DEF OpenAt
<1>7. Extension(as, ms, m) BY <1>2, <1>3, <1>4, <1>5, <1>6 DEF Extension
<1> QED BY <1>1, <1>7

\* The calls of a reply carry its number.
LEMMA NumberedCalls ==
  ASSUME NEW fps, NEW n, NEW k \in DOMAIN Numbered(fps, n)
  PROVE  k \in DOMAIN fps /\ Numbered(fps, n)[k][1] = <<n, k>>
BY DEF Numbered

\* A message that continues a dialogue extends it.
LEMMA DialogueContinues ==
  ASSUME NEW ms \in Seq(Messages), Dialogue(ms), NEW m \in Messages, Continues(ms, m)
  PROVE  Dialogue(Append(ms, m))
<1>1. PICK as : as = Append(ms, m) OBVIOUS
<1>2. PICK n : n = Len(ms) OBVIOUS
<1>3. /\ as \in Seq(Messages) /\ Len(as) = n + 1 /\ n \in Nat
      /\ DOMAIN as = DOMAIN ms \cup {n + 1} /\ DOMAIN ms = 1..n
      /\ as[n + 1] = m /\ \A i \in DOMAIN ms : as[i] = ms[i]
      /\ hasUserMessage(as) <=> (hasUserMessage(ms) \/ m.role = "user")
  <2>1. Extension(as, ms, m) BY <1>1, OneMore
  <2> QED BY <1>2, <2>1, Zenon DEF Extension
<1> HIDE <1>1
<1>4. ASSUME NEW i \in DOMAIN as, HasCalls(as[i]), NEW k \in DOMAIN as[i].calls
      PROVE  as[i].calls[k][1] = <<as[i].seq, k>>
  <2>1. CASE i \in DOMAIN ms
    <3>1. as[i] = ms[i] BY <1>3, <2>1
    <3>2. HasCalls(ms[i]) /\ k \in DOMAIN ms[i].calls BY <1>4, <3>1
    <3>3. ms[i].calls[k][1] = <<ms[i].seq, k>> BY <2>1, <3>2, Zenon DEF Dialogue
    <3> QED BY <3>1, <3>3
  <2>2. CASE i = n + 1
    <3>1. as[i] = m /\ HasCalls(m) BY <1>3, <1>4, <2>2
    <3>2. PICK r \in Replies : m.calls = Numbered(r.fps, m.seq) BY <3>1 DEF Continues, HasCalls, IsAssistant
    <3> QED BY <1>4, <3>1, <3>2, NumberedCalls
  <2> QED BY <1>3, <2>1, <2>2
<1>5. ASSUME NEW i \in DOMAIN as, HasCalls(as[i]), NEW k \in DOMAIN as[i].calls, i + k <= Len(as)
      PROVE  as[i+k].role = "tool" /\ as[i+k].callID = as[i].calls[k][1]
  <2>1. i \in Nat /\ 1 <= i /\ k \in 1..Len(as[i].calls) /\ Len(as[i].calls) \in Nat BY <1>3, <1>5, GroupTyped
  <2>2. i # n + 1 BY <1>3, <1>5, <2>1
  <2>3. i \in DOMAIN ms /\ as[i] = ms[i] BY <1>3, <2>2
  <2>4. CASE i + k <= n
    <3>1. ms[i+k].role = "tool" /\ ms[i+k].callID = ms[i].calls[k][1] BY <1>2, <1>5, <2>3, <2>4 DEF Dialogue
    <3>2. i + k \in DOMAIN ms BY <1>3, <2>1, <2>4
    <3> QED BY <1>3, <2>3, <3>1, <3>2
  <2>5. CASE i + k = n + 1
    <3>1. OpenAt(ms, i)
      <4>1. i + Len(ms[i].calls) > Len(ms) BY <1>2, <1>3, <2>1, <2>3, <2>5
      <4> QED BY <1>5, <2>3, <4>1 DEF OpenAt
    <3>2. ~Closed(ms) /\ ms # <<>> BY <2>3, <3>1 DEF Closed
    <3>3. PICK g \in DOMAIN ms : OpenAt(ms, g) /\ m.callID = ms[g].calls[Len(ms) - g + 1][1] /\ m.role = "tool"
      BY <3>2 DEF Continues
    <3>4. g = i BY <2>3, <3>1, <3>3, OpenIsLatest DEF OpenAt
    <3>5. as[i + k] = m BY <1>3, <2>5
    <3>6. k \in Nat BY <2>1
    <3>7. n - i + 1 = k BY <1>3, <2>1, <2>5, <3>6
    <3>8. Len(ms) - g + 1 = k BY <1>2, <3>4, <3>7
    <3> QED BY <2>3, <3>3, <3>4, <3>5, <3>8
  <2>6. i + k <= n + 1 /\ k \in Nat BY <1>3, <1>5, <2>1
  <2>7. i + k <= n \/ i + k = n + 1 BY <1>3, <2>1, <2>6
  <2> QED BY <2>4, <2>5, <2>7
<1>6. ASSUME NEW i \in DOMAIN as, as[i].role = "tool"
      PROVE  \E g \in 1..i-1 : HasCalls(as[g]) /\ i - g \in DOMAIN as[g].calls
  <2>1. CASE i \in DOMAIN ms
    <3>1. PICK g \in 1..i-1 : HasCalls(ms[g]) /\ i - g \in DOMAIN ms[g].calls BY <1>3, <1>6, <2>1 DEF Dialogue
    <3>2. g \in DOMAIN ms BY <1>3, <2>1
    <3> QED BY <1>3, <3>1, <3>2
  <2>2. CASE i = n + 1
    <3>1. PICK g \in DOMAIN ms : OpenAt(ms, g) BY <1>3, <1>6, <2>2 DEF Continues, IsAssistant
    <3>2. /\ g \in Nat /\ g <= n /\ 1 <= g /\ Len(ms[g].calls) \in Nat /\ DOMAIN ms[g].calls = 1..Len(ms[g].calls)
      BY <1>2, GroupTyped
    <3>3. HasCalls(ms[g]) /\ g + Len(ms[g].calls) > n BY <1>2, <3>1 DEF OpenAt
    <3>4. i - g \in DOMAIN ms[g].calls /\ g \in 1..i-1 BY <1>3, <2>2, <3>2, <3>3
    <3> QED BY <1>3, <3>3, <3>4
  <2> QED BY <1>3, <2>1, <2>2
<1>7. ASSUME NEW i \in DOMAIN as, IsAssistant(as[i]) PROVE hasUserMessage(as)
  <2>1. CASE i \in DOMAIN ms
    <3>1. hasUserMessage(ms) BY <1>3, <1>7, <2>1 DEF Dialogue
    <3> QED BY <1>3, <3>1
  <2>2. CASE i = n + 1 BY <1>3, <1>7, <2>2 DEF Continues, IsAssistant
  <2> QED BY <1>3, <2>1, <2>2
<1>8. Dialogue(as) BY <1>4, <1>5, <1>6, <1>7 DEF Dialogue
<1> QED BY <1>1, <1>8

\* Every open group of bs is open in as, with as many results.
Covers(as, bs) ==
  \A g \in DOMAIN bs : OpenAt(bs, g) => \E h \in DOMAIN as : OpenAt(as, h) /\ Matches(as, h, bs, g)

\* The two directions of SamePoint
LEMMA SamePointIs ==
  ASSUME NEW os, NEW ms
  PROVE  SamePoint(os, ms) <=>
           /\ os = <<>> <=> ms = <<>>
           /\ hasUserMessage(os) <=> hasUserMessage(ms)
           /\ Covers(os, ms) /\ Covers(ms, os)
<1>1. \A g, h : Matches(os, h, ms, g) <=> Matches(ms, g, os, h) BY DEF Matches
<1>2. Covers(os, ms) <=>
        \A g \in DOMAIN ms : OpenAt(ms, g) => \E h \in DOMAIN os : OpenAt(os, h) /\ Matches(os, h, ms, g)
  BY DEF Covers
<1>3. Covers(ms, os) <=>
        \A h \in DOMAIN os : OpenAt(os, h) => \E g \in DOMAIN ms : OpenAt(ms, g) /\ Matches(os, h, ms, g)
  BY <1>1 DEF Covers
<1> QED BY <1>2, <1>3 DEF SamePoint

\* A group that covers another stays open, or is completed, with it.
LEMMA CoversOneMore ==
  ASSUME NEW as \in Seq(Messages), NEW bs \in Seq(Messages), NEW m \in Messages, Covers(as, bs)
  PROVE  Covers(Append(as, m), Append(bs, m))
<1>1. PICK xs : xs = Append(as, m) OBVIOUS
<1>2. PICK ys : ys = Append(bs, m) OBVIOUS
<1>3. Extension(xs, as, m) /\ Extension(ys, bs, m) BY <1>1, <1>2, OneMore
<1> HIDE <1>1, <1>2
<1>4. SUFFICES ASSUME NEW g \in DOMAIN ys, OpenAt(ys, g)
               PROVE  \E h \in DOMAIN xs : OpenAt(xs, h) /\ Matches(xs, h, ys, g)
  <2>1. Covers(xs, ys) BY <1>4 DEF Covers
  <2> QED BY <1>1, <1>2, <2>1
<1>5. Len(as) \in Nat /\ Len(bs) \in Nat /\ Len(xs) = Len(as) + 1 /\ Len(ys) = Len(bs) + 1
  BY <1>3 DEF Extension
<1>6. CASE g = Len(bs) + 1
  <2>1. ys[g] = m /\ HasCalls(m) BY <1>3, <1>4, <1>6 DEF Extension
  <2>2. PICK h : h = Len(as) + 1 OBVIOUS
  <2>3. h \in DOMAIN xs /\ xs[h] = m /\ OpenAt(xs, h) BY <1>3, <2>1, <2>2 DEF Extension
  <2>4. Len(xs) - h = Len(ys) - g BY <1>5, <1>6, <2>2
  <2> QED BY <2>1, <2>3, <2>4 DEF Matches
<1>7. CASE g \in DOMAIN bs
  <2>1. ys[g] = bs[g] /\ HasCalls(bs[g]) /\ g + Len(bs[g].calls) > Len(bs) + 1 BY <1>3, <1>4, <1>7 DEF Extension
  <2>2. g \in Nat /\ Len(bs[g].calls) \in Nat BY <1>7, GroupTyped
  <2>3. g + Len(bs[g].calls) > Len(bs) BY <1>5, <2>1, <2>2
  <2>4. OpenAt(bs, g) BY <2>1, <2>3 DEF OpenAt
  <2>5. PICK h \in DOMAIN as : OpenAt(as, h) /\ as[h].calls = bs[g].calls /\ Len(as) - h = Len(bs) - g
    BY <1>7, <2>4 DEF Covers, Matches
  <2>6. h \in Nat BY GroupTyped
  <2>7. h + Len(as[h].calls) > Len(as) + 1
    <3>1. PICK n \in Nat : n = Len(as[h].calls) /\ n = Len(bs[g].calls) BY <2>2, <2>5
    <3>2. PICK a \in Nat, b \in Nat : a = Len(as) /\ b = Len(bs) BY <1>5
    <3>3. g + n > b + 1 /\ a - h = b - g BY <2>1, <2>5, <3>1, <3>2
    <3>4. h + n > a + 1 BY <2>2, <2>6, <3>3
    <3> QED BY <3>1, <3>2, <3>4
  <2>8. HasCalls(as[h]) BY <2>5 DEF OpenAt
  <2>9. h \in DOMAIN xs /\ xs[h] = as[h] /\ OpenAt(xs, h) BY <1>3, <2>7, <2>8 DEF Extension
  <2>10. Len(xs) - h = Len(ys) - g
    <3>1. PICK a \in Nat, b \in Nat : a = Len(as) /\ b = Len(bs) BY <1>5
    <3>2. a - h = b - g BY <2>5, <3>1
    <3>3. (a + 1) - h = (b + 1) - g BY <2>2, <2>6, <3>2
    <3> QED BY <1>5, <3>1, <3>3
  <2> QED BY <2>1, <2>5, <2>9, <2>10 DEF Matches
<1> QED BY <1>3, <1>6, <1>7 DEF Extension

\* Where two sequences stand at the same point, what continues one continues
\* the other, and they stay together.
LEMMA PointsContinue ==
  ASSUME NEW os \in Seq(Messages), NEW ms \in Seq(Messages), SamePoint(os, ms), NEW m \in Messages, Continues(ms, m)
  PROVE  Continues(os, m) /\ SamePoint(Append(os, m), Append(ms, m))
<1>1. /\ os = <<>> <=> ms = <<>>
      /\ hasUserMessage(os) <=> hasUserMessage(ms)
      /\ Covers(os, ms) /\ Covers(ms, os)
  BY SamePointIs
<1>2. Closed(ms) => Closed(os) BY <1>1 DEF Covers, Closed
<1>3. ASSUME NEW g \in DOMAIN ms, OpenAt(ms, g), m.callID = ms[g].calls[Len(ms) - g + 1][1]
      PROVE  \E h \in DOMAIN os : OpenAt(os, h) /\ m.callID = os[h].calls[Len(os) - h + 1][1]
  <2>1. PICK h \in DOMAIN os : OpenAt(os, h) /\ os[h].calls = ms[g].calls /\ Len(os) - h = Len(ms) - g
    BY <1>1, <1>3 DEF Covers, Matches
  <2> QED BY <1>3, <2>1
<1>4. Continues(os, m) BY <1>1, <1>2, <1>3 DEF Continues
<1>5. Covers(Append(os, m), Append(ms, m)) /\ Covers(Append(ms, m), Append(os, m)) BY <1>1, CoversOneMore
<1>6. /\ Append(os, m) # <<>> /\ Append(ms, m) # <<>>
      /\ hasUserMessage(Append(os, m)) <=> hasUserMessage(Append(ms, m))
  <2>1. Extension(Append(os, m), os, m) /\ Extension(Append(ms, m), ms, m) BY OneMore
  <2> QED BY <1>1, <2>1, Zenon DEF Extension
<1>7. SamePoint(Append(os, m), Append(ms, m)) BY <1>5, <1>6, SamePointIs, Zenon
<1> QED BY <1>4, <1>7

-----------------------------------------------------------------------------
(* Compaction.                                                             *)

\* Trimming a working set leaves the talk as it was.
LEMMA LikeTalks ==
  ASSUME NEW ms \in Seq(Messages), NEW as, Like(as, ms)
  PROVE  /\ as \in Seq(Messages) /\ Len(as) = Len(ms) /\ DOMAIN as = DOMAIN ms
         /\ \A i \in DOMAIN ms :
              /\ as[i].seq = ms[i].seq /\ as[i].role = ms[i].role /\ (HasCalls(as[i]) <=> HasCalls(ms[i]))
              /\ HasCalls(ms[i]) => as[i].calls = ms[i].calls
              /\ ms[i].role = "tool" => as[i].callID = ms[i].callID
              /\ OpenAt(as, i) <=> OpenAt(ms, i)
<1>1. as \in Seq(Messages) /\ DOMAIN as = DOMAIN ms /\ \A i \in DOMAIN ms : Echoes(as[i], ms[i]) BY DEF Like
<1>2. Len(as) = Len(ms)
  <2>1. Len(as) \in Nat /\ Len(ms) \in Nat /\ 1..Len(as) = 1..Len(ms) BY <1>1, Positions
  <2> QED BY <2>1, SameLength
<1>3. ASSUME NEW i \in DOMAIN ms
      PROVE  /\ as[i].seq = ms[i].seq /\ as[i].role = ms[i].role /\ (HasCalls(as[i]) <=> HasCalls(ms[i]))
             /\ HasCalls(ms[i]) => as[i].calls = ms[i].calls
             /\ ms[i].role = "tool" => as[i].callID = ms[i].callID
  <2>1. Echoes(as[i], ms[i]) BY <1>1
  <2> QED BY <2>1 DEF Echoes, HasCalls, IsAssistant
<1>4. ASSUME NEW i \in DOMAIN ms PROVE OpenAt(as, i) <=> OpenAt(ms, i) BY <1>2, <1>3 DEF OpenAt
<1> QED BY <1>1, <1>2, <1>3, <1>4

\* The same for what is said of the talk as a whole
LEMMA LikeKeepsTalk ==
  ASSUME NEW ms \in Seq(Messages), NEW as, Like(as, ms), Dialogue(ms)
  PROVE  /\ Dialogue(as) /\ (Closed(as) <=> Closed(ms)) /\ (hasUserMessage(as) <=> hasUserMessage(ms))
         /\ \A os : SamePoint(os, ms) => SamePoint(os, as)
<1>1. as \in Seq(Messages) /\ Len(as) = Len(ms) /\ DOMAIN as = DOMAIN ms BY LikeTalks
<1>2. ASSUME NEW i \in DOMAIN ms
      PROVE  /\ as[i].seq = ms[i].seq /\ as[i].role = ms[i].role /\ (HasCalls(as[i]) <=> HasCalls(ms[i]))
             /\ HasCalls(ms[i]) => as[i].calls = ms[i].calls
             /\ ms[i].role = "tool" => as[i].callID = ms[i].callID
             /\ OpenAt(as, i) <=> OpenAt(ms, i)
  BY LikeTalks
<1>3. Closed(as) <=> Closed(ms) BY <1>1, <1>2 DEF Closed
<1>4. hasUserMessage(as) <=> hasUserMessage(ms) BY <1>1, <1>2 DEF hasUserMessage
<1>5. ASSUME NEW i \in DOMAIN as, HasCalls(as[i]), NEW k \in DOMAIN as[i].calls
      PROVE  /\ as[i].calls[k][1] = <<as[i].seq, k>>
             /\ i + k <= Len(as) => as[i+k].role = "tool" /\ as[i+k].callID = as[i].calls[k][1]
  <2>1. i \in DOMAIN ms /\ HasCalls(ms[i]) /\ as[i].calls = ms[i].calls /\ as[i].seq = ms[i].seq
    BY <1>1, <1>2, <1>5
  <2>2. k \in DOMAIN ms[i].calls BY <1>5, <2>1
  <2>3. ms[i].calls[k][1] = <<ms[i].seq, k>> BY <2>1, <2>2, Zenon DEF Dialogue
  <2>4. i + k <= Len(ms) => ms[i+k].role = "tool" /\ ms[i+k].callID = ms[i].calls[k][1]
    BY <2>1, <2>2 DEF Dialogue
  <2>5. i + k <= Len(ms) => i + k \in DOMAIN ms
    <3>1. i \in Nat /\ 1 <= i /\ k \in Nat BY <2>1, <2>2, GroupTyped
    <3> QED BY <3>1, Positions
  <2>6. i + k <= Len(ms) => as[i+k].role = ms[i+k].role /\ (ms[i+k].role = "tool" => as[i+k].callID = ms[i+k].callID)
    BY <1>2, <2>5
  <2> QED BY <1>1, <2>1, <2>3, <2>4, <2>6
<1>6. ASSUME NEW i \in DOMAIN as, as[i].role = "tool"
      PROVE  \E g \in 1..i-1 : HasCalls(as[g]) /\ i - g \in DOMAIN as[g].calls
  <2>1. i \in DOMAIN ms /\ ms[i].role = "tool" BY <1>1, <1>2, <1>6
  <2>2. PICK g \in 1..i-1 : HasCalls(ms[g]) /\ i - g \in DOMAIN ms[g].calls BY <2>1 DEF Dialogue
  <2>3. g \in DOMAIN ms BY <2>1, Positions
  <2> QED BY <1>2, <2>2, <2>3
<1>7. ASSUME NEW i \in DOMAIN as, IsAssistant(as[i]) PROVE hasUserMessage(as)
  <2>1. i \in DOMAIN ms /\ IsAssistant(ms[i]) BY <1>1, <1>2, <1>7 DEF IsAssistant
  <2> QED BY <1>4, <2>1 DEF Dialogue
<1>8. Dialogue(as) BY <1>5, <1>6, <1>7 DEF Dialogue
<1>9. ASSUME NEW os, SamePoint(os, ms) PROVE SamePoint(os, as)
  <2>1. /\ os = <<>> <=> ms = <<>>
        /\ hasUserMessage(os) <=> hasUserMessage(ms)
        /\ Covers(os, ms) /\ Covers(ms, os)
    BY <1>9, SamePointIs
  <2>2. as = <<>> <=> ms = <<>> BY <1>1, Positions
  <2>3. \A g \in DOMAIN ms : OpenAt(ms, g) =>
          as[g].calls = ms[g].calls /\ \A h : Matches(os, h, as, g) <=> Matches(os, h, ms, g)
    BY <1>1, <1>2 DEF Matches, OpenAt
  <2>4. Covers(os, as) BY <1>1, <1>2, <2>1, <2>3 DEF Covers
  <2>5. \A g \in DOMAIN ms : OpenAt(ms, g) => \A h : Matches(as, g, os, h) <=> Matches(ms, g, os, h)
    BY <1>1, <1>2 DEF Matches, OpenAt
  <2>6. Covers(as, os) BY <1>1, <1>2, <2>1, <2>5 DEF Covers
  <2> QED BY <1>4, <2>1, <2>2, <2>4, <2>6, SamePointIs, Zenon
<1> QED BY <1>3, <1>4, <1>8, <1>9

\* A summary that ends before a call group takes whole groups only.
LEMMA SummaryKeepsTalk ==
  ASSUME NEW ms \in Seq(Messages), Finished(ms), NEW as, NEW p \in DOMAIN ms, HasCalls(ms[p]), Layout(as, ms, p),
         ms[1].role = "system"
  PROVE  Finished(as)
<1>1. as \in Seq(Messages) /\ Dialogue(ms) /\ Closed(ms) BY DEF Layout, Finished
<1>2. PICK n \in Nat, k \in Nat :
        /\ n >= 3 /\ n + k = Len(ms) /\ k + 3 = p /\ Len(as) = n
        /\ as[1] = ms[1] /\ as[2].role = "user"
        /\ \A i \in 3..n : as[i] = ms[i + k]
  BY DEF Layout
<1>3. DOMAIN as = 1..n /\ DOMAIN ms = 1..(n + k) BY <1>1, <1>2, Positions
<1>4. hasUserMessage(as)
  <2>1. 2 \in DOMAIN as BY <1>2, <1>3
  <2> QED BY <1>2, <2>1 DEF hasUserMessage
<1>5. ASSUME NEW i \in DOMAIN as, IsAssistant(as[i]) \/ as[i].role = "tool"
      PROVE  i \in 3..n /\ i + k \in DOMAIN ms /\ as[i] = ms[i + k]
  <2>1. i # 1 /\ i # 2 BY <1>2, <1>5 DEF IsAssistant
  <2>2. i \in 3..n BY <1>2, <1>3, <2>1
  <2>3. i + k \in 1..(n + k) BY <2>2
  <2> QED BY <1>2, <1>3, <2>2, <2>3
<1>6. ASSUME NEW i \in DOMAIN as, HasCalls(as[i]), NEW j \in DOMAIN as[i].calls
      PROVE  /\ as[i].calls[j][1] = <<as[i].seq, j>>
             /\ i + j <= Len(as) => as[i+j].role = "tool" /\ as[i+j].callID = as[i].calls[j][1]
  <2>1. IsAssistant(as[i]) BY <1>6 DEF HasCalls
  <2>2. i \in 3..n /\ i + k \in DOMAIN ms /\ as[i] = ms[i + k] BY <1>5, <2>1
  <2>3. HasCalls(ms[i + k]) /\ j \in DOMAIN ms[i + k].calls BY <1>6, <2>2
  <2>4. ms[i + k].calls[j][1] = <<ms[i + k].seq, j>> BY <1>1, <2>2, <2>3, Zenon DEF Dialogue
  <2>5. ASSUME i + j <= Len(as)
        PROVE  as[i+j].role = "tool" /\ as[i+j].callID = as[i].calls[j][1]
    <3>1. j \in Nat /\ i \in Nat BY <1>6, <2>2, <2>3, GroupTyped
    <3>2. (i + k) + j <= Len(ms) /\ i + j \in 3..n /\ (i + j) + k = (i + k) + j BY <1>2, <2>2, <2>5, <3>1
    <3>3. ms[(i + k) + j].role = "tool" /\ ms[(i + k) + j].callID = ms[i + k].calls[j][1]
      BY <1>1, <2>2, <2>3, <3>2, Zenon DEF Dialogue
    <3>4. as[i + j] = ms[(i + j) + k] BY <1>2, <3>2
    <3> QED BY <2>2, <3>2, <3>3, <3>4
  <2> QED BY <2>2, <2>4, <2>5
<1>7. ASSUME NEW i \in DOMAIN as, as[i].role = "tool"
      PROVE  \E g \in 1..i-1 : HasCalls(as[g]) /\ i - g \in DOMAIN as[g].calls
  <2>1. i \in 3..n /\ i + k \in DOMAIN ms /\ ms[i + k].role = "tool" BY <1>5, <1>7
  <2>2. PICK h \in 1..(i + k)-1 : HasCalls(ms[h]) /\ (i + k) - h \in DOMAIN ms[h].calls
    BY <1>1, <2>1, Zenon DEF Dialogue
  <2>3. h \in DOMAIN ms BY <1>2, <1>3, <2>1
  <2>4. Len(ms[h].calls) \in Nat /\ DOMAIN ms[h].calls = 1..Len(ms[h].calls) /\ h \in Nat BY <2>3, GroupTyped
  <2>5. h >= p
    <3>1. SUFFICES ASSUME h < p PROVE FALSE BY <1>2, <2>4
    <3>2. h + Len(ms[h].calls) < p BY <1>1, <2>2, <2>3, <3>1, GroupsApart
    <3>3. (i + k) - h <= Len(ms[h].calls) BY <2>2, <2>4
    <3> QED BY <1>2, <2>1, <2>4, <3>2, <3>3
  <2>6. PICK g \in 3..n : g + k = h
    <3>1. h - k \in 3..n /\ (h - k) + k = h BY <1>2, <2>1, <2>4, <2>5
    <3> QED BY <3>1
  <2>7. as[g] = ms[h] BY <1>2, <2>6
  <2>8. (i + k) - h = i - g /\ g \in 1..i-1
    <3>1. (i + k) - (g + k) = i - g BY <2>1, <2>6
    <3>2. g + k <= (i + k) - 1 BY <2>1, <2>2, <2>6
    <3>3. g \in 1..i-1 BY <2>1, <2>6, <3>2
    <3> QED BY <2>6, <3>1, <3>3
  <2> QED BY <2>2, <2>7, <2>8
<1>8. Dialogue(as) BY <1>4, <1>6, <1>7 DEF Dialogue
<1>9. Closed(as)
  <2>1. SUFFICES ASSUME NEW g \in DOMAIN as, OpenAt(as, g) PROVE FALSE BY DEF Closed
  <2>2. IsAssistant(as[g]) BY <2>1 DEF OpenAt, HasCalls
  <2>3. g \in 3..n /\ g + k \in DOMAIN ms /\ as[g] = ms[g + k] BY <1>5, <2>2
  <2>4. HasCalls(ms[g + k]) /\ g + Len(ms[g + k].calls) > n BY <1>2, <2>1, <2>3 DEF OpenAt
  <2>5. Len(ms[g + k].calls) \in Nat BY <2>3, GroupTyped
  <2>6. (g + k) + Len(ms[g + k].calls) > Len(ms) BY <1>2, <2>3, <2>4, <2>5
  <2> QED BY <1>1, <2>3, <2>4, <2>6 DEF Closed, OpenAt
<1> QED BY <1>4, <1>8, <1>9 DEF Finished

\* Whatever a compaction does to a finished talk, it is one.
LEMMA TrimmedIsFinished ==
  ASSUME NEW ms \in Seq(Messages), NEW last, Working(ms, last), Finished(ms), NEW as, Trimmed(as, ms)
  PROVE  Finished(as)
<1>1. ASSUME NEW x, Like(x, ms) PROVE x \in Seq(Messages) /\ Finished(x)
  <2>1. x \in Seq(Messages) BY <1>1 DEF Like
  <2> QED BY <1>1, <2>1, LikeKeepsTalk DEF Finished
<1>2. CASE Like(as, ms) BY <1>1, <1>2
<1>3. ASSUME NEW local, Like(local, ms), NEW p \in collectToolCallGroups(ms), Layout(as, local, p) PROVE Finished(as)
  <2>1. p \in DOMAIN ms /\ HasCalls(ms[p]) BY <1>3 DEF collectToolCallGroups
  <2>2. local \in Seq(Messages) /\ Finished(local) BY <1>1, <1>3
  <2>3. p \in DOMAIN local /\ HasCalls(local[p]) BY <1>3, <2>1, LikeTalks
  <2>4. 1 \in DOMAIN ms BY <2>1, Positions
  <2>5. local[1].role = "system" BY <1>3, <2>4, LikeTalks DEF Working
  <2> QED BY <1>3, <2>2, <2>3, <2>5, SummaryKeepsTalk
<1> QED BY <1>2, <1>3 DEF Trimmed

\* A finished talk that replaces another stands at its point.
LEMMA FinishedReplaces ==
  ASSUME NEW os \in Seq(Messages), NEW ms \in Seq(Messages), SamePoint(os, ms), Finished(ms), NEW as, Finished(as)
  PROVE  SamePoint(os, as)
<1>1. /\ os = <<>> <=> ms = <<>>
      /\ hasUserMessage(os) <=> hasUserMessage(ms)
      /\ Covers(os, ms) /\ Covers(ms, os)
  BY SamePointIs
<1>2. \A x : hasUserMessage(x) => x # <<>> BY DEF hasUserMessage
<1>3. Closed(os) /\ Closed(as) BY <1>1 DEF Covers, Closed, Finished
<1>4. Covers(os, as) /\ Covers(as, os) BY <1>3 DEF Covers, Closed
<1>5. hasUserMessage(os) /\ hasUserMessage(as) BY <1>1 DEF Finished
<1>6. os # <<>> /\ as # <<>> BY <1>2, <1>5
<1> QED BY <1>4, <1>5, <1>6, SamePointIs, Zenon

-----------------------------------------------------------------------------
(* Recovery, and the calls a run still has to answer.                      *)

\* latestGroup is the last group, 0 when there is none.
LEMMA LatestGroup ==
  ASSUME NEW ms \in Seq(Messages), NEW at, at = latestGroup(ms)
  PROVE  /\ at = 0 => \A g \in DOMAIN ms : ~HasCalls(ms[g])
         /\ at # 0 => at \in DOMAIN ms /\ HasCalls(ms[at]) /\ \A g \in DOMAIN ms : HasCalls(ms[g]) => g <= at
<1> DEFINE S == {i \in 1..Len(ms) : HasCalls(ms[i])}
<1>1. Len(ms) \in Nat /\ DOMAIN ms = 1..Len(ms) BY Positions
<1>2. at = IF S # {} THEN Max(S) ELSE 0 BY DEF latestGroup, SelectLastInSeq
<1>3. S \in SUBSET (0..Len(ms)) BY <1>1
<1>4. CASE S = {} BY <1>1, <1>2, <1>4
<1>5. CASE S # {}
  <2>1. at \in S /\ \A y \in S : at >= y BY <1>1, <1>2, <1>3, <1>5, MaxIs
  <2>2. at \in DOMAIN ms /\ HasCalls(ms[at]) /\ at # 0 BY <1>1, <2>1
  <2>3. \A g \in DOMAIN ms : HasCalls(ms[g]) => g <= at BY <1>1, <2>1
  <2> QED BY <2>2, <2>3
<1> QED BY <1>4, <1>5

\* The results that are missing are those that the working set has no room
\* for yet: the rest of the latest group.
LEMMA MissingIsRest ==
  ASSUME NEW ms \in Seq(Messages), Dialogue(ms), NEW at, at = latestGroup(ms), at # 0, NEW k
  PROVE  k \in missingToolResults(ms) <=> (k \in 1..Len(ms[at].calls) /\ at + k > Len(ms))
<1>1. at \in DOMAIN ms /\ HasCalls(ms[at]) /\ \A g \in DOMAIN ms : HasCalls(ms[g]) => g <= at BY LatestGroup
<1>2. PICK n \in Nat : n = Len(ms[at].calls) BY <1>1, GroupTyped
<1>3. at \in Nat /\ 1 <= at /\ at <= Len(ms) /\ Len(ms) \in Nat /\ DOMAIN ms[at].calls = 1..n
  BY <1>1, <1>2, GroupTyped
<1>4. DOMAIN ms = 1..Len(ms) BY Positions
<1>5. k \in missingToolResults(ms) <=>
        /\ k \in 1..n
        /\ ~\E j \in DOMAIN ms : j > at /\ ms[j].role = "tool" /\ ms[j].callID = ms[at].calls[k][1]
  BY <1>3 DEF missingToolResults
<1>6. ASSUME k \in 1..n, at + k <= Len(ms)
      PROVE  \E j \in DOMAIN ms : j > at /\ ms[j].role = "tool" /\ ms[j].callID = ms[at].calls[k][1]
  <2>1. at + k \in DOMAIN ms /\ at + k > at BY <1>3, <1>4, <1>6
  <2>2. ms[at + k].role = "tool" /\ ms[at + k].callID = ms[at].calls[k][1] BY <1>1, <1>3, <1>6 DEF Dialogue
  <2> QED BY <2>1, <2>2
<1>7. ASSUME k \in 1..n, NEW j \in DOMAIN ms, j > at, ms[j].role = "tool", ms[j].callID = ms[at].calls[k][1]
      PROVE  at + k <= Len(ms)
  <2>1. PICK g \in 1..j-1 : HasCalls(ms[g]) /\ j - g \in DOMAIN ms[g].calls BY <1>7 DEF Dialogue
  <2>2. g \in DOMAIN ms /\ g \in Nat /\ j \in Nat /\ j <= Len(ms) BY <1>4, <1>3
  <2>3. Len(ms[g].calls) \in Nat /\ DOMAIN ms[g].calls = 1..Len(ms[g].calls) BY <2>2, GroupTyped
  <2>4. g = at
    <3>1. SUFFICES ASSUME g < at PROVE FALSE BY <1>1, <1>3, <2>1, <2>2
    <3>2. g + Len(ms[g].calls) < at BY <1>1, <2>1, <2>2, <3>1, GroupsApart
    <3>3. j - g <= Len(ms[g].calls) BY <2>1, <2>3
    <3> QED BY <1>3, <1>7, <2>2, <2>3, <3>2, <3>3
  <2>5. PICK q \in DOMAIN ms[at].calls : at + q = j
    <3>1. j - at \in DOMAIN ms[at].calls /\ at + (j - at) = j BY <1>3, <2>1, <2>2, <2>4
    <3> QED BY <3>1
  <2>6. at + q <= Len(ms) BY <2>2, <2>5
  <2>7. ms[at + q].callID = ms[at].calls[q][1] BY <1>1, <2>5, <2>6 DEF Dialogue
  <2>8. ms[at].calls[q][1] = <<ms[at].seq, q>> /\ ms[at].calls[k][1] = <<ms[at].seq, k>>
    BY <1>1, <1>3, <1>7, <2>5, Zenon DEF Dialogue
  <2>9. <<ms[at].seq, q>> = <<ms[at].seq, k>> BY <1>7, <2>5, <2>7, <2>8
  <2>10. q = k BY <2>9
  <2> QED BY <2>6, <2>10
<1>8. k \in 1..n => (at + k > Len(ms) <=> ~(at + k <= Len(ms))) BY <1>3
<1> QED BY <1>2, <1>5, <1>6, <1>7, <1>8

\* Where a result is missing, the latest group is open and the first missing
\* one is next.
LEMMA MissingIsNext ==
  ASSUME NEW ms \in Seq(Messages), Dialogue(ms), missingToolResults(ms) # {}
  PROVE  LET at == latestGroup(ms)
         IN at \in DOMAIN ms /\ OpenAt(ms, at) /\ Min(missingToolResults(ms)) = Len(ms) - at + 1
<1>1. PICK at : at = latestGroup(ms) OBVIOUS
<1>2. at # 0 BY <1>1 DEF missingToolResults
<1>3. at \in DOMAIN ms /\ HasCalls(ms[at]) BY <1>1, <1>2, LatestGroup
<1>4. PICK n \in Nat : n = Len(ms[at].calls) BY <1>3, GroupTyped
<1>5. at \in Nat /\ 1 <= at /\ at <= Len(ms) /\ Len(ms) \in Nat BY <1>3, GroupTyped
<1>6. PICK M : M = missingToolResults(ms) OBVIOUS
<1>7. \A k : k \in M <=> (k \in 1..n /\ at + k > Len(ms)) BY <1>1, <1>2, <1>4, <1>6, MissingIsRest
<1>8. PICK k \in M : TRUE BY <1>6
<1>9. k \in 1..n /\ at + k > Len(ms) BY <1>7
<1>10. at + n > Len(ms) BY <1>5, <1>9
<1>11. PICK x \in Nat : x = Len(ms) - at + 1 BY <1>5
<1>12. x \in 1..n /\ at + x > Len(ms) BY <1>5, <1>10, <1>11
<1>13. x \in M BY <1>7, <1>12
<1>14. \A y \in M : x <= y
  <2>1. ASSUME NEW y \in M PROVE x <= y
    <3>1. y \in 1..n /\ at + y > Len(ms) BY <1>7, <2>1
    <3> QED BY <1>5, <1>11, <3>1
  <2> QED BY <2>1
<1>15. M \in SUBSET Nat
  <2>1. \A y \in M : y \in 1..n BY <1>7
  <2> QED BY <2>1
<1>16. Min(M) = x BY <1>13, <1>14, <1>15, MinIs
<1>17. OpenAt(ms, at) BY <1>3, <1>4, <1>10 DEF OpenAt
<1> QED BY <1>1, <1>3, <1>6, <1>11, <1>16, <1>17

\* Where none is missing, no group is open.
LEMMA NoneMissingIsClosed ==
  ASSUME NEW ms \in Seq(Messages), Dialogue(ms), missingToolResults(ms) = {}
  PROVE  Closed(ms)
<1>1. SUFFICES ASSUME NEW g \in DOMAIN ms, OpenAt(ms, g) PROVE FALSE BY DEF Closed
<1>2. PICK at : at = latestGroup(ms) OBVIOUS
<1>3. HasCalls(ms[g]) /\ g + Len(ms[g].calls) > Len(ms) BY <1>1 DEF OpenAt
<1>4. at # 0 /\ at \in DOMAIN ms /\ HasCalls(ms[at]) /\ g <= at BY <1>2, <1>3, LatestGroup
<1>5. at <= g BY <1>1, <1>4, OpenIsLatest
<1>6. g \in Nat /\ at \in Nat /\ Len(ms[g].calls) \in Nat /\ Len(ms[g].calls) >= 1 BY <1>3, <1>4, GroupTyped
<1>7. g = at BY <1>4, <1>5, <1>6
<1>8. PICK n \in Nat : n = Len(ms[at].calls) BY <1>6, <1>7
<1>9. n \in 1..n BY <1>6, <1>7, <1>8
<1>10. n \in missingToolResults(ms) BY <1>2, <1>3, <1>4, <1>7, <1>8, <1>9, MissingIsRest
<1> QED BY <1>10

\* A session that needs no recovery, or is recovered, has no open group.
LEMMA RecoveredIsClosed ==
  ASSUME NEW ms \in Seq(Messages), Dialogue(ms), needsRecovery(ms) => missingToolResults(ms) = {}
  PROVE  Closed(ms)
<1>1. CASE needsRecovery(ms) BY <1>1, NoneMissingIsClosed
<1>2. CASE ~needsRecovery(ms)
  <2>1. SUFFICES ASSUME NEW g \in DOMAIN ms, OpenAt(ms, g) PROVE FALSE BY DEF Closed
  <2>2. IsAssistant(ms[g]) /\ ms[g].calls # <<>> BY <2>1 DEF OpenAt, HasCalls
  <2>3. hasUserMessage(ms) BY <2>2 DEF Dialogue
  <2>4. Len(ms) \in Nat /\ g \in Nat /\ g <= Len(ms) /\ Len(ms) \in DOMAIN ms /\ Last(ms) = ms[Len(ms)]
    BY GroupTyped, Positions DEF Last
  <2>5. IsAssistant(ms[Len(ms)]) /\ ms[Len(ms)].calls = <<>>
    BY <1>2, <2>3, <2>4 DEF needsRecovery, CanResume
  <2>6. g < Len(ms) BY <2>2, <2>4, <2>5
  <2>7. ms[Len(ms)].role = "tool" BY <2>1, <2>4, <2>6, OpenIsFollowed
  <2> QED BY <2>5, <2>7 DEF IsAssistant
<1> QED BY <1>1, <1>2

\* A result of the next call continues the messages of a run at its tools.
LEMMA AwaitedContinues ==
  ASSUME NEW ms \in Seq(Messages), Dialogue(ms), NEW todo \in Seq(CallNumbers \X Nat), todo # <<>>, Awaits(ms, todo),
         NEW m \in Messages, m.role = "tool", m.calls = <<>>, m.callID = Head(todo)[1]
  PROVE  Continues(ms, m) /\ Awaits(Append(ms, m), Tail(todo))
<1>1. PICK g \in DOMAIN ms :
        /\ HasCalls(ms[g]) /\ Len(ms) - g + Len(todo) = Len(ms[g].calls)
        /\ \A k \in DOMAIN todo : todo[k] = ms[g].calls[Len(ms) - g + k]
  BY DEF Awaits
<1>2. PICK n \in Nat, t \in Nat, c \in Nat : n = Len(ms) /\ t = Len(todo) /\ c = Len(ms[g].calls)
  BY GroupTyped
<1>3. g \in Nat /\ 1 <= g /\ g <= n BY <1>2, GroupTyped
<1>4. t # 0 /\ DOMAIN todo = 1..t /\ Head(todo) = todo[1] BY <1>2
<1>5. n - g + t = c BY <1>1, <1>2
<1>6. OpenAt(ms, g)
  <2>1. g + c > n BY <1>2, <1>3, <1>4, <1>5
  <2> QED BY <1>1, <1>2, <2>1 DEF OpenAt
<1>7. m.callID = ms[g].calls[Len(ms) - g + 1][1]
  <2>1. 1 \in DOMAIN todo BY <1>2, <1>4
  <2> QED BY <1>1, <1>4, <2>1
<1>8. Continues(ms, m) BY <1>6, <1>7 DEF Continues
<1>9. PICK as : as = Append(ms, m) OBVIOUS
<1>10. Extension(as, ms, m) BY <1>9, OneMore
<1>11. PICK rest : rest = Tail(todo) OBVIOUS
<1>12. Len(rest) = t - 1 /\ DOMAIN rest = 1..(t - 1) /\ \A k \in 1..(t - 1) : rest[k] = todo[k + 1]
  BY <1>2, <1>4, <1>11
<1>13. g \in DOMAIN as /\ as[g] = ms[g] /\ Len(as) = n + 1 BY <1>2, <1>10 DEF Extension
<1> HIDE <1>9, <1>11
<1>14. Len(as) - g + Len(rest) = Len(as[g].calls)
  <2>1. (n + 1) - g + (t - 1) = n - g + t BY <1>3
  <2> QED BY <1>2, <1>5, <1>12, <1>13, <2>1
<1>15. ASSUME NEW k \in DOMAIN rest PROVE rest[k] = as[g].calls[Len(as) - g + k]
  <2>1. k \in Nat /\ k + 1 \in DOMAIN todo /\ rest[k] = todo[k + 1] BY <1>2, <1>4, <1>12, <1>15
  <2>2. (n + 1) - g + k = n - g + (k + 1) BY <1>3, <2>1
  <2>3. todo[k + 1] = ms[g].calls[n - g + (k + 1)] BY <1>1, <1>2, <2>1
  <2> QED BY <1>13, <2>1, <2>2, <2>3
<1>16. Awaits(as, rest) BY <1>1, <1>13, <1>14, <1>15 DEF Awaits
<1> QED BY <1>8, <1>9, <1>11, <1>16

\* When nothing is awaited any more, the group is complete.
LEMMA NothingAwaited ==
  ASSUME NEW ms \in Seq(Messages), Dialogue(ms), NEW todo, todo = <<>>, Awaits(ms, todo)
  PROVE  Closed(ms)
<1>1. PICK g \in DOMAIN ms : HasCalls(ms[g]) /\ Len(ms) - g + Len(todo) = Len(ms[g].calls) BY DEF Awaits
<1>2. g \in Nat /\ Len(ms) \in Nat /\ Len(todo) = 0 BY GroupTyped
<1>3. g + Len(ms[g].calls) = Len(ms)
  <2>1. PICK n \in Nat : n = Len(ms) BY <1>2
  <2>2. n - g + 0 = Len(ms[g].calls) BY <1>1, <1>2, <2>1
  <2>3. g + (n - g + 0) = n BY <1>2
  <2> QED BY <2>1, <2>2, <2>3
<1>4. SUFFICES ASSUME NEW h \in DOMAIN ms, OpenAt(ms, h) PROVE FALSE BY DEF Closed
<1>5. g <= h /\ h \in Nat /\ h <= Len(ms) /\ HasCalls(ms[h]) /\ h + Len(ms[h].calls) > Len(ms)
  BY <1>1, <1>4, OpenIsLatest, GroupTyped DEF OpenAt
<1>6. g # h BY <1>2, <1>3, <1>5
<1>7. g < h BY <1>2, <1>5, <1>6
<1>8. g + Len(ms[g].calls) < h BY <1>1, <1>5, <1>7, GroupsApart
<1> QED BY <1>2, <1>3, <1>5, <1>8

\* After a reply with calls all of them are awaited.
LEMMA ReplyIsAwaited ==
  ASSUME NEW ms \in Seq(Messages), NEW m \in Messages, HasCalls(m), NEW todo, todo = m.calls
  PROVE  Awaits(Append(ms, m), todo)
<1>1. PICK as : as = Append(ms, m) OBVIOUS
<1>2. Extension(as, ms, m) BY <1>1, OneMore
<1> HIDE <1>1
<1>3. PICK g \in Nat : g = Len(ms) + 1 BY <1>2 DEF Extension
<1>4. g \in DOMAIN as /\ as[g] = m /\ Len(as) = g BY <1>2, <1>3 DEF Extension
<1>5. Len(m.calls) \in Nat /\ DOMAIN m.calls = 1..Len(m.calls) BY CallsTyped
<1>6. Len(as) - g + Len(todo) = Len(as[g].calls) BY <1>4, <1>5
<1>7. ASSUME NEW k \in DOMAIN todo PROVE todo[k] = as[g].calls[Len(as) - g + k]
  <2>1. k \in Nat BY <1>5, <1>7
  <2>2. g - g + k = k BY <2>1
  <2> QED BY <1>4, <2>2
<1>8. Awaits(as, todo) BY <1>4, <1>6, <1>7 DEF Awaits
<1> QED BY <1>1, <1>8

-----------------------------------------------------------------------------
(* What a request does to the history and the current working set.         *)

\* One message more in both
LEMMA ChronicleContinues ==
  ASSUME NEW os \in Seq(Messages), NEW ms \in Seq(Messages), Chronicle(os, ms), NEW m \in Messages, Continues(ms, m)
  PROVE  Chronicle(Append(os, m), Append(ms, m)) /\ Continues(os, m)
<1>1. Dialogue(os) /\ Dialogue(ms) /\ SamePoint(os, ms) BY DEF Chronicle
<1>2. Continues(os, m) /\ SamePoint(Append(os, m), Append(ms, m)) BY <1>1, PointsContinue
<1>3. Dialogue(Append(os, m)) /\ Dialogue(Append(ms, m)) BY <1>1, <1>2, DialogueContinues
<1>4. PICK as : as = Append(os, m) OBVIOUS
<1>5. Extension(as, os, m) BY <1>4, OneMore
<1> HIDE <1>4
<1>6. ASSUME NEW i \in DOMAIN as, as[i].calls # <<>> PROVE IsAssistant(as[i])
  <2>1. CASE i \in DOMAIN os
    <3>1. as[i] = os[i] BY <1>5, <2>1 DEF Extension
    <3> QED BY <1>6, <2>1, <3>1 DEF Chronicle
  <2>2. CASE i = Len(os) + 1
    <3>1. as[i] = m BY <1>5, <2>2 DEF Extension
    <3> QED BY <1>6, <3>1 DEF Continues
  <2> QED BY <1>5, <2>1, <2>2 DEF Extension
<1>7. Chronicle(as, Append(ms, m)) BY <1>2, <1>3, <1>4, <1>6 DEF Chronicle
<1> QED BY <1>2, <1>4, <1>7

\* Another working set for the same history
LEMMA ChronicleReplaced ==
  ASSUME NEW os \in Seq(Messages), NEW ms \in Seq(Messages), Chronicle(os, ms), NEW as,
         Like(as, ms) \/ (Finished(ms) /\ Finished(as))
  PROVE  Chronicle(os, as)
<1>1. CASE Like(as, ms) BY <1>1, LikeKeepsTalk DEF Chronicle
<1>2. CASE Finished(ms) /\ Finished(as) BY <1>2, FinishedReplaces DEF Chronicle, Finished
<1> QED BY <1>1, <1>2

\* A history says nothing new, or one message that continues it.
Speaks(os, news) == news = os \/ \E m \in Messages : news = Append(os, m) /\ Continues(os, m)

\* A request that fits and is applied
LEMMA RequestTells ==
  ASSUME TypeOK, Rows, NothingForgotten, ~gone, Chronicle(original, memory[ctx.gen]),
         NEW r \in Requested, Sound(r), Timely(r), Fitting(r),
         RequestAllowed(r), ApplyRequest(r), UNCHANGED <<artifacts, wiped, gone>>
  PROVE  Chronicle(original', memory'[ctx'.gen]) /\ Speaks(original, original')
<1>1. PICK s \in Sessions : s = r.snap BY DEF Requested
<1>2. original \in Seq(Messages) /\ memory[ctx.gen] \in Seq(Messages) BY Generations DEF TypeOK
<1>3. PICK os \in Seq(Messages), ms \in Seq(Messages) : os = original /\ ms = memory[ctx.gen] BY <1>2
<1>4. Chronicle(os, ms) BY <1>3
<1>5. Snapshot(s) BY <1>1 DEF Sound
<1>6. ASSUME NEW ps, original' = os, memory'[ctx'.gen] = ps, Chronicle(os, ps)
      PROVE  Chronicle(original', memory'[ctx'.gen]) /\ Speaks(original, original')
  BY <1>3, <1>6 DEF Speaks
<1>7. CASE r.op = "reserve"
  <2>1. ReserveMessageSequence BY <1>7 DEF ApplyRequest
  <2>2. original' = os /\ memory'[ctx'.gen] = ms BY <1>3, <2>1 DEF ReserveMessageSequence
  <2> QED BY <1>4, <1>6, <2>2
<1>8. CASE r.op = "create"
  <2>1. CreateAllowed(s) /\ CommitCreateMessage(s) BY <1>1, <1>8 DEF RequestAllowed, ApplyRequest
  <2>2. s.msgs # <<>> /\ (s.rev = 0 <=> Len(s.msgs) = 1) BY <1>1, <1>8 DEF Sound
  <2>3. PICK m : m = Last(s.msgs) OBVIOUS
  <2>4. m \in Messages BY <1>5, <2>1, <2>2, <2>3, CreateFits
  <2>5. /\ s.rev = ctx.rev /\ original' = Append(original, m)
        /\ GetRequestContext' = [rev |-> s.rev + 1, gen |-> s.gen, last |-> s.last, msgs |-> Append(memory[ctx.gen], m)]
    BY <1>5, <2>1, <2>2, <2>3, CreateMoves
  <2>6. memory'[ctx'.gen] = Append(ms, m) BY <1>3, <2>5 DEF GetRequestContext
  <2>7. Continues(ms, m) BY <1>1, <1>3, <1>8, <2>3, <2>5 DEF Fitting
  <2>8. Chronicle(Append(os, m), Append(ms, m)) /\ Continues(os, m) BY <1>4, <2>4, <2>7, ChronicleContinues
  <2>9. original' = Append(os, m) BY <1>3, <2>5
  <2>10. Speaks(os, Append(os, m)) BY <2>4, <2>8 DEF Speaks
  <2> QED BY <1>3, <2>6, <2>8, <2>9, <2>10
<1>9. CASE r.op = "update"
  <2>1. UpdateAllowed(s) /\ CommitUpdateMessage(s) BY <1>1, <1>9 DEF RequestAllowed, ApplyRequest
  <2>2. s.msgs # <<>> BY <1>1, <1>9 DEF Sound
  <2>3. PICK sys : sys = s.msgs[1] OBVIOUS
  <2>4. s.msgs \in Seq(Messages) /\ Working(s.msgs, s.last) BY <1>5, SessionTyped DEF Snapshot
  <2>5. 1 \in DOMAIN s.msgs BY <2>2, <2>4, Positions
  <2>6. sys \in Messages /\ sys.seq = 1 /\ sys.src = {1} /\ sys.role = "system"
    BY <2>2, <2>3, <2>4, <2>5, Positions DEF Working
  <2>7. /\ original' = original
        /\ GetRequestContext' = [rev |-> s.rev + 1, gen |-> s.gen, last |-> s.last,
                                 msgs |-> [memory[ctx.gen] EXCEPT ![1] = s.msgs[1]]]
    BY <1>5, <2>1, <2>2, UpdateMoves
  <2>8. PICK ps : ps = [ms EXCEPT ![1] = sys] OBVIOUS
  <2>9. memory'[ctx'.gen] = ps BY <1>3, <2>3, <2>7, <2>8 DEF GetRequestContext
  <2>10. ms # <<>> BY <1>3, <2>1 DEF UpdateAllowed
  <2>11. Working(ms, ctx.last) /\ ctx.last \in Nat BY <1>3, HeadTyped DEF Rows
  <2>12. Like(ps, ms) BY <2>6, <2>8, <2>10, <2>11, PromptReplaced
  <2>13. Chronicle(os, ps) BY <1>4, <2>12, ChronicleReplaced
  <2> QED BY <1>3, <1>6, <2>7, <2>9, <2>13
<1>10. CASE r.op = "generation"
  <2>1. NextGenerationAllowed(s) /\ CommitNextMemoryGeneration(s) BY <1>1, <1>10 DEF RequestAllowed, ApplyRequest
  <2>2. s.msgs # <<>> BY <1>1, <1>10 DEF Sound
  <2>3. s.rev = ctx.rev BY <2>1 DEF NextGenerationAllowed, SameRevision
  <2>4. Sources(s.msgs) = Sources(memory[ctx.gen]) BY <1>1, <1>10, <2>3 DEF Timely
  <2>5. /\ original' = original
        /\ GetRequestContext' = [rev |-> s.rev + 1, gen |-> s.gen, last |-> s.last, msgs |-> s.msgs]
    BY <1>5, <2>1, <2>2, <2>4, GenerationMoves
  <2>6. memory'[ctx'.gen] = s.msgs BY <2>5 DEF GetRequestContext
  <2>7. Finished(s.msgs) /\ Finished(ms) BY <1>1, <1>3, <1>10, <2>3 DEF Fitting
  <2>8. Chronicle(os, s.msgs) BY <1>4, <2>7, ChronicleReplaced
  <2> QED BY <1>3, <1>6, <2>5, <2>6, <2>8
<1> QED BY <1>7, <1>8, <1>9, <1>10 DEF Requested

\* A late request still fits, or is out of date, after any other write.
LEMMA FittingKept ==
  ASSUME TypeOK, ~gone, NEW r \in Requested, Timely(r), Fitting(r), Advances
  PROVE  Fitting(r)'
<1>1. CASE ctx' = ctx /\ memory' = memory BY <1>1 DEF Fitting
<1>2. CASE ctx'.rev = ctx.rev + 1
  <2>1. r.snap.rev <= ctx.rev /\ r.snap.rev \in Nat /\ ctx.rev \in Nat BY HeadTyped, SessionTyped DEF Timely, Requested
  <2>2. r.snap.rev # ctx'.rev BY <1>2, <2>1
  <2> QED BY <2>2 DEF Fitting
<1> QED BY <1>1, <1>2 DEF Advances

-----------------------------------------------------------------------------
(* One lemma per step.                                                     *)

\* What every step must show: the invariant again, and that a session that is
\* not deleted heard nothing new or one message that continues its history.
Voiced == TInv' /\ (gone => gone') /\ (gone \/ gone' \/ Speaks(original, original'))

\* Runs about to start or to end hold a dialogue, and nothing more is asked.
LEMMA HeardQuietly ==
  ASSUME NEW w, w.pc \in {"idle", "load", "sys", "recover", "finish"}, Dialogue(w.sess.msgs)
  PROVE  Heard(w)
BY DEF Heard

\* Nothing has been said yet.
LEMMA SilenceIsDialogue ==
  /\ Dialogue(<<>>) /\ Dialogue(NoSession.msgs)
  /\ Heard(Idle)
<1>1. Dialogue(<<>>) BY DEF Dialogue, IsAssistant
<1>2. NoSession.msgs = <<>> BY DEF NoSession
<1>3. Idle.pc = "idle" /\ Idle.sess = NoSession BY IdleHeld
<1> QED BY <1>1, <1>2, <1>3, HeardQuietly

\* A run that ends, whatever the reason
LEMMA HeardAtEnd ==
  ASSUME IInv, Heard(run), NEW next, NEW e, e \in {Failing(next), Ending("failed"), Idle}
  PROVE  Heard(e)
<1>1. PICK v : v = run OBVIOUS
<1>2. RunTyped(v) /\ HeldBy(v) BY <1>1 DEF IInv, TypeOK
<1>3. CASE e = Idle BY <1>3, SilenceIsDialogue
<1>4. CASE e = Failing(next)
  <2>1. PICK x, y, o : o = Ended(v, "failed") /\ e = Noting(o, x, y) BY <1>1, <1>4 DEF Failing, Ending, Ended, Noting
  <2>2. e.pc = "finish" /\ e.sess = v.sess BY <1>2, <2>1, FailingHeld
  <2>3. Dialogue(e.sess.msgs) BY <1>1, <2>2 DEF Heard
  <2> QED BY <2>2, <2>3, HeardQuietly
<1>5. CASE e = Ending("failed")
  <2>1. e = Ended(v, "failed") BY <1>1, <1>5 DEF Ended, Ending
  <2>2. e.pc = "finish" /\ e.sess = v.sess BY <1>2, <2>1, EndingHeld
  <2>3. Dialogue(e.sess.msgs) BY <1>1, <2>2 DEF Heard
  <2> QED BY <2>2, <2>3, HeardQuietly
<1> QED BY <1>3, <1>4, <1>5

\* A step that writes nothing
LEMMA QuietTells ==
  ASSUME TInv, UNCHANGED <<ctx, original, memory, gone>>, late' \subseteq late, NEW w, run' = w, Heard(w)
  PROVE  Voiced
<1>1. gone \/ Told' BY DEF TInv, Told, Fitting
<1>2. Heard(run') OBVIOUS
<1> QED BY <1>1, <1>2 DEF Voiced, TInv, Speaks

\* A request of a run that fits, sent with whatever luck
LEMMA SendTells ==
  ASSUME IInv, TInv, ~gone, NEW r, NEW w, Sends(r, w), Fitting(r), Heard(w), UNCHANGED <<artifacts, wiped>>
  PROVE  Voiced
<1>1. TypeOK /\ Rows /\ NothingForgotten /\ Requests /\ Told /\ Heard(run) BY DEF IInv, TInv
<1>2. r \in Requested /\ Sound(r) /\ Timely(r) BY FitsIsTimely DEF Sends, Fits
<1>3. Send(r, w) /\ gone' = gone BY DEF Sends, Send
<1>4. Heard(run')
  <2>1. run' \in {w} \cup {Failing(w), Idle} BY <1>3 DEF Send
  <2>2. PICK x : x = run' OBVIOUS
  <2>3. Heard(x) BY <1>1, <2>1, <2>2, HeardAtEnd
  <2> QED BY <2>2, <2>3
<1>5. \/ RequestAllowed(r) /\ ApplyRequest(r) /\ late' = late
      \/ UNCHANGED storeVars /\ late' \subseteq late \cup {r}
  BY <1>3 DEF Send
<1>6. CASE RequestAllowed(r) /\ ApplyRequest(r) /\ late' = late
  <2>1. Advances BY <1>1, <1>2, <1>3, <1>6, RequestMoves
  <2>2. Chronicle(original', memory'[ctx'.gen]) /\ Speaks(original, original')
    BY <1>1, <1>2, <1>3, <1>6, RequestTells DEF Told
  <2>3. ASSUME NEW q \in late PROVE Fitting(q)'
    BY <1>1, <2>1, <2>3, FittingKept DEF Requests, TypeOK, Told
  <2>4. Told' BY <1>6, <2>2, <2>3 DEF Told
  <2> QED BY <1>3, <1>4, <2>2, <2>4 DEF Voiced, TInv
<1>7. CASE UNCHANGED storeVars /\ late' \subseteq late \cup {r}
  <2>1. UNCHANGED <<ctx, original, memory>> BY <1>7 DEF storeVars
  <2>2. ASSUME NEW q \in late' PROVE Fitting(q)' BY <1>1, <1>7, <2>1, <2>2 DEF Told, Fitting
  <2>3. Told' BY <1>1, <2>1, <2>2 DEF Told
  <2> QED BY <1>3, <1>4, <2>1, <2>3 DEF Voiced, TInv, Speaks
<1> QED BY <1>5, <1>6, <1>7

\* What a run sends fits: at the revision that is current it holds what is stored.
LEMMA OwnRequestFits ==
  ASSUME IInv, ~gone, NEW r, r.snap.rev = run.sess.rev,
         r.op = "create" => Continues(run.sess.msgs, Last(r.snap.msgs)),
         r.op = "generation" => Finished(r.snap.msgs) /\ Finished(run.sess.msgs)
  PROVE  Fitting(r)
<1>1. Behind(run.sess) BY DEF IInv, InStep
<1>2. r.snap.rev = ctx.rev => run.sess.msgs = memory[ctx.gen] BY <1>1 DEF Behind, GetRequestContext
<1> QED BY <1>2 DEF Fitting

\* The run hears m and goes on as next says.
Hears(m, next) ==
  \A w : w.sess.msgs = Append(run.sess.msgs, m) /\ Dialogue(w.sess.msgs) /\ w.pc = next.pc /\ w.todo = next.todo
           => Heard(w)

\* A message that continues what the run holds
LEMMA AppendTells ==
  ASSUME IInv, TInv, ~gone, NEW m, NEW next, Appends(m, next), UNCHANGED <<artifacts, wiped>>,
         Continues(run.sess.msgs, m), Hears(m, next)
  PROVE  Voiced
<1>1. PICK r, w : /\ Sends(r, w)
                  /\ r.op = "create" /\ r.snap.rev = run.sess.rev /\ Last(r.snap.msgs) = m
                  /\ w.sess.msgs = Append(run.sess.msgs, m) /\ w.pc = next.pc /\ w.todo = next.todo
  BY AppendSends
<1>2. PICK ms : ms = run.sess.msgs OBVIOUS
<1>3. ms \in Seq(Messages) /\ m \in Messages BY <1>2, SessionTyped DEF IInv, TypeOK, RunTyped, Appends
<1>4. Dialogue(ms) /\ Continues(ms, m) BY <1>2 DEF TInv, Heard
<1>5. Dialogue(Append(ms, m)) BY <1>3, <1>4, DialogueContinues
<1>6. Heard(w) BY <1>1, <1>2, <1>5 DEF Hears
<1>7. Fitting(r) BY <1>1, OwnRequestFits
<1> QED BY <1>1, <1>6, <1>7, SendTells

\* The messages a run holds are typed, in a session that is there.
LEMMA RunHolds ==
  ASSUME IInv, TInv, run.pc # "idle"
  PROVE  /\ ~gone /\ run.sess.msgs \in Seq(Messages) /\ Dialogue(run.sess.msgs) /\ Heard(run)
         /\ run.todo \in Seq(CallNumbers \X Nat) /\ HeldBy(run)
<1>1. ~gone BY BusyIsHere
<1>2. run.sess \in Sessions /\ run.todo \in Seq(CallNumbers \X Nat) BY DEF IInv, TypeOK, RunTyped
<1>3. run.sess.msgs \in Seq(Messages) BY <1>2, SessionTyped
<1> QED BY <1>1, <1>2, <1>3 DEF TInv, Heard, IInv

\* A new run holds nothing.
LEMMA StartTells ==
  ASSUME IInv, TInv, NEW resume, StartRun(resume) \/ Execute
  PROVE  Voiced
<1>1. PICK w : w = run' OBVIOUS
<1>2. w = [Idle EXCEPT !.pc = "load", !.resume = resume] \/ w = [Idle EXCEPT !.pc = "load"]
  BY <1>1 DEF StartRun, Execute
<1>3. w.pc = "load" /\ w.sess = NoSession BY <1>2, StartedHeld
<1>4. Heard(w) BY <1>3, SilenceIsDialogue, HeardQuietly
<1>5. UNCHANGED <<ctx, original, memory, gone>> /\ late' = late BY DEF StartRun, Execute, storeVars
<1> QED BY <1>1, <1>4, <1>5, QuietTells

\* A run loads the stored working set.
LEMMA InitSessionTells ==
  ASSUME IInv, TInv, InitSession
  PROVE  Voiced
<1>1. run.pc = "load" BY DEF InitSession, At
<1>2. ~gone /\ Heard(run) BY <1>1, RunHolds
<1>3. PICK v : v = run OBVIOUS
<1>4. DOMAIN v = {"pc", "resume", "sess", "chat", "seq", "reason", "err", "cand", "todo", "streak", "cut", "changed"}
  BY <1>3, RunFields DEF IInv, TypeOK
<1>5. PICK c : c = GetRequestContext OBVIOUS
<1>6. Dialogue(c.msgs) BY <1>2, <1>5 DEF TInv, Told, Chronicle, GetRequestContext
<1>7. PICK w : w = run' OBVIOUS
<1>8. w = [v EXCEPT !.pc = "sys", !.sess = c] \/ w = Ending("failed") BY <1>3, <1>5, <1>7 DEF InitSession
<1>9. Heard(w)
  <2>1. CASE w = [v EXCEPT !.pc = "sys", !.sess = c]
    <3>1. w.pc = "sys" /\ w.sess = c BY <1>4, <2>1
    <3> QED BY <1>6, <3>1, HeardQuietly
  <2>2. CASE w = Ending("failed") BY <1>2, <2>2, HeardAtEnd
  <2> QED BY <1>8, <2>1, <2>2
<1>10. UNCHANGED <<ctx, original, memory, gone>> /\ late' = late BY DEF InitSession, storeVars
<1> QED BY <1>7, <1>9, <1>10, QuietTells

\* The system prompt opens the talk or is replaced in its place.
LEMMA InitSysPromptTells ==
  ASSUME IInv, TInv, InitSysPrompt
  PROVE  Voiced
<1>1. run.pc = "sys" /\ UNCHANGED <<artifacts, wiped>> BY DEF InitSysPrompt, At
<1>2. ~gone /\ Dialogue(run.sess.msgs) /\ run.sess.msgs \in Seq(Messages) /\ HeldBy(run) BY <1>1, RunHolds
<1>3. PICK ms \in Seq(Messages) : ms = run.sess.msgs BY <1>2
<1>4. PICK r, w : \E sys \in Messages :
        /\ Sends(r, w) /\ r.snap.rev = run.sess.rev /\ w.pc = "recover"
        /\ sys.seq = 1 /\ sys.src = {1} /\ sys.role = "system" /\ sys.calls = <<>>
        /\ run.sess.msgs = <<>> =>
             r.op = "create" /\ Last(r.snap.msgs) = sys /\ w.sess.msgs = Append(run.sess.msgs, sys)
        /\ run.sess.msgs # <<>> => r.op = "update" /\ w.sess.msgs = [run.sess.msgs EXCEPT ![1] = sys]
  BY InitSysPromptSends
<1>5. PICK sys \in Messages :
        /\ Sends(r, w) /\ r.snap.rev = run.sess.rev /\ w.pc = "recover"
        /\ sys.seq = 1 /\ sys.src = {1} /\ sys.role = "system" /\ sys.calls = <<>>
        /\ run.sess.msgs = <<>> =>
             r.op = "create" /\ Last(r.snap.msgs) = sys /\ w.sess.msgs = Append(run.sess.msgs, sys)
        /\ run.sess.msgs # <<>> => r.op = "update" /\ w.sess.msgs = [run.sess.msgs EXCEPT ![1] = sys]
  BY <1>4
<1>6. Dialogue(ms) BY <1>2, <1>3
<1>7. CASE ms = <<>>
  <2>1. Continues(ms, sys) BY <1>5, <1>7 DEF Continues
  <2>2. Dialogue(Append(ms, sys)) BY <1>6, <2>1, DialogueContinues
  <2>3. Heard(w) BY <1>3, <1>5, <1>7, <2>2, HeardQuietly
  <2>4. Fitting(r) BY <1>2, <1>3, <1>5, <1>7, <2>1, OwnRequestFits
  <2> QED BY <1>1, <1>2, <1>5, <2>3, <2>4, SendTells
<1>8. CASE ms # <<>>
  <2>1. PICK last \in Nat : Working(ms, last) BY <1>2, <1>3, SessionTyped DEF HeldBy, Snapshot, IInv, TypeOK, RunTyped
  <2>2. PICK as : as = [ms EXCEPT ![1] = sys] OBVIOUS
  <2>3. Like(as, ms) BY <1>5, <1>8, <2>1, <2>2, PromptReplaced
  <2>4. Dialogue(as) BY <1>6, <2>3, LikeKeepsTalk
  <2>5. w.sess.msgs = as /\ r.op = "update" BY <1>3, <1>5, <1>8, <2>2
  <2>6. Heard(w)
    <3>1. w.pc = "recover" BY <1>5
    <3>2. Dialogue(w.sess.msgs) BY <2>4, <2>5
    <3> QED BY <3>1, <3>2, HeardQuietly
  <2>7. Fitting(r) BY <2>5 DEF Fitting
  <2> QED BY <1>1, <1>2, <1>5, <2>6, <2>7, SendTells
<1> QED BY <1>7, <1>8

\* Reserving a number says nothing.
LEMMA ReserveTells ==
  ASSUME IInv, TInv, Reserve
  PROVE  Voiced
<1>1. PICK r, w : /\ Sends(r, w) /\ r.op = "reserve"
                  /\ w.pc = run.pc /\ w.pc \in Steps /\ w.sess = run.sess /\ w.todo = run.todo
  BY ReserveSends
<1>2. run.pc # "idle" /\ w.pc # "advance" BY <1>1 DEF Steps
<1>3. ~gone /\ Heard(run) BY <1>2, RunHolds
<1>4. Heard(w) BY <1>1, <1>2, <1>3 DEF Heard
<1>5. Fitting(r) BY <1>1 DEF Fitting
<1>6. UNCHANGED <<artifacts, wiped>> BY DEF Reserve
<1> QED BY <1>1, <1>3, <1>4, <1>5, <1>6, SendTells

\* A recovery note takes the place of the first result that is missing.
LEMMA RecoverResultTells ==
  ASSUME IInv, TInv, RecoverResult
  PROVE  Voiced
<1>1. run.pc = "recover" /\ UNCHANGED <<artifacts, wiped>> /\ missingToolResults(run.sess.msgs) # {}
  BY DEF RecoverResult, At
<1>2. ~gone /\ Dialogue(run.sess.msgs) /\ run.sess.msgs \in Seq(Messages) BY <1>1, RunHolds
<1>3. PICK ms \in Seq(Messages) : ms = run.sess.msgs BY <1>2
<1>4. PICK m, next :
        /\ Appends(m, next) /\ m.role = "tool" /\ m.calls = <<>>
        /\ m.callID = run.sess.msgs[latestGroup(run.sess.msgs)].calls[Min(missingToolResults(run.sess.msgs))][1]
        /\ next.pc = "recover"
  BY RecoverResultAppends
<1>5. PICK at : at = latestGroup(ms) OBVIOUS
<1>6. at \in DOMAIN ms /\ OpenAt(ms, at) /\ Min(missingToolResults(ms)) = Len(ms) - at + 1
  BY <1>1, <1>2, <1>3, <1>5, MissingIsNext
<1>7. m.callID = ms[at].calls[Len(ms) - at + 1][1] BY <1>3, <1>4, <1>5, <1>6
<1>8. Continues(ms, m) BY <1>4, <1>6, <1>7 DEF Continues
<1>9. Continues(run.sess.msgs, m) BY <1>3, <1>8
<1>10. ASSUME NEW w, Dialogue(w.sess.msgs), w.pc = next.pc PROVE Heard(w) BY <1>4, <1>10, HeardQuietly
<1>11. Hears(m, next) BY <1>10, Zenon DEF Hears
<1> QED BY <1>1, <1>2, <1>4, <1>9, <1>11, AppendTells

\* The user's message follows a closed group.
LEMMA AppendUserTells ==
  ASSUME IInv, TInv, AppendUser
  PROVE  Voiced
<1>1. run.pc = "user" /\ UNCHANGED <<artifacts, wiped>> BY DEF AppendUser, At
<1>2. ~gone /\ Heard(run) /\ run.sess.msgs \in Seq(Messages) /\ HeldBy(run) BY <1>1, RunHolds
<1>3. PICK ms \in Seq(Messages) : ms = run.sess.msgs BY <1>2
<1>4. PICK m, next : Appends(m, next) /\ m.role = "user" /\ m.calls = <<>> /\ next.pc = "prepare"
  BY AppendUserAppends
<1>5. m \in Messages BY <1>4 DEF Appends
<1>6. ms # <<>> /\ Closed(ms) BY <1>1, <1>2, <1>3 DEF HeldBy, Heard
<1>7. Continues(ms, m) BY <1>4, <1>6 DEF Continues
<1>8. PICK as : as = Append(ms, m) OBVIOUS
<1>9. Extension(as, ms, m) BY <1>5, <1>8, OneMore
<1>10. hasUserMessage(as) BY <1>4, <1>9 DEF Extension
<1>11. Closed(as)
  <2>1. ASSUME NEW g \in DOMAIN as PROVE ~OpenAt(as, g)
    <3>1. CASE g = Len(ms) + 1 BY <1>4, <1>9, <3>1 DEF Extension, HasCalls
    <3>2. CASE g \in DOMAIN ms
      <4>1. g \in Nat /\ Len(ms) \in Nat /\ Len(ms[g].calls) \in Nat BY <3>2, GroupTyped
      <4>2. ~(HasCalls(ms[g]) /\ g + Len(ms[g].calls) > Len(ms)) BY <1>6, <3>2 DEF Closed, OpenAt
      <4>3. ~(HasCalls(ms[g]) /\ g + Len(ms[g].calls) > Len(ms) + 1) BY <4>1, <4>2
      <4> QED BY <1>9, <3>2, <4>3 DEF Extension
    <3> QED BY <1>9, <2>1, <3>1, <3>2 DEF Extension
  <2> QED BY <2>1 DEF Closed
<1>12. ASSUME NEW w, w.sess.msgs = Append(run.sess.msgs, m), Dialogue(w.sess.msgs), w.pc = next.pc PROVE Heard(w)
  <2>1. w.sess.msgs = as BY <1>3, <1>8, <1>12
  <2> QED BY <1>4, <1>10, <1>11, <1>12, <2>1 DEF Heard, Finished
<1>13. Hears(m, next) BY <1>12, Zenon DEF Hears
<1>14. Continues(run.sess.msgs, m) BY <1>3, <1>7
<1> QED BY <1>1, <1>2, <1>4, <1>13, <1>14, AppendTells

\* A reply follows a finished talk; its calls are what the run answers next.
LEMMA CommitReplyTells ==
  ASSUME IInv, TInv, CommitReply
  PROVE  Voiced
<1>1. run.pc = "reply" /\ UNCHANGED <<artifacts, wiped>> BY DEF CommitReply, At
<1>2. ~gone /\ Heard(run) /\ run.sess.msgs \in Seq(Messages) BY <1>1, RunHolds
<1>3. PICK ms \in Seq(Messages) : ms = run.sess.msgs BY <1>2
<1>4. PICK m, next :
        /\ Appends(m, next) /\ m.role = "assistant" /\ m.seq \in 1..MaxSeq
        /\ \E reply \in Replies : m.calls = Numbered(reply.fps, m.seq)
        /\ next.pc \in {"finish", "tools"} /\ next.todo = m.calls
  BY CommitReplyAppends
<1>5. m \in Messages /\ (next.pc = "tools" => next.todo # <<>>) BY <1>4 DEF Appends, Proceeds
<1>6. Closed(ms) /\ hasUserMessage(ms) BY <1>1, <1>2, <1>3 DEF Heard, Finished
<1>7. IsAssistant(m) BY <1>4 DEF IsAssistant
<1>8. Continues(ms, m) BY <1>4, <1>6, <1>7 DEF Continues
<1>9. PICK as : as = Append(ms, m) OBVIOUS
<1>10. Extension(as, ms, m) BY <1>5, <1>9, OneMore
<1>11. hasUserMessage(as) BY <1>6, <1>10 DEF Extension
<1>12. ASSUME next.pc = "tools" PROVE Awaits(as, next.todo)
  <2>1. HasCalls(m) BY <1>4, <1>5, <1>7, <1>12 DEF HasCalls
  <2> QED BY <1>4, <1>5, <1>9, <2>1, ReplyIsAwaited
<1>13. ASSUME NEW w, w.sess.msgs = Append(run.sess.msgs, m), Dialogue(w.sess.msgs),
              w.pc = next.pc, w.todo = next.todo
       PROVE  Heard(w)
  <2>1. w.sess.msgs = as BY <1>3, <1>9, <1>13
  <2>2. CASE w.pc = "finish"
    <3>1. Dialogue(w.sess.msgs) BY <1>13
    <3> QED BY <2>2, <3>1, HeardQuietly
  <2>3. CASE w.pc = "tools"
    <3>1. Awaits(w.sess.msgs, w.todo) /\ hasUserMessage(w.sess.msgs) BY <1>11, <1>12, <1>13, <2>1, <2>3
    <3> QED BY <1>13, <2>3, <3>1 DEF Heard
  <2> QED BY <1>4, <1>13, <2>2, <2>3
<1>14. Hears(m, next) BY <1>13, Zenon DEF Hears
<1>15. Continues(run.sess.msgs, m) BY <1>3, <1>8
<1> QED BY <1>1, <1>2, <1>4, <1>14, <1>15, AppendTells

\* A result answers the first of the calls that are left.
LEMMA ToolCallTells ==
  ASSUME IInv, TInv, ToolCall
  PROVE  Voiced
<1>1. run.pc = "tools" /\ UNCHANGED <<artifacts, wiped>> BY DEF ToolCall, At
<1>2. /\ ~gone /\ Heard(run) /\ run.sess.msgs \in Seq(Messages) /\ Dialogue(run.sess.msgs)
      /\ run.todo \in Seq(CallNumbers \X Nat) /\ HeldBy(run)
  BY <1>1, RunHolds
<1>3. PICK ms \in Seq(Messages) : ms = run.sess.msgs BY <1>2
<1>4. PICK todo \in Seq(CallNumbers \X Nat) : todo = run.todo BY <1>2
<1>5. PICK m, next :
        /\ Appends(m, next) /\ m.role = "tool" /\ m.calls = <<>> /\ m.callID = Head(run.todo)[1]
        /\ next.todo = Tail(run.todo) /\ next.pc \in {"tools", "finish", "prepare"}
        /\ next.pc = "prepare" => next.todo = <<>>
  BY ToolCallAppends
<1>6. m \in Messages BY <1>5 DEF Appends
<1>7. todo # <<>> /\ Awaits(ms, todo) /\ hasUserMessage(ms) /\ Dialogue(ms)
  BY <1>1, <1>2, <1>3, <1>4 DEF HeldBy, Heard
<1>8. PICK rest : rest = Tail(todo) OBVIOUS
<1>9. m.callID = Head(todo)[1] /\ next.todo = rest BY <1>4, <1>5, <1>8
<1>10. PICK as : as = Append(ms, m) OBVIOUS
<1>11. Continues(ms, m) /\ Awaits(as, rest) BY <1>5, <1>6, <1>7, <1>8, <1>9, <1>10, AwaitedContinues
<1>12. Extension(as, ms, m) BY <1>6, <1>10, OneMore
<1>13. hasUserMessage(as) /\ as \in Seq(Messages) BY <1>7, <1>12 DEF Extension
<1> HIDE <1>8, <1>10
<1>14. ASSUME NEW w, w.sess.msgs = Append(run.sess.msgs, m), Dialogue(w.sess.msgs),
              w.pc = next.pc, w.todo = next.todo
       PROVE  Heard(w)
  <2>1. w.sess.msgs = as /\ w.todo = rest BY <1>3, <1>9, <1>10, <1>14
  <2>2. CASE w.pc = "finish"
    <3>1. Dialogue(w.sess.msgs) BY <1>14
    <3> QED BY <2>2, <3>1, HeardQuietly
  <2>3. CASE w.pc = "tools"
    <3>1. Awaits(w.sess.msgs, w.todo) /\ hasUserMessage(w.sess.msgs) BY <1>11, <1>13, <2>1
    <3> QED BY <1>14, <2>3, <3>1 DEF Heard
  <2>4. CASE w.pc = "prepare"
    <3>1. rest = <<>> BY <1>5, <1>9, <1>14, <2>4
    <3>2. Dialogue(as) BY <1>14, <2>1
    <3>3. Closed(as) BY <1>11, <1>13, <3>1, <3>2, NothingAwaited
    <3>4. Finished(w.sess.msgs) BY <1>13, <2>1, <3>2, <3>3 DEF Finished
    <3> QED BY <1>14, <2>4, <3>4 DEF Heard
  <2> QED BY <1>5, <1>14, <2>2, <2>3, <2>4
<1>15. Hears(m, next) BY <1>14, Zenon DEF Hears
<1>16. Continues(run.sess.msgs, m) BY <1>3, <1>11
<1> QED BY <1>1, <1>2, <1>5, <1>15, <1>16, AppendTells

\* Recovery is over when no group is open.
LEMMA RecoveredTells ==
  ASSUME IInv, TInv, Recovered
  PROVE  Voiced
<1>1. run.pc = "recover" BY DEF Recovered, At
<1>2. /\ ~gone /\ Heard(run) /\ run.sess.msgs \in Seq(Messages) /\ Dialogue(run.sess.msgs) BY <1>1, RunHolds
<1>3. PICK v : v = run OBVIOUS
<1>4. PICK ms \in Seq(Messages) : ms = v.sess.msgs BY <1>2, <1>3
<1>5. DOMAIN v = {"pc", "resume", "sess", "chat", "seq", "reason", "err", "cand", "todo", "streak", "cut", "changed"}
  BY <1>3, RunFields DEF IInv, TypeOK
<1>6. Dialogue(ms) /\ (needsRecovery(ms) => missingToolResults(ms) = {}) BY <1>2, <1>3, <1>4 DEF Recovered
<1>7. Closed(ms) BY <1>6, RecoveredIsClosed
<1>8. PICK w : w = run' OBVIOUS
<1>9. PICK streak : streak = recentToolStreak(v.sess.msgs) OBVIOUS
<1>10. \/ w = [v EXCEPT !.pc = "user"]
       \/ needsRecovery(ms) /\ w = [v EXCEPT !.pc = "prepare", !.streak = streak]
       \/ w = Ending("failed")
  BY <1>3, <1>4, <1>8, <1>9 DEF Recovered
<1>11. ASSUME w = [v EXCEPT !.pc = "user"] PROVE Heard(w)
  <2>1. w.pc = "user" /\ w.sess = v.sess BY <1>5, <1>11
  <2> QED BY <1>4, <1>6, <1>7, <2>1 DEF Heard
<1>12. ASSUME needsRecovery(ms), w = [v EXCEPT !.pc = "prepare", !.streak = streak] PROVE Heard(w)
  <2>1. w.pc = "prepare" /\ w.sess = v.sess BY <1>5, <1>12
  <2>2. Finished(ms) BY <1>6, <1>7, <1>12 DEF Finished, needsRecovery
  <2> QED BY <1>4, <1>6, <2>1, <2>2 DEF Heard
<1>13. ASSUME w = Ending("failed") PROVE Heard(w) BY <1>2, <1>13, HeardAtEnd
<1>14. Heard(w) BY <1>10, <1>11, <1>12, <1>13
<1>15. UNCHANGED <<ctx, original, memory, gone>> /\ late' = late BY DEF Recovered, storeVars
<1> QED BY <1>8, <1>14, <1>15, QuietTells

\* A compaction computes a finished talk from one.
LEMMA PrepareContextTells ==
  ASSUME IInv, TInv, PrepareContext
  PROVE  Voiced
<1> DEFINE cands(ms) == IF InputTokens(compactLocally(ms)) <= TargetTokens THEN {compactLocally(ms)}
                        ELSE compactWithSummary(compactLocally(ms), ProtectedStart(ms))
<1>1. run.pc = "prepare" BY DEF PrepareContext, At
<1>2. /\ ~gone /\ Heard(run) /\ run.sess.msgs \in Seq(Messages) /\ HeldBy(run) BY <1>1, RunHolds
<1>3. PICK v : v = run OBVIOUS
<1>4. PICK w : w = run' OBVIOUS
<1>5. PICK ms \in Seq(Messages) : ms = v.sess.msgs BY <1>2, <1>3
<1>6. DOMAIN v = {"pc", "resume", "sess", "chat", "seq", "reason", "err", "cand", "todo", "streak", "cut", "changed"}
  BY <1>3, RunFields DEF IInv, TypeOK
<1>7. Finished(ms) /\ Dialogue(ms) BY <1>1, <1>2, <1>3, <1>5 DEF Heard
<1>8. PICK last \in Nat : Working(ms, last)
  BY <1>2, <1>3, <1>5, SessionTyped DEF HeldBy, Snapshot, IInv, TypeOK, RunTyped
<1>9. ms # <<>> BY <1>1, <1>2, <1>3, <1>5 DEF HeldBy
<1>10. ASSUME w = [v EXCEPT !.pc = "reply"] PROVE Heard(w)
  <2>1. w.pc = "reply" /\ w.sess = v.sess BY <1>6, <1>10
  <2> QED BY <1>5, <1>7, <2>1 DEF Heard
<1>11. ASSUME NEW msgs \in cands(ms), w = [v EXCEPT !.pc = "advance", !.cand = msgs] PROVE Heard(w)
  <2>1. w.pc = "advance" /\ w.sess = v.sess /\ w.cand = msgs BY <1>6, <1>11
  <2>2. Trimmed(msgs, ms) BY <1>8, <1>9, <1>11, CompactedMessages
  <2>3. Finished(msgs) BY <1>7, <1>8, <2>2, TrimmedIsFinished
  <2> QED BY <1>5, <1>7, <2>1, <2>3 DEF Heard
<1>12. ASSUME w = Ending("failed") PROVE Heard(w) BY <1>2, <1>12, HeardAtEnd
<1>13. \/ w = [v EXCEPT !.pc = "reply"]
       \/ \E msgs \in cands(ms) : w = [v EXCEPT !.pc = "advance", !.cand = msgs]
       \/ w = Ending("failed")
  BY <1>3, <1>4, <1>5 DEF PrepareContext
<1>14. Heard(w) BY <1>10, <1>11, <1>12, <1>13
<1>15. UNCHANGED <<ctx, original, memory, gone>> /\ late' = late BY DEF PrepareContext, storeVars
<1> QED BY <1>4, <1>14, <1>15, QuietTells

\* The compacted talk becomes the current one.
LEMMA AdvanceGenerationTells ==
  ASSUME IInv, TInv, AdvanceGeneration
  PROVE  Voiced
<1>1. run.pc = "advance" /\ UNCHANGED <<artifacts, wiped>> BY DEF AdvanceGeneration, At
<1>2. ~gone /\ Heard(run) BY <1>1, RunHolds
<1>3. Finished(run.sess.msgs) /\ Finished(run.cand) BY <1>1, <1>2 DEF Heard
<1>4. PICK r, w : /\ Sends(r, w) /\ r.op = "generation" /\ r.snap.rev = run.sess.rev /\ r.snap.msgs = run.cand
                  /\ w.pc = "reply" /\ w.sess.msgs = run.cand
  BY AdvanceGenerationSends
<1>5. Heard(w) BY <1>3, <1>4 DEF Heard, Finished
<1>6. Fitting(r) BY <1>2, <1>3, <1>4, OwnRequestFits
<1> QED BY <1>1, <1>2, <1>4, <1>5, <1>6, SendTells

\* A run that fails, dies or is finished says nothing more.
LEMMA EndTells ==
  ASSUME IInv, TInv, Fail \/ Crash \/ FinishRun \/ FinishSubAgent
  PROVE  Voiced
<1>1. PICK v : v = run OBVIOUS
<1>2. PICK w : w = run' OBVIOUS
<1>3. RunTyped(v) /\ HeldBy(v) /\ Dialogue(v.sess.msgs) BY <1>1 DEF IInv, TypeOK, TInv, Heard
<1>4. ASSUME Fail PROVE Heard(w)
  <2>1. PICK why \in {"failed", "cancelled"} : \E x : w = [Ending(why) EXCEPT !.changed = x]
    <3>1. PICK ran \in BOOLEAN, why \in IF kind = "child" THEN {"failed", "cancelled"} ELSE {"failed"} :
            w = [Ending(why) EXCEPT !.changed = @ \/ ran]
      BY <1>2, <1>4 DEF Fail
    <3>2. why \in {"failed", "cancelled"} BY <3>1
    <3>3. w = [Ending(why) EXCEPT !.changed = Ending(why).changed \/ ran] BY <3>1
    <3> QED BY <3>2, <3>3
  <2>2. PICK e : e = Ended(v, why) OBVIOUS
  <2>3. PICK x : w = [e EXCEPT !.changed = x] BY <1>1, <2>1, <2>2 DEF Ending, Ended
  <2>4. RunTyped(e) /\ e.pc = "finish" /\ e.sess = v.sess BY <1>3, <2>1, <2>2, EndingHeld
  <2>5. DOMAIN e = {"pc", "resume", "sess", "chat", "seq", "reason", "err", "cand", "todo", "streak", "cut", "changed"}
    BY <2>4, RunFields
  <2>6. w.pc = "finish" /\ w.sess = v.sess BY <2>3, <2>4, <2>5
  <2>7. Dialogue(w.sess.msgs) BY <1>3, <2>6
  <2> QED BY <2>6, <2>7, HeardQuietly
<1>5. ASSUME Crash \/ FinishRun \/ FinishSubAgent PROVE Heard(w)
  <2>1. w = Idle BY <1>2, <1>5 DEF Crash, FinishRun, FinishSubAgent
  <2> QED BY <2>1, SilenceIsDialogue
<1>6. Heard(w) BY <1>4, <1>5
<1>7. UNCHANGED <<ctx, original, memory, gone>> /\ late' = late
  BY DEF Fail, Crash, FinishRun, FinishSubAgent, UpsertChatFiles, storeVars
<1> QED BY <1>2, <1>6, <1>7, QuietTells

\* A deleted session is no longer told.
LEMMA DeleteTells ==
  ASSUME TInv, Delete
  PROVE  Voiced
<1>1. gone' /\ run' = run BY DEF Delete
<1>2. PICK w : w = run OBVIOUS
<1>3. Heard(w) BY <1>2 DEF TInv
<1>4. Heard(run') BY <1>1, <1>2, <1>3
<1> QED BY <1>1, <1>4 DEF Voiced, TInv

\* A late request is refused, or fits.
LEMMA DeliverLateTells ==
  ASSUME IInv, TInv, NEW r \in late, DeliverLate(r)
  PROVE  Voiced
<1>1. late' \subseteq late /\ run' = run /\ gone' = gone /\ UNCHANGED <<artifacts, wiped, gone>> BY DEF DeliverLate
<1>2. PICK w : w = run OBVIOUS
<1>3. Heard(w) BY <1>2 DEF TInv
<1>4. Heard(run') BY <1>1, <1>2, <1>3
<1>5. CASE gone BY <1>1, <1>4, <1>5 DEF Voiced, TInv
<1>6. CASE ~gone
  <2>1. TypeOK /\ Rows /\ NothingForgotten /\ Requests /\ Told BY <1>6 DEF IInv, TInv
  <2>2. r \in Requested /\ Sound(r) /\ Timely(r) /\ Fitting(r) BY <2>1 DEF Requests, TypeOK, Told
  <2>3. CASE RequestAllowed(r)
    <3>1. ApplyRequest(r) BY <2>3 DEF DeliverLate
    <3>2. Advances BY <1>1, <2>1, <2>2, <2>3, <3>1, RequestMoves
    <3>3. Chronicle(original', memory'[ctx'.gen]) /\ Speaks(original, original')
      BY <1>1, <1>6, <2>1, <2>2, <2>3, <3>1, RequestTells DEF Told
    <3>4. ASSUME NEW q \in late PROVE Fitting(q)'
      BY <1>6, <2>1, <3>2, <3>4, FittingKept DEF Requests, TypeOK, Told
    <3>5. Told' BY <1>1, <3>3, <3>4 DEF Told
    <3> QED BY <1>1, <1>4, <1>6, <3>3, <3>5 DEF Voiced, TInv
  <2>4. CASE ~RequestAllowed(r)
    <3>1. UNCHANGED <<ctx, original, memory>> BY <2>4 DEF DeliverLate, storeVars
    <3> QED BY <1>1, <1>2, <1>3, <3>1, QuietTells
  <2> QED BY <2>3, <2>4
<1> QED BY <1>5, <1>6

\* A failed deletion, or a step of nothing
LEMMA StutterTells ==
  ASSUME TInv, DeleteFails \/ UNCHANGED vars
  PROVE  Voiced
<1>1. PICK w : w = run OBVIOUS
<1>2. Heard(w) BY <1>1 DEF TInv
<1>3. UNCHANGED <<ctx, original, memory, gone>> /\ late' \subseteq late /\ run' = w
  BY <1>1 DEF vars, DeleteFails, storeVars
<1> QED BY <1>2, <1>3, QuietTells

\* Every step keeps to the talk.
LEMMA StepTells ==
  ASSUME IInv, TInv, [Next]_vars
  PROVE  Voiced
<1>1. CASE \E resume \in BOOLEAN : StartRun(resume) BY <1>1, StartTells
<1>2. CASE Execute BY <1>2, StartTells
<1>3. CASE InitSession BY <1>3, InitSessionTells
<1>4. CASE InitSysPrompt BY <1>4, InitSysPromptTells
<1>5. CASE Reserve BY <1>5, ReserveTells
<1>6. CASE RecoverResult BY <1>6, RecoverResultTells
<1>7. CASE Recovered BY <1>7, RecoveredTells
<1>8. CASE AppendUser BY <1>8, AppendUserTells
<1>9. CASE PrepareContext BY <1>9, PrepareContextTells
<1>10. CASE AdvanceGeneration BY <1>10, AdvanceGenerationTells
<1>11. CASE CommitReply BY <1>11, CommitReplyTells
<1>12. CASE ToolCall BY <1>12, ToolCallTells
<1>13. CASE Fail \/ Crash \/ FinishRun \/ FinishSubAgent BY <1>13, EndTells
<1>14. CASE Delete BY <1>14, DeleteTells
<1>15. CASE \E r \in late : DeliverLate(r) BY <1>15, DeliverLateTells
<1>16. CASE DeleteFails \/ UNCHANGED vars BY <1>16, StutterTells
<1> QED BY <1>1, <1>2, <1>3, <1>4, <1>5, <1>6, <1>7, <1>8, <1>9, <1>10, <1>11, <1>12, <1>13, <1>14,
          <1>15, <1>16 DEF Next

\* Nothing has been told at first.
LEMMA FirstTold ==
  ASSUME Init
  PROVE  TInv
<1>1. original = <<>> /\ memory[ctx.gen] = <<>> /\ late = {} /\ run = Idle BY DEF Init, StoreInit, NoRow
<1>2. SamePoint(<<>>, <<>>) BY DEF SamePoint
<1>3. Chronicle(<<>>, <<>>) BY <1>2, SilenceIsDialogue DEF Chronicle
<1> QED BY <1>1, <1>3, SilenceIsDialogue DEF TInv, Told

-----------------------------------------------------------------------------
(* The theorems.                                                           *)

\* History, working sets, late requests and the run stand at the same point
\* of a talk in which calls and results follow each other in order.
THEOREM TalkIsKept == Spec => []TInv
<1>1. Init => TInv BY FirstTold
<1>2. IInv /\ TInv /\ [Next]_vars => TInv' BY StepTells DEF Voiced
<1> QED BY <1>1, <1>2, Inductive, PTL DEF Spec

\* The model is only asked with complete call groups: after a crash, after a
\* recovery, and after every trimming and summary.
THEOREM ModelIsAskedWithPairs == Spec => []RequestIsPaired
<1>1. IInv /\ TInv => RequestIsPaired
  <2> SUFFICES ASSUME IInv, TInv, run.pc = "reply" PROVE Paired(run.sess.msgs) BY DEF RequestIsPaired, At
  <2>1. PICK ms : ms = run.sess.msgs OBVIOUS
  <2>2. ms \in Seq(Messages) /\ Heard(run) BY <2>1, RunHolds
  <2>3. Finished(ms) BY <2>1, <2>2 DEF Heard
  <2>4. Paired(ms) BY <2>2, <2>3, FinishedIsPaired DEF Finished
  <2> QED BY <2>1, <2>4
<1> QED BY <1>1, Inductive, TalkIsKept, PTL

-----------------------------------------------------------------------------
(* The history implements Conversation.                                    *)

\* The calls of a message by identifier, and its entry in the log
Asked(m) == [k \in DOMAIN m.calls |-> m.calls[k][1]]

EntryOf(m) == [role |-> m.role, calls |-> Asked(m), answers |-> IF m.role = "tool" THEN m.callID ELSE <<>>]

\* Conversation's Open, of any log
OpenIn(log) ==
  LET groups == {i \in DOMAIN log : log[i].calls # <<>>}
      at == CHOOSE i \in groups : \A j \in groups : j <= i
  IN IF groups = {} THEN <<>>
     ELSE SubSeq(log[at].calls, Len(log) - at + 1, Len(log[at].calls))

\* Only the empty sequence has no length.
LEMMA EmptySequence ==
  ASSUME NEW S, NEW s \in Seq(S)
  PROVE  (s = <<>> <=> Len(s) = 0) /\ (s # <<>> => Head(s) = s[1])
OBVIOUS

\* As many identifiers as calls
LEMMA AskedTyped ==
  ASSUME NEW m \in Messages
  PROVE  /\ Asked(m) \in Seq(CallNumbers) /\ Len(Asked(m)) = Len(m.calls) /\ (Asked(m) = <<>> <=> m.calls = <<>>)
         /\ \A k \in 1..Len(m.calls) : Asked(m)[k] = m.calls[k][1]
<1>1. PICK n \in Nat : n = Len(m.calls) BY CallsTyped
<1>2. PICK cs : cs = m.calls OBVIOUS
<1>3. cs \in Seq(CallNumbers \X Nat) /\ DOMAIN cs = 1..n /\ (cs = <<>> <=> n = 0) BY <1>1, <1>2, CallsTyped
<1>4. \A k \in 1..n : cs[k] \in CallNumbers \X Nat BY <1>3
<1>5. \A k \in 1..n : cs[k][1] \in CallNumbers BY <1>4
<1>6. PICK as : as = [k \in 1..n |-> cs[k][1]] OBVIOUS
<1>7. as \in [1..n -> CallNumbers] BY <1>5, <1>6
<1>8. as \in Seq(CallNumbers) /\ Len(as) = n BY <1>7, Sequence
<1>9. as = <<>> <=> n = 0 BY <1>8, EmptySequence
<1>10. Asked(m) = as BY <1>2, <1>3, <1>6 DEF Asked
<1>11. \A k \in 1..n : as[k] = cs[k][1] BY <1>6
<1> QED BY <1>1, <1>2, <1>3, <1>8, <1>9, <1>10, <1>11

\* One entry for each message
LEMMA LogIs ==
  ASSUME NEW os \in Seq(Messages), NEW log, log = ConversationOf(os)
  PROVE  /\ log \in Seq({EntryOf(m) : m \in Messages}) /\ Len(log) = Len(os) /\ DOMAIN log = DOMAIN os
         /\ \A i \in DOMAIN os : log[i] = EntryOf(os[i])
<1>1. PICK n \in Nat : n = Len(os) /\ DOMAIN os = 1..n BY Positions
<1>2. log = [i \in 1..n |-> EntryOf(os[i])] BY <1>1 DEF ConversationOf, EntryOf, Asked
<1>3. \A i \in 1..n : EntryOf(os[i]) \in {EntryOf(m) : m \in Messages} BY <1>1, Positions
<1>4. log \in [1..n -> {EntryOf(m) : m \in Messages}] BY <1>2, <1>3
<1>5. log \in Seq({EntryOf(m) : m \in Messages}) /\ Len(log) = n /\ DOMAIN log = 1..n BY <1>4, Sequence
<1>6. \A i \in 1..n : log[i] = EntryOf(os[i]) BY <1>2
<1> QED BY <1>1, <1>5, <1>6

\* The fields of an entry
LEMMA LogEntries ==
  ASSUME NEW os \in Seq(Messages), NEW log, log = ConversationOf(os), NEW i \in DOMAIN os
  PROVE  log[i].calls = Asked(os[i]) /\ log[i].role = os[i].role
<1>1. log[i] = EntryOf(os[i]) BY LogIs, Zenon
<1> QED BY <1>1 DEF EntryOf

\* One message more is one entry more.
LEMMA LogGrows ==
  ASSUME NEW os \in Seq(Messages), NEW m \in Messages
  PROVE  ConversationOf(Append(os, m)) = Append(ConversationOf(os), EntryOf(m))
<1> DEFINE S == {EntryOf(x) : x \in Messages}
<1>1. PICK log, more, as : log = ConversationOf(os) /\ as = Append(os, m) /\ more = ConversationOf(as) OBVIOUS
<1>2. PICK n \in Nat : n = Len(os) BY Positions
<1>3. Extension(as, os, m) BY <1>1, OneMore
<1>4. log \in Seq(S) /\ Len(log) = n /\ DOMAIN os = 1..n /\ \A i \in 1..n : log[i] = EntryOf(os[i])
  BY <1>1, <1>2, LogIs, Positions
<1>5. as \in Seq(Messages) /\ Len(as) = n + 1 /\ as[n + 1] = m /\ \A i \in 1..n : as[i] = os[i]
  BY <1>2, <1>3, <1>4 DEF Extension
<1>6. DOMAIN as = 1..(n + 1) BY <1>2, <1>5, Positions
<1>7. more \in Seq(S) /\ Len(more) = n + 1 /\ \A i \in 1..(n + 1) : more[i] = EntryOf(as[i])
  <2>1. more = ConversationOf(as) /\ as \in Seq(Messages) BY <1>1, <1>5
  <2>2. more \in Seq(S) /\ Len(more) = Len(as) /\ \A i \in DOMAIN as : more[i] = EntryOf(as[i])
    BY <2>1, LogIs, Zenon
  <2> QED BY <1>5, <1>6, <2>2
<1>8. PICK e \in S : e = EntryOf(m) OBVIOUS
<1> HIDE DEF S
<1>9. PICK next : next = Append(log, e) OBVIOUS
<1>10. /\ next \in Seq(S) /\ Len(next) = n + 1 /\ next[n + 1] = e /\ \A i \in 1..n : next[i] = log[i]
  <2>1. log \in Seq(S) /\ n = Len(log) BY <1>4
  <2>2. /\ Append(log, e) \in Seq(S) /\ Len(Append(log, e)) = n + 1 /\ Append(log, e)[n + 1] = e
        /\ \A i \in 1..n : Append(log, e)[i] = log[i]
    BY <2>1, SeqAppended
  <2> QED BY <1>9, <2>2
<1> HIDE <1>1, <1>9
<1>11. \A i \in 1..(n + 1) : next[i] = more[i]
  <2>1. ASSUME NEW i \in 1..(n + 1) PROVE next[i] = more[i]
    <3>1. CASE i \in 1..n BY <1>4, <1>5, <1>7, <1>10, <3>1
    <3>2. CASE i = n + 1 BY <1>5, <1>7, <1>8, <1>10, <3>2
    <3> QED BY <3>1, <3>2
  <2> QED BY <2>1
<1>12. next = more BY <1>7, <1>10, <1>11
<1> QED BY <1>1, <1>8, <1>9, <1>12

\* The end of a sequence: nothing beyond it, and otherwise its first element
LEMMA Rest ==
  ASSUME NEW S, NEW s \in Seq(S), NEW a \in Nat \ {0}
  PROVE  /\ a > Len(s) => SubSeq(s, a, Len(s)) = <<>>
         /\ a <= Len(s) => SubSeq(s, a, Len(s)) # <<>> /\ Head(SubSeq(s, a, Len(s))) = s[a]
<1>1. PICK n \in Nat : n = Len(s) OBVIOUS
<1>2. ASSUME a > n PROVE SubSeq(s, a, n) = <<>> BY <1>1, <1>2
<1>3. ASSUME a <= n PROVE SubSeq(s, a, n) # <<>> /\ Head(SubSeq(s, a, n)) = s[a]
  <2>1. PICK t : t = SubSeq(s, a, n) OBVIOUS
  <2>2. t \in Seq(S) BY <1>1, <1>3, <2>1
  <2>3. Len(t) = n - a + 1 BY <1>1, <1>3, <2>1
  <2>4. Len(t) # 0 BY <1>1, <1>3, <2>3
  <2>5. t[1] = s[a]
    <3>1. 1 \in 1..(n - a + 1) /\ 1 + a - 1 = a BY <1>1, <1>3
    <3> QED BY <1>1, <1>3, <2>1, <3>1
  <2>6. t # <<>> /\ Head(t) = t[1] BY <2>2, <2>4, EmptySequence
  <2> QED BY <2>1, <2>5, <2>6
<1> QED BY <1>1, <1>2, <1>3

\* The latest group of the log is the latest call group of the history.
LEMMA LatestInLog ==
  ASSUME NEW os \in Seq(Messages), NEW log, log = ConversationOf(os), NEW h \in DOMAIN os, HasCalls(os[h]),
         \A g \in DOMAIN os : HasCalls(os[g]) => g <= h,
         \A i \in DOMAIN os : os[i].calls # <<>> => IsAssistant(os[i])
  PROVE  OpenIn(log) = SubSeq(Asked(os[h]), Len(os) - h + 1, Len(Asked(os[h])))
<1> DEFINE groups == {i \in DOMAIN log : log[i].calls # <<>>}
           at == CHOOSE i \in groups : \A j \in groups : j <= i
<1>1. Len(log) = Len(os) /\ DOMAIN log = DOMAIN os BY LogIs
<1>2. ASSUME NEW i \in DOMAIN os PROVE log[i].calls = Asked(os[i]) /\ (log[i].calls # <<>> <=> HasCalls(os[i]))
  <2>1. log[i].calls = Asked(os[i]) BY <1>2, LogEntries, Zenon
  <2>2. Asked(os[i]) = <<>> <=> os[i].calls = <<>> BY Positions, AskedTyped
  <2> QED BY <2>1, <2>2 DEF HasCalls
<1>3. groups = {i \in DOMAIN os : HasCalls(os[i])} BY <1>1, <1>2
<1>4. h \in groups /\ \A j \in groups : j <= h BY <1>3
<1>5. at \in groups /\ \A j \in groups : j <= at BY <1>4
<1>6. at \in DOMAIN os /\ h \in Nat /\ at <= h /\ h <= at BY <1>3, <1>4, <1>5, GroupTyped
<1>7. at \in Nat BY <1>6, GroupTyped
<1>8. at = h BY <1>6, <1>7
<1>9. groups # {} BY <1>4
<1>10. OpenIn(log) = SubSeq(log[at].calls, Len(log) - at + 1, Len(log[at].calls)) BY <1>9 DEF OpenIn
<1> QED BY <1>1, <1>2, <1>8, <1>10

\* Nothing is open in the log of a closed history.
LEMMA ClosedInLog ==
  ASSUME NEW os \in Seq(Messages), Dialogue(os), Closed(os), NEW log, log = ConversationOf(os),
         \A i \in DOMAIN os : os[i].calls # <<>> => IsAssistant(os[i])
  PROVE  OpenIn(log) = <<>>
<1>1. PICK h : h = latestGroup(os) OBVIOUS
<1>2. CASE h = 0
  <2>1. \A g \in DOMAIN os : ~HasCalls(os[g]) BY <1>1, <1>2, LatestGroup
  <2>2. DOMAIN log = DOMAIN os BY LogIs
  <2>3. ASSUME NEW i \in DOMAIN os PROVE log[i].calls = <<>>
    <3>1. log[i].calls = Asked(os[i]) BY <2>3, LogEntries, Zenon
    <3>2. os[i].calls = <<>> BY <2>1 DEF HasCalls
    <3> QED BY <3>1, <3>2, Positions, AskedTyped
  <2>4. {i \in DOMAIN log : log[i].calls # <<>>} = {} BY <2>2, <2>3
  <2> QED BY <2>4 DEF OpenIn
<1>3. CASE h # 0
  <2>1. h \in DOMAIN os /\ HasCalls(os[h]) /\ \A g \in DOMAIN os : HasCalls(os[g]) => g <= h
    BY <1>1, <1>3, LatestGroup
  <2>2. OpenIn(log) = SubSeq(Asked(os[h]), Len(os) - h + 1, Len(Asked(os[h]))) BY <2>1, LatestInLog
  <2>3. h \in Nat /\ h <= Len(os) /\ Len(os) \in Nat /\ Len(os[h].calls) \in Nat BY <2>1, GroupTyped
  <2>4. ~(h + Len(os[h].calls) > Len(os)) BY <2>1 DEF Closed, OpenAt
  <2>5. PICK s \in Seq(CallNumbers) : s = Asked(os[h]) /\ Len(s) = Len(os[h].calls) BY <2>1, Positions, AskedTyped
  <2>6. PICK a \in Nat \ {0} : a = Len(os) - h + 1
    <3>1. PICK n \in Nat : n = Len(os) /\ h <= n BY <2>3
    <3>2. n - h + 1 \in Nat \ {0} BY <2>3, <3>1
    <3> QED BY <3>1, <3>2
  <2>7. a > Len(s) BY <2>3, <2>4, <2>5, <2>6
  <2>8. SubSeq(s, a, Len(s)) = <<>> BY <2>7, Rest
  <2> QED BY <2>2, <2>5, <2>6, <2>8
<1> QED BY <1>2, <1>3

\* What is next in the log is the first call of the open group without a result.
LEMMA OpenInLog ==
  ASSUME NEW os \in Seq(Messages), Dialogue(os), NEW h \in DOMAIN os, OpenAt(os, h), NEW log, log = ConversationOf(os),
         \A i \in DOMAIN os : os[i].calls # <<>> => IsAssistant(os[i])
  PROVE  OpenIn(log) # <<>> /\ Head(OpenIn(log)) = os[h].calls[Len(os) - h + 1][1]
<1>1. HasCalls(os[h]) /\ h + Len(os[h].calls) > Len(os) BY DEF OpenAt
<1>2. \A g \in DOMAIN os : HasCalls(os[g]) => g <= h BY OpenIsLatest
<1>3. OpenIn(log) = SubSeq(Asked(os[h]), Len(os) - h + 1, Len(Asked(os[h]))) BY <1>1, <1>2, LatestInLog
<1>4. h \in Nat /\ h <= Len(os) /\ Len(os) \in Nat /\ Len(os[h].calls) \in Nat BY GroupTyped
<1>5. PICK s \in Seq(CallNumbers) : s = Asked(os[h]) /\ Len(s) = Len(os[h].calls) BY Positions, AskedTyped
<1>6. PICK a \in Nat \ {0} : a = Len(os) - h + 1 BY <1>4
<1>7. a <= Len(s) BY <1>1, <1>4, <1>5, <1>6
<1>8. SubSeq(s, a, Len(s)) # <<>> /\ Head(SubSeq(s, a, Len(s))) = s[a] BY <1>7, Rest
<1>9. a \in 1..Len(os[h].calls) BY <1>4, <1>5, <1>7
<1>10. s[a] = os[h].calls[a][1] BY <1>5, <1>9, Positions, AskedTyped
<1> QED BY <1>3, <1>5, <1>6, <1>8, <1>10

\* A message that continues the history is a step of the conversation.
LEMMA SaidIsStep ==
  ASSUME ~gone, gone' = gone, original \in Seq(Messages), Dialogue(original),
         \A i \in DOMAIN original : original[i].calls # <<>> => IsAssistant(original[i]),
         NEW m \in Messages, original' = Append(original, m), Continues(original, m)
  PROVE  Abstract!Next
<1> DEFINE abs == IF gone THEN <<>> ELSE ConversationOf(original)
<1>1. PICK os \in Seq(Messages) : os = original OBVIOUS
<1>2. PICK log, e : log = ConversationOf(os) /\ e = EntryOf(m) OBVIOUS
<1>3. abs = log BY <1>1, <1>2
<1>4. abs' = Append(log, e)
  <2>1. abs' = ConversationOf(Append(os, m)) BY <1>1
  <2> QED BY <1>2, <2>1, LogGrows
<1>5. Abstract!Open = OpenIn(log) BY <1>1, <1>2 DEF Abstract!Open, OpenIn
<1>6. Abstract!Say(e) BY <1>3, <1>4 DEF Abstract!Say
<1>7. DOMAIN log = DOMAIN os /\ \A i \in DOMAIN os : log[i].role = os[i].role
  <2>1. log = ConversationOf(os) BY <1>2
  <2> QED BY <2>1, LogIs, LogEntries, Zenon
<1>8. log = <<>> <=> os = <<>>
  <2>1. log \in Seq({EntryOf(x) : x \in Messages}) /\ Len(log) = Len(os) BY <1>2, LogIs
  <2> QED BY <2>1, EmptySequence
<1>9. m.calls = <<>> => Asked(m) = <<>> BY AskedTyped
<1>10. Closed(os) => OpenIn(log) = <<>> BY <1>1, <1>2, ClosedInLog
<1>11. CASE m.role = "system"
  <2>1. os = <<>> /\ m.calls = <<>> BY <1>1, <1>11 DEF Continues, IsAssistant
  <2>2. e = Abstract!Entry("system", <<>>, <<>>) BY <1>2, <1>9, <1>11, <2>1 DEF EntryOf, Abstract!Entry
  <2>3. Abstract!System BY <1>3, <1>6, <1>8, <2>1, <2>2 DEF Abstract!System
  <2> QED BY <2>3 DEF Abstract!Next
<1>12. CASE m.role = "user"
  <2>1. os # <<>> /\ Closed(os) /\ m.calls = <<>> BY <1>1, <1>12 DEF Continues, IsAssistant
  <2>2. e = Abstract!Entry("user", <<>>, <<>>) BY <1>2, <1>9, <1>12, <2>1 DEF EntryOf, Abstract!Entry
  <2>3. Abstract!User BY <1>3, <1>5, <1>6, <1>8, <1>10, <2>1, <2>2 DEF Abstract!User
  <2> QED BY <2>3 DEF Abstract!Next
<1>13. CASE m.role = "tool"
  <2>1. m.calls = <<>> BY <1>13 DEF Continues, IsAssistant
  <2>2. PICK h \in DOMAIN os : OpenAt(os, h) /\ m.callID = os[h].calls[Len(os) - h + 1][1]
    BY <1>1, <1>13 DEF Continues, IsAssistant
  <2>3. OpenIn(log) # <<>> /\ Head(OpenIn(log)) = m.callID BY <1>1, <1>2, <2>2, OpenInLog
  <2>4. e = Abstract!Entry("tool", <<>>, m.callID) BY <1>2, <1>9, <1>13, <2>1 DEF EntryOf, Abstract!Entry
  <2>5. Abstract!Tool BY <1>5, <1>6, <2>3, <2>4 DEF Abstract!Tool
  <2> QED BY <2>5 DEF Abstract!Next
<1>14. CASE m.role = "assistant"
  <2>1. /\ Closed(os) /\ hasUserMessage(os) /\ m.seq \in 1..MaxSeq
        /\ \E r \in Replies : m.calls = Numbered(r.fps, m.seq)
    BY <1>1, <1>14 DEF Continues
  <2>2. PICK r \in Replies : m.calls = Numbered(r.fps, m.seq) BY <2>1
  <2>3. PICK calls : calls = [i \in DOMAIN r.fps |-> <<m.seq, i>>] OBVIOUS
  <2>4. Asked(m) = calls BY <2>2, <2>3 DEF Asked, Numbered
  <2>5. e = Abstract!Entry("assistant", calls, <<>>) BY <1>2, <1>14, <2>4 DEF EntryOf, Abstract!Entry
  <2>6. \E i \in DOMAIN log : log[i].role = "user" BY <1>7, <2>1 DEF hasUserMessage
  <2>7. Abstract!Assistant(calls) BY <1>3, <1>5, <1>6, <1>10, <2>1, <2>5, <2>6 DEF Abstract!Assistant
  <2>8. calls \in {[i \in DOMAIN q.fps |-> <<n, i>>] : q \in Replies, n \in 1..MaxSeq} BY <2>1, <2>2, <2>3
  <2> QED BY <2>7, <2>8 DEF Abstract!Next
<1> QED BY <1>11, <1>12, <1>13, <1>14, Fields DEF Roles

\* The history is a conversation in which every call is answered once and in
\* order before anything else is said, whatever happens to its runs.
THEOREM HistoryIsConversation == Spec => ImplementsConversation
<1>1. Init => Abstract!Init
  <2>1. SUFFICES ASSUME Init PROVE Abstract!Init OBVIOUS
  <2>2. original = <<>> /\ gone = FALSE BY <2>1 DEF Init, StoreInit
  <2>3. ConversationOf(<<>>) = <<>> BY DEF ConversationOf
  <2> QED BY <2>2, <2>3 DEF Abstract!Init
<1>2. IInv /\ TInv /\ [Next]_vars => [Abstract!Next]_<<IF gone THEN <<>> ELSE ConversationOf(original), gone>>
  <2>1. SUFFICES ASSUME IInv, TInv, [Next]_vars
                 PROVE  [Abstract!Next]_<<IF gone THEN <<>> ELSE ConversationOf(original), gone>>
    OBVIOUS
  <2>2. /\ gone \in BOOLEAN /\ gone' \in BOOLEAN /\ (gone => gone')
        /\ gone \/ gone' \/ Speaks(original, original')
    BY <2>1, StepUpholds, StepTells DEF Upheld, IInv, TypeOK, Voiced
  <2>3. CASE gone BY <2>2, <2>3
  <2>4. CASE ~gone /\ gone'
    <3>1. gone' = TRUE /\ (IF gone THEN <<>> ELSE ConversationOf(original))' = <<>> BY <2>2, <2>4
    <3>2. Abstract!Delete BY <2>4, <3>1 DEF Abstract!Delete
    <3>3. Abstract!Next BY <3>2 DEF Abstract!Next
    <3> QED BY <3>3
  <2>5. CASE ~gone /\ ~gone'
    <3>1. original \in Seq(Messages) /\ Told BY <2>1, <2>5 DEF IInv, TypeOK, TInv
    <3>2. /\ Dialogue(original)
          /\ \A i \in DOMAIN original : original[i].calls # <<>> => IsAssistant(original[i])
      BY <3>1 DEF Told, Chronicle
    <3>3. gone' = gone BY <2>2, <2>5
    <3>4. CASE original' = original BY <3>3, <3>4
    <3>5. CASE original' # original
      <4>1. PICK m \in Messages : original' = Append(original, m) /\ Continues(original, m)
        BY <2>2, <2>5, <3>5 DEF Speaks
      <4>2. Abstract!Next BY <2>5, <3>1, <3>2, <3>3, <4>1, SaidIsStep
      <4> QED BY <4>2
    <3> QED BY <3>4, <3>5
  <2> QED BY <2>2, <2>3, <2>4, <2>5
<1> QED BY <1>1, <1>2, Inductive, TalkIsKept, PTL DEF Spec, ImplementsConversation, Abstract!Spec

-----------------------------------------------------------------------------
(* Results in a row, by position and fingerprint.                          *)

\* Three results in a row with one fingerprint, the last one not in B
Again(R, f, B) ==
  \E i, j, k \in R :
    /\ i < j /\ j < k /\ \A x \in R : x <= i \/ x = j \/ x >= k
    /\ f[i] = f[k] /\ f[j] = f[k] /\ k \notin B

Rejected(ms) == {k \in DOMAIN ms : ms[k].body = "rejected"}

\* Results, their fingerprints and which of them are rejections decide.
LEMMA RepeatsIs ==
  ASSUME NEW ms \in Seq(Messages), TurnResults(ms) \subseteq DOMAIN ms
  PROVE  Repeats(ms) <=> Again(TurnResults(ms), Fingerprints(ms), Rejected(ms))
<1>1. PICK R : R = TurnResults(ms) OBVIOUS
<1>2. R \subseteq DOMAIN ms BY <1>1
<1>3. \A x \in R : Fingerprints(ms)[x] = CallOf(ms, x)[2] BY <1>2 DEF Fingerprints
<1>4. \A k \in R : k \in Rejected(ms) <=> ms[k].body = "rejected" BY <1>2 DEF Rejected
<1>5. Repeats(ms) <=>
        \E i, j, k \in R :
          /\ i < j /\ j < k /\ \A x \in R : x <= i \/ x = j \/ x >= k
          /\ CallOf(ms, i)[2] = CallOf(ms, k)[2] /\ CallOf(ms, j)[2] = CallOf(ms, k)[2]
          /\ ms[k].body # "rejected"
  BY <1>1 DEF Repeats
<1> QED BY <1>1, <1>3, <1>4, <1>5 DEF Again

\* The counter after one more result
LEMMA FollowsOneMore ==
  ASSUME NEW R \in SUBSET Nat, NEW f, NEW g, NEW n \in Nat, \A x \in R : x < n /\ g[x] = f[x],
         NEW streak, Follows(R, f, streak), NEW call, g[n] = call[2]
  PROVE  Follows(R \cup {n}, g, observe(streak, call))
<1>1. PICK s : s = observe(streak, call) OBVIOUS
<1>2. streak.n \in Nat BY DEF Follows
<1>3. /\ s.fp = g[n] /\ s.n \in Nat /\ s.n >= 1
      /\ streak.n >= 1 /\ streak.fp = g[n] => s.n = streak.n + 1
  BY <1>1, <1>2 DEF observe
<1> HIDE <1>1
<1>4. ASSUME NEW j \in R \cup {n}, \A x \in R \cup {n} : x <= j PROVE s.n >= 1 /\ s.fp = g[j]
  <2>1. n <= j /\ (j \in R => j \in Nat /\ j < n) BY <1>4
  <2>2. j = n BY <1>4, <2>1
  <2> QED BY <1>3, <2>2
<1>5. ASSUME NEW i \in R \cup {n}, NEW j \in R \cup {n}, i < j, \A x \in R \cup {n} : x <= i \/ x = j, g[i] = g[j]
      PROVE  s.n >= 2
  <2>1. /\ n <= i \/ n = j
        /\ i \in R \/ i = n
        /\ j \in R => j \in Nat /\ j < n
        /\ i \in R => i \in Nat /\ i < n
    BY <1>5
  <2>2. j = n /\ i \in R BY <1>5, <2>1
  <2>3. \A x \in R : x <= i BY <1>5, <2>2
  <2>4. streak.n >= 1 /\ streak.fp = f[i] BY <2>2, <2>3 DEF Follows
  <2>5. f[i] = g[n] BY <1>5, <2>2
  <2>6. s.n = streak.n + 1 BY <1>3, <2>4, <2>5
  <2> QED BY ONLY <1>2, <2>4, <2>6
<1>6. Follows(R \cup {n}, g, s) BY <1>3, <1>4, <1>5 DEF Follows
<1> QED BY <1>1, <1>6

\* One more result, rejected if the counter reaches three with it
LEMMA AgainOneMore ==
  ASSUME NEW R \in SUBSET Nat, NEW f, NEW g, NEW n \in Nat, NEW B, NEW C,
         \A x \in R : x < n /\ g[x] = f[x] /\ (x \in B => x \in C), ~Again(R, f, B),
         \/ n \in C
         \/ \E streak, call : Follows(R, f, streak) /\ g[n] = call[2] /\ ~(observe(streak, call).n >= 3)
  PROVE  ~Again(R \cup {n}, g, C)
<1>1. SUFFICES ASSUME NEW i \in R \cup {n}, NEW j \in R \cup {n}, NEW k \in R \cup {n},
                      i < j, j < k, \A x \in R \cup {n} : x <= i \/ x = j \/ x >= k,
                      g[i] = g[k], g[j] = g[k], k \notin C
               PROVE  FALSE
  BY DEF Again
<1>2. i \in R /\ j \in R
  <2>1. \A x \in R \cup {n} : x \in Nat /\ x <= n BY <1>1
  <2>2. i # n /\ j # n BY <1>1, <2>1
  <2> QED BY <1>1, <2>2
<1>3. CASE k \in R
  <2>1. \A x \in R : x <= i \/ x = j \/ x >= k BY <1>1
  <2>2. f[i] = f[k] /\ f[j] = f[k] /\ k \notin B BY <1>1, <1>2, <1>3
  <2> QED BY <1>1, <1>2, <1>3, <2>1, <2>2 DEF Again
<1>4. CASE k = n
  <2>1. PICK streak, call : Follows(R, f, streak) /\ g[n] = call[2] /\ ~(observe(streak, call).n >= 3) BY <1>1, <1>4
  <2>2. \A x \in R : x <= i \/ x = j BY <1>1, <1>4
  <2>3. f[i] = f[j] BY <1>1, <1>2
  <2>4. streak.n \in Nat /\ streak.n >= 2 BY <1>1, <1>2, <2>1, <2>2, <2>3 DEF Follows
  <2>5. ASSUME NEW x \in R PROVE x <= j
    <3>1. x \in Nat /\ i \in Nat /\ j \in Nat BY <1>2, <2>5
    <3>2. (x <= i \/ x = j) /\ i < j BY <1>1, <2>2, <2>5
    <3> QED BY ONLY <3>1, <3>2
  <2>6. streak.fp = f[j] BY <1>2, <2>1, <2>5 DEF Follows
  <2>7. streak.fp = call[2] BY <1>1, <1>2, <1>4, <2>1, <2>6
  <2>8. observe(streak, call).n = streak.n + 1 BY <2>4, <2>7 DEF observe
  <2> QED BY <2>1, <2>4, <2>8
<1> QED BY <1>1, <1>3, <1>4

\* The results from a position on, moved by k
Moves(S, g, C, R, f, B, k) ==
  /\ \A y \in S : y + k \in R /\ g[y] = f[y + k] /\ (y + k \in B => y \in C)
  /\ \A x \in R : (\E y \in S : y + k = x) \/ \A y \in S : x < y + k

\* From a position on, all results are moved ones.
Reaches(S, R, k, from) == \A x \in R : x < from \/ \E y \in S : y + k = x

\* A part of the results that goes to the end has the same rows of results.
LEMMA MovedResults ==
  ASSUME NEW R \in SUBSET Nat, NEW S \in SUBSET Nat, NEW f, NEW g, NEW B, NEW C, NEW k \in Nat, Moves(S, g, C, R, f, B, k)
  PROVE  /\ ~Again(R, f, B) => ~Again(S, g, C)
         /\ \A streak : Follows(R, f, streak) => Follows(S, g, streak)
<1>1. ASSUME NEW i \in S, NEW j \in S, NEW m \in S, i < j, j < m, \A x \in S : x <= i \/ x = j \/ x >= m,
             g[i] = g[m], g[j] = g[m], m \notin C
      PROVE  Again(R, f, B)
  <2>1. PICK a \in R, b \in R, c \in R : a = i + k /\ b = j + k /\ c = m + k BY DEF Moves
  <2>2. a < b /\ b < c BY <1>1, <2>1
  <2>3. f[a] = f[c] /\ f[b] = f[c] /\ c \notin B BY <1>1, <2>1 DEF Moves
  <2>4. ASSUME NEW x \in R PROVE x <= a \/ x = b \/ x >= c
    <3>1. CASE \E y \in S : y + k = x
      <4>1. PICK y \in S : y + k = x BY <3>1
      <4>2. y <= i \/ y = j \/ y >= m BY <1>1
      <4> QED BY <2>1, <4>1, <4>2
    <3>2. CASE \A y \in S : x < y + k
      <4>1. x < i + k BY <3>2
      <4> QED BY <2>1, <4>1
    <3> QED BY <2>4, <3>1, <3>2 DEF Moves
  <2> QED BY <2>2, <2>3, <2>4 DEF Again
<1>2. ASSUME NEW streak, Follows(R, f, streak) PROVE Follows(S, g, streak)
  <2>1. ASSUME NEW j \in S, \A x \in S : x <= j PROVE streak.n >= 1 /\ streak.fp = g[j]
    <3>1. PICK b \in R : b = j + k BY DEF Moves
    <3>2. ASSUME NEW x \in R PROVE x <= b
      <4>1. CASE \E y \in S : y + k = x
        <5>1. PICK y \in S : y + k = x BY <4>1
        <5>2. y <= j BY <2>1
        <5> QED BY <3>1, <5>1, <5>2
      <4>2. CASE \A y \in S : x < y + k
        <5>1. x < j + k BY <4>2
        <5> QED BY <3>1, <5>1
      <4> QED BY <3>2, <4>1, <4>2 DEF Moves
    <3>3. g[j] = f[b] BY <3>1 DEF Moves
    <3> QED BY <1>2, <3>2, <3>3 DEF Follows
  <2>2. ASSUME NEW i \in S, NEW j \in S, i < j, \A x \in S : x <= i \/ x = j, g[i] = g[j] PROVE streak.n >= 2
    <3>1. PICK a \in R, b \in R : a = i + k /\ b = j + k BY DEF Moves
    <3>2. ASSUME NEW x \in R PROVE x <= a \/ x = b
      <4>1. CASE \E y \in S : y + k = x
        <5>1. PICK y \in S : y + k = x BY <4>1
        <5>2. y <= i \/ y = j BY <2>2
        <5> QED BY <3>1, <5>1, <5>2
      <4>2. CASE \A y \in S : x < y + k
        <5>1. x < i + k BY <4>2
        <5> QED BY <3>1, <5>1
      <4> QED BY <3>2, <4>1, <4>2 DEF Moves
    <3>3. a < b /\ f[a] = f[b]
      <4>1. f[a] = f[b] BY <2>2, <3>1 DEF Moves
      <4> QED BY <2>2, <3>1, <4>1
    <3> QED BY <1>2, <3>2, <3>3 DEF Follows
  <2>3. streak.n \in Nat BY <1>2 DEF Follows
  <2> QED BY <2>1, <2>2, <2>3 DEF Follows
<1> QED BY <1>1, <1>2 DEF Again

-----------------------------------------------------------------------------
(* What the loop of recentToolStreak counts.                               *)

\* The latest results, as far back as they have one fingerprint
Trailing(R, f) == {x \in R : \A y \in R : y >= x => f[y] = f[Max(R)]}

CountOf(R, f) ==
  IF R = {} THEN NoStreak ELSE [fp |-> f[Max(R)], n |-> Cardinality(Trailing(R, f))]

\* A set of positions is finite and has a greatest element.
LEMMA TrailingFinite ==
  ASSUME NEW n \in Nat, NEW R \in SUBSET (1..n), R # {}, NEW f
  PROVE  /\ Max(R) \in R /\ \A y \in R : y <= Max(R)
         /\ Max(R) \in Trailing(R, f)
         /\ IsFiniteSet(Trailing(R, f)) /\ Cardinality(Trailing(R, f)) \in Nat /\ Cardinality(Trailing(R, f)) >= 1
<1>1. R \in SUBSET (0..n) OBVIOUS
<1>2. PICK m : m = Max(R) OBVIOUS
<1>3. m \in R /\ \A y \in R : m >= y BY <1>1, <1>2, MaxIs
<1>4. m \in Nat /\ \A y \in R : y \in Nat /\ y <= m BY <1>3
<1>5. \A y \in R : y >= m => y = m BY <1>4
<1>6. PICK T : T = Trailing(R, f) OBVIOUS
<1>7. m \in T BY <1>2, <1>3, <1>5, <1>6 DEF Trailing
<1>8. T \in SUBSET (1..n) BY <1>6 DEF Trailing
<1>9. IsFiniteSet(1..n)
  <2>1. 1 \in Int /\ n \in Int OBVIOUS
  <2> QED BY <2>1, FS_Interval
<1>10. IsFiniteSet(T) BY <1>8, <1>9, FS_Subset
<1>11. Cardinality(T) \in Nat BY <1>10, FS_CardinalityType
<1>12. Cardinality(T) # 0 BY <1>7, <1>10, FS_EmptySet
<1>13. Cardinality(T) >= 1 BY <1>11, <1>12
<1> QED BY <1>2, <1>3, <1>4, <1>6, <1>7, <1>10, <1>11, <1>13

\* One more result is observed.
LEMMA CountOneMore ==
  ASSUME NEW n \in Nat, NEW R \in SUBSET (1..n), NEW x \in 1..n, \A y \in R : y < x, NEW f,
         NEW call, call[2] = f[x]
  PROVE  CountOf(R \cup {x}, f) = observe(CountOf(R, f), call)
<1>1. PICK S : S = R \cup {x} OBVIOUS
<1>2. S \in SUBSET (1..n) /\ S # {} BY <1>1
<1>3. Max(S) = x
  <2>1. PICK m : m = Max(S) OBVIOUS
  <2>2. m \in S /\ \A y \in S : y <= m BY <1>2, <2>1, TrailingFinite
  <2>3. x <= m /\ m \in 1..n /\ (m \in R => m < x) /\ (m \in R \/ m = x) BY <1>1, <1>2, <2>2
  <2>4. m = x BY ONLY <2>3, n \in Nat, x \in 1..n
  <2> QED BY <2>1, <2>4
<1>4. \A y \in R : y \in Nat /\ ~(y >= x) BY <1>2
<1>5. Trailing(S, f) = {x} \cup {z \in R : f[x] = f[x] /\ \A y \in R : y >= z => f[y] = f[x]}
  <2>1. ASSUME NEW z \in S PROVE (\A y \in S : y >= z => f[y] = f[x]) <=> (z = x \/ \A y \in R : y >= z => f[y] = f[x])
    <3>1. CASE z = x BY <1>1, <1>4, <3>1
    <3>2. CASE z # x BY <1>1, <2>1, <3>2
    <3> QED BY <3>1, <3>2
  <2> QED BY <1>1, <1>3, <2>1 DEF Trailing
<1>6. x \notin R BY <1>4
<1>7. CASE R # {} /\ f[Max(R)] = f[x]
  <2>1. PICK T : T = Trailing(R, f) OBVIOUS
  <2>2. Trailing(S, f) = T \cup {x} BY <1>5, <1>7, <2>1 DEF Trailing
  <2>3. IsFiniteSet(T) /\ Cardinality(T) \in Nat /\ Cardinality(T) >= 1 BY <1>7, <2>1, TrailingFinite
  <2>4. x \notin T BY <1>6, <2>1 DEF Trailing
  <2>5. Cardinality(T \cup {x}) = Cardinality(T) + 1 BY <2>3, <2>4, FS_AddElement
  <2>6. CountOf(S, f) = [fp |-> f[x], n |-> Cardinality(T) + 1] BY <1>2, <1>3, <2>2, <2>5 DEF CountOf
  <2>7. CountOf(R, f).fp = f[x] /\ CountOf(R, f).n = Cardinality(T) BY <1>7, <2>1 DEF CountOf
  <2>8. Cardinality(T) > 0 BY <2>3
  <2>9. observe(CountOf(R, f), call) = [fp |-> f[x], n |-> Cardinality(T) + 1] BY <2>7, <2>8 DEF observe
  <2> QED BY <1>1, <2>6, <2>9
<1>8. CASE R = {} \/ f[Max(R)] # f[x]
  <2>1. Trailing(S, f) = {x}
    <3>1. ASSUME NEW z \in R PROVE ~\A y \in R : y >= z => f[y] = f[x]
      <4>1. R # {} BY <3>1
      <4>2. Max(R) \in R /\ z <= Max(R) BY <3>1, <4>1, TrailingFinite
      <4>3. Max(R) >= z BY <1>4, <3>1, <4>2
      <4> QED BY <1>8, <4>1, <4>2, <4>3
    <3> QED BY <1>5, <3>1
  <2>2. Cardinality({x}) = 1 BY FS_Singleton
  <2>3. CountOf(S, f) = [fp |-> f[x], n |-> 1] BY <1>2, <1>3, <2>1, <2>2 DEF CountOf
  <2>4. ~(CountOf(R, f).n > 0 /\ CountOf(R, f).fp = f[x])
    <3>1. CASE R = {} BY <3>1 DEF CountOf, NoStreak
    <3>2. CASE R # {} BY <1>8, <3>2 DEF CountOf
    <3> QED BY <3>1, <3>2
  <2>5. observe(CountOf(R, f), call) = [fp |-> f[x], n |-> 1] BY <2>4 DEF observe
  <2> QED BY <1>1, <2>3, <2>5
<1> QED BY <1>7, <1>8

\* What is counted knows the latest results.
LEMMA CountFollows ==
  ASSUME NEW n \in Nat, NEW R \in SUBSET (1..n), NEW f
  PROVE  Follows(R, f, CountOf(R, f))
<1>1. PICK c : c = CountOf(R, f) OBVIOUS
<1>2. CASE R = {}
  <2>1. c.n = 0 BY <1>1, <1>2 DEF CountOf, NoStreak
  <2>2. Follows(R, f, c) BY <1>2, <2>1 DEF Follows
  <2> QED BY <1>1, <2>2
<1>3. CASE R # {}
  <2>1. PICK T : T = Trailing(R, f) OBVIOUS
  <2>2. PICK m : m = Max(R) OBVIOUS
  <2>3. c.fp = f[m] /\ c.n = Cardinality(T) BY <1>1, <1>3, <2>1, <2>2 DEF CountOf
  <2>4. /\ m \in R /\ (\A y \in R : y <= m) /\ m \in T
        /\ IsFiniteSet(T) /\ Cardinality(T) \in Nat /\ Cardinality(T) >= 1
    BY <1>3, <2>1, <2>2, TrailingFinite
  <2>5. \A y \in R : y \in Nat OBVIOUS
  <2>6. ASSUME NEW j \in R, \A x \in R : x <= j PROVE c.n >= 1 /\ c.fp = f[j]
    <3>1. m <= j /\ j <= m /\ m \in Nat /\ j \in Nat BY <2>4, <2>5, <2>6
    <3>2. j = m BY ONLY <3>1
    <3> QED BY <2>3, <2>4, <3>2
  <2>7. ASSUME NEW i \in R, NEW j \in R, i < j, \A x \in R : x <= i \/ x = j, f[i] = f[j] PROVE c.n >= 2
    <3>1. (m <= i \/ m = j) /\ j <= m /\ m \in Nat /\ j \in Nat /\ i \in Nat /\ i < j BY <2>4, <2>5, <2>7
    <3>2. j = m BY ONLY <3>1
    <3>3. ASSUME NEW y \in R, y >= i PROVE f[y] = f[m]
      <4>1. (y <= i \/ y = j) /\ y \in Nat BY <2>5, <2>7
      <4>2. y = i \/ y = j BY ONLY <3>1, <3>3, <4>1
      <4> QED BY <2>7, <3>2, <4>2
    <3>4. i \in T BY <2>1, <2>2, <3>3 DEF Trailing
    <3>5. Cardinality(T) # 1
      <4>1. SUFFICES ASSUME Cardinality(T) = 1 PROVE FALSE OBVIOUS
      <4>2. PICK x : T = {x} BY <2>4, <4>1, FS_Singleton
      <4>3. i = m BY <2>4, <3>4, <4>2
      <4> QED BY <3>1, <3>2, <4>3
    <3> QED BY <2>3, <2>4, <3>5
  <2>8. Follows(R, f, c) BY <2>3, <2>4, <2>6, <2>7 DEF Follows
  <2> QED BY <1>1, <2>8
<1> QED BY <1>2, <1>3

\* One round of the loop
Counting(ms, streak, i) == IF i \in TurnResults(ms) THEN observe(streak, CallOf(ms, i)) ELSE streak

\* A recursion over the positions, greatest first
Recurs(g, ms) ==
  g = [s \in SUBSET (DOMAIN ms) |->
         IF s = {} THEN NoStreak ELSE Counting(ms, g[s \ {Max(s)}], Max(s))]

\* The count of any set of positions satisfies the recursion.
LEMMA CountRecurs ==
  ASSUME NEW ms \in Seq(Messages), TurnResults(ms) \subseteq DOMAIN ms
  PROVE  Recurs([s \in SUBSET (DOMAIN ms) |-> CountOf(s \cap TurnResults(ms), Fingerprints(ms))], ms)
<1>1. PICK C : C = TurnResults(ms) OBVIOUS
<1>2. PICK f : f = Fingerprints(ms) OBVIOUS
<1>3. PICK n \in Nat : n = Len(ms) /\ DOMAIN ms = 1..n BY Positions
<1>4. PICK G : G = [s \in SUBSET (DOMAIN ms) |-> CountOf(s \cap C, f)] OBVIOUS
<1>5. ASSUME NEW s \in SUBSET (DOMAIN ms)
      PROVE  G[s] = IF s = {} THEN NoStreak ELSE Counting(ms, G[s \ {Max(s)}], Max(s))
  <2>1. CASE s = {}
    <3>1. s \cap C = {} BY <2>1
    <3> QED BY <1>4, <2>1, <3>1 DEF CountOf
  <2>2. CASE s # {}
    <3>1. PICK x : x = Max(s) OBVIOUS
    <3>2. x \in s /\ \A y \in s : y <= x BY <1>3, <2>2, <3>1, TrailingFinite
    <3>3. PICK t : t = s \ {x} OBVIOUS
    <3>4. t \in SUBSET (DOMAIN ms) BY <3>3
    <3>5. G[s] = CountOf(s \cap C, f) /\ G[t] = CountOf(t \cap C, f) BY <1>4, <3>4
    <3>6. CASE x \notin C
      <4>1. s \cap C = t \cap C BY <3>3, <3>6
      <4>2. Counting(ms, G[t], x) = G[t] BY <1>1, <3>6 DEF Counting
      <4> QED BY <2>2, <3>1, <3>3, <3>5, <4>1, <4>2
    <3>7. CASE x \in C
      <4>1. PICK R : R = t \cap C OBVIOUS
      <4>2. s \cap C = R \cup {x} BY <3>2, <3>3, <3>7, <4>1
      <4>3. R \in SUBSET (1..n) /\ x \in 1..n BY <1>3, <3>2, <3>4, <4>1
      <4>4. ASSUME NEW y \in R PROVE y < x
        <5>1. y <= x /\ y # x BY <3>2, <3>3, <4>1
        <5>2. y \in Nat /\ x \in Nat BY <4>3
        <5> QED BY ONLY <5>1, <5>2
      <4>5. CallOf(ms, x)[2] = f[x] BY <1>2, <1>3, <4>3 DEF Fingerprints
      <4>6. CountOf(R \cup {x}, f) = observe(CountOf(R, f), CallOf(ms, x)) BY <4>3, <4>4, <4>5, CountOneMore
      <4>7. Counting(ms, G[t], x) = observe(G[t], CallOf(ms, x)) BY <1>1, <3>7 DEF Counting
      <4> QED BY <2>2, <3>1, <3>3, <3>5, <4>1, <4>2, <4>6, <4>7
    <3> QED BY <3>6, <3>7
  <2> QED BY <2>1, <2>2
<1>6. G = [s \in SUBSET (DOMAIN ms) |-> IF s = {} THEN NoStreak ELSE Counting(ms, G[s \ {Max(s)}], Max(s))]
  <2>1. \A s \in SUBSET (DOMAIN ms) : G[s] = IF s = {} THEN NoStreak ELSE Counting(ms, G[s \ {Max(s)}], Max(s)) BY <1>5
  <2>2. G = [s \in SUBSET (DOMAIN ms) |-> G[s]] BY <1>4
  <2> HIDE <1>4
  <2> QED BY <2>1, <2>2
<1>7. Recurs(G, ms) BY <1>6, Zenon DEF Recurs
<1> QED BY <1>1, <1>2, <1>4, <1>7

\* The loop computes the count of the whole turn.
LEMMA StreakIsCount ==
  ASSUME NEW ms \in Seq(Messages), TurnResults(ms) \subseteq DOMAIN ms
  PROVE  recentToolStreak(ms) = CountOf(TurnResults(ms), Fingerprints(ms))
<1>1. PICK g : g = CHOOSE iter : Recurs(iter, ms) OBVIOUS
<1>2. recentToolStreak(ms) = g[DOMAIN ms]
  <2>1. PICK q : q = [i \in DOMAIN ms |-> i] OBVIOUS
  <2>2. DOMAIN q = DOMAIN ms BY <2>1
  <2>3. PICK h : h = CHOOSE iter : iter = [s \in SUBSET (DOMAIN q) |->
                       IF s = {} THEN NoStreak ELSE Counting(ms, iter[s \ {Max(s)}], q[Max(s)])]
    OBVIOUS
  <2>4. recentToolStreak(ms) = h[DOMAIN q]
    BY <2>1, <2>3 DEF recentToolStreak, FoldLeftDomain, FoldLeft, MapThenFoldSet, Counting
  <2>5. ASSUME NEW s \in SUBSET (DOMAIN ms), s # {} PROVE q[Max(s)] = Max(s)
    <3>1. PICK n \in Nat : DOMAIN ms = 1..n BY Positions
    <3>2. Max(s) \in s BY <2>5, <3>1, TrailingFinite
    <3> QED BY <2>1, <3>2
  <2>6. ASSUME NEW iter
        PROVE  Recurs(iter, ms) <=>
                 iter = [s \in SUBSET (DOMAIN q) |->
                           IF s = {} THEN NoStreak ELSE Counting(ms, iter[s \ {Max(s)}], q[Max(s)])]
    <3>1. [s \in SUBSET (DOMAIN q) |-> IF s = {} THEN NoStreak ELSE Counting(ms, iter[s \ {Max(s)}], q[Max(s)])] =
          [s \in SUBSET (DOMAIN ms) |-> IF s = {} THEN NoStreak ELSE Counting(ms, iter[s \ {Max(s)}], Max(s))]
      BY <2>2, <2>5
    <3> QED BY <3>1, Zenon DEF Recurs
  <2>7. g = h BY <1>1, <2>3, <2>6, Zenon
  <2> QED BY <2>2, <2>4, <2>7
<1>3. Recurs(g, ms)
  <2>1. \E iter : Recurs(iter, ms) BY CountRecurs
  <2> QED BY ONLY <1>1, <2>1, Zenon
<1> HIDE <1>1
<1>4. PICK n \in Nat : DOMAIN ms = 1..n BY Positions
<1>5. PICK G : G = [s \in SUBSET (DOMAIN ms) |-> CountOf(s \cap TurnResults(ms), Fingerprints(ms))] OBVIOUS
<1>6. Recurs(G, ms) BY <1>5, CountRecurs
<1>7. \A k \in 0..n : g[1..k] = G[1..k]
  <2> DEFINE B == {k \in 0..n : g[1..k] # G[1..k]}
  <2> SUFFICES ASSUME B # {} PROVE FALSE OBVIOUS
  <2>1. PICK k \in B : \A j \in B : k <= j
    <3>1. B \in SUBSET Nat OBVIOUS
    <3> HIDE DEF B
    <3> QED BY <3>1, LeastExists
  <2>2. k \in 0..n /\ g[1..k] # G[1..k] OBVIOUS
  <2>3. 1..k \in SUBSET (DOMAIN ms) /\ k \in Nat BY <1>4, <2>2
  <2>4. ASSUME NEW h, Recurs(h, ms)
        PROVE  h[1..k] = IF 1..k = {} THEN NoStreak ELSE Counting(ms, h[(1..k) \ {Max(1..k)}], Max(1..k))
    BY <2>3, <2>4 DEF Recurs
  <2>5. k # 0
    <3>1. 1..0 = {} OBVIOUS
    <3>2. SUFFICES ASSUME k = 0 PROVE FALSE OBVIOUS
    <3> QED BY <1>3, <1>6, <2>2, <2>4, <3>1, <3>2
  <2>6. 1..k # {} /\ Max(1..k) = k /\ (1..k) \ {k} = 1..k-1
    <3>1. k \in 1..k BY <2>3, <2>5
    <3>2. Max(1..k) \in 1..k /\ \A y \in 1..k : y <= Max(1..k) BY <2>3, <3>1, TrailingFinite
    <3>3. Max(1..k) = k BY <2>3, <3>1, <3>2
    <3>4. (1..k) \ {k} = 1..k-1 BY <2>3
    <3> QED BY <3>1, <3>3, <3>4
  <2>7. k - 1 \in 0..n /\ ~(k <= k - 1) BY <2>2, <2>5
  <2>8. k - 1 \notin B
    <3> HIDE DEF B
    <3> QED BY <2>1, <2>7
  <2>9. g[1..k-1] = G[1..k-1] BY <2>7, <2>8
  <2> QED BY <1>3, <1>6, <2>2, <2>4, <2>6, <2>9
<1>8. n \in 0..n BY <1>4
<1>9. g[DOMAIN ms] = G[DOMAIN ms] BY <1>4, <1>7, <1>8
<1>10. DOMAIN ms \cap TurnResults(ms) = TurnResults(ms) OBVIOUS
<1>11. G[DOMAIN ms] = CountOf(TurnResults(ms), Fingerprints(ms)) BY <1>5, <1>10
<1> QED BY <1>2, <1>9, <1>11

\* A resumed run starts with a streak that knows the latest results.
LEMMA RestoredStreakTracks ==
  ASSUME NEW ms \in Seq(Messages), TurnResults(ms) \subseteq DOMAIN ms
  PROVE  Tracks(ms, recentToolStreak(ms))
<1>1. PICK n \in Nat : DOMAIN ms = 1..n BY Positions
<1>2. TurnResults(ms) \in SUBSET (1..n) BY <1>1
<1> QED BY <1>1, <1>2, StreakIsCount, CountFollows DEF Tracks

-----------------------------------------------------------------------------
(* Which results a turn has, and what they answer.                         *)

\* A result that counts: after every message of the user, and no recovery note
Counts(ms, i) ==
  /\ i \in DOMAIN ms /\ ms[i].role = "tool" /\ ms[i].body # "recovery"
  /\ \A u \in DOMAIN ms : ms[u].role = "user" => u < i

\* In a dialogue every result since the user's last message counts.
LEMMA TurnResultsAre ==
  ASSUME NEW ms \in Seq(Messages), Dialogue(ms), NEW i
  PROVE  i \in TurnResults(ms) <=> Counts(ms, i)
<1>1. PICK n \in Nat : n = Len(ms) /\ DOMAIN ms = 1..n BY Positions
<1>2. PICK U : U = {u \in 1..Len(ms) : ms[u].role = "user"} OBVIOUS
<1>3. PICK start : start = IF U # {} THEN Max(U) ELSE 0 OBVIOUS
<1>4. i \in TurnResults(ms) <=>
        /\ i \in start+1..Len(ms)
        /\ ms[i].role = "tool" /\ ms[i].body # "recovery"
        /\ \E j \in start+1..i-1 : HasCalls(ms[j]) /\ ms[i].callID \in CallIDs(ms[j])
  BY <1>2, <1>3 DEF TurnResults, SelectLastInSeq
<1>5. /\ start \in 0..n /\ (start # 0 => ms[start].role = "user")
      /\ \A u \in DOMAIN ms : ms[u].role = "user" => u <= start
  <2>1. CASE U = {} BY <1>1, <1>2, <1>3, <2>1
  <2>2. CASE U # {}
    <3>1. U \in SUBSET (1..n) BY <1>1, <1>2
    <3>2. start \in U /\ \A y \in U : y <= start BY <1>3, <2>2, <3>1, TrailingFinite
    <3> QED BY <1>1, <1>2, <3>1, <3>2
  <2> QED BY <2>1, <2>2
<1>6. ASSUME i \in TurnResults(ms) PROVE Counts(ms, i)
  <2>1. i \in start+1..n /\ ms[i].role = "tool" /\ ms[i].body # "recovery" BY <1>1, <1>4, <1>6
  <2>2. i \in DOMAIN ms /\ start < i BY <1>1, <1>5, <2>1
  <2>3. ASSUME NEW u \in DOMAIN ms, ms[u].role = "user" PROVE u < i
    <3>1. u <= start /\ u \in Nat /\ i \in Nat /\ start \in Nat BY <1>1, <1>5, <2>2, <2>3
    <3> QED BY ONLY <2>2, <3>1
  <2> QED BY <2>1, <2>2, <2>3 DEF Counts
<1>7. ASSUME Counts(ms, i) PROVE i \in TurnResults(ms)
  <2>1. i \in 1..n /\ ms[i].role = "tool" /\ ms[i].body # "recovery" BY <1>1, <1>7 DEF Counts
  <2>2. start < i
    <3>1. start # 0 => start < i BY <1>1, <1>5, <1>7 DEF Counts
    <3> QED BY <1>5, <2>1, <3>1
  <2>3. PICK g \in 1..i-1 : HasCalls(ms[g]) /\ i - g \in DOMAIN ms[g].calls BY <1>1, <2>1 DEF Dialogue
  <2>4. g \in DOMAIN ms /\ g \in Nat /\ i \in Nat BY <1>1, <2>1
  <2>5. PICK k \in DOMAIN ms[g].calls : g + k = i
    <3>1. g + (i - g) = i BY <2>4
    <3> QED BY <2>3, <3>1
  <2>6. ms[i].callID = ms[g].calls[k][1] BY <1>1, <2>1, <2>3, <2>4, <2>5 DEF Dialogue
  <2>7. ms[i].callID \in CallIDs(ms[g]) BY <2>5, <2>6 DEF CallIDs
  <2>8. PICK c \in Nat : c = Len(ms[g].calls) /\ DOMAIN ms[g].calls = 1..c BY <2>4, GroupTyped
  <2>9. start < g
    <3>1. SUFFICES ASSUME ~(start < g) PROVE FALSE OBVIOUS
    <3>2. start # 0 /\ start # g
      <4>1. start # 0 BY <1>5, <2>4, <3>1
      <4> QED BY <1>5, <2>3, <4>1 DEF HasCalls, IsAssistant
    <3>3. start - g \in 1..c /\ g + (start - g) = start /\ start <= n
      BY <1>5, <2>1, <2>2, <2>4, <2>5, <2>8, <3>1, <3>2
    <3>4. PICK h \in DOMAIN ms[g].calls : g + h = start BY <2>8, <3>3
    <3>5. ms[start].role = "tool" BY <1>1, <2>3, <2>4, <3>3, <3>4 DEF Dialogue
    <3> QED BY <1>5, <3>2, <3>5
  <2>10. g \in start+1..i-1 /\ i \in start+1..n BY <1>5, <2>1, <2>2, <2>4, <2>9
  <2> QED BY <1>1, <1>4, <2>1, <2>3, <2>7, <2>10
<1> QED BY <1>6, <1>7

\* The results of a turn are positions.
LEMMA TurnResultsTyped ==
  ASSUME NEW ms \in Seq(Messages), Dialogue(ms)
  PROVE  TurnResults(ms) \subseteq DOMAIN ms /\ TurnResults(ms) \in SUBSET Nat
<1>1. DOMAIN ms \subseteq Nat BY Positions
<1>2. \A i \in TurnResults(ms) : i \in DOMAIN ms BY TurnResultsAre DEF Counts
<1> QED BY <1>1, <1>2

\* A result answers the call of its group in its place.
LEMMA ResultAnswers ==
  ASSUME NEW ms \in Seq(Messages), Dialogue(ms), Rising(ms), NEW g \in DOMAIN ms, HasCalls(ms[g]),
         NEW k \in DOMAIN ms[g].calls, g + k <= Len(ms)
  PROVE  CallOf(ms, g + k) = ms[g].calls[k]
<1>1. PICK id : id = ms[g + k].callID OBVIOUS
<1>2. id = ms[g].calls[k][1] BY <1>1, Zenon DEF Dialogue
<1>3. ms[g].calls[k][1] = <<ms[g].seq, k>> BY Zenon DEF Dialogue
<1>4. PICK groups : groups = {j \in DOMAIN ms : HasCalls(ms[j]) /\ id \in CallIDs(ms[j])} OBVIOUS
<1>5. CallOf(ms, g + k) = ms[Max(groups)].calls[SelectInSeq(ms[Max(groups)].calls, LAMBDA c : c[1] = id)]
  BY <1>1, <1>4 DEF CallOf
<1>6. g \in groups BY <1>2, <1>4 DEF CallIDs
<1>7. ASSUME NEW j \in groups PROVE j = g
  <2>1. j \in DOMAIN ms /\ HasCalls(ms[j]) BY <1>4, <1>7
  <2>2. PICK h \in DOMAIN ms[j].calls : id = ms[j].calls[h][1] BY <1>4, <1>7 DEF CallIDs
  <2>3. ms[j].calls[h][1] = <<ms[j].seq, h>> BY <2>1, <2>2, Zenon DEF Dialogue
  <2>4. <<ms[j].seq, h>> = <<ms[g].seq, k>> BY <1>2, <1>3, <2>2, <2>3
  <2>5. ms[j].seq = ms[g].seq BY <2>4
  <2>6. ~(ms[j].seq < ms[g].seq) /\ ~(ms[g].seq < ms[j].seq)
    <3>1. ms[g] \in Messages BY Positions
    <3>2. ms[g].seq \in Nat BY <3>1, Fields
    <3> QED BY <2>5, <3>2
  <2>7. ~(j < g) /\ ~(g < j) BY <2>1, <2>6 DEF Rising
  <2>8. j \in Nat /\ g \in Nat BY <2>1, GroupTyped
  <2> QED BY ONLY <2>7, <2>8
<1>8. groups = {g} BY <1>6, <1>7
<1>9. Max(groups) = g
  <2>1. PICK n \in Nat : DOMAIN ms = 1..n BY Positions
  <2>2. groups \in SUBSET (1..n) /\ groups # {} BY <1>6, <1>8, <2>1
  <2>3. Max(groups) \in groups BY <2>1, <2>2, TrailingFinite
  <2> QED BY <1>8, <2>3
<1>10. PICK calls : calls = ms[g].calls OBVIOUS
<1>11. PICK c \in Nat : c = Len(calls) /\ DOMAIN calls = 1..c BY <1>10, GroupTyped
<1>12. PICK I : I = {i \in 1..Len(calls) : calls[i][1] = id} OBVIOUS
<1>13. SelectInSeq(calls, LAMBDA d : d[1] = id) = IF I # {} THEN Min(I) ELSE 0 BY <1>12 DEF SelectInSeq
<1>14. k \in I BY <1>2, <1>10, <1>11, <1>12
<1>15. ASSUME NEW i \in I PROVE i = k
  <2>1. i \in DOMAIN ms[g].calls /\ ms[g].calls[i][1] = id BY <1>10, <1>11, <1>12, <1>15
  <2>2. ms[g].calls[i][1] = <<ms[g].seq, i>> BY <2>1, Zenon DEF Dialogue
  <2>3. <<ms[g].seq, i>> = <<ms[g].seq, k>> BY <1>2, <1>3, <2>1, <2>2
  <2> QED BY <2>3
<1>16. I \in SUBSET Nat BY <1>11, <1>12
<1>17. \A y \in I : k <= y
  <2>1. k \in Nat BY <1>14, <1>16
  <2> QED BY <1>15, <2>1
<1>18. Min(I) = k BY <1>14, <1>16, <1>17, MinIs
<1>19. SelectInSeq(calls, LAMBDA d : d[1] = id) = k BY <1>13, <1>14, <1>18
<1> QED BY <1>5, <1>9, <1>10, <1>19

\* The group and the place of a result
LEMMA ResultPlace ==
  ASSUME NEW ms \in Seq(Messages), Dialogue(ms), NEW i \in DOMAIN ms, ms[i].role = "tool"
  PROVE  \E g \in DOMAIN ms : \E k \in DOMAIN ms[g].calls : HasCalls(ms[g]) /\ g + k = i
<1>1. PICK n \in Nat : DOMAIN ms = 1..n BY Positions
<1>2. PICK g \in 1..i-1 : HasCalls(ms[g]) /\ i - g \in DOMAIN ms[g].calls BY DEF Dialogue
<1>3. g \in DOMAIN ms /\ g + (i - g) = i BY <1>1, <1>2
<1> QED BY <1>2, <1>3

\* Messages with the same groups, moved by k, have the same answers.
LEMMA SameAnswer ==
  ASSUME NEW as \in Seq(Messages), Dialogue(as), Rising(as), NEW ms \in Seq(Messages), Dialogue(ms), Rising(ms),
         NEW k \in Nat, NEW i \in DOMAIN as, as[i].role = "tool", i + k <= Len(ms),
         \A g \in DOMAIN as : HasCalls(as[g]) => g + k \in DOMAIN ms /\ HasCalls(ms[g + k]) /\ ms[g + k].calls = as[g].calls
  PROVE  CallOf(as, i) = CallOf(ms, i + k)
<1>1. PICK g \in DOMAIN as : \E h \in DOMAIN as[g].calls : HasCalls(as[g]) /\ g + h = i BY ResultPlace
<1>2. PICK h \in DOMAIN as[g].calls : HasCalls(as[g]) /\ g + h = i BY <1>1
<1>3. PICK x \in DOMAIN ms : x = g + k /\ HasCalls(ms[x]) /\ ms[x].calls = as[g].calls BY <1>2
<1>4. i \in Nat /\ g \in Nat /\ h \in Nat /\ i <= Len(as)
  <2>1. i \in Nat /\ i <= Len(as) BY GroupTyped
  <2>2. PICK c \in Nat : g \in Nat /\ DOMAIN as[g].calls = 1..c BY GroupTyped
  <2>3. h \in 1..c BY <2>2
  <2>4. h \in Nat BY ONLY <2>2, <2>3
  <2> QED BY <2>1, <2>2, <2>4
<1>5. x + h = i + k BY <1>2, <1>3, <1>4
<1>6. CallOf(as, g + h) = as[g].calls[h] BY <1>2, <1>4, ResultAnswers
<1>7. h \in DOMAIN ms[x].calls /\ x + h <= Len(ms) BY <1>3, <1>5
<1>8. CallOf(ms, x + h) = ms[x].calls[h] BY <1>3, <1>7, ResultAnswers
<1> QED BY <1>2, <1>3, <1>5, <1>6, <1>8

\* The results of a part that goes to the end
LEMMA ShiftMoves ==
  ASSUME NEW as \in Seq(Messages), Dialogue(as), Rising(as), NEW ms \in Seq(Messages), Dialogue(ms), Rising(ms),
         NEW k \in Nat, NEW p \in Nat, p >= 1, Shifts(as, ms, k, p)
  PROVE  /\ Moves(TurnResults(as), Fingerprints(as), Rejected(as), TurnResults(ms), Fingerprints(ms), Rejected(ms), k)
         /\ Reaches(TurnResults(as), TurnResults(ms), k, p + k)
<1>1. PICK n \in Nat : n = Len(as) /\ DOMAIN as = 1..n /\ n + k = Len(ms) /\ DOMAIN ms = 1..n+k BY Positions DEF Shifts
<1>2. ASSUME NEW i \in p..n
      PROVE  i \in DOMAIN as /\ i + k \in DOMAIN ms /\ i + k <= Len(ms) /\ Echoes(as[i], ms[i + k])
  <2>1. i \in 1..n /\ i + k \in 1..n+k /\ i + k <= n + k BY <1>2
  <2> QED BY <1>1, <2>1 DEF Shifts
<1>3. ASSUME NEW i \in DOMAIN as, as[i].role \notin {"system", "user"} PROVE i \in p..n
  <2>1. ~(i < p) BY <1>3 DEF Shifts
  <2>2. i \in 1..n BY <1>1
  <2> QED BY ONLY <2>1, <2>2, n \in Nat, p \in Nat
<1>4. \A g \in DOMAIN as : HasCalls(as[g]) => g + k \in DOMAIN ms /\ HasCalls(ms[g + k]) /\ ms[g + k].calls = as[g].calls
  <2> SUFFICES ASSUME NEW g \in DOMAIN as, HasCalls(as[g])
               PROVE  g + k \in DOMAIN ms /\ HasCalls(ms[g + k]) /\ ms[g + k].calls = as[g].calls
    OBVIOUS
  <2>1. as[g].role = "assistant" /\ as[g].calls # <<>> BY DEF HasCalls, IsAssistant
  <2>2. g \in p..n BY <1>3, <2>1
  <2>3. g + k \in DOMAIN ms /\ Echoes(as[g], ms[g + k]) BY <1>2, <2>2
  <2> QED BY <2>1, <2>3 DEF Echoes, HasCalls, IsAssistant
<1>5. ASSUME NEW y \in p..n PROVE Counts(as, y) <=> Counts(ms, y + k)
  <2>1. y \in DOMAIN as /\ y + k \in DOMAIN ms /\ Echoes(as[y], ms[y + k]) BY <1>2, <1>5
  <2>2. (as[y].role = "tool" /\ as[y].body # "recovery") <=> (ms[y + k].role = "tool" /\ ms[y + k].body # "recovery")
    BY <2>1 DEF Echoes
  <2>3. ASSUME \A u \in DOMAIN as : as[u].role = "user" => u < y, NEW u \in DOMAIN ms, ms[u].role = "user" PROVE u < y + k
    <3>0. u \in 1..n+k BY <1>1
    <3>1. u \in Nat /\ u <= n + k /\ y \in Nat /\ p <= y BY ONLY <3>0, y \in p..n, n \in Nat, k \in Nat, p \in Nat
    <3>2. CASE u < p + k BY ONLY <3>1, <3>2, p \in Nat, k \in Nat
    <3>3. CASE ~(u < p + k)
      <4>1. PICK i \in p..n : i + k = u
        <5>1. u - k \in p..n /\ (u - k) + k = u BY ONLY <3>1, <3>3, n \in Nat, k \in Nat, p \in Nat
        <5> QED BY <5>1
      <4>2. i \in DOMAIN as /\ as[i].role = "user" BY <1>2, <2>3, <4>1 DEF Echoes
      <4>3. i < y BY <2>3, <4>2
      <4> QED BY <3>1, <4>1, <4>3
    <3> QED BY <3>2, <3>3
  <2>4. ASSUME \A u \in DOMAIN ms : ms[u].role = "user" => u < y + k, NEW u \in DOMAIN as, as[u].role = "user" PROVE u < y
    <3>0. u \in 1..n BY <1>1
    <3>1. u \in Nat /\ u <= n /\ y \in Nat /\ p <= y BY ONLY <3>0, y \in p..n, n \in Nat, p \in Nat
    <3>2. CASE u < p BY ONLY <3>1, <3>2, p \in Nat
    <3>3. CASE ~(u < p)
      <4>1. u \in p..n BY ONLY <3>1, <3>3, n \in Nat, p \in Nat
      <4>2. u + k \in DOMAIN ms /\ ms[u + k].role = "user" BY <1>2, <2>4, <4>1 DEF Echoes
      <4>3. u + k < y + k BY <2>4, <4>2
      <4> QED BY <3>1, <4>3
    <3> QED BY <3>2, <3>3
  <2> QED BY <2>1, <2>2, <2>3, <2>4 DEF Counts
<1>6. ASSUME NEW y \in TurnResults(as)
      PROVE  /\ y \in p..n /\ y + k \in TurnResults(ms) /\ Fingerprints(as)[y] = Fingerprints(ms)[y + k]
             /\ y + k \in Rejected(ms) => y \in Rejected(as)
  <2>1. Counts(as, y) BY <1>6, TurnResultsAre
  <2>2. y \in DOMAIN as /\ as[y].role = "tool" BY <2>1 DEF Counts
  <2>3. y \in p..n BY <1>3, <2>2
  <2>4. y + k \in TurnResults(ms) BY <1>5, <2>1, <2>3, TurnResultsAre
  <2>5. y + k \in DOMAIN ms /\ y + k <= Len(ms) /\ Echoes(as[y], ms[y + k]) BY <1>2, <2>3
  <2>6. CallOf(as, y) = CallOf(ms, y + k) BY <1>4, <2>2, <2>5, SameAnswer
  <2>7. Fingerprints(as)[y] = Fingerprints(ms)[y + k] BY <2>2, <2>5, <2>6 DEF Fingerprints
  <2>8. y + k \in Rejected(ms) => y \in Rejected(as) BY <2>2, <2>5 DEF Rejected, Echoes
  <2> QED BY <2>3, <2>4, <2>7, <2>8
<1>7. ASSUME NEW x \in TurnResults(ms)
      PROVE  (\E y \in TurnResults(as) : y + k = x) \/ (x < p + k /\ \A y \in TurnResults(as) : x < y + k)
  <2>1. Counts(ms, x) BY <1>7, TurnResultsAre
  <2>0. x \in 1..n+k BY <1>1, <2>1 DEF Counts
  <2>2. x \in Nat /\ x <= n + k BY ONLY <2>0, n \in Nat, k \in Nat
  <2>3. CASE x < p + k
    <3>1. ASSUME NEW y \in TurnResults(as) PROVE x < y + k
      <4>0. y \in p..n BY <1>6
      <4>1. y \in Nat /\ p <= y BY ONLY <4>0, n \in Nat, p \in Nat
      <4> QED BY ONLY <2>2, <2>3, <4>1, p \in Nat, k \in Nat
    <3> QED BY <2>3, <3>1
  <2>4. CASE ~(x < p + k)
    <3>1. PICK y \in p..n : y + k = x
      <4>1. x - k \in p..n /\ (x - k) + k = x BY ONLY <2>2, <2>4, n \in Nat, k \in Nat, p \in Nat
      <4> QED BY <4>1
    <3>2. y \in TurnResults(as) BY <1>5, <2>1, <3>1, TurnResultsAre
    <3> QED BY <3>1, <3>2
  <2> QED BY <2>3, <2>4
<1> QED BY <1>6, <1>7 DEF Moves, Reaches

\* Results that move keep what is said of them.
LEMMA MovesKeep ==
  ASSUME NEW as \in Seq(Messages), Dialogue(as), NEW ms \in Seq(Messages), Dialogue(ms), NEW k \in Nat,
         Moves(TurnResults(as), Fingerprints(as), Rejected(as), TurnResults(ms), Fingerprints(ms), Rejected(ms), k)
  PROVE  /\ ~Repeats(ms) => ~Repeats(as)
         /\ \A streak : Tracks(ms, streak) => Tracks(as, streak)
<1>1. /\ TurnResults(as) \subseteq DOMAIN as /\ TurnResults(as) \in SUBSET Nat
      /\ TurnResults(ms) \subseteq DOMAIN ms /\ TurnResults(ms) \in SUBSET Nat
  BY TurnResultsTyped
<1>2. /\ Repeats(as) <=> Again(TurnResults(as), Fingerprints(as), Rejected(as))
      /\ Repeats(ms) <=> Again(TurnResults(ms), Fingerprints(ms), Rejected(ms))
  BY <1>1, RepeatsIs
<1>3. /\ ~Again(TurnResults(ms), Fingerprints(ms), Rejected(ms)) => ~Again(TurnResults(as), Fingerprints(as), Rejected(as))
      /\ \A streak : Follows(TurnResults(ms), Fingerprints(ms), streak) => Follows(TurnResults(as), Fingerprints(as), streak)
  BY <1>1, MovedResults, Zenon
<1> QED BY <1>2, <1>3 DEF Tracks

\* A working set in order
LEMMA WorkingRises ==
  ASSUME NEW ms, NEW last, Working(ms, last)
  PROVE  Rising(ms)
BY DEF Working, Rising

\* Trimming changes no row of results.
LEMMA LikeKeepsRows ==
  ASSUME NEW ms \in Seq(Messages), Dialogue(ms), Rising(ms), NEW as, Like(as, ms)
  PROVE  /\ ~Repeats(ms) => ~Repeats(as)
         /\ \A streak : Tracks(ms, streak) => Tracks(as, streak)
<1>1. as \in Seq(Messages) /\ Len(as) = Len(ms) /\ DOMAIN as = DOMAIN ms /\ Dialogue(as) BY LikeTalks, LikeKeepsTalk
<1>2. PICK n \in Nat : n = Len(as) /\ n = Len(ms) /\ DOMAIN as = 1..n /\ DOMAIN ms = 1..n BY <1>1, Positions
<1>3. \A i \in DOMAIN ms : Echoes(as[i], ms[i]) BY DEF Like
<1>4. Rising(as) BY <1>1, <1>3 DEF Rising, Echoes
<1>5. Shifts(as, ms, 0, 1)
  <2>1. n + 0 = n /\ (\A i \in 1..n : i + 0 = i /\ ~(i < 1)) BY ONLY n \in Nat
  <2> QED BY <1>2, <1>3, <2>1 DEF Shifts
<1>6. Moves(TurnResults(as), Fingerprints(as), Rejected(as), TurnResults(ms), Fingerprints(ms), Rejected(ms), 0)
  <2>1. 0 \in Nat /\ 1 \in Nat /\ 1 >= 1 OBVIOUS
  <2> QED BY ONLY <1>1, <1>4, <1>5, <2>1, ms \in Seq(Messages), Dialogue(ms), Rising(ms), ShiftMoves
<1> QED BY <1>1, <1>6, MovesKeep

\* Nor does a summary: what it leaves are the latest results.
LEMMA TrimmedKeepsRows ==
  ASSUME NEW ms \in Seq(Messages), NEW last, Working(ms, last), Finished(ms), NEW as, Working(as, last), Trimmed(as, ms)
  PROVE  /\ ~Repeats(ms) => ~Repeats(as)
         /\ \A streak : Tracks(ms, streak) => Tracks(as, streak)
<1>1. Dialogue(ms) /\ Rising(ms) /\ Dialogue(as) /\ Rising(as) BY TrimmedIsFinished, WorkingRises DEF Finished
<1>2. CASE Like(as, ms) BY <1>1, <1>2, LikeKeepsRows
<1>3. ASSUME NEW local, Like(local, ms), NEW p \in collectToolCallGroups(ms), Layout(as, local, p)
      PROVE  /\ ~Repeats(ms) => ~Repeats(as)
             /\ \A streak : Tracks(ms, streak) => Tracks(as, streak)
  <2>1. local \in Seq(Messages) /\ DOMAIN local = DOMAIN ms /\ Dialogue(local) BY <1>1, <1>3, LikeTalks, LikeKeepsTalk
  <2>2. \A i \in DOMAIN ms : local[i].seq = ms[i].seq /\ local[i].role = ms[i].role BY <1>3, LikeTalks
  <2>3. Rising(local) BY <1>1, <2>1, <2>2 DEF Rising
  <2>4. p \in DOMAIN ms BY DEF collectToolCallGroups
  <2>5. 1 \in DOMAIN ms BY <2>4, Positions
  <2>6. local[1].role = "system" BY <2>2, <2>5 DEF Working
  <2>7. PICK n \in Nat, k \in Nat :
          /\ n >= 3 /\ n + k = Len(local) /\ k + 3 = p /\ Len(as) = n
          /\ as[1] = local[1] /\ as[2].role = "user"
          /\ \A i \in 3..n : as[i] = local[i + k]
    BY <1>3 DEF Layout
  <2>8. as \in Seq(Messages) BY <1>3 DEF Layout
  <2>9. DOMAIN as = 1..n BY <2>7, <2>8, Positions
  <2>10. Shifts(as, local, k, 3)
    <3>1. \A i \in 3..n : Echoes(as[i], local[i + k]) BY <2>7 DEF Echoes
    <3>2. ASSUME NEW i \in DOMAIN as, i < 3 PROVE as[i].role \in {"system", "user"}
      <4>1. i \in 1..n BY <2>9
      <4>2. i = 1 \/ i = 2 BY ONLY <3>2, <4>1, n \in Nat
      <4> QED BY <2>6, <2>7, <4>2
    <3> QED BY <2>7, <3>1, <3>2 DEF Shifts
  <2>11. Moves(TurnResults(as), Fingerprints(as), Rejected(as),
               TurnResults(local), Fingerprints(local), Rejected(local), k)
    <3>1. 3 \in Nat /\ 3 >= 1 OBVIOUS
    <3> QED BY ONLY <1>1, <2>1, <2>3, <2>8, <2>10, <3>1, k \in Nat, ShiftMoves
  <2>12. /\ ~Repeats(local) => ~Repeats(as)
         /\ \A streak : Tracks(local, streak) => Tracks(as, streak)
    BY <1>1, <2>1, <2>8, <2>11, MovesKeep
  <2>13. /\ ~Repeats(ms) => ~Repeats(local)
         /\ \A streak : Tracks(ms, streak) => Tracks(local, streak)
    BY <1>1, <1>3, LikeKeepsRows
  <2> QED BY <2>12, <2>13
<1> QED BY <1>2, <1>3 DEF Trimmed

-----------------------------------------------------------------------------
(* One message more.                                                       *)

\* The user's message opens a turn without results.
LEMMA TurnOpens ==
  ASSUME NEW ms \in Seq(Messages), NEW m \in Messages, m.role = "user", Dialogue(Append(ms, m))
  PROVE  LET as == Append(ms, m) IN TurnResults(as) = {} /\ ~Repeats(as) /\ Tracks(as, recentToolStreak(as))
<1>1. PICK as : as = Append(ms, m) OBVIOUS
<1>2. Extension(as, ms, m) BY <1>1, OneMore
<1>3. Dialogue(as) BY <1>1
<1> HIDE <1>1
<1>4. PICK n \in Nat : n = Len(ms) /\ as \in Seq(Messages) /\ DOMAIN ms = 1..n /\ DOMAIN as = DOMAIN ms \cup {n + 1} /\ as[n + 1] = m
  BY <1>2 DEF Extension
<1>5. ASSUME NEW i \in TurnResults(as) PROVE FALSE
  <2>1. i \in DOMAIN as /\ n + 1 < i BY <1>3, <1>4, <1>5, TurnResultsAre DEF Counts
  <2>2. i \in 1..n \/ i = n + 1 BY <1>4, <2>1
  <2> QED BY ONLY <2>1, <2>2, n \in Nat
<1>6. TurnResults(as) = {} /\ TurnResults(as) \subseteq DOMAIN as BY <1>5
<1>7. ~Repeats(as) BY <1>6 DEF Repeats
<1>8. Tracks(as, recentToolStreak(as)) BY <1>4, <1>6, RestoredStreakTracks
<1> QED BY <1>1, <1>6, <1>7, <1>8

\* The results that were there keep their calls.
LEMMA AnswersStay ==
  ASSUME NEW ms \in Seq(Messages), Dialogue(ms), Rising(ms), NEW m \in Messages, NEW as,
         as = Append(ms, m), Dialogue(as), Rising(as), m.role # "user"
  PROVE  /\ \A y \in TurnResults(ms) : y < Len(ms) + 1 /\ Fingerprints(as)[y] = Fingerprints(ms)[y]
         /\ \A y : y \in TurnResults(as) <=>
              y \in TurnResults(ms) \/ (y = Len(ms) + 1 /\ m.role = "tool" /\ m.body # "recovery")
         /\ \A y \in DOMAIN ms : y \in Rejected(as) <=> y \in Rejected(ms)
         /\ Len(ms) + 1 \in Rejected(as) <=> m.body = "rejected"
<1>1. Extension(as, ms, m) BY OneMore
<1>2. PICK n \in Nat :
        /\ n = Len(ms) /\ as \in Seq(Messages) /\ DOMAIN ms = 1..n /\ DOMAIN as = DOMAIN ms \cup {n + 1}
        /\ as[n + 1] = m /\ Len(as) = n + 1 /\ \A i \in DOMAIN ms : as[i] = ms[i]
  BY <1>1 DEF Extension
<1>3. \A y \in DOMAIN ms : y \in Nat /\ y < n + 1 /\ y + 0 = y /\ y + 0 <= n + 1
  <2>1. \A y \in 1..n : y \in Nat /\ y < n + 1 /\ y + 0 = y /\ y + 0 <= n + 1 BY ONLY n \in Nat
  <2> QED BY <1>2, <2>1
<1>4. ASSUME NEW y \in DOMAIN ms PROVE Counts(as, y) <=> Counts(ms, y)
  <2>1. as[y] = ms[y] BY <1>2
  <2>2. \A u \in DOMAIN as : as[u].role = "user" => u \in DOMAIN ms /\ ms[u].role = "user" BY <1>2
  <2>3. \A u \in DOMAIN ms : u \in DOMAIN as /\ as[u] = ms[u] BY <1>2
  <2> QED BY <2>1, <2>2, <2>3 DEF Counts
<1>5. Counts(as, n + 1) <=> m.role = "tool" /\ m.body # "recovery"
  <2>1. \A u \in DOMAIN as : as[u].role = "user" => u < n + 1 BY <1>2, <1>3
  <2> QED BY <1>2, <2>1 DEF Counts
<1>6. ASSUME NEW y
      PROVE  y \in TurnResults(as) <=> y \in TurnResults(ms) \/ (y = n + 1 /\ m.role = "tool" /\ m.body # "recovery")
  <2>1. y \in TurnResults(as) <=> Counts(as, y) BY <1>2, TurnResultsAre
  <2>2. y \in TurnResults(ms) <=> Counts(ms, y) BY TurnResultsAre
  <2>3. Counts(as, y) => y \in DOMAIN ms \/ y = n + 1 BY <1>2 DEF Counts
  <2>4. Counts(ms, y) => y \in DOMAIN ms BY DEF Counts
  <2> QED BY <1>4, <1>5, <2>1, <2>2, <2>3, <2>4
<1>7. ASSUME NEW y \in TurnResults(ms) PROVE y < n + 1 /\ Fingerprints(as)[y] = Fingerprints(ms)[y]
  <2>1. y \in DOMAIN ms /\ ms[y].role = "tool" BY TurnResultsAre DEF Counts
  <2>2. \A g \in DOMAIN ms : HasCalls(ms[g]) => g + 0 \in DOMAIN as /\ HasCalls(as[g + 0]) /\ as[g + 0].calls = ms[g].calls
    BY <1>2, <1>3
  <2>3. y + 0 <= Len(as) BY <1>2, <1>3, <2>1
  <2>4. CallOf(ms, y) = CallOf(as, y + 0) BY <1>2, <2>1, <2>2, <2>3, SameAnswer
  <2>5. CallOf(ms, y) = CallOf(as, y) BY <1>3, <2>1, <2>4
  <2> QED BY <1>2, <1>3, <2>1, <2>5 DEF Fingerprints
<1>8. \A y \in DOMAIN ms : y \in Rejected(as) <=> y \in Rejected(ms) BY <1>2 DEF Rejected
<1>9. n + 1 \in Rejected(as) <=> m.body = "rejected" BY <1>2 DEF Rejected
<1> QED BY <1>2, <1>6, <1>7, <1>8, <1>9

\* A message that is no result, and a recovery note, change no row.
LEMMA OtherMessage ==
  ASSUME NEW ms \in Seq(Messages), Dialogue(ms), Rising(ms), NEW m \in Messages, NEW as,
         as = Append(ms, m), Dialogue(as), Rising(as), m.role # "user", m.role # "tool" \/ m.body = "recovery"
  PROVE  /\ ~Repeats(ms) => ~Repeats(as)
         /\ \A streak : Tracks(ms, streak) => Tracks(as, streak)
<1>1. as \in Seq(Messages) BY AppendedMessage
<1>2. /\ \A y \in TurnResults(ms) : Fingerprints(as)[y] = Fingerprints(ms)[y]
      /\ \A y : y \in TurnResults(as) <=> y \in TurnResults(ms)
      /\ \A y \in DOMAIN ms : y \in Rejected(as) <=> y \in Rejected(ms)
  BY AnswersStay
<1>3. \A y \in TurnResults(ms) : y \in DOMAIN ms /\ y \in Nat BY TurnResultsTyped
<1>4. \A y \in Nat : y + 0 = y OBVIOUS
<1>5. ASSUME NEW y \in TurnResults(as)
      PROVE  /\ y + 0 \in TurnResults(ms) /\ Fingerprints(as)[y] = Fingerprints(ms)[y + 0]
             /\ y + 0 \in Rejected(ms) => y \in Rejected(as)
  <2>1. y \in TurnResults(ms) BY <1>2
  <2>2. y + 0 = y /\ y \in DOMAIN ms BY <1>3, <1>4, <2>1
  <2> QED BY <1>2, <2>1, <2>2
<1>6. ASSUME NEW x \in TurnResults(ms) PROVE \E y \in TurnResults(as) : y + 0 = x BY <1>2, <1>3, <1>4
<1>7. Moves(TurnResults(as), Fingerprints(as), Rejected(as), TurnResults(ms), Fingerprints(ms), Rejected(ms), 0)
  BY <1>5, <1>6 DEF Moves
<1> QED BY <1>1, <1>7, MovesKeep

\* The first result that is awaited answers the first of the calls.
LEMMA AwaitedAnswers ==
  ASSUME NEW ms \in Seq(Messages), NEW todo \in Seq(CallNumbers \X Nat), todo # <<>>, Awaits(ms, todo),
         NEW m \in Messages, NEW as, as = Append(ms, m), Dialogue(as), Rising(as)
  PROVE  CallOf(as, Len(ms) + 1) = Head(todo)
<1>1. PICK g \in DOMAIN ms :
        /\ HasCalls(ms[g]) /\ Len(ms) - g + Len(todo) = Len(ms[g].calls)
        /\ \A k \in DOMAIN todo : todo[k] = ms[g].calls[Len(ms) - g + k]
  BY DEF Awaits
<1>2. PICK n \in Nat, t \in Nat, c \in Nat :
        n = Len(ms) /\ t = Len(todo) /\ c = Len(ms[g].calls) /\ DOMAIN ms[g].calls = 1..c
  BY GroupTyped
<1>3. g \in Nat /\ 1 <= g /\ g <= n BY <1>2, GroupTyped
<1>4. t # 0 /\ DOMAIN todo = 1..t /\ Head(todo) = todo[1] BY <1>2
<1>5. n - g + t = c BY <1>1, <1>2
<1>6. Extension(as, ms, m) BY OneMore
<1>7. g \in DOMAIN as /\ as[g] = ms[g] /\ Len(as) = n + 1 /\ as \in Seq(Messages) BY <1>2, <1>6 DEF Extension
<1>8. PICK k \in Nat : k = n - g + 1
  <2>1. n - g + 1 \in Nat BY ONLY <1>3, n \in Nat
  <2> QED BY <2>1
<1>9. k \in 1..c /\ g + k = n + 1 /\ 1 \in 1..t
  <2>1. t # 0 BY <1>4
  <2>2. PICK h \in Nat : h = g /\ h <= n BY <1>3
  <2>3. n - h + t = c /\ k = n - h + 1 BY <1>5, <1>8, <2>2
  <2>4. h <= n BY <2>2
  <2> HIDE <2>2
  <2>5. h + k = n + 1 BY ONLY <2>3, <2>4, n \in Nat, k \in Nat, h \in Nat
  <2>6. k >= 1 BY ONLY <2>4, <2>5, n \in Nat, k \in Nat, h \in Nat
  <2>7. k <= c BY ONLY <2>1, <2>3, n \in Nat, k \in Nat, h \in Nat, t \in Nat, c \in Nat
  <2>8. 1 \in 1..t BY ONLY <2>1, t \in Nat
  <2>9. k \in 1..c /\ h + k = n + 1 /\ 1 \in 1..t BY ONLY <2>5, <2>6, <2>7, <2>8, c \in Nat, k \in Nat
  <2> QED BY <2>2, <2>9
<1>10. todo[1] = ms[g].calls[k] BY <1>1, <1>2, <1>4, <1>8, <1>9
<1>11. HasCalls(as[g]) /\ k \in DOMAIN as[g].calls /\ g + k <= Len(as)
  <2>1. g + k <= n + 1 BY ONLY <1>2, <1>9
  <2> QED BY <1>1, <1>2, <1>7, <1>9, <2>1
<1>12. CallOf(as, g + k) = as[g].calls[k] BY <1>7, <1>11, ResultAnswers
<1> QED BY <1>2, <1>4, <1>7, <1>9, <1>10, <1>12

\* One more result of a run at its tools: the third of a row is rejected.
LEMMA ResultCounted ==
  ASSUME NEW ms \in Seq(Messages), Dialogue(ms), Rising(ms), NEW todo \in Seq(CallNumbers \X Nat), todo # <<>>,
         Awaits(ms, todo), NEW m \in Messages, m.role = "tool", m.body # "recovery",
         NEW as, as = Append(ms, m), Dialogue(as), Rising(as), NEW streak
  PROVE  /\ /\ ~Repeats(ms)
            /\ m.body = "rejected" \/ (Tracks(ms, streak) /\ ~(observe(streak, Head(todo)).n >= 3))
            => ~Repeats(as)
         /\ Tracks(ms, streak) => Tracks(as, observe(streak, Head(todo)))
<1>1. as \in Seq(Messages) BY AppendedMessage
<1>2. CallOf(as, Len(ms) + 1) = Head(todo) BY AwaitedAnswers
<1>3. PICK n \in Nat : n = Len(ms) + 1 /\ n \in DOMAIN as /\ n \in 1..n
  <2>1. Extension(as, ms, m) BY OneMore
  <2>2. Len(ms) \in Nat BY Positions
  <2>3. PICK l \in Nat : l = Len(ms) BY <2>2
  <2>4. l + 1 \in Nat /\ l + 1 \in 1..l+1 BY ONLY l \in Nat
  <2> QED BY <2>1, <2>3, <2>4 DEF Extension
<1>4. PICK R, S : R = TurnResults(ms) /\ S = TurnResults(as) OBVIOUS
<1>5. PICK f, g : f = Fingerprints(ms) /\ g = Fingerprints(as) OBVIOUS
<1>6. PICK B, C : B = Rejected(ms) /\ C = Rejected(as) OBVIOUS
<1>7. /\ \A y \in R : y < n /\ g[y] = f[y]
      /\ \A y : y \in S <=> y \in R \/ y = n
      /\ \A y \in DOMAIN ms : y \in C <=> y \in B
      /\ n \in C <=> m.body = "rejected"
  BY <1>3, <1>4, <1>5, <1>6, AnswersStay
<1>8. R \subseteq DOMAIN ms /\ R \in SUBSET Nat /\ S \subseteq DOMAIN as BY <1>1, <1>4, TurnResultsTyped
<1>9. S = R \cup {n} BY <1>7
<1>10. PICK call : call = Head(todo) OBVIOUS
<1>11. g[n] = call[2] BY <1>2, <1>3, <1>5, <1>10 DEF Fingerprints
<1>12. Repeats(ms) <=> Again(R, f, B) BY <1>4, <1>5, <1>6, <1>8, RepeatsIs
<1>13. Repeats(as) <=> Again(S, g, C) BY <1>1, <1>4, <1>5, <1>6, <1>8, RepeatsIs
<1>14. Tracks(ms, streak) <=> Follows(R, f, streak) BY <1>4, <1>5 DEF Tracks
<1>15. Tracks(as, observe(streak, call)) <=> Follows(S, g, observe(streak, call)) BY <1>4, <1>5 DEF Tracks
<1>16. ASSUME ~Again(R, f, B), m.body = "rejected" \/ (Follows(R, f, streak) /\ ~(observe(streak, call).n >= 3))
       PROVE  ~Again(S, g, C)
  <2>1. \A x \in R : x < n /\ g[x] = f[x] /\ (x \in B => x \in C) BY <1>7, <1>8
  <2>2. n \in C \/ \E s, c : Follows(R, f, s) /\ g[n] = c[2] /\ ~(observe(s, c).n >= 3) BY <1>7, <1>11, <1>16
  <2>3. ~Again(R \cup {n}, g, C) BY ONLY <1>8, <1>16, <2>1, <2>2, n \in Nat, AgainOneMore
  <2> QED BY <1>9, <2>3
<1>17. ASSUME Follows(R, f, streak) PROVE Follows(S, g, observe(streak, call))
  <2>1. Follows(R \cup {n}, g, observe(streak, call)) BY <1>7, <1>8, <1>11, <1>17, FollowsOneMore
  <2> QED BY <1>9, <2>1
<1> QED BY <1>10, <1>12, <1>13, <1>14, <1>15, <1>16, <1>17

-----------------------------------------------------------------------------
(* What a request and a step do to the rows of results.                    *)

\* A request that repeats nothing and is applied
LEMMA RequestWatches ==
  ASSUME TypeOK, Rows, NothingForgotten, ~gone, Dialogue(memory[ctx.gen]), ~Repeats(memory[ctx.gen]),
         NEW r \in Requested, Sound(r), Timely(r), Harmless(r),
         RequestAllowed(r), ApplyRequest(r), UNCHANGED <<artifacts, wiped, gone>>
  PROVE  ~Repeats(memory'[ctx'.gen])
<1>1. PICK s \in Sessions : s = r.snap BY DEF Requested
<1>2. memory[ctx.gen] \in Seq(Messages) BY Generations DEF TypeOK
<1>3. PICK ms \in Seq(Messages) : ms = memory[ctx.gen] BY <1>2
<1>4. Dialogue(ms) /\ ~Repeats(ms) BY <1>3
<1>5. Snapshot(s) BY <1>1 DEF Sound
<1>6. Working(ms, ctx.last) /\ ctx.last \in Nat BY <1>3, HeadTyped DEF Rows
<1>7. CASE r.op = "reserve"
  <2>1. ReserveMessageSequence BY <1>7 DEF ApplyRequest
  <2>2. memory'[ctx'.gen] = ms BY <1>3, <2>1 DEF ReserveMessageSequence
  <2> QED BY <1>4, <2>2
<1>8. CASE r.op = "create"
  <2>1. CreateAllowed(s) /\ CommitCreateMessage(s) BY <1>1, <1>8 DEF RequestAllowed, ApplyRequest
  <2>2. s.msgs # <<>> /\ (s.rev = 0 <=> Len(s.msgs) = 1) BY <1>1, <1>8 DEF Sound
  <2>3. PICK m : m = Last(s.msgs) OBVIOUS
  <2>4. m \in Messages BY <1>5, <2>1, <2>2, <2>3, CreateFits
  <2>5. /\ s.rev = ctx.rev
        /\ GetRequestContext' = [rev |-> s.rev + 1, gen |-> s.gen, last |-> s.last, msgs |-> Append(memory[ctx.gen], m)]
    BY <1>5, <2>1, <2>2, <2>3, CreateMoves
  <2>6. memory'[ctx'.gen] = Append(ms, m) BY <1>3, <2>5 DEF GetRequestContext
  <2>7. ~Repeats(Append(ms, m)) BY <1>1, <1>3, <1>8, <2>3, <2>5 DEF Harmless
  <2> QED BY <2>6, <2>7
<1>9. CASE r.op = "update"
  <2>1. UpdateAllowed(s) /\ CommitUpdateMessage(s) BY <1>1, <1>9 DEF RequestAllowed, ApplyRequest
  <2>2. s.msgs # <<>> BY <1>1, <1>9 DEF Sound
  <2>3. PICK sys : sys = s.msgs[1] OBVIOUS
  <2>4. s.msgs \in Seq(Messages) /\ Working(s.msgs, s.last) BY <1>5, SessionTyped DEF Snapshot
  <2>5. 1 \in DOMAIN s.msgs BY <2>2, <2>4, Positions
  <2>6. sys \in Messages /\ sys.seq = 1 /\ sys.src = {1} /\ sys.role = "system"
    BY <2>2, <2>3, <2>4, <2>5, Positions DEF Working
  <2>7. GetRequestContext' = [rev |-> s.rev + 1, gen |-> s.gen, last |-> s.last,
                              msgs |-> [memory[ctx.gen] EXCEPT ![1] = s.msgs[1]]]
    BY <1>5, <2>1, <2>2, UpdateMoves
  <2>8. PICK ps : ps = [ms EXCEPT ![1] = sys] OBVIOUS
  <2>9. memory'[ctx'.gen] = ps BY <1>3, <2>3, <2>7, <2>8 DEF GetRequestContext
  <2>10. ms # <<>> BY <1>3, <2>1 DEF UpdateAllowed
  <2>11. Like(ps, ms) BY <1>6, <2>6, <2>8, <2>10, PromptReplaced
  <2>12. ~Repeats(ps) BY <1>4, <1>6, <2>11, WorkingRises, LikeKeepsRows
  <2> QED BY <2>9, <2>12
<1>10. CASE r.op = "generation"
  <2>1. NextGenerationAllowed(s) /\ CommitNextMemoryGeneration(s) BY <1>1, <1>10 DEF RequestAllowed, ApplyRequest
  <2>2. s.msgs # <<>> BY <1>1, <1>10 DEF Sound
  <2>3. s.rev = ctx.rev BY <2>1 DEF NextGenerationAllowed, SameRevision
  <2>4. Sources(s.msgs) = Sources(memory[ctx.gen]) BY <1>1, <1>10, <2>3 DEF Timely
  <2>5. GetRequestContext' = [rev |-> s.rev + 1, gen |-> s.gen, last |-> s.last, msgs |-> s.msgs]
    BY <1>5, <2>1, <2>2, <2>4, GenerationMoves
  <2>6. memory'[ctx'.gen] = s.msgs BY <2>5 DEF GetRequestContext
  <2>7. ~Repeats(s.msgs) BY <1>1, <1>10, <2>3 DEF Harmless
  <2> QED BY <2>6, <2>7
<1> QED BY <1>7, <1>8, <1>9, <1>10 DEF Requested

\* A late request is still harmless, or out of date, after any other write.
LEMMA HarmlessKept ==
  ASSUME TypeOK, ~gone, NEW r \in Requested, Timely(r), Harmless(r), Advances
  PROVE  Harmless(r)'
<1>1. CASE ctx' = ctx /\ memory' = memory BY <1>1 DEF Harmless
<1>2. CASE ctx'.rev = ctx.rev + 1
  <2>1. r.snap.rev <= ctx.rev /\ r.snap.rev \in Nat /\ ctx.rev \in Nat BY HeadTyped, SessionTyped DEF Timely, Requested
  <2>2. r.snap.rev # ctx'.rev BY <1>2, <2>1
  <2> QED BY <2>2 DEF Harmless
<1> QED BY <1>1, <1>2 DEF Advances

\* A run that is about to start or to end holds no loop.
LEMMA WatchedQuietly ==
  ASSUME NEW w, w.pc \in {"idle", "load", "sys", "recover", "user", "finish"}, ~Repeats(w.sess.msgs)
  PROVE  Watched(w)
BY DEF Watched

\* Nothing repeats at first.
LEMMA SilenceIsWatched ==
  ~Repeats(<<>>) /\ ~Repeats(NoSession.msgs) /\ Watched(Idle)
<1>1. <<>> \in Seq(Messages) /\ Dialogue(<<>>) BY SilenceIsDialogue
<1>2. TurnResults(<<>>) = {}
  <2>1. TurnResults(<<>>) \subseteq DOMAIN <<>> BY <1>1, TurnResultsTyped
  <2>2. DOMAIN <<>> = {} OBVIOUS
  <2> QED BY <2>1, <2>2
<1>3. ~Repeats(<<>>) BY <1>2 DEF Repeats
<1>4. NoSession.msgs = <<>> BY DEF NoSession
<1>5. Idle.pc = "idle" /\ Idle.sess = NoSession BY IdleHeld
<1> QED BY <1>3, <1>4, <1>5, WatchedQuietly

\* A run that ends, whatever the reason
LEMMA WatchedAtEnd ==
  ASSUME IInv, Watched(run), NEW next, NEW e, e \in {Failing(next), Ending("failed"), Idle}
  PROVE  Watched(e)
<1>1. PICK v : v = run OBVIOUS
<1>2. RunTyped(v) /\ HeldBy(v) BY <1>1 DEF IInv, TypeOK
<1>3. CASE e = Idle BY <1>3, SilenceIsWatched
<1>4. CASE e = Failing(next)
  <2>1. PICK x, y, o : o = Ended(v, "failed") /\ e = Noting(o, x, y) BY <1>1, <1>4 DEF Failing, Ending, Ended, Noting
  <2>2. e.pc = "finish" /\ e.sess = v.sess BY <1>2, <2>1, FailingHeld
  <2>3. ~Repeats(e.sess.msgs) BY <1>1, <2>2 DEF Watched
  <2> QED BY <2>2, <2>3, WatchedQuietly
<1>5. CASE e = Ending("failed")
  <2>1. e = Ended(v, "failed") BY <1>1, <1>5 DEF Ended, Ending
  <2>2. e.pc = "finish" /\ e.sess = v.sess BY <1>2, <2>1, EndingHeld
  <2>3. ~Repeats(e.sess.msgs) BY <1>1, <2>2 DEF Watched
  <2> QED BY <2>2, <2>3, WatchedQuietly
<1> QED BY <1>3, <1>4, <1>5

\* A step that writes nothing
LEMMA QuietWatches ==
  ASSUME LInv, UNCHANGED <<ctx, memory, gone>>, late' \subseteq late, NEW w, run' = w, Watched(w)
  PROVE  LInv'
<1>1. Watched(run') OBVIOUS
<1> QED BY <1>1 DEF LInv, Harmless

\* A harmless request of a run, sent with whatever luck
LEMMA SendWatches ==
  ASSUME IInv, TInv, LInv, ~gone, NEW r, NEW w, Sends(r, w), Harmless(r), Watched(w), UNCHANGED <<artifacts, wiped>>
  PROVE  LInv'
<1>1. /\ TypeOK /\ Rows /\ NothingForgotten /\ Requests /\ Told /\ Watched(run)
      /\ ~Repeats(memory[ctx.gen]) /\ \A q \in late : Harmless(q)
  BY DEF IInv, TInv, LInv
<1>2. r \in Requested /\ Sound(r) /\ Timely(r) BY FitsIsTimely DEF Sends, Fits
<1>3. Send(r, w) /\ gone' = gone BY DEF Sends, Send
<1>4. Watched(run')
  <2>1. run' \in {w} \cup {Failing(w), Idle} BY <1>3 DEF Send
  <2>2. PICK x : x = run' OBVIOUS
  <2>3. Watched(x) BY <1>1, <2>1, <2>2, WatchedAtEnd
  <2> QED BY <2>2, <2>3
<1>5. \/ RequestAllowed(r) /\ ApplyRequest(r) /\ late' = late
      \/ UNCHANGED storeVars /\ late' \subseteq late \cup {r}
  BY <1>3 DEF Send
<1>6. CASE RequestAllowed(r) /\ ApplyRequest(r) /\ late' = late
  <2>1. Advances BY <1>1, <1>2, <1>3, <1>6, RequestMoves
  <2>2. ~Repeats(memory'[ctx'.gen]) BY <1>1, <1>2, <1>3, <1>6, RequestWatches DEF Told, Chronicle
  <2>3. ASSUME NEW q \in late PROVE Harmless(q)'
    BY <1>1, <2>1, <2>3, HarmlessKept DEF Requests, TypeOK
  <2> QED BY <1>4, <1>6, <2>2, <2>3 DEF LInv
<1>7. CASE UNCHANGED storeVars /\ late' \subseteq late \cup {r}
  <2>1. UNCHANGED <<ctx, memory>> BY <1>7 DEF storeVars
  <2>2. ASSUME NEW q \in late' PROVE Harmless(q)' BY <1>1, <1>7, <2>1, <2>2 DEF Harmless
  <2> QED BY <1>1, <1>4, <2>1, <2>2 DEF LInv
<1> QED BY <1>5, <1>6, <1>7

\* The session of a run, as far as the rows of its results matter
LEMMA RunWatched ==
  ASSUME IInv, TInv, LInv, run.pc # "idle"
  PROVE  /\ ~gone /\ run.sess.msgs \in Seq(Messages) /\ Dialogue(run.sess.msgs) /\ Rising(run.sess.msgs)
         /\ ~Repeats(run.sess.msgs) /\ Watched(run)
<1>1. ~gone /\ run.sess.msgs \in Seq(Messages) /\ Dialogue(run.sess.msgs) /\ HeldBy(run) BY RunHolds
<1>2. Rising(run.sess.msgs) BY <1>1, WorkingRises DEF HeldBy, Snapshot
<1> QED BY <1>1, <1>2 DEF LInv, Watched

\* What a run sends is harmless if what it will hold is: at the revision that
\* is current it holds what is stored.
LEMMA OwnRequestHarmless ==
  ASSUME IInv, ~gone, NEW r, r.snap.rev = run.sess.rev,
         r.op = "create" => ~Repeats(Append(run.sess.msgs, Last(r.snap.msgs))),
         r.op = "generation" => ~Repeats(r.snap.msgs)
  PROVE  Harmless(r)
<1>1. Behind(run.sess) BY DEF IInv, InStep
<1>2. r.snap.rev = ctx.rev => run.sess.msgs = memory[ctx.gen] BY <1>1 DEF Behind, GetRequestContext
<1> QED BY <1>2 DEF Harmless

\* A message and what the run makes of it: as is what it will hold.
Watches(m, next) ==
  \A as, w :
    /\ as = Append(run.sess.msgs, m) /\ Dialogue(as) /\ Rising(as)
    /\ w.sess.msgs = as /\ w.pc = next.pc /\ w.streak = next.streak /\ w.cut = next.cut
    => ~Repeats(as) /\ Watched(w)

\* A message that continues what the run holds
LEMMA AppendWatches ==
  ASSUME IInv, TInv, LInv, ~gone, NEW m, NEW next, Appends(m, next), UNCHANGED <<artifacts, wiped>>,
         Continues(run.sess.msgs, m), Watches(m, next)
  PROVE  LInv'
<1>1. PICK r, w : /\ Sends(r, w)
                  /\ r.op = "create" /\ r.snap.rev = run.sess.rev /\ Last(r.snap.msgs) = m
                  /\ w.sess.msgs = Append(run.sess.msgs, m) /\ w.pc = next.pc /\ w.todo = next.todo
                  /\ w.streak = next.streak /\ w.cut = next.cut
  BY AppendSends
<1>2. PICK ms : ms = run.sess.msgs OBVIOUS
<1>3. ms \in Seq(Messages) /\ m \in Messages BY <1>2, SessionTyped DEF IInv, TypeOK, RunTyped, Appends
<1>4. Dialogue(ms) /\ Continues(ms, m) BY <1>2 DEF TInv, Heard
<1>5. PICK as : as = Append(ms, m) OBVIOUS
<1>6. Dialogue(as) BY <1>3, <1>4, <1>5, DialogueContinues
<1>7. w.sess.msgs = as BY <1>1, <1>2, <1>5
<1>8. Rising(as) BY <1>1, <1>7, WorkingRises DEF Sends, Ready, HeldBy, Snapshot
<1>9. ~Repeats(as) /\ Watched(w) BY <1>1, <1>2, <1>5, <1>6, <1>7, <1>8 DEF Watches
<1>10. Harmless(r) BY <1>1, <1>2, <1>5, <1>9, OwnRequestHarmless
<1> QED BY <1>1, <1>9, <1>10, SendWatches

-----------------------------------------------------------------------------
(* One lemma per step.                                                     *)

\* A new run holds nothing.
LEMMA StartWatches ==
  ASSUME LInv, NEW resume, StartRun(resume) \/ Execute
  PROVE  LInv'
<1>1. PICK w : w = run' OBVIOUS
<1>2. w = [Idle EXCEPT !.pc = "load", !.resume = resume] \/ w = [Idle EXCEPT !.pc = "load"]
  BY <1>1 DEF StartRun, Execute
<1>3. w.pc = "load" /\ w.sess = NoSession BY <1>2, StartedHeld
<1>4. Watched(w) BY <1>3, SilenceIsWatched, WatchedQuietly
<1>5. UNCHANGED <<ctx, memory, gone>> /\ late' = late BY DEF StartRun, Execute, storeVars
<1> QED BY <1>1, <1>4, <1>5, QuietWatches

\* A run loads the stored working set.
LEMMA InitSessionWatches ==
  ASSUME IInv, TInv, LInv, InitSession
  PROVE  LInv'
<1>1. run.pc = "load" BY DEF InitSession, At
<1>2. ~gone /\ Watched(run) BY <1>1, RunWatched
<1>3. PICK v : v = run OBVIOUS
<1>4. DOMAIN v = {"pc", "resume", "sess", "chat", "seq", "reason", "err", "cand", "todo", "streak", "cut", "changed"}
  BY <1>3, RunFields DEF IInv, TypeOK
<1>5. PICK c : c = GetRequestContext OBVIOUS
<1>6. ~Repeats(c.msgs) BY <1>2, <1>5 DEF LInv, GetRequestContext
<1>7. PICK w : w = run' OBVIOUS
<1>8. w = [v EXCEPT !.pc = "sys", !.sess = c] \/ w = Ending("failed") BY <1>3, <1>5, <1>7 DEF InitSession
<1>9. Watched(w)
  <2>1. CASE w = [v EXCEPT !.pc = "sys", !.sess = c]
    <3>1. w.pc = "sys" /\ w.sess = c BY <1>4, <2>1
    <3> QED BY <1>6, <3>1, WatchedQuietly
  <2>2. CASE w = Ending("failed") BY <1>2, <2>2, WatchedAtEnd
  <2> QED BY <1>8, <2>1, <2>2
<1>10. UNCHANGED <<ctx, memory, gone>> /\ late' = late BY DEF InitSession, storeVars
<1> QED BY <1>7, <1>9, <1>10, QuietWatches

\* The system prompt is no result.
LEMMA InitSysPromptWatches ==
  ASSUME IInv, TInv, LInv, InitSysPrompt
  PROVE  LInv'
<1>1. run.pc = "sys" /\ UNCHANGED <<artifacts, wiped>> BY DEF InitSysPrompt, At
<1>2. /\ ~gone /\ Dialogue(run.sess.msgs) /\ run.sess.msgs \in Seq(Messages) /\ Rising(run.sess.msgs)
      /\ ~Repeats(run.sess.msgs) /\ HeldBy(run)
  BY <1>1, RunWatched, RunHolds
<1>3. PICK ms \in Seq(Messages) : ms = run.sess.msgs BY <1>2
<1>4. PICK r, w : \E sys \in Messages :
        /\ Sends(r, w) /\ r.snap.rev = run.sess.rev /\ w.pc = "recover"
        /\ sys.seq = 1 /\ sys.src = {1} /\ sys.role = "system" /\ sys.calls = <<>>
        /\ run.sess.msgs = <<>> =>
             r.op = "create" /\ Last(r.snap.msgs) = sys /\ w.sess.msgs = Append(run.sess.msgs, sys)
        /\ run.sess.msgs # <<>> => r.op = "update" /\ w.sess.msgs = [run.sess.msgs EXCEPT ![1] = sys]
  BY InitSysPromptSends
<1>5. PICK sys \in Messages :
        /\ Sends(r, w) /\ r.snap.rev = run.sess.rev /\ w.pc = "recover"
        /\ sys.seq = 1 /\ sys.src = {1} /\ sys.role = "system" /\ sys.calls = <<>>
        /\ run.sess.msgs = <<>> =>
             r.op = "create" /\ Last(r.snap.msgs) = sys /\ w.sess.msgs = Append(run.sess.msgs, sys)
        /\ run.sess.msgs # <<>> => r.op = "update" /\ w.sess.msgs = [run.sess.msgs EXCEPT ![1] = sys]
  BY <1>4
<1>6. Dialogue(ms) /\ Rising(ms) /\ ~Repeats(ms) BY <1>2, <1>3
<1>7. Rising(w.sess.msgs) BY <1>5, WorkingRises DEF Sends, Ready, HeldBy, Snapshot
<1>8. CASE ms = <<>>
  <2>1. Continues(ms, sys) BY <1>5, <1>8 DEF Continues
  <2>2. PICK as : as = Append(ms, sys) OBVIOUS
  <2>3. Dialogue(as) BY <1>6, <2>1, <2>2, DialogueContinues
  <2>4. w.sess.msgs = as /\ Rising(as) BY <1>3, <1>5, <1>7, <1>8, <2>2
  <2>5. sys.role # "user" /\ sys.role # "tool" BY <1>5
  <2>6. ~Repeats(as) BY <1>6, <2>2, <2>3, <2>4, <2>5, OtherMessage
  <2>7. Watched(w)
    <3>1. w.pc = "recover" /\ ~Repeats(w.sess.msgs) BY <1>5, <2>4, <2>6
    <3> QED BY <3>1, WatchedQuietly
  <2>8. Harmless(r) BY <1>2, <1>3, <1>5, <1>8, <2>2, <2>6, OwnRequestHarmless
  <2> QED BY <1>1, <1>2, <1>5, <2>7, <2>8, SendWatches
<1>9. CASE ms # <<>>
  <2>1. PICK last \in Nat : Working(ms, last) BY <1>2, <1>3, SessionTyped DEF HeldBy, Snapshot, IInv, TypeOK, RunTyped
  <2>2. PICK as : as = [ms EXCEPT ![1] = sys] OBVIOUS
  <2>3. Like(as, ms) BY <1>5, <1>9, <2>1, <2>2, PromptReplaced
  <2>4. ~Repeats(as) BY <1>6, <2>3, LikeKeepsRows
  <2>5. w.sess.msgs = as /\ r.op = "update" BY <1>3, <1>5, <1>9, <2>2
  <2>6. w.pc = "recover" /\ ~Repeats(w.sess.msgs) BY <1>5, <2>4, <2>5
  <2>7. Watched(w) BY <2>6, WatchedQuietly
  <2>8. Harmless(r) BY <2>5 DEF Harmless
  <2> QED BY <1>1, <1>2, <1>5, <2>7, <2>8, SendWatches
<1> QED BY <1>8, <1>9

\* Reserving a number says nothing.
LEMMA ReserveWatches ==
  ASSUME IInv, TInv, LInv, Reserve
  PROVE  LInv'
<1>1. PICK r, w : /\ Sends(r, w) /\ r.op = "reserve"
                  /\ w.pc = run.pc /\ w.pc \in Steps /\ w.sess = run.sess
                  /\ w.streak = run.streak /\ w.cut = run.cut
  BY ReserveSends
<1>2. run.pc # "idle" /\ w.pc # "advance" BY <1>1 DEF Steps
<1>3. ~gone /\ Watched(run) BY <1>2, RunWatched
<1>4. Watched(w) BY <1>1, <1>2, <1>3 DEF Watched
<1>5. Harmless(r) BY <1>1 DEF Harmless
<1>6. UNCHANGED <<artifacts, wiped>> BY DEF Reserve
<1> QED BY <1>1, <1>3, <1>4, <1>5, <1>6, SendWatches

\* A recovery note counts for no row.
LEMMA RecoverResultWatches ==
  ASSUME IInv, TInv, LInv, RecoverResult
  PROVE  LInv'
<1>1. run.pc = "recover" /\ UNCHANGED <<artifacts, wiped>> /\ missingToolResults(run.sess.msgs) # {}
  BY DEF RecoverResult, At
<1>2. /\ ~gone /\ run.sess.msgs \in Seq(Messages) /\ Dialogue(run.sess.msgs) /\ Rising(run.sess.msgs)
      /\ ~Repeats(run.sess.msgs)
  BY <1>1, RunWatched
<1>3. PICK ms \in Seq(Messages) : ms = run.sess.msgs BY <1>2
<1>4. PICK m, next :
        /\ Appends(m, next) /\ m.role = "tool" /\ m.calls = <<>> /\ m.body = "recovery"
        /\ m.callID = run.sess.msgs[latestGroup(run.sess.msgs)].calls[Min(missingToolResults(run.sess.msgs))][1]
        /\ next.pc = "recover"
  BY RecoverResultAppends
<1>5. PICK at : at = latestGroup(ms) OBVIOUS
<1>6. at \in DOMAIN ms /\ OpenAt(ms, at) /\ Min(missingToolResults(ms)) = Len(ms) - at + 1
  BY <1>1, <1>2, <1>3, <1>5, MissingIsNext
<1>7. m.callID = ms[at].calls[Len(ms) - at + 1][1] BY <1>3, <1>4, <1>5, <1>6
<1>8. Continues(ms, m) BY <1>4, <1>6, <1>7 DEF Continues
<1>9. Continues(run.sess.msgs, m) BY <1>3, <1>8
<1>10. m \in Messages BY <1>4 DEF Appends
<1>11. ASSUME NEW as, NEW w, as = Append(run.sess.msgs, m), Dialogue(as), Rising(as), w.sess.msgs = as, w.pc = next.pc
       PROVE  ~Repeats(as) /\ Watched(w)
  <2>1. as = Append(ms, m) /\ Dialogue(ms) /\ Rising(ms) /\ ~Repeats(ms) BY <1>2, <1>3, <1>11
  <2>2. m.role # "user" BY <1>4
  <2>3. ~Repeats(as) BY <1>4, <1>10, <1>11, <2>1, <2>2, OtherMessage
  <2>4. w.pc = "recover" /\ ~Repeats(w.sess.msgs) BY <1>4, <1>11, <2>3
  <2>5. Watched(w) BY <2>4, WatchedQuietly
  <2> QED BY <2>3, <2>5
<1>12. Watches(m, next) BY <1>11, Zenon DEF Watches
<1> QED BY <1>1, <1>2, <1>4, <1>9, <1>12, AppendWatches

\* The user's message opens a turn, with a counter that starts anew.
LEMMA AppendUserWatches ==
  ASSUME IInv, TInv, LInv, AppendUser
  PROVE  LInv'
<1>1. run.pc = "user" /\ UNCHANGED <<artifacts, wiped>> BY DEF AppendUser, At
<1>2. ~gone /\ Heard(run) /\ run.sess.msgs \in Seq(Messages) /\ HeldBy(run) BY <1>1, RunHolds
<1>3. PICK ms \in Seq(Messages) : ms = run.sess.msgs BY <1>2
<1>4. PICK m, next : /\ Appends(m, next) /\ m.role = "user" /\ m.calls = <<>> /\ next.pc = "prepare"
                     /\ next.streak = recentToolStreak(Append(run.sess.msgs, m))
  BY AppendUserAppends
<1>5. m \in Messages BY <1>4 DEF Appends
<1>6. ms # <<>> /\ Closed(ms) BY <1>1, <1>2, <1>3 DEF HeldBy, Heard
<1>7. Continues(ms, m) BY <1>4, <1>6 DEF Continues
<1>8. Continues(run.sess.msgs, m) BY <1>3, <1>7
<1>9. ASSUME NEW as, NEW w, as = Append(run.sess.msgs, m), Dialogue(as),
             w.sess.msgs = as, w.pc = next.pc, w.streak = next.streak
      PROVE  ~Repeats(as) /\ Watched(w)
  <2>1. as = Append(ms, m) /\ w.streak = recentToolStreak(as) BY <1>3, <1>4, <1>9
  <2>2. ~Repeats(as) /\ Tracks(as, recentToolStreak(as)) BY <1>4, <1>5, <1>9, <2>1, TurnOpens
  <2> QED BY <1>4, <1>9, <2>1, <2>2 DEF Watched
<1>10. Watches(m, next) BY <1>9, Zenon DEF Watches
<1> QED BY <1>1, <1>2, <1>4, <1>8, <1>10, AppendWatches

\* A reply is no result; the counter goes on.
LEMMA CommitReplyWatches ==
  ASSUME IInv, TInv, LInv, CommitReply
  PROVE  LInv'
<1>1. run.pc = "reply" /\ UNCHANGED <<artifacts, wiped>> BY DEF CommitReply, At
<1>2. /\ ~gone /\ run.sess.msgs \in Seq(Messages) /\ Dialogue(run.sess.msgs) /\ Rising(run.sess.msgs)
      /\ ~Repeats(run.sess.msgs) /\ Watched(run) /\ Heard(run)
  BY <1>1, RunWatched, RunHolds
<1>3. PICK ms \in Seq(Messages) : ms = run.sess.msgs BY <1>2
<1>4. PICK m, next :
        /\ Appends(m, next) /\ m.role = "assistant" /\ m.seq \in 1..MaxSeq
        /\ \E reply \in Replies : m.calls = Numbered(reply.fps, m.seq)
        /\ next.pc \in {"finish", "tools"} /\ next.streak = run.streak
  BY CommitReplyAppends
<1>5. m \in Messages BY <1>4 DEF Appends
<1>6. Closed(ms) /\ hasUserMessage(ms) BY <1>1, <1>2, <1>3 DEF Heard, Finished
<1>7. IsAssistant(m) BY <1>4 DEF IsAssistant
<1>8. Continues(ms, m) BY <1>4, <1>6, <1>7 DEF Continues
<1>9. Continues(run.sess.msgs, m) BY <1>3, <1>8
<1>10. PICK streak : streak = run.streak OBVIOUS
<1>11. Tracks(ms, streak) BY <1>1, <1>2, <1>3, <1>10 DEF Watched
<1>12. ASSUME NEW as, NEW w, as = Append(run.sess.msgs, m), Dialogue(as), Rising(as),
              w.sess.msgs = as, w.pc = next.pc, w.streak = next.streak
       PROVE  ~Repeats(as) /\ Watched(w)
  <2>1. as = Append(ms, m) /\ Dialogue(ms) /\ Rising(ms) /\ ~Repeats(ms) BY <1>2, <1>3, <1>12
  <2>2. m.role # "user" /\ m.role # "tool" BY <1>4
  <2>3. ~Repeats(as) /\ Tracks(as, streak) BY <1>5, <1>11, <1>12, <2>1, <2>2, OtherMessage
  <2>4. w.pc \in {"finish", "tools"} /\ w.streak = streak BY <1>4, <1>10, <1>12
  <2> QED BY <1>12, <2>3, <2>4 DEF Watched
<1>13. Watches(m, next) BY <1>12, Zenon DEF Watches
<1> QED BY <1>1, <1>2, <1>4, <1>9, <1>13, AppendWatches

\* A result is counted, and rejected if it is the third of its kind.
LEMMA ToolCallWatches ==
  ASSUME IInv, TInv, LInv, ToolCall
  PROVE  LInv'
<1>1. run.pc = "tools" /\ UNCHANGED <<artifacts, wiped>> BY DEF ToolCall, At
<1>2. /\ ~gone /\ run.sess.msgs \in Seq(Messages) /\ Dialogue(run.sess.msgs) /\ Rising(run.sess.msgs)
      /\ ~Repeats(run.sess.msgs) /\ Watched(run) /\ Heard(run) /\ run.todo \in Seq(CallNumbers \X Nat) /\ HeldBy(run)
  BY <1>1, RunWatched, RunHolds
<1>3. PICK ms \in Seq(Messages) : ms = run.sess.msgs BY <1>2
<1>4. PICK todo \in Seq(CallNumbers \X Nat) : todo = run.todo BY <1>2
<1>5. PICK m, next :
        /\ Appends(m, next) /\ m.role = "tool" /\ m.calls = <<>> /\ m.callID = Head(run.todo)[1]
        /\ next.pc \in {"tools", "finish", "prepare"} /\ m.body # "recovery"
        /\ m.body = "rejected" \/ (~run.cut /\ ~(observe(run.streak, Head(run.todo)).n >= 3))
        /\ next.pc = "prepare" \/ ~next.cut => ~run.cut /\ next.streak = observe(run.streak, Head(run.todo))
  BY ToolCallAppends
<1>6. m \in Messages BY <1>5 DEF Appends
<1>7. todo # <<>> /\ Awaits(ms, todo) /\ Dialogue(ms) BY <1>1, <1>2, <1>3, <1>4 DEF HeldBy, Heard
<1>8. Continues(ms, m) BY <1>4, <1>5, <1>6, <1>7, AwaitedContinues
<1>9. Continues(run.sess.msgs, m) BY <1>3, <1>8
<1>10. PICK streak : streak = run.streak OBVIOUS
<1>11. ~run.cut => Tracks(ms, streak) BY <1>1, <1>2, <1>3, <1>10 DEF Watched
<1>12. m.body = "rejected" \/ (Tracks(ms, streak) /\ ~(observe(streak, Head(todo)).n >= 3))
  BY <1>4, <1>5, <1>10, <1>11
<1>13. ASSUME NEW as, NEW w, as = Append(run.sess.msgs, m), Dialogue(as), Rising(as),
              w.sess.msgs = as, w.pc = next.pc, w.streak = next.streak, w.cut = next.cut
       PROVE  ~Repeats(as) /\ Watched(w)
  <2>1. as = Append(ms, m) /\ Rising(ms) /\ ~Repeats(ms) BY <1>2, <1>3, <1>13
  <2>2. m.role = "tool" /\ m.body # "recovery" BY <1>5
  <2>3. /\ ~Repeats(as)
        /\ Tracks(ms, streak) => Tracks(as, observe(streak, Head(todo)))
    BY <1>6, <1>7, <1>12, <1>13, <2>1, <2>2, ResultCounted
  <2>4. w.pc \in {"tools", "finish", "prepare"} BY <1>5, <1>13
  <2>5. w.pc = "prepare" \/ ~w.cut => ~run.cut /\ w.streak = observe(streak, Head(todo)) BY <1>4, <1>5, <1>10, <1>13
  <2>6. w.pc = "prepare" \/ ~w.cut => Tracks(w.sess.msgs, w.streak) BY <1>11, <1>13, <2>3, <2>5
  <2> QED BY <1>13, <2>3, <2>4, <2>6 DEF Watched
<1>14. Watches(m, next) BY <1>13, Zenon DEF Watches
<1> QED BY <1>1, <1>2, <1>5, <1>9, <1>14, AppendWatches

\* A resumed run counts what is stored.
LEMMA RecoveredWatches ==
  ASSUME IInv, TInv, LInv, Recovered
  PROVE  LInv'
<1>1. run.pc = "recover" BY DEF Recovered, At
<1>2. /\ ~gone /\ run.sess.msgs \in Seq(Messages) /\ Dialogue(run.sess.msgs) /\ ~Repeats(run.sess.msgs) /\ Watched(run)
  BY <1>1, RunWatched
<1>3. PICK v : v = run OBVIOUS
<1>4. PICK ms \in Seq(Messages) : ms = v.sess.msgs BY <1>2, <1>3
<1>5. DOMAIN v = {"pc", "resume", "sess", "chat", "seq", "reason", "err", "cand", "todo", "streak", "cut", "changed"}
  BY <1>3, RunFields DEF IInv, TypeOK
<1>6. Dialogue(ms) /\ ~Repeats(ms) BY <1>2, <1>3, <1>4
<1>7. PICK w : w = run' OBVIOUS
<1>8. PICK streak : streak = recentToolStreak(ms) OBVIOUS
<1>9. Tracks(ms, streak) BY <1>6, <1>8, TurnResultsTyped, RestoredStreakTracks
<1>10. \/ w = [v EXCEPT !.pc = "user"]
       \/ w = [v EXCEPT !.pc = "prepare", !.streak = streak]
       \/ w = Ending("failed")
  BY <1>3, <1>4, <1>7, <1>8 DEF Recovered
<1>11. ASSUME w = [v EXCEPT !.pc = "user"] PROVE Watched(w)
  <2>1. w.pc = "user" /\ w.sess = v.sess BY <1>5, <1>11
  <2> QED BY <1>4, <1>6, <2>1, WatchedQuietly
<1>12. ASSUME w = [v EXCEPT !.pc = "prepare", !.streak = streak] PROVE Watched(w)
  <2>1. w.pc = "prepare" /\ w.sess = v.sess /\ w.streak = streak BY <1>5, <1>12
  <2> QED BY <1>4, <1>6, <1>9, <2>1 DEF Watched
<1>13. ASSUME w = Ending("failed") PROVE Watched(w) BY <1>2, <1>13, WatchedAtEnd
<1>14. Watched(w) BY <1>10, <1>11, <1>12, <1>13
<1>15. UNCHANGED <<ctx, memory, gone>> /\ late' = late BY DEF Recovered, storeVars
<1> QED BY <1>7, <1>14, <1>15, QuietWatches

\* A compaction leaves the latest results, and the counter fits them.
LEMMA PrepareContextWatches ==
  ASSUME IInv, TInv, LInv, PrepareContext
  PROVE  LInv'
<1> DEFINE cands(ms) == IF InputTokens(compactLocally(ms)) <= TargetTokens THEN {compactLocally(ms)}
                        ELSE compactWithSummary(compactLocally(ms), ProtectedStart(ms))
<1>1. run.pc = "prepare" BY DEF PrepareContext, At
<1>2. /\ ~gone /\ Heard(run) /\ run.sess.msgs \in Seq(Messages) /\ HeldBy(run) /\ Watched(run)
  BY <1>1, RunHolds, RunWatched
<1>3. PICK v : v = run OBVIOUS
<1>4. PICK w : w = run' OBVIOUS
<1>5. PICK ms \in Seq(Messages) : ms = v.sess.msgs BY <1>2, <1>3
<1>6. DOMAIN v = {"pc", "resume", "sess", "chat", "seq", "reason", "err", "cand", "todo", "streak", "cut", "changed"}
  BY <1>3, RunFields DEF IInv, TypeOK
<1>7. Finished(ms) /\ ~Repeats(ms) /\ Tracks(ms, v.streak) BY <1>1, <1>2, <1>3, <1>5 DEF Heard, Watched
<1>8. PICK last \in Nat : Working(ms, last)
  BY <1>2, <1>3, <1>5, SessionTyped DEF HeldBy, Snapshot, IInv, TypeOK, RunTyped
<1>9. ms # <<>> BY <1>1, <1>2, <1>3, <1>5 DEF HeldBy
<1>10. ASSUME w = [v EXCEPT !.pc = "reply"] PROVE Watched(w)
  <2>1. w.pc = "reply" /\ w.sess = v.sess /\ w.streak = v.streak BY <1>6, <1>10
  <2> QED BY <1>5, <1>7, <2>1 DEF Watched
<1>11. ASSUME NEW msgs \in cands(ms), w = [v EXCEPT !.pc = "advance", !.cand = msgs] PROVE Watched(w)
  <2>1. w.pc = "advance" /\ w.sess = v.sess /\ w.cand = msgs /\ w.streak = v.streak BY <1>6, <1>11
  <2>2. Trimmed(msgs, ms) /\ Working(msgs, last) BY <1>8, <1>9, <1>11, CompactedMessages
  <2>3. ~Repeats(msgs) /\ Tracks(msgs, v.streak) BY <1>7, <1>8, <2>2, TrimmedKeepsRows
  <2> QED BY <1>5, <1>7, <2>1, <2>3 DEF Watched
<1>12. ASSUME w = Ending("failed") PROVE Watched(w) BY <1>2, <1>12, WatchedAtEnd
<1>13. \/ w = [v EXCEPT !.pc = "reply"]
       \/ \E msgs \in cands(ms) : w = [v EXCEPT !.pc = "advance", !.cand = msgs]
       \/ w = Ending("failed")
  BY <1>3, <1>4, <1>5 DEF PrepareContext
<1>14. Watched(w) BY <1>10, <1>11, <1>12, <1>13
<1>15. UNCHANGED <<ctx, memory, gone>> /\ late' = late BY DEF PrepareContext, storeVars
<1> QED BY <1>4, <1>14, <1>15, QuietWatches

\* The compacted messages become the current ones.
LEMMA AdvanceGenerationWatches ==
  ASSUME IInv, TInv, LInv, AdvanceGeneration
  PROVE  LInv'
<1>1. run.pc = "advance" /\ UNCHANGED <<artifacts, wiped>> BY DEF AdvanceGeneration, At
<1>2. ~gone /\ Watched(run) BY <1>1, RunWatched
<1>3. ~Repeats(run.cand) /\ Tracks(run.cand, run.streak) BY <1>1, <1>2 DEF Watched
<1>4. PICK r, w : /\ Sends(r, w) /\ r.op = "generation" /\ r.snap.rev = run.sess.rev /\ r.snap.msgs = run.cand
                  /\ w.pc = "reply" /\ w.sess.msgs = run.cand /\ w.streak = run.streak
  BY AdvanceGenerationSends
<1>5. Watched(w) BY <1>3, <1>4 DEF Watched
<1>6. Harmless(r) BY <1>2, <1>3, <1>4, OwnRequestHarmless
<1> QED BY <1>1, <1>2, <1>4, <1>5, <1>6, SendWatches

\* A run that fails, dies or is finished says nothing more.
LEMMA EndWatches ==
  ASSUME IInv, LInv, Fail \/ Crash \/ FinishRun \/ FinishSubAgent
  PROVE  LInv'
<1>1. PICK v : v = run OBVIOUS
<1>2. PICK w : w = run' OBVIOUS
<1>3. RunTyped(v) /\ HeldBy(v) /\ ~Repeats(v.sess.msgs) BY <1>1 DEF IInv, TypeOK, LInv, Watched
<1>4. ASSUME Fail PROVE Watched(w)
  <2>1. PICK why \in {"failed", "cancelled"} : \E x : w = [Ending(why) EXCEPT !.changed = x]
    <3>1. PICK ran \in BOOLEAN, why \in IF kind = "child" THEN {"failed", "cancelled"} ELSE {"failed"} :
            w = [Ending(why) EXCEPT !.changed = @ \/ ran]
      BY <1>2, <1>4 DEF Fail
    <3>2. why \in {"failed", "cancelled"} BY <3>1
    <3>3. w = [Ending(why) EXCEPT !.changed = Ending(why).changed \/ ran] BY <3>1
    <3> QED BY <3>2, <3>3
  <2>2. PICK e : e = Ended(v, why) OBVIOUS
  <2>3. PICK x : w = [e EXCEPT !.changed = x] BY <1>1, <2>1, <2>2 DEF Ending, Ended
  <2>4. RunTyped(e) /\ e.pc = "finish" /\ e.sess = v.sess BY <1>3, <2>1, <2>2, EndingHeld
  <2>5. DOMAIN e = {"pc", "resume", "sess", "chat", "seq", "reason", "err", "cand", "todo", "streak", "cut", "changed"}
    BY <2>4, RunFields
  <2>6. w.pc = "finish" /\ w.sess = v.sess BY <2>3, <2>4, <2>5
  <2>7. ~Repeats(w.sess.msgs) BY <1>3, <2>6
  <2> QED BY <2>6, <2>7, WatchedQuietly
<1>5. ASSUME Crash \/ FinishRun \/ FinishSubAgent PROVE Watched(w)
  <2>1. w = Idle BY <1>2, <1>5 DEF Crash, FinishRun, FinishSubAgent
  <2> QED BY <2>1, SilenceIsWatched
<1>6. Watched(w) BY <1>4, <1>5
<1>7. UNCHANGED <<ctx, memory, gone>> /\ late' = late
  BY DEF Fail, Crash, FinishRun, FinishSubAgent, UpsertChatFiles, storeVars
<1> QED BY <1>2, <1>6, <1>7, QuietWatches

\* A deletion, failed or not, or a step of nothing, changes no run.
LEMMA RestWatches ==
  ASSUME LInv, Delete \/ DeleteFails \/ UNCHANGED vars
  PROVE  LInv'
<1>1. PICK w : w = run OBVIOUS
<1>2. Watched(w) BY <1>1 DEF LInv
<1>3. CASE Delete
  <2>1. gone' /\ run' = w BY <1>1, <1>3 DEF Delete
  <2>2. Watched(run') BY <1>2, <2>1
  <2> QED BY <2>1, <2>2 DEF LInv
<1>4. CASE DeleteFails \/ UNCHANGED vars
  <2>1. UNCHANGED <<ctx, memory, gone>> /\ late' \subseteq late /\ run' = w
    BY <1>1, <1>4 DEF vars, DeleteFails, storeVars
  <2> QED BY <1>2, <2>1, QuietWatches
<1> QED BY <1>3, <1>4

\* A late request is refused, or harmless.
LEMMA DeliverLateWatches ==
  ASSUME IInv, TInv, LInv, NEW r \in late, DeliverLate(r)
  PROVE  LInv'
<1>1. late' \subseteq late /\ run' = run /\ gone' = gone /\ UNCHANGED <<artifacts, wiped, gone>> BY DEF DeliverLate
<1>2. PICK w : w = run OBVIOUS
<1>3. Watched(w) BY <1>2 DEF LInv
<1>4. Watched(run') BY <1>1, <1>2, <1>3
<1>5. CASE gone BY <1>1, <1>4, <1>5 DEF LInv
<1>6. CASE ~gone
  <2>1. /\ TypeOK /\ Rows /\ NothingForgotten /\ Requests /\ Told
        /\ ~Repeats(memory[ctx.gen]) /\ \A q \in late : Harmless(q)
    BY <1>6 DEF IInv, TInv, LInv
  <2>2. r \in Requested /\ Sound(r) /\ Timely(r) /\ Harmless(r) BY <2>1 DEF Requests, TypeOK
  <2>3. CASE RequestAllowed(r)
    <3>1. ApplyRequest(r) BY <2>3 DEF DeliverLate
    <3>2. Advances BY <1>1, <2>1, <2>2, <2>3, <3>1, RequestMoves
    <3>3. ~Repeats(memory'[ctx'.gen]) BY <1>1, <1>6, <2>1, <2>2, <2>3, <3>1, RequestWatches DEF Told, Chronicle
    <3>4. ASSUME NEW q \in late PROVE Harmless(q)' BY <1>6, <2>1, <3>2, <3>4, HarmlessKept DEF Requests, TypeOK
    <3> QED BY <1>1, <1>4, <3>3, <3>4 DEF LInv
  <2>4. CASE ~RequestAllowed(r)
    <3>1. UNCHANGED <<ctx, memory>> BY <2>4 DEF DeliverLate, storeVars
    <3> QED BY <1>1, <1>2, <1>3, <3>1, QuietWatches
  <2> QED BY <2>3, <2>4
<1> QED BY <1>5, <1>6

\* No step makes a loop, and the counter follows every step.
LEMMA StepWatches ==
  ASSUME IInv, TInv, LInv, [Next]_vars
  PROVE  LInv'
<1>1. CASE \E resume \in BOOLEAN : StartRun(resume) BY <1>1, StartWatches
<1>2. CASE Execute BY <1>2, StartWatches
<1>3. CASE InitSession BY <1>3, InitSessionWatches
<1>4. CASE InitSysPrompt BY <1>4, InitSysPromptWatches
<1>5. CASE Reserve BY <1>5, ReserveWatches
<1>6. CASE RecoverResult BY <1>6, RecoverResultWatches
<1>7. CASE Recovered BY <1>7, RecoveredWatches
<1>8. CASE AppendUser BY <1>8, AppendUserWatches
<1>9. CASE PrepareContext BY <1>9, PrepareContextWatches
<1>10. CASE AdvanceGeneration BY <1>10, AdvanceGenerationWatches
<1>11. CASE CommitReply BY <1>11, CommitReplyWatches
<1>12. CASE ToolCall BY <1>12, ToolCallWatches
<1>13. CASE Fail \/ Crash \/ FinishRun \/ FinishSubAgent BY <1>13, EndWatches
<1>14. CASE Delete \/ DeleteFails \/ UNCHANGED vars BY <1>14, RestWatches
<1>15. CASE \E r \in late : DeliverLate(r) BY <1>15, DeliverLateWatches
<1> QED BY <1>1, <1>2, <1>3, <1>4, <1>5, <1>6, <1>7, <1>8, <1>9, <1>10, <1>11, <1>12, <1>13, <1>14, <1>15 DEF Next

\* The run's counter knows the latest results of the turn, wherever the model
\* or a tool is next, and neither rows nor late requests hold a loop.
THEOREM StreakIsKept == Spec => []LInv
<1>1. Init => LInv
  <2> SUFFICES ASSUME Init PROVE LInv OBVIOUS
  <2>1. memory[ctx.gen] = <<>> /\ late = {} /\ run = Idle BY DEF Init, StoreInit, NoRow
  <2> QED BY <2>1, SilenceIsWatched DEF LInv
<1>2. IInv /\ TInv /\ LInv /\ [Next]_vars => LInv' BY StepWatches
<1> QED BY <1>1, <1>2, Inductive, TalkIsKept, PTL DEF Spec

-----------------------------------------------------------------------------
(* The history, and a working set as its latest part.                      *)

\* The group of a result is the one it belongs to.
LEMMA GroupOfResult ==
  ASSUME NEW ms \in Seq(Messages), Dialogue(ms), Rising(ms), NEW g \in DOMAIN ms, HasCalls(ms[g]),
         NEW k \in DOMAIN ms[g].calls, g + k <= Len(ms)
  PROVE  GroupOf(ms, g + k) = g
<1>1. PICK id : id = ms[g + k].callID OBVIOUS
<1>2. id = ms[g].calls[k][1] BY <1>1, Zenon DEF Dialogue
<1>3. ms[g].calls[k][1] = <<ms[g].seq, k>> BY Zenon DEF Dialogue
<1>4. PICK groups : groups = {j \in DOMAIN ms : j < g + k /\ HasCalls(ms[j]) /\ id \in CallIDs(ms[j])} OBVIOUS
<1>5. GroupOf(ms, g + k) = Max(groups) BY <1>1, <1>4 DEF GroupOf
<1>6. g \in groups
  <2>1. g \in Nat /\ k \in Nat /\ k >= 1
    <3>1. PICK c \in Nat : g \in Nat /\ DOMAIN ms[g].calls = 1..c BY GroupTyped
    <3>2. k \in 1..c BY <3>1
    <3> QED BY <3>1, <3>2
  <2>2. g < g + k BY ONLY <2>1
  <2> QED BY <1>2, <1>4, <2>2 DEF CallIDs
<1>7. ASSUME NEW j \in groups PROVE j = g
  <2>1. j \in DOMAIN ms /\ HasCalls(ms[j]) BY <1>4, <1>7
  <2>2. PICK h \in DOMAIN ms[j].calls : id = ms[j].calls[h][1] BY <1>4, <1>7 DEF CallIDs
  <2>3. ms[j].calls[h][1] = <<ms[j].seq, h>> BY <2>1, <2>2, Zenon DEF Dialogue
  <2>4. <<ms[j].seq, h>> = <<ms[g].seq, k>> BY <1>2, <1>3, <2>2, <2>3
  <2>5. ms[j].seq = ms[g].seq BY <2>4
  <2>6. ~(ms[j].seq < ms[g].seq) /\ ~(ms[g].seq < ms[j].seq)
    <3>1. ms[g] \in Messages BY Positions
    <3>2. ms[g].seq \in Nat BY <3>1, Fields
    <3> QED BY <2>5, <3>2
  <2>7. ~(j < g) /\ ~(g < j) BY <2>1, <2>6 DEF Rising
  <2>8. j \in Nat /\ g \in Nat BY <2>1, GroupTyped
  <2> QED BY ONLY <2>7, <2>8
<1>8. groups = {g} BY <1>6, <1>7
<1>9. Max({g}) = g BY DEF Max
<1> QED BY <1>5, <1>8, <1>9

\* The results i, j and k of a turn, in a row and for one call, the last one
\* executed, and the groups between the first and the last
LoopAt(ms, i, j, k) ==
  LET R == TurnResults(ms)
      f == Fingerprints(ms)
  IN /\ i \in R /\ j \in R /\ k \in R /\ i < j /\ j < k /\ \A x \in R : x <= i \/ x = j \/ x >= k
     /\ f[i] = f[k] /\ f[j] = f[k] /\ k \notin Rejected(ms)

Between(ms, i, k) == {g \in collectToolCallGroups(ms) : GroupOf(ms, i) <= g /\ g < GroupOf(ms, k)}

\* Looping in these terms
LEMMA LoopingIs ==
  ASSUME NEW ms \in Seq(Messages), Dialogue(ms)
  PROVE  Looping(ms) <=>
           \E i, j, k : LoopAt(ms, i, j, k) /\ Cardinality(Between(ms, i, k)) <= KeepRecentToolCallGroups
<1>1. TurnResults(ms) \subseteq DOMAIN ms BY TurnResultsTyped
<1>2. PICK R : R = TurnResults(ms) OBVIOUS
<1>3. \A x \in R : Fingerprints(ms)[x] = CallOf(ms, x)[2] BY <1>1, <1>2 DEF Fingerprints
<1>4. \A k \in R : k \in Rejected(ms) <=> ms[k].body = "rejected" BY <1>1, <1>2 DEF Rejected
<1>5. ASSUME NEW i, NEW j, NEW k
      PROVE  LoopAt(ms, i, j, k) <=>
               /\ i \in R /\ j \in R /\ k \in R /\ i < j /\ j < k /\ \A x \in R : x <= i \/ x = j \/ x >= k
               /\ \A x \in {i, j} : CallOf(ms, x)[2] = CallOf(ms, k)[2]
               /\ ms[k].body # "rejected"
  BY <1>2, <1>3, <1>4 DEF LoopAt
<1>6. ASSUME Looping(ms)
      PROVE  \E i, j, k : LoopAt(ms, i, j, k) /\ Cardinality(Between(ms, i, k)) <= KeepRecentToolCallGroups
  <2>1. PICK i \in R, j \in R, k \in R :
          /\ i < j /\ j < k /\ \A x \in R : x <= i \/ x = j \/ x >= k
          /\ \A x \in {i, j} : CallOf(ms, x)[2] = CallOf(ms, k)[2]
          /\ ms[k].body # "rejected"
          /\ Cardinality({g \in collectToolCallGroups(ms) : GroupOf(ms, i) <= g /\ g < GroupOf(ms, k)}) <= KeepRecentToolCallGroups
    BY <1>2, <1>6, Zenon DEF Looping
  <2>2. LoopAt(ms, i, j, k) BY <1>5, <2>1
  <2>3. Cardinality(Between(ms, i, k)) <= KeepRecentToolCallGroups BY <2>1 DEF Between
  <2> QED BY <2>2, <2>3
<1>7. ASSUME NEW i, NEW j, NEW k, LoopAt(ms, i, j, k), Cardinality(Between(ms, i, k)) <= KeepRecentToolCallGroups
      PROVE  Looping(ms)
  <2>1. /\ i \in R /\ j \in R /\ k \in R /\ i < j /\ j < k /\ \A x \in R : x <= i \/ x = j \/ x >= k
        /\ \A x \in {i, j} : CallOf(ms, x)[2] = CallOf(ms, k)[2]
        /\ ms[k].body # "rejected"
    BY <1>5, <1>7
  <2>2. Cardinality({g \in collectToolCallGroups(ms) : GroupOf(ms, i) <= g /\ g < GroupOf(ms, k)}) <= KeepRecentToolCallGroups
    BY <1>7 DEF Between
  <2> QED BY <1>2, <2>1, <2>2, Zenon DEF Looping
<1> QED BY <1>6, <1>7

\* A loop ends in a result that is no rejection.
LEMMA LoopTyped ==
  ASSUME NEW ms \in Seq(Messages), Dialogue(ms), NEW i, NEW j, NEW k, LoopAt(ms, i, j, k)
  PROVE  \A x \in {i, j, k} : x \in DOMAIN ms /\ x \in Nat /\ ms[x].role = "tool" /\ x \in TurnResults(ms)
<1>1. \A x \in {i, j, k} : x \in TurnResults(ms) BY DEF LoopAt
<1>2. TurnResults(ms) \subseteq DOMAIN ms /\ TurnResults(ms) \in SUBSET Nat BY TurnResultsTyped
<1>3. \A x \in TurnResults(ms) : ms[x].role = "tool" BY TurnResultsAre DEF Counts
<1> QED BY <1>1, <1>2, <1>3

\* A result of a turn, its group and its place
LEMMA PlaceInGroup ==
  ASSUME NEW ms \in Seq(Messages), Dialogue(ms), Rising(ms), NEW i \in DOMAIN ms, ms[i].role = "tool"
  PROVE  /\ GroupOf(ms, i) \in DOMAIN ms /\ GroupOf(ms, i) \in Nat /\ HasCalls(ms[GroupOf(ms, i)])
         /\ GroupOf(ms, i) < i /\ i <= GroupOf(ms, i) + Len(ms[GroupOf(ms, i)].calls)
<1>1. PICK g \in DOMAIN ms : \E h \in DOMAIN ms[g].calls : HasCalls(ms[g]) /\ g + h = i BY ResultPlace
<1>2. PICK h \in DOMAIN ms[g].calls : HasCalls(ms[g]) /\ g + h = i BY <1>1
<1>3. PICK c \in Nat : g \in Nat /\ c = Len(ms[g].calls) /\ DOMAIN ms[g].calls = 1..c BY GroupTyped
<1>4. i <= Len(ms) /\ i \in Nat BY GroupTyped
<1>5. GroupOf(ms, g + h) = g BY <1>2, <1>4, GroupOfResult
<1>6. h \in 1..c BY <1>3
<1>7. g < i /\ i <= g + c BY ONLY <1>2, <1>3, <1>6, <1>4
<1> QED BY <1>2, <1>3, <1>5, <1>7

\* The groups of the results that were there are the same with a message more.
LEMMA GroupsStay ==
  ASSUME NEW ms \in Seq(Messages), Dialogue(ms), Rising(ms), NEW m \in Messages, NEW as,
         as = Append(ms, m), Dialogue(as), Rising(as), NEW i \in DOMAIN ms, ms[i].role = "tool"
  PROVE  GroupOf(as, i) = GroupOf(ms, i)
<1>1. Extension(as, ms, m) BY OneMore
<1>2. as \in Seq(Messages) /\ (\A x \in DOMAIN ms : x \in DOMAIN as /\ as[x] = ms[x]) BY <1>1 DEF Extension
<1>3. PICK g \in DOMAIN ms : \E h \in DOMAIN ms[g].calls : HasCalls(ms[g]) /\ g + h = i BY ResultPlace
<1>4. PICK h \in DOMAIN ms[g].calls : HasCalls(ms[g]) /\ g + h = i BY <1>3
<1>5. i <= Len(ms) /\ i <= Len(as) BY <1>2, GroupTyped
<1>6. GroupOf(ms, g + h) = g BY <1>4, <1>5, GroupOfResult
<1>7. g \in DOMAIN as /\ HasCalls(as[g]) /\ h \in DOMAIN as[g].calls BY <1>2, <1>4
<1>8. GroupOf(as, g + h) = g BY <1>2, <1>4, <1>5, <1>7, GroupOfResult
<1> QED BY <1>4, <1>6, <1>8

\* A loop among the results that were there was one before.
LEMMA LoopWasThere ==
  ASSUME NEW ms \in Seq(Messages), Dialogue(ms), Rising(ms), NEW m \in Messages, NEW as,
         as = Append(ms, m), Dialogue(as), Rising(as), m.role # "user",
         NEW i, NEW j, NEW k, LoopAt(as, i, j, k), k \in DOMAIN ms,
         Cardinality(Between(as, i, k)) <= KeepRecentToolCallGroups
  PROVE  Looping(ms)
<1>1. Extension(as, ms, m) BY OneMore
<1>2. PICK n \in Nat :
        /\ n = Len(ms) /\ as \in Seq(Messages) /\ DOMAIN ms = 1..n /\ DOMAIN as = DOMAIN ms \cup {n + 1}
        /\ \A x \in DOMAIN ms : as[x] = ms[x]
  BY <1>1 DEF Extension
<1>3. PICK R, S, f, g : R = TurnResults(ms) /\ S = TurnResults(as) /\ f = Fingerprints(ms) /\ g = Fingerprints(as) OBVIOUS
<1>4. /\ \A y \in R : y < n + 1 /\ g[y] = f[y]
      /\ \A y : y \in S <=> y \in R \/ (y = n + 1 /\ m.role = "tool" /\ m.body # "recovery")
      /\ \A y \in DOMAIN ms : y \in Rejected(as) <=> y \in Rejected(ms)
  BY <1>2, <1>3, AnswersStay
<1>5. \A x \in {i, j, k} : x \in DOMAIN as /\ x \in Nat /\ as[x].role = "tool" /\ x \in S
  <2>1. as \in Seq(Messages) BY <1>2
  <2>2. \A x \in {i, j, k} : x \in DOMAIN as /\ x \in Nat /\ as[x].role = "tool" /\ x \in TurnResults(as)
    BY <2>1, LoopTyped, Zenon
  <2> QED BY <1>3, <2>2
<1>6. /\ i < j /\ j < k /\ \A x \in S : x <= i \/ x = j \/ x >= k
      /\ g[i] = g[k] /\ g[j] = g[k] /\ k \notin Rejected(as)
  BY <1>3 DEF LoopAt
<1>7. k < n + 1 /\ i < k /\ i # n + 1 /\ j # n + 1
  <2>1. k \in 1..n BY <1>2
  <2> QED BY <1>2, <1>5, <1>6, <2>1
<1>8. \A x \in {i, j, k} : x \in R /\ x \in DOMAIN ms /\ ms[x].role = "tool" BY <1>2, <1>4, <1>5, <1>7
<1>9. LoopAt(ms, i, j, k)
  <2>1. \A x \in R : x <= i \/ x = j \/ x >= k BY <1>4, <1>6
  <2>2. f[i] = f[k] /\ f[j] = f[k] /\ k \notin Rejected(ms) BY <1>4, <1>6, <1>8
  <2> QED BY <1>3, <1>6, <1>8, <2>1, <2>2 DEF LoopAt
<1>10. GroupOf(as, i) = GroupOf(ms, i) /\ GroupOf(as, k) = GroupOf(ms, k) BY <1>8, GroupsStay
<1>11. Between(as, i, k) = Between(ms, i, k)
  <2>1. PICK a, b : a = GroupOf(ms, i) /\ b = GroupOf(ms, k) OBVIOUS
  <2>2. b \in Nat /\ b < k BY <1>8, <2>1, PlaceInGroup
  <2>3. ASSUME NEW h PROVE h \in collectToolCallGroups(as) /\ h < b <=> h \in collectToolCallGroups(ms) /\ h < b
    <3>1. h = n + 1 => ~(h < b) BY <1>5, <1>7, <2>2
    <3> QED BY <1>2, <3>1 DEF collectToolCallGroups
  <2>4. Between(as, i, k) = {h \in collectToolCallGroups(as) : a <= h /\ h < b} BY <1>10, <2>1 DEF Between
  <2>5. Between(ms, i, k) = {h \in collectToolCallGroups(ms) : a <= h /\ h < b} BY <2>1 DEF Between
  <2> QED BY <2>3, <2>4, <2>5
<1> QED BY <1>9, <1>11, LoopingIs

\* A history and a part of it that goes to the end, with one message more
LEMMA ShiftGrows ==
  ASSUME NEW ms \in Seq(Messages), NEW os \in Seq(Messages), NEW m \in Messages, NEW as, as = Append(ms, m),
         NEW ns, ns = Append(os, m), NEW d \in Nat, NEW p \in 1..Len(ms)+1, Shifts(ms, os, d, p)
  PROVE  Shifts(as, ns, d, p)
<1>1. Extension(as, ms, m) /\ Extension(ns, os, m) BY OneMore
<1>2. PICK n \in Nat :
        /\ n = Len(ms) /\ n + d = Len(os) /\ DOMAIN ms = 1..n /\ DOMAIN as = DOMAIN ms \cup {n + 1} /\ Len(as) = n + 1
        /\ as[n + 1] = m /\ \A x \in DOMAIN ms : as[x] = ms[x]
  BY <1>1 DEF Extension, Shifts
<1>3. PICK l \in Nat :
        /\ l = Len(os) /\ DOMAIN os = 1..l /\ Len(ns) = l + 1 /\ ns[l + 1] = m /\ \A x \in DOMAIN os : ns[x] = os[x]
  BY <1>1 DEF Extension
<1>4. l = n + d /\ p \in 1..n+1 BY <1>2, <1>3
<1>5. ASSUME NEW i \in p..n+1 PROVE Echoes(as[i], ns[i + d])
  <2>1. CASE i = n + 1
    <3>1. i + d = l + 1 BY ONLY <1>4, <2>1, n \in Nat, d \in Nat
    <3>2. as[i] = m /\ ns[i + d] = m BY <1>2, <1>3, <2>1, <3>1
    <3> QED BY <3>2 DEF Echoes
  <2>2. CASE i # n + 1
    <3>1. i \in 1..n /\ i \in p..n /\ i + d \in 1..l BY ONLY <1>4, <1>5, <2>2, n \in Nat, d \in Nat
    <3>2. as[i] = ms[i] /\ ns[i + d] = os[i + d] BY <1>2, <1>3, <3>1
    <3>3. Echoes(ms[i], os[i + d]) BY <1>2, <3>1 DEF Shifts
    <3> QED BY <3>2, <3>3
  <2> QED BY <2>1, <2>2
<1>6. ASSUME NEW i \in DOMAIN as, i < p PROVE as[i].role \in {"system", "user"}
  <2>1. i \in DOMAIN ms
    <3>1. i \in 1..n \/ i = n + 1 BY <1>2
    <3> QED BY <1>2, <1>4, <1>6, <3>1
  <2> QED BY <1>2, <1>6, <2>1 DEF Shifts
<1>7. Len(as) + d = Len(ns) BY <1>2, <1>3, <1>4
<1> QED BY <1>2, <1>5, <1>6, <1>7 DEF Shifts

\* The groups that are complete stay so.
LEMMA CompleteGrows ==
  ASSUME NEW os \in Seq(Messages), NEW m \in Messages, NEW ns, ns = Append(os, m), NEW from \in Nat
  PROVE  /\ IsFiniteSet(Complete(os, from)) /\ IsFiniteSet(Complete(ns, from))
         /\ Complete(os, from) \subseteq Complete(ns, from)
         /\ Cardinality(Complete(os, from)) <= Cardinality(Complete(ns, from))
         /\ Cardinality(Complete(os, from)) \in Nat /\ Cardinality(Complete(ns, from)) \in Nat
<1>1. Extension(ns, os, m) BY OneMore
<1>2. PICK l \in Nat :
        /\ l = Len(os) /\ DOMAIN os = 1..l /\ DOMAIN ns = DOMAIN os \cup {l + 1} /\ \A x \in DOMAIN os : ns[x] = os[x]
        /\ \A g \in DOMAIN os : OpenAt(ns, g) <=> (HasCalls(os[g]) /\ g + Len(os[g].calls) > l + 1)
  BY <1>1 DEF Extension
<1>3. ASSUME NEW g \in Complete(os, from) PROVE g \in Complete(ns, from)
  <2>1. g \in DOMAIN os /\ HasCalls(os[g]) /\ g >= from /\ ~OpenAt(os, g) BY <1>3 DEF Complete, collectToolCallGroups
  <2>2. PICK c \in Nat : g \in Nat /\ c = Len(os[g].calls) BY <2>1, GroupTyped
  <2>3. ~(g + c > l) BY <1>2, <2>1, <2>2 DEF OpenAt
  <2>4. ~(g + c > l + 1) BY ONLY <2>2, <2>3, l \in Nat, c \in Nat
  <2>5. ~OpenAt(ns, g) BY <1>2, <2>1, <2>2, <2>4
  <2> QED BY <1>2, <2>1, <2>5 DEF Complete, collectToolCallGroups
<1>4. Complete(os, from) \subseteq Complete(ns, from) BY <1>3
<1>5. Complete(ns, from) \in SUBSET (1..l+1)
  <2>1. DOMAIN ns = 1..l+1 BY <1>2
  <2> QED BY <2>1 DEF Complete, collectToolCallGroups
<1>6. IsFiniteSet(1..l+1) BY FS_Interval
<1>7. IsFiniteSet(Complete(ns, from)) BY <1>5, <1>6, FS_Subset
<1> QED BY <1>4, <1>7, FS_Subset, FS_CardinalityType

\* Two results that all the call groups kept by compaction lie between are too
\* far apart for a loop.
LEMMA KeptLieBetween ==
  ASSUME NEW os \in Seq(Messages), NEW m \in Messages, NEW ns, ns = Append(os, m), Dialogue(ns), Rising(ns),
         m.role = "tool", NEW i \in DOMAIN ns, ns[i].role = "tool", NEW from \in Nat, i < from,
         Cardinality(Complete(os, from)) >= KeepRecentToolCallGroups
  PROVE  ~(Cardinality(Between(ns, i, Len(os) + 1)) <= KeepRecentToolCallGroups)
<1>1. Extension(ns, os, m) BY OneMore
<1>2. PICK l \in Nat :
        /\ l = Len(os) /\ ns \in Seq(Messages) /\ DOMAIN os = 1..l /\ DOMAIN ns = DOMAIN os \cup {l + 1}
        /\ ns[l + 1] = m /\ \A x \in DOMAIN os : ns[x] = os[x]
  BY <1>1 DEF Extension
<1>3. PICK C : C = Complete(os, from) OBVIOUS
<1>4. IsFiniteSet(C) /\ Cardinality(C) \in Nat BY <1>3, CompleteGrows
<1>5. KeepRecentToolCallGroups \in Nat /\ KeepRecentToolCallGroups >= 1 BY WorkingSetAssumption
<1>6. PICK a, b : a = GroupOf(ns, i) /\ b = GroupOf(ns, l + 1) OBVIOUS
<1>7. a \in DOMAIN ns /\ a \in Nat /\ HasCalls(ns[a]) /\ a < i BY <1>2, <1>6, PlaceInGroup
<1>8. b \in DOMAIN ns /\ b \in Nat /\ HasCalls(ns[b]) /\ b < l + 1 /\ l + 1 <= b + Len(ns[b].calls)
  BY <1>2, <1>6, PlaceInGroup
<1>9. i \in Nat BY <1>2, GroupTyped
<1>10. ASSUME NEW g \in C PROVE g \in DOMAIN ns /\ g \in Nat /\ HasCalls(ns[g]) /\ a < g /\ g < b
  <2>1. g \in DOMAIN os /\ HasCalls(os[g]) /\ g >= from /\ ~OpenAt(os, g)
    BY <1>3, <1>10 DEF Complete, collectToolCallGroups
  <2>2. PICK c \in Nat : g \in Nat /\ g <= l /\ c = Len(os[g].calls) BY <1>2, <2>1, GroupTyped
  <2>3. ~(g + c > l) BY <1>2, <2>1, <2>2 DEF OpenAt
  <2>4. g \in DOMAIN ns /\ ns[g] = os[g] BY <1>2, <2>1
  <2>5. HasCalls(ns[g]) /\ c = Len(ns[g].calls) BY <2>1, <2>2, <2>4
  <2>6. g # b BY <1>8, <2>2, <2>3, <2>5
  <2>7. ~(b < g)
    <3>1. SUFFICES ASSUME b < g PROVE FALSE OBVIOUS
    <3>2. PICK e \in Nat : e = Len(ns[b].calls) BY <1>2, <1>8, GroupTyped
    <3>3. b + e < g BY <1>2, <1>8, <2>4, <2>5, <3>1, <3>2, GroupsApart
    <3> QED BY <1>8, <2>2, <3>2, <3>3
  <2>8. a < g BY ONLY <1>7, <1>9, <2>1, <2>2, i < from, from \in Nat
  <2>9. g < b BY ONLY <1>8, <2>2, <2>6, <2>7
  <2> QED BY <2>2, <2>4, <2>5, <2>8, <2>9
<1>11. a \notin C
  <2>1. a \in C => a < a BY <1>10
  <2> QED BY <1>7, <2>1
<1>12. a < b
  <2>1. C # {}
    <3>1. SUFFICES ASSUME C = {} PROVE FALSE OBVIOUS
    <3>2. Cardinality(C) = 0 BY <3>1, FS_EmptySet
    <3> QED BY <1>3, <1>5, <3>2
  <2>2. PICK g : g \in C BY <2>1
  <2> QED BY <1>7, <1>8, <1>10, <2>2
<1>13. PICK B : B = Between(ns, i, l + 1) OBVIOUS
<1>14. C \cup {a} \subseteq B
  <2>1. \A g : g \in B <=> g \in DOMAIN ns /\ HasCalls(ns[g]) /\ a <= g /\ g < b
    BY <1>6, <1>13 DEF Between, collectToolCallGroups
  <2>2. a \in B BY <1>7, <1>12, <2>1
  <2>3. \A g \in C : g \in B BY <1>7, <1>10, <2>1
  <2> QED BY <2>2, <2>3
<1>15. IsFiniteSet(B)
  <2>1. B \in SUBSET (1..l+1)
    <3>1. DOMAIN ns = 1..l+1 BY <1>2
    <3> QED BY <1>13, <3>1 DEF Between, collectToolCallGroups
  <2>2. IsFiniteSet(1..l+1) BY FS_Interval
  <2> QED BY <2>1, <2>2, FS_Subset
<1>16. Cardinality(C \cup {a}) = Cardinality(C) + 1 BY <1>4, <1>11, FS_AddElement
<1>17. Cardinality(C \cup {a}) <= Cardinality(B) /\ Cardinality(B) \in Nat BY <1>14, <1>15, FS_Subset, FS_CardinalityType
<1>18. Cardinality(C) >= KeepRecentToolCallGroups BY <1>3
<1>19. ~(Cardinality(B) <= KeepRecentToolCallGroups) BY ONLY <1>4, <1>5, <1>16, <1>17, <1>18
<1> QED BY <1>2, <1>13, <1>19

\* A loop that ends in the part of the history that the working set is, and
\* begins in it, is one of the working set.
LEMMA LoopIsRepeated ==
  ASSUME NEW as \in Seq(Messages), Dialogue(as), Rising(as), NEW ns \in Seq(Messages), Dialogue(ns), Rising(ns),
         NEW d \in Nat, NEW p \in Nat, p >= 1, Shifts(as, ns, d, p),
         NEW i, NEW j, NEW k, LoopAt(ns, i, j, k), ~(i < p + d), as # <<>>, k = Len(ns), Last(as).body = Last(ns).body
  PROVE  Repeats(as)
<1>1. PICK R, S, f, g : R = TurnResults(ns) /\ S = TurnResults(as) /\ f = Fingerprints(ns) /\ g = Fingerprints(as) OBVIOUS
<1>2. /\ \A y \in S : y + d \in R /\ g[y] = f[y + d]
      /\ \A x \in R : x < p + d \/ \E y \in S : y + d = x
  <2>1. Moves(TurnResults(as), Fingerprints(as), Rejected(as), TurnResults(ns), Fingerprints(ns), Rejected(ns), d)
    BY ONLY as \in Seq(Messages), Dialogue(as), Rising(as), ns \in Seq(Messages), Dialogue(ns), Rising(ns),
            d \in Nat, p \in Nat, p >= 1, Shifts(as, ns, d, p), ShiftMoves
  <2>0. Reaches(TurnResults(as), TurnResults(ns), d, p + d)
    BY ONLY as \in Seq(Messages), Dialogue(as), Rising(as), ns \in Seq(Messages), Dialogue(ns), Rising(ns),
            d \in Nat, p \in Nat, p >= 1, Shifts(as, ns, d, p), ShiftMoves
  <2>2. Moves(S, g, Rejected(as), R, f, Rejected(ns), d) BY <1>1, <2>1
  <2>3. \A x \in R : x < p + d \/ \E y \in S : y + d = x BY <1>1, <2>0 DEF Reaches
  <2>4. \A y \in S : y + d \in R /\ g[y] = f[y + d] BY <2>2, Zenon DEF Moves
  <2> QED BY <2>3, <2>4
<1>3. S \subseteq DOMAIN as /\ S \in SUBSET Nat /\ R \in SUBSET Nat BY <1>1, TurnResultsTyped
<1>4. /\ i \in R /\ j \in R /\ k \in R /\ i < j /\ j < k /\ \A x \in R : x <= i \/ x = j \/ x >= k
      /\ f[i] = f[k] /\ f[j] = f[k] /\ k \notin Rejected(ns)
  BY <1>1 DEF LoopAt
<1>5. i \in Nat /\ j \in Nat /\ k \in Nat BY <1>3, <1>4
<1>6. ~(j < p + d) /\ ~(k < p + d) BY ONLY <1>4, <1>5, ~(i < p + d), p \in Nat, d \in Nat
<1>7. PICK x \in S : x + d = i BY <1>2, <1>4
<1>8. PICK y \in S : y + d = j BY <1>2, <1>4, <1>6
<1>9. PICK z \in S : z + d = k BY <1>2, <1>4, <1>6
<1>10. x \in Nat /\ y \in Nat /\ z \in Nat BY <1>3
<1>11. x < y /\ y < z BY ONLY <1>4, <1>7, <1>8, <1>9, <1>10, d \in Nat
<1>12. \A u \in S : u <= x \/ u = y \/ u >= z
  <2> SUFFICES ASSUME NEW u \in S PROVE u <= x \/ u = y \/ u >= z OBVIOUS
  <2>1. u \in Nat /\ u + d \in R BY <1>2, <1>3
  <2>2. u + d <= i \/ u + d = j \/ u + d >= k BY <1>4, <2>1
  <2> QED BY ONLY <1>7, <1>8, <1>9, <1>10, <2>1, <2>2, d \in Nat
<1>13. g[x] = g[z] /\ g[y] = g[z] BY <1>2, <1>4, <1>7, <1>8, <1>9
<1>14. z \notin Rejected(as)
  <2>1. PICK n \in Nat : n = Len(as) /\ n + d = Len(ns) /\ DOMAIN as = 1..n /\ DOMAIN ns = 1..n+d
    BY Positions DEF Shifts
  <2>2. z = n
    <3>1. z + d = n + d BY <1>9, <2>1
    <3> QED BY ONLY <1>10, <3>1, n \in Nat, d \in Nat
  <2>3. k \in DOMAIN ns BY <1>1, <1>4, TurnResultsTyped
  <2>4. ns[k].body # "rejected" BY <1>4, <2>3 DEF Rejected
  <2>5. as[z].body = ns[k].body BY <2>1, <2>2 DEF Last
  <2> QED BY <2>4, <2>5 DEF Rejected
<1>15. Again(S, g, Rejected(as)) BY <1>11, <1>12, <1>13, <1>14 DEF Again
<1> QED BY <1>1, <1>3, <1>15, RepeatsIs

\* One message more in the history and in the working set: if it closes no loop
\* in the working set, it closes none in the history.
LEMMA HistoryGrows ==
  ASSUME NEW ms \in Seq(Messages), NEW os \in Seq(Messages), NEW m \in Messages, Retold(os, ms), Dialogue(os),
         NEW as, as = Append(ms, m), Dialogue(as), Rising(as), ~Repeats(as),
         NEW ns, ns = Append(os, m), Dialogue(ns), Rising(ns)
  PROVE  Retold(ns, as)
<1>1. Rising(os) /\ Recounts(ms, os) /\ ~Looping(os) BY DEF Retold
<1>2. PICK l \in Nat : l = Len(os) /\ ns \in Seq(Messages) /\ Len(ns) = l + 1 /\ DOMAIN ns = DOMAIN os \cup {l + 1} /\ ns[l + 1] = m
  BY OneMore DEF Extension
<1>3. PICK n \in Nat : n = Len(ms) /\ as \in Seq(Messages) /\ as # <<>> /\ Len(as) = n + 1 /\ as[n + 1] = m
  BY OneMore DEF Extension
<1>4. PICK d \in 0..Len(os), p \in 1..Len(ms)+1 :
        /\ Shifts(ms, os, d, p)
        /\ p + d = 1 \/ Cardinality(Complete(os, p + d)) >= KeepRecentToolCallGroups
  BY <1>1 DEF Recounts
<1>5. d \in Nat /\ p \in Nat /\ p >= 1 /\ p + d \in Nat /\ d \in 0..Len(ns) /\ p \in 1..Len(as)+1
  <2>1. d \in 0..l /\ p \in 1..n+1 BY <1>2, <1>3
  <2>2. d \in Nat /\ p \in Nat /\ p >= 1 /\ p + d \in Nat /\ d \in 0..l+1 /\ p \in 1..(n+1)+1
    BY ONLY <2>1, l \in Nat, n \in Nat
  <2> QED BY <1>2, <1>3, <2>2
<1>6. Shifts(as, ns, d, p) BY <1>4, <1>5, ShiftGrows
<1>7. Recounts(as, ns)
  <2>1. p + d = 1 \/ Cardinality(Complete(ns, p + d)) >= KeepRecentToolCallGroups
    <3>1. CASE p + d = 1 BY <3>1
    <3>2. CASE Cardinality(Complete(os, p + d)) >= KeepRecentToolCallGroups
      <4>1. PICK x \in Nat, y \in Nat :
              x = Cardinality(Complete(os, p + d)) /\ y = Cardinality(Complete(ns, p + d)) /\ x <= y
        BY <1>5, CompleteGrows
      <4>2. KeepRecentToolCallGroups \in Nat BY WorkingSetAssumption
      <4> QED BY <3>2, <4>1, <4>2
    <3> QED BY <1>4, <3>1, <3>2
  <2> QED BY <1>5, <1>6, <2>1 DEF Recounts
<1>8. ~Looping(ns)
  <2>1. CASE m.role = "user"
    <3>1. TurnResults(ns) = {} BY <2>1, TurnOpens
    <3> QED BY <3>1 DEF Looping
  <2>2. CASE m.role # "user"
    <3>1. SUFFICES ASSUME NEW i, NEW j, NEW k, LoopAt(ns, i, j, k),
                          Cardinality(Between(ns, i, k)) <= KeepRecentToolCallGroups
                   PROVE  FALSE
      BY <1>2, LoopingIs
    <3>2. CASE k \in DOMAIN os BY <1>1, <2>2, <3>1, <3>2, LoopWasThere
    <3>3. CASE k = l + 1
      <4>0. ns \in Seq(Messages) BY <1>2
      <4>1. \A x \in {i, j, k} : x \in DOMAIN ns /\ x \in Nat /\ ns[x].role = "tool" /\ x \in TurnResults(ns)
        BY <3>1, <4>0, LoopTyped, Zenon
      <4>2. m.role = "tool" BY <1>2, <3>3, <4>1
      <4>3. CASE i < p + d
        <5>1. p + d # 1
          <6>1. i \in DOMAIN ns BY <4>1
          <6>2. 1 <= i BY <1>2, <6>1, GroupTyped
          <6> QED BY <1>5, <4>1, <4>3, <6>2
        <5>2. Cardinality(Complete(os, p + d)) >= KeepRecentToolCallGroups BY <1>4, <5>1
        <5>3. PICK from \in Nat : from = p + d BY <1>5
        <5>4. Cardinality(Complete(os, from)) >= KeepRecentToolCallGroups /\ i < from BY <4>3, <5>2, <5>3
        <5>5. i \in DOMAIN ns /\ ns[i].role = "tool" BY <4>1
        <5>6. ~(Cardinality(Between(ns, i, Len(os) + 1)) <= KeepRecentToolCallGroups) BY <4>2, <5>4, <5>5, KeptLieBetween
        <5> QED BY <1>2, <3>1, <3>3, <5>6
      <4>4. CASE ~(i < p + d)
        <5>1. Last(as) = m /\ Last(ns) = m /\ k = Len(ns) BY <1>2, <1>3, <3>3 DEF Last
        <5>2. Last(as).body = Last(ns).body BY <5>1
        <5> QED BY <1>2, <1>3, <1>5, <1>6, <3>1, <4>4, <5>1, <5>2, LoopIsRepeated
      <4> QED BY <4>3, <4>4
    <3>4. k \in DOMAIN ns BY <1>2, <3>1, LoopTyped
    <3> QED BY <1>2, <3>2, <3>3, <3>4
  <2> QED BY <2>1, <2>2
<1> QED BY <1>7, <1>8 DEF Retold

\* Edits of an edited message
LEMMA EchoesOf ==
  ASSUME NEW a, NEW b, NEW m, Echoes(a, b), Echoes(b, m)
  PROVE  Echoes(a, m)
BY DEF Echoes

\* A working set that is edited in place recounts the same history.
LEMMA LikeRecounts ==
  ASSUME NEW ms \in Seq(Messages), NEW os \in Seq(Messages), Recounts(ms, os), NEW as, Like(as, ms)
  PROVE  Recounts(as, os)
<1>1. Len(as) = Len(ms) /\ DOMAIN as = DOMAIN ms /\ (\A i \in DOMAIN ms : as[i].role = ms[i].role) BY LikeTalks
<1>2. \A i \in DOMAIN ms : Echoes(as[i], ms[i]) BY DEF Like
<1>3. PICK d \in 0..Len(os), p \in 1..Len(ms)+1 :
        /\ Shifts(ms, os, d, p)
        /\ p + d = 1 \/ Cardinality(Complete(os, p + d)) >= KeepRecentToolCallGroups
  BY DEF Recounts
<1>4. PICK n \in Nat : n = Len(ms) /\ DOMAIN ms = 1..n BY Positions
<1>5. Shifts(as, os, d, p)
  <2>1. ASSUME NEW i \in p..Len(as) PROVE Echoes(as[i], os[i + d])
    <3>1. i \in DOMAIN ms
      <4>1. p \in 1..n+1 /\ i \in p..n BY <1>1, <1>3, <1>4, <2>1
      <4>2. i \in 1..n BY ONLY <4>1, n \in Nat
      <4> QED BY <1>4, <4>2
    <3>2. Echoes(ms[i], os[i + d]) BY <1>1, <1>3, <2>1 DEF Shifts
    <3> QED BY <1>2, <3>1, <3>2, EchoesOf
  <2>2. \A i \in DOMAIN as : i < p => as[i].role \in {"system", "user"} BY <1>1, <1>3 DEF Shifts
  <2>3. Len(as) + d = Len(os) BY <1>1, <1>3 DEF Shifts
  <2> QED BY <2>1, <2>2, <2>3 DEF Shifts
<1> QED BY <1>1, <1>3, <1>5 DEF Recounts

\* The groups a compaction keeps are complete groups of the history.
LEMMA SparedAreComplete ==
  ASSUME NEW ms \in Seq(Messages), Closed(ms), NEW os \in Seq(Messages), NEW d \in Nat, NEW p \in Nat,
         NEW q \in Nat, p <= q, p >= 1, Shifts(ms, os, d, p), Spares(ms, q)
  PROVE  Cardinality(Complete(os, q + d)) >= KeepRecentToolCallGroups
<1>1. PICK n \in Nat : n = Len(ms) /\ n + d = Len(os) /\ DOMAIN ms = 1..n /\ DOMAIN os = 1..n+d
  BY Positions DEF Shifts
<1>2. PICK G, C : G = {g \in collectToolCallGroups(ms) : g >= q} /\ C = Complete(os, q + d) OBVIOUS
<1>3. ASSUME NEW g \in G PROVE g \in Nat /\ g + d \in C
  <2>1. g \in DOMAIN ms /\ HasCalls(ms[g]) /\ g >= q BY <1>2, <1>3 DEF collectToolCallGroups
  <2>2. PICK c \in Nat : c = Len(ms[g].calls) BY <2>1, GroupTyped
  <2>3. g \in 1..n BY <1>1, <2>1
  <2>4. g \in p..n /\ g + d \in 1..n+d /\ g + d >= q + d
    BY ONLY <2>1, <2>3, p <= q, p \in Nat, q \in Nat, n \in Nat, d \in Nat
  <2>5. Echoes(ms[g], os[g + d]) BY <1>1, <2>4 DEF Shifts
  <2>6. HasCalls(os[g + d]) /\ os[g + d].calls = ms[g].calls BY <2>1, <2>5 DEF Echoes, HasCalls, IsAssistant
  <2>7. ~(g + c > n) BY <1>1, <2>1, <2>2 DEF Closed, OpenAt
  <2>8. ~((g + d) + c > n + d) BY ONLY <2>3, <2>7, c \in Nat, n \in Nat, d \in Nat
  <2>9. ~OpenAt(os, g + d) BY <1>1, <2>2, <2>6, <2>8 DEF OpenAt
  <2>10. g + d \in DOMAIN os BY <1>1, <2>4
  <2> QED BY <1>2, <2>3, <2>4, <2>6, <2>9, <2>10 DEF Complete, collectToolCallGroups
<1>4. PICK f : f = [g \in G |-> g + d] OBVIOUS
<1>5. f \in [G -> C] BY <1>3, <1>4
<1>6. IsInjective(f)
  <2>1. ASSUME NEW a \in G, NEW b \in G, f[a] = f[b] PROVE a = b
    <3>1. a + d = b + d /\ a \in Nat /\ b \in Nat BY <1>3, <1>4, <2>1
    <3> QED BY ONLY <3>1, d \in Nat
  <2> QED BY <1>5, <2>1 DEF IsInjective
<1>7. f \in Injection(G, C) BY <1>5, <1>6 DEF Injection
<1>8. IsFiniteSet(C)
  <2>1. C \in SUBSET (1..n+d) BY <1>1, <1>2 DEF Complete, collectToolCallGroups
  <2>2. IsFiniteSet(1..n+d) BY FS_Interval
  <2> QED BY <2>1, <2>2, FS_Subset
<1>9. IsFiniteSet(G) /\ Cardinality(G) <= Cardinality(C) BY <1>7, <1>8, FS_Injection
<1>10. Cardinality(G) \in Nat /\ Cardinality(C) \in Nat BY <1>8, <1>9, FS_CardinalityType
<1>11. KeepRecentToolCallGroups \in Nat BY WorkingSetAssumption
<1>12. Cardinality(G) >= KeepRecentToolCallGroups BY <1>2 DEF Spares
<1>13. Cardinality(C) >= KeepRecentToolCallGroups BY ONLY <1>9, <1>10, <1>11, <1>12
<1> QED BY <1>2, <1>13

\* What a compaction leaves recounts the same history.
LEMMA TrimmedRecounts ==
  ASSUME NEW ms \in Seq(Messages), NEW last, Working(ms, last), Finished(ms), NEW os \in Seq(Messages),
         Recounts(ms, os), NEW as, Trimmed(as, ms)
  PROVE  Recounts(as, os)
<1>1. CASE Like(as, ms) BY <1>1, LikeRecounts
<1>2. ASSUME NEW local, Like(local, ms), NEW q \in collectToolCallGroups(ms), Spares(ms, q), Layout(as, local, q)
      PROVE  Recounts(as, os)
  <2>1. PICK d \in 0..Len(os), p \in 1..Len(ms)+1 : Shifts(ms, os, d, p) BY DEF Recounts
  <2>2. Len(local) = Len(ms) /\ (\A i \in DOMAIN ms : local[i].role = ms[i].role) BY <1>2, LikeTalks
  <2>3. \A i \in DOMAIN ms : Echoes(local[i], ms[i]) BY <1>2 DEF Like
  <2>4. PICK n \in Nat, k \in Nat :
          /\ n >= 3 /\ n + k = Len(local) /\ k + 3 = q /\ Len(as) = n
          /\ as[1] = local[1] /\ as[2].role = "user"
          /\ \A i \in 3..n : as[i] = local[i + k]
    BY <1>2 DEF Layout
  <2>5. PICK l \in Nat : l = n + k /\ l = Len(ms) /\ DOMAIN ms = 1..l /\ l + d = Len(os) BY <2>1, <2>2, <2>4, Positions DEF Shifts
  <2>6. as \in Seq(Messages) /\ DOMAIN as = 1..n BY <1>2, <2>4, Positions DEF Layout
  <2>7. q \in DOMAIN ms /\ HasCalls(ms[q]) BY DEF collectToolCallGroups
  <2>8. d \in Nat /\ p \in Nat /\ p >= 1 /\ q \in Nat
    <3>1. d \in 0..l+d /\ p \in 1..l+1 /\ q \in 1..l BY <2>1, <2>5, <2>7
    <3>2. Len(os) \in Nat BY Positions
    <3>3. d \in Nat BY <2>1, <3>2
    <3> QED BY <3>1, <3>3
  <2>9. p <= q
    <3>1. ~(q < p) BY <2>1, <2>7 DEF Shifts, HasCalls, IsAssistant
    <3> QED BY ONLY <2>8, <3>1
  <2>10. \A i \in 3..n : Echoes(as[i], os[i + (d + k)])
    <3> SUFFICES ASSUME NEW i \in 3..n PROVE Echoes(as[i], os[i + (d + k)]) OBVIOUS
    <3>1. i + k \in 1..l /\ i + k \in p..l /\ (i + k) + d = i + (d + k)
      BY ONLY <2>4, <2>5, <2>8, <2>9, i \in 3..n, n \in Nat, k \in Nat
    <3>2. Echoes(local[i + k], ms[i + k]) BY <2>3, <2>5, <3>1
    <3>3. Echoes(ms[i + k], os[(i + k) + d]) BY <2>1, <2>5, <3>1 DEF Shifts
    <3>4. as[i] = local[i + k] BY <2>4
    <3> QED BY <3>1, <3>2, <3>3, <3>4, EchoesOf
  <2>11. ASSUME NEW i \in DOMAIN as, i < 3 PROVE as[i].role \in {"system", "user"}
    <3>1. i \in 1..n BY <2>6
    <3>2. i = 1 \/ i = 2 BY ONLY <2>11, <3>1, n \in Nat
    <3>3. 1 \in DOMAIN ms BY <2>7, Positions
    <3>4. as[1].role = "system" BY <2>2, <2>4, <3>3 DEF Working
    <3> QED BY <2>4, <3>2, <3>4
  <2>12. /\ n + (d + k) = l + d /\ d + k \in 0..l+d /\ 3 \in 1..n+1 /\ 3 + (d + k) = q + d
    BY ONLY <2>4, <2>5, <2>8, n \in Nat, k \in Nat
  <2>13. Shifts(as, os, d + k, 3) BY <2>4, <2>5, <2>10, <2>11, <2>12 DEF Shifts
  <2>14. Cardinality(Complete(os, q + d)) >= KeepRecentToolCallGroups
    BY <1>2, <2>1, <2>8, <2>9, SparedAreComplete DEF Finished
  <2>15. /\ d + k \in 0..Len(os) /\ 3 \in 1..Len(as)+1
         /\ Cardinality(Complete(os, 3 + (d + k))) >= KeepRecentToolCallGroups
    BY <2>4, <2>5, <2>12, <2>14
  <2> QED BY <2>13, <2>15 DEF Recounts
<1> QED BY <1>1, <1>2 DEF Trimmed

\* What the other invariants say of the history and the current working set
Known ==
  ~gone => /\ Dialogue(original) /\ Dialogue(memory[ctx.gen])
           /\ Rising(memory[ctx.gen]) /\ ~Repeats(memory[ctx.gen])

\* It follows from them.
LEMMA WhatIsKnown ==
  ASSUME IInv, TInv, LInv
  PROVE  Known
<1>1. ~gone => Told /\ ~Repeats(memory[ctx.gen]) /\ Rows BY DEF IInv, TInv, LInv
<1> QED BY <1>1, WorkingRises DEF Known, Told, Chronicle, Rows

\* The numbers of a history end before that of a new message.
LEMMA HistoryRises ==
  ASSUME TypeOK, Rows, NothingForgotten, ~gone, Rising(original), NEW m \in Messages, m.seq > ctx.last
  PROVE  Rising(Append(original, m))
<1>1. PICK os \in Seq(Messages), ms \in Seq(Messages) : os = original /\ ms = memory[ctx.gen] BY Generations DEF TypeOK
<1>2. PICK as : as = Append(os, m) OBVIOUS
<1>3. PICK n \in Nat : n = Len(os) /\ DOMAIN os = 1..n /\ DOMAIN as = DOMAIN os \cup {n + 1} /\ as[n + 1] = m
                       /\ \A i \in DOMAIN os : as[i] = os[i]
  BY <1>2, OneMore DEF Extension
<1>4. ASSUME NEW i \in DOMAIN os PROVE os[i].seq < m.seq
  <2>1. os[i].seq \in Sources(ms) BY <1>1 DEF NothingForgotten
  <2>2. PICK j \in DOMAIN ms : os[i].seq \in ms[j].src BY <2>1 DEF Sources
  <2>3. os[i].seq <= ctx.last BY <1>1, <2>2 DEF Rows, Working
  <2>4. os[i] \in Messages BY Positions
  <2>5. os[i].seq \in Nat /\ m.seq \in Nat /\ ctx.last \in Nat BY <2>4, Fields, HeadTyped
  <2> QED BY ONLY <2>3, <2>5, m.seq > ctx.last
<1>5. ASSUME NEW i \in DOMAIN as, NEW j \in DOMAIN as, i < j PROVE as[i].seq < as[j].seq
  <2>1. CASE i \in DOMAIN os /\ j \in DOMAIN os BY <1>1, <1>3, <1>5, <2>1 DEF Rising
  <2>2. CASE i \in DOMAIN os /\ j = n + 1 BY <1>3, <1>4, <2>2
  <2>3. i # n + 1
    <3>1. \A x \in DOMAIN as : x \in Nat /\ x <= n + 1 BY <1>3
    <3> QED BY <1>3, <1>5, <3>1
  <2> QED BY <1>3, <2>1, <2>2, <2>3
<1>6. Rising(as) BY <1>5 DEF Rising
<1> QED BY <1>1, <1>2, <1>6

\* A request that recounts the history and is applied
LEMMA RequestRecounts ==
  ASSUME TypeOK, Rows, NothingForgotten, ~gone, Known, Retold(original, memory[ctx.gen]),
         NEW r \in Requested, Sound(r), Timely(r), Recounted(r.op, r.snap.rev, r.snap.msgs),
         RequestAllowed(r), ApplyRequest(r), UNCHANGED <<artifacts, wiped, gone>>, Known'
  PROVE  Retold(original', memory'[ctx'.gen])
<1>1. PICK s \in Sessions : s = r.snap BY DEF Requested
<1>2. original \in Seq(Messages) /\ memory[ctx.gen] \in Seq(Messages) BY Generations DEF TypeOK
<1>3. PICK os \in Seq(Messages), ms \in Seq(Messages) : os = original /\ ms = memory[ctx.gen] BY <1>2
<1>4. Retold(os, ms) /\ Dialogue(os) BY <1>3 DEF Known
<1>5. Snapshot(s) BY <1>1 DEF Sound
<1>6. PICK ns, as : ns = original' /\ as = memory'[ctx'.gen] OBVIOUS
<1>7. Dialogue(ns) /\ Dialogue(as) /\ Rising(as) /\ ~Repeats(as) BY <1>6 DEF Known
<1>8. ASSUME ns = os, Recounts(as, os) PROVE Retold(ns, as) BY <1>4, <1>8 DEF Retold
<1>9. CASE r.op = "reserve"
  <2>1. ReserveMessageSequence BY <1>9 DEF ApplyRequest
  <2>2. original' = original /\ memory' = memory /\ ctx' = ctx BY <2>1 DEF ReserveMessageSequence
  <2>3. ns = os /\ as = ms BY <1>3, <1>6, <2>2
  <2> QED BY <1>4, <1>6, <2>3
<1>10. CASE r.op = "create"
  <2>1. CreateAllowed(s) /\ CommitCreateMessage(s) BY <1>1, <1>10 DEF RequestAllowed, ApplyRequest
  <2>2. s.msgs # <<>> /\ (s.rev = 0 <=> Len(s.msgs) = 1) BY <1>1, <1>10 DEF Sound
  <2>3. PICK m : m = Last(s.msgs) OBVIOUS
  <2>4. m \in Messages /\ m.seq = s.last /\ s.last > ctx.last BY <1>5, <2>1, <2>2, <2>3, CreateFits
  <2>5. /\ original' = Append(original, m)
        /\ GetRequestContext' = [rev |-> s.rev + 1, gen |-> s.gen, last |-> s.last, msgs |-> Append(memory[ctx.gen], m)]
    BY <1>5, <2>1, <2>2, <2>3, CreateMoves
  <2>6. memory'[ctx'.gen] = Append(memory[ctx.gen], m) BY <2>5 DEF GetRequestContext
  <2>7. ns = Append(os, m) /\ as = Append(ms, m) BY <1>3, <1>6, <2>5, <2>6
  <2>8. Rising(ns)
    <3>1. m.seq > ctx.last BY <2>4
    <3>2. Rising(original) BY <1>3, <1>4 DEF Retold
    <3>3. Rising(Append(original, m)) BY <2>4, <3>1, <3>2, HistoryRises
    <3> QED BY <1>3, <2>7, <3>3
  <2>9. Retold(ns, as) BY <1>4, <1>7, <2>4, <2>7, <2>8, HistoryGrows
  <2> QED BY <1>6, <2>9
<1>11. CASE r.op = "update"
  <2>1. UpdateAllowed(s) /\ CommitUpdateMessage(s) BY <1>1, <1>11 DEF RequestAllowed, ApplyRequest
  <2>2. s.msgs # <<>> BY <1>1, <1>11 DEF Sound
  <2>3. PICK sys : sys = s.msgs[1] OBVIOUS
  <2>4. s.msgs \in Seq(Messages) /\ Working(s.msgs, s.last) BY <1>5, SessionTyped DEF Snapshot
  <2>5. 1 \in DOMAIN s.msgs BY <2>2, <2>4, Positions
  <2>6. sys \in Messages /\ sys.seq = 1 /\ sys.src = {1} /\ sys.role = "system"
    BY <2>2, <2>3, <2>4, <2>5, Positions DEF Working
  <2>7. /\ original' = original
        /\ GetRequestContext' = [rev |-> s.rev + 1, gen |-> s.gen, last |-> s.last,
                                 msgs |-> [memory[ctx.gen] EXCEPT ![1] = s.msgs[1]]]
    BY <1>5, <2>1, <2>2, UpdateMoves
  <2>8. memory'[ctx'.gen] = [memory[ctx.gen] EXCEPT ![1] = s.msgs[1]] BY <2>7 DEF GetRequestContext
  <2>9. ns = os /\ as = [ms EXCEPT ![1] = sys] BY <1>3, <1>6, <2>3, <2>7, <2>8
  <2>10. ms # <<>> BY <1>3, <2>1 DEF UpdateAllowed
  <2>11. Working(ms, ctx.last) /\ ctx.last \in Nat BY <1>3, HeadTyped DEF Rows
  <2>12. Like(as, ms) BY <2>6, <2>9, <2>10, <2>11, PromptReplaced
  <2>13. Recounts(as, os) BY <1>4, <2>12, LikeRecounts DEF Retold
  <2> QED BY <1>6, <1>8, <2>9, <2>13
<1>12. CASE r.op = "generation"
  <2>1. NextGenerationAllowed(s) /\ CommitNextMemoryGeneration(s) BY <1>1, <1>12 DEF RequestAllowed, ApplyRequest
  <2>2. s.msgs # <<>> BY <1>1, <1>12 DEF Sound
  <2>3. s.rev = ctx.rev BY <2>1 DEF NextGenerationAllowed, SameRevision
  <2>4. Sources(s.msgs) = Sources(memory[ctx.gen]) BY <1>1, <1>12, <2>3 DEF Timely
  <2>5. /\ original' = original
        /\ GetRequestContext' = [rev |-> s.rev + 1, gen |-> s.gen, last |-> s.last, msgs |-> s.msgs]
    BY <1>5, <2>1, <2>2, <2>4, GenerationMoves
  <2>6. ns = os /\ as = s.msgs BY <1>3, <1>6, <2>5 DEF GetRequestContext
  <2>7. Recounts(s.msgs, os) BY <1>1, <1>3, <1>12, <2>3 DEF Recounted
  <2> QED BY <1>6, <1>8, <2>6, <2>7
<1> QED BY <1>9, <1>10, <1>11, <1>12 DEF Requested

\* A new generation still recounts the history, or is out of date, after any
\* other write.
LEMMA RecountedKept ==
  ASSUME TypeOK, Advances, NEW op, NEW rev \in Nat, rev <= ctx.rev, NEW ms, Recounted(op, rev, ms)
  PROVE  Recounted(op, rev, ms)'
<1>1. CASE ctx' = ctx /\ original' = original BY <1>1 DEF Recounted
<1>2. CASE ctx'.rev = ctx.rev + 1
  <2>1. ctx.rev \in Nat BY HeadTyped
  <2>2. rev # ctx'.rev BY <1>2, <2>1
  <2> QED BY <2>2 DEF Recounted
<1> QED BY <1>1, <1>2 DEF Advances

-----------------------------------------------------------------------------
(* One lemma per kind of step.                                             *)

\* A step that writes nothing
LEMMA QuietRecounts ==
  ASSUME OInv, UNCHANGED <<ctx, original, memory, gone>>, late' \subseteq late,
         run'.pc # "advance" \/ run' = run \/ gone \/ Recounted("generation", run'.sess.rev, run'.cand)
  PROVE  OInv'
<1>1. CASE gone BY <1>1 DEF OInv
<1>2. CASE ~gone
  <2>1. /\ Retold(original, memory[ctx.gen])
        /\ \A r \in late : Recounted(r.op, r.snap.rev, r.snap.msgs)
        /\ run.pc = "advance" => Recounted("generation", run.sess.rev, run.cand)
    BY <1>2 DEF OInv
  <2>2. Retold(original', memory'[ctx'.gen]) BY <2>1
  <2>3. \A r \in late' : Recounted(r.op, r.snap.rev, r.snap.msgs)' BY <2>1 DEF Recounted
  <2>4. run'.pc = "advance" => Recounted("generation", run.sess.rev, run.cand)' BY <1>2, <2>1 DEF Recounted
  <2> QED BY <2>2, <2>3, <2>4 DEF OInv
<1> QED BY <1>1, <1>2

\* A request, applied or still on its way, of a run that compacts nothing next
LEMMA SendRecounts ==
  ASSUME IInv, TInv, LInv, OInv, Known', ~gone, NEW r, NEW w, Sends(r, w), w.pc # "advance",
         r.op = "generation" => Recounted("generation", r.snap.rev, r.snap.msgs), UNCHANGED <<artifacts, wiped>>
  PROVE  OInv'
<1>1. /\ TypeOK /\ Rows /\ NothingForgotten /\ Requests /\ Known /\ Retold(original, memory[ctx.gen])
      /\ \A q \in late : Recounted(q.op, q.snap.rev, q.snap.msgs)
  BY WhatIsKnown DEF IInv, OInv
<1>2. r \in Requested /\ Sound(r) /\ Timely(r) BY FitsIsTimely DEF Sends, Fits
<1>3. Send(r, w) /\ gone' = gone BY DEF Sends, Send
<1>4. Recounted(r.op, r.snap.rev, r.snap.msgs) BY DEF Recounted
<1>5. run'.pc # "advance"
  <2>1. run' \in {w} \cup {Failing(w), Idle} BY <1>3 DEF Send
  <2>2. PICK v : v = run OBVIOUS
  <2>3. RunTyped(v) /\ HeldBy(v) BY <2>2 DEF IInv, TypeOK
  <2>4. PICK x, y, o : o = Ended(v, "failed") /\ Failing(w) = Noting(o, x, y)
    BY <2>2 DEF Failing, Ending, Ended, Noting
  <2>5. PICK e : e = Failing(w) OBVIOUS
  <2>6. e.pc = "finish" BY <2>3, <2>4, <2>5, FailingHeld
  <2>7. Idle.pc = "idle" BY IdleHeld
  <2> QED BY <2>1, <2>5, <2>6, <2>7
<1>6. \/ RequestAllowed(r) /\ ApplyRequest(r) /\ late' = late
      \/ UNCHANGED storeVars /\ late' \subseteq late \cup {r}
  BY <1>3 DEF Send
<1>7. CASE RequestAllowed(r) /\ ApplyRequest(r) /\ late' = late
  <2>1. Advances BY <1>1, <1>2, <1>3, <1>7, RequestMoves
  <2>2. Retold(original', memory'[ctx'.gen]) BY <1>1, <1>2, <1>3, <1>4, <1>7, RequestRecounts
  <2>3. ASSUME NEW q \in late PROVE Recounted(q.op, q.snap.rev, q.snap.msgs)'
    <3>1. q.snap.rev \in Nat /\ q.snap.rev <= ctx.rev
      BY <1>1, <2>3, SessionTyped DEF Requests, Timely, TypeOK, Requested
    <3> QED BY <1>1, <2>1, <2>3, <3>1, RecountedKept
  <2> QED BY <1>5, <1>7, <2>2, <2>3 DEF OInv
<1>8. CASE UNCHANGED storeVars /\ late' \subseteq late \cup {r}
  <2>1. UNCHANGED <<ctx, original, memory>> BY <1>8 DEF storeVars
  <2>2. ASSUME NEW q \in late' PROVE Recounted(q.op, q.snap.rev, q.snap.msgs)'
    BY <1>1, <1>4, <1>8, <2>1, <2>2 DEF Recounted
  <2> QED BY <1>1, <1>5, <2>1, <2>2 DEF OInv
<1> QED BY <1>6, <1>7, <1>8

\* The prompt and a reserved number
LEMMA PromptRecounts ==
  ASSUME IInv, TInv, LInv, OInv, Known', InitSysPrompt \/ Reserve
  PROVE  OInv'
<1>1. CASE InitSysPrompt
  <2>1. run.pc = "sys" /\ UNCHANGED <<artifacts, wiped>> BY <1>1 DEF InitSysPrompt, At
  <2>2. ~gone BY <2>1, RunHolds
  <2>3. PICK r, w : Sends(r, w) /\ w.pc = "recover" /\ r.op \in {"create", "update"} BY <1>1, InitSysPromptSends
  <2> QED BY <2>1, <2>2, <2>3, SendRecounts
<1>2. CASE Reserve
  <2>1. PICK r, w : Sends(r, w) /\ r.op = "reserve" /\ w.pc = run.pc /\ w.pc \in Steps BY <1>2, ReserveSends
  <2>2. run.pc # "idle" /\ w.pc # "advance" BY <2>1 DEF Steps
  <2>3. ~gone BY <2>2, RunHolds
  <2>4. UNCHANGED <<artifacts, wiped>> BY <1>2 DEF Reserve
  <2> QED BY <2>1, <2>2, <2>3, <2>4, SendRecounts
<1> QED BY <1>1, <1>2

\* A message of the run
LEMMA AppendRecounts ==
  ASSUME IInv, TInv, LInv, OInv, Known', RecoverResult \/ AppendUser \/ CommitReply \/ ToolCall
  PROVE  OInv'
<1>1. run.pc # "idle" /\ UNCHANGED <<artifacts, wiped>> BY DEF RecoverResult, AppendUser, CommitReply, ToolCall, At
<1>2. ~gone BY <1>1, RunHolds
<1>3. PICK m, next : Appends(m, next) /\ next.pc # "advance"
  <2>1. CASE RecoverResult BY <2>1, RecoverResultAppends
  <2>2. CASE AppendUser BY <2>2, AppendUserAppends
  <2>3. CASE CommitReply BY <2>3, CommitReplyAppends
  <2>4. CASE ToolCall BY <2>4, ToolCallAppends
  <2> QED BY <2>1, <2>2, <2>3, <2>4
<1>4. PICK r, w : Sends(r, w) /\ r.op = "create" /\ w.pc = next.pc BY <1>1, <1>2, <1>3, AppendSends
<1> QED BY <1>1, <1>2, <1>3, <1>4, SendRecounts

\* A compaction works on the session of the run, which at the revision that is
\* current is the stored one.
LEMMA PrepareContextRecounts ==
  ASSUME IInv, TInv, LInv, OInv, PrepareContext
  PROVE  OInv'
<1> DEFINE cands(ms) == IF InputTokens(compactLocally(ms)) <= TargetTokens THEN {compactLocally(ms)}
                        ELSE compactWithSummary(compactLocally(ms), ProtectedStart(ms))
<1>1. run.pc = "prepare" BY DEF PrepareContext, At
<1>2. /\ ~gone /\ Heard(run) /\ run.sess.msgs \in Seq(Messages) /\ HeldBy(run) BY <1>1, RunHolds
<1>3. PICK v : v = run OBVIOUS
<1>4. PICK w : w = run' OBVIOUS
<1>5. PICK ms \in Seq(Messages) : ms = v.sess.msgs BY <1>2, <1>3
<1>6. RunTyped(v) /\ HeldBy(v) BY <1>3 DEF IInv, TypeOK
<1>7. DOMAIN v = {"pc", "resume", "sess", "chat", "seq", "reason", "err", "cand", "todo", "streak", "cut", "changed"}
  BY <1>6, RunFields
<1>8. Finished(ms) BY <1>1, <1>2, <1>3, <1>5 DEF Heard
<1>9. PICK last \in Nat : Working(ms, last)
  BY <1>2, <1>3, <1>5, SessionTyped DEF HeldBy, Snapshot, IInv, TypeOK, RunTyped
<1>10. ms # <<>> BY <1>1, <1>2, <1>3, <1>5 DEF HeldBy
<1>11. ASSUME NEW msgs \in cands(ms), w = [v EXCEPT !.pc = "advance", !.cand = msgs]
       PROVE  Recounted("generation", w.sess.rev, w.cand)
  <2>1. w.sess = v.sess /\ w.cand = msgs BY <1>7, <1>11
  <2>2. Trimmed(msgs, ms) BY <1>9, <1>10, <1>11, CompactedMessages
  <2>3. SUFFICES ASSUME v.sess.rev = ctx.rev PROVE Recounts(msgs, original) BY <2>1 DEF Recounted
  <2>4. Behind(run.sess) BY <1>2 DEF IInv, InStep
  <2>5. ms = memory[ctx.gen] BY <1>3, <1>5, <2>3, <2>4 DEF Behind, GetRequestContext
  <2>6. Recounts(ms, original) BY <1>2, <2>5 DEF OInv, Retold
  <2>7. original \in Seq(Messages) BY DEF IInv, TypeOK
  <2> QED BY <1>8, <1>9, <2>2, <2>6, <2>7, TrimmedRecounts
<1>12. ASSUME w = [v EXCEPT !.pc = "reply"] PROVE w.pc # "advance" BY <1>7, <1>12
<1>13. ASSUME w = Ending("failed") PROVE w.pc # "advance"
  <2>1. w = Ended(v, "failed") BY <1>3, <1>13 DEF Ended, Ending
  <2> QED BY <1>6, <2>1, EndingHeld
<1>14. \/ w = [v EXCEPT !.pc = "reply"]
       \/ \E msgs \in cands(ms) : w = [v EXCEPT !.pc = "advance", !.cand = msgs]
       \/ w = Ending("failed")
  BY <1>3, <1>4, <1>5 DEF PrepareContext
<1>15. w.pc # "advance" \/ Recounted("generation", w.sess.rev, w.cand) BY <1>11, <1>12, <1>13, <1>14
<1>16. UNCHANGED <<ctx, original, memory, gone>> /\ late' = late BY DEF PrepareContext, storeVars
<1> QED BY <1>4, <1>15, <1>16, QuietRecounts

\* The compacted messages become the current ones.
LEMMA AdvanceGenerationRecounts ==
  ASSUME IInv, TInv, LInv, OInv, Known', AdvanceGeneration
  PROVE  OInv'
<1>1. run.pc = "advance" /\ UNCHANGED <<artifacts, wiped>> BY DEF AdvanceGeneration, At
<1>2. ~gone BY <1>1, RunHolds
<1>3. Recounted("generation", run.sess.rev, run.cand) BY <1>1, <1>2 DEF OInv
<1>4. PICK r, w : Sends(r, w) /\ r.snap.rev = run.sess.rev /\ r.snap.msgs = run.cand /\ w.pc = "reply"
  BY AdvanceGenerationSends
<1>5. w.pc # "advance" /\ Recounted("generation", r.snap.rev, r.snap.msgs) BY <1>3, <1>4
<1> QED BY <1>1, <1>2, <1>4, <1>5, SendRecounts

\* A run that starts, loads, has nothing to recover or ends compacts nothing.
LEMMA LocalRecounts ==
  ASSUME IInv, OInv,
         \/ \E resume \in BOOLEAN : StartRun(resume)
         \/ Execute \/ InitSession \/ Recovered \/ Fail \/ Crash \/ FinishRun \/ FinishSubAgent
  PROVE  OInv'
<1>1. UNCHANGED <<ctx, original, memory, gone>> /\ late' = late
  BY DEF StartRun, Execute, InitSession, Recovered, Fail, Crash, FinishRun, FinishSubAgent, UpsertChatFiles, storeVars
<1>2. PICK v : v = run OBVIOUS
<1>3. PICK w : w = run' OBVIOUS
<1>4. RunTyped(v) /\ HeldBy(v) BY <1>2 DEF IInv, TypeOK
<1>5. DOMAIN v = {"pc", "resume", "sess", "chat", "seq", "reason", "err", "cand", "todo", "streak", "cut", "changed"}
  BY <1>4, RunFields
<1>6. ASSUME NEW why \in {"failed", "cancelled"} PROVE RunTyped(Ending(why)) /\ Ending(why).pc = "finish"
  <2>1. PICK e : e = Ended(v, why) OBVIOUS
  <2>2. RunTyped(e) /\ e.pc = "finish" BY <1>4, <2>1, EndingHeld
  <2>3. Ending(why) = e BY <1>2, <2>1 DEF Ending, Ended
  <2> QED BY <2>2, <2>3
<1>7. w.pc # "advance"
  <2>1. CASE \E resume \in BOOLEAN : StartRun(resume)
    <3>1. PICK resume : w = [Idle EXCEPT !.pc = "load", !.resume = resume] BY <1>3, <2>1 DEF StartRun
    <3>2. w.pc = "load" BY <3>1, StartedHeld
    <3> QED BY <3>2
  <2>2. CASE Execute
    <3>1. w = [Idle EXCEPT !.pc = "load"] BY <1>3, <2>2 DEF Execute
    <3> QED BY <3>1, StartedHeld
  <2>3. CASE InitSession
    <3>1. w = [v EXCEPT !.pc = "sys", !.sess = GetRequestContext] \/ w = Ending("failed")
      BY <1>2, <1>3, <2>3 DEF InitSession
    <3> QED BY <1>5, <1>6, <3>1
  <2>4. CASE Recovered
    <3>1. \/ w = [v EXCEPT !.pc = "user"]
          \/ w = [v EXCEPT !.pc = "prepare", !.streak = recentToolStreak(v.sess.msgs)]
          \/ w = Ending("failed")
      BY <1>2, <1>3, <2>4 DEF Recovered
    <3> QED BY <1>5, <1>6, <3>1
  <2>5. CASE Fail
    <3>1. PICK ran \in BOOLEAN, why \in IF kind = "child" THEN {"failed", "cancelled"} ELSE {"failed"} :
            w = [Ending(why) EXCEPT !.changed = @ \/ ran]
      BY <1>3, <2>5 DEF Fail
    <3>2. why \in {"failed", "cancelled"} BY <3>1
    <3>3. PICK e : e = Ending(why) OBVIOUS
    <3>4. RunTyped(e) /\ e.pc = "finish" BY <1>6, <3>2, <3>3
    <3>5. PICK x : w = [e EXCEPT !.changed = x] BY <3>1, <3>3
    <3>6. DOMAIN e = {"pc", "resume", "sess", "chat", "seq", "reason", "err", "cand", "todo", "streak", "cut", "changed"}
      BY <3>4, RunFields
    <3> QED BY <3>4, <3>5, <3>6
  <2>6. CASE Crash \/ FinishRun \/ FinishSubAgent
    <3>1. w = Idle BY <1>3, <2>6 DEF Crash, FinishRun, FinishSubAgent
    <3> QED BY <3>1, IdleHeld
  <2> QED BY <2>1, <2>2, <2>3, <2>4, <2>5, <2>6
<1> QED BY <1>1, <1>3, <1>7, QuietRecounts

\* A deletion, failed or not, or a step of nothing
LEMMA RestRecounts ==
  ASSUME OInv, Delete \/ DeleteFails \/ UNCHANGED vars
  PROVE  OInv'
<1>1. CASE Delete BY <1>1 DEF Delete, OInv
<1>2. CASE DeleteFails \/ UNCHANGED vars
  <2>1. UNCHANGED <<ctx, original, memory, gone>> /\ late' \subseteq late /\ run' = run
    BY <1>2 DEF vars, DeleteFails, storeVars
  <2> QED BY <2>1, QuietRecounts
<1> QED BY <1>1, <1>2

\* A late request is refused, or recounts the history.
LEMMA DeliverLateRecounts ==
  ASSUME IInv, TInv, LInv, OInv, Known', NEW r \in late, DeliverLate(r)
  PROVE  OInv'
<1>1. late' \subseteq late /\ run' = run /\ UNCHANGED <<artifacts, wiped, gone>> BY DEF DeliverLate
<1>2. CASE gone BY <1>1, <1>2 DEF OInv
<1>3. CASE ~gone
  <2>1. /\ TypeOK /\ Rows /\ NothingForgotten /\ Requests /\ Known /\ Retold(original, memory[ctx.gen])
        /\ \A q \in late : Recounted(q.op, q.snap.rev, q.snap.msgs)
        /\ run.pc = "advance" => Recounted("generation", run.sess.rev, run.cand)
    BY <1>3, WhatIsKnown DEF IInv, OInv
  <2>2. r \in Requested /\ Sound(r) /\ Timely(r) /\ Recounted(r.op, r.snap.rev, r.snap.msgs)
    BY <2>1 DEF Requests, TypeOK
  <2>3. CASE RequestAllowed(r)
    <3>1. ApplyRequest(r) BY <2>3 DEF DeliverLate
    <3>2. Advances BY <1>1, <2>1, <2>2, <2>3, <3>1, RequestMoves
    <3>3. Retold(original', memory'[ctx'.gen]) BY <1>1, <1>3, <2>1, <2>2, <2>3, <3>1, RequestRecounts
    <3>4. ASSUME NEW q \in late PROVE Recounted(q.op, q.snap.rev, q.snap.msgs)'
      <4>1. q.snap.rev \in Nat /\ q.snap.rev <= ctx.rev
        BY <1>3, <2>1, <3>4, SessionTyped DEF Requests, Timely, TypeOK, Requested
      <4> QED BY <2>1, <3>2, <3>4, <4>1, RecountedKept
    <3>5. PICK rev, cand : rev = run.sess.rev /\ cand = run.cand OBVIOUS
    <3>6. ASSUME run.pc = "advance" PROVE Recounted("generation", rev, cand)'
      <4>1. rev \in Nat BY <2>1, <3>5, SessionTyped DEF TypeOK, RunTyped
      <4>2. rev <= ctx.rev BY <1>3, <3>5 DEF IInv, InStep, Behind
      <4>3. Recounted("generation", rev, cand) BY <2>1, <3>5, <3>6
      <4> QED BY <2>1, <3>2, <4>1, <4>2, <4>3, RecountedKept
    <3>7. run'.pc = "advance" => Recounted("generation", run.sess.rev, run.cand)' BY <1>1, <3>5, <3>6
    <3> QED BY <1>1, <3>3, <3>4, <3>7 DEF OInv
  <2>4. CASE ~RequestAllowed(r)
    <3>1. UNCHANGED <<ctx, original, memory>> BY <2>4 DEF DeliverLate, storeVars
    <3> QED BY <1>1, <3>1, QuietRecounts
  <2> QED BY <2>3, <2>4
<1> QED BY <1>2, <1>3

\* No step makes a loop in the history, and every working set that is or may
\* become the current one goes on recounting it.
LEMMA StepRecounts ==
  ASSUME IInv, TInv, LInv, OInv, Known', [Next]_vars
  PROVE  OInv'
<1>1. CASE \/ \E resume \in BOOLEAN : StartRun(resume)
           \/ Execute \/ InitSession \/ Recovered \/ Fail \/ Crash \/ FinishRun \/ FinishSubAgent
  BY <1>1, LocalRecounts
<1>2. CASE InitSysPrompt \/ Reserve BY <1>2, PromptRecounts
<1>3. CASE RecoverResult \/ AppendUser \/ CommitReply \/ ToolCall BY <1>3, AppendRecounts
<1>4. CASE PrepareContext BY <1>4, PrepareContextRecounts
<1>5. CASE AdvanceGeneration BY <1>5, AdvanceGenerationRecounts
<1>6. CASE Delete \/ DeleteFails \/ UNCHANGED vars BY <1>6, RestRecounts
<1>7. CASE \E r \in late : DeliverLate(r) BY <1>7, DeliverLateRecounts
<1> QED BY <1>1, <1>2, <1>3, <1>4, <1>5, <1>6, <1>7 DEF Next

\* Nothing is recounted by nothing.
LEMMA SilenceIsRetold == Retold(<<>>, <<>>)
<1>1. <<>> \in Seq(Messages) /\ Dialogue(<<>>) BY SilenceIsDialogue
<1>2. TurnResults(<<>>) = {}
  <2>1. TurnResults(<<>>) \subseteq DOMAIN <<>> BY <1>1, TurnResultsTyped
  <2>2. DOMAIN <<>> = {} OBVIOUS
  <2> QED BY <2>1, <2>2
<1>3. ~Looping(<<>>) BY <1>2 DEF Looping
<1>4. Rising(<<>>) BY DEF Rising
<1>5. Shifts(<<>>, <<>>, 0, 1) BY DEF Shifts
<1>6. Recounts(<<>>, <<>>)
  <2>1. 0 \in 0..Len(<<>>) /\ 1 \in 1..Len(<<>>)+1 /\ 1 + 0 = 1 OBVIOUS
  <2> QED BY <1>5, <2>1 DEF Recounts
<1> QED BY <1>3, <1>4, <1>6 DEF Retold

\* The current working set, and every generation that may still replace it, is
\* the history or its latest part with the call groups that compaction keeps.
THEOREM HistoryIsRecounted == Spec => []OInv
<1>1. Init => OInv
  <2> SUFFICES ASSUME Init PROVE OInv OBVIOUS
  <2>1. memory[ctx.gen] = <<>> /\ original = <<>> /\ late = {} /\ run = Idle BY DEF Init, StoreInit, NoRow
  <2>2. run.pc # "advance" BY <2>1, IdleHeld
  <2> QED BY <2>1, <2>2, SilenceIsRetold DEF OInv
<1>2. IInv /\ TInv /\ LInv => Known BY WhatIsKnown
<1>3. IInv /\ TInv /\ LInv /\ OInv /\ Known' /\ [Next]_vars => OInv' BY StepRecounts
<1> QED BY <1>1, <1>2, <1>3, Inductive, TalkIsKept, StreakIsKept, PTL DEF Spec

\* In the history no call is executed a third time in a row within a turn,
\* whatever crashes, resumes, late requests and compactions there were, as far
\* back as the call groups that every compaction keeps.
THEOREM LoopsAreBroken == Spec => []LoopIsBroken
<1>1. OInv => LoopIsBroken BY DEF OInv, Retold, LoopIsBroken
<1> QED BY <1>1, HistoryIsRecounted, PTL
=============================================================================
