------------------------------ MODULE WorkingSet ------------------------------
(***************************************************************************)
(* The messages of a session and the pure functions the agent computes on  *)
(* them: validation of a working set, detection of an unfinished turn, the *)
(* tool call streak, the groups of tool calls and the region a compaction  *)
(* may touch, local compression, and the merge of old history into one     *)
(* summary.                                                                *)
(*                                                                         *)
(* A message is a record.  src is OriginalSeq as a set (the code keeps it  *)
(* sorted and without duplicates); a call is <<id, fingerprint>>; body is  *)
(* the class of the content the code tells apart and size its token count, *)
(* 1 for everything that no strategy can shorten further.                  *)
(***************************************************************************)
EXTENDS Integers, Sequences, FiniteSets, SequencesExt

CONSTANTS
  KeepRecentToolCallGroups,  \* the most recent call groups that are never trimmed
  MaxInput,                  \* input tokens that fit the model's window
  LongestSummary             \* tokens of the longest summary text considered

ASSUME WorkingSetAssumption ==
  /\ KeepRecentToolCallGroups \in Nat \ {0}
  /\ MaxInput \in Nat \ {0} /\ LongestSummary \in Nat

Roles == {"system", "user", "assistant", "tool"}
NoCall == <<0, 0>>

\* A message of its own original: what identify gives a new message.
NewMessage(role, seq) ==
  [seq |-> seq, src |-> {seq}, role |-> role, calls |-> <<>>, callID |-> NoCall,
   body |-> "plain", size |-> 1, chat |-> 0, stop |-> TRUE, art |-> FALSE]

IsAssistant(m) == m.role = "assistant"
HasCalls(m) == IsAssistant(m) /\ m.calls # <<>>
CallIDs(m) == {m.calls[i][1] : i \in DOMAIN m.calls}

-----------------------------------------------------------------------------
(* Restore: what a stored context must satisfy to be loaded.               *)

validateOriginalSeq(m, lastSeq) ==
  /\ m.src # {}
  /\ Min(m.src) = m.seq
  /\ \A s \in m.src : s > 0 /\ s <= lastSeq

\* RequestContext.Validate: the system message first and only there, sequence
\* numbers rising to LastSeq, every message naming the originals it covers.
Validate(c) ==
  /\ c.gen > 0
  /\ IF c.msgs = <<>> THEN c.last = 0
     ELSE /\ \A i \in DOMAIN c.msgs :
               /\ (i = 1) <=> (c.msgs[i].role = "system")
               /\ c.msgs[i].seq > 0
               /\ i > 1 => c.msgs[i].seq > c.msgs[i-1].seq
               /\ validateOriginalSeq(c.msgs[i], c.last)
          /\ Last(c.msgs).seq = c.last

-----------------------------------------------------------------------------
(* Unfinished turns.                                                       *)

hasUserMessage(ms) == \E i \in DOMAIN ms : ms[i].role = "user"

CanResume(hasUser, tail) ==
  hasUser /\ (~IsAssistant(tail) \/ tail.calls # <<>> \/ ~tail.stop)

needsRecovery(ms) == hasUserMessage(ms) /\ CanResume(TRUE, Last(ms))

\* The latest call group, 0 when there is none.
latestGroup(ms) == SelectLastInSeq(ms, HasCalls)

missingToolResults_Bug(ms) == DOMAIN Last(ms).calls

\* The calls of the latest group, by position, that no later tool message
\* answers.
missingToolResults(ms) ==
  LET at == latestGroup(ms)
      completed == {ms[i].callID : i \in {j \in DOMAIN ms : j > at /\ ms[j].role = "tool"}}
  IN {k \in IF at = 0 THEN {} ELSE DOMAIN ms[at].calls : ms[at].calls[k][1] \notin completed}

\* The live counter of identical calls in a row.
observe(streak, call) ==
  [fp |-> call[2], n |-> IF streak.n > 0 /\ streak.fp = call[2] THEN streak.n + 1 ELSE 1]

NoStreak == [fp |-> 0, n |-> 0]

\* The call that a result answers.
CallOf(ms, i) ==
  LET groups == {j \in DOMAIN ms : HasCalls(ms[j]) /\ ms[i].callID \in CallIDs(ms[j])}
      calls == ms[Max(groups)].calls
  IN calls[SelectInSeq(calls, LAMBDA c : c[1] = ms[i].callID)]

\* The positions of the current user turn's answered calls; an uncertain
\* recovery result is not evidence that its command ran.
TurnResults(ms) ==
  LET start == SelectLastInSeq(ms, LAMBDA m : m.role = "user")
  IN {i \in start+1..Len(ms) :
        /\ ms[i].role = "tool" /\ ms[i].body # "recovery"
        /\ \E j \in start+1..i-1 : HasCalls(ms[j]) /\ ms[i].callID \in CallIDs(ms[j])}

recentToolStreak_Bug(ms) == NoStreak

recentToolStreak(ms) ==
  LET results == TurnResults(ms)
      count(streak, i) == IF i \in results THEN observe(streak, CallOf(ms, i)) ELSE streak
  IN FoldLeftDomain(count, NoStreak, ms)

-----------------------------------------------------------------------------
(* Compaction: which messages may be touched and what becomes of them.     *)

Results(ms, g) == {i \in DOMAIN ms : i > g /\ ms[i].role = "tool" /\ ms[i].callID \in CallIDs(ms[g])}

collectToolCallGroups(ms) == {i \in DOMAIN ms : HasCalls(ms[i])}

Crossing(ms, g, start) ==
  g < start /\ (Cardinality(Results(ms, g)) # Len(ms[g].calls) \/ \E i \in Results(ms, g) : i >= start)

\* Indexes are one higher than in the code.  The loop of the code moves the
\* start back to every group that crosses it until none does: the latest
\* position that no group crosses.
ProtectedStart(ms) ==
  LET groups == collectToolCallGroups(ms)
      recent(start) == {g \in groups : g >= start}
      closed == {start \in groups : /\ Cardinality(recent(start)) >= KeepRecentToolCallGroups
                                    /\ \A g \in groups : ~Crossing(ms, g, start)}
  IN IF Cardinality(groups) < KeepRecentToolCallGroups THEN 1 ELSE Max(closed)

\* Large results of the groups before the protected region, not yet archived.
ArtifactCandidates(ms) ==
  {i \in UNION {Results(ms, g) : g \in {j \in DOMAIN ms : HasCalls(ms[j]) /\ j < ProtectedStart(ms)}} :
     ~ms[i].art /\ ms[i].body = "large"}

InputTokens(ms) == FoldLeft(LAMBDA n, m : n + m.size, 0, ms)

\* replaceContent: the shorter form of an archived output, of an assistant
\* message without its reasoning, or cut in the middle.
Shortened(m) == [m EXCEPT !.size = 1, !.body = IF @ = "large" THEN "cleared" ELSE "plain"]

\* The edits the strategies of the compactor offer: the archived outputs of
\* one group, then the reasoning, then the long text of one assistant message.
Edits(ms) ==
  LET protected == ProtectedStart(ms)
      open == {i \in DOMAIN ms : i < protected}
      ofBody(body) == {i \in open : IsAssistant(ms[i]) /\ ms[i].body = body}
  IN {[strategy |-> 1, at |-> g, msgs |-> {i \in Results(ms, g) : ms[i].art /\ ms[i].body = "large"}] :
        g \in collectToolCallGroups(ms) \cap open}
       \cup {[strategy |-> 2, at |-> i, msgs |-> {i}] : i \in ofBody("reasoned")}
       \cup {[strategy |-> 3, at |-> i, msgs |-> {i}] : i \in ofBody("long")}

Earlier(e, f) == e.strategy < f.strategy \/ (e.strategy = f.strategy /\ e.at < f.at)

\* SimpleCompactor.Compress: strategy by strategy, oldest first, an edit is
\* made as long as those before it have not saved enough; each message that
\* is shortened saves one token.
Compress(ms, minTokenSavings) ==
  LET edits == Edits(ms)
      saved(e) == Cardinality(UNION {f.msgs : f \in {x \in edits : Earlier(x, e)}})
      edited == UNION {e.msgs : e \in {x \in edits : saved(x) < minTokenSavings}}
  IN [i \in DOMAIN ms |-> IF i \in edited THEN Shortened(ms[i]) ELSE ms[i]]

\* The user message that stands for what is summarised; it takes the lowest
\* sequence number.
Summary(sources, size) ==
  [NewMessage("user", sources[1].seq) EXCEPT
     !.src = UNION {sources[i].src : i \in DOMAIN sources}, !.body = "summary", !.size = size]

\* MergeSummary: one message covers everything between the system message and
\* the protected region.
MergeSummary(ms, protected, size) ==
  <<ms[1], Summary(SubSeq(ms, 2, protected - 1), size)>> \o SubSeq(ms, protected, Len(ms))

\* contextTriggerPercent and contextTargetPercent of the usable input.
TriggerTokens == (MaxInput * 80) \div 100
TargetTokens == (MaxInput * 60) \div 100

\* compactLocally attaches an artifact to every large result, then trims.
compactLocally(ms) ==
  LET archived == [i \in DOMAIN ms |->
                     IF i \in ArtifactCandidates(ms) THEN [ms[i] EXCEPT !.art = TRUE] ELSE ms[i]]
  IN Compress(archived, InputTokens(ms) - TargetTokens)

\* The lengths of the summaries that may come back: the model is told the
\* limit and may ignore it, but is not asked without room for a summary.
generateContextSummary(maxTokens) == IF maxTokens <= 0 THEN {} ELSE 1..LongestSummary

\* compactWithSummary: everything before the protected region becomes one
\* message, a fixed prefix and a summary; a summary that is too long is
\* shortened once, with a limit stricter by the excess.
compactWithSummary(ms, protected) ==
  LET room == TargetTokens - InputTokens(MergeSummary(ms, protected, 1))
      first == generateContextSummary(room)
      again == UNION {generateContextSummary(room - (n - room)) : n \in {k \in first : k > room}}
  IN IF protected <= 2 THEN {}
     ELSE {MergeSummary(ms, protected, 1 + n) : n \in {k \in first \cup again : k <= room}}
=============================================================================
