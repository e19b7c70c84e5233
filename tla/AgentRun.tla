------------------------------- MODULE AgentRun -------------------------------
(***************************************************************************)
(* The ReAct agent on one session: a run loads the working set, closes an  *)
(* interrupted turn, appends the user's message and alternates model       *)
(* replies and tool results, compacting the working set when it grows.     *)
(* Every message is reserved and committed through the remote repository,  *)
(* whose answer may be lost and whose request may arrive after the run has *)
(* given up or died.  One run is alive at a time (ChatTasks); requests of  *)
(* earlier runs may still be on their way.                                 *)
(*                                                                         *)
(* Outside the model: wording, token prices, spans and the JSONL backup,   *)
(* which nothing reads.  The model provider is external: it replies with   *)
(* any message, or fails.                                                  *)
(***************************************************************************)
EXTENDS SessionStore

CONSTANTS
  Kinds,       \* "chat": a session of the catalogue; "child": a sub-agent's
  Replies,     \* the assistant messages considered: [fps, body, reason]
  OutputBodies,\* the bodies of tool results considered
  Prompts,     \* new chats started, at most
  MaxRuns,     \* chats and resumes started, at most
  MaxSeq,      \* largest message number used
  MaxFaults,   \* crashes, lost answers and late requests, at most
  MaxLate      \* late requests on their way at once, at most

ASSUME AgentRunAssumption ==
  /\ Kinds \subseteq {"chat", "child"}
  /\ Replies \subseteq [fps : Seq(Nat), body : {"plain", "reasoned", "long"},
                  reason : {"stop", "max_output_tokens", "none"}]
  /\ OutputBodies \subseteq {"plain", "large"}
  /\ Prompts \in Nat /\ MaxRuns \in Nat /\ MaxSeq \in Nat /\ MaxFaults \in Nat /\ MaxLate \in Nat

VARIABLES
  kind,       \* which sort of session this is
  run,        \* the run that is alive: its step and what it holds in memory
  late,       \* requests still on their way from runs that have ended
  artifacts,  \* numbers of the tool results kept in the artifact store
  wiped,      \* a deletion has failed after removing files of the session
  report,     \* the status the sub-agent's parent is told, "none" before
  runs,       \* runs started so far
  faults,     \* faults so far
  gone        \* the session has been deleted

vars == <<ctx, original, memory, reserved, files, kind, run, late, artifacts, wiped, report, runs, faults, gone>>

NoSession == [rev |-> 0, gen |-> 1, last |-> 0, msgs |-> <<>>]

\* chat: the chat the run belongs to; seq: the number reserved for the next
\* message; reason: how the model ended its last reply; err: how the run
\* failed; cand: the compacted messages to be stored; todo: the calls of the
\* current group without a result; cut: the group is interrupted; changed: a
\* tool has changed project files.
Idle ==
  [pc |-> "idle", resume |-> FALSE, sess |-> NoSession, chat |-> 0, seq |-> 0,
   reason |-> "none", err |-> "none", cand |-> <<>>, todo |-> <<>>, streak |-> NoStreak, cut |-> FALSE, changed |-> FALSE]

Init ==
  /\ kind \in Kinds
  /\ StoreInit(kind = "chat")
  /\ run = Idle
  /\ late = {}
  /\ artifacts = {}
  /\ wiped = FALSE
  /\ report = "none"
  /\ runs = 0 /\ faults = 0 /\ gone = FALSE

At(pc) == run.pc = pc
Ending(why) == [run EXCEPT !.pc = "finish", !.cand = <<>>, !.err = why]

-----------------------------------------------------------------------------
(* Remote calls.                                                           *)

\* Remote.call for a write, answered or not: the transaction is applied or
\* refused and the run learns which; or the answer is lost (ErrWriteUncertain)
\* after the transaction or with the request still on its way, and the run
\* fails, or has itself died.  A refusal and a lost answer end the run, which
\* remembers what the model and the tool did before the write.
Failing(next) == [Ending("failed") EXCEPT !.reason = next.reason, !.changed = next.changed]

Send(r, next) ==
  /\ \/ /\ RequestAllowed(r) /\ ApplyRequest(r)
        /\ run' = next
        /\ UNCHANGED <<late, faults>>
     \/ /\ ~RequestAllowed(r)
        /\ run' = Failing(next)
        /\ UNCHANGED <<storeVars, late, faults>>
     \/ /\ faults < MaxFaults
        /\ faults' = faults + 1
        /\ run' \in {Failing(next), Idle}
        /\ \/ RequestAllowed(r) /\ ApplyRequest(r) /\ UNCHANGED late
           \/ Cardinality(late) < MaxLate /\ late' = late \cup {r} /\ UNCHANGED storeVars
  /\ UNCHANGED <<kind, runs, gone>>

\* A request overtaken by the end of its run reaches the host, or never does.
DeliverLate(r) ==
  /\ r \in late
  /\ late' = late \ {r}
  /\ IF RequestAllowed(r) THEN ApplyRequest(r) ELSE UNCHANGED storeVars
  /\ UNCHANGED <<kind, run, artifacts, wiped, report, runs, faults, gone>>

Request(op, s) == [op |-> op, snap |-> s]

\* commitCreatedMessage and its siblings: the candidate becomes the session
\* with the revision the host answered.
Committed(cand) == [cand EXCEPT !.rev = run.sess.rev + 1]

Reserving == kind = "chat"

\* WithAppendedMessage: the candidate with one more message.
Candidate(m) == [run.sess EXCEPT !.msgs = Append(@, m), !.last = m.seq]

\* The number of the next message: reserved beforehand, or the next one.
NextSeq == IF Reserving THEN run.seq ELSE run.sess.last + 1

NeedsNumber == Reserving /\ run.seq = 0

Steps == {"recover", "user", "reply", "tools"}

Reserve ==
  /\ run.pc \in Steps /\ NeedsNumber
  /\ At("recover") => needsRecovery(run.sess.msgs) /\ missingToolResults(run.sess.msgs) # {}
  /\ Max({reserved, ctx.last}) < MaxSeq
  /\ Send(Request("reserve", NoSession), [run EXCEPT !.seq = Max({reserved, ctx.last}) + 1])
  /\ UNCHANGED <<artifacts, wiped, report>>

Append_(m, next) ==
  LET cand == Candidate(m)
  IN Send(Request("create", cand), [next EXCEPT !.sess = Committed(cand), !.seq = 0])

-----------------------------------------------------------------------------
(* Starting a run.                                                         *)

\* The chat and resume handlers: only a session of the catalogue is chatted in.
StartRun(resume) ==
  /\ kind = "chat" /\ ctx.exists
  /\ At("idle") /\ ~gone /\ runs < MaxRuns
  /\ ~resume => Cardinality({i \in DOMAIN original : original[i].role = "user"}) < Prompts
  /\ runs' = runs + 1
  /\ run' = [Idle EXCEPT !.pc = "load", !.resume = resume]
  /\ UNCHANGED <<storeVars, kind, late, artifacts, wiped, report, faults, gone>>

\* SubAgent.Execute: a child session is new and has exactly one run.
Execute ==
  /\ kind = "child" /\ runs = 0
  /\ runs' = 1
  /\ run' = [Idle EXCEPT !.pc = "load"]
  /\ UNCHANGED <<storeVars, kind, late, artifacts, wiped, report, faults, gone>>

\* latestChatID: a resumed run continues the chat of the last user message.
ChatOf(msgs) ==
  LET at == SelectLastInSeq(msgs, LAMBDA m : m.role = "user")
  IN IF run.resume /\ at # 0 /\ msgs[at].chat # 0 THEN msgs[at].chat ELSE runs

InitSession ==
  /\ At("load")
  /\ run' = IF Validate(GetRequestContext)
            THEN [run EXCEPT !.pc = "sys", !.sess = GetRequestContext]
            ELSE Ending("failed")
  /\ UNCHANGED <<storeVars, kind, late, artifacts, wiped, report, runs, faults, gone>>

\* UpsertSysMessage: the first message, or its replacement.  The prompt is
\* rendered anew for every run.
InitSysPrompt ==
  /\ At("sys")
  /\ LET first == run.sess.msgs = <<>>
         sys == [NewMessage("system", 1) EXCEPT !.chat = runs]
         cand == IF first THEN Candidate(sys) ELSE [run.sess EXCEPT !.msgs[1] = sys]
     IN Send(Request(IF first THEN "create" ELSE "update", cand),
             [run EXCEPT !.pc = "recover", !.sess = Committed(cand), !.chat = ChatOf(run.sess.msgs)])
  /\ UNCHANGED <<artifacts, wiped, report>>

\* recoverBeforeChat: a missing result is replaced by a note that the call may
\* or may not have run.
RecoverResult ==
  /\ At("recover") /\ needsRecovery(run.sess.msgs) /\ ~NeedsNumber
  /\ missingToolResults(run.sess.msgs) # {}
  /\ LET ms == run.sess.msgs
         call == ms[latestGroup(ms)].calls[Min(missingToolResults(ms))]
     IN Append_([NewMessage("tool", NextSeq) EXCEPT !.callID = call[1], !.body = "recovery"], run)
  /\ UNCHANGED <<artifacts, wiped, report>>

\* Nothing (more) to recover: Resume refuses a finished conversation.
Recovered ==
  /\ At("recover")
  /\ needsRecovery(run.sess.msgs) => missingToolResults(run.sess.msgs) = {}
  /\ run' = CASE ~run.resume -> [run EXCEPT !.pc = "user"]
              [] run.resume /\ needsRecovery(run.sess.msgs) ->
                   [run EXCEPT !.pc = "prepare", !.streak = recentToolStreak(run.sess.msgs)]
              [] OTHER -> Ending("failed")
  /\ UNCHANGED <<storeVars, kind, late, artifacts, wiped, report, runs, faults, gone>>

AppendUser ==
  /\ At("user") /\ ~NeedsNumber /\ run.sess.last < MaxSeq
  /\ LET m == [NewMessage("user", NextSeq) EXCEPT !.chat = run.chat]
     IN Append_(m, [run EXCEPT !.pc = "prepare", !.streak = recentToolStreak(Append(run.sess.msgs, m))])
  /\ UNCHANGED <<artifacts, wiped, report>>

-----------------------------------------------------------------------------
(* Compaction before each request to the model.                            *)

PrepareContext_Bug ==
  /\ At("prepare")
  /\ LET ms == run.sess.msgs
     IN run' = IF InputTokens(ms) < TriggerTokens THEN [run EXCEPT !.pc = "reply"]
               ELSE [run EXCEPT !.pc = "advance", !.cand = compactLocally(ms)]
  /\ UNCHANGED <<storeVars, kind, late, artifacts, wiped, report, runs, faults, gone>>

\* compactContext up to its commit.  Below the trigger nothing happens; from
\* there on the candidate must come down to the target, by local trimming or,
\* where that is not enough, with a summary.  The large outputs are archived
\* first, one by one; a failing artifact store leaves those before it behind,
\* and a failing count or summary all of them, and the run ends.
PrepareContext ==
  /\ At("prepare")
  /\ LET ms == run.sess.msgs
         local == compactLocally(ms)
         cands == IF InputTokens(local) <= TargetTokens THEN {local}
                  ELSE compactWithSummary(local, ProtectedStart(ms))
         archive(n) == artifacts' = artifacts \cup {ms[i].seq : i \in ArtifactCandidates(ms) \cap 1..n}
     IN IF InputTokens(ms) < TriggerTokens
        THEN run' = [run EXCEPT !.pc = "reply"] /\ UNCHANGED artifacts
        ELSE \/ /\ archive(Len(ms))
                /\ \E msgs \in cands : run' = [run EXCEPT !.pc = "advance", !.cand = msgs]
             \/ /\ \E n \in 0..Len(ms) : archive(n)
                /\ run' = Ending("failed")
  /\ UNCHANGED <<storeVars, kind, late, wiped, report, runs, faults, gone>>

AdvanceGeneration ==
  /\ At("advance")
  /\ LET cand == [run.sess EXCEPT !.msgs = run.cand, !.gen = @ + 1]
     IN Send(Request("generation", cand),
             [run EXCEPT !.pc = "reply", !.sess = Committed(cand), !.cand = <<>>])
  /\ UNCHANGED <<artifacts, wiped, report>>

-----------------------------------------------------------------------------
(* The loop.                                                               *)

\* A reply counts as finished (CanResume) also without a finish reason.
Finishes(reason) == reason \in {"stop", "none"}

\* GenerateStream returned a message: it is committed before any of its calls
\* runs; without calls the run is over.
CommitReply ==
  /\ At("reply") /\ ~NeedsNumber /\ NextSeq <= MaxSeq
  /\ \E r \in Replies :
       LET m == [NewMessage("assistant", NextSeq) EXCEPT
                   !.calls = [i \in DOMAIN r.fps |-> <<<<NextSeq, i>>, r.fps[i]>>],
                   !.body = r.body, !.size = IF r.body = "plain" THEN 1 ELSE 2,
                   !.stop = Finishes(r.reason), !.chat = run.chat]
       IN Append_(m, [run EXCEPT !.pc = IF r.fps = <<>> THEN "finish" ELSE "tools",
                                 !.reason = r.reason,
                                 !.todo = m.calls, !.cut = FALSE])
  /\ UNCHANGED <<artifacts, wiped, report>>

\* One call of the group: rejected when the group is already interrupted or
\* when it is the third identical call in a row, executed otherwise; its
\* result is committed before the next call.
ToolCall ==
  /\ At("tools") /\ ~NeedsNumber /\ NextSeq <= MaxSeq
  /\ LET call == Head(run.todo)
         streak == IF run.cut THEN run.streak ELSE observe(run.streak, call)
         rejected == run.cut \/ streak.n >= 3
         rest == Tail(run.todo)
         next == [run EXCEPT !.todo = rest, !.streak = streak, !.cut = rejected,
                             !.changed = @ \/ ~rejected,
                             !.pc = CASE rest # <<>> -> "tools" [] rest = <<>> /\ rejected -> "finish" [] OTHER -> "prepare",
                             !.err = IF rest = <<>> /\ rejected THEN "failed" ELSE "none"]
     IN \E body \in IF rejected THEN {"rejected"} ELSE OutputBodies :
          Append_([NewMessage("tool", NextSeq) EXCEPT !.callID = call[1], !.body = body,
                                                     !.size = IF body = "large" THEN 2 ELSE 1], next)
  /\ UNCHANGED <<artifacts, wiped, report>>

\* The run fails before its next write: the user stops it, the model provider
\* or the storage is unavailable.  A tool may have run by then.
Fail ==
  /\ run.pc \notin {"idle", "finish"}
  /\ \E ran \in BOOLEAN, why \in IF kind = "child" THEN {"failed", "cancelled"} ELSE {"failed"} :
       /\ ran => At("tools") /\ ~run.cut
       /\ run' = [Ending(why) EXCEPT !.changed = @ \/ ran]
  /\ UNCHANGED <<storeVars, kind, late, artifacts, wiped, report, runs, faults, gone>>

\* The process dies; nothing it holds in memory survives.
Crash ==
  /\ ~At("idle") /\ faults < MaxFaults
  /\ faults' = faults + 1
  /\ run' = Idle
  /\ UNCHANGED <<storeVars, kind, late, artifacts, wiped, report, runs, gone>>

-----------------------------------------------------------------------------
(* The end of a run and of a session.                                      *)

\* runWithFileTracking: the files that the run changed are recorded for its
\* chat, if the chat's user message is found in the session held in memory.  A
\* failing scan or write is reported as the run's error.
Tracked == \E i \in DOMAIN run.sess.msgs :
             run.sess.msgs[i].role = "user" /\ run.sess.msgs[i].chat = run.chat

\* Two scans of the project's files differ in a path, a size or a time.
FilesChanged == run.changed

FinishRun ==
  /\ kind = "chat" /\ At("finish")
  /\ run' = Idle
  /\ \/ FilesChanged /\ Tracked /\ ChatIsStored(run.chat) /\ UpsertChatFiles(run.chat)
     \/ UNCHANGED storeVars   \* nothing changed or no message found, or the failure is reported
  /\ UNCHANGED <<kind, late, artifacts, wiped, report, runs, faults, gone>>

classifySubAgentRun_Bug == IF run.reason = "stop" THEN "complete" ELSE "partial"

\* The model's last finish reason decides only where the run did not fail.
classifySubAgentRun ==
  CASE run.err # "none" -> run.err
    [] run.err = "none" /\ run.reason = "stop" -> "complete"
    [] OTHER -> "partial"

\* The parent gets a report, or an error when the session or its prompt could
\* not be set up (the chat has not begun).
FinishSubAgent ==
  /\ kind = "child" /\ At("finish")
  /\ run' = Idle
  /\ report' = IF run.chat = 0 THEN "error" ELSE classifySubAgentRun
  /\ UNCHANGED <<storeVars, kind, late, artifacts, wiped, runs, faults, gone>>

\* DeleteSession is refused while a task of the session is active.  The
\* session's directory, with its artifacts, goes before the transaction ends.
Delete ==
  /\ kind = "chat" /\ At("idle") /\ ctx.exists /\ ~gone
  /\ DeleteSession
  /\ gone' = TRUE /\ artifacts' = {}
  /\ UNCHANGED <<kind, run, late, wiped, report, runs, faults>>

\* The directory cannot be removed, or the commit fails: the rows stay, to be
\* deleted again, but some of the files are gone.
DeleteFails ==
  /\ kind = "chat" /\ At("idle") /\ ctx.exists /\ ~gone
  /\ faults < MaxFaults /\ faults' = faults + 1
  /\ \E rest \in SUBSET artifacts : rest # artifacts /\ artifacts' = rest
  /\ wiped' = TRUE
  /\ UNCHANGED <<storeVars, kind, run, late, report, runs, gone>>

Next ==
  \/ \E resume \in BOOLEAN : StartRun(resume)
  \/ Execute \/ InitSession \/ InitSysPrompt \/ Reserve \/ RecoverResult \/ Recovered \/ AppendUser
  \/ PrepareContext \/ AdvanceGeneration \/ CommitReply \/ ToolCall
  \/ Fail \/ Crash \/ FinishRun \/ FinishSubAgent \/ Delete \/ DeleteFails
  \/ \E r \in late : DeliverLate(r)

Spec == Init /\ [][Next]_vars

-----------------------------------------------------------------------------
(* Properties.                                                             *)

CallNumbers == Nat \X Nat
Messages ==
  [seq : Nat, src : SUBSET Nat, role : Roles, calls : Seq(CallNumbers \X Nat), callID : CallNumbers,
   body : {"plain", "reasoned", "long", "large", "cleared", "recovery", "rejected", "summary"},
   size : Nat, chat : Nat, stop : BOOLEAN, art : BOOLEAN]
Sessions == [rev : Nat, gen : Nat, last : Nat, msgs : Seq(Messages)]

Requested == [op : {"reserve", "create", "update", "generation"}, snap : Sessions]

RunTyped(w) ==
  /\ DOMAIN w = DOMAIN Idle
  /\ w.pc \in {"idle", "load", "sys", "recover", "user", "prepare", "advance", "reply", "tools", "finish"}
  /\ w.sess \in Sessions /\ w.cand \in Seq(Messages) /\ w.todo \in Seq(CallNumbers \X Nat)
  /\ w.seq \in Nat /\ w.chat \in Nat /\ w.err \in {"none", "failed", "cancelled"}

\* The rows, the requests under way and what the run holds have their types;
\* the head row names the latest stored generation.
TypeOK ==
  /\ ctx \in [exists : BOOLEAN, rev : Nat, gen : Nat, last : Nat]
  /\ original \in Seq(Messages) /\ memory \in Seq(Seq(Messages)) /\ reserved \in Nat
  /\ memory # <<>> /\ ctx.gen = Len(memory)
  /\ kind \in {"chat", "child"} /\ runs \in Nat /\ gone \in BOOLEAN /\ wiped \in BOOLEAN
  /\ late \subseteq Requested
  /\ RunTyped(run)

\* Whatever runs died, timed out or wrote late, the stored context passes the
\* validation that loading it makes (GetRequestContext, Restore): a context
\* that does not would shut the session for good.
Loadable == Validate(GetRequestContext)

\* The original messages that a working set accounts for.
Sources(ms) == UNION {ms[i].src : i \in DOMAIN ms}

\* Compaction loses nothing without trace: the working set that is current
\* accounts, through OriginalSeq, for exactly the messages of the history.
\* (Late requests may rebuild a deleted session from messages of different
\* revisions; nothing is claimed of what they leave.)
NothingForgotten ==
  ~gone => Sources(memory[ctx.gen]) = {original[i].seq : i \in DOMAIN original}

\* The optimistic lock is sound: a run whose revision is still the stored one
\* holds exactly the stored context, so its next write cannot bury a message
\* that a late request has inserted.
RevisionMeansContent ==
  run.pc \notin {"idle", "load"} /\ ctx.exists /\ run.sess.rev = ctx.rev
    => run.sess = GetRequestContext

\* Every call group is followed at once by one result for each call, in order,
\* and every result belongs to such a group.
Paired(ms) ==
  /\ \A i \in DOMAIN ms : HasCalls(ms[i]) =>
       \A k \in DOMAIN ms[i].calls :
         i + k <= Len(ms) /\ ms[i+k].role = "tool" /\ ms[i+k].callID = ms[i].calls[k][1]
  /\ \A i \in DOMAIN ms : ms[i].role = "tool" =>
       \E g \in 1..i-1 : HasCalls(ms[g]) /\ i - g \in DOMAIN ms[g].calls

\* The model is only ever asked with complete call groups (the provider
\* refuses others): interrupted groups are closed first, whoever interrupted
\* them, and neither trimming nor a summary splits a group.
RequestIsPaired == At("reply") => Paired(run.sess.msgs)

\* The group that a result answers a call of.
GroupOf(ms, i) == Max({g \in DOMAIN ms : g < i /\ HasCalls(ms[g]) /\ ms[i].callID \in CallIDs(ms[g])})

\* A call that is executed a third time in a row within the user's turn, the
\* first of the three in the group of the third or in one of the
\* KeepRecentToolCallGroups before it.
Looping(ms) ==
  \E i, j, k \in TurnResults(ms) :
    /\ i < j /\ j < k /\ \A x \in TurnResults(ms) : x <= i \/ x = j \/ x >= k
    /\ \A x \in {i, j} : CallOf(ms, x)[2] = CallOf(ms, k)[2]
    /\ ms[k].body # "rejected"
    /\ Cardinality({g \in collectToolCallGroups(ms) : GroupOf(ms, i) <= g /\ g < GroupOf(ms, k)})
         <= KeepRecentToolCallGroups

\* In the history, with all that summaries have removed from the working set,
\* no call is executed a third time in a row within a user's turn, whatever
\* resumes and compactions there were in between.  The agent counts as far back
\* as the call groups that every compaction keeps.  (Results of a recovery stand
\* for calls that may not have run, and are skipped.)
LoopIsBroken == ~gone => ~Looping(original)

\* A tool output is only cleared from a working set once its text is in the
\* artifact store, where the placeholder says it can be read, and stays there
\* until somebody deletes the session.
ClearedIsArchived ==
  ~gone /\ ~wiped =>
    \A g \in DOMAIN memory : \A i \in DOMAIN memory[g] :
      memory[g][i].body = "cleared" => memory[g][i].seq \in artifacts

\* No step rewrites the past: originals are only appended to, and a sealed
\* generation of the working set stays as it was (until the session is deleted).
PastIsImmutable ==
  [][gone' = gone =>
       /\ IsPrefix(original, original')
       /\ \A g \in 1..Len(memory)-1 : memory'[g] = memory[g]]_vars

\* A parent that is told "complete" can rely on a final answer that is stored:
\* not on a reply whose commit failed or on a turn cut short.
CompleteIsAnswered ==
  report = "complete" =>
    /\ original # <<>> /\ IsAssistant(Last(original))
    /\ Last(original).calls = <<>> /\ Last(original).stop

-----------------------------------------------------------------------------
(* The stored history implements the abstract conversation.                *)

ConversationOf(ms) ==
  [i \in DOMAIN ms |->
     [role |-> ms[i].role,
      calls |-> [k \in DOMAIN ms[i].calls |-> ms[i].calls[k][1]],
      answers |-> IF ms[i].role = "tool" THEN ms[i].callID ELSE <<>>]]

Abstract == INSTANCE Conversation WITH
  CallGroups <- {[i \in DOMAIN r.fps |-> <<n, i>>] : r \in Replies, n \in 1..MaxSeq},
  log <- IF gone THEN <<>> ELSE ConversationOf(original),
  gone <- gone

\* The history of a session is a conversation, whatever happens to its runs.
ImplementsConversation == Abstract!Spec
=============================================================================
