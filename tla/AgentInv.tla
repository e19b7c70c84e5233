------------------------------- MODULE AgentInv -------------------------------
(***************************************************************************)
(* The inductive invariant behind the properties of AgentRun that concern  *)
(* the store: what a working set looks like wherever it is (stored, held   *)
(* by the run, on its way in a late request), and what a revision number   *)
(* says about it.                                                          *)
(***************************************************************************)
EXTENDS AgentRun

\* A working set that ends at number last: the system prompt first, numbers
\* rising, every message standing for originals from its own number on.
Working(ms, last) ==
  /\ ms \in Seq(Messages)
  /\ ms = <<>> => last = 0
  /\ ms # <<>> => ms[1].seq = 1 /\ ms[1].src = {1} /\ ms[Len(ms)].seq = last
  /\ \A i \in DOMAIN ms :
       /\ (i = 1) <=> (ms[i].role = "system")
       /\ ms[i].seq \in ms[i].src
       /\ \A s \in ms[i].src : ms[i].seq <= s /\ s <= last
  /\ \A i, j \in DOMAIN ms : i < j => ms[i].seq < ms[j].seq

\* A result whose text is in the artifact store, until somebody deletes the session
Stored(seq) == gone \/ wiped \/ seq \in artifacts

\* Outputs that are cleared, or say that they are archived, are archived.
Archived(ms) == \A i \in DOMAIN ms : ms[i].body = "cleared" \/ ms[i].art => Stored(ms[i].seq)

Snapshot(s) == s.gen # 0 /\ Working(s.msgs, s.last) /\ Archived(s.msgs)

\* The rows: the head describes the generation that is current, and revision
\* 0 is that of a session without messages.
Rows ==
  /\ Working(memory[ctx.gen], ctx.last)
  /\ \A g \in DOMAIN memory : Archived(memory[g])
  /\ ctx.rev = 0 => ctx.gen = 1 /\ original = <<>>
  /\ ctx.rev = 0 <=> memory[ctx.gen] = <<>>
  /\ ~ctx.exists => ctx.rev = 0

\* What a writer may ask for.  Only the first message is written at revision 0.
Sound(r) ==
  /\ Snapshot(r.snap)
  /\ r.op # "reserve" => r.snap.msgs # <<>>
  /\ r.op = "create" => (r.snap.rev = 0 <=> Len(r.snap.msgs) = 1)

\* No request is ahead of the head, and a new generation computed from the
\* revision that is current accounts for all of its messages.
Timely(r) ==
  ~gone => /\ r.snap.rev <= ctx.rev
           /\ r.op = "generation" /\ r.snap.rev = ctx.rev => Sources(r.snap.msgs) = Sources(memory[ctx.gen])

Requests == \A r \in late : Sound(r) /\ Timely(r)

\* The session a run holds, the number reserved for its next message and the
\* compacted messages it is about to store.
HeldBy(w) ==
  /\ Snapshot(w.sess)
  /\ w.sess.rev = 0 <=> w.sess.msgs = <<>>
  /\ w.seq # 0 => w.seq > w.sess.last /\ w.pc \notin {"load", "sys"}
  /\ w.pc \in {"recover", "user", "prepare", "advance", "reply", "tools"} => w.sess.msgs # <<>>
  /\ w.pc = "tools" => w.todo # <<>>
  /\ w.pc = "advance" =>
       /\ w.cand # <<>> /\ Working(w.cand, w.sess.last) /\ Archived(w.cand)
       /\ Sources(w.cand) = Sources(w.sess.msgs)

\* A session is never ahead of the head; at the same revision it is the stored one.
Behind(s) ==
  /\ s.rev <= ctx.rev /\ s.last <= ctx.last
  /\ s.rev = ctx.rev => s = GetRequestContext

InStep ==
  /\ gone => run.pc = "idle"
  /\ ~gone => Behind(run.sess)

\* A sub-agent's session: while its only run goes on, no request of it is late,
\* and a run that ends in order has stored its last reply.
Answered ==
  /\ original # <<>> /\ IsAssistant(Last(original))
  /\ Last(original).calls = <<>> /\ Last(original).stop

Child ==
  /\ kind = "chat" => report = "none"
  /\ run.pc # "finish" => run.err = "none"
  /\ kind = "child" =>
       /\ ~gone
       /\ runs = 0 => run.pc = "idle" /\ late = {} /\ report = "none"
       /\ report # "none" => run.pc = "idle" /\ runs # 0
       /\ late # {} => report # "complete" /\ (run.pc = "idle" \/ (run.pc = "finish" /\ run.err # "none"))
       /\ run.pc = "finish" /\ run.err = "none" /\ run.reason = "stop" => Answered
       /\ report = "complete" => Answered

\* The inductive invariant: rows, requests under way and the run agree.
IInv == TypeOK /\ Rows /\ Requests /\ HeldBy(run) /\ InStep /\ NothingForgotten /\ Child
-----------------------------------------------------------------------------
(* What RequestIsPaired and the refinement of Conversation need besides:   *)
(* how calls and results follow each other, and that the history and the   *)
(* working sets, however compacted, stand at the same point of the talk.   *)

\* A call group with results still to come
OpenAt(ms, g) == HasCalls(ms[g]) /\ g + Len(ms[g].calls) > Len(ms)

Closed(ms) == \A g \in DOMAIN ms : ~OpenAt(ms, g)

\* As far as the messages go, each call group is followed by its results in
\* order, every result belongs to a group, and an assistant answers a user.
Dialogue(ms) ==
  /\ \A i \in DOMAIN ms : HasCalls(ms[i]) =>
       \A k \in DOMAIN ms[i].calls :
         /\ ms[i].calls[k][1] = <<ms[i].seq, k>>
         /\ i + k <= Len(ms) => ms[i+k].role = "tool" /\ ms[i+k].callID = ms[i].calls[k][1]
  /\ \A i \in DOMAIN ms : ms[i].role = "tool" =>
       \E g \in 1..i-1 : HasCalls(ms[g]) /\ i - g \in DOMAIN ms[g].calls
  /\ (\E i \in DOMAIN ms : IsAssistant(ms[i])) => hasUserMessage(ms)

\* The calls of a reply, numbered after its message
Numbered(fps, k) == [i \in DOMAIN fps |-> <<<<k, i>>, fps[i]>>]

\* A message that may follow the messages ms
Continues(ms, m) ==
  /\ m.calls # <<>> => IsAssistant(m)
  /\ \/ m.role = "system" /\ ms = <<>>
     \/ m.role = "user" /\ ms # <<>> /\ Closed(ms)
     \/ /\ IsAssistant(m) /\ hasUserMessage(ms) /\ Closed(ms)
        /\ m.seq \in 1..MaxSeq /\ \E r \in Replies : m.calls = Numbered(r.fps, m.seq)
     \/ /\ m.role = "tool"
        /\ \E g \in DOMAIN ms : OpenAt(ms, g) /\ m.callID = ms[g].calls[Len(ms) - g + 1][1]

\* The same group, with as many results
Matches(os, h, ms, g) == os[h].calls = ms[g].calls /\ Len(os) - h = Len(ms) - g

SamePoint(os, ms) ==
  /\ os = <<>> <=> ms = <<>>
  /\ hasUserMessage(os) <=> hasUserMessage(ms)
  /\ \A g \in DOMAIN ms : OpenAt(ms, g) => \E h \in DOMAIN os : OpenAt(os, h) /\ Matches(os, h, ms, g)
  /\ \A h \in DOMAIN os : OpenAt(os, h) => \E g \in DOMAIN ms : OpenAt(ms, g) /\ Matches(os, h, ms, g)

Finished(ms) == Dialogue(ms) /\ Closed(ms) /\ hasUserMessage(ms)

\* A request computed from the revision that is current continues what is stored.
Fitting(r) ==
  r.snap.rev = ctx.rev =>
    /\ r.op = "create" => Continues(memory[ctx.gen], Last(r.snap.msgs))
    /\ r.op = "generation" => Finished(r.snap.msgs) /\ Finished(memory[ctx.gen])

\* A history and the working set made from it
Chronicle(os, ms) ==
  /\ Dialogue(os) /\ Dialogue(ms) /\ SamePoint(os, ms)
  /\ \A i \in DOMAIN os : os[i].calls # <<>> => IsAssistant(os[i])

\* What is stored and on its way, until the session is deleted
Told == Chronicle(original, memory[ctx.gen]) /\ \A r \in late : Fitting(r)

\* What a run holds: at "tools", todo is the rest of the open group; wherever
\* the model or the user is next, no group is open.
Awaits(ms, todo) ==
  \E g \in DOMAIN ms :
    /\ HasCalls(ms[g]) /\ Len(ms) - g + Len(todo) = Len(ms[g].calls)
    /\ \A k \in DOMAIN todo : todo[k] = ms[g].calls[Len(ms) - g + k]

Heard(w) ==
  /\ Dialogue(w.sess.msgs)
  /\ w.pc = "user" => Closed(w.sess.msgs)
  /\ w.pc \in {"prepare", "advance", "reply"} => Finished(w.sess.msgs)
  /\ w.pc = "advance" => Finished(w.cand)
  /\ w.pc = "tools" => Awaits(w.sess.msgs, w.todo) /\ hasUserMessage(w.sess.msgs)

TInv == (gone \/ Told) /\ Heard(run)
-----------------------------------------------------------------------------
(* What LoopIsBroken needs besides.                                        *)

\* Three results of a turn in a row for one call, the last one executed.
Repeats(ms) ==
  \E i, j, k \in TurnResults(ms) :
    /\ i < j /\ j < k /\ \A x \in TurnResults(ms) : x <= i \/ x = j \/ x >= k
    /\ \A x \in {i, j} : CallOf(ms, x)[2] = CallOf(ms, k)[2]
    /\ ms[k].body # "rejected"

Fingerprints(ms) == [i \in DOMAIN ms |-> CallOf(ms, i)[2]]

\* The streak knows the latest of the results R with the fingerprints f, and
\* the two latest if they are of the same call.
Follows(R, f, streak) ==
  /\ streak.n \in Nat
  /\ \A j \in R : (\A x \in R : x <= j) => streak.n >= 1 /\ streak.fp = f[j]
  /\ \A i, j \in R : i < j /\ (\A x \in R : x <= i \/ x = j) /\ f[i] = f[j] => streak.n >= 2

Tracks(ms, streak) == Follows(TurnResults(ms), Fingerprints(ms), streak)

\* A request computed from the revision that is current repeats nothing.
Harmless(r) ==
  r.snap.rev = ctx.rev =>
    /\ r.op = "create" => ~Repeats(Append(memory[ctx.gen], Last(r.snap.msgs)))
    /\ r.op = "generation" => ~Repeats(r.snap.msgs)

\* What a run holds; after an interrupted group its streak does not matter.
Watched(w) ==
  /\ ~Repeats(w.sess.msgs)
  /\ w.pc = "advance" => ~Repeats(w.cand) /\ Tracks(w.cand, w.streak)
  /\ w.pc \in {"prepare", "advance", "reply"} \/ (w.pc = "tools" /\ ~w.cut) => Tracks(w.sess.msgs, w.streak)

LInv ==
  /\ gone \/ (~Repeats(memory[ctx.gen]) /\ \A r \in late : Harmless(r))
  /\ Watched(run)
-----------------------------------------------------------------------------
(* The same of the history, of which a working set is the latest part.     *)

\* A message that was edited in place: number and role are kept, and the calls
\* of whatever is not the prompt; of the results only large ones change.
Echoes(a, m) ==
  /\ a.seq = m.seq /\ a.src = m.src /\ a.role = m.role
  /\ m.role # "system" => a.calls = m.calls /\ a.callID = m.callID
  /\ m.role = "tool" => (a.body = "recovery" <=> m.body = "recovery") /\ (m.body = "rejected" => a.body = "rejected")

\* The numbers of the messages rise.
Rising(ms) == \A i, j \in DOMAIN ms : i < j => ms[i].seq < ms[j].seq

\* From p on, as is ms from p + k on, however trimmed; before, there are no
\* assistants and no results.
Shifts(as, ms, k, p) ==
  /\ Len(as) + k = Len(ms)
  /\ \A i \in p..Len(as) : Echoes(as[i], ms[i + k])
  /\ \A i \in DOMAIN as : i < p => as[i].role \in {"system", "user"}

\* The call groups from a position on that have all their results
Complete(ms, from) == {g \in collectToolCallGroups(ms) : g >= from /\ ~OpenAt(ms, g)}

\* The working set ms is the history os or a part of it that goes to the end
\* and has the call groups which every compaction keeps.
Recounts(ms, os) ==
  \E d \in 0..Len(os), p \in 1..Len(ms)+1 :
    /\ Shifts(ms, os, d, p)
    /\ p + d = 1 \/ Cardinality(Complete(os, p + d)) >= KeepRecentToolCallGroups

Retold(os, ms) == Rising(os) /\ Recounts(ms, os) /\ ~Looping(os)

\* A new generation computed from the revision that is current, on its way or
\* about to be sent, is such a part of the history.
Recounted(op, rev, ms) == op = "generation" /\ rev = ctx.rev => Recounts(ms, original)

OInv ==
  gone \/ /\ Retold(original, memory[ctx.gen])
          /\ \A r \in late : Recounted(r.op, r.snap.rev, r.snap.msgs)
          /\ run.pc = "advance" => Recounted("generation", run.sess.rev, run.cand)
=============================================================================
