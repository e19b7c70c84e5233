----------------------------- MODULE Conversation -----------------------------
(***************************************************************************)
(* What a session promises its readers and the model provider, whatever    *)
(* happens to the runs that write it: one growing log that starts with the *)
(* system prompt, in which every tool call of the assistant is answered    *)
(* exactly once and in order before anything else is said.  A deleted      *)
(* conversation is over; rows that a late request of a dead run writes     *)
(* under its name are no part of it.                                       *)
(***************************************************************************)
EXTENDS Naturals, Sequences

CONSTANT CallGroups  \* the call groups an assistant may ask for: sequences of call identifiers

VARIABLES
  log,   \* entries [role, calls, answers]
  gone   \* the conversation has been deleted

Entry(role, calls, answers) == [role |-> role, calls |-> calls, answers |-> answers]

Init == log = <<>> /\ gone = FALSE

\* The calls of the latest group that have no answer yet: answers follow the
\* group directly, one for each call.
Open ==
  LET groups == {i \in DOMAIN log : log[i].calls # <<>>}
      at == CHOOSE i \in groups : \A j \in groups : j <= i
  IN IF groups = {} THEN <<>>
     ELSE SubSeq(log[at].calls, Len(log) - at + 1, Len(log[at].calls))

Say(e) == log' = Append(log, e) /\ UNCHANGED gone

System == log = <<>> /\ ~gone /\ Say(Entry("system", <<>>, <<>>))

User == log # <<>> /\ Open = <<>> /\ ~gone /\ Say(Entry("user", <<>>, <<>>))

Assistant(calls) ==
  /\ \E i \in DOMAIN log : log[i].role = "user"
  /\ Open = <<>> /\ ~gone
  /\ Say(Entry("assistant", calls, <<>>))

Tool == Open # <<>> /\ ~gone /\ Say(Entry("tool", <<>>, Head(Open)))

Delete == ~gone /\ log' = <<>> /\ gone' = TRUE

Next == System \/ User \/ Tool \/ Delete \/ \E calls \in CallGroups : Assistant(calls)

Spec == Init /\ [][Next]_<<log, gone>>
=============================================================================
