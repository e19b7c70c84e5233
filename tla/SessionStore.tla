----------------------------- MODULE SessionStore -----------------------------
(***************************************************************************)
(* One session's rows in the host database and the transactions on them:   *)
(* the context head, the immutable original messages, every generation of  *)
(* the working set, the reserved sequence number and the changed files of  *)
(* each chat.  A transaction is one action: SQLite runs them one at a time *)
(* (a single connection, immediate transactions).                          *)
(*                                                                         *)
(* A writer sends the whole context it wants stored (a snapshot).  The     *)
(* tables are kept in sequence order: a message is only ever inserted with *)
(* a number above every stored one.                                        *)
(***************************************************************************)
EXTENDS WorkingSet

VARIABLES
  ctx,        \* the row of request_contexts
  original,   \* messages of type original, in seq order
  memory,     \* memory[g]: messages of type memory of generation g, in seq order
  reserved,   \* message_sequences.reserved_seq, 0 when there is no row
  files       \* the chats that have rows in chat_upsert_files

storeVars == <<ctx, original, memory, reserved, files>>

NoRow == [exists |-> FALSE, rev |-> 0, gen |-> 1, last |-> 0]

StoreInit(created) ==
  /\ ctx = [NoRow EXCEPT !.exists = created]  \* CreateSession, or a session of a sub-agent
  /\ original = <<>>
  /\ memory = << <<>> >>
  /\ reserved = 0
  /\ files = {}

\* GetRequestContext: the head and the messages of its generation; a session
\* without a row is an empty context of generation 1.
GetRequestContext ==
  [rev |-> ctx.rev, gen |-> ctx.gen, last |-> ctx.last, msgs |-> memory[ctx.gen]]

-----------------------------------------------------------------------------

\* The head must be the one the snapshot was computed from.
SameRevision(s) == ctx.exists /\ s.rev = ctx.rev

validateCreatedMessage(s) == s.msgs # <<>> /\ Last(s.msgs).seq = s.last /\ Last(s.msgs).src = {s.last}

validateCreateTransition_Bug(s) ==
  IF ~ctx.exists THEN s.gen = 1 ELSE s.gen = ctx.gen /\ s.last > ctx.last

validateCreateTransition(s) ==
  IF ~ctx.exists
  THEN s.rev = 0 /\ s.gen = 1 /\ s.last = 1 /\ Len(s.msgs) = 1
  ELSE /\ s.rev = ctx.rev
       /\ s.gen = ctx.gen
       /\ s.last > ctx.last
       /\ s.last = ctx.last + 1 \/ s.last = reserved

writeContext(s) == ctx' = [exists |-> TRUE, rev |-> s.rev + 1, gen |-> s.gen, last |-> s.last]

CreateAllowed(s) == Validate(s) /\ validateCreatedMessage(s) /\ validateCreateTransition(s)

\* One message enters the history and the working set together.
CommitCreateMessage(s) ==
  /\ writeContext(s)
  /\ original' = Append(original, Last(s.msgs))
  /\ memory' = [memory EXCEPT ![s.gen] = Append(@, Last(s.msgs))]
  /\ UNCHANGED <<reserved, files>>

UpdateAllowed(s) ==
  /\ Validate(s) /\ SameRevision(s) /\ s.last = ctx.last /\ s.gen = ctx.gen
  /\ \E i \in DOMAIN memory[s.gen] : memory[s.gen][i].seq = s.msgs[1].seq

CommitUpdateMessage_Bug(s) ==
  /\ writeContext(s)
  /\ memory' = [g \in DOMAIN memory |->
       [i \in DOMAIN memory[g] |-> IF memory[g][i].seq = s.msgs[1].seq THEN s.msgs[1] ELSE memory[g][i]]]
  /\ UNCHANGED <<original, reserved, files>>

\* Only the system prompt is ever updated: the row of the working set with
\* its number is replaced, its original stays.
CommitUpdateMessage(s) ==
  /\ writeContext(s)
  /\ memory' = [memory EXCEPT ![s.gen] =
       [i \in DOMAIN @ |-> IF @[i].seq = s.msgs[1].seq THEN s.msgs[1] ELSE @[i]]]
  /\ UNCHANGED <<original, reserved, files>>

NextGenerationAllowed_Bug(s) == Validate(s) /\ ctx.exists /\ s.gen = ctx.gen + 1

NextGenerationAllowed(s) ==
  Validate(s) /\ SameRevision(s) /\ s.last = ctx.last /\ s.gen = ctx.gen + 1

\* A compacted working set is stored as a new generation beside the old ones.
CommitNextMemoryGeneration(s) ==
  /\ writeContext(s)
  /\ memory' = Append(memory, s.msgs)
  /\ UNCHANGED <<original, reserved, files>>

ReserveMessageSequence ==
  /\ reserved' = Max({reserved, ctx.last}) + 1
  /\ UNCHANGED <<ctx, original, memory, files>>

\* checkChat: files are recorded only for a chat whose user message is stored.
ChatIsStored(chat) == \E i \in DOMAIN original : original[i].role = "user" /\ original[i].chat = chat

UpsertChatFiles(chat) ==
  /\ files' = files \cup {chat}
  /\ UNCHANGED <<ctx, original, memory, reserved>>

\* Every row of the session goes in one transaction; the number counter goes
\* with the head (ON DELETE CASCADE).
DeleteSession ==
  /\ ctx' = NoRow
  /\ original' = <<>>
  /\ memory' = << <<>> >>
  /\ reserved' = 0
  /\ files' = {}

-----------------------------------------------------------------------------
(* A request is what a writer sends: an operation and its snapshot.        *)

RequestAllowed(r) ==
  CASE r.op = "reserve" -> ctx.exists
    [] r.op = "create" -> CreateAllowed(r.snap)
    [] r.op = "update" -> UpdateAllowed(r.snap)
    [] r.op = "generation" -> NextGenerationAllowed(r.snap)

\* RPCHandler: the transaction the method names.
ApplyRequest(r) ==
  \/ r.op = "reserve" /\ ReserveMessageSequence
  \/ r.op = "create" /\ CommitCreateMessage(r.snap)
  \/ r.op = "update" /\ CommitUpdateMessage(r.snap)
  \/ r.op = "generation" /\ CommitNextMemoryGeneration(r.snap)
=============================================================================
