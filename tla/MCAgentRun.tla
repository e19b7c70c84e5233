----------------------------- MODULE MCAgentRun -----------------------------
(* Values of AgentRun's constants for TLC. *)
EXTENDS AgentInv

Reply(fps, body, reason) == [fps |-> fps, body |-> body, reason |-> reason]

\* Final answers with and without a finish reason, a truncated one, single calls
\* and a group of two.
AllReplies ==
  {Reply(<<>>, "plain", "stop"), Reply(<<>>, "plain", "none"), Reply(<<>>, "long", "max_output_tokens"),
   Reply(<<1>>, "plain", "stop"), Reply(<<2>>, "reasoned", "stop"), Reply(<<1, 1>>, "plain", "stop")}
=============================================================================
