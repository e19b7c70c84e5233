----------------------------- MODULE MCChatTasks -----------------------------
EXTENDS ChatInv

OneProject == [s \in Sessions |-> CHOOSE p \in Projects : TRUE]
=============================================================================
