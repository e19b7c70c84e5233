SPECIFICATION Spec
CONSTANTS
  KeepRecentToolCallGroups = 1
  MaxInput = 14
  LongestSummary = 3
  Kinds = {"chat", "child"}
  Replies <- AllReplies
  OutputBodies = {"large"}
  Prompts = 2
  MaxRuns = 2
  MaxSeq = 9
  MaxFaults = 2
  MaxLate = 2
INVARIANTS Loadable NothingForgotten RevisionMeansContent RequestIsPaired LoopIsBroken CompleteIsAnswered ClearedIsArchived
PROPERTIES PastIsImmutable ImplementsConversation
CHECK_DEADLOCK FALSE
