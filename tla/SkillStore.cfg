SPECIFICATION Spec
CONSTANTS
  Sessions = {s1, s2}
  Tokens = {"front", "x", "y"}
  Default <- MCDefault
  Inputs <- MCInputs
  Paths <- MCPaths
  GoodPaths = {"SKILL.md", "skill.md", "a", "A", "a/b"}
  Key <- MCKey
  Inside <- MCInside
  MaxFiles = 2
  MaxFileTokens = 5
  MaxTokens = 6
  MaxCalls = 3
  MaxFaults = 2
  MaxCrashes = 1
CHECK_DEADLOCK FALSE
INVARIANTS PublishedIsPlanned AnswerIsTrue NothingVanishes
