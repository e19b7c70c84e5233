SPECIFICATION Spec
CONSTANTS
  Sessions = {1, 2}
  Evaluated = {1, 2}
  Projects = {1}
  ProjectOf <- OneProject
  MaxTask = 2
  MaxEvent = 1
  Subscribers = {}
  MaxFaults = 1
  MaxEnds = 1
INVARIANTS Exclusive RunnerIsRecorded NoSilentOrphan
PROPERTY TerminalIsFinal
CHECK_DEADLOCK FALSE
