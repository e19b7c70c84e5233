SPECIFICATION Spec
CONSTANTS
  Sessions = {1}
  Evaluated = {}
  Projects = {1}
  ProjectOf <- OneProject
  MaxTask = 2
  MaxEvent = 2
  Subscribers = {1}
  MaxFaults = 1
  MaxEnds = 1
INVARIANTS FinalReplayable TaskStateIsTrue
CHECK_DEADLOCK FALSE
