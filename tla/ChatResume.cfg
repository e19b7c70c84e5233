SPECIFICATION Spec
CONSTANTS
  Sessions = {1}
  Evaluated = {}
  Projects = {1}
  ProjectOf <- OneProject
  MaxTask = 3
  MaxEvent = 1
  Subscribers = {}
  MaxFaults = 1
  MaxEnds = 1
INVARIANT ResumedOnce
CHECK_DEADLOCK FALSE
