SPECIFICATION FairSpec
CONSTANTS
  Sessions = {1}
  Evaluated = {}
  Projects = {1}
  ProjectOf <- OneProject
  MaxTask = 2
  MaxEvent = 1
  Subscribers = {}
  MaxFaults = 1
  MaxEnds = 1
PROPERTY StoppedEnds
CHECK_DEADLOCK FALSE
