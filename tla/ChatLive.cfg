SPECIFICATION FairSpec
CONSTANTS
  Sessions = {1}
  Evaluated = {}
  Projects = {1}
  ProjectOf <- OneProject
  MaxTask = 2
  MaxEvent = 1
  Subscribers = {1}
  MaxFaults = 0
  MaxEnds = 0
PROPERTY SubscriberEnds
CHECK_DEADLOCK FALSE
