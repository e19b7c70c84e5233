SPECIFICATION FairSpec
CONSTANTS
  Requests = {1, 2}
  Jobs = {1, 2}
  MaxArrivals = 3
  MaxFaults = 1
INVARIANTS DeletedIsQuiet OneEvaluation SucceededHasReport
PROPERTIES StopKillsNoWork Served
CHECK_DEADLOCK FALSE
