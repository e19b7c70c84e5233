SPECIFICATION Spec
CONSTANTS
  Users = {1}
  MaxDay = 1
  MaxEpoch = 3
  Configs <- Changing
  CPUs = {1}
  Directions = {"rx"}
  MaxPacket = 1
  MaxBoots = 1
  MaxCrashes = 1
  MaxFaults = 0
INVARIANTS PublishedIsBacked ChecksPass DailyLimit HeldWithinLimit
PROPERTIES LiveBucketOnlyGrows ClosedIsFinal
CHECK_DEADLOCK FALSE
