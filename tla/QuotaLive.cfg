SPECIFICATION FairSpec
CONSTANTS
  Users = {1}
  MaxDay = 1
  MaxEpoch = 4
  Configs <- Steady
  CPUs = {1}
  Directions = {"rx"}
  MaxPacket = 1
  MaxBoots = 0
  MaxCrashes = 1
  MaxFaults = 1
PROPERTIES ServedToday Refilled
CHECK_DEADLOCK FALSE
