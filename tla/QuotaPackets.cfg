SPECIFICATION Spec
CONSTANTS
  Users = {1}
  MaxDay = 1
  MaxEpoch = 2
  Configs <- Steady
  CPUs = {1, 2}
  Directions = {"rx"}
  MaxPacket = 2
  MaxBoots = 0
  MaxCrashes = 0
  MaxFaults = 1
INVARIANTS PassedIsHeld ConfirmedIsReal IInv
CHECK_DEADLOCK FALSE
