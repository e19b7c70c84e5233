SPECIFICATION Spec
CONSTANTS
  Sandboxes = {"s1", "s2"}
  UserOf <- OwnUsers
  Pids = {1, 2, 3, 4}
  MaxStarts = 5
  MaxFaults = 1
  MaxCrashes = 1
INVARIANTS OwnerIsTrue ChurnIsNotFatal
PROPERTY Rebound
CHECK_DEADLOCK FALSE
