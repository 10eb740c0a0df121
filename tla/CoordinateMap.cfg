SPECIFICATION Spec
CONSTANTS
  Motors = {"m0", "m1"}
  Coordinates = {0, 1}
  Arrangements <- Separate
  Value = {"a"}
  Level = {"highest"}
  Highest = "highest"
  Setting = {"range"}
INVARIANT MapFollowsConfig
CONSTRAINT OnlyMotors
CHECK_DEADLOCK FALSE
