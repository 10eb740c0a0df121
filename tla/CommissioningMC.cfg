SPECIFICATION Spec
CONSTANTS
  Motors = {"m0", "m1"}
  Coordinates = {0, 1}
  Arrangements <- AnyArrangement
  Value = {"a", "b"}
  Level = {"low", "highest"}
  Highest = "highest"
  Setting = {"range", "pulse"}
INVARIANTS AttenuatorReadyIsLive CibDacKept MeterSettingSurvives
PROPERTIES OkMeansAllParts ShutdownUnlocks
CONSTRAINT OneVaries
CHECK_DEADLOCK FALSE
