SPECIFICATION Spec
CONSTANTS
  PauseTimers = {p1}
  StandbyTimers = {"s1"}
  WarmupTimers = {"w1"}
  ServerCalls = {"start", "pause"}
  MaxBusy = 2
  MaxMeetings = 1
INVARIANT PausedIsShut
CHECK_DEADLOCK FALSE
