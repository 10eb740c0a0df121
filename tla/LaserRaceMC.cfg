SPECIFICATION Spec
CONSTANTS
  PauseTimers = {p1, p2}
  StandbyTimers = {"s1"}
  WarmupTimers = {"w1"}
  ServerCalls <- ClientCalls
  MaxBusy = 2
  MaxMeetings = 1
INVARIANTS AloneIsSound LightIsAnnounced WaitsAreTimed StopIsFinal
SYMMETRY Alike
CHECK_DEADLOCK FALSE
