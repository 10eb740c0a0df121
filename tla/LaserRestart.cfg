SPECIFICATION RestartSpec
CONSTANT MaxTimers <- MCOneTimer
PROPERTY MonitoredSyncs
CHECK_DEADLOCK FALSE
