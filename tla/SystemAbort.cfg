SPECIFICATION Spec
CONSTANTS Segments <- MCSegments
          Targets <- MCTargets
          Scans <- MCScans
          MotorCalls <- MCMotorCalls
          UnitCalls = {"pause", "standby", "resume", "shutter", "laser shutter"}
          Echoes = {"offline", "ready", "busy", "error"}
          t1 = t1
          NumMotors = 2
          MaxPos = 3
          Tolerance = 1
          Overstep = 2
          Tasks = {t1}
PROPERTY AbortIsDark
CHECK_DEADLOCK FALSE
