SPECIFICATION FairSpec
CONSTANTS Segments <- MCSegments
          Targets <- MCTargets
          Scans <- MCScans
          MotorCalls <- MCMotorCalls
          UnitCalls = {"resume"}
          Echoes = {"busy"}
          t1 = t1
          NumMotors = 2
          MaxPos = 3
          Tolerance = 1
          Overstep = 2
          Tasks = {t1}
INVARIANT FiresWhereAsked
PROPERTIES SuccessIsDark ErrorSticks ApproachRespected TaskEnds
\* A task may wait for ever, and clients need not call.
CHECK_DEADLOCK FALSE
