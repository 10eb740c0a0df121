SPECIFICATION FairSpec
CONSTANT MaxTimers <- MCMaxTimers
INVARIANTS TypeOK EmissionOnlyWhenLasing PauseBlocksBeam FireNeedsLaser
PROPERTIES LightPromised TimedStatesEnd
\* The server may hang or abort, and a bound on the timers stops the rest.
CHECK_DEADLOCK FALSE
