SPECIFICATION Spec
CONSTANTS MaxPos = 1
          CibSize = 3
          Targets = {0, 1}
          Fragments <- MCFragments
          MaxThreads <- MCMaxThreads
          MaxCleared = 1
INVARIANTS TypeOK  MonitorsBounded
\* An aborted server does nothing more.
CHECK_DEADLOCK FALSE
PROPERTIES CacheCatchesUp MonitorsEnd
