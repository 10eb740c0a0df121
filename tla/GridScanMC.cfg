SPECIFICATION Spec
CONSTANTS Half = 32
          Overstep = 1
          Requests <- MCRequests
INVARIANTS TypeOK SegmentsCoverGrid FirstAxesInOrder
PROPERTY GridEnds
\* The loops end, or circle at the end of a word.
CHECK_DEADLOCK FALSE
