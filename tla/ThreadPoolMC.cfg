SPECIFICATION FairSpec
CONSTANTS
  w1 = w1  w2 = w2  p1 = p1  p2 = p2  j1 = j1  j2 = j2  j3 = j3
  Workers <- TwoWorkers
  Producers <- TwoProducers
  Jobs <- ThreeJobs
  MaxJobs = 2
INVARIANTS TypeOK TakenInOrder NoLostWakeUp
PROPERTIES JobsStart DestructorEnds
CHECK_DEADLOCK FALSE
