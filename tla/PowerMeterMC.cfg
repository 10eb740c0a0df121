SPECIFICATION FairSpec
CONSTANTS
  r1 = r1  r2 = r2  r3 = r3
  Readers <- ThreeReaders
  MaxStops = 3
INVARIANTS TypeOK ReadersUseLiveDriver DriverFollowsStatus ReadersBounded
PROPERTIES ReadingsEnd
CHECK_DEADLOCK FALSE
