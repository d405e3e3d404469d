CONSTANTS
  t1 = t1
  t2 = t2
  imu = imu
  imu2 = imu2
  mag = mag
  NULL = NULL
  Threads <- TwoThreads
  Topics <- AllTopics
  Name <- Named
  MaxCalls = 4
SPECIFICATION Spec
INVARIANTS TypeOK ListWhole LeakMeansError ClashesAreNeighbours
PROPERTIES FirstTopicStays
CHECK_DEADLOCK FALSE
