CONSTANTS
  t1 = t1
  t2 = t2
  imu = imu
  imu2 = imu2
  mag = mag
  NULL = NULL
  Threads <- TwoThreads
  Topics <- TwoTopics
  Name <- Named
  MaxCalls = 3
SPECIFICATION Spec
PROPERTIES AppendsOnly
CHECK_DEADLOCK FALSE
