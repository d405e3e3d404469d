CONSTANTS
  RING_BUF_MAX_LEN = 3
  BLOCK_LEN = 2
  HeaderPuts = 1
  IdLen = 1
  TextLens = {2}
  SavePeriod = 2
  ByteRange = 2
  Commands = {"start", "stop"}
SPECIFICATION FairSpec
INVARIANTS TypeOK LengthRightWhenQuiet DrainedBeforeClose
PROPERTIES IsLogFile
  Drains
CHECK_DEADLOCK FALSE
