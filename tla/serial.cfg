CONSTANTS
  MaxRead = 2
  MaxBuffers = 3
  GpsRange = 4
  SyncChar1 = 3
  SyncChar2 = 2
  UbxNav = 1
  UbxNavPvt = 0
  PvtLength = 2
  GpsSample <- Reversed
  ImuRange = 3
  HeadChar1 = 2
  HeadChar2 = 0
  TailChar = 1
  NavLength = 3
  ImuSample <- Reversed
SPECIFICATION Spec
INVARIANTS TypeOK PublishedIsFramed FrameIsPublished BufferHeld
PROPERTIES Returns
CHECK_DEADLOCK FALSE
