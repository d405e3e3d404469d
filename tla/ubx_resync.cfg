CONSTANTS
  ByteRange = 4
  SyncChar1 = 3
  SyncChar2 = 2
  UbxNav = 1
  UbxNavPvt = 0
  PvtLength = 2
  Decode <- Reversed
SPECIFICATION WatchSpec
INVARIANTS NewestFramePublished
