CONSTANTS
  INS_PERIOD = 1
  MAG_PERIOD = 1
  GPS_PERIOD = 2
  MaxTicks = 3
  Clients = {c1, c2, c3}
  Commands = {}
  Descriptors = 10
SPECIFICATION PlatformSpec
INVARIANTS PlatformTypeOK RoundsKept PublishedIsAdvertised FileOutlastsOthers
PROPERTIES TicksServed ClientsServed
CHECK_DEADLOCK FALSE
