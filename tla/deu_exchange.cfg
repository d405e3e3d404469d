CONSTANTS
  p1 = p1
  p2 = p2
  s1 = s1
  s2 = s2
  q1 = q1
  c1 = c1
  NULL = NULL
  Publishers <- TwoPublishers
  SyncReaders <- OneSync
  PollReaders <- OnePoll
  CbReaders <- OneCb
  DEU_MAX_LINK_NUM = 2
  MaxPublish = 2
  WildNext <- Recycled
SPECIFICATION FairSpec
INVARIANTS TypeOK SemBinary NoLostWakeup NoMissedSample NoTornSample CallbacksCaughtUp
PROPERTIES PollBringsNews IsMailbox
  Delivered
CHECK_DEADLOCK FALSE
