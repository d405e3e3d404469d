CONSTANTS
  RING_BUF_MAX_LEN = 5
  BLOCK_LEN = 3
  HeaderPuts = 1
  IdLen = 1
  TextLens = {1, 2}
  SavePeriod = 3
  ByteRange = 3
  Commands = {}
SPECIFICATION Spec
INVARIANTS LengthRight
CHECK_DEADLOCK FALSE
