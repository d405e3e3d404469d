CONSTANTS
  a = a
  b = b
  Byte <- TwoBytes
  Size = 3
  IndexRange = 4
  Blocks <- ShortBlocks
  Requests <- ShortRequests
SPECIFICATION Spec
INVARIANTS TypeOK MirrorInv
PROPERTIES IsFifo
