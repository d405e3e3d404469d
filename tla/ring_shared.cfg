CONSTANTS
  Size = 4
  Lengths = {1, 2, 4}
SPECIFICATION Spec
INVARIANTS SoundUntilCaught
CHECK_DEADLOCK FALSE
