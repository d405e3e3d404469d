CONSTANTS
  INS_PERIOD = 1
  MAG_PERIOD = 1
  GPS_PERIOD = 2
  MaxTicks = 2
SPECIFICATION Spec
INVARIANTS TimerRuns
CHECK_DEADLOCK FALSE
