SPECIFICATION Spec
CONSTANTS
  Thread = {t1, t2, t3}
  Window = 1
  Threshold = 2
  DbFails = TRUE
  MaxEvents = 3
  MaxClock = 3
SYMMETRY Symmetry
INVARIANTS NoAlarmMissed  CountsAlmostRecent
CHECK_DEADLOCK FALSE
