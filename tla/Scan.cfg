SPECIFICATION Spec
CONSTANTS
  Thread = {t1, t2}
  MaxScans = 3
  MaxCrashes = 1
SYMMETRY Symmetry
INVARIANTS TempCleaned AnswerIsTrue
CHECK_DEADLOCK FALSE
