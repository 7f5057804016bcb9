SPECIFICATION Spec
CONSTANTS
  VersusAI = TRUE
  CastleBesideChooser = TRUE
  MaxTimers = 1
  t1 = t1
  t2 = t2
  Tasks = {t1, t2}
CHECK_DEADLOCK FALSE
INVARIANTS KingsExist
