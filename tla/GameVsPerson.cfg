SPECIFICATION Spec
CONSTANTS
  VersusAI = FALSE
  CastleBesideChooser = FALSE
  MaxTimers = 2
  t1 = t1
  t2 = t2
  Tasks = {t1, t2}
CHECK_DEADLOCK FALSE
INVARIANTS RecordAgreesWithBoard
