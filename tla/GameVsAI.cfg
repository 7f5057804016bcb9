SPECIFICATION LiveSpec
CONSTANTS
  VersusAI = TRUE
  CastleBesideChooser = FALSE
  MaxTimers = 2
  t1 = t1
  t2 = t2
  Tasks = {t1, t2}
CHECK_DEADLOCK FALSE
INVARIANTS OneSearchOnItsTurn RightPlayerTakesTurn TrapsOnlyAfterLeaving AITurnIsPending
PROPERTIES WonIsFinal PlaysInTurns AITurnEnds LeftGameIsReleased
