SPECIFICATION Spec
CONSTANTS
  Starts <- Positions
  MaxMoves = 4
CHECK_DEADLOCK FALSE
INVARIANTS TypeOK MovesAreTheRules CastlingIsByRight
PROPERTIES MovesAreAsAssumed IsChess
