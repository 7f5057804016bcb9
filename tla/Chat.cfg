SPECIFICATION FairSpec
CONSTANTS
  Others = {"friend", "stranger"}
  Window = 2
  MaxKey = 4
  MaxLosses = 1
  MaxVisits = 2
INVARIANTS PageIsRight
PROPERTIES ViewMovesOn MessagesGetThrough
CHECK_DEADLOCK FALSE
