SPECIFICATION FairPageSpec
CONSTANTS
  Pages = {"messenger", "requests"}
  People = {ann, ben, cat}
  Nameless = {}
  Doubles = FALSE
  Careful = TRUE
  MaxList = 3
  MaxAppearances = 2
INVARIANTS RowsAreRight AllAreShown
PROPERTIES TableWakesUp
CHECK_DEADLOCK FALSE
