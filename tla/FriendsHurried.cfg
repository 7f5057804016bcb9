SPECIFICATION LiveSpec
CONSTANTS
  ann = ann
  ben = ben
  cat = cat
  Users = {ann, ben}
  OtherTexts = {"unknown", "capitals"}
  Careful = FALSE
  MayDie = {ann}
  MaySearch <- AnnAsksBen
  MaxList = 2
  MaxPending = 2
CHECK_DEADLOCK FALSE
INVARIANTS TypeOK
PROPERTIES PagesWakeUp
