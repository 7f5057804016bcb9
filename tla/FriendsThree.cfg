SPECIFICATION Spec
CONSTANTS
  ann = ann
  ben = ben
  cat = cat
  Users = {ann, ben, cat}
  OtherTexts = {}
  Careful = TRUE
  MayDie = {}
  MaySearch <- BenAsksBack
  MaxList = 3
  MaxPending = 3
CHECK_DEADLOCK FALSE
INVARIANTS RequestsAreDistinct RequestsAreBacked OnlyAskersAreOneSided
PROPERTIES FriendsOnlyGrow
