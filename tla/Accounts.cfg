SPECIFICATION LiveSpec
CONSTANTS
  ann = ann
  ben = ben
  a1 = a1
  a2 = a2
  b1 = b1
  People = {ann}
  Names = {a1, a2}
  Displays = {"Ann", "Annie"}
  Wanted <- AnnsNames
  MayDie = {ann}
CHECK_DEADLOCK FALSE
INVARIANTS TypeOK NamesLeadBack DisplaysAgree
PROPERTIES ListsAreNotEmptied UsersGetLists
