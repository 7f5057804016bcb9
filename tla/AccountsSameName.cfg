SPECIFICATION Spec
CONSTANTS
  ann = ann
  ben = ben
  a1 = a1
  a2 = a2
  b1 = b1
  People = {ann, ben}
  Names = {a1}
  Displays = {"Ann", "Ben"}
  Wanted <- SameName
  MayDie = {}
CHECK_DEADLOCK FALSE
PROPERTIES NamesStayTaken
