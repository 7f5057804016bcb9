SPECIFICATION FairSpec
CONSTANTS
  Devices = {phone, pad}
  Dates <- TheseDates
  MaxVisits = 2
INVARIANTS ResultsAreKept ListsAreRight
PROPERTIES PageSettles
CHECK_DEADLOCK FALSE
