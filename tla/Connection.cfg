SPECIFICATION FairSpec
CONSTANTS
  Queries = {q}
  Guarded = {q}
  MaxPuts = 2
  MaxListens = 2
  MaxTroubles = 2
INVARIANTS AssertionsHold OfflineStaysOffline QuietMeansInSync EachWriteIsOnce
PROPERTIES WritesAreDelivered WritesGetThrough
CHECK_DEADLOCK FALSE
