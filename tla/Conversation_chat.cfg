CONSTANTS
  Jobs = {j1, j2}
  Disputes = {d1}
  Calls = {c1, c2}
  Edits = {e1}
  Millisecond = 2
  Limit = 1
  HelpLimit = 2
  MaxTime = 6
  MaxFaults = 1
  None = None
SPECIFICATION FairSpec
CONSTRAINT Few
INVARIANTS
  PhotosAreKept
  RatingIsFresh
  NothingIsPassedOver
PROPERTIES
  SaidInTime
  PhotosGoOn
CHECK_DEADLOCK FALSE
