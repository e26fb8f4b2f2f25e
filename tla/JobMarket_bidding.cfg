CONSTANTS
  None = None
  Requests = {r1}
  Workers = {w1, w2}
  Calls = {c1, c2}
  MaxAmount = 2
SPECIFICATION FairSpec
CONSTRAINT OnePrice
INVARIANTS
  OneAcceptedOffer
  WinnerMatchesStatus
  SettledAsAgreed
  AnnouncementsTrue
  ScreensAgree
PROPERTIES
  ClosedStaysClosed
  RequestsAreResolved
