CONSTANTS
  None = None
  Offers = {o1}
  Payments = {p1, p2}
  Calls = {c1, c2}
  MaxAmount = 2
SPECIFICATION FairSpec
CONSTRAINT InOrder
INVARIANTS
  RowsFollowProvider
PROPERTIES
  RefundIsFinal
  AcceptedWasPaid
  KeepsOnePayment
  UselessMoneyIsFlagged
