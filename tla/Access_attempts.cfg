CONSTANTS
  Users = {u1}
  Offices = {o1}
  Passwords = {p1}
  Calls = {c1, c2}
  MaxAttempts = 2
  MaxTime = 1
  MaxFaults = 1
  None = None
SPECIFICATION FairAccess
CONSTRAINT Few
INVARIANTS
  GuessesAreBounded
  ClosedStayClosed
PROPERTIES
  ResetsAreSpent
  LocksEnd
CHECK_DEADLOCK FALSE
