CONSTANTS
  Users = {u1}
  Calls = {c1}
  MaxDocs = 0
  Edits = {}
  None = None
SPECIFICATION Spec
INVARIANT
  CancelledIsKept
CHECK_DEADLOCK FALSE
