CONSTANTS
  Users = {u1, u2}
  Devices = {d1, d2}
  Calls = {c1}
  Attempts = 3
  None = None
SPECIFICATION Spec
SYMMETRY Symmetry
INVARIANTS
  PushesStayAtHome
  DevicesAreServed
