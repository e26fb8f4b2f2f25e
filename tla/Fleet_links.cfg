CONSTANTS
  Agencies = {a1, a2}
  Workers = {w1}
  Calls = {c1, c2}
  Edits = {e1}
  MaxAttempts = 1
  MaxCodes = 2
  None = None
SPECIFICATION Spec
CONSTRAINT Few
SYMMETRY Symmetry
INVARIANTS
  CodesAreGuarded
  FleetAgrees
PROPERTIES
  ImplementsMembership
CHECK_DEADLOCK FALSE
