CONSTANTS
  None = None
  Requests = {r1, r2}
  Workers = {w1}
  Calls = {c1, c2}
  MaxAmount = 2
SPECIFICATION Spec
SYMMETRY Symmetry
VIEW Guards
CONSTRAINT NoTimeouts
PROPERTIES
  ImplementsAssignment
