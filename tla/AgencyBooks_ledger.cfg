CONSTANTS
  Agencies = {a1, a2}
  Workers = {w1}
  Jobs = {r1}
  Calls = {c1, c2}
  Price = 2
  Rates = {0, 50}
  MaxPaid = 1
  None = None
SPECIFICATION Spec
CONSTRAINT Few
SYMMETRY Symmetry
INVARIANTS
  DebtsAreSound
  ReportMatchesLedger
PROPERTIES
  LedgerIsFrozen
