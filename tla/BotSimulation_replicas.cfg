SPECIFICATION FairSpec
CONSTANTS
  Clients = {c1}
  Workers = {w1, w2}
  Ids = {s1, s2}
  Txs = {t1, t2}
  MaxLimit = 2
  InitialPairs <- AllPairs
  DailyLimits = {1}
  MaxGeneration = 1
  None = None
CONSTRAINT InOrder
INVARIANTS
  OneJobPerBot
  NothingOutlivesItsGeneration
  EverybodyIsInPlace
PROPERTY ScenariosEnd
