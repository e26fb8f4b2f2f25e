SPECIFICATION FairWaves
CONSTANTS
  Workers = {w1, w2, w3}
  WaveSize = 2
  MaxWave = 1
  MaxAttempts = 3
  MaxStalls = 1
  NoWave = NoWave
INVARIANTS
  AlertsAreBounded
  DoneIsDelivered
PROPERTIES
  WavesEnd
