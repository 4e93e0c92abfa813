SPECIFICATION FairDescriptors
CONSTANTS
  GraceRounds = 2
  MaxConns = 2
  Limit = 5
  MaxEndpoints = 2
INVARIANTS
  CounterIsABarrier
  EveryDescriptorOwned
PROPERTY
  RecoversFromLimit
