SPECIFICATION FairSpec
CONSTANTS
  JobQueueCapacity = 2
  Workers = {w1, w2, w3}
  Acceptor = acceptor
  MaxConns = 5
INVARIANTS
  ExactlyOnceInOrder
  BackPressure
  NoLostWakeup
PROPERTIES
  ImplementsBackend
  StopEndsRun
  EveryConnLeaves
