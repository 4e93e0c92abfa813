SPECIFICATION FairSpec
CONSTANTS
  NumShards = 2
  PipeCapacity = 1
  MayFail = {0, 1}
  MaxConns = 4
INVARIANTS
  NoLostHandOff
  OneShardEach
PROPERTIES
  HandOffsAreTaken
  StopEndsRun
  ImplementsBackend
