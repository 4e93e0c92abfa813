SPECIFICATION Spec
CONSTANTS
  NumShards = 2
  PipeCapacity = 2
  MayFail = {}
  MaxConns = 3
INVARIANTS
  InFlightDrained
