SPECIFICATION FairSpec
CONSTANTS
  Addrs = {a1, a2}
  Fds = {f1, f2, f3}
  KeventMayFail = TRUE
  GraceRounds = 1
  MaxConns = 2
  MaxEpoch = 3
ACTION_CONSTRAINT
  FirstAccept
INVARIANTS
  OneRegistration
  EventsAreFresh
PROPERTIES
  ImplementsBackend
  ConnectionsEnd
  StopEndsRun
