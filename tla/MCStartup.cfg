SPECIFICATION MainSpec
CONSTANTS
  Flags = {"thread_pool_size", "backend", "event_loops"}
  Lines = {"backend", "event_loops", "desired_fd_limit", "cache_enabled", "async_resolve"}
  Values = {"v", "w"}
  MaxItems = 3
  Meaning <- MCMeaning
  RlimValues = 16
  HardLimits = {2, 6, 7}
  OpenMax = 6
  MaxAddrs = 2
  MaxThreads = 2
INVARIANTS
  EachFromItsSource
  LimitRaised
  OneUserWithoutLock
