SPECIFICATION FairSpec
CONSTANTS
  MaxHeaderBytes = 2
  MaxBodyBytes = 2
  IoChunkBytes = 3
  CacheMaxEntryBytes = 4
  AsyncResolve = TRUE
  CacheEnabled = TRUE
  Requests <- MCRequests
  Responses <- MCResponses
  Trailing = 1
  MaxResponse = 6
  MaxEndpoints = 2
INVARIANTS
  BytesInOrder
  DoneMeansAnswered
  CachedIsWhole
  MemoryBounded
PROPERTIES
  ImplementsInterfaces
  BackendCanRely
  AllCandidatesTried
  ExchangeEnds
