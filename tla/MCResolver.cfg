SPECIFICATION FairSpec
CONSTANTS
  Threads = {t1, t2}
  Callers = {c1, c2}
  Keys = {k}
  Ttl = 1
  MaxJobs = 2
  MaxVersion = 2
ACTION_CONSTRAINT
  FirstStart
INVARIANTS
  NoOrphanJob
PROPERTIES
  AnswersAreKept
  JobsAreAnswered
  ShutdownEnds
  OldAnswersExpire
