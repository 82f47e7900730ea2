\* One thread: every sequence of getattr, setattr, cached and direct writes and opens, with pageouts and expiries between them.
CONSTANTS
  t1 = t1  t2 = t2
  Threads <- MCThreads1
  Writers <- MCWriters
  MaxSize = 2
  MaxVer = 3
  DioModes = {FALSE, TRUE}
  ErrorReplies = TRUE
SPECIFICATION Spec
INVARIANT TypeOK
INVARIANT NoLostWrite
INVARIANT SizeCoversWrites
INVARIANT CacheNotStale
