\* t1 writes through the page cache while t2 opens with FOPEN_PURGE_UBC|FOPEN_PURGE_ATTR: the refresh's ubc_setsize drops pages written during its GETATTR wait.
CONSTANTS
  t1 = t1  t2 = t2
  Threads <- MCThreads2
  Writers <- MCWriters
  MaxSize = 2
  MaxVer = 3
  DioModes = {FALSE}
  ErrorReplies = FALSE
SPECIFICATION Spec
INVARIANT NoLostWrite
