\* Two threads, f1 read-only and f2 write-only, with weak fairness on every answer: opens and closes interleave on disjoint slots, and every vnop returns.
CONSTANTS
  t1 = t1  t2 = t2  f1 = f1  f2 = f2
  NoFd = NoFd
  Threads <- MCThreads2
  Fds <- MCFds
  FdModes <- ModesDisjoint
  CreatFds <- CreatF1
  MaxFh = 2
  MaxLookups = 2
  MaxChunks = 2
  DaemonImpls <- ImplsAny
  DioReplies = {FALSE, TRUE}
  BadEntry = FALSE
  VgetFails = TRUE
  ShortWrites = FALSE
  CanDie = TRUE
SPECIFICATION FairSpec
INVARIANT HandleAccounting
INVARIANT LookupAccounting
PROPERTY RequestsUseOpenHandles
PROPERTY VnopsReturn
