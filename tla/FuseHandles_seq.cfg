\* One thread, two fds with any mode: every vnop sequence of a single process.
CONSTANTS
  t1 = t1  t2 = t2  f1 = f1  f2 = f2
  NoFd = NoFd
  Threads <- MCThreads1
  Fds <- MCFds
  FdModes <- ModesAny
  CreatFds <- MCFds
  MaxFh = 2
  MaxLookups = 2
  MaxChunks = 2
  DaemonImpls <- ImplsAny
  DioReplies = {FALSE, TRUE}
  BadEntry = FALSE
  VgetFails = TRUE
  ShortWrites = TRUE
  CanDie = TRUE
SPECIFICATION Spec
INVARIANT TypeOK
INVARIANT HandleAccounting
INVARIANT LookupAccounting
INVARIANT SlotCountCoversFds
PROPERTY RequestsUseOpenHandles
PROPERTY HandleSlotRefined
