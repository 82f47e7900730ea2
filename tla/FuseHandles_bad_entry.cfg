\* One thread; the daemon may answer CREATE or MKNOD with an entry that is not a regular file.
CONSTANTS
  t1 = t1  t2 = t2  f1 = f1  f2 = f2
  NoFd = NoFd
  Threads <- MCThreads1
  Fds <- MCFds
  FdModes <- ModesSameRead
  CreatFds <- MCFds
  MaxFh = 2
  MaxLookups = 2
  MaxChunks = 2
  DaemonImpls <- ImplsAny
  DioReplies = {FALSE}
  BadEntry = TRUE
  VgetFails = FALSE
  ShortWrites = FALSE
  CanDie = FALSE
SPECIFICATION Spec
INVARIANT LookupAccounting
