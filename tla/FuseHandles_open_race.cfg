\* Two threads open two read-only fds at once: both find the RDONLY slot invalid and both send OPEN.
CONSTANTS
  t1 = t1  t2 = t2  f1 = f1  f2 = f2
  NoFd = NoFd
  Threads <- MCThreads2
  Fds <- MCFds
  FdModes <- ModesSameRead
  CreatFds = {}
  MaxFh = 2
  MaxLookups = 2
  MaxChunks = 2
  DaemonImpls <- ImplsAll
  DioReplies = {FALSE}
  BadEntry = FALSE
  VgetFails = FALSE
  ShortWrites = FALSE
  CanDie = FALSE
SPECIFICATION Spec
INVARIANT HandleAccounting
