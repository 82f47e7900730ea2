\* f1 read-write, f2 read-only: a direct I/O read of f1 goes through the RDONLY slot of f2 while f2 is closed.
CONSTANTS
  t1 = t1  t2 = t2  f1 = f1  f2 = f2
  NoFd = NoFd
  Threads <- MCThreads2
  Fds <- MCFds
  FdModes <- ModesRdwrAndRead
  CreatFds = {}
  MaxFh = 2
  MaxLookups = 2
  MaxChunks = 2
  DaemonImpls <- ImplsAll
  DioReplies = {TRUE}
  BadEntry = FALSE
  VgetFails = FALSE
  ShortWrites = FALSE
  CanDie = FALSE
SPECIFICATION Spec
PROPERTY RequestsUseOpenHandles
