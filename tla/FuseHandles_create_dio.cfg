\* One thread creates a file with O_RDWR; the daemon answers CREATE with FOPEN_DIRECT_IO.
CONSTANTS
  t1 = t1  t2 = t2  f1 = f1  f2 = f2
  NoFd = NoFd
  Threads <- MCThreads1
  Fds <- MCFds
  FdModes <- ModesRdwrAndRead
  CreatFds <- CreatF1
  MaxFh = 2
  MaxLookups = 2
  MaxChunks = 2
  DaemonImpls <- ImplsAll
  DioReplies = {TRUE}
  BadEntry = FALSE
  VgetFails = FALSE
  ShortWrites = FALSE
  CanDie = FALSE
SPECIFICATION Spec
INVARIANT DirectIOHonoured
