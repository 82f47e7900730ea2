\* One thread, a daemon that may answer a WRITE short: the write loop can resend forever.
CONSTANTS
  t1 = t1  t2 = t2  f1 = f1  f2 = f2
  NoFd = NoFd
  Threads <- MCThreads1
  Fds <- MCFds
  FdModes <- ModesAny
  CreatFds <- MCFds
  MaxFh = 2
  MaxLookups = 2
  MaxChunks = 2
  DaemonImpls <- ImplsAny
  DioReplies = {FALSE, TRUE}
  BadEntry = FALSE
  VgetFails = TRUE
  ShortWrites = TRUE
  CanDie = TRUE
SPECIFICATION FairSpec
PROPERTY VnopsReturn
