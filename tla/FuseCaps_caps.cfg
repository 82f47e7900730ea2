\* Two threads, daemons with all or none of the optional requests, every mount flag but NOSYNCWRITES.
CONSTANTS
  t1 = t1  t2 = t2
  Threads <- MCThreads2
  DaemonImpls <- ImplsOneMissing
  MountFlagSets <- FlagsNoSyncWritesOff
  ExchangeBuilds = {FALSE, TRUE}
  IovCounts = {8}
  UioBackupMax = 8
  CanDie = TRUE
SPECIFICATION Spec
SYMMETRY ThreadSymmetry
INVARIANT TypeOK
INVARIANT CapClearedOnlyIfUnimplemented
INVARIANT NoEnosysToVfs
INVARIANT UioRestoredForRetry
