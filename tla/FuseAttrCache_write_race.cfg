\* Two threads both write through the page cache past the end of the file: the write that read the smaller original_size returns last, and its filesize and ubc_setsize drop the other's pages.
CONSTANTS
  t1 = t1  t2 = t2
  Threads <- MCThreads2
  Writers <- MCWriters2
  MaxSize = 2
  MaxVer = 3
  DioModes = {FALSE}
  ErrorReplies = FALSE
SPECIFICATION Spec
INVARIANT NoLostWrite
