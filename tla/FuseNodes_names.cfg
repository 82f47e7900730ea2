\* One thread making every namespace system call and a second that only stats names, on two names of one directory, with up to two nodes, reclaims at any time and EIO answers.
CONSTANTS
  t1 = t1  t2 = t2  a = a  b = b  n1 = n1  n2 = n2
  Threads <- MCThreads
  Names <- MCNames
  Nodes <- MCNodes
  LinkMax = 2
  MaxLookups = 4
  ErrorReplies = TRUE
  Readers <- MCReaders
SYMMETRY MCSymmetry
SPECIFICATION Spec
INVARIANT TypeOK
INVARIANT LookupAccounting
 
