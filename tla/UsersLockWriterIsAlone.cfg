\* Three workers: WriterIsAlone is refuted.
SPECIFICATION Spec
CONSTANTS
  t1 = t1
  t2 = t2
  t3 = t3
  t4 = t4
  Threads <- ThreeThreads
  MaxReaders = 2
  NoThread = NoThread
INVARIANT
  WriterIsAlone
CHECK_DEADLOCK FALSE
