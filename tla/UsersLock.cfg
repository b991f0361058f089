\* Four workers, two of them admitted as readers at once.
SPECIFICATION FairSpec
CONSTANTS
  t1 = t1
  t2 = t2
  t3 = t3
  t4 = t4
  Threads <- FourThreads
  MaxReaders = 2
  NoThread = NoThread
INVARIANTS
  TypeOK
  MutexExact
  CountExact
  SemaphoreExact
PROPERTIES
  UnwaitingWriterIsAlone
  NoReaderJoinsWriter
  SharedAccess
  ShutdownDrains
CHECK_DEADLOCK FALSE
