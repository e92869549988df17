CONSTANTS
  Threads = {1, 2, 3, 4}
  Idx = {4, 5, 6, 7}
  NTHREAD = 4
  Writers = {w1, w2}
  Readers = {r1}
  PIPESIZE = 2
  UINT = 4
  LENGTHS = {1, 3}
  WCALLS = 1
  RCALLS = 2
SPECIFICATION SSpec
INVARIANTS WriterExclusion ReaderCount OneHolder NobodyLeftAsleep PipeExact
PROPERTIES ImplementLocks EveryoneServed
