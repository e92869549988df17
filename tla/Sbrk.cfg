CONSTANTS
  NFRAMES = 9
  NPTENTRIES = 2
  NPDENTRIES = 3
  Threads = {1, 2, 3}
  SIZES = {1, 3}
SPECIFICATION Spec
CHECK_DEADLOCK FALSE
INVARIANT OwnMemory
