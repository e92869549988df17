CONSTANTS
  NPROC = 2
  MAXCAPACITY = 3
SPECIFICATION FairSpec
INVARIANTS TypeOK DuplicateOnlyAcrossWrap
PROPERTIES ImplementsFifo NoStarvation
