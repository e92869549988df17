CONSTANTS
  NPROC = 3
  c1 = c1
  c2 = c2
  CPUS = {c1}
  MaxPid = 3
  MaxThid = 0
  Killable = {2,3}
  May <- MayDie
SPECIFICATION FairSpec
PROPERTY KilledDies
