CONSTANTS
  NPROC = 4
  c1 = c1
  c2 = c2
  CPUS = {c1}
  MaxPid = 2
  MaxThid = 2
  Killable = {}
  May <- MayThread

SPECIFICATION Spec
INVARIANTS NobodyForgotten RingsSound
