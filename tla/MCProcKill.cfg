CONSTANTS
  NPROC = 4
  c1 = c1
  c2 = c2
  CPUS = {c1, c2}
  MaxPid = 4
  MaxThid = 0
  Killable = {3}
  May <- MayKill
SYMMETRY CpuSymmetry
SPECIFICATION Spec
INVARIANTS TableSound NoLostExit KillsArrive
PROPERTY ImplementsLifecycle
