CONSTANTS
  Procs = {p1, p2}
  Names = {a, d}
  NINODES = 3
  NINODE = 5
  CALLS = 2
  Trees <- SomeTrees
  Paths <- SomePaths
  Starting = {"cwd"}
  None = None
  a = a
  d = d
SPECIFICATION Spec
SYMMETRY Sym
CHECK_DEADLOCK FALSE
INVARIANTS CountsExact NothingLost
