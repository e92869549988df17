CONSTANTS
  NONE = NONE
  Four = {q1, q2, q3, q4}
  Procs = {p1, p2}
  Tasks = {p1, p2}
  CPUs = {1, 2}
  FIRST = 1
  FREE = FREE
  NBUF = 3
  Blocks = {1, 2, 3, 4}
  CHANGED = {1}
  FAULTY = {2}
  CALLS = 2
  MAXDIRTY = 1
SPECIFICATION KSpec
VIEW Shape
SYMMETRY Sym
CHECK_DEADLOCK FALSE
INVARIANTS SharesKept NobodyAhead LocksUsedRight BlocksCached
PROPERTY LinesKept
