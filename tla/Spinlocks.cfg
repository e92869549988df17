CONSTANTS
  CPUs = {c1, c2}
  Tasks = {p1, p2}
  FREE = FREE
  FIRST = c1
SPECIFICATION SpinSpec
INVARIANT NoSpinCycle
