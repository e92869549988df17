CONSTANTS
  num_of_buffer = 3
  Values = {0, 1}
  GROW = 3
  MAXPAGE = 3
  HELD = 2
  PINS = 1
  VALUED = {2}
  Trx = {t1, t2, t3}
  Keys = {1, 2}
  Leaves = {1, 2}
  NONE = NONE
  CALLS = 2
SPECIFICATION DSpec
VIEW Shape
SYMMETRY Sym
CHECK_DEADLOCK FALSE
INVARIANTS LocksGranted RecordsKept
PROPERTY PagesKept
