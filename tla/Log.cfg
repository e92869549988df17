CONSTANTS
  Ops = {p1, p2}
  Blocks = {b1, b2, b3, b4}
  INODESTART = b1
  Values = {0, 1}
  MAXOPBLOCKS = 2
  LOGSIZE = 4
SYMMETRY LogSymmetry
SPECIFICATION Spec
INVARIANTS SpaceKept Durable
PROPERTY ImplementsAtomicDisk
