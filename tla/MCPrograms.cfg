CONSTANTS
  NULL = NULL
  CONSOLE = CONSOLE
SPECIFICATION PSpec
VIEW Shape
CONSTRAINT Unraced
CHECK_DEADLOCK FALSE
INVARIANTS StructuresExact TreesKept FilesExact MemoryExact DescriptorsCounted CompilerExact RouteExact UserProgramsExact
PROPERTY RunsSource
