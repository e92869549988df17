------------------------------ MODULE MCPrograms ------------------------------
(***************************************************************************)
(* The parts of the repository that run by themselves, one at a time, each *)
(* on a small instance and next to what its caller should find: the data   *)
(* structures, the block map of a file, the memory of processes and their  *)
(* descriptors, the parts of user programs, the tree of the first          *)
(* database, the compiler, the assembler and the line tracer.  v1 .. v9    *)
(* are the variables of the part that runs, in the order in which its      *)
(* module declares them.                                                   *)
(***************************************************************************)
EXTENDS Integers, Sequences
CONSTANTS NULL, CONSOLE
VARIABLES part, v1, v2, v3, v4, v5, v6, v7, v8, v9
vars == <<part, v1, v2, v3, v4, v5, v6, v7, v8, v9>>

D == INSTANCE DataStructures WITH
       s <- v1, ref <- v2, MAX_LEVEL <- 3, TABLE_SIZE <- 3, MAX_NODES <- 7, M_WAY <- 3,
       MAX_VERTICES <- 4, MAX_SIZE <- 6, EDGES <- 4, Capacity <- 4, INF <- 1000,
       Keys <- 1 .. 4, TreeKeys <- 1 .. 7, Numbers <- 0 .. 3, Names <- {1, 2},
       Weights <- {1, 3}, Coefs <- {1, -1}, LEAF_ORDER <- 3, INTERNAL_ORDER <- 4,
       project <- 5, GROW <- 3, INT_MAX <- 1000, LEAST <- 0, Records <- 1 .. 7
\* Two files, as they are when most of their blocks are behind indirect ones.
Blk == INSTANCE FileBlocks WITH
       fs <- v1, user <- v2, image <- v1, content <- v2, done <- v3,
       NDIRECT <- 2, NINDIRECT <- 4, MAXOPBLOCKS <- 10, BPB <- 16, Disks <- {32, 99}, Files <- {1, 2},
       Starts <- {1, 5, 20}, Offsets <- {0, 1, 5, 21, 85}, WRITES <- 2
\* The first process and another; kalloc fails after 14 frames or fewer.
Mem == INSTANCE Memory WITH
       k <- v1, user <- v2, NFRAMES <- 14, NPTENTRIES <- 2, NPDENTRIES <- 3,
       Procs <- {1, 2}, First <- 1, TAKEN <- 0 .. 5, GROWTH <- {1, 4, -1, -2}, CHANGES <- 4,
       sz <- v1, pages <- v2, UINT <- 24, WORD <- 2, UserFrames <- 1 .. 4
F == INSTANCE Descriptors WITH
       file <- v1, pipe <- v2, iref <- v3, th <- v4, calls <- v5, panicked <- v6, raced <- v7,
       Threads <- {1, 2, 3}, First <- 1, NOFILE <- 2, NFILE <- 3, Pages <- {1}, CALLS <- 5
Tree == INSTANCE MemTree WITH t <- v1, keys <- v2, order <- 4, TreeKeys <- 1 .. 10
C == INSTANCE CMinus WITH
       decls <- v1, func <- v2, body <- v3, moves <- v4, MOVES <- 2, DEEP <- 3,
       Ids <- {"x", "y", "a", "p", "q", "f", "g", "input", "output"}, Nums <- {"0", "1", "2"}
Tiny == INSTANCE TinyCompiler WITH
       text <- v1, pieces <- v2, Letters <- {"i", "f"}, Digits <- {"0"}, BUFLEN <- 4,
       Reserved <- {<<"i", "f">>}, PIECES <- 4,
       source <- v1, given <- v2, iMem <- v3, tm <- v4, IADDR_SIZE <- 64, DADDR_SIZE <- 8,
       COUNTS <- {5, 20}, Typed <- {<<3, 2>>, <<0, 2>>}
Asm == INSTANCE LC2K WITH
       program <- v1, machine <- v2, MAXLABEL <- 6, NUMMEMORY <- 8, NUMREGS <- 8,
       STEPS <- 8, LINES <- 3
Car == INSTANCE LineTracer WITH
       course <- v1, goal <- v2, at <- v3, from <- v4, mode <- v5, phase <- v6,
       branch_list <- v7, optimal_route <- v8, now <- v9, SIZE <- 100, DEPTH <- 3, PLACES <- 7
ShellLines == INSTANCE Shell WITH
       procs <- 0, pipes <- 0, line <- 0, MAXARGS <- 4, UNITS <- 2, Commands <- {}
Commands == ShellLines!Lines
Sh == INSTANCE Shell WITH
       procs <- v1, pipes <- v2, line <- v3, MAXARGS <- 4, UNITS <- 2
\* The image of mkfs, read by the kernel.
Image == INSTANCE FileBlocks WITH
       image <- v1, content <- v2, done <- v3, fs <- v1, user <- v2,
       NDIRECT <- 2, NINDIRECT <- 4, MAXOPBLOCKS <- 10, BPB <- 99, Disks <- {}, Files <- 1 .. 4,
       Starts <- {}, Offsets <- {}, WRITES <- 0
Lib == INSTANCE UserLibrary WITH
       text <- v1, number <- v2, Letters <- {2, 3}, DIRSIZ <- 2, UINT <- 256, MAXLEN <- 7,
       h <- v1, used <- v2, NALLOC <- 5, LIMIT <- 16, UNITS <- {2, 3, 7},
       pattern <- v1, input <- v2, kind <- v3, rest <- v4, buf <- v5, out <- v6, ended <- v7,
       BUFSIZE <- 4

\* The variables that a part leaves out.
Off7 == v8 = 0 /\ v9 = 0
Off4 == v5 = 0 /\ v6 = 0 /\ v7 = 0 /\ Off7
Off3 == v4 = 0 /\ Off4
Off2 == v3 = 0 /\ Off3
PInit ==
  \/ D!Init /\ Off2
  \/ part = "files" /\ Blk!BInit /\ Off2
  \/ part = "memory" /\ Mem!MInit /\ Off2
  \/ part = "descriptors" /\ F!Init /\ Off7
  \/ part = "malloc" /\ Lib!AInit /\ Off2
  \/ part = "memtree" /\ Tree!TInit /\ Off2
  \/ part = "compiler" /\ C!PInit /\ Off4
  \/ part = "scanner" /\ Tiny!XInit /\ Off2
  \/ part = "tiny" /\ Tiny!TInit /\ Off4
  \/ part = "lc2k" /\ Asm!LInit /\ Off2
  \/ part = "tracer" /\ Car!Init
  \/ part = "shell" /\ Sh!Init /\ Off3
  \/ part = "image" /\ Image!ImageInit /\ Off3
  \/ part = "grep" /\ Lib!Init /\ Off7
  \/ part = "strings" /\ Lib!XInit /\ Off2
  \/ part = "usermemory" /\ Mem!UInit /\ Off2

Rest7 == UNCHANGED <<part, v8, v9>>
Rest4 == UNCHANGED <<v5, v6, v7>> /\ Rest7
Rest3 == UNCHANGED v4 /\ Rest4
Rest2 == UNCHANGED v3 /\ Rest3
StructureStep == D!Next /\ Rest2
FilesStep == part = "files" /\ Blk!BNext /\ Rest2
MemoryStep == part = "memory" /\ Mem!MNext /\ Rest2
DescriptorsStep == part = "descriptors" /\ F!Next /\ Rest7
MallocStep == part = "malloc" /\ Lib!ANext /\ Rest2
MemTreeStep == part = "memtree" /\ Tree!TNext /\ Rest2
CompilerStep == part = "compiler" /\ C!PNext /\ Rest4
ScannerStep == part = "scanner" /\ Tiny!XNext /\ Rest2
TinyStep == part = "tiny" /\ Tiny!TNext /\ Rest4
AssemblerStep == part = "lc2k" /\ Asm!LNext /\ Rest2
TracerStep == part = "tracer" /\ Car!Next /\ UNCHANGED part
ShellStep == part = "shell" /\ Sh!Next /\ Rest3
ImageStep == part = "image" /\ Image!ImageNext /\ Rest3
GrepStep == part = "grep" /\ Lib!Next /\ Rest7
StringsStep == part = "strings" /\ Lib!XNext /\ Rest2
UserMemoryStep == part = "usermemory" /\ Mem!UNext /\ Rest2
PNext == 
  \/ StructureStep \/ FilesStep \/ MemoryStep \/ DescriptorsStep \/ MallocStep
  \/ MemTreeStep \/ CompilerStep \/ ScannerStep \/ TinyStep \/ AssemblerStep
  \/ TracerStep \/ ShellStep \/ ImageStep \/ GrepStep
  \/ StringsStep \/ UserMemoryStep
PSpec == PInit /\ [][PNext]_vars

\* What the closing of other threads' files can lead to is not followed any further.
Unraced == part = "descriptors" => ~v7
\* Trees that differ in the numbers of their nodes only are alike.
Shape == CASE part = "table" -> <<part, D!B!Shape, v2>>
           [] part = "memtree" -> <<part, Tree!TreeShape, v2>>
           [] OTHER -> vars
-----------------------------------------------------------------------------
\* The properties of the parts, which are stated in their modules, joined.
\* Data structures and algorithms do what their operations promise, whatever is done
\* with them in which order.
StructuresExact == D!StructuresExact
\* The trees of the databases hold what was put into them, with leaves in order, every
\* page in use or free and nodes that know their parents; ranges and joins are complete.
TreesKept ==
  /\ D!TablesKept
  /\ part = "memtree" => Tree!RangesExact /\ Tree!NodesExact /\ Tree!PrintedByLevel
\* Files, also those that mkfs makes, read as they were written, their blocks are in one
\* place of one file, and a write stays within what begin_op reserved but for blocks of
\* the bitmap after the first, and for one block where there are holes.
FilesExact ==
  /\ part = "files" => Blk!FileExact /\ Blk!BlocksAccounted /\ Blk!OpFits
  /\ part = "image" => Image!ImageExact
\* Every frame is in one place, a process finds in its pages what it wrote, and system
\* calls touch only memory that is the caller's.
MemoryExact ==
  /\ part = "memory" => Mem!FramesOnce /\ Mem!MemoryExact
  /\ part = "usermemory" => Mem!ArgsExact /\ Mem!CopyExact
\* The counts of open files and of pipe ends are those of the descriptors.
DescriptorsCounted == part = "descriptors" => F!RefsExact /\ F!EndsExact
\* The compilers find the tokens, the trees and the errors of their languages, and the
\* code for the machine prints what the program writes.
CompilerExact ==
  /\ part = "scanner" => Tiny!ScanExact
  /\ part = "tiny" => Tiny!TinyExact
  /\ part = "compiler" => C!SyntaxExact /\ C!AnalyzerExact
\* An assembled instruction does what its source line says.
RunsSource == [][part = "lc2k" => Asm!DoesAsWritten]_v2
\* The route driven in the second phase is the shortest, and the car is where its
\* record says.
RouteExact == part = "tracer" => Car!RouteShortest /\ Car!OnRoute
\* The user programs of xv6: the shell runs a line as it was meant, prompts again when
\* the commands in the foreground are over, and leaves nobody at a pipe for ever; the
\* heap's blocks do not overlap and free ones are joined; grep prints the lines that
\* match; paths, copies and numbers come out exactly.
UserProgramsExact ==
  /\ part = "shell" => Sh!ParsesBack /\ Sh!ForegroundDone /\ Sh!NobodyHangs
  /\ part = "malloc" => Lib!HeapPartitioned /\ Lib!Joined
  /\ part = "grep" => Lib!GrepExact
  /\ part = "strings" => Lib!PathExact /\ Lib!CopyExact /\ Lib!NumbersExact
===============================================================================
