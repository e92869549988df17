------------------------------- MODULE MCKernel -------------------------------
(***************************************************************************)
(* Parts of the kernel, one at a time, each on a small instance: the       *)
(* scheduler's shares, spinlocks and interrupts, the buffer cache and the  *)
(* console.  v1 .. v12 are the variables of the part that runs, in the     *)
(* order in which its module declares them; the buffer cache and the       *)
(* spinlocks keep their own.                                               *)
(***************************************************************************)
EXTENDS Integers, Buffers, Spinlocks, TLC
CONSTANT Four
VARIABLES part, v1, v2, v3, v4, v5, v6, v7, v8, v9, v10, v11, v12
kvars == <<part, v1, v2, v3, v4, v5, v6, v7, v8, v9, v10, v11, v12>>
allvars == <<kvars, vars, spinvars>>

S == INSTANCE Sched WITH
       state <- v1, level <- v2, ticks <- v3, tickets <- v4, queue <- v5, strheap <- v6,
       mlfqpv <- v7, sumtickets <- v8, passti <- v9, cpu <- v10, pbcount <- v11,
       mlfqpvadd <- v12,
       Procs <- Four, MAXCAPACITY <- 6, BIGNUM <- 6, HALLOT <- 1, MALLOT <- 3,
       HQUANTUM <- 1, MQUANTUM <- 2, LQUANTUM <- 3, TOTAL <- 5, CAP <- 4, BOOST <- 3,
       IDLE <- 1, INT_MAX <- 1000000, Requests <- {1, 2}
C == INSTANCE Console WITH
       buf <- v1, r <- v2, w <- v3, e <- v4, keys <- v5, killed <- v6, pc <- v7,
       committed <- v8, line <- v9,
       Readers <- Procs, INPUT_BUF <- 4, UINT <- 8, COUNTS <- {1, 3}, TYPED <- 5

\* The variables that a part leaves out.
Off9 == v10 = 0 /\ v11 = 0 /\ v12 = 0
Off0 == /\ v1 = 0 /\ v2 = 0 /\ v3 = 0 /\ v4 = 0 /\ v5 = 0 /\ v6 = 0 /\ v7 = 0
        /\ v8 = 0 /\ v9 = 0 /\ Off9
KInit ==
  /\ Init /\ SpinInit
  /\ \/ part = "sched" /\ S!Init
     \/ part = "console" /\ C!Init /\ Off9
     \/ part \in {"buffers", "spinlocks"} /\ Off0

Rest12 == UNCHANGED <<part, vars, spinvars>>
Rest9 == UNCHANGED <<v10, v11, v12>> /\ Rest12
SchedStep == part = "sched" /\ S!Next /\ Rest12
SpinlocksStep == part = "spinlocks" /\ SpinNext /\ UNCHANGED <<kvars, vars>>
BuffersStep == part = "buffers" /\ Next /\ UNCHANGED <<kvars, spinvars>>
ConsoleStep == part = "console" /\ C!Next /\ Rest9
KNext == SchedStep \/ SpinlocksStep \/ BuffersStep \/ ConsoleStep
KSpec == KInit /\ [][KNext]_allvars

-----------------------------------------------------------------------------
Shape ==
  CASE part = "sched" -> S!Relative [] part = "buffers" -> vars
    [] part = "spinlocks" -> spinvars [] OTHER -> kvars
Sym == Permutations(Procs)

\* The properties of the parts, which are stated in their modules, joined; those of the
\* buffer cache are BlocksCached, those of the spinlocks LocksUsedRight.
\* Who can run waits in exactly one place, the heap is one, and tickets add up to what
\* their owners have (scheduler, set_cpu_share, exit).
SharesKept ==
  part = "sched" => S!TypeOK /\ S!QueuedOnce /\ S!SharesAddUp /\ S!HeapOrdered
\* Nobody gets ahead of its share by more than a slice.
NobodyAhead == part = "sched" => S!NobodyAhead
\* The console's ring holds what was typed and edited, nobody sleeps on a line, and a
\* read that meets the end of file leaves it to the next.
LinesKept ==
  /\ [](part = "console" => C!RingExact /\ C!NoStall)
  /\ [][part = "console" => C!EofLeft]_kvars
===============================================================================
