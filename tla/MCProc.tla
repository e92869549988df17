------------------------------- MODULE MCProc --------------------------------
(***************************************************************************)
(* Workloads and bounds for Proc.                                          *)
(***************************************************************************)
EXTENDS Proc, TLC

CONSTANTS c1, c2

CpuSymmetry == Permutations(CPUS)
Processes == {"init", "main"}

\* Single-threaded processes that fork, die, are killed by init and waited
\* for.
MayKill == ({"fork", "exit", "wait"} \X Processes) \cup {<<"kill", "init">>}
\* A small part of it, for the liveness run, in which a fork may fail.
MayDie == {"fork", "wait"} \X Processes
  \cup {"kill", "nomem"} \X {"init"}
\* init starts a process whose threads come, go, block and are joined.
MayThread == {<<"fork", "init">>} \cup {"thread_exit", "read"} \X {"thread"}
  \cup {"thread_create", "thread_join", "exit", "exec", "nomem"} \X {"main"}

(***************************************************************************)
(* Workloads that lead where a comment of the source says the program does *)
(* not go.                                                                 *)
(***************************************************************************)
MayForkInThread == {<<"fork", "init">>, <<"thread_create", "main">>,
                    <<"exit", "main">>, <<"fork", "thread">>}
MayExecInThread == {<<"fork", "init">>, <<"thread_create", "main">>,
                    <<"exec", "thread">>}
MayKillZombie == {<<"fork", "init">>, <<"kill", "init">>,
                  <<"thread_create", "main">>, <<"exit", "main">>}
MayKillFailed == {<<"fork", "init">>, <<"kill", "init">>, <<"nomem", "init">>}
MayKillReader == {<<"fork", "init">>, <<"kill", "init">>, <<"read", "main">>}
MayWaitThread == {<<"fork", "init">>, <<"wait", "init">>,
                  <<"thread_create", "main">>, <<"thread_exit", "thread">>}
MayFailTwo == {<<"fork", "init">>, <<"nomem", "main">>}
              \cup {"thread_create"} \X {"main", "thread"}
MayExitRunning == {<<"fork", "init">>, <<"thread_create", "main">>,
                   <<"exit", "main">>, <<"read", "thread">>}
-----------------------------------------------------------------------------
\* The properties of Proc, joined.
\* Fields hold what they may, a group runs on one CPU, and every process has a parent
\* that is alive to wait for it (proc.c, exit and clear_thread).
TableSound == TypeOK /\ OneCpu /\ ParentLive
\* A killed process was named in a kill, and none sleeps on without having been woken
\* for it, but for those that close their files in exit (kill against sleep and against
\* the reuse of slots).
KillsArrive == KilledWasSignalled /\ NoKilledSleeper
\* A group with a runnable thread runs, is queued, or is about to be queued, because
\* runblenum counts its runnable threads exactly.
NobodyForgotten == NoLostRunnable /\ RunnableCount
\* The threads of a process are one ring, every walk along it ends, and each page table
\* is freed once, when its last user is gone.  A thread_create that got no memory for a
\* kernel stack leaves a free slot in the ring and stops the kernel.
RingsSound == RingIntact /\ NoBreakdown /\ PageTableOwned
==============================================================================
