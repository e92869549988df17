-------------------------------- MODULE Sbrk --------------------------------
(***************************************************************************)
(* Threads of one process in sbrk (sysproc.c, growproc of proc.c).  The     *)
(* timer can take the processor from a thread between reading the size, as *)
(* the address to return, changing the page table, and storing the new     *)
(* size; allocuvm is taken as one step.                                    *)
(***************************************************************************)
EXTENDS Integers
CONSTANTS NFRAMES, NPTENTRIES, NPDENTRIES, Threads, SIZES
VARIABLES m, p,   \* the memory and the main thread
          pc, n, addr, \* of each thread: where it is, what it asked for, what it gets
          newsz
\* The operators on frames and page tables; the calls are those of this module.
M == INSTANCE Memory WITH
  k <- m, user <- p, Procs <- {}, First <- 0, TAKEN <- {}, GROWTH <- {}, CHANGES <- 0,
  UINT <- 64, WORD <- 2, UserFrames <- {}, sz <- p, pages <- p
vars == <<m, p, pc, n, addr, newsz>>

Init ==
  /\ m = M!userinit(M!Booted).m /\ p = M!userinit(M!Booted).p
  /\ pc = [t \in Threads |-> "run"]
  /\ n \in [Threads -> SIZES]
  /\ addr = [t \in Threads |-> 0] /\ newsz = [t \in Threads |-> 0]
sys_sbrk(t) ==
  /\ pc[t] = "run" /\ ~m.panic
  /\ pc' = [pc EXCEPT ![t] = "grow"] /\ addr' = [addr EXCEPT ![t] = p.sz]
  /\ UNCHANGED <<m, p, n, newsz>>
Grow(t) ==
  LET r == M!growproc(m, p, n[t])
  IN  /\ pc[t] = "grow" /\ ~m.panic
      /\ m' = r.m
      /\ pc' = [pc EXCEPT ![t] = IF r.ok THEN "store" ELSE "failed"]
      /\ newsz' = [newsz EXCEPT ![t] = r.p.sz]
      /\ UNCHANGED <<p, n, addr>>
Stored(t) ==
  /\ pc[t] = "store" /\ ~m.panic
  /\ p' = [p EXCEPT !.sz = newsz[t]]
  /\ pc' = [pc EXCEPT ![t] = "done"]
  /\ UNCHANGED <<m, n, addr, newsz>>
Next == \E t \in Threads : sys_sbrk(t) \/ Grow(t) \/ Stored(t)
Spec == Init /\ [][Next]_vars
-----------------------------------------------------------------------------
\* What sbrk gave a thread is not given to another one (sbrktest of test_thread2.c).
OwnMemory ==
  \A t, u \in Threads :
    t # u /\ pc[t] = "done" /\ pc[u] = "done" => addr[t] + n[t] <= addr[u] \/ addr[u] + n[u] <= addr[t]
=============================================================================
