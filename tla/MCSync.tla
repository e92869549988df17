-------------------------------- MODULE MCSync --------------------------------
(***************************************************************************)
(* What threads and processes wait for one another with, on small           *)
(* instances: the reader/writer lock, the semaphore under it, and a pipe.  *)
(* A behaviour is of one of the three.                                     *)
(***************************************************************************)
EXTENDS RWLock
CONSTANTS Idx, NTHREAD,
          Writers, Readers, PIPESIZE, UINT, LENGTHS, WCALLS, RCALLS
VARIABLES
  part,
  count, waiting, lk, plock, xpc, next,
  data, nread, nwrite, readopen, writeopen, files, killed, ppc, flight
\* The threads that share a semaphore are those of one process, which has NTHREAD of
\* them.  Their indexes are those of the process table, any of them.
ASSUME SemaphoreAssumption ==
  /\ NTHREAD \in Nat \ {0}
  /\ Idx \subseteq Nat
  /\ IsFiniteSet(Idx) /\ Cardinality(Idx) <= NTHREAD
\* The counters of a pipe wrap around at a multiple of its size, and it is made with
\* both ends open.
ASSUME PipeAssumption ==
  /\ PIPESIZE \in Nat \ {0}
  /\ UINT \in Nat /\ \E m \in 2 .. UINT : UINT = m * PIPESIZE
  /\ LENGTHS \subseteq Nat
  /\ IsFiniteSet(Writers) /\ IsFiniteSet(Readers) /\ Writers \cap Readers = {}
  /\ Writers # {} /\ Readers # {}

X == INSTANCE Xem WITH Threads <- Idx, pc <- xpc
P == INSTANCE Pipe WITH pc <- ppc

xvars == <<count, waiting, lk, plock, xpc, next>>
pvars == <<data, nread, nwrite, readopen, writeopen, files, killed, ppc, flight>>
allvars == <<part, vars, xvars, pvars>>

SInit == /\ part \in {"rwlock", "xem", "pipe"}
         /\ Init /\ X!Init /\ P!Init
         /\ part # "pipe" => nread = 0

Lock == part = "rwlock" /\ Next /\ UNCHANGED <<part, xvars, pvars>>
Xem == part = "xem" /\ X!Next /\ UNCHANGED <<part, vars, pvars>>
Pipe == part = "pipe" /\ P!Next /\ UNCHANGED <<part, vars, xvars>>
\* The processes of a pipe make a few calls, close it and stop.  A semaphore whose
\* queue has refused a thread may come to a standstill.
AllClosed == \A p \in Writers \cup Readers : ppc[p].at = "closed"
Stopped == /\ \/ part = "pipe" /\ AllClosed
              \/ part = "xem" /\ X!Refused # {}
           /\ UNCHANGED allvars
SNext == Lock \/ Xem \/ Pipe \/ Stopped

SFairness ==
  /\ \A p \in Threads : WF_vars(part = "rwlock" /\ (Reader(p) \/ Writer(p)))
  /\ \A p \in Idx : SF_xvars(part = "xem" /\ X!GoOn(p))
  /\ \A p \in Writers \cup Readers : WF_pvars(part = "pipe" /\ P!Run(p))
SSpec == SInit /\ [][SNext]_allvars /\ SFairness

\* The parts' properties, which are stated in their modules, joined.
\* The semaphore admits one user at a time, as count is the number of those that it
\* owes a permit; its variables and those of the lock hold what they may.
OneHolder == TypeOK /\ X!TypeOK /\ X!CountIsBalance /\ X!MutualExclusion
\* Who sleeps on the semaphore is in its queue or about to be woken, and who sleeps on
\* a pipe waits for what another process can do.
NobodyLeftAsleep == X!NoLostWakeup /\ P!SleepersWaitForOthers
\* The bytes in the pipe are those written and not yet read, in their order.
PipeExact == P!PipeExact
\* The lock is a shared/exclusive lock, and the semaphore hands out its permits in the
\* order of the requests.
ImplementLocks == ImplementsLock /\ X!ImplementsSemaphore
\* Readers, writers and those who wait for the semaphore are served in the end, and
\* every process at a pipe gets to close its end.
EveryoneServed ==
  /\ NoStarvation
  /\ X!WaiterServed
  /\ (part = "pipe") => P!EveryoneReturns
===============================================================================
