-------------------------------- MODULE RWLock --------------------------------
(***************************************************************************)
(* The reader/writer lock of xem.c, as the threads of a process use it in  *)
(* saferw.c: three semaphores and a counter, no lock of its own.  A        *)
(* semaphore is what module Semaphore promises (Xem shows that xem_wait    *)
(* and xem_unlock keep it): a permit and a queue, changed in one step.     *)
(* pc[p] is the next statement of p; while p is in the queue of a          *)
(* semaphore, the xem_wait before that statement has not returned.         *)
(***************************************************************************)
EXTENDS Integers, Sequences, FiniteSets

CONSTANT Threads
ASSUME ThreadsAssumption == IsFiniteSet(Threads)

VARIABLES permits,   \* semaphore -> 1 if it is free
          waiters,   \* semaphore -> its waiting queue
          reader,    \* the readers counted in
          pc
vars == <<permits, waiters, reader, pc>>

Sems == {"starvlock", "racelock", "sharelock"}
Labels == {"out",
           "r_race", "r_count", "r_share", "r_unrace", "r_unstarv", "reading",
           "d_count", "d_unshare", "d_unrace",
           "w_share", "writing", "x_unstarv"}

\* rwlock_init
Init ==
  /\ permits = [s \in Sems |-> 1]
  /\ waiters = [s \in Sems |-> <<>>]
  /\ reader = 0
  /\ pc = [p \in Threads |-> "out"]

Waits(p, s) == \E i \in DOMAIN waiters[s] : waiters[s][i] = p
At(p, label) == pc[p] = label /\ \A s \in Sems : ~Waits(p, s)
Goto(p, label) == pc' = [pc EXCEPT ![p] = label]

xem_wait(s, p) ==
  \/ /\ permits[s] = 1
     /\ permits' = [permits EXCEPT ![s] = 0]
     /\ UNCHANGED waiters
  \/ /\ permits[s] = 0
     /\ waiters' = [waiters EXCEPT ![s] = Append(@, p)]
     /\ UNCHANGED permits

xem_unlock(s) ==
  \/ /\ waiters[s] = <<>>
     /\ permits' = [permits EXCEPT ![s] = 1]
     /\ UNCHANGED waiters
  \/ /\ waiters[s] # <<>>
     /\ waiters' = [waiters EXCEPT ![s] = Tail(@)]
     /\ UNCHANGED permits

Wait(p, from, s, to) == /\ At(p, from)
                        /\ xem_wait(s, p)
                        /\ Goto(p, to)
                        /\ UNCHANGED reader
Unlock(p, from, s, to) == /\ At(p, from)
                          /\ xem_unlock(s)
                          /\ Goto(p, to)
                          /\ UNCHANGED reader

------------------------------------------------------------------------------
\* rwlock_acquire_readlock
ReadRequest(p) == Wait(p, "out", "starvlock", "r_race")
ReadRace(p) == Wait(p, "r_race", "racelock", "r_count")
ReadCount(p) ==
  /\ At(p, "r_count")
  /\ reader' = reader + 1
  /\ Goto(p, IF reader' = 1 THEN "r_share" ELSE "r_unrace")
  /\ UNCHANGED <<permits, waiters>>
ReadShare(p) == Wait(p, "r_share", "sharelock", "r_unrace")
ReadUnrace(p) == Unlock(p, "r_unrace", "racelock", "r_unstarv")
ReadUnstarv(p) == Unlock(p, "r_unstarv", "starvlock", "reading")

\* rwlock_release_readlock
DoneRace(p) == Wait(p, "reading", "racelock", "d_count")
\* Mutant: the first reader to leave frees the lock.
DoneCountFirst(p) ==
  /\ At(p, "d_count")
  /\ reader' = reader - 1
  /\ Goto(p, "d_unshare")
  /\ UNCHANGED <<permits, waiters>>
\* Mutant: the last reader frees the lock and stays counted.
DoneCountStays(p) ==
  /\ At(p, "d_count")
  /\ reader' = IF reader = 1 THEN 1 ELSE reader - 1
  /\ Goto(p, IF reader = 1 THEN "d_unshare" ELSE "d_unrace")
  /\ UNCHANGED <<permits, waiters>>
DoneCount(p) ==
  /\ At(p, "d_count")
  /\ reader' = reader - 1
  /\ Goto(p, IF reader' = 0 THEN "d_unshare" ELSE "d_unrace")
  /\ UNCHANGED <<permits, waiters>>
DoneUnshare(p) == Unlock(p, "d_unshare", "sharelock", "d_unrace")
DoneUnrace(p) == Unlock(p, "d_unrace", "racelock", "out")

\* rwlock_acquire_writelock
WriteRequest(p) == Wait(p, "out", "starvlock", "w_share")
WriteShare(p) == Wait(p, "w_share", "sharelock", "writing")

\* rwlock_release_writelock
WriteUnshare(p) == Unlock(p, "writing", "sharelock", "x_unstarv")
\* Mutant: the writer keeps the starvlock.
WriteUnstarvNever(p) == At(p, "x_unstarv") /\ Goto(p, "out")
                        /\ UNCHANGED <<permits, waiters, reader>>
WriteUnstarv(p) == Unlock(p, "x_unstarv", "starvlock", "out")

Reader(p) == \/ ReadRace(p) \/ ReadCount(p) \/ ReadShare(p) \/ ReadUnrace(p)
             \/ ReadUnstarv(p) \/ DoneRace(p) \/ DoneCount(p) \/ DoneUnshare(p)
             \/ DoneUnrace(p)
Writer(p) == WriteShare(p) \/ WriteUnshare(p) \/ WriteUnstarv(p)
Next == \E p \in Threads : ReadRequest(p) \/ WriteRequest(p) \/ Reader(p) \/ Writer(p)
Spec == Init /\ [][Next]_vars

\* A thread in the middle of a call or of its pread or pwrite goes on.
FairSpec == Spec /\ \A p \in Threads : WF_vars(Reader(p) \/ Writer(p))
------------------------------------------------------------------------------
Reads(p) == pc[p] = "reading"
Writes(p) == pc[p] = "writing" /\ ~Waits(p, "sharelock")
Counted == {p \in Threads :
              pc[p] \in {"r_share", "r_unrace", "r_unstarv", "reading", "d_count"}}

TypeOK ==
  /\ permits \in [Sems -> {0, 1}]
  /\ waiters \in [Sems -> Seq(Threads)]
  /\ reader \in Int
  /\ pc \in [Threads -> Labels]

\* A writer is alone with the file: no other writer, no reader.
WriterExclusion ==
  \A p, q \in Threads : Writes(p) /\ (Writes(q) \/ Reads(q)) => p = q

\* reader counts the readers between the two updates of it, whatever the order
\* in which they come and go.
ReaderCount == reader = Cardinality(Counted)

\* Readers share and writers exclude: the lock of the textbook.
Abs == INSTANCE SharedExclusive WITH readers <- {p \in Threads : Reads(p)},
                                     writers <- {p \in Threads : Writes(p)}
ImplementsLock == Abs!Spec

\* Neither readers nor writers starve, however the others come.
NoStarvation ==
  \A p \in Threads : /\ (pc[p] = "w_share") ~> Writes(p)
                     /\ (pc[p] = "r_race") ~> Reads(p)
==============================================================================
