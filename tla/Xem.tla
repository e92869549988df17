--------------------------------- MODULE Xem ---------------------------------
(***************************************************************************)
(* The kernel semaphore of xem.c: xem_wait and xem_unlock, with the two    *)
(* spinlocks they take, the semaphore's lk and ptable.lock.  What runs     *)
(* with lk held and neither sleeps nor takes ptable.lock is one step.      *)
(* A waiter sleeps once, on its own struct proc, and takes every wakeup    *)
(* for a grant.                                                            *)
(***************************************************************************)
EXTENDS Integers, Sequences, FiniteSets

CONSTANTS Threads,    \* the idx of the threads that share the semaphore
          NTHREAD

Q == INSTANCE CircQueue WITH Capacity <- NTHREAD + 1, Idx <- Threads

VARIABLES count, waiting,
          lk, plock,  \* who holds the semaphore's lk and ptable.lock
          pc,
          next        \* thread -> the waiter its xem_unlock took out
vars == <<count, waiting, lk, plock, pc, next>>

None == -1
PCs == {"out", "tosleep", "falling", "asleep", "woken", "in", "wake"}

\* xem_init
Init ==
  /\ count = 1
  /\ waiting = Q!NewQueue(Q!Empty)
  /\ lk = None
  /\ plock = None
  /\ pc = [p \in Threads |-> "out"]
  /\ next = [p \in Threads |-> None]

Goto(p, label) == pc' = [pc EXCEPT ![p] = label]

\* Mutant: "count >= 0".
WaitPassLate(p) ==
  /\ pc[p] = "out"
  /\ lk = None
  /\ count >= 0
  /\ count' = count - 1
  /\ Goto(p, "in")
  /\ UNCHANGED <<waiting, lk, plock, next>>

\* xem_wait: the permit is free ...
WaitPass(p) ==
  /\ pc[p] = "out"
  /\ lk = None
  /\ count > 0
  /\ count' = count - 1
  /\ Goto(p, "in")
  /\ UNCHANGED <<waiting, lk, plock, next>>

\* ... or p queues up, and calls sleep(cur, &semaphore->lk) with lk held.  What
\* circular_queue_enqueue returns is not looked at: a p it refuses sleeps all the same.
WaitBlock(p) ==
  /\ pc[p] = "out"
  /\ lk = None
  /\ count <= 0
  /\ count' = count - 1
  /\ waiting' = Q!Enqueue(waiting, p)
  /\ lk' = p
  /\ Goto(p, "tosleep")
  /\ UNCHANGED <<plock, next>>

\* sleep(): ptable.lock first, then lk is given up.
SleepLock(p) ==
  /\ pc[p] = "tosleep"
  /\ plock = None
  /\ plock' = p
  /\ lk' = None
  /\ Goto(p, "falling")
  /\ UNCHANGED <<count, waiting, next>>

\* sleep(): state = SLEEPING, and the switch frees ptable.lock.
FallAsleep(p) ==
  /\ pc[p] = "falling"
  /\ plock' = None
  /\ Goto(p, "asleep")
  /\ UNCHANGED <<count, waiting, lk, next>>

\* The end of sleep() takes lk again, xem_wait frees it and returns.
Resume(p) ==
  /\ pc[p] = "woken"
  /\ lk = None
  /\ Goto(p, "in")
  /\ UNCHANGED <<count, waiting, lk, plock, next>>

\* xem_unlock: nobody waits ...
UnlockFree(p) ==
  /\ pc[p] = "in"
  /\ lk = None
  /\ Q!IsEmpty(waiting)
  /\ count' = count + 1
  /\ Goto(p, "out")
  /\ UNCHANGED <<waiting, lk, plock, next>>

\* ... or the first waiter is taken out and will be woken, lk still held.
UnlockPass(p) ==
  /\ pc[p] = "in"
  /\ lk = None
  /\ ~Q!IsEmpty(waiting)
  /\ count' = count + 1
  /\ waiting' = Q!Dequeue(waiting)
  /\ next' = [next EXCEPT ![p] = Q!DequeueReply(waiting)]
  /\ lk' = p
  /\ Goto(p, "wake")
  /\ UNCHANGED plock

\* wakeup1(&ptable.proc[q]): q wakes if it is asleep, and else nothing happens.
Wakened(q) == IF pc[q] = "asleep" THEN [pc EXCEPT ![q] = "woken"] ELSE pc

\* xem_wakeup, then release(lk).
Wake(p) ==
  /\ pc[p] = "wake"
  /\ plock = None
  /\ pc' = [Wakened(next[p]) EXCEPT ![p] = "out"]
  /\ next' = [next EXCEPT ![p] = None]
  /\ lk' = None
  /\ UNCHANGED <<count, waiting, plock>>

\* exit() of a child process of p: wakeup1(cur->parent) uses the same channel.
ChildExit(p) ==
  /\ plock = None
  /\ pc[p] = "asleep"
  /\ pc' = Wakened(p)
  /\ UNCHANGED <<count, waiting, lk, plock, next>>

xem_wait(p) == \/ WaitPass(p) \/ WaitBlock(p) \/ SleepLock(p)
               \/ FallAsleep(p) \/ Resume(p)
xem_unlock(p) == UnlockFree(p) \/ UnlockPass(p) \/ Wake(p)

Next == \E p \in Threads : xem_wait(p) \/ xem_unlock(p)
Spec == Init /\ [][Next]_vars

\* A process that forks before it waits.
ParentSpec == Init /\ [][Next \/ \E p \in Threads : ChildExit(p)]_vars

\* A thread that has begun a call gets every spinlock it spins for in the end
\* (the holders only run straight-line code), and a user of the semaphore
\* unlocks it.  Nobody has to call xem_wait.
GoOn(p) == \/ SleepLock(p) \/ FallAsleep(p) \/ Resume(p) \/ xem_unlock(p)
Fairness == \A p \in Threads : SF_vars(GoOn(p))
FairSpec == Spec /\ Fairness
------------------------------------------------------------------------------
InQueue(p) == \E k \in DOMAIN Q!Contents(waiting) : Q!Contents(waiting)[k] = p
Blocked == {"tosleep", "falling", "asleep", "woken"}

TypeOK ==
  /\ count \in Int
  /\ waiting \in Q!CQueue
  /\ {lk, plock} \subseteq Threads \cup {None}
  /\ pc \in [Threads -> PCs]
  /\ next \in [Threads -> Threads \cup {None}]

\* Who was refused by the queue: nobody will wake it.
Refused ==
  {p \in Threads : /\ pc[p] \in {"tosleep", "falling", "asleep"} /\ ~InQueue(p)
                   /\ \A q \in Threads : ~(pc[q] = "wake" /\ next[q] = p)}
\* Who has the permit: from the moment a waiter is taken out of the queue, it has it.
Inside ==
  {p \in Threads : pc[p] = "in" \/ (pc[p] \in Blocked /\ ~InQueue(p))} \ Refused

\* No lost wakeup: a sleeper is in the queue, or its wakeup is on the way.  Only the
\* thread whose index the scan for duplicates can meet by mistake may be left out.
NoLostWakeup ==
  \A p \in Threads : pc[p] = "asleep" =>
    \/ InQueue(p) \/ p = NTHREAD
    \/ \E q \in Threads : pc[q] = "wake" /\ next[q] = p

\* count is what is left of the one permit when its owner, those who wait for it, and
\* who waits in vain, have taken theirs.
CountIsBalance ==
  count = 1 - Cardinality(Inside \cup Refused) - Len(Q!Contents(waiting))

\* Waiters get the permit one at a time, in the order in which they came.
Abs == INSTANCE Semaphore WITH
         permits <- IF count > 0 THEN count ELSE 0,
         waiters <- Q!Contents(waiting),
         inside <- Inside,
         lost <- Refused,
         Unheard <- {NTHREAD}
ImplementsSemaphore == Abs!Spec

\* The semaphore as a lock, which is how the reader/writer lock uses it.
MutualExclusion ==
  \A p, q \in Threads : pc[p] = "in" /\ pc[q] = "in" => p = q

\* Every waiter gets its turn, as long as the queue refuses nobody: who is refused
\* keeps its permit from the others.
WaiterServed ==
  \A p \in Threads : (pc[p] \in Blocked) ~> (pc[p] = "in" \/ Refused # {})
==============================================================================
