-------------------------------- MODULE Mlfq ---------------------------------
(***************************************************************************)
(* The multilevel feedback queue of the scheduler (mlfq.c and              *)
(* priorityboost in proc.c): three circular queues of process-table        *)
(* indexes.  Every call is made with ptable.lock held, so each is one      *)
(* step.                                                                   *)
(***************************************************************************)
EXTENDS Integers, Sequences

CONSTANTS MAXCAPACITY,   \* NPROC + 1
          NPROC

ASSUME NPROCAssumption == NPROC \in Nat /\ NPROC >= 1
ASSUME MAXCAPACITYAssumption == MAXCAPACITY = NPROC + 1

HLEVEL == 0
MLEVEL == 1
LLEVEL == 2
Levels == {HLEVEL, MLEVEL, LLEVEL}
ProcIdx == 0 .. NPROC - 1

Q == INSTANCE CircQueue WITH Capacity <- MAXCAPACITY, Idx <- ProcIdx

VARIABLES mlfq,      \* level -> struct cqueue
          reply,     \* the last call: its arguments and what it returned
          boosting   \* the level the running priorityboost drains, or None
vars == <<mlfq, reply, boosting>>

None == -1

Call(level, idx, ret) == [level |-> level, idx |-> idx, ret |-> ret]

\* A static array: every slot starts as 0, which is also an index.
Init ==
  /\ mlfq = [l \in Levels |-> Q!NewQueue(0)]
  /\ reply = Call(None, None, Q!Empty)
  /\ boosting = None

enqueue(idx, level) ==
  /\ boosting = None
  /\ mlfq' = [mlfq EXCEPT ![level] = Q!Enqueue(@, idx)]
  /\ reply' = Call(level, idx, Q!EnqueueReply(mlfq[level], idx))
  /\ UNCHANGED boosting

dequeue(level) ==
  /\ boosting = None
  /\ mlfq' = [mlfq EXCEPT ![level] = Q!Dequeue(@)]
  /\ reply' = Call(None, None, Q!DequeueReply(mlfq[level]))
  /\ UNCHANGED boosting

NonEmpty == {l \in Levels : ~Q!IsEmpty(mlfq[l])}

\* The highest level that is not empty gives the next process.
pickprocmlfq ==
  \/ \E l \in NonEmpty : /\ \A m \in NonEmpty : l <= m
                         /\ dequeue(l)
  \/ /\ NonEmpty = {}
     /\ boosting = None
     /\ reply' = Call(None, None, Q!Empty)
     /\ UNCHANGED <<mlfq, boosting>>

\* Mutant: a boost moves processes only into an empty top level.
CanMoveIntoEmpty(from) == Q!IsEmpty(mlfq[HLEVEL]) /\ ~Q!IsEmpty(mlfq[from])

(***************************************************************************)
(* priorityboost empties the middle level into the top one and then the    *)
(* low level, an entry at a time, until the source is empty or the top is  *)
(* full.  A refused entry is dropped.  The caller holds ptable.lock, so no *)
(* other call comes between two turns of its loops.                        *)
(***************************************************************************)
CanMove(from) == ~Q!IsFull(mlfq[HLEVEL]) /\ ~Q!IsEmpty(mlfq[from])

StartBoost ==
  /\ boosting = None
  /\ boosting' = MLEVEL
  /\ UNCHANGED <<mlfq, reply>>

MoveUp(from) ==
  /\ boosting = from
  /\ CanMove(from)
  /\ LET idx == Q!DequeueReply(mlfq[from])
     IN  mlfq' = [mlfq EXCEPT ![from] = Q!Dequeue(@),
                              ![HLEVEL] = Q!Enqueue(@, idx)]
  /\ UNCHANGED <<reply, boosting>>

EndLoop(from) ==
  /\ boosting = from
  /\ ~CanMove(from)
  /\ boosting' = IF from = MLEVEL THEN LLEVEL ELSE None
  /\ UNCHANGED <<mlfq, reply>>

priorityboost == StartBoost \/ \E from \in {MLEVEL, LLEVEL} :
                                 MoveUp(from) \/ EndLoop(from)

Next ==
  \/ \E idx \in ProcIdx, level \in Levels : enqueue(idx, level)
  \/ pickprocmlfq
  \/ priorityboost

Spec == Init /\ [][Next]_vars

\* The loop of scheduler() never stops picking, a boost comes after a pick has
\* been served (proc.c:526), and its loops run to their end.
Fairness == SF_vars(pickprocmlfq) /\ WF_vars(priorityboost)
FairSpec == Spec /\ Fairness

------------------------------------------------------------------------------
TypeOK ==
  /\ mlfq \in [Levels -> Q!CQueue]
  /\ reply \in [level : Levels \cup {None}, idx : ProcIdx \cup {None},
                ret : ProcIdx \cup {Q!Empty}]
  /\ boosting \in {None, MLEVEL, LLEVEL}

\* An index is in a level at most twice, and twice only while it is the oldest
\* entry, stored in slot 0 with head on the last slot: the duplicate test of
\* enqueue (mlfq.c:37-44) misses nothing else.
DuplicateOnlyAcrossWrap ==
  \A l \in Levels :
    LET q == mlfq[l]
        c == Q!Contents(q)
    IN  \A j, k \in DOMAIN c :
          j < k /\ c[j] = c[k] =>
            /\ j = 1
            /\ q.head = MAXCAPACITY - 1

\* The three arrays and cursors behave as bounded FIFO queues: enqueue refuses
\* only a queued index or a full queue, dequeue gives the oldest entry, and a
\* boost loses nothing (mlfq.c, proc.c:864-898).
Abs == INSTANCE Fifo WITH Bound <- MAXCAPACITY - 1, Idx <- ProcIdx,
                          queue <- [l \in Levels |-> Q!Contents(mlfq[l])]
ImplementsFifo == Abs!Spec

\* Whatever the others do, a queued process is handed out in the end, even
\* from the lowest level while the top one never runs dry: the scheduler keeps
\* picking (proc.c:456) and boosts every 200 ticks (proc.c:526-529).  The one
\* way to starve is a top level without room at the boosts, and that takes an
\* entry for each slot of the table, one of them a duplicate.
Crowded ==
  LET c == Q!Contents(mlfq[HLEVEL])
  IN  Q!IsFull(mlfq[HLEVEL]) /\ \E j, k \in DOMAIN c : j # k /\ c[j] = c[k]
NoStarvation ==
  \A idx \in ProcIdx :
    (\E l \in Levels : idx \in Abs!Range(Q!Contents(mlfq[l])))
      ~> (reply = Call(None, None, idx) \/ Crowded)
==============================================================================
