----------------------------- MODULE MlfqProofs ------------------------------
(***************************************************************************)
(* Proofs about the ready queues, for every number of processes: the       *)
(* arrays and cursors stay well formed, an index is queued twice only      *)
(* where the duplicate scan does not look, and the three circular queues   *)
(* implement three bounded FIFO queues.                                    *)
(***************************************************************************)
EXTENDS Mlfq, SequenceTheorems, TLAPS

C == INSTANCE CircQueueProofs WITH Capacity <- MAXCAPACITY, Idx <- ProcIdx

WellFormed(q) == C!WellFormed(q)

Replies == [level : Levels \cup {None}, idx : ProcIdx \cup {None},
            ret : ProcIdx \cup {Q!Empty}]

QueuesOK == \A l \in Levels : WellFormed(mlfq[l])

Inv == TypeOK /\ QueuesOK

\* The operators of CircQueue mean the same under both names.
LEMMA SaneQueues == C!Sane
  BY NPROCAssumption, MAXCAPACITYAssumption DEF C!Sane, ProcIdx

LEMMA SameShape == Q!CQueue = C!CQueue /\ Q!Empty = C!Empty /\ Q!Positions = C!Positions
  BY DEF Q!CQueue, C!CQueue, Q!Positions, C!Positions, Q!Empty, C!Empty

LEMMA SameContents ==
  ASSUME NEW q
  PROVE  Q!Length(q) = C!Length(q) /\ Q!Contents(q) = C!Contents(q)
  BY DEF Q!Length, C!Length, Q!Contents, C!Contents

LEMMA SameTests ==
  ASSUME NEW q
  PROVE  (Q!IsEmpty(q) <=> C!IsEmpty(q)) /\ (Q!IsFull(q) <=> C!IsFull(q))
  BY DEF Q!IsEmpty, C!IsEmpty, Q!IsFull, C!IsFull

LEMMA SameDequeue ==
  ASSUME NEW q
  PROVE  Q!Dequeue(q) = C!Dequeue(q) /\ Q!DequeueReply(q) = C!DequeueReply(q)
  BY SameShape, SameTests DEF Q!Dequeue, C!Dequeue, Q!DequeueReply, C!DequeueReply

LEMMA SameAccepts ==
  ASSUME NEW q, NEW idx
  PROVE  Q!Accepts(q, idx) <=> C!Accepts(q, idx)
<1>1. Q!Scanned(q) = C!Scanned(q)
  BY SameShape, SameContents DEF Q!Scanned, C!Scanned
<1>2. \A i : Q!Read(q, i) = C!Read(q, i)
  BY DEF Q!Read, C!Read
<1> QED BY SameTests, <1>1, <1>2 DEF Q!Accepts, C!Accepts, Q!Seen, C!Seen

LEMMA SameEnqueue ==
  ASSUME NEW q, NEW idx
  PROVE  /\ Q!Enqueue(q, idx) = C!Enqueue(q, idx)
         /\ Q!EnqueueReply(q, idx) = C!EnqueueReply(q, idx)
  BY SameShape, SameAccepts DEF Q!Enqueue, C!Enqueue, Q!EnqueueReply, C!EnqueueReply

LEMMA SameNew ==
  ASSUME NEW v
  PROVE  Q!NewQueue(v) = C!NewQueue(v)
  BY SameShape DEF Q!NewQueue, C!NewQueue

\* The lemmas about circular queues, for the queues of this module.
LEMMA Shape ==
  ASSUME NEW q, WellFormed(q)
  PROVE  q \in Q!CQueue
  BY SameShape DEF WellFormed, C!WellFormed

LEMMA Cursors ==
  ASSUME NEW q \in Q!CQueue
  PROVE  /\ q.head \in 0 .. MAXCAPACITY - 1 /\ q.tail \in 0 .. MAXCAPACITY - 1
         /\ MAXCAPACITY \in Nat /\ MAXCAPACITY >= 2
         /\ Q!Positions = 0 .. MAXCAPACITY - 1
  BY SaneQueues, SameShape, C!Cursors DEF Q!Positions

\* The number of entries and the slot of the k-th one, without "modulo".
LEMMA LengthValue ==
  ASSUME NEW q \in Q!CQueue
  PROVE  /\ Q!Length(q) = IF q.head <= q.tail THEN q.tail - q.head
                                              ELSE q.tail - q.head + MAXCAPACITY
         /\ Q!Length(q) \in 0 .. MAXCAPACITY - 1
  BY SaneQueues, SameShape, SameContents, C!LengthValue

\* A cursor moved on by one.
LEMMA NextSlot ==
  ASSUME NEW i \in 0 .. MAXCAPACITY - 1
  PROVE  /\ (i + 1) % MAXCAPACITY = IF i = MAXCAPACITY - 1 THEN 0 ELSE i + 1
         /\ (i + 1) % MAXCAPACITY \in 0 .. MAXCAPACITY - 1
  BY SaneQueues, C!NextSlot

\* The contents of a well-formed queue, as a sequence of indexes.
LEMMA ContentsValue ==
  ASSUME NEW q, WellFormed(q)
  PROVE  /\ Q!Contents(q) \in Seq(ProcIdx)
         /\ Len(Q!Contents(q)) = Q!Length(q)
         /\ Q!Length(q) \in 0 .. MAXCAPACITY - 1
         /\ \A k \in 1 .. Q!Length(q) :
              /\ Q!Contents(q)[k] = q.arr[(q.head + k) % MAXCAPACITY]
              /\ (q.head + k) % MAXCAPACITY \in C!Window(q)
  BY SaneQueues, SameShape, SameContents, C!ContentsValue DEF WellFormed

\* An accepted enqueue keeps a queue well formed and appends to its contents.
LEMMA EnqueueAppends ==
  ASSUME NEW q, WellFormed(q), NEW idx \in ProcIdx, Q!Accepts(q, idx)
  PROVE  /\ WellFormed(Q!Enqueue(q, idx))
         /\ Q!Length(q) < MAXCAPACITY - 1
         /\ Q!Length(Q!Enqueue(q, idx)) = Q!Length(q) + 1
         /\ Q!Contents(Q!Enqueue(q, idx)) = Append(Q!Contents(q), idx)
  BY SaneQueues, SameShape, SameContents, SameAccepts, SameEnqueue, C!EnqueueAppends DEF WellFormed

\* A dequeue of a queue with entries takes the oldest one and returns it.
LEMMA DequeueTakesHead ==
  ASSUME NEW q, WellFormed(q), ~Q!IsEmpty(q)
  PROVE  /\ WellFormed(Q!Dequeue(q))
         /\ Q!Length(q) > 0
         /\ Q!DequeueReply(q) \in ProcIdx
         /\ Q!DequeueReply(q) = Head(Q!Contents(q))
         /\ Q!Contents(q) # <<>>
         /\ Q!Contents(Q!Dequeue(q)) = Tail(Q!Contents(q))
  BY SaneQueues, SameShape, SameContents, SameTests, SameDequeue, C!DequeueTakesHead DEF WellFormed

\* An enqueue is refused only for an index that is queued or a full queue: the
\* lap the scan may make over slots that are not queued finds nothing there.
LEMMA RefusalJustified ==
  ASSUME NEW q, WellFormed(q), NEW idx \in ProcIdx, ~Q!Accepts(q, idx)
  PROVE  \/ Q!Length(q) = MAXCAPACITY - 1
         \/ \E k \in 1 .. Q!Length(q) : Q!Contents(q)[k] = idx
  <1>1. idx # MAXCAPACITY - 1
  BY NPROCAssumption, MAXCAPACITYAssumption DEF ProcIdx
<1> QED BY <1>1, SaneQueues, SameShape, SameContents, SameAccepts, C!RefusalJustified DEF WellFormed

------------------------------------------------------------------------------
LEMMA InitInv == Init => Inv
<1> SUFFICES ASSUME Init PROVE Inv
  OBVIOUS
<1> DEFINE z == Q!NewQueue(0)
<1>2. z \in Q!CQueue /\ WellFormed(z)
  BY SaneQueues, SameShape, SameContents, SameNew, C!NewQueueEmpty, Shape DEF WellFormed
<1>5. \A l \in Levels : mlfq[l] = z
  BY DEF Init
<1> HIDE DEF z
<1>6. QueuesOK
  BY <1>2, <1>5 DEF QueuesOK
<1>7. TypeOK
  <2>1. mlfq \in [Levels -> Q!CQueue]
    BY <1>2 DEF Init, z
  <2>2. reply = Call(None, None, Q!Empty) /\ boosting = None
    BY DEF Init
  <2>3. Call(None, None, Q!Empty) \in Replies
    BY DEF Call, Replies
  <2> QED BY <2>1, <2>2, <2>3 DEF TypeOK, Replies
<1> QED BY <1>6, <1>7 DEF Inv

\* What each call does to one queue, in terms of its contents.
LEMMA EnqueueStep ==
  ASSUME NEW q, WellFormed(q), NEW idx \in ProcIdx
  PROVE  /\ WellFormed(Q!Enqueue(q, idx))
         /\ Q!EnqueueReply(q, idx) \in ProcIdx \cup {Q!Empty}
  BY SaneQueues, SameShape, SameEnqueue, C!EnqueueStep DEF WellFormed

LEMMA StepInv == Inv /\ [Next]_vars => Inv'
<1> SUFFICES ASSUME Inv, [Next]_vars PROVE Inv'
  OBVIOUS
<1> USE DEF Inv, TypeOK, Replies
<1>a. ASSUME NEW f \in [Levels -> Q!CQueue], mlfq' = f,
             \A l \in Levels : WellFormed(f[l]),
             reply' \in Replies,
             boosting' \in {None, MLEVEL, LLEVEL}
      PROVE  Inv'
  BY <1>a DEF QueuesOK
<1>b. HLEVEL \in Levels /\ MLEVEL \in Levels /\ LLEVEL \in Levels
  BY DEF Levels
<1>1. ASSUME NEW idx \in ProcIdx, NEW level \in Levels, enqueue(idx, level)
      PROVE  Inv'
  <2>1. WellFormed(mlfq[level])
    BY DEF QueuesOK
  <2> DEFINE r == Q!Enqueue(mlfq[level], idx)
             f == [mlfq EXCEPT ![level] = r]
  <2>2. /\ WellFormed(r) /\ r \in Q!CQueue
        /\ reply' \in Replies
    BY <1>1, <2>1, EnqueueStep, Shape DEF enqueue, Call, Replies
  <2>3. mlfq' = f /\ boosting' = boosting
    BY <1>1 DEF enqueue
  <2> HIDE DEF r
  <2>4. f \in [Levels -> Q!CQueue] /\ \A l \in Levels : WellFormed(f[l])
    BY <2>2 DEF QueuesOK
  <2> HIDE DEF f
  <2> QED BY <1>a, <2>2, <2>3, <2>4
<1>2. CASE pickprocmlfq
  <2>1. CASE NonEmpty = {} /\ boosting = None /\ UNCHANGED <<mlfq, boosting>>
                 /\ reply' = Call(None, None, Q!Empty)
    BY <2>1 DEF QueuesOK, Call
  <2>2. CASE \E l \in NonEmpty : (\A m \in NonEmpty : l <= m) /\ dequeue(l)
    <3>1. PICK l \in NonEmpty : dequeue(l)
      BY <2>2
    <3>2. l \in Levels /\ WellFormed(mlfq[l]) /\ ~Q!IsEmpty(mlfq[l])
      BY DEF NonEmpty, QueuesOK
    <3> DEFINE r == Q!Dequeue(mlfq[l])
               f == [mlfq EXCEPT ![l] = r]
    <3>3. mlfq' = f /\ boosting' = boosting
      BY <3>1 DEF dequeue
    <3>4. /\ WellFormed(r) /\ r \in Q!CQueue
          /\ reply' \in Replies
      BY <3>1, <3>2, DequeueTakesHead, Shape DEF dequeue, Call, Replies
    <3> HIDE DEF r
    <3>5. f \in [Levels -> Q!CQueue] /\ \A m \in Levels : WellFormed(f[m])
      BY <3>2, <3>4 DEF QueuesOK
    <3> HIDE DEF f
    <3> QED BY <1>a, <3>3, <3>4, <3>5
  <2> QED BY <1>2, <2>1, <2>2 DEF pickprocmlfq
<1>3. CASE priorityboost
  <2>1. CASE StartBoost
    BY <2>1 DEF StartBoost, QueuesOK
  <2>2. ASSUME NEW from \in {MLEVEL, LLEVEL}, MoveUp(from)
        PROVE  Inv'
    <3> DEFINE idx == Q!DequeueReply(mlfq[from])
               top == mlfq[HLEVEL]
    <3>1. from \in Levels /\ from # HLEVEL
      BY DEF Levels, MLEVEL, LLEVEL, HLEVEL
    <3>2. WellFormed(mlfq[from]) /\ WellFormed(top) /\ ~Q!IsEmpty(mlfq[from])
      BY <1>b, <2>2, <3>1 DEF QueuesOK, MoveUp, CanMove
    <3>3. WellFormed(Q!Dequeue(mlfq[from])) /\ idx \in ProcIdx
      BY <3>2, DequeueTakesHead
    <3>4. WellFormed(Q!Enqueue(top, idx))
      BY <3>2, <3>3, EnqueueStep
    <3> DEFINE r == Q!Dequeue(mlfq[from])
               s == Q!Enqueue(top, idx)
               f == [mlfq EXCEPT ![from] = r, ![HLEVEL] = s]
    <3>5. mlfq' = f /\ reply' = reply /\ boosting' = boosting
      BY <2>2, <3>1 DEF MoveUp
    <3>6. r \in Q!CQueue /\ s \in Q!CQueue
      BY <3>3, <3>4, Shape
    <3> HIDE DEF idx, top, r, s
    <3>7. f \in [Levels -> Q!CQueue]
      BY <3>6
    <3>8. \A l \in Levels : WellFormed(f[l])
      BY <1>b, <3>1, <3>3, <3>4 DEF QueuesOK, r, s
    <3> HIDE DEF f
    <3> QED BY <1>a, <3>5, <3>7, <3>8
  <2>3. ASSUME NEW from \in {MLEVEL, LLEVEL}, EndLoop(from)
        PROVE  Inv'
    BY <2>3 DEF EndLoop, QueuesOK
  <2> QED BY <1>3, <2>1, <2>2, <2>3 DEF priorityboost
<1>4. CASE UNCHANGED vars
  BY <1>4 DEF vars, QueuesOK
<1> QED BY <1>1, <1>2, <1>3, <1>4 DEF Next

\* The queues, their cursors and every reply stay in range (mlfq.c).
THEOREM TypeCorrect == Spec => []TypeOK
<1>1. Inv => TypeOK
  BY DEF Inv
<1> QED BY <1>1, InitInv, StepInv, PTL DEF Spec

\* The k-th entries are in slots of their own.
LEMMA SlotsApart ==
  ASSUME NEW q \in Q!CQueue, NEW j \in 1 .. MAXCAPACITY - 1, NEW k \in 1 .. MAXCAPACITY - 1,
         j < k
  PROVE  /\ (q.head + j) % MAXCAPACITY # (q.head + k) % MAXCAPACITY
         /\ q.head = MAXCAPACITY - 1 /\ (q.head + j) % MAXCAPACITY = 0 => j = 1
         /\ q.head = MAXCAPACITY - 1 => (q.head + k) % MAXCAPACITY # 0
  BY SaneQueues, SameShape, C!SlotsApart

\* The duplicate test of enqueue misses an index only when it is the oldest entry,
\* stored in slot 0 while head is on the last slot (mlfq.c:37-44).
THEOREM DuplicatesOnlyThere == Spec => []DuplicateOnlyAcrossWrap
<1>1. Inv => DuplicateOnlyAcrossWrap
  <2> SUFFICES ASSUME Inv, NEW l \in Levels,
                      NEW j \in DOMAIN Q!Contents(mlfq[l]),
                      NEW k \in DOMAIN Q!Contents(mlfq[l]),
                      j < k, Q!Contents(mlfq[l])[j] = Q!Contents(mlfq[l])[k]
               PROVE  j = 1 /\ mlfq[l].head = MAXCAPACITY - 1
    BY DEF DuplicateOnlyAcrossWrap
  <2> DEFINE q == mlfq[l]
  <2>1. WellFormed(q) BY DEF Inv, QueuesOK
  <2> HIDE DEF q
  <2>2. /\ Q!Length(q) \in 0 .. MAXCAPACITY - 1
        /\ \A i \in 1 .. Q!Length(q) :
             /\ Q!Contents(q)[i] = q.arr[(q.head + i) % MAXCAPACITY]
             /\ (q.head + i) % MAXCAPACITY \in C!Window(q)
    BY <2>1, ContentsValue
  <2>3. j \in 1 .. Q!Length(q) /\ k \in 1 .. Q!Length(q)
    BY DEF Q!Contents, q
  <2>4. MAXCAPACITY \in Nat BY NPROCAssumption, MAXCAPACITYAssumption
  <2>5. j \in 1 .. MAXCAPACITY - 1 /\ k \in 1 .. MAXCAPACITY - 1 BY <2>2, <2>3, <2>4
  <2>6. q \in Q!CQueue BY <2>1, Shape
  <2> DEFINE a == (q.head + j) % MAXCAPACITY
             b == (q.head + k) % MAXCAPACITY
  <2>7. /\ a # b
        /\ q.head = MAXCAPACITY - 1 /\ a = 0 => j = 1
        /\ q.head = MAXCAPACITY - 1 => b # 0
    BY <2>5, <2>6, SlotsApart
  <2>8. q.arr[a] = q.arr[b] /\ a \in C!Window(q) /\ b \in C!Window(q)
    BY <2>2, <2>3 DEF q
  <2> HIDE DEF a, b
  <2>9. q.head = MAXCAPACITY - 1 /\ (a = 0 \/ b = 0)
    BY <2>1, <2>7, <2>8 DEF WellFormed, C!WellFormed, C!OnceEach
  <2> QED BY <2>7, <2>9 DEF q
<1> QED BY <1>1, InitInv, StepInv, PTL DEF Spec

------------------------------------------------------------------------------
\* The queues as the abstract specification sees them.
AbsQueue == [l \in Levels |-> Q!Contents(mlfq[l])]

LEMMA EmptyContents ==
  ASSUME NEW q, WellFormed(q)
  PROVE  Q!Contents(q) = <<>> <=> Q!IsEmpty(q)
  BY SaneQueues, SameShape, SameContents, SameTests, C!EmptyContents DEF WellFormed

LEMMA InitFifo == Init => Abs!Init
<1> SUFFICES ASSUME Init PROVE Abs!Init
  OBVIOUS
<1> DEFINE z == Q!NewQueue(0)
<1>1. \A l \in Levels : mlfq[l] = z
  BY DEF Init
<1>2. z.head = 0 /\ z.tail = 0 /\ z \in Q!CQueue
  BY NPROCAssumption, MAXCAPACITYAssumption
     DEF Q!NewQueue, Q!CQueue, Q!Positions
<1>3. Q!Length(z) = 0
  BY <1>2, LengthValue
<1>4. Q!Contents(z) = <<>>
  BY <1>3 DEF Q!Contents
<1> HIDE DEF z
<1>5. [l \in Levels |-> Q!Contents(mlfq[l])] = [l \in Levels |-> <<>>]
  BY <1>1, <1>4
<1> QED BY <1>5 DEF Abs!Init, Abs!None, None, Abs!Call, Call, Init, Q!Empty

LEMMA StepFifo == Inv /\ [Next]_vars => [Abs!Next]_(Abs!vars)
<1> SUFFICES ASSUME Inv, [Next]_vars PROVE [Abs!Next]_(Abs!vars)
  OBVIOUS
<1> USE DEF Inv, TypeOK
<1> DEFINE c(l) == Q!Contents(mlfq[l])
           Bound == MAXCAPACITY - 1
<1>a. HLEVEL \in Levels /\ MLEVEL \in Levels /\ LLEVEL \in Levels
  BY DEF Levels
<1>b. \A l \in Levels : WellFormed(mlfq[l])
  BY DEF QueuesOK
<1>c. \A l \in Levels : c(l) = <<>> <=> Q!IsEmpty(mlfq[l])
  BY <1>b, EmptyContents
<1>1. ASSUME NEW idx \in ProcIdx, NEW level \in Levels, enqueue(idx, level)
      PROVE  Abs!Next
  <2> DEFINE q == mlfq[level]
  <2>1. WellFormed(q)
    BY <1>b
  <2>2. CASE Q!Accepts(q, idx)
    <3>1. /\ Len(c(level)) < Bound
          /\ Q!Contents(Q!Enqueue(q, idx)) = Append(c(level), idx)
      BY <2>1, <2>2, EnqueueAppends, ContentsValue
    <3>2. mlfq' = [mlfq EXCEPT ![level] = Q!Enqueue(q, idx)] 
          /\ reply' = Call(level, idx, idx)
      BY <1>1, <2>2 DEF enqueue, Q!EnqueueReply
    <3>3. [l \in Levels |-> Q!Contents(mlfq'[l])] =
            [AbsQueue EXCEPT ![level] = Append(@, idx)]
      BY <3>1, <3>2 DEF AbsQueue
    <3>4. AbsQueue[level] = c(level)
      BY DEF AbsQueue
    <3>5. Abs!Append1(level, idx)
      BY <3>1, <3>2, <3>3, <3>4 DEF Abs!Append1, Abs!Call, Call, AbsQueue
    <3> QED BY <3>5 DEF Abs!Next
  <2>3. CASE ~Q!Accepts(q, idx)
    <3>1. mlfq' = mlfq /\ reply' = Call(level, idx, Q!Empty)
      BY <1>1, <2>3 DEF enqueue, Q!Enqueue, Q!EnqueueReply
    <3>2. \/ Q!Length(q) = Bound
          \/ \E k \in 1 .. Q!Length(q) : c(level)[k] = idx
      BY <2>1, <2>3, RefusalJustified
    <3>3. Len(c(level)) = Q!Length(q) /\ DOMAIN c(level) = 1 .. Q!Length(q)
      BY <2>1, ContentsValue, LenProperties
    <3>4. Len(c(level)) = Bound \/ idx \in Abs!Range(c(level))
      BY <3>2, <3>3 DEF Abs!Range
    <3>5. [l \in Levels |-> c(l)][level] = c(level)
      OBVIOUS
    <3>6. Abs!Refuse(level, idx)
      BY <3>1, <3>4, <3>5 DEF Abs!Refuse, Abs!None, Abs!Call, Call, Q!Empty
    <3> QED BY <3>6 DEF Abs!Next
  <2> QED BY <2>2, <2>3
<1>2. CASE pickprocmlfq
  <2>1. CASE NonEmpty = {} /\ reply' = Call(None, None, Q!Empty) /\ UNCHANGED mlfq
    <3>1. \A l \in Levels : c(l) = <<>>
      BY <2>1, <1>c DEF NonEmpty
    <3>2. Abs!TakeNothing
      BY <2>1, <3>1 DEF Abs!TakeNothing, Abs!None, None, Abs!Call, Call, Q!Empty
    <3> QED BY <3>2 DEF Abs!Next
  <2>2. CASE \E l \in NonEmpty : (\A m \in NonEmpty : l <= m) /\ dequeue(l)
    <3>1. PICK l \in NonEmpty : (\A m \in NonEmpty : l <= m) /\ dequeue(l)
      BY <2>2
    <3> DEFINE q == mlfq[l]
    <3>2. l \in Levels /\ WellFormed(q) /\ ~Q!IsEmpty(q)
      BY <1>b DEF NonEmpty
    <3>3. /\ mlfq' = [mlfq EXCEPT ![l] = Q!Dequeue(q)]
          /\ reply' = Call(None, None, Q!DequeueReply(q))
      BY <3>1 DEF dequeue
    <3>4. /\ c(l) # <<>> /\ Q!DequeueReply(q) = Head(c(l))
          /\ Q!Contents(Q!Dequeue(q)) = Tail(c(l))
      BY <3>2, DequeueTakesHead
    <3>5. [k \in Levels |-> Q!Contents(mlfq'[k])] = [AbsQueue EXCEPT ![l] = Tail(@)]
      BY <3>2, <3>3, <3>4 DEF AbsQueue
    <3>6. AbsQueue[l] = c(l)
      BY <3>2 DEF AbsQueue
    <3>7. \A m \in Levels : AbsQueue[m] # <<>> => l <= m
      BY <1>c, <3>1 DEF NonEmpty, AbsQueue
    <3>8. Abs!Take(l)
      BY <3>3, <3>4, <3>5, <3>6, <3>7 DEF Abs!Take, Abs!None, None, Abs!Call, Call, AbsQueue
    <3> QED BY <3>2, <3>8 DEF Abs!Next
  <2> QED BY <1>2, <2>1, <2>2 DEF pickprocmlfq
<1>3. CASE priorityboost
  <2>1. ASSUME NEW from \in {MLEVEL, LLEVEL}, MoveUp(from)
        PROVE  Abs!Next
    <3> DEFINE q == mlfq[from]
               top == mlfq[HLEVEL]
               idx == Q!DequeueReply(q)
    <3>1. from \in Levels /\ from # HLEVEL /\ HLEVEL = 0
      BY DEF Levels, MLEVEL, LLEVEL, HLEVEL
    <3>2. WellFormed(q) /\ WellFormed(top) /\ ~Q!IsEmpty(q) /\ ~Q!IsFull(top)
      BY <1>a, <1>b, <2>1, <3>1 DEF MoveUp, CanMove
    <3>3. /\ c(from) # <<>> /\ idx = Head(c(from)) /\ idx \in ProcIdx
          /\ Q!Contents(Q!Dequeue(q)) = Tail(c(from))
      BY <3>2, DequeueTakesHead
    <3>4. /\ mlfq' = [mlfq EXCEPT ![from] = Q!Dequeue(q),
                                  ![HLEVEL] = Q!Enqueue(top, idx)]
          /\ reply' = reply
      BY <2>1, <3>1 DEF MoveUp
    <3>5. AbsQueue[from] = c(from) /\ AbsQueue[0] = c(HLEVEL)
      BY <1>a, <3>1 DEF AbsQueue
    <3>6. Q!Length(top) < Bound /\ Len(c(HLEVEL)) = Q!Length(top)
      <4>1. Len(c(HLEVEL)) = Q!Length(top) /\ Q!Length(top) \in 0 .. Bound
        BY <3>2, ContentsValue
      <4>2. Q!Length(top) # Bound
        <5> DEFINE h == top.head
                   t == top.tail
        <5>1. /\ h \in 0 .. MAXCAPACITY - 1 /\ t \in 0 .. MAXCAPACITY - 1
              /\ MAXCAPACITY \in Nat /\ MAXCAPACITY >= 2
          BY <3>2, Cursors, Shape
        <5>2. h # IF t = MAXCAPACITY - 1 THEN 0 ELSE t + 1
          BY <3>2, <5>1, NextSlot DEF Q!IsFull
        <5>3. Q!Length(top) = IF h <= t THEN t - h ELSE t - h + MAXCAPACITY
          BY <3>2, LengthValue, Shape
        <5> HIDE DEF h, t, top
        <5> QED BY <5>1, <5>2, <5>3
      <4> HIDE DEF top, c
      <4> QED BY <4>1, <4>2, NPROCAssumption, MAXCAPACITYAssumption
    <3>7. CASE Q!Accepts(top, idx)
      <4>1. Q!Contents(Q!Enqueue(top, idx)) = Append(c(HLEVEL), idx)
        BY <3>2, <3>3, <3>7, EnqueueAppends
      <4>2. [l \in Levels |-> Q!Contents(mlfq'[l])] =
              [AbsQueue EXCEPT ![from] = Tail(@), ![0] = Append(@, idx)]
        BY <1>a, <3>1, <3>3, <3>4, <3>5, <4>1 DEF AbsQueue
      <4>3. Abs!Promote(from)
        BY <3>1, <3>3, <3>4, <3>5, <3>6, <4>2 DEF Abs!Promote, AbsQueue
      <4> QED BY <3>1, <4>3 DEF Abs!Next
    <3>8. CASE ~Q!Accepts(top, idx)
      <4>1. Q!Enqueue(top, idx) = top
        BY <3>8 DEF Q!Enqueue
      <4>2. \E k \in 1 .. Q!Length(top) : c(HLEVEL)[k] = idx
        BY <3>2, <3>3, <3>6, <3>8, RefusalJustified
      <4>3. DOMAIN c(HLEVEL) = 1 .. Q!Length(top)
        BY <3>2, <3>6, ContentsValue, LenProperties
      <4>4. idx \in Abs!Range(AbsQueue[0])
        BY <4>2, <4>3, <3>5 DEF Abs!Range
      <4>5. [l \in Levels |-> Q!Contents(mlfq'[l])] = [AbsQueue EXCEPT ![from] = Tail(@)]
        BY <1>a, <3>1, <3>3, <3>4, <3>5, <4>1 DEF AbsQueue
      <4>6. Abs!Promote(from)
        BY <3>1, <3>3, <3>4, <3>5, <3>6, <4>4, <4>5 DEF Abs!Promote, AbsQueue
      <4> QED BY <3>1, <4>6 DEF Abs!Next
    <3> QED BY <3>7, <3>8
  <2>2. CASE UNCHANGED <<mlfq, reply>>
    BY <2>2 DEF Abs!vars
  <2> QED BY <1>3, <2>1, <2>2 DEF priorityboost, StartBoost, EndLoop
<1>4. CASE UNCHANGED vars
  BY <1>4 DEF vars, Abs!vars
<1> QED BY <1>1, <1>2, <1>3, <1>4 DEF Next

\* For any number of processes the arrays and cursors of mlfq.c implement
\* bounded FIFO queues that lose, reorder and make up nothing.
THEOREM FifoRefinement == Spec => ImplementsFifo
<1> QED BY InitInv, StepInv, InitFifo, StepFifo, PTL
        DEF Spec, ImplementsFifo, Abs!Spec
==============================================================================
