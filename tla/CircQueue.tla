------------------------------ MODULE CircQueue ------------------------------
(***************************************************************************)
(* The circular queue of process-table indexes that the kernel has twice:  *)
(* struct cqueue (mlfq.c, the three ready queues of the scheduler) and     *)
(* struct wqueue (xem.c, the waiters of a semaphore).  Both are the same   *)
(* code over different capacities.                                         *)
(*                                                                         *)
(* A queue is an array and two cursors.  The slot at head is always spare, *)
(* so a queue of Capacity slots holds Capacity - 1 entries.  The operators *)
(* return the new queue, or the value the C function returns.              *)
(***************************************************************************)
EXTENDS Integers, Sequences

CONSTANTS Capacity,   \* MAXCAPACITY, or NTHREAD + 1
          Idx         \* the indexes that may be queued: 0 .. NPROC - 1

Positions == 0 .. Capacity - 1
Empty == -1               \* what a dequeue leaves behind, and the error code

CQueue == [arr : [Positions -> Idx \cup {Empty, 0}],
           head : Positions, tail : Positions]

\* A queue with both cursors at 0, every slot holding v.
NewQueue(v) == [arr |-> [i \in Positions |-> v], head |-> 0, tail |-> 0]

\* Mutant: a full test that forgets the queue is circular.
IsFullLinear(q) == q.tail = Capacity - 1

IsEmpty(q) == q.head = q.tail
IsFull(q) == q.head = (q.tail + 1) % Capacity

Length(q) == (q.tail - q.head + Capacity) % Capacity

\* The entries, oldest first.
Contents(q) == [k \in 1 .. Length(q) |-> q.arr[(q.head + k) % Capacity]]

\* Mutant: the scan stops before the newest entry.
ScannedShort(q) == {(q.head + k) % Capacity : k \in 1 .. Length(q) - 1}

(***************************************************************************)
(* The duplicate scan starts at head + 1 without reducing it modulo        *)
(* Capacity.  With head on the last slot its first read is one past the    *)
(* array, which is the field "head" of the same struct, and it goes on     *)
(* from slot 1; slot 0, the oldest entry, is read only when it is also the *)
(* newest one, and then after a lap over the whole array.                  *)
(***************************************************************************)
Scanned(q) ==
  IF q.head # Capacity - 1
  THEN {(q.head + k) % Capacity : k \in 1 .. Length(q)}
  ELSE IF q.tail = 0 THEN Positions \cup {Capacity}
                     ELSE (1 .. q.tail) \cup {Capacity}

Read(q, i) == IF i = Capacity THEN q.head ELSE q.arr[i]

Seen(q, idx) == ~IsEmpty(q) /\ \E i \in Scanned(q) : Read(q, i) = idx

Accepts(q, idx) == ~Seen(q, idx) /\ ~IsFull(q)

\* The queue after enqueue(idx), and what the call returns.
Enqueue(q, idx) ==
  LET tail == (q.tail + 1) % Capacity
  IN  IF Accepts(q, idx)
      THEN [arr |-> [q.arr EXCEPT ![tail] = idx], head |-> q.head, tail |-> tail]
      ELSE q

EnqueueReply(q, idx) == IF Accepts(q, idx) THEN idx ELSE Empty

\* Mutant: head is advanced without "% Capacity".
DequeueNoWrap(q) ==
  IF IsEmpty(q) THEN q
  ELSE [arr |-> [q.arr EXCEPT ![(q.head + 1) % Capacity] = Empty],
        head |-> q.head + 1, tail |-> q.tail]

\* The queue after dequeue(), and what the call returns.
Dequeue(q) ==
  LET head == (q.head + 1) % Capacity
  IN  IF IsEmpty(q) THEN q
      ELSE [arr |-> [q.arr EXCEPT ![head] = Empty], head |-> head, tail |-> q.tail]

\* Mutant: the newest entry is returned.
DequeueReplyNewest(q) == IF IsEmpty(q) THEN Empty ELSE q.arr[q.tail]
DequeueReply(q) ==
  IF IsEmpty(q) THEN Empty ELSE q.arr[(q.head + 1) % Capacity]
==============================================================================
