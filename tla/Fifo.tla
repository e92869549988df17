-------------------------------- MODULE Fifo ---------------------------------
(***************************************************************************)
(* What a caller of the ready queues may rely on: three bounded FIFO       *)
(* queues.  An enqueue either appends or refuses, and it refuses only an   *)
(* index that is queued already or a queue that is full.  Nothing is lost, *)
(* reordered or made up.  Mlfq implements this specification.              *)
(***************************************************************************)
EXTENDS Integers, Sequences

CONSTANTS Levels, Bound, Idx

VARIABLES queue,   \* level -> the sequence of queued indexes
          reply    \* the last call: its arguments and what it returned
vars == <<queue, reply>>

None == -1

Range(s) == {s[k] : k \in DOMAIN s}

Call(level, idx, ret) == [level |-> level, idx |-> idx, ret |-> ret]

Init == queue = [l \in Levels |-> <<>>] /\ reply = Call(None, None, None)

Append1(l, i) ==
  /\ Len(queue[l]) < Bound
  /\ queue' = [queue EXCEPT ![l] = Append(@, i)]
  /\ reply' = Call(l, i, i)

Refuse(l, i) ==
  /\ Len(queue[l]) = Bound \/ i \in Range(queue[l])
  /\ reply' = Call(l, i, None)
  /\ UNCHANGED queue

\* The oldest entry of the highest level that has one.
Take(l) ==
  /\ queue[l] # <<>>
  /\ \A m \in Levels : queue[m] # <<>> => l <= m
  /\ queue' = [queue EXCEPT ![l] = Tail(@)]
  /\ reply' = Call(None, None, Head(queue[l]))

TakeNothing ==
  /\ \A l \in Levels : queue[l] = <<>>
  /\ reply' = Call(None, None, None)
  /\ UNCHANGED queue

\* The oldest entry of a lower level moves to the end of the top level; it is
\* dropped only if the top level has it already.
Promote(l) ==
  /\ l # 0 /\ queue[l] # <<>> /\ Len(queue[0]) < Bound
  /\ LET i == Head(queue[l])
     IN  \/ queue' = [queue EXCEPT ![l] = Tail(@), ![0] = Append(@, i)]
         \/ /\ i \in Range(queue[0])
            /\ queue' = [queue EXCEPT ![l] = Tail(@)]
  /\ UNCHANGED reply

Next ==
  \/ \E l \in Levels, i \in Idx : Append1(l, i) \/ Refuse(l, i)
  \/ \E l \in Levels : Take(l) \/ Promote(l)
  \/ TakeNothing

Spec == Init /\ [][Next]_vars
==============================================================================
