-------------------------------- MODULE Sched ---------------------------------
(***************************************************************************)
(* How scheduler() shares one CPU between the processes of the multilevel  *)
(* feedback queue and those that asked for a share of their own: levels,   *)
(* ticks and time slices, tickets and pass values.  Processes have one     *)
(* thread.  The level queues are the FIFO queues that Mlfq implements.     *)
(***************************************************************************)
EXTENDS Integers, FiniteSetsExt, SequencesExt
CONSTANTS Procs,                           \* the idx of the processes, 0 apart
          MAXCAPACITY,
          BIGNUM,
          HALLOT, MALLOT,                  \* ticks before a level is left
          HQUANTUM, MQUANTUM, LQUANTUM,    \* ticks of a slice
          TOTAL,                           \* all tickets, 100
          CAP,                             \* tickets given away at most, 80
          BOOST,                           \* ticks between boosts, 200
          IDLE,                            \* idle rounds that count, 100
          INT_MAX,
          Requests                         \* the workload: shares asked for

\* The slice of a level; -1 is the level of those with a share.
Quantum == [l \in -1 .. 2 |-> CASE l <= 0 -> HQUANTUM [] l = 1 -> MQUANTUM
                                [] l = 2 -> LQUANTUM]
None == -1

\* int arithmetic wraps; as uint a negative number is a large one.
AsInt(x) == IF x > INT_MAX THEN x - INT_MAX - INT_MAX - 2 ELSE x
AsUint(x) == IF x < 0 THEN x + INT_MAX + INT_MAX + 2 ELSE x

-----------------------------------------------------------------------------
(***************************************************************************)
(* The heap (minheap.c).  h is the sequence of the entries strheap[1 ..    *)
(* heapcapa].  Slot 0 of the array is never written, so its idx is 0.      *)
(* passval is stored unsigned: Key is its order.                           *)
(***************************************************************************)
Room == MAXCAPACITY - 1
Key(passval) == AsUint(passval)
Entry(idx, passval) == [idx |-> idx, passval |-> passval]
Above(a, b) == Key(a.passval) > Key(b.passval)

\* The search for idx starts at slot 0 and ends before the last entry.
Refuses(h, idx) ==
  \/ Len(h) = Room
  \/ h # <<>> /\ (idx = 0 \/ \E i \in 1 .. Len(h) - 1 : h[i].idx = idx)

\* Where the entry x comes to rest that climbs from slot n, and the slots it
\* climbs through.
Landing(h, x, n) ==
  LET land[i \in 1 .. n] ==
        IF i = 1 \/ Above(x, h[i \div 2]) THEN i ELSE land[i \div 2]
  IN  land[n]
Ancestors(n) == {n \div 2^k : k \in 0 .. n} \ {0}

heapinsert(h, idx, passval) ==
  LET n == Len(h) + 1
      x == Entry(idx, passval)
      land == Landing(h, x, n)
  IN  IF Refuses(h, idx) THEN h
      ELSE [i \in 1 .. n |->
              CASE i = land                         -> x
                [] i \in Ancestors(n) /\ i > land -> h[i \div 2]
                [] OTHER                            -> h[i]]

\* The smaller child of slot i among the first m entries.
Kid(h, m, i) ==
  IF 2 * i + 1 <= m /\ Above(h[2 * i], h[2 * i + 1]) THEN 2 * i + 1 ELSE 2 * i

\* Where the entry x comes to rest that sinks from the root.
Depth(h, x, m) ==
  LET sink[i \in 1 .. m] ==
        LET kid == Kid(h, m, i)
        IN  IF kid > m \/ Above(h[kid], x) THEN i ELSE sink[kid]
  IN  sink[1]

\* The last entry replaces the root.
heapdelete(h) ==
  LET m == Len(h) - 1
      x == h[Len(h)]
      rest == Depth(h, x, m)
  IN  IF m <= 0 THEN <<>>
      ELSE [i \in 1 .. m |->
              CASE i = rest                               -> x
                [] i \in Ancestors(rest) /\ i # rest -> h[Kid(h, m, i)]
                [] OTHER                                  -> h[i]]

getidxheap(h) == IF h = <<>> THEN -1 ELSE h[1].idx
getpvheap(h) == IF h = <<>> THEN -1 ELSE h[1].passval

-----------------------------------------------------------------------------

VARIABLES state, level, ticks, tickets,    \* of struct proc
          queue,                           \* the three levels
          strheap,
          mlfqpv, sumtickets,
          passti,                          \* ticks of the slice that runs
          cpu,                             \* c->proc and scheduler()'s locals
          pbcount, mlfqpvadd
procs == <<state, level, ticks, tickets>>
vars == <<procs, queue, strheap, mlfqpv, sumtickets, passti, cpu, pbcount,
          mlfqpvadd>>

Idle == [proc |-> None, by |-> "none", before |-> 0, minpv |-> None, elapsed |-> 0]

\* userinit has queued the first process.
Init == \E first \in Procs :
  /\ state = [p \in Procs |-> IF p = first THEN "RUNNABLE" ELSE "UNUSED"]
  /\ level = [p \in Procs |-> 0]
  /\ ticks = [p \in Procs |-> 0]
  /\ tickets = [p \in Procs |-> 0]
  /\ queue = [l \in 0 .. 2 |-> IF l = 0 THEN <<first>> ELSE <<>>]
  /\ strheap = <<>>
  /\ mlfqpv = 0
  /\ sumtickets = 0
  /\ passti = 0
  /\ cpu = Idle
  /\ pbcount = 0
  /\ mlfqpvadd = 0

------------------------------------------------------------------------------
Put(q, p, l) == IF Len(q[l]) < Room /\ ~Contains(q[l], p)
                THEN [q EXCEPT ![l] = Append(@, p)] ELSE q

\* The pass value of a process that joins the heap.
Joining(pv) ==
  LET root == getpvheap(strheap)
  IN  IF pv < root \/ root = -1 THEN pv ELSE root

\* priorityboost; no index is queued twice, so the top level has room.
Lower(q) == ToSet(q[1]) \cup ToSet(q[2])
Boosted(q) == [l \in 0 .. 2 |-> IF l = 0 THEN q[0] \o q[1] \o q[2] ELSE <<>>]

\* The top two levels are left after their allotment.
Sinks(l, t) == (l = 0 /\ t >= HALLOT) \/ (l = 1 /\ t >= MALLOT)

\* What the rest of a round of scheduler() does for p, which comes back in
\* state next with t ticks.
MlfqCharge(t, sum) == (t - cpu.before) * (BIGNUM \div (TOTAL - sum))
BackToMlfq(p, next, t, elapsed, sum) ==
  LET pv == AsInt(mlfqpv + MlfqCharge(t, sum))
      l == IF Sinks(level[p], t) THEN level[p] + 1 ELSE level[p]
      q == IF next = "RUNNABLE" /\ l # -1 THEN Put(queue, p, l) ELSE queue
      boost == pbcount + elapsed >= BOOST
      up == IF boost THEN Lower(q) ELSE {}
  IN  /\ mlfqpv' = pv
      /\ strheap' = IF next = "RUNNABLE" /\ l = -1
                    THEN heapinsert(strheap, p, Joining(pv)) ELSE strheap
      /\ queue' = IF boost THEN Boosted(q) ELSE q
      /\ level' = [r \in Procs |-> CASE r \in up -> 0 [] r = p -> l
                                     [] OTHER -> level[r]]
      /\ ticks' = [r \in Procs |->
                     CASE r \in up \/ (r = p /\ Sinks(level[p], t)) -> 0
                       [] r = p -> t
                       [] OTHER -> ticks[r]]
      /\ pbcount' = IF boost THEN 0 ELSE pbcount + elapsed

StrideCharge(p, t) == cpu.minpv + (BIGNUM \div tickets[p]) * (t - cpu.before)
BackToStride(p, next, t) ==
  /\ strheap' = IF next = "RUNNABLE"
                THEN heapinsert(strheap, p, AsInt(StrideCharge(p, t)))
                ELSE strheap
  /\ ticks' = [ticks EXCEPT ![p] = t]
  /\ UNCHANGED <<queue, level, mlfqpv, pbcount>>

SwitchBack(next, t, elapsed, sum) ==
  LET p == cpu.proc
  IN  /\ \/ cpu.by = "mlfq" /\ BackToMlfq(p, next, t + 1, elapsed, sum)
         \/ cpu.by = "stride" /\ BackToStride(p, next, t + 1)
      /\ state' = [state EXCEPT ![p] = next]
      /\ sumtickets' = sum
      /\ passti' = 0
      /\ cpu' = Idle
      /\ UNCHANGED <<tickets, mlfqpvadd>>

------------------------------------------------------------------------------
\* The decision of scheduler() at the start of a round.
root == getpvheap(strheap)
\* Mutant: the larger pass value is served.
MlfqTurnReversed == root = -1 \/ root < mlfqpv
MlfqTurn == mlfqpv < root \/ root = -1
NonEmpty == {l \in 0 .. 2 : queue[l] # <<>>}

Run(p, by) ==
  /\ state' = [state EXCEPT ![p] = "RUNNING"]
  /\ cpu' = [proc |-> p, by |-> by, before |-> ticks[p], minpv |-> root, elapsed |-> 0]

\* At the last tick of its allotment in the middle level a process, unless it
\* is killed, gets a slice that is a tick shorter.
LastTick(p) == IF ticks[p] = MALLOT - 1 /\ level[p] = 1 THEN {passti + 1} ELSE {}
PickMlfq ==
  /\ cpu.proc = None
  /\ MlfqTurn
  /\ NonEmpty # {}
  /\ LET l == Min(NonEmpty)
         p == Head(queue[l])
     IN  /\ queue' = [queue EXCEPT ![l] = Tail(@)]
         /\ Run(p, "mlfq")
         /\ passti' \in {passti} \cup LastTick(p)
  /\ UNCHANGED <<level, ticks, tickets, strheap, mlfqpv, sumtickets, pbcount,
                 mlfqpvadd>>

\* Empty queues use up their turn after IDLE rounds.
IdleRound ==
  /\ cpu.proc = None
  /\ MlfqTurn
  /\ NonEmpty = {}
  /\ \/ /\ mlfqpvadd + 1 >= IDLE
        /\ mlfqpv' = AsInt(mlfqpv + BIGNUM \div (TOTAL - sumtickets))
        /\ mlfqpvadd' = 0
     \/ /\ mlfqpvadd + 1 < IDLE
        /\ mlfqpvadd' = mlfqpvadd + 1
        /\ UNCHANGED mlfqpv
  /\ UNCHANGED <<procs, queue, strheap, sumtickets, passti, cpu, pbcount>>

PickStride ==
  /\ cpu.proc = None
  /\ ~MlfqTurn
  /\ strheap' = heapdelete(strheap)
  /\ Run(getidxheap(strheap), "stride")
  /\ UNCHANGED <<level, ticks, tickets, queue, mlfqpv, sumtickets, passti, pbcount,
                 mlfqpvadd>>

------------------------------------------------------------------------------
\* The timer interrupt of the running process: addtick(1), and at the end of
\* the slice addtick(-1) and yield().
Tick ==
  LET p == cpu.proc
  IN  /\ p # None
      /\ \/ /\ passti + 1 >= Quantum[level[p]]
            /\ SwitchBack("RUNNABLE", ticks[p], cpu.elapsed + 1, sumtickets)
         \/ /\ passti + 1 < Quantum[level[p]]
            /\ passti' = passti + 1
            /\ ticks' = [ticks EXCEPT ![p] = @ + 1]
            /\ cpu' = [cpu EXCEPT !.elapsed = @ + 1]
            /\ UNCHANGED <<state, level, tickets, queue, strheap, mlfqpv,
                           sumtickets, pbcount, mlfqpvadd>>

yield == cpu.proc # None /\ SwitchBack("RUNNABLE", ticks[cpu.proc], cpu.elapsed, sumtickets)
sleep == cpu.proc # None /\ SwitchBack("SLEEPING", ticks[cpu.proc], cpu.elapsed, sumtickets)
\* Mutant: the tickets of a dead process are not given back.
exit_keeps_tickets ==
  cpu.proc # None /\ SwitchBack("UNUSED", ticks[cpu.proc], cpu.elapsed, sumtickets)
exit ==
  cpu.proc # None
  /\ SwitchBack("UNUSED", ticks[cpu.proc], cpu.elapsed, sumtickets - tickets[cpu.proc])

\* wakeup1 and kill; a sleeper on the clock, and a killed one, starts again at
\* the top.
Wake(p, reset) ==
  /\ state[p] = "SLEEPING"
  /\ state' = [state EXCEPT ![p] = "RUNNABLE"]
  /\ \/ /\ level[p] = -1
        /\ strheap' = heapinsert(strheap, p, Joining(mlfqpv))
        /\ UNCHANGED <<level, ticks, queue>>
     \/ /\ level[p] # -1
        /\ level' = [level EXCEPT ![p] = IF reset THEN 0 ELSE @]
        /\ ticks' = [ticks EXCEPT ![p] = IF reset THEN 0 ELSE @]
        /\ queue' = Put(queue, p, level'[p])
        /\ UNCHANGED strheap
  /\ UNCHANGED <<tickets, mlfqpv, sumtickets, passti, cpu, pbcount, mlfqpvadd>>

ShareSum(p, n) == sumtickets + n - tickets[p]
set_cpu_share(n) ==
  LET p == cpu.proc
  IN  /\ p # None
      /\ n > 0
      /\ ShareSum(p, n) <= CAP
      /\ level' = [level EXCEPT ![p] = -1]
      /\ tickets' = [tickets EXCEPT ![p] = n]
      /\ sumtickets' = ShareSum(p, n)
      /\ UNCHANGED <<state, ticks, queue, strheap, mlfqpv, passti, cpu, pbcount,
                     mlfqpvadd>>

\* Which free slot it takes makes no difference here.
fork(p) ==
  /\ cpu.proc # None
  /\ state[p] = "UNUSED"
  /\ state' = [state EXCEPT ![p] = "RUNNABLE"]
  /\ level' = [level EXCEPT ![p] = 0]
  /\ ticks' = [ticks EXCEPT ![p] = 0]
  /\ tickets' = [tickets EXCEPT ![p] = 0]
  /\ queue' = Put(queue, p, 0)
  /\ UNCHANGED <<strheap, mlfqpv, sumtickets, passti, cpu, pbcount, mlfqpvadd>>

Next ==
  \/ PickMlfq \/ IdleRound \/ PickStride
  \/ Tick \/ yield \/ sleep \/ exit
  \/ \E p \in Procs : fork(p) \/ \E reset \in BOOLEAN : Wake(p, reset)
  \/ \E n \in Requests : set_cpu_share(n)
Spec == Init /\ [][Next]_vars
------------------------------------------------------------------------------
Live == {p \in Procs : state[p] # "UNUSED"}
Queued(p) == {l \in 0 .. 2 : Contains(queue[l], p)}
InHeap(p) == \E i \in DOMAIN strheap : strheap[i].idx = p
States == {"UNUSED", "RUNNABLE", "RUNNING", "SLEEPING"}

TypeOK ==
  /\ state \in [Procs -> States]
  /\ level \in [Procs -> -1 .. 2]
  /\ ticks \in [Procs -> Nat]
  /\ tickets \in [Procs -> 0 .. CAP]
  /\ queue \in [0 .. 2 -> Seq(Procs)]
  /\ strheap \in Seq([idx : Procs, passval : -INT_MAX - 1 .. INT_MAX])
  /\ mlfqpv \in -INT_MAX - 1 .. INT_MAX
  /\ sumtickets \in 0 .. CAP
  /\ passti \in 0 .. Max({HQUANTUM, MQUANTUM, LQUANTUM})
  /\ cpu.proc \in Procs \cup {None}
  /\ pbcount \in 0 .. BOOST - 1
  /\ mlfqpvadd \in 0 .. IDLE - 1

\* Every process that can run waits in exactly one place, the queue of its
\* level or the heap, and no other is anywhere: nobody is lost, or run twice.
QueuedOnce ==
  \A p \in Procs :
    /\ Queued(p) = IF state[p] = "RUNNABLE" /\ level[p] # -1 THEN {level[p]} ELSE {}
    /\ InHeap(p) <=> state[p] = "RUNNABLE" /\ level[p] = -1
    /\ Cardinality({i \in DOMAIN strheap : strheap[i].idx = p}) <= 1

\* sumtickets is what the living hold, and at least TOTAL - CAP tickets are
\* left to the queues: neither division of scheduler() is by zero.
SharesAddUp ==
  /\ sumtickets = MapThenSumSet(LAMBDA p : tickets[p], Live)
  /\ \A p \in Live : level[p] = -1 <=> tickets[p] > 0

\* The root has the least pass value, after any inserts and deletes.
HeapOrdered ==
  \A i \in DOMAIN strheap \ {1} : ~Above(strheap[i \div 2], strheap[i])

\* The shares are kept: nobody's pass value is ahead of the least one by more
\* than a slice of its own, or than the queues', with which those that join
\* start.  So nobody has had much more than its share.
Passes == {mlfqpv} \cup {strheap[i].passval : i \in DOMAIN strheap}
          \cup (IF cpu.by = "stride" THEN {cpu.minpv} ELSE {})
base == Min(Passes)
NobodyAhead ==
  /\ mlfqpv - base <= LQUANTUM * (BIGNUM \div (TOTAL - CAP))
  /\ \A i \in DOMAIN strheap :
       LET slice == HQUANTUM * (BIGNUM \div tickets[strheap[i].idx])
       IN  strheap[i].passval <= Max({mlfqpv, base + slice})

-----------------------------------------------------------------------------
(***************************************************************************)
(* A view that makes Sched finite, and the same for all processes.  Only   *)
(* differences of pass values are ever looked at, and of the ticks of the  *)
(* lowest level and of the heap only what the running slice adds; of a     *)
(* process only what is known of it and where it waits, not which it is.   *)
(***************************************************************************)
Bounded(p) == level[p] \in {0, 1}
Shown(p) == IF state[p] = "UNUSED" THEN <<"UNUSED">>
            ELSE <<state[p], level[p], tickets[p], IF Bounded(p) THEN ticks[p] ELSE 0>>
Placed == UNION {ToSet(queue[l]) : l \in 0 .. 2} \cup {strheap[i].idx : i \in DOMAIN strheap}
          \cup {cpu.proc}
Alike(p, others) == Cardinality({q \in others : Shown(q) = Shown(p)})
Relative ==
  <<[l \in 0 .. 2 |-> [k \in DOMAIN queue[l] |-> Shown(queue[l][k])]],
    [i \in DOMAIN strheap |-> <<Shown(strheap[i].idx), strheap[i].passval - base>>],
    IF cpu.proc = None THEN <<>> ELSE Shown(cpu.proc),
    LET others == Procs \ Placed IN {<<Shown(p), Alike(p, others)>> : p \in others},
    mlfqpv - base, sumtickets, passti, cpu.by, cpu.elapsed,
    IF cpu.proc = None THEN 0 ELSE ticks[cpu.proc] - cpu.before,
    IF cpu.by = "stride" THEN cpu.minpv - base ELSE 0,
    pbcount, mlfqpvadd>>
=============================================================================
