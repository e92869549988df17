------------------------------- MODULE Buffers -------------------------------
(***************************************************************************)
(* The buffer cache (bio.c), the sleep lock of each buffer (sleeplock.c)   *)
(* and the queue of the disk driver (ide.c), under processes that read a   *)
(* block, change it for the log or for the disk, and release it.  What     *)
(* runs with one spinlock held is one step; sleep takes ptable.lock before *)
(* it gives the spinlock up, so testing and falling asleep are one step.   *)
(***************************************************************************)
EXTENDS Naturals, Sequences, SequencesExt, FiniteSets
CONSTANTS Procs, NBUF, Blocks, NONE,
          CHANGED,  \* the blocks that some process changes; the others are only read
          FAULTY,   \* the blocks that the disk may fail to deliver
          CALLS,    \* how many blocks each process uses, one after another
          MAXDIRTY  \* how many blocks the log keeps in the cache at most
ASSUME BuffersAssumption ==
  /\ IsFiniteSet(Procs) /\ NONE \notin Procs \cup Blocks \cup Nat
  /\ NBUF \in Nat /\ MAXDIRTY \in Nat
VARIABLES
  buf,        \* the buffers: block, flags, reference count and contents
  mru,        \* bcache's list, most recently used first
  locked,     \* buffer -> who has its sleep lock
  idequeue,   \* the buffers the driver works on, in order
  sent,       \* what idestart has sent to the disk for the first of them, or NONE
  disk,
  pc,         \* process -> where it is, with which buffer, how and for which block
  panicked,
  latest      \* for the properties: block -> what was written last
vars == <<buf, mru, locked, idequeue, sent, disk, pc, panicked, latest>>

Bufs == 1 .. NBUF
Uses == {"read", "log_write", "bwrite"}

Init ==
  /\ buf = [i \in Bufs |-> [block |-> NONE, valid |-> FALSE, dirty |-> FALSE, refcnt |-> 0, data |-> 0]]
  /\ mru = [i \in Bufs |-> NBUF + 1 - i]
  /\ locked = [i \in Bufs |-> NONE]
  /\ idequeue = <<>> /\ sent = NONE
  /\ disk = [n \in Blocks |-> 0] /\ latest = disk
  /\ pc = [p \in Procs |-> [at |-> "out", buf |-> NONE, use |-> "read", block |-> NONE, calls |-> 0]]
  /\ panicked = FALSE

At(p, where) == pc[p].at = where
Goto(p, where) == pc' = [pc EXCEPT ![p].at = where]
B(p) == pc[p].buf
\* wakeup(chan): those that sleep there test their condition again.
Asleep(where) == {q \in Procs : At(q, where)}
Wake(sleepers, to) == [q \in Procs |-> IF q \in sleepers THEN [pc[q] EXCEPT !.at = to] ELSE pc[q]]

-----------------------------------------------------------------------------
\* bget with bcache.lock held.
Cached(n) == {i \in Bufs : buf[i].block = n}
Free(i) == buf[i].refcnt = 0 /\ ~buf[i].dirty
Unused == {k \in DOMAIN mru : Free(mru[k])}
Found(n) ==
  IF Cached(n) # {} THEN Cached(n) ELSE {mru[k] : k \in {k \in Unused : \A j \in Unused : j <= k}}
bget(p) ==
  \E n \in Blocks, use \in Uses :
    /\ At(p, "out") /\ pc[p].calls < CALLS
    /\ n \notin CHANGED => use = "read"
    /\ use = "log_write" => Cardinality({i \in Bufs : buf[i].dirty} \cup {B(q) : q \in
                              {q \in Procs : ~At(q, "out") /\ pc[q].use = "log_write"}}) < MAXDIRTY
    /\ IF Found(n) = {} THEN panicked' = TRUE /\ UNCHANGED <<buf, pc>>
       ELSE \E i \in Found(n) :
         /\ buf' = IF Cached(n) # {} THEN [buf EXCEPT ![i].refcnt = @ + 1]
                   ELSE [buf EXCEPT ![i].block = n, ![i].valid = FALSE, ![i].dirty = FALSE, ![i].refcnt = 1]
         /\ pc' = [pc EXCEPT ![p] = [at |-> "lock", buf |-> i, use |-> use, block |-> n, calls |-> @.calls + 1]]
         /\ UNCHANGED panicked
    /\ UNCHANGED <<mru, locked, idequeue, sent, disk, latest>>

\* acquiresleep; then bread reads the block if the buffer is not valid.
\* Mutant: "if" for "while": who was woken takes the lock.
acquiresleep_once(p) ==
  /\ At(p, "lock") \/ At(p, "relock")
  /\ IF locked[B(p)] # NONE /\ At(p, "lock") THEN Goto(p, "lock sleep") /\ UNCHANGED locked
     ELSE locked' = [locked EXCEPT ![B(p)] = p] /\ Goto(p, "locked")
  /\ UNCHANGED <<buf, mru, idequeue, sent, disk, panicked, latest>>
acquiresleep(p) ==
  /\ At(p, "lock") \/ At(p, "relock")
  /\ IF locked[B(p)] # NONE THEN Goto(p, "lock sleep") /\ UNCHANGED locked
     ELSE locked' = [locked EXCEPT ![B(p)] = p] /\ Goto(p, "locked")
  /\ UNCHANGED <<buf, mru, idequeue, sent, disk, panicked, latest>>
Valid(p) ==
  /\ At(p, "locked")
  /\ Goto(p, IF buf[B(p)].valid THEN "using" ELSE "iderw")
  /\ UNCHANGED <<buf, mru, locked, idequeue, sent, disk, panicked, latest>>

\* iderw: queue up, start the disk if nobody was there, and sleep.
Pending(i) == ~buf[i].valid \/ buf[i].dirty
iderw(p) ==
  /\ At(p, "iderw") \/ At(p, "bwrite")
  /\ idequeue' = Append(idequeue, B(p))
  /\ sent' = IF idequeue = <<>> THEN buf[B(p)].data ELSE sent
  /\ Goto(p, IF At(p, "iderw") THEN "read sleep" ELSE "write sleep")
  /\ UNCHANGED <<buf, mru, locked, disk, panicked, latest>>
\* The test at the end of its sleep.
Done(p) ==
  /\ At(p, "read done") \/ At(p, "write done")
  /\ Goto(p, IF Pending(B(p)) THEN IF At(p, "read done") THEN "read sleep" ELSE "write sleep"
             ELSE IF At(p, "read done") THEN "using" ELSE "brelse")
  /\ UNCHANGED <<buf, mru, locked, idequeue, sent, disk, panicked, latest>>

\* ideintr, when the disk has finished the first request of the queue.  If idewait finds
\* an error nothing is read, and what was in the buffer becomes valid.
Delivered(b) == IF b.block \in FAULTY THEN {disk[b.block], b.data} ELSE {disk[b.block]}
On(i, where) == {q \in Asleep(where) : B(q) = i}
Finished(i) == [q \in Procs |->
  IF q \in On(i, "read sleep") THEN [pc[q] EXCEPT !.at = "read done"]
  ELSE IF q \in On(i, "write sleep") THEN [pc[q] EXCEPT !.at = "write done"] ELSE pc[q]]
Started(queue) == sent' = IF queue = <<>> THEN NONE ELSE buf[Head(queue)].data
ideintr ==
  LET i == Head(idequeue)
      b == buf[i]
  IN  /\ sent # NONE
      /\ disk' = IF b.dirty THEN [disk EXCEPT ![b.block] = sent] ELSE disk
      /\ \E read \in Delivered(b) :
           buf' = [buf EXCEPT ![i].valid = TRUE, ![i].dirty = FALSE,
                              ![i].data = IF b.dirty THEN @ ELSE read]
      /\ idequeue' = Tail(idequeue)
      /\ Started(Tail(idequeue))
      /\ pc' = Finished(i)
      /\ UNCHANGED <<mru, locked, panicked, latest>>

-----------------------------------------------------------------------------
\* What the callers do with the block they have locked.
Use(p) ==
  /\ At(p, "using")
  /\ CASE pc[p].use = "read" -> Goto(p, "brelse") /\ UNCHANGED <<buf, latest>>
       [] OTHER ->
            /\ buf' = [buf EXCEPT ![B(p)].data = 1 - @, ![B(p)].dirty = TRUE]
            /\ latest' = [latest EXCEPT ![pc[p].block] = 1 - buf[B(p)].data]
            /\ Goto(p, IF pc[p].use = "bwrite" THEN "bwrite" ELSE "brelse")
  /\ UNCHANGED <<mru, locked, idequeue, sent, disk, panicked>>

\* brelse: releasesleep, and then the count with bcache.lock held.
\* Mutant: nobody is woken.
releasesleep_silent(p) ==
  /\ At(p, "brelse")
  /\ locked' = [locked EXCEPT ![B(p)] = NONE]
  /\ Goto(p, "unref")
  /\ UNCHANGED <<buf, mru, idequeue, sent, disk, panicked, latest>>
releasesleep(p) ==
  /\ At(p, "brelse")
  /\ locked' = [locked EXCEPT ![B(p)] = NONE]
  /\ pc' = [Wake(On(B(p), "lock sleep"), "relock") EXCEPT ![p].at = "unref"]
  /\ UNCHANGED <<buf, mru, idequeue, sent, disk, panicked, latest>>

\* i goes to the front of the list.
Recent(i) ==
  LET k == CHOOSE k \in DOMAIN mru : mru[k] = i
  IN  [j \in DOMAIN mru |-> IF j = 1 THEN i ELSE IF j <= k THEN mru[j - 1] ELSE mru[j]]
brelse(p) ==
  /\ At(p, "unref")
  /\ buf' = [buf EXCEPT ![B(p)].refcnt = @ - 1]
  /\ mru' = IF buf[B(p)].refcnt = 1 THEN Recent(B(p)) ELSE mru
  /\ Goto(p, "out")
  /\ UNCHANGED <<locked, idequeue, sent, disk, panicked, latest>>

\* kill wakes whoever sleeps, wherever that is.
kill(p) ==
  LET to == CASE At(p, "lock sleep") -> "relock" [] At(p, "read sleep") -> "read done"
              [] At(p, "write sleep") -> "write done" [] OTHER -> "awake"
  IN  /\ to # "awake" /\ Goto(p, to)
      /\ UNCHANGED <<buf, mru, locked, idequeue, sent, disk, panicked, latest>>

GoOn(p) == acquiresleep(p) \/ Valid(p) \/ iderw(p) \/ Done(p) \/ Use(p) \/ releasesleep(p) \/ brelse(p)
Next == ideintr \/ \E p \in Procs : bget(p) \/ GoOn(p) \/ kill(p)
Spec == Init /\ [][Next]_vars

-----------------------------------------------------------------------------
Holding == {"locked", "iderw", "read sleep", "read done", "using", "bwrite", "write sleep",
            "write done", "brelse"}
Holds(p) == pc[p].at \in Holding
BuffersTypeOK ==
  /\ \A p \in Procs : Holds(p) => B(p) \in Bufs /\ locked[B(p)] = p
  /\ Len(idequeue) <= Cardinality(Procs) /\ ToSet(mru) = Bufs /\ Len(mru) = NBUF
  /\ \A i \in Bufs : buf[i].refcnt = Cardinality({p \in Procs : ~At(p, "out") /\ B(p) = i})

\* A block is in one buffer, and its buffer has one user, whoever was woken early.
OneUser ==
  /\ \A n \in Blocks : Cardinality(Cached(n)) <= 1
  /\ \A p, q \in Procs : Holds(p) /\ Holds(q) /\ B(p) = B(q) => p = q

\* bread returns what was written last, also after the buffer was used for another
\* block in between, except where the disk may fail (bread's callers are not told);
\* what the log has not committed stays in its buffer.
ReadsLatest ==
  /\ \A p \in Procs : At(p, "using") =>
       /\ buf[B(p)].block = pc[p].block
       /\ buf[B(p)].data = latest[pc[p].block] \/ pc[p].block \in FAULTY
  /\ \A n \in Blocks : disk[n] # latest[n] => \E i \in Cached(n) : buf[i].dirty

\* With room for what the log keeps and for one block of each process there is
\* always a buffer, and bget does not panic.
EnoughBuffers == NBUF >= Cardinality(Procs) + MAXDIRTY
BufferFound == EnoughBuffers => ~panicked

\* No wakeup and no request is lost: who sleeps on a lock waits for its holder, and
\* who sleeps on the disk has its buffer in the queue of a driver that is at work.
SleepersHaveWaker ==
  \A p \in Procs : /\ At(p, "lock sleep") => locked[B(p)] # NONE
                   /\ At(p, "read sleep") \/ At(p, "write sleep") =>
                        B(p) \in ToSet(idequeue) /\ sent # NONE

\* A block is in one buffer with one user, reads see the last write, there is a
\* buffer to be had if there are enough, and who sleeps in acquiresleep or iderw is woken.
BlocksCached == BuffersTypeOK /\ OneUser /\ ReadsLatest /\ BufferFound /\ SleepersHaveWaker
=============================================================================
