---------------------------- MODULE BuffersProofs ----------------------------
(***************************************************************************)
(* For any finite set of processes and any number of blocks and buffers:   *)
(* the buffer cache keeps one copy of a block, gives it to one user at a   *)
(* time with what was written last, loses no wakeup, and finds a buffer    *)
(* for everybody if there are as many as the worst case needs.             *)
(*                                                                         *)
(* The argument: a buffer in the disk's queue is locked by a process that  *)
(* waits for it, so that its contents and its place in the queue stay as   *)
(* they are until ideintr; where a process stands says what the flags of   *)
(* its buffer are; and a buffer that is not free has a user or is kept by  *)
(* the log, which keeps MAXDIRTY of them at most.                          *)
(***************************************************************************)
EXTENDS Buffers, FiniteSetTheorems, SequenceTheorems, TLAPS

Waiting == {"read sleep", "read done", "write sleep", "write done"}
Writing == {"bwrite", "write sleep", "write done"}
Places == {"out", "lock", "relock", "lock sleep", "unref"} \cup Holding
BufType == [block : Blocks \cup {NONE}, valid : BOOLEAN, dirty : BOOLEAN, refcnt : Nat, data : {0, 1}]
PcType == [at : Places, buf : Bufs \cup {NONE}, use : Uses, block : Blocks \cup {NONE}, calls : Nat]

Types ==
  /\ buf \in [Bufs -> BufType]
  /\ locked \in [Bufs -> Procs \cup {NONE}]
  /\ idequeue \in Seq(Bufs) /\ sent \in {0, 1, NONE}
  /\ disk \in [Blocks -> {0, 1}] /\ latest \in [Blocks -> {0, 1}]
  /\ pc \in [Procs -> PcType]
  /\ panicked \in BOOLEAN /\ (EnoughBuffers => ~panicked)
\* The list has every buffer.
InList == mru \in [Bufs -> Bufs] /\ \A i \in Bufs : \E k \in Bufs : mru[k] = i
Users(i) == {p \in Procs : ~At(p, "out") /\ B(p) = i}
Counted == \A i \in Bufs : buf[i].refcnt = Cardinality(Users(i))
\* The buffer of a process holds the block it asked for.
HasBlock ==
  \A p \in Procs : ~At(p, "out") => B(p) \in Bufs /\ pc[p].block \in Blocks /\ buf[B(p)].block = pc[p].block
Owners ==
  /\ \A p \in Procs : Holds(p) => locked[B(p)] = p
  /\ \A i \in Bufs : locked[i] # NONE => Holds(locked[i]) /\ B(locked[i]) = i
  /\ \A p \in Procs : At(p, "lock sleep") => locked[B(p)] # NONE
Queued(i) == \E k \in 1 .. Len(idequeue) : idequeue[k] = i
\* The flags of the buffer that p holds.
Flags(p) ==
  /\ At(p, "using") \/ At(p, "brelse") => buf[B(p)].valid
  /\ At(p, "bwrite") => buf[B(p)].valid /\ buf[B(p)].dirty
  /\ At(p, "iderw") => ~buf[B(p)].valid
  /\ At(p, "read sleep") => ~buf[B(p)].valid /\ Queued(B(p))
  /\ At(p, "read done") => ~buf[B(p)].dirty /\ (Queued(B(p)) <=> ~buf[B(p)].valid)
  /\ At(p, "write sleep") => buf[B(p)].valid /\ buf[B(p)].dirty /\ Queued(B(p))
  /\ At(p, "write done") => buf[B(p)].valid /\ (Queued(B(p)) <=> buf[B(p)].dirty)
AllFlags == \A p \in Procs : Flags(p)
QueueOnce == \A j, k \in 1 .. Len(idequeue) : idequeue[j] = idequeue[k] => j = k
\* Somebody holds a buffer that is in the queue, and waits for it.
QueueHeld ==
  \A i \in Bufs : Queued(i) => locked[i] # NONE /\ pc[locked[i]].at \in Waiting
Sending == sent = IF idequeue = <<>> THEN NONE ELSE buf[Head(idequeue)].data
OnePlace == \A i, j \in Bufs : buf[i].block = buf[j].block /\ buf[i].block \in Blocks => i = j
Fresh ==
  \A i \in Bufs : /\ buf[i].dirty => buf[i].valid
                  /\ buf[i].valid => buf[i].block \in Blocks
                  /\ buf[i].valid /\ (buf[i].dirty \/ buf[i].block \notin FAULTY) =>
                       buf[i].data = latest[buf[i].block]
OnDisk == \A n \in Blocks : disk[n] # latest[n] => \E i \in Bufs : buf[i].block = n /\ buf[i].dirty
\* What the log keeps: who writes a block at once makes it clean before it lets go of it.
Writer(p, i) == pc[p].at \in Writing /\ B(p) = i
Logs(p) == ~At(p, "out") /\ pc[p].use = "log_write"
Keeps(i) == \/ buf[i].dirty /\ \A p \in Procs : ~Writer(p, i)
            \/ \E p \in Procs : Logs(p) /\ B(p) = i
Kept == {i \in Bufs : Keeps(i)}
Room == Cardinality(Kept) <= MAXDIRTY

IInv == /\ Types /\ InList /\ Counted /\ HasBlock /\ Owners /\ AllFlags
        /\ QueueOnce /\ QueueHeld /\ Sending /\ OnePlace /\ Fresh /\ OnDisk /\ Room

-----------------------------------------------------------------------------
\* What a step leaves alone.
SamePlaces == \A q \in Procs : /\ pc'[q].buf = pc[q].buf /\ pc'[q].use = pc[q].use
                               /\ pc'[q].block = pc[q].block
SameUsers == \A q \in Procs : At(q, "out")' <=> At(q, "out")
SameBlocks == \A i \in Bufs : buf'[i].block = buf[i].block /\ buf'[i].refcnt = buf[i].refcnt

LEMMA Constants ==
  /\ IsFiniteSet(Procs) /\ Cardinality(Procs) \in Nat
  /\ NONE \notin Procs /\ NONE \notin Blocks /\ NONE \notin Bufs /\ NONE \notin {0, 1}
  /\ NBUF \in Nat /\ MAXDIRTY \in Nat
  /\ IsFiniteSet(Bufs) /\ Cardinality(Bufs) = NBUF
<1>1. NBUF \in Nat /\ MAXDIRTY \in Nat /\ IsFiniteSet(Procs)
  BY BuffersAssumption
<1>2. IsFiniteSet(1 .. NBUF) /\ Cardinality(1 .. NBUF) = IF 1 > NBUF THEN 0 ELSE NBUF - 1 + 1
  BY <1>1, FS_Interval
<1>3. Cardinality(Procs) \in Nat
  BY <1>1, FS_CardinalityType
<1> QED
  BY <1>1, <1>2, <1>3, BuffersAssumption DEF Bufs

\* A process goes from one place to another.
LEMMA Move ==
  ASSUME Types, NEW p \in Procs, NEW w \in Places, Goto(p, w)
  PROVE  /\ pc' \in [Procs -> PcType] /\ SamePlaces
         /\ \A q \in Procs : pc'[q].at = IF q = p THEN w ELSE pc[q].at
BY DEF Types, Goto, PcType, SamePlaces

\* The users of a buffer and their blocks depend on nothing else.
LEMMA UsersKept ==
  ASSUME Types, SamePlaces, SameUsers, SameBlocks, Counted, HasBlock
  PROVE  Counted' /\ HasBlock'
<1>1. ASSUME NEW i \in Bufs PROVE Users(i)' = Users(i)
  BY <1>1 DEF Users, B, SamePlaces, SameUsers
<1>2. Counted'
  BY <1>1 DEF Counted, SameBlocks
<1>3. HasBlock'
  BY DEF HasBlock, SamePlaces, SameUsers, SameBlocks, B
<1> QED
  BY <1>2, <1>3

LEMMA KeptFinite ==
  /\ IsFiniteSet(Kept) /\ Cardinality(Kept) \in Nat
  /\ \A S \in SUBSET Kept : IsFiniteSet(S) /\ Cardinality(S) \in Nat /\ Cardinality(S) <= Cardinality(Kept)
<1>1. IsFiniteSet(Bufs) /\ Kept \in SUBSET Bufs
  BY Constants DEF Kept
<1>2. IsFiniteSet(Kept)
  BY <1>1, FS_Subset
<1>3. ASSUME NEW S \in SUBSET Kept PROVE IsFiniteSet(S) /\ Cardinality(S) <= Cardinality(Kept)
  BY <1>2, FS_Subset
<1>4. ASSUME NEW S \in SUBSET Kept PROVE Cardinality(S) \in Nat
  BY <1>3, FS_CardinalityType
<1> QED
  BY <1>2, <1>3, <1>4, FS_CardinalityType

\* The log keeps no more than before.
LEMMA RoomKept ==
  ASSUME Room, \A i \in Bufs : Keeps(i)' => Keeps(i)
  PROVE  Room'
<1>1. Kept' \in SUBSET Kept
  BY DEF Kept, Bufs
<1>2. /\ Cardinality(Kept) \in Nat
      /\ Cardinality(Kept') \in Nat /\ Cardinality(Kept') <= Cardinality(Kept)
  BY <1>1, KeptFinite
<1> QED
  BY <1>2, Constants DEF Room

-----------------------------------------------------------------------------
\* What Keeps depends on: who is in the middle of writing a block, and who is out.
LEMMA KeepsLess ==
  ASSUME NEW i \in Bufs, SamePlaces, Keeps(i)',
         \A q \in Procs : Logs(q)' => Logs(q),
         buf'[i].dirty => buf[i].dirty,
         \A q \in Procs : Writer(q, i) => Writer(q, i)' \/ ~buf'[i].dirty
  PROVE  Keeps(i)
<1>1. CASE \E p \in Procs : Logs(p)' /\ B(p)' = i
  BY <1>1 DEF Keeps, SamePlaces, B
<1>2. CASE buf'[i].dirty /\ \A p \in Procs : ~Writer(p, i)'
  BY <1>2 DEF Keeps
<1> QED
  BY <1>1, <1>2 DEF Keeps

LEMMA SameLogs ==
  ASSUME SamePlaces, SameUsers
  PROVE  \A q \in Procs : Logs(q)' <=> Logs(q)
BY DEF SamePlaces, SameUsers, Logs

\* Steps in which one process goes on and that change nothing else.
LEMMA QuietMove ==
  ASSUME IInv, NEW p \in Procs, NEW w \in Places, Goto(p, w),
         UNCHANGED <<buf, mru, locked, idequeue, sent, disk, panicked, latest>>,
         ~At(p, "out"), w # "out", Holds(p) <=> w \in Holding,
         w = "lock sleep" => locked[B(p)] # NONE,
         pc[p].at \in Waiting /\ w \notin Waiting => ~Queued(B(p)),
         pc[p].at \in Writing /\ w \notin Writing => ~buf[B(p)].dirty,
         Flags(p)'
  PROVE  IInv'
<1>1. /\ pc' \in [Procs -> PcType] /\ SamePlaces
      /\ \A q \in Procs : pc'[q].at = IF q = p THEN w ELSE pc[q].at
  BY Move DEF IInv
<1>2. Types'
  BY <1>1 DEF IInv, Types
<1>3. SameUsers /\ SameBlocks
  BY <1>1 DEF SameUsers, SameBlocks, At
<1>4. Counted' /\ HasBlock'
  BY <1>1, <1>3, UsersKept DEF IInv
<1>5. InList' /\ QueueOnce' /\ Sending' /\ OnePlace' /\ Fresh' /\ OnDisk'
  BY DEF IInv, InList, QueueOnce, Sending, OnePlace, Fresh, OnDisk
<1>6. Owners'
  <2>1. \A q \in Procs : Holds(q)' <=> Holds(q)
    BY <1>1 DEF Holds
  <2>2. \A q \in Procs : B(q)' = B(q)
    BY <1>1 DEF B, SamePlaces
  <2>3. \A q \in Procs : At(q, "lock sleep")' => locked[B(q)] # NONE
    BY <1>1 DEF IInv, Owners, At
  <2>4. \A i \in Bufs : locked[i] # NONE => locked[i] \in Procs
    BY DEF IInv, Types
  <2> QED
    BY <2>1, <2>2, <2>3, <2>4 DEF IInv, Owners
<1>7. AllFlags'
  <2>1. ASSUME NEW q \in Procs, q # p PROVE Flags(q)'
    <3>1. pc'[q].at = pc[q].at /\ B(q)' = B(q) /\ (Queued(B(q))' <=> Queued(B(q)))
      BY <1>1, <2>1 DEF SamePlaces, B, Queued
    <3>2. Flags(q)
      BY DEF IInv, AllFlags
    <3> QED
      BY <3>1, <3>2 DEF Flags, At
  <2> QED
    BY <2>1 DEF AllFlags
<1>8. QueueHeld'
  <2>1. ASSUME NEW i \in Bufs, Queued(i) PROVE locked[i] # NONE /\ pc'[locked[i]].at \in Waiting
    <3>1. locked[i] \in Procs /\ pc[locked[i]].at \in Waiting /\ B(locked[i]) = i /\ locked[i] # NONE
      BY <2>1, Constants DEF IInv, QueueHeld, Owners, Types
    <3> QED
      BY <3>1, <2>1, <1>1
  <2> QED
    BY <2>1 DEF QueueHeld, Queued
<1>9. Room'
  <2>1. \A q \in Procs : Logs(q)' <=> Logs(q)
    BY <1>1, <1>3, SameLogs
  <2>2. ASSUME NEW i \in Bufs, NEW q \in Procs, Writer(q, i) PROVE Writer(q, i)' \/ ~buf'[i].dirty
    BY <1>1, <2>2 DEF Writer, B, SamePlaces
  <2>3. \A i \in Bufs : Keeps(i)' => Keeps(i)
    BY <1>1, <2>1, <2>2, KeepsLess
  <2> QED
    BY <2>3, RoomKept DEF IInv
<1> QED
  BY <1>2, <1>4, <1>5, <1>6, <1>7, <1>8, <1>9 DEF IInv

LEMMA KillStep ==
  ASSUME IInv, NEW p \in Procs, kill(p)
  PROVE  IInv'
<1> DEFINE to == CASE At(p, "lock sleep") -> "relock" [] At(p, "read sleep") -> "read done"
                   [] At(p, "write sleep") -> "write done" [] OTHER -> "awake"
<1>1. /\ to # "awake" /\ Goto(p, to)
      /\ UNCHANGED <<buf, mru, locked, idequeue, sent, disk, panicked, latest>>
  BY DEF kill
<1>2. \/ At(p, "lock sleep") /\ to = "relock"
      \/ At(p, "read sleep") /\ to = "read done"
      \/ At(p, "write sleep") /\ to = "write done"
  BY <1>1 DEF At
<1> HIDE DEF to
<1>3. to \in Places
  BY <1>2 DEF Places, Holding
<1>4. SamePlaces /\ \A q \in Procs : pc'[q].at = IF q = p THEN to ELSE pc[q].at
  BY <1>1, <1>3, Move DEF IInv
<1>5. Flags(p)'
  <2>1. pc'[p].at = to /\ B(p)' = B(p) /\ (Queued(B(p))' <=> Queued(B(p)))
    BY <1>1, <1>4 DEF SamePlaces, B, Queued
  <2>2. Flags(p)
    BY DEF IInv, AllFlags
  <2>3. ~buf[B(p)].valid => ~buf[B(p)].dirty \/ ~At(p, "read sleep")
    BY DEF IInv, Fresh, HasBlock, At
  <2> QED
    BY <1>1, <1>2, <2>1, <2>2, <2>3 DEF Flags, At
<1>6. ~At(p, "out") /\ to # "out" /\ to # "lock sleep" /\ (Holds(p) <=> to \in Holding)
  BY <1>2 DEF At, Holds, Holding
<1>7. /\ pc[p].at \in Waiting => to \in Waiting
      /\ pc[p].at \in Writing => to \in Writing
  BY <1>2 DEF At, Waiting, Writing
<1> QED
  BY <1>1, <1>3, <1>5, <1>6, <1>7, QuietMove

LEMMA ValidStep ==
  ASSUME IInv, NEW p \in Procs, Valid(p)
  PROVE  IInv'
<1> DEFINE to == IF buf[B(p)].valid THEN "using" ELSE "iderw"
<1>1. /\ At(p, "locked") /\ Goto(p, to)
      /\ UNCHANGED <<buf, mru, locked, idequeue, sent, disk, panicked, latest>>
  BY DEF Valid
<1>2. to \in Places /\ to \in Holding /\ to # "out" /\ to # "lock sleep"
  BY DEF Places, Holding
<1>3. SamePlaces /\ \A q \in Procs : pc'[q].at = IF q = p THEN to ELSE pc[q].at
  BY <1>1, <1>2, Move DEF IInv
<1>4. Flags(p)'
  <2>1. pc'[p].at = to /\ B(p)' = B(p) /\ buf' = buf
    BY <1>1, <1>3 DEF SamePlaces, B
  <2> QED
    BY <2>1 DEF Flags, At
<1>5. ~At(p, "out") /\ Holds(p) /\ pc[p].at \notin Waiting /\ pc[p].at \notin Writing
  BY <1>1 DEF At, Holds, Holding, Waiting, Writing
<1> HIDE DEF to
<1> QED
  BY <1>1, <1>2, <1>4, <1>5, QuietMove

LEMMA DoneStep ==
  ASSUME IInv, NEW p \in Procs, Done(p)
  PROVE  IInv'
<1> DEFINE to == IF Pending(B(p)) THEN IF At(p, "read done") THEN "read sleep" ELSE "write sleep"
                 ELSE IF At(p, "read done") THEN "using" ELSE "brelse"
<1>1. /\ At(p, "read done") \/ At(p, "write done")
      /\ Goto(p, to)
      /\ UNCHANGED <<buf, mru, locked, idequeue, sent, disk, panicked, latest>>
  BY DEF Done
<1>2. to \in Places /\ to \in Holding /\ to # "out" /\ to # "lock sleep"
  BY DEF Places, Holding
<1>3. SamePlaces /\ \A q \in Procs : pc'[q].at = IF q = p THEN to ELSE pc[q].at
  BY <1>1, <1>2, Move DEF IInv
<1>4. Flags(p)
  BY DEF IInv, AllFlags
<1>5. pc'[p].at = to /\ B(p)' = B(p) /\ (Queued(B(p))' <=> Queued(B(p)))
  BY <1>1, <1>3 DEF SamePlaces, B, Queued
<1>6. Flags(p)'
  BY <1>1, <1>4, <1>5 DEF Flags, At, Pending
<1>7. ~At(p, "out") /\ Holds(p)
  BY <1>1 DEF At, Holds, Holding
<1>8. /\ pc[p].at \in Waiting /\ to \notin Waiting => ~Queued(B(p))
      /\ pc[p].at \in Writing /\ to \notin Writing => ~buf[B(p)].dirty
  BY <1>1, <1>4 DEF Flags, At, Pending, Waiting, Writing
<1> HIDE DEF to
<1> QED
  BY <1>1, <1>2, <1>6, <1>7, <1>8, QuietMove

\* acquiresleep takes the lock of a buffer that nobody has, or falls asleep.
LEMMA AcquireStep ==
  ASSUME IInv, NEW p \in Procs, acquiresleep(p)
  PROVE  IInv'
<1>1. CASE locked[B(p)] # NONE
  <2>1. /\ At(p, "lock") \/ At(p, "relock")
        /\ Goto(p, "lock sleep")
        /\ UNCHANGED <<buf, mru, locked, idequeue, sent, disk, panicked, latest>>
    BY <1>1 DEF acquiresleep
  <2>2. "lock sleep" \in Places /\ "lock sleep" \notin Holding /\ ~Holds(p) /\ ~At(p, "out")
    BY <2>1 DEF Places, Holding, Holds, At
  <2>3. pc'[p].at = "lock sleep"
    BY <2>1, <2>2, Move DEF IInv
  <2>4. Flags(p)'
    BY <2>3 DEF Flags, At
  <2>5. pc[p].at \notin Waiting /\ pc[p].at \notin Writing
    BY <2>1 DEF Waiting, Writing, At
  <2> QED
    BY <1>1, <2>1, <2>2, <2>4, <2>5, QuietMove
<1>2. CASE locked[B(p)] = NONE
  <2>1. /\ At(p, "lock") \/ At(p, "relock")
        /\ Goto(p, "locked") /\ locked' = [locked EXCEPT ![B(p)] = p]
        /\ UNCHANGED <<buf, mru, idequeue, sent, disk, panicked, latest>>
    BY <1>2 DEF acquiresleep
  <2>2. /\ pc' \in [Procs -> PcType] /\ SamePlaces
        /\ \A q \in Procs : pc'[q].at = IF q = p THEN "locked" ELSE pc[q].at
    BY <2>1, Move DEF IInv, Places, Holding
  <2>3. ~At(p, "out") /\ B(p) \in Bufs /\ ~Holds(p)
    BY <2>1 DEF IInv, HasBlock, At, Holds, Holding
  <2>4. Types'
    BY <2>1, <2>2, <2>3 DEF IInv, Types
  <2>5. SameUsers /\ SameBlocks
    BY <2>1, <2>2 DEF SameUsers, SameBlocks, At
  <2>6. Counted' /\ HasBlock'
    BY <2>2, <2>5, UsersKept DEF IInv
  <2>7. InList' /\ QueueOnce' /\ Sending' /\ OnePlace' /\ Fresh' /\ OnDisk'
    BY <2>1 DEF IInv, InList, QueueOnce, Sending, OnePlace, Fresh, OnDisk
  <2>8. \A i \in Bufs : locked'[i] = IF i = B(p) THEN p ELSE locked[i]
    BY <2>1, <2>3 DEF IInv, Types
  <2>9. \A q \in Procs : B(q)' = B(q)
    BY <2>2 DEF B, SamePlaces
  <2>10. \A i \in Bufs : locked[i] # NONE => locked[i] \in Procs
    BY DEF IInv, Types
  <2>11. Owners'
    <3>1. ASSUME NEW q \in Procs, Holds(q)' PROVE locked'[B(q)] = q
      <4>1. CASE q = p
        BY <4>1, <2>8, <2>3
      <4>2. CASE q # p
        <5>1. Holds(q) /\ B(q) \in Bufs
          BY <3>1, <4>2, <2>2 DEF Holds, IInv, HasBlock, At, Holding
        <5>2. locked[B(q)] = q /\ q # NONE
          BY <5>1, Constants DEF IInv, Owners
        <5> QED
          BY <5>1, <5>2, <2>8, <1>2
      <4> QED
        BY <4>1, <4>2
    <3>2. ASSUME NEW i \in Bufs, locked'[i] # NONE PROVE pc'[locked'[i]].at \in Holding /\ pc'[locked'[i]].buf = i
      <4>1. CASE i = B(p)
        BY <4>1, <2>8, <2>2, <2>3 DEF Holding, B, SamePlaces
      <4>2. CASE i # B(p)
        <5>1. locked'[i] = locked[i] /\ locked[i] \in Procs /\ Holds(locked[i]) /\ B(locked[i]) = i
          BY <3>2, <4>2, <2>8, <2>10 DEF IInv, Owners
        <5>2. locked[i] # p
          BY <5>1, <4>2
        <5> QED
          BY <5>1, <5>2, <2>2 DEF Holds, B, SamePlaces
      <4> QED
        BY <4>1, <4>2
    <3>3. ASSUME NEW q \in Procs, At(q, "lock sleep")' PROVE locked'[B(q)] # NONE
      <4>1. At(q, "lock sleep") /\ B(q) \in Bufs
        BY <3>3, <2>2 DEF At, IInv, HasBlock
      <4>2. locked[B(q)] # NONE
        BY <4>1 DEF IInv, Owners
      <4> QED
        BY <4>1, <4>2, <2>8, Constants
    <3>4. \A i \in Bufs : locked'[i] # NONE => locked'[i] \in Procs
      BY <2>8, <2>10
    <3> QED
      BY <3>1, <3>2, <3>3, <3>4, <2>9 DEF Owners, Holds, B
  <2>12. AllFlags'
    <3>1. ASSUME NEW q \in Procs, q # p PROVE Flags(q)'
      <4>1. pc'[q].at = pc[q].at /\ B(q)' = B(q) /\ (Queued(B(q))' <=> Queued(B(q))) /\ buf' = buf
        BY <2>1, <2>2, <2>9, <3>1 DEF Queued
      <4>2. Flags(q)
        BY DEF IInv, AllFlags
      <4> QED
        BY <4>1, <4>2 DEF Flags, At
    <3>2. Flags(p)'
      BY <2>2 DEF Flags, At
    <3> QED
      BY <3>1, <3>2 DEF AllFlags
  <2>13. QueueHeld'
    <3>1. ASSUME NEW i \in Bufs, Queued(i) PROVE locked'[i] # NONE /\ pc'[locked'[i]].at \in Waiting
      <4>1. locked[i] \in Procs /\ pc[locked[i]].at \in Waiting /\ locked[i] # NONE
        BY <3>1, <2>10 DEF IInv, QueueHeld
      <4>2. locked'[i] = locked[i]
        BY <4>1, <1>2, <2>8
      <4>3. locked[i] # p
        BY <4>1, <2>1 DEF At, Waiting
      <4> QED
        BY <4>1, <4>2, <4>3, <2>2
    <3> QED
      BY <3>1, <2>1 DEF QueueHeld, Queued
  <2>14. Room'
    <3>1. \A q \in Procs : Logs(q)' <=> Logs(q)
      BY <2>2, <2>5, SameLogs
    <3>2. ASSUME NEW i \in Bufs, NEW q \in Procs, Writer(q, i) PROVE Writer(q, i)'
      <4>1. q # p
        BY <3>2, <2>1 DEF Writer, Writing, At
      <4> QED
        BY <4>1, <2>2, <2>9, <3>2 DEF Writer
    <3>3. \A i \in Bufs : Keeps(i)' => Keeps(i)
      BY <2>1, <2>2, <3>1, <3>2, KeepsLess
    <3> QED
      BY <3>3, RoomKept DEF IInv
  <2> QED
    BY <2>4, <2>6, <2>7, <2>11, <2>12, <2>13, <2>14 DEF IInv
<1> QED
  BY <1>1, <1>2

\* The request goes to the end of the queue, where there is none for the buffer yet.
LEMMA Appended ==
  ASSUME idequeue \in Seq(Bufs), NEW i \in Bufs, idequeue' = Append(idequeue, i)
  PROVE  /\ idequeue' \in Seq(Bufs)
         /\ \A j : Queued(j)' <=> Queued(j) \/ j = i
         /\ QueueOnce /\ ~Queued(i) => QueueOnce'
         /\ Head(idequeue') = IF idequeue = <<>> THEN i ELSE Head(idequeue)
         /\ idequeue' # <<>>
<1>1. /\ idequeue' \in Seq(Bufs) /\ Len(idequeue) \in Nat /\ Len(idequeue') = Len(idequeue) + 1
      /\ \A k \in 1 .. Len(idequeue) : idequeue'[k] = idequeue[k]
      /\ idequeue'[Len(idequeue) + 1] = i
  OBVIOUS
<1>2. \A j : Queued(j)' <=> Queued(j) \/ j = i
  BY <1>1 DEF Queued
<1>3. QueueOnce /\ ~Queued(i) => QueueOnce'
  BY <1>1 DEF Queued, QueueOnce
<1>4. Head(idequeue') = IF idequeue = <<>> THEN i ELSE Head(idequeue)
  OBVIOUS
<1> QED
  BY <1>1, <1>2, <1>3, <1>4

LEMMA IderwStep ==
  ASSUME IInv, NEW p \in Procs, iderw(p)
  PROVE  IInv'
<1> DEFINE to == IF At(p, "iderw") THEN "read sleep" ELSE "write sleep"
<1>1. /\ At(p, "iderw") \/ At(p, "bwrite")
      /\ idequeue' = Append(idequeue, B(p)) /\ Goto(p, to)
      /\ sent' = IF idequeue = <<>> THEN buf[B(p)].data ELSE sent
      /\ UNCHANGED <<buf, mru, locked, disk, panicked, latest>>
  BY DEF iderw
<1>2. to \in Places /\ to \in Holding /\ to \in Waiting /\ to # "out" /\ to # "lock sleep"
  BY DEF Places, Holding, Waiting
<1>3. /\ pc' \in [Procs -> PcType] /\ SamePlaces
      /\ \A q \in Procs : pc'[q].at = IF q = p THEN to ELSE pc[q].at
  BY <1>1, <1>2, Move DEF IInv
<1>4. ~At(p, "out") /\ B(p) \in Bufs /\ Holds(p) /\ pc[p].at \notin Waiting
  BY <1>1 DEF IInv, HasBlock, At, Holds, Holding, Waiting
<1>5. ~Queued(B(p)) /\ locked[B(p)] = p
  BY <1>4 DEF IInv, QueueHeld, Owners
<1>6. /\ idequeue' \in Seq(Bufs) /\ idequeue' # <<>>
      /\ \A j : Queued(j)' <=> Queued(j) \/ j = B(p)
      /\ QueueOnce'
      /\ Head(idequeue') = IF idequeue = <<>> THEN B(p) ELSE Head(idequeue)
  BY <1>1, <1>4, <1>5, Appended DEF IInv, Types
<1>7. Sending'
  BY <1>1, <1>6 DEF IInv, Sending
<1>8. Types'
  BY <1>1, <1>3, <1>4, <1>6 DEF IInv, Types, BufType
<1>9. SameUsers /\ SameBlocks
  BY <1>1, <1>2, <1>3, <1>4 DEF SameUsers, SameBlocks, At
<1>10. Counted' /\ HasBlock'
  BY <1>3, <1>9, UsersKept DEF IInv
<1>11. InList' /\ OnePlace' /\ Fresh' /\ OnDisk'
  BY <1>1 DEF IInv, InList, OnePlace, Fresh, OnDisk
<1>12. \A q \in Procs : B(q)' = B(q)
  BY <1>3 DEF B, SamePlaces
<1>13. \A i \in Bufs : locked[i] # NONE => locked[i] \in Procs
  BY DEF IInv, Types
<1>14. \A q \in Procs : Holds(q)' <=> Holds(q)
  BY <1>2, <1>3, <1>4 DEF Holds
<1>15. Owners'
  <2>1. \A q \in Procs : At(q, "lock sleep")' => At(q, "lock sleep")
    BY <1>2, <1>3 DEF At
  <2> QED
    BY <2>1, <1>1, <1>12, <1>13, <1>14 DEF IInv, Owners
<1>16. AllFlags'
  <2>1. ASSUME NEW q \in Procs, q # p PROVE Flags(q)'
    <3>1. Flags(q) /\ pc'[q].at = pc[q].at /\ buf' = buf
      BY <1>1, <1>3, <2>1 DEF IInv, AllFlags
    <3>2. CASE Holds(q)
      <4>1. B(q) # B(p)
        BY <1>5, <2>1, <3>2 DEF IInv, Owners
      <4>2. Queued(B(q))' <=> Queued(B(q))
        BY <4>1, <1>6, <1>12
      <4> QED
        BY <3>1, <4>2, <1>12 DEF Flags, At
    <3>3. CASE ~Holds(q)
      BY <3>1, <3>3 DEF Flags, At, Holds, Holding
    <3> QED
      BY <3>2, <3>3
  <2>2. Flags(p)'
    <3>1. Flags(p) /\ pc'[p].at = to /\ Queued(B(p))' /\ buf' = buf
      BY <1>1, <1>3, <1>6, <1>12 DEF IInv, AllFlags
    <3> QED
      BY <3>1, <1>1, <1>12 DEF Flags, At
  <2> QED
    BY <2>1, <2>2 DEF AllFlags
<1>17. QueueHeld'
  <2>1. ASSUME NEW i \in Bufs, Queued(i)' PROVE locked[i] # NONE /\ pc'[locked[i]].at \in Waiting
    <3>1. CASE i = B(p)
      BY <3>1, <1>2, <1>3, <1>5, Constants
    <3>2. CASE Queued(i)
      BY <3>2, <1>2, <1>3, <1>13 DEF IInv, QueueHeld
    <3> QED
      BY <2>1, <3>1, <3>2, <1>6
  <2> QED
    BY <2>1, <1>1 DEF QueueHeld
<1>18. Room'
  <2>1. \A q \in Procs : Logs(q)' <=> Logs(q)
    BY <1>3, <1>9, SameLogs
  <2>2. pc[p].at \in Writing => to \in Writing
    BY <1>1 DEF Writing, At
  <2>3. ASSUME NEW i \in Bufs, NEW q \in Procs, Writer(q, i) PROVE Writer(q, i)'
    BY <2>2, <2>3, <1>3, <1>12 DEF Writer
  <2>4. \A i \in Bufs : Keeps(i)' => Keeps(i)
    BY <1>1, <1>3, <2>1, <2>3, KeepsLess
  <2> QED
    BY <2>4, RoomKept DEF IInv
<1> QED
  BY <1>6, <1>7, <1>8, <1>10, <1>11, <1>15, <1>16, <1>17, <1>18 DEF IInv

\* The first request leaves the queue, in which it was once.
LEMMA Removed ==
  ASSUME idequeue \in Seq(Bufs), idequeue # <<>>, idequeue' = Tail(idequeue), QueueOnce
  PROVE  /\ idequeue' \in Seq(Bufs) /\ Head(idequeue) \in Bufs /\ Queued(Head(idequeue))
         /\ \A j : Queued(j)' <=> Queued(j) /\ j # Head(idequeue)
         /\ QueueOnce'
         /\ idequeue' # <<>> => Head(idequeue') \in Bufs /\ Head(idequeue') # Head(idequeue)
<1>1. /\ Len(idequeue) \in Nat \ {0} /\ Len(idequeue') = Len(idequeue) - 1
      /\ idequeue' \in Seq(Bufs) /\ Head(idequeue) = idequeue[1] /\ idequeue[1] \in Bufs
      /\ \A k \in 1 .. Len(idequeue') : idequeue'[k] = idequeue[k + 1]
  OBVIOUS
<1>2. ASSUME NEW j, Queued(j)' PROVE Queued(j) /\ j # Head(idequeue)
  <2>1. PICK k \in 1 .. Len(idequeue') : idequeue'[k] = j
    BY <1>2 DEF Queued
  <2>2. k + 1 \in 1 .. Len(idequeue) /\ idequeue[k + 1] = j /\ k + 1 # 1 /\ 1 \in 1 .. Len(idequeue)
    BY <1>1, <2>1
  <2>3. idequeue[1] # j
    BY <2>2 DEF QueueOnce
  <2> QED
    BY <2>2, <2>3, <1>1 DEF Queued
<1>3. ASSUME NEW j, Queued(j), j # Head(idequeue) PROVE Queued(j)'
  <2>1. PICK k \in 1 .. Len(idequeue) : idequeue[k] = j
    BY <1>3 DEF Queued
  <2>2. k - 1 \in 1 .. Len(idequeue') /\ idequeue'[k - 1] = j
    BY <1>1, <1>3, <2>1
  <2> QED
    BY <2>2 DEF Queued
<1>4. QueueOnce'
  <2>1. ASSUME NEW j \in 1 .. Len(idequeue'), NEW k \in 1 .. Len(idequeue'), idequeue'[j] = idequeue'[k] PROVE j = k
    <3>1. j + 1 \in 1 .. Len(idequeue) /\ k + 1 \in 1 .. Len(idequeue) /\ idequeue[j + 1] = idequeue[k + 1]
      BY <1>1, <2>1
    <3>2. j + 1 = k + 1
      BY <3>1 DEF QueueOnce
    <3> QED
      BY <3>2, <1>1
  <2> QED
    BY <2>1 DEF QueueOnce
<1>5. Queued(Head(idequeue))
  BY <1>1 DEF Queued
<1>6. ASSUME idequeue' # <<>> PROVE Head(idequeue') \in Bufs /\ Head(idequeue') # Head(idequeue)
  <2>1. Head(idequeue') = idequeue[2] /\ idequeue[2] \in Bufs /\ 2 \in 1 .. Len(idequeue) /\ 1 \in 1 .. Len(idequeue)
    BY <1>1, <1>6
  <2>2. idequeue[1] # idequeue[2]
    BY <2>1 DEF QueueOnce
  <2> QED
    BY <1>1, <2>1, <2>2
<1> QED
  BY <1>1, <1>2, <1>3, <1>4, <1>5, <1>6 DEF Queued

LEMMA IdeintrStep ==
  ASSUME IInv, ideintr
  PROVE  IInv'
<1> DEFINE i == Head(idequeue)
           b == buf[i]
           h == locked[i]
<1>0. PICK read \in Delivered(b) :
        buf' = [buf EXCEPT ![i].valid = TRUE, ![i].dirty = FALSE,
                           ![i].data = IF b.dirty THEN @ ELSE read]
  BY DEF ideintr
<1>1. /\ sent # NONE
      /\ disk' = IF b.dirty THEN [disk EXCEPT ![b.block] = sent] ELSE disk
      /\ buf' = [buf EXCEPT ![i].valid = TRUE, ![i].dirty = FALSE,
                            ![i].data = IF b.dirty THEN @ ELSE read]
      /\ idequeue' = Tail(idequeue)
      /\ sent' = IF Tail(idequeue) = <<>> THEN NONE ELSE buf[Head(Tail(idequeue))].data
      /\ pc' = Finished(i)
      /\ UNCHANGED <<mru, locked, panicked, latest>>
  BY <1>0 DEF ideintr, Started
<1>2. idequeue # <<>> /\ sent = b.data
  BY <1>1 DEF IInv, Sending
<1>3. /\ idequeue' \in Seq(Bufs) /\ i \in Bufs /\ Queued(i)
      /\ \A j : Queued(j)' <=> Queued(j) /\ j # i
      /\ QueueOnce'
      /\ idequeue' # <<>> => Head(idequeue') \in Bufs /\ Head(idequeue') # i
  BY <1>1, <1>2, Removed DEF IInv, Types
<1>4. h \in Procs /\ pc[h].at \in Waiting /\ B(h) = i /\ Holds(h) /\ h # NONE
  BY <1>3 DEF IInv, QueueHeld, Owners, Types
<1>5. Flags(h) /\ ~At(h, "out")
  BY <1>4 DEF IInv, AllFlags, At, Waiting
<1>6. b \in BufType /\ b.block \in Blocks
  BY <1>3, <1>4, <1>5 DEF IInv, HasBlock, Types
<1>25. /\ read \in {0, 1}
       /\ b.block \notin FAULTY => read = disk[b.block]
  BY <1>0, <1>6 DEF Delivered, IInv, Types, BufType
<1>7. \/ ~b.valid /\ ~b.dirty /\ pc[h].at \in {"read sleep", "read done"}
      \/ b.valid /\ b.dirty /\ pc[h].at \in {"write sleep", "write done"}
  <2>1. b.dirty => b.valid
    BY <1>3 DEF IInv, Fresh
  <2> QED
    BY <1>3, <1>4, <1>5, <2>1 DEF Flags, At, Waiting
<1> HIDE DEF i, h
<1>8. /\ \A j \in Bufs : j # i => buf'[j] = buf[j]
      /\ buf'[i].valid /\ ~buf'[i].dirty /\ buf'[i].block = b.block /\ buf'[i].refcnt = b.refcnt
      /\ buf'[i].data = IF b.dirty THEN b.data ELSE read
      /\ buf' \in [Bufs -> BufType]
  BY <1>1, <1>3, <1>6, <1>25 DEF IInv, Types, BufType
<1>9. /\ \A q \in Procs : pc'[q].at = IF pc[q].buf = i /\ pc[q].at = "read sleep" THEN "read done"
                                      ELSE IF pc[q].buf = i /\ pc[q].at = "write sleep" THEN "write done"
                                      ELSE pc[q].at
      /\ SamePlaces /\ pc' \in [Procs -> PcType]
  <2>1. \A q \in Procs : pc'[q] = IF pc[q].buf = i /\ pc[q].at = "read sleep" THEN [pc[q] EXCEPT !.at = "read done"]
                                 ELSE IF pc[q].buf = i /\ pc[q].at = "write sleep" THEN [pc[q] EXCEPT !.at = "write done"]
                                 ELSE pc[q]
    BY <1>1 DEF Finished, On, Asleep, At, B
  <2>2. pc \in [Procs -> PcType] /\ DOMAIN pc' = Procs
    BY <1>1 DEF IInv, Types, Finished
  <2>3. pc' = [q \in Procs |-> pc'[q]]
    BY <1>1 DEF Finished
  <2>4. ASSUME NEW q \in Procs PROVE /\ pc'[q] \in PcType
                                    /\ pc'[q].buf = pc[q].buf /\ pc'[q].use = pc[q].use /\ pc'[q].block = pc[q].block
                                    /\ pc'[q].at = IF pc[q].buf = i /\ pc[q].at = "read sleep" THEN "read done"
                                                   ELSE IF pc[q].buf = i /\ pc[q].at = "write sleep" THEN "write done"
                                                   ELSE pc[q].at
    <3>1. pc[q] \in PcType
      BY <2>2
    <3> QED
      BY <3>1, <2>1 DEF PcType, Places, Holding
  <2> QED
    BY <2>3, <2>4 DEF SamePlaces
<1>10. b.data \in {0, 1}
  BY <1>6 DEF BufType
<1>11. Types'
  <2>1. disk' \in [Blocks -> {0, 1}]
    BY <1>1, <1>2, <1>6, <1>10 DEF IInv, Types
  <2>2. sent' \in {0, 1, NONE}
    BY <1>1, <1>3 DEF IInv, Types, BufType
  <2> QED
    BY <2>1, <2>2, <1>1, <1>3, <1>8, <1>9 DEF IInv, Types
<1> HIDE DEF b
<1>12. SameUsers /\ SameBlocks
  BY <1>8, <1>9 DEF SameUsers, SameBlocks, At, b
<1>13. Counted' /\ HasBlock'
  BY <1>9, <1>12, UsersKept DEF IInv
<1>14. InList' /\ OnePlace'
  <2>1. InList'
    BY <1>1 DEF IInv, InList
  <2>2. OnePlace'
    BY <1>12 DEF IInv, OnePlace, SameBlocks
  <2> QED
    BY <2>1, <2>2
<1>15. \A q \in Procs : B(q)' = B(q)
  BY <1>9 DEF B, SamePlaces
<1>16. \A j \in Bufs : locked[j] # NONE => locked[j] \in Procs
  BY DEF IInv, Types
<1>17. Owners'
  <2>1. \A q \in Procs : /\ Holds(q)' <=> Holds(q)
                         /\ At(q, "lock sleep")' <=> At(q, "lock sleep")
    BY <1>9 DEF Holds, At, Holding
  <2> QED
    BY <2>1, <1>1, <1>15, <1>16 DEF IInv, Owners
<1>18. QueueHeld'
  BY <1>1, <1>3, <1>9, <1>16 DEF IInv, QueueHeld, Waiting
<1>19. Sending'
  <2>1. CASE idequeue' # <<>>
    <3>1. Head(idequeue') \in Bufs /\ Head(idequeue') # i
      BY <1>3, <2>1
    <3>2. buf'[Head(idequeue')] = buf[Head(idequeue')]
      BY <3>1, <1>8
    <3> QED
      BY <3>2, <2>1, <1>1 DEF Sending
  <2>2. CASE idequeue' = <<>>
    BY <2>2, <1>1 DEF Sending
  <2> QED
    BY <2>1, <2>2
<1>20. AllFlags'
  <2>1. ASSUME NEW q \in Procs PROVE Flags(q)'
    <3>1. CASE q = h
      BY <3>1, <1>3, <1>4, <1>7, <1>8, <1>9, <1>15 DEF Flags, At, B
    <3>2. CASE q # h /\ Holds(q)
      <4>1. B(q) # i /\ B(q) \in Bufs
        BY <1>4, <3>2 DEF IInv, Owners, HasBlock, Holds, Holding, At, h
      <4>2. pc'[q].at = pc[q].at /\ buf'[B(q)] = buf[B(q)] /\ (Queued(B(q))' <=> Queued(B(q)))
        BY <4>1, <1>3, <1>8, <1>9, <1>15 DEF B
      <4> QED
        BY <4>2, <1>15 DEF Flags, At, IInv, AllFlags
    <3>3. CASE ~Holds(q)
      BY <3>3, <1>9 DEF Flags, At, Holds, Holding
    <3> QED
      BY <3>1, <3>2, <3>3
  <2> QED
    BY <2>1 DEF AllFlags
<1>21. ASSUME ~b.dirty PROVE disk[b.block] = latest[b.block]
  <2>1. ASSUME NEW j \in Bufs, buf[j].block = b.block PROVE ~buf[j].dirty
    BY <2>1, <1>3, <1>6, <1>21 DEF IInv, OnePlace, b
  <2> QED
    BY <2>1, <1>6 DEF IInv, OnDisk
<1>22. Fresh'
  <2>1. buf'[i].block \in Blocks /\ (buf'[i].block \notin FAULTY => buf'[i].data = latest[buf'[i].block])
    BY <1>3, <1>6, <1>7, <1>8, <1>21, <1>25 DEF IInv, Fresh, b
  <2> QED
    BY <2>1, <1>1, <1>8 DEF IInv, Fresh
<1>23. OnDisk'
  <2>1. ASSUME NEW n \in Blocks, disk'[n] # latest[n]
        PROVE  \E j \in Bufs : buf'[j].block = n /\ buf'[j].dirty
    <3>1. ASSUME b.dirty PROVE n # b.block
      <4>1. disk'[b.block] = b.data /\ b.data = latest[b.block]
        BY <3>1, <1>1, <1>2, <1>3, <1>6, <1>7 DEF IInv, Fresh, Types, b
      <4> QED
        BY <4>1, <2>1
    <3>2. disk[n] # latest[n]
      BY <2>1, <3>1, <1>1, <1>6 DEF IInv, Types
    <3>3. PICK j \in Bufs : buf[j].block = n /\ buf[j].dirty
      BY <3>2 DEF IInv, OnDisk
    <3>4. j # i
      BY <3>1, <3>3 DEF b
    <3> QED
      BY <3>3, <3>4, <1>8
  <2> QED
    BY <2>1, <1>1 DEF OnDisk
<1>24. Room'
  <2>1. \A q \in Procs : Logs(q)' <=> Logs(q)
    BY <1>9, <1>12, SameLogs
  <2>2. ASSUME NEW j \in Bufs, NEW q \in Procs, Writer(q, j) PROVE Writer(q, j)'
    BY <2>2, <1>9, <1>15 DEF Writer, Writing
  <2>3. \A j \in Bufs : buf'[j].dirty => buf[j].dirty
    BY <1>8
  <2>4. \A j \in Bufs : Keeps(j)' => Keeps(j)
    BY <1>9, <2>1, <2>2, <2>3, KeepsLess
  <2> QED
    BY <2>4, RoomKept DEF IInv
<1> QED
  BY <1>3, <1>11, <1>13, <1>14, <1>17, <1>18, <1>19, <1>20, <1>22, <1>23, <1>24 DEF IInv

\* A user changes the contents, of the block and of its buffer.
LEMMA WriteStep ==
  ASSUME IInv, NEW p \in Procs, Use(p), pc[p].use # "read"
  PROVE  IInv'
<1> DEFINE i == B(p)
           n == pc[p].block
           new == 1 - buf[i].data
           to == IF pc[p].use = "bwrite" THEN "bwrite" ELSE "brelse"
<1>1. /\ At(p, "using")
      /\ buf' = [buf EXCEPT ![i].data = new, ![i].dirty = TRUE]
      /\ latest' = [latest EXCEPT ![n] = new]
      /\ Goto(p, to)
      /\ UNCHANGED <<mru, locked, idequeue, sent, disk, panicked>>
  BY DEF Use
<1>2. to \in Places /\ to \in Holding /\ to \notin Waiting /\ to # "out" /\ to # "lock sleep"
  BY DEF Places, Holding, Waiting
<1>3. /\ pc' \in [Procs -> PcType] /\ SamePlaces
      /\ \A q \in Procs : pc'[q].at = IF q = p THEN to ELSE pc[q].at
  BY <1>1, <1>2, Move DEF IInv
<1>4. ~At(p, "out") /\ Holds(p) /\ pc[p].at \notin Waiting /\ pc[p].at \notin Writing
  BY <1>1 DEF At, Holds, Holding, Waiting, Writing
<1>5. i \in Bufs /\ n \in Blocks /\ buf[i].block = n /\ locked[i] = p /\ ~Queued(i)
  BY <1>4 DEF IInv, HasBlock, QueueHeld, Owners
<1>6. buf[i].valid /\ buf[i] \in BufType
  BY <1>1, <1>5 DEF IInv, AllFlags, Flags, Types
<1>7. new \in {0, 1}
  BY <1>6 DEF BufType
<1>8. \A q \in Procs : B(q)' = B(q)
  BY <1>3 DEF B, SamePlaces
<1>9. \/ pc[p].use = "bwrite" /\ to = "bwrite"
      \/ pc[p].use = "log_write" /\ to = "brelse"
  BY DEF IInv, Types, PcType, Uses
<1> HIDE DEF i, n, new, to
<1>10. /\ \A j \in Bufs : j # i => buf'[j] = buf[j]
       /\ buf'[i].valid /\ buf'[i].dirty /\ buf'[i].block = n /\ buf'[i].refcnt = buf[i].refcnt
       /\ buf'[i].data = new
       /\ buf' \in [Bufs -> BufType]
  BY <1>1, <1>5, <1>6, <1>7 DEF IInv, Types, BufType
<1>11. latest' \in [Blocks -> {0, 1}] /\ \A m \in Blocks : latest'[m] = IF m = n THEN new ELSE latest[m]
  BY <1>1, <1>5, <1>7 DEF IInv, Types
<1>12. Types'
  BY <1>1, <1>3, <1>10, <1>11 DEF IInv, Types
<1>13. SameUsers /\ SameBlocks
  BY <1>2, <1>3, <1>4, <1>5, <1>10 DEF SameUsers, SameBlocks, At
<1>14. Counted' /\ HasBlock'
  BY <1>3, <1>13, UsersKept DEF IInv
<1>15. InList' /\ QueueOnce'
  BY <1>1 DEF IInv, InList, QueueOnce
<1>16. OnePlace'
  BY <1>13 DEF IInv, OnePlace, SameBlocks
<1>17. \A j \in Bufs : locked[j] # NONE => locked[j] \in Procs
  BY DEF IInv, Types
<1>18. Owners'
  <2>1. \A q \in Procs : (Holds(q)' <=> Holds(q)) /\ (At(q, "lock sleep")' => At(q, "lock sleep"))
    BY <1>2, <1>3, <1>4 DEF Holds, At
  <2> QED
    BY <2>1, <1>1, <1>8, <1>17 DEF IInv, Owners
<1>19. QueueHeld'
  <2>1. ASSUME NEW j \in Bufs, Queued(j) PROVE locked[j] # NONE /\ pc'[locked[j]].at \in Waiting
    <3>1. locked[j] \in Procs /\ locked[j] # p /\ locked[j] # NONE /\ pc[locked[j]].at \in Waiting
      BY <2>1, <1>4, <1>17 DEF IInv, QueueHeld
    <3> QED
      BY <3>1, <1>3
  <2> QED
    BY <2>1, <1>1 DEF QueueHeld, Queued
<1>20. Sending'
  <2>1. CASE idequeue # <<>>
    <3>1. Head(idequeue) \in Bufs /\ Queued(Head(idequeue))
      <4>1. Head(idequeue) = idequeue[1] /\ 1 \in 1 .. Len(idequeue) /\ idequeue[1] \in Bufs
        BY <2>1 DEF IInv, Types
      <4> QED
        BY <4>1 DEF Queued
    <3>2. buf'[Head(idequeue)] = buf[Head(idequeue)]
      BY <3>1, <1>5, <1>10
    <3> QED
      BY <3>2, <2>1, <1>1 DEF IInv, Sending
  <2>2. CASE idequeue = <<>>
    BY <2>2, <1>1 DEF IInv, Sending
  <2> QED
    BY <2>1, <2>2
<1>21. AllFlags'
  <2>1. ASSUME NEW q \in Procs, q # p PROVE Flags(q)'
    <3>1. Flags(q) /\ pc'[q].at = pc[q].at /\ (Queued(B(q))' <=> Queued(B(q)))
      BY <1>1, <1>3, <1>8, <2>1 DEF IInv, AllFlags, Queued
    <3>2. CASE Holds(q)
      <4>1. B(q) # i /\ B(q) \in Bufs
        BY <1>5, <2>1, <3>2 DEF IInv, Owners, HasBlock, Holds, Holding, At
      <4> QED
        BY <4>1, <3>1, <1>8, <1>10 DEF Flags, At
    <3>3. CASE ~Holds(q)
      BY <3>1, <3>3 DEF Flags, At, Holds, Holding
    <3> QED
      BY <3>2, <3>3
  <2>2. Flags(p)'
    BY <1>3, <1>8, <1>9, <1>10 DEF Flags, At, i
  <2> QED
    BY <2>1, <2>2 DEF AllFlags
<1>22. Fresh'
  <2>1. ASSUME NEW j \in Bufs, j # i, buf[j].valid
        PROVE  /\ buf[j].block \in Blocks
               /\ buf[j].dirty \/ buf[j].block \notin FAULTY => buf[j].data = latest'[buf[j].block]
    <3>1. /\ buf[j].block \in Blocks
          /\ buf[j].dirty \/ buf[j].block \notin FAULTY => buf[j].data = latest[buf[j].block]
      BY <2>1 DEF IInv, Fresh
    <3>2. buf[j].block # n
      BY <3>1, <2>1, <1>5 DEF IInv, OnePlace
    <3> QED
      BY <3>1, <3>2, <1>11
  <2> QED
    BY <2>1, <1>5, <1>10, <1>11 DEF IInv, Fresh
<1>23. OnDisk'
  <2>1. ASSUME NEW m \in Blocks, disk[m] # latest'[m]
        PROVE  \E j \in Bufs : buf'[j].block = m /\ buf'[j].dirty
    <3>1. CASE m = n
      BY <3>1, <1>5, <1>10
    <3>2. CASE m # n
      <4>1. PICK j \in Bufs : buf[j].block = m /\ buf[j].dirty
        BY <2>1, <3>2, <1>11 DEF IInv, OnDisk
      <4> QED
        BY <4>1, <3>2, <1>5, <1>10
    <3> QED
      BY <3>1, <3>2
  <2> QED
    BY <2>1, <1>1 DEF OnDisk
<1>24. Room'
  <2>1. \A q \in Procs : Logs(q)' <=> Logs(q)
    BY <1>3, <1>13, SameLogs
  <2>2. ASSUME NEW j \in Bufs, NEW q \in Procs, Writer(q, j) PROVE Writer(q, j)'
    BY <2>2, <1>3, <1>4, <1>8 DEF Writer
  <2>3. ASSUME NEW j \in Bufs, j # i, Keeps(j)' PROVE Keeps(j)
    BY <2>3, <1>3, <1>10, <2>1, <2>2, KeepsLess
  <2>4. ASSUME NEW j \in Bufs, j = i, Keeps(j)' PROVE Keeps(j)
    <3>1. CASE to = "bwrite"
      <4>1. Writer(p, j)'
        BY <3>1, <2>4, <1>3, <1>8 DEF Writer, Writing, i
      <4>2. \E q \in Procs : Logs(q)' /\ B(q)' = j
        BY <4>1, <2>4 DEF Keeps
      <4> QED
        BY <4>2, <2>1, <1>8 DEF Keeps
    <3>2. CASE pc[p].use = "log_write"
      BY <3>2, <2>4, <1>4 DEF Keeps, Logs, i
    <3> QED
      BY <3>1, <3>2, <1>9
  <2> QED
    BY <2>3, <2>4, RoomKept DEF IInv
<1> QED
  BY <1>12, <1>14, <1>15, <1>16, <1>18, <1>19, <1>20, <1>21, <1>22, <1>23, <1>24 DEF IInv

LEMMA UseStep ==
  ASSUME IInv, NEW p \in Procs, Use(p)
  PROVE  IInv'
<1>1. CASE pc[p].use = "read"
  <2>1. /\ At(p, "using") /\ Goto(p, "brelse")
        /\ UNCHANGED <<buf, mru, locked, idequeue, sent, disk, panicked, latest>>
    BY <1>1 DEF Use
  <2>2. /\ SamePlaces /\ "brelse" \in Places /\ "brelse" \in Holding
        /\ \A q \in Procs : pc'[q].at = IF q = p THEN "brelse" ELSE pc[q].at
    BY <2>1, Move DEF IInv, Places, Holding
  <2>3. Flags(p)'
    <3>1. buf[B(p)].valid
      BY <2>1 DEF IInv, AllFlags, Flags
    <3>2. pc'[p].at = "brelse" /\ B(p)' = B(p) /\ buf' = buf
      BY <2>1, <2>2 DEF B, SamePlaces
    <3> QED
      BY <3>1, <3>2 DEF Flags, At
  <2>4. ~At(p, "out") /\ Holds(p) /\ pc[p].at \notin Waiting /\ pc[p].at \notin Writing
    BY <2>1 DEF At, Holds, Holding, Waiting, Writing
  <2> QED
    BY <2>1, <2>2, <2>3, <2>4, QuietMove
<1>2. CASE pc[p].use # "read"
  BY <1>2, WriteStep
<1> QED
  BY <1>1, <1>2

\* releasesleep gives the lock up and wakes those that sleep on it.
LEMMA ReleaseStep ==
  ASSUME IInv, NEW p \in Procs, releasesleep(p)
  PROVE  IInv'
<1> DEFINE i == B(p)
<1>1. /\ At(p, "brelse")
      /\ locked' = [locked EXCEPT ![i] = NONE]
      /\ pc' = [Wake(On(i, "lock sleep"), "relock") EXCEPT ![p].at = "unref"]
      /\ UNCHANGED <<buf, mru, idequeue, sent, disk, panicked, latest>>
  BY DEF releasesleep
<1>2. ~At(p, "out") /\ Holds(p) /\ pc[p].at \notin Waiting /\ pc[p].at \notin Writing
  BY <1>1 DEF At, Holds, Holding, Waiting, Writing
<1>3. i \in Bufs /\ locked[i] = p /\ ~Queued(i)
  BY <1>2 DEF IInv, HasBlock, QueueHeld, Owners
<1> HIDE DEF i
<1>4. /\ pc' \in [Procs -> PcType] /\ SamePlaces
      /\ \A q \in Procs : pc'[q].at = IF q = p THEN "unref"
                                      ELSE IF pc[q].buf = i /\ pc[q].at = "lock sleep" THEN "relock"
                                      ELSE pc[q].at
  <2> DEFINE w == Wake(On(i, "lock sleep"), "relock")
  <2>1. w = [q \in Procs |-> IF pc[q].buf = i /\ pc[q].at = "lock sleep" THEN [pc[q] EXCEPT !.at = "relock"] ELSE pc[q]]
    BY DEF Wake, On, Asleep, At, B
  <2>2. ASSUME NEW q \in Procs
        PROVE  /\ w[q] \in PcType /\ w[q].buf = pc[q].buf /\ w[q].use = pc[q].use /\ w[q].block = pc[q].block
               /\ w[q].at = IF pc[q].buf = i /\ pc[q].at = "lock sleep" THEN "relock" ELSE pc[q].at
    <3>1. pc[q] \in PcType
      BY DEF IInv, Types
    <3> QED
      BY <3>1, <2>1 DEF PcType, Places
  <2>3. w \in [Procs -> PcType] /\ pc' = [w EXCEPT ![p].at = "unref"]
    BY <2>1, <2>2, <1>1
  <2> HIDE DEF w
  <2> QED
    BY <2>2, <2>3 DEF PcType, Places, SamePlaces
<1>5. \A j \in Bufs : locked'[j] = IF j = i THEN NONE ELSE locked[j]
  BY <1>1, <1>3 DEF IInv, Types
<1>6. Types'
  BY <1>1, <1>3, <1>4 DEF IInv, Types
<1>7. SameUsers /\ SameBlocks
  <2>1. SameUsers
    BY <1>2, <1>4 DEF SameUsers, At
  <2>2. SameBlocks
    BY <1>1 DEF SameBlocks
  <2> QED
    BY <2>1, <2>2
<1>8. Counted' /\ HasBlock'
  BY <1>4, <1>7, UsersKept DEF IInv
<1>9. InList' /\ QueueOnce' /\ Sending' /\ OnePlace' /\ Fresh' /\ OnDisk'
  BY <1>1 DEF IInv, InList, QueueOnce, Sending, OnePlace, Fresh, OnDisk
<1>10. \A q \in Procs : B(q)' = B(q)
  BY <1>4 DEF B, SamePlaces
<1>11. \A j \in Bufs : locked[j] # NONE => locked[j] \in Procs
  BY DEF IInv, Types
<1>12. Owners'
  <2>1. \A q \in Procs : Holds(q)' <=> Holds(q) /\ q # p
    BY <1>4 DEF Holds, Holding
  <2>2. ASSUME NEW q \in Procs, Holds(q), q # p PROVE locked'[B(q)] = q
    <3>1. locked[B(q)] = q /\ B(q) \in Bufs
      BY <2>2 DEF IInv, Owners, HasBlock, Holds, Holding, At
    <3> QED
      BY <3>1, <2>2, <1>3, <1>5
  <2>3. ASSUME NEW j \in Bufs, locked'[j] # NONE
        PROVE  locked'[j] \in Procs /\ Holds(locked[j]) /\ locked'[j] = locked[j] /\ locked[j] # p /\ B(locked[j]) = j
    <3>1. j # i /\ locked'[j] = locked[j]
      BY <2>3, <1>5
    <3>2. Holds(locked[j]) /\ B(locked[j]) = j /\ locked[j] \in Procs
      BY <2>3, <3>1, <1>11 DEF IInv, Owners
    <3> QED
      BY <3>1, <3>2 DEF i
  <2>4. ASSUME NEW q \in Procs, At(q, "lock sleep")' PROVE locked'[B(q)] # NONE
    <3>1. At(q, "lock sleep") /\ B(q) # i
      BY <2>4, <1>4 DEF At, B
    <3>2. locked[B(q)] # NONE /\ B(q) \in Bufs
      BY <3>1 DEF IInv, Owners, HasBlock, At
    <3> QED
      BY <3>1, <3>2, <1>5
  <2> QED
    BY <2>1, <2>2, <2>3, <2>4, <1>10 DEF Owners
<1>13. AllFlags'
  <2>1. ASSUME NEW q \in Procs PROVE Flags(q)'
    <3>1. Flags(q) /\ buf' = buf /\ (Queued(B(q))' <=> Queued(B(q)))
      BY <1>1, <1>10 DEF IInv, AllFlags, Queued
    <3>2. CASE pc'[q].at \in {"unref", "relock"}
      BY <3>2 DEF Flags, At
    <3>3. CASE pc'[q].at = pc[q].at
      BY <3>1, <3>3, <1>10 DEF Flags, At
    <3> QED
      BY <3>2, <3>3, <1>4
  <2> QED
    BY <2>1 DEF AllFlags
<1>14. QueueHeld'
  <2>1. ASSUME NEW j \in Bufs, Queued(j) PROVE locked'[j] # NONE /\ pc'[locked'[j]].at \in Waiting
    <3>1. locked[j] \in Procs /\ locked[j] # p /\ locked[j] # NONE /\ pc[locked[j]].at \in Waiting
      BY <2>1, <1>2, <1>11 DEF IInv, QueueHeld
    <3>2. locked'[j] = locked[j]
      BY <3>1, <1>3, <1>5
    <3> QED
      BY <3>1, <3>2, <1>4 DEF Waiting
  <2> QED
    BY <2>1, <1>1 DEF QueueHeld, Queued
<1>15. Room'
  <2>1. \A q \in Procs : Logs(q)' <=> Logs(q)
    BY <1>4, <1>7, SameLogs
  <2>2. ASSUME NEW j \in Bufs, NEW q \in Procs, Writer(q, j) PROVE Writer(q, j)'
    BY <2>2, <1>2, <1>4, <1>10 DEF Writer, Writing
  <2>3. \A j \in Bufs : Keeps(j)' => Keeps(j)
    BY <1>1, <1>4, <2>1, <2>2, KeepsLess
  <2> QED
    BY <2>3, RoomKept DEF IInv
<1> QED
  BY <1>6, <1>8, <1>9, <1>12, <1>13, <1>14, <1>15 DEF IInv

-----------------------------------------------------------------------------
LEMMA UsersFinite ==
  ASSUME NEW i
  PROVE  IsFiniteSet(Users(i)) /\ Cardinality(Users(i)) \in Nat
<1>1. Users(i) \in SUBSET Procs
  BY DEF Users
<1>2. IsFiniteSet(Users(i))
  BY <1>1, Constants, FS_Subset
<1> QED
  BY <1>2, FS_CardinalityType

LEMMA NoUsers ==
  ASSUME IInv, NEW i \in Bufs
  PROVE  buf[i].refcnt = 0 <=> Users(i) = {}
BY UsersFinite, FS_EmptySet DEF IInv, Counted

\* The list keeps all buffers when one of them goes to the front.
LEMMA RecentKeeps ==
  ASSUME InList, NEW i \in Bufs
  PROVE  Recent(i) \in [Bufs -> Bufs] /\ \A j \in Bufs : \E k \in Bufs : Recent(i)[k] = j
<1> DEFINE k == CHOOSE k \in DOMAIN mru : mru[k] = i
           r == Recent(i)
<1>1. mru \in [Bufs -> Bufs] /\ NBUF \in Nat /\ Bufs = 1 .. NBUF
  BY Constants DEF InList, Bufs
<1>2. k \in Bufs /\ mru[k] = i
  BY <1>1 DEF InList
<1>3. r = [j \in Bufs |-> IF j = 1 THEN i ELSE IF j <= k THEN mru[j - 1] ELSE mru[j]]
  BY <1>1 DEF Recent
<1> HIDE DEF k, r
<1>4. r \in [Bufs -> Bufs]
  <2>1. ASSUME NEW j \in Bufs PROVE (IF j = 1 THEN i ELSE IF j <= k THEN mru[j - 1] ELSE mru[j]) \in Bufs
    <3>1. j # 1 => j - 1 \in Bufs
      BY <1>1
    <3> QED
      BY <3>1, <1>1
  <2> QED
    BY <2>1, <1>3
<1>5. ASSUME NEW j \in Bufs PROVE \E m \in Bufs : r[m] = j
  <2>1. PICK m \in Bufs : mru[m] = j
    BY DEF InList
  <2>2. CASE m = k
    BY <2>1, <2>2, <1>1, <1>2, <1>3
  <2>3. CASE m < k
    <3>1. m + 1 \in Bufs /\ m + 1 # 1 /\ m + 1 <= k /\ (m + 1) - 1 = m
      BY <2>3, <1>1, <1>2
    <3> QED
      BY <3>1, <2>1, <1>3
  <2>4. CASE m > k
    BY <2>1, <2>4, <1>1, <1>2, <1>3
  <2> QED
    BY <2>2, <2>3, <2>4, <1>1, <1>2
<1> QED
  BY <1>4, <1>5 DEF r

LEMMA BrelseStep ==
  ASSUME IInv, NEW p \in Procs, brelse(p)
  PROVE  IInv'
<1> DEFINE i == B(p)
<1>1. /\ At(p, "unref")
      /\ buf' = [buf EXCEPT ![i].refcnt = @ - 1]
      /\ mru' = IF buf[i].refcnt = 1 THEN Recent(i) ELSE mru
      /\ Goto(p, "out")
      /\ UNCHANGED <<locked, idequeue, sent, disk, panicked, latest>>
  BY DEF brelse
<1>2. ~At(p, "out") /\ ~Holds(p) /\ pc[p].at \notin Waiting /\ pc[p].at \notin Writing
  BY <1>1 DEF At, Holds, Holding, Waiting, Writing
<1>3. i \in Bufs /\ p \in Users(i)
  BY <1>2 DEF IInv, HasBlock, Users
<1>4. buf[i] \in BufType /\ buf[i].refcnt = Cardinality(Users(i))
  BY <1>3 DEF IInv, Types, Counted
<1>5. Cardinality(Users(i) \ {p}) = buf[i].refcnt - 1 /\ buf[i].refcnt - 1 \in Nat
  <2>1. IsFiniteSet(Users(i) \ {p}) /\ Cardinality(Users(i) \ {p}) = Cardinality(Users(i)) - 1
    BY <1>3, UsersFinite, FS_RemoveElement
  <2> QED
    BY <2>1, <1>4, FS_CardinalityType
<1>6. \A j \in Bufs : j # i => p \notin Users(j)
  BY DEF Users
<1> HIDE DEF i
<1>7. /\ pc' \in [Procs -> PcType] /\ SamePlaces
      /\ \A q \in Procs : pc'[q].at = IF q = p THEN "out" ELSE pc[q].at
  BY <1>1, Move DEF IInv, Places
<1>8. /\ \A j \in Bufs : j # i => buf'[j] = buf[j]
      /\ buf'[i] = [buf[i] EXCEPT !.refcnt = @ - 1]
  BY <1>1, <1>3 DEF IInv, Types
<1>9. /\ buf' \in [Bufs -> BufType]
      /\ \A j \in Bufs : /\ buf'[j].valid = buf[j].valid /\ buf'[j].dirty = buf[j].dirty
                         /\ buf'[j].data = buf[j].data /\ buf'[j].block = buf[j].block
      /\ buf'[i].refcnt = buf[i].refcnt - 1
  <2>1. buf'[i] \in BufType /\ buf'[i].refcnt = buf[i].refcnt - 1
    BY <1>4, <1>5, <1>8 DEF BufType
  <2>2. /\ buf'[i].valid = buf[i].valid /\ buf'[i].dirty = buf[i].dirty
        /\ buf'[i].data = buf[i].data /\ buf'[i].block = buf[i].block
    BY <1>4, <1>8 DEF BufType
  <2> QED
    BY <2>1, <2>2, <1>1, <1>8 DEF IInv, Types
<1>10. Types'
  BY <1>1, <1>7, <1>9 DEF IInv, Types
<1>11. InList'
  BY <1>1, <1>3, RecentKeeps DEF IInv, InList
<1>12. \A q \in Procs : B(q)' = B(q)
  BY <1>7 DEF B, SamePlaces
<1>13. Counted'
  <2>1. ASSUME NEW j \in Bufs PROVE Users(j)' = Users(j) \ {p}
    BY <1>7, <1>12 DEF Users, At
  <2>2. ASSUME NEW j \in Bufs PROVE buf'[j].refcnt = Cardinality(Users(j) \ {p})
    <3>1. CASE j = i
      BY <3>1, <1>5, <1>9
    <3>2. CASE j # i
      <4>1. Users(j) \ {p} = Users(j)
        BY <3>2, <1>6
      <4> QED
        BY <4>1, <3>2, <1>8 DEF IInv, Counted
    <3> QED
      BY <3>1, <3>2
  <2> QED
    BY <2>1, <2>2 DEF Counted
<1>14. HasBlock'
  BY <1>7, <1>9 DEF IInv, HasBlock, SamePlaces, At, B
<1>15. \A j \in Bufs : locked[j] # NONE => locked[j] \in Procs
  BY DEF IInv, Types
<1>16. Owners'
  <2>1. \A q \in Procs : (Holds(q)' <=> Holds(q)) /\ (At(q, "lock sleep")' => At(q, "lock sleep"))
    BY <1>2, <1>7 DEF Holds, At, Holding
  <2> QED
    BY <2>1, <1>1, <1>12, <1>15 DEF IInv, Owners
<1>17. AllFlags'
  <2>1. ASSUME NEW q \in Procs PROVE Flags(q)'
    <3>1. Flags(q) /\ (Queued(B(q))' <=> Queued(B(q)))
      BY <1>1, <1>12 DEF IInv, AllFlags, Queued
    <3>2. CASE q = p \/ ~Holds(q)
      BY <3>2, <1>2, <1>7 DEF Flags, At, Holds, Holding
    <3>3. CASE q # p /\ Holds(q)
      <4>1. B(q) \in Bufs
        BY <3>3 DEF IInv, HasBlock, Holds, Holding, At
      <4> QED
        BY <4>1, <3>1, <3>3, <1>7, <1>9, <1>12 DEF Flags, At
    <3> QED
      BY <3>2, <3>3
  <2> QED
    BY <2>1 DEF AllFlags
<1>18. QueueOnce'
  BY <1>1 DEF IInv, QueueOnce
<1>19. QueueHeld'
  <2>1. ASSUME NEW j \in Bufs, Queued(j) PROVE locked[j] # NONE /\ pc'[locked[j]].at \in Waiting
    <3>1. locked[j] \in Procs /\ locked[j] # p /\ locked[j] # NONE /\ pc[locked[j]].at \in Waiting
      BY <2>1, <1>2, <1>15 DEF IInv, QueueHeld
    <3> QED
      BY <3>1, <1>7
  <2> QED
    BY <2>1, <1>1 DEF QueueHeld, Queued
<1>20. Sending'
  <2>1. idequeue # <<>> => Head(idequeue) \in Bufs
    BY DEF IInv, Types
  <2> QED
    BY <2>1, <1>1, <1>9 DEF IInv, Sending
<1>21. OnePlace'
  BY <1>9 DEF IInv, OnePlace
<1>22. Fresh'
  BY <1>1, <1>9 DEF IInv, Fresh
<1>23. OnDisk'
  BY <1>1, <1>9 DEF IInv, OnDisk
<1>24. Room'
  <2>1. \A q \in Procs : Logs(q)' => Logs(q)
    BY <1>7 DEF Logs, SamePlaces, At
  <2>2. ASSUME NEW j \in Bufs, NEW q \in Procs, Writer(q, j) PROVE Writer(q, j)'
    BY <2>2, <1>2, <1>7, <1>12 DEF Writer
  <2>3. \A j \in Bufs : Keeps(j)' => Keeps(j)
    BY <1>7, <1>9, <2>1, <2>2, KeepsLess
  <2> QED
    BY <2>3, RoomKept DEF IInv
<1> QED
  BY <1>10, <1>11, <1>13, <1>14, <1>16, <1>17, <1>18, <1>19, <1>20, <1>21, <1>22, <1>23, <1>24 DEF IInv

\* With enough buffers whoever comes for one finds a free one: of those that are not, the log keeps
\* MAXDIRTY at most, and each of the other processes uses one.
LEMMA FreeOne ==
  ASSUME IInv, EnoughBuffers, NEW p \in Procs, At(p, "out")
  PROVE  \E i \in Bufs : Free(i)
<1> DEFINE S == Procs \ {p}
           T == {B(q) : q \in S}
           f == [q \in S |-> B(q)]
<1>1. IsFiniteSet(S) /\ Cardinality(S) = Cardinality(Procs) - 1
  BY Constants, FS_RemoveElement
<1>2. IsFiniteSet(T) /\ Cardinality(T) <= Cardinality(S)
  <2>1. f \in Surjection(S, T)
    BY DEF Surjection
  <2> QED
    BY <2>1, <1>1, FS_Surjection
<1>3. IsFiniteSet(Kept) /\ Cardinality(Kept) \in Nat /\ Cardinality(Kept) <= MAXDIRTY
  BY KeptFinite DEF IInv, Room
<1>4. /\ IsFiniteSet(Kept \cup T)
      /\ Cardinality(Kept \cup T) = Cardinality(Kept) + Cardinality(T) - Cardinality(Kept \cap T)
  BY <1>2, <1>3, FS_Union
<1>5. IsFiniteSet(Kept \cap T)
  BY <1>2, FS_Intersection
<1>6. Cardinality(Kept \cap T) \in Nat /\ Cardinality(T) \in Nat /\ Cardinality(S) \in Nat
  BY <1>1, <1>2, <1>5, FS_CardinalityType
<1>7. Cardinality(Kept \cup T) < NBUF
  BY <1>1, <1>2, <1>3, <1>4, <1>6, Constants DEF EnoughBuffers
<1>8. ASSUME Bufs \subseteq Kept \cup T PROVE FALSE
  <2>1. Bufs \in SUBSET (Kept \cup T)
    BY <1>8
  <2>2. Cardinality(Bufs) <= Cardinality(Kept \cup T)
    BY <2>1, <1>4, FS_Subset
  <2> QED
    BY <2>2, <1>3, <1>4, <1>6, <1>7, Constants
<1>9. PICK i \in Bufs : i \notin Kept /\ i \notin T
  BY <1>8
<1>10. \A q \in Procs : ~At(q, "out") => B(q) # i
  BY <1>9
<1>11. buf[i].refcnt = 0
  <2>1. Users(i) = {}
    BY <1>10 DEF Users
  <2> QED
    BY <2>1, NoUsers
<1>12. ~buf[i].dirty
  <2>1. \A q \in Procs : ~Writer(q, i)
    BY <1>10 DEF Writer, Writing, At
  <2> QED
    BY <2>1, <1>9 DEF Kept, Keeps
<1> QED
  BY <1>11, <1>12 DEF Free

LEMMA GreatestNatural ==
  ASSUME NEW n \in Nat, NEW S, S \subseteq 1 .. n, S # {}
  PROVE  \E k \in S : \A j \in S : j <= k
<1> DEFINE T == {n - k : k \in S}
           R == OpToRel(<, Nat)
<1>1. T \subseteq Nat /\ T # {}
  OBVIOUS
<1>2. IsWellFoundedOn(R, Nat)
  BY NatLessThanWellFounded
<1>3. \A x, y \in Nat : <<y, x>> \in R <=> y < x
  BY DEF OpToRel
<1> HIDE DEF T, R
<1>4. PICK x \in T : \A y \in T : ~(<<y, x>> \in R)
  BY <1>1, <1>2, WFMin
<1>5. PICK k \in S : x = n - k
  BY <1>4 DEF T
<1>6. ASSUME NEW j \in S PROVE j <= k
  <2>1. n - j \in T /\ n - j \in Nat /\ x \in Nat
    BY <1>1, <1>4 DEF T
  <2>2. ~(n - j < x)
    BY <2>1, <1>3, <1>4
  <2> QED
    BY <2>2, <1>5
<1> QED
  BY <1>6

\* bget takes the buffer of the block.
LEMMA BgetCached ==
  ASSUME IInv, NEW p \in Procs, At(p, "out"), NEW n \in Blocks, NEW use \in Uses, NEW i \in Bufs,
         buf[i].block = n,
         buf' = [buf EXCEPT ![i].refcnt = @ + 1]
  PROVE  /\ buf' \in [Bufs -> BufType]
         /\ \A j \in Bufs : /\ buf'[j].valid = buf[j].valid /\ buf'[j].dirty = buf[j].dirty
                            /\ buf'[j].data = buf[j].data /\ buf'[j].block = buf[j].block
         /\ buf'[i].refcnt = buf[i].refcnt + 1
         /\ \A j \in Bufs : j # i => buf'[j] = buf[j]
<1>1. buf[i] \in BufType /\ buf \in [Bufs -> BufType]
  BY DEF IInv, Types
<1>2. buf'[i] = [buf[i] EXCEPT !.refcnt = buf[i].refcnt + 1] /\ \A j \in Bufs : j # i => buf'[j] = buf[j]
  <2>1. buf[i].refcnt \in Nat
    BY <1>1 DEF BufType
  <2> QED
    BY <2>1, <1>1
<1>3. /\ buf'[i] \in BufType /\ buf'[i].refcnt = buf[i].refcnt + 1
      /\ buf'[i].valid = buf[i].valid /\ buf'[i].dirty = buf[i].dirty
      /\ buf'[i].data = buf[i].data /\ buf'[i].block = buf[i].block
  BY <1>1, <1>2 DEF BufType
<1> QED
  BY <1>1, <1>2, <1>3

\* bget takes a free buffer for the block.
LEMMA BgetFree ==
  ASSUME IInv, NEW n \in Blocks, NEW i \in Bufs, Free(i),
         buf' = [buf EXCEPT ![i].block = n, ![i].valid = FALSE, ![i].dirty = FALSE, ![i].refcnt = 1]
  PROVE  /\ buf' \in [Bufs -> BufType]
         /\ ~buf'[i].valid /\ ~buf'[i].dirty /\ buf'[i].refcnt = 1 /\ buf'[i].data = buf[i].data
         /\ buf'[i].block = n
         /\ \A j \in Bufs : j # i => buf'[j] = buf[j]
         /\ buf[i].refcnt = 0 /\ ~buf[i].dirty /\ Users(i) = {}
<1>1. buf[i] \in BufType /\ buf \in [Bufs -> BufType]
  BY DEF IInv, Types
<1>2. /\ buf'[i] = [buf[i] EXCEPT !.block = n, !.valid = FALSE, !.dirty = FALSE, !.refcnt = 1]
      /\ \A j \in Bufs : j # i => buf'[j] = buf[j]
  BY <1>1
<1>3. /\ buf'[i] \in BufType /\ ~buf'[i].valid /\ ~buf'[i].dirty /\ buf'[i].refcnt = 1
      /\ buf'[i].data = buf[i].data /\ buf'[i].block = n
  BY <1>1, <1>2 DEF BufType
<1>4. buf[i].refcnt = 0 /\ ~buf[i].dirty
  BY DEF Free
<1>5. Users(i) = {}
  BY <1>4, NoUsers
<1> QED
  BY <1>1, <1>2, <1>3, <1>4, <1>5

LEMMA FoundFree ==
  ASSUME IInv, NEW n \in Blocks
  PROVE  /\ Found(n) \subseteq Bufs
         /\ Cached(n) = {} => \A i \in Found(n) : Free(i)
<1>1. mru \in [Bufs -> Bufs]
  BY DEF IInv, InList
<1>2. \A m \in Unused : mru[m] \in Bufs /\ Free(mru[m])
  BY <1>1 DEF Unused, Bufs
<1> QED
  BY <1>2 DEF Found, Cached

LEMMA FoundOne ==
  ASSUME IInv, EnoughBuffers, NEW p \in Procs, At(p, "out"), NEW n \in Blocks
  PROVE  Found(n) # {}
<1>1. mru \in [Bufs -> Bufs] /\ Unused \subseteq 1 .. NBUF /\ NBUF \in Nat
  BY Constants DEF IInv, InList, Unused, Bufs
<1>2. PICK i \in Bufs : Free(i)
  BY FreeOne
<1>3. Unused # {}
  BY <1>2 DEF IInv, InList, Unused
<1>4. PICK k \in Unused : \A j \in Unused : j <= k
  BY <1>1, <1>3, GreatestNatural
<1>5. mru[k] \in {mru[m] : m \in {m \in Unused : \A j \in Unused : j <= m}}
  BY <1>4
<1> QED
  BY <1>5 DEF Found

\* bget takes i for a block that p is going to use.
Taken(p, n, use, i) ==
  /\ At(p, "out")
  /\ use = "log_write" => Cardinality({k \in Bufs : buf[k].dirty} \cup {B(q) : q \in
                            {q \in Procs : ~At(q, "out") /\ pc[q].use = "log_write"}}) < MAXDIRTY
  /\ buf' = IF Cached(n) # {} THEN [buf EXCEPT ![i].refcnt = @ + 1]
            ELSE [buf EXCEPT ![i].block = n, ![i].valid = FALSE, ![i].dirty = FALSE, ![i].refcnt = 1]
  /\ pc' = [pc EXCEPT ![p] = [at |-> "lock", buf |-> i, use |-> use, block |-> n, calls |-> @.calls + 1]]
  /\ UNCHANGED <<mru, locked, idequeue, sent, disk, panicked, latest>>
LEMMA BgetTakes ==
  ASSUME IInv, NEW p \in Procs, NEW n \in Blocks, NEW use \in Uses, NEW i \in Found(n), Taken(p, n, use, i)
  PROVE  IInv'
<1>1. /\ At(p, "out")
      /\ use = "log_write" => Cardinality({k \in Bufs : buf[k].dirty} \cup {B(q) : q \in
                                {q \in Procs : ~At(q, "out") /\ pc[q].use = "log_write"}}) < MAXDIRTY
      /\ UNCHANGED <<mru, locked, idequeue, sent, disk, latest>>
  BY DEF Taken
<1>3. /\ buf' = IF Cached(n) # {} THEN [buf EXCEPT ![i].refcnt = @ + 1]
                ELSE [buf EXCEPT ![i].block = n, ![i].valid = FALSE, ![i].dirty = FALSE, ![i].refcnt = 1]
      /\ pc' = [pc EXCEPT ![p] = [at |-> "lock", buf |-> i, use |-> use, block |-> n, calls |-> @.calls + 1]]
      /\ UNCHANGED panicked
  BY DEF Taken
<1>4. i \in Bufs /\ (Cached(n) # {} => buf[i].block = n) /\ (Cached(n) = {} => Free(i))
  BY FoundFree DEF Cached, Found
<1>5. /\ \A q \in Procs : q # p => pc'[q] = pc[q]
      /\ pc'[p].at = "lock" /\ pc'[p].buf = i /\ pc'[p].use = use /\ pc'[p].block = n
      /\ pc' \in [Procs -> PcType]
  <2>1. pc[p] \in PcType
    BY DEF IInv, Types
  <2>2. [at |-> "lock", buf |-> i, use |-> use, block |-> n, calls |-> pc[p].calls + 1] \in PcType
    <3>1. pc[p].calls \in Nat
      BY <2>1 DEF PcType
    <3>2. pc[p].calls + 1 \in Nat
      BY <3>1
    <3>3. "lock" \in Places
      BY DEF Places
    <3> QED
      BY <3>2, <3>3, <1>4 DEF PcType
  <2> QED
    BY <2>2, <1>3 DEF IInv, Types
\* What the two cases have in common.
<1>6. /\ buf' \in [Bufs -> BufType]
      /\ \A j \in Bufs : j # i => buf'[j] = buf[j]
      /\ buf'[i].block = n /\ buf'[i].data = buf[i].data
      /\ buf'[i].refcnt = buf[i].refcnt + 1
      /\ buf'[i].dirty = buf[i].dirty /\ (buf'[i].valid => buf[i].valid /\ buf[i].block = n)
      /\ \/ Users(i) = {} /\ ~buf'[i].valid /\ ~buf'[i].dirty
         \/ buf'[i].valid = buf[i].valid /\ buf[i].block = n
      /\ \A j \in Bufs : buf'[j].block = buf'[i].block => j = i
  <2>1. CASE Cached(n) # {}
    <3>1. buf[i].block = n /\ buf' = [buf EXCEPT ![i].refcnt = @ + 1]
      <4>1. buf[i].refcnt \in Nat
        BY <1>4 DEF IInv, Types, BufType
      <4> QED
        BY <4>1, <2>1, <1>3, <1>4
    <3>2. /\ buf' \in [Bufs -> BufType]
          /\ \A j \in Bufs : /\ buf'[j].valid = buf[j].valid /\ buf'[j].dirty = buf[j].dirty
                             /\ buf'[j].data = buf[j].data /\ buf'[j].block = buf[j].block
          /\ buf'[i].refcnt = buf[i].refcnt + 1
          /\ \A j \in Bufs : j # i => buf'[j] = buf[j]
      BY <3>1, <1>1, <1>4, BgetCached
    <3>3. \A j \in Bufs : buf'[j].block = buf'[i].block => j = i
      BY <3>1, <3>2, <1>4 DEF IInv, OnePlace
    <3> QED
      BY <3>1, <3>2, <3>3, <1>4
  <2>2. CASE Cached(n) = {}
    <3>1. Free(i) /\ buf' = [buf EXCEPT ![i].block = n, ![i].valid = FALSE, ![i].dirty = FALSE, ![i].refcnt = 1]
      BY <2>2, <1>3, <1>4
    <3>2. /\ buf' \in [Bufs -> BufType]
          /\ ~buf'[i].valid /\ ~buf'[i].dirty /\ buf'[i].refcnt = 1 /\ buf'[i].data = buf[i].data
          /\ buf'[i].block = n
          /\ \A j \in Bufs : j # i => buf'[j] = buf[j]
          /\ buf[i].refcnt = 0 /\ ~buf[i].dirty /\ Users(i) = {}
      BY <3>1, <1>4, BgetFree
    <3>3. \A j \in Bufs : buf'[j].block = buf'[i].block => j = i
      BY <3>2, <2>2 DEF Cached
    <3>4. buf'[i].dirty = buf[i].dirty
      BY <3>2, <1>4 DEF IInv, Types, BufType
    <3> QED
      BY <3>2, <3>3, <3>4
  <2> QED
    BY <2>1, <2>2
<1>7. ~Holds(p) /\ pc[p].at \notin Waiting /\ pc[p].at \notin Writing
  BY <1>1 DEF At, Holds, Holding, Waiting, Writing
<1>8. ASSUME NEW q \in Procs, q # p PROVE /\ At(q, "out")' = At(q, "out") /\ B(q)' = B(q)
                                          /\ pc'[q].at = pc[q].at /\ pc'[q].block = pc[q].block /\ pc'[q].use = pc[q].use
  BY <1>5, <1>8 DEF At, B
<1>9. ~At(p, "out")' /\ B(p)' = i
  BY <1>5 DEF At, B
<1>10. Types'
  BY <1>1, <1>3, <1>5, <1>6 DEF IInv, Types
<1>11. InList' /\ QueueOnce'
  BY <1>1 DEF IInv, InList, QueueOnce
<1>12. Counted'
  <2>1. p \notin Users(i) /\ Users(i)' = Users(i) \cup {p}
    BY <1>1, <1>8, <1>9 DEF Users
  <2>2. ASSUME NEW j \in Bufs, j # i PROVE Users(j)' = Users(j)
    BY <1>1, <1>8, <1>9, <2>2 DEF Users
  <2>3. Cardinality(Users(i) \cup {p}) = Cardinality(Users(i)) + 1
    BY <2>1, UsersFinite, FS_AddElement
  <2>4. Users(i)' = Users(i) \cup {p} /\ buf'[i].refcnt = Cardinality(Users(i) \cup {p})
    BY <2>1, <2>3, <1>4, <1>6 DEF IInv, Counted
  <2>5. ASSUME NEW j \in Bufs PROVE buf'[j].refcnt = Cardinality(Users(j)')
    BY <2>2, <2>4, <1>6 DEF IInv, Counted
  <2> QED
    BY <2>5 DEF Counted
<1>13. HasBlock'
  <2>1. ASSUME NEW q \in Procs, q # p, ~At(q, "out")
        PROVE  B(q) \in Bufs /\ pc[q].block \in Blocks /\ buf'[B(q)].block = pc[q].block
    <3>1. B(q) \in Bufs /\ pc[q].block \in Blocks /\ buf[B(q)].block = pc[q].block
      BY <2>1 DEF IInv, HasBlock
    <3>2. B(q) = i => buf[i].block = n
      BY <2>1, <1>6 DEF Users
    <3> QED
      BY <3>1, <3>2, <1>6
  <2> QED
    BY <2>1, <1>4, <1>5, <1>6, <1>8, <1>9 DEF HasBlock
<1>14. \A j \in Bufs : locked[j] # NONE => locked[j] \in Procs /\ locked[j] # p
  BY <1>7 DEF IInv, Types, Owners
<1>15. \A q \in Procs : (Holds(q)' <=> Holds(q)) /\ (At(q, "lock sleep")' => At(q, "lock sleep") /\ q # p)
  BY <1>5, <1>7, <1>8 DEF Holds, Holding, At
<1>16. Owners'
  BY <1>1, <1>7, <1>8, <1>14, <1>15 DEF IInv, Owners
<1>17. QueueHeld'
  BY <1>1, <1>8, <1>14 DEF IInv, QueueHeld, Queued
<1>18. AllFlags'
  <2>1. ASSUME NEW q \in Procs, q # p, Holds(q) PROVE Flags(q)'
    <3>1. ~At(q, "out") /\ B(q) \in Bufs
      BY <2>1 DEF IInv, HasBlock, Holds, Holding, At
    <3>2. buf'[B(q)].valid = buf[B(q)].valid /\ buf'[B(q)].dirty = buf[B(q)].dirty
      BY <2>1, <3>1, <1>6 DEF Users
    <3>3. Flags(q) /\ (Queued(B(q))' <=> Queued(B(q)))
      BY <2>1, <1>1, <1>8 DEF IInv, AllFlags, Queued
    <3> QED
      BY <2>1, <3>2, <3>3, <1>8 DEF Flags, At
  <2>2. ASSUME NEW q \in Procs, ~Holds(q) PROVE Flags(q)'
    BY <2>2, <1>15 DEF Flags, At, Holds, Holding
  <2> QED
    BY <2>1, <2>2, <1>7 DEF AllFlags
<1>19. Sending'
  <2>1. idequeue # <<>> => Head(idequeue) \in Bufs
    BY DEF IInv, Types
  <2> QED
    BY <2>1, <1>1, <1>4, <1>6 DEF IInv, Sending
<1>20. OnePlace'
  BY <1>6 DEF IInv, OnePlace
<1>21. Fresh'
  BY <1>1, <1>4, <1>6 DEF IInv, Fresh
<1>22. OnDisk'
  <2>1. ASSUME NEW m \in Blocks, disk[m] # latest[m]
        PROVE  \E j \in Bufs : buf'[j].block = m /\ buf'[j].dirty
    <3>1. PICK j \in Bufs : buf[j].block = m /\ buf[j].dirty
      BY <2>1 DEF IInv, OnDisk
    <3>2. buf[j].dirty /\ j = i => buf[i].block = n
      <4>1. ASSUME j = i, Users(i) = {}, ~buf'[i].valid, buf[i].block # n PROVE FALSE
        <5>1. Cached(n) = {}
          BY <4>1, <1>4
        <5> QED
          BY <5>1, <4>1, <3>1, <1>4 DEF Free
      <4> QED
        BY <4>1, <1>6
    <3> QED
      BY <3>1, <3>2, <1>4, <1>6
  <2> QED
    BY <2>1, <1>1 DEF OnDisk
<1>23. Room'
  <2>1. ASSUME NEW j \in Bufs, Keeps(j)', use # "log_write" \/ j # i PROVE Keeps(j)
    <3>1. CASE buf'[j].dirty /\ \A q \in Procs : ~Writer(q, j)'
      <4>1. buf[j].dirty
        BY <3>1, <1>6
      <4>2. \A q \in Procs : ~Writer(q, j)
        BY <3>1, <1>7, <1>8 DEF Writer
      <4> QED
        BY <4>1, <4>2 DEF Keeps
    <3>2. CASE \E q \in Procs : Logs(q)' /\ B(q)' = j
      <4>1. PICK q \in Procs : Logs(q)' /\ B(q)' = j
        BY <3>2
      <4>2. q # p
        BY <4>1, <2>1, <1>5, <1>9 DEF Logs
      <4>3. Logs(q) /\ B(q) = j
        BY <4>1, <4>2, <1>8 DEF Logs
      <4> QED
        BY <4>3 DEF Keeps
    <3> QED
      BY <2>1, <3>1, <3>2 DEF Keeps
  <2>2. CASE use # "log_write"
    BY <2>1, <2>2, RoomKept DEF IInv
  <2>3. CASE use = "log_write"
    <3> DEFINE E == {j \in Bufs : buf[j].dirty} \cup {B(q) : q \in {q \in Procs : ~At(q, "out") /\ pc[q].use = "log_write"}}
    <3>1. Cardinality(E) < MAXDIRTY
      BY <1>1, <2>3
    <3>2. E \in SUBSET Bufs /\ Kept \in SUBSET E
      BY DEF IInv, HasBlock, Kept, Keeps, Logs
    <3> HIDE DEF E
    <3>3. IsFiniteSet(E) /\ Cardinality(E) \in Nat /\ Cardinality(Kept) <= Cardinality(E)
      BY <3>2, Constants, FS_Subset, FS_CardinalityType
    <3>4. Kept' \in SUBSET (Kept \cup {i})
      BY <2>1 DEF Kept, Bufs
    <3>5. /\ IsFiniteSet(Kept \cup {i})
          /\ Cardinality(Kept \cup {i}) = IF i \in Kept THEN Cardinality(Kept) ELSE Cardinality(Kept) + 1
      BY KeptFinite, FS_AddElement
    <3>6. IsFiniteSet(Kept') /\ Cardinality(Kept') <= Cardinality(Kept \cup {i})
      BY <3>4, <3>5, FS_Subset
    <3>7. Cardinality(Kept') \in Nat /\ Cardinality(Kept) \in Nat
      BY <3>6, KeptFinite, FS_CardinalityType
    <3> QED
      BY <3>1, <3>3, <3>5, <3>6, <3>7, Constants DEF Room
  <2> QED
    BY <2>2, <2>3
<1> QED
  BY <1>10, <1>11, <1>12, <1>13, <1>16, <1>17, <1>18, <1>19, <1>20, <1>21, <1>22, <1>23 DEF IInv

\* Without a buffer nothing but the panic happens.
LEMMA Unmoved ==
  ASSUME IInv, UNCHANGED <<buf, mru, locked, idequeue, sent, disk, pc, latest>>,
         panicked' \in BOOLEAN, EnoughBuffers => ~panicked'
  PROVE  IInv'
<1>1. Types' /\ InList' /\ QueueOnce' /\ Sending' /\ OnePlace' /\ Fresh' /\ OnDisk'
  BY DEF IInv, Types, InList, QueueOnce, Sending, OnePlace, Fresh, OnDisk
<1>2. Counted' /\ HasBlock'
  BY DEF IInv, Counted, Users, HasBlock, At, B
<1>3. Owners'
  BY DEF IInv, Owners, Holds, At, B
<1>4. AllFlags'
  BY DEF IInv, AllFlags, Flags, Queued, At, B
<1>5. QueueHeld'
  BY DEF IInv, QueueHeld, Queued
<1>6. Room'
  BY DEF IInv, Room, Kept, Keeps, Writer, Logs, At, B
<1> QED
  BY <1>1, <1>2, <1>3, <1>4, <1>5, <1>6 DEF IInv

LEMMA BgetStep ==
  ASSUME IInv, NEW p \in Procs, bget(p)
  PROVE  IInv'
<1>1. PICK n \in Blocks, use \in Uses :
        /\ At(p, "out") /\ pc[p].calls < CALLS
        /\ use = "log_write" => Cardinality({k \in Bufs : buf[k].dirty} \cup {B(q) : q \in
                                  {q \in Procs : ~At(q, "out") /\ pc[q].use = "log_write"}}) < MAXDIRTY
        /\ IF Found(n) = {} THEN panicked' = TRUE /\ UNCHANGED <<buf, pc>>
           ELSE \E i \in Found(n) :
             /\ buf' = IF Cached(n) # {} THEN [buf EXCEPT ![i].refcnt = @ + 1]
                       ELSE [buf EXCEPT ![i].block = n, ![i].valid = FALSE, ![i].dirty = FALSE, ![i].refcnt = 1]
             /\ pc' = [pc EXCEPT ![p] = [at |-> "lock", buf |-> i, use |-> use, block |-> n, calls |-> @.calls + 1]]
             /\ UNCHANGED panicked
        /\ UNCHANGED <<mru, locked, idequeue, sent, disk, latest>>
  BY DEF bget
<1>2. CASE Found(n) = {}
  <2>1. ~EnoughBuffers
    BY <1>1, <1>2, FoundOne
  <2> QED
    BY <1>1, <1>2, <2>1, Unmoved
<1>3. CASE Found(n) # {}
  <2>1. PICK i \in Found(n) : Taken(p, n, use, i)
    BY <1>1, <1>3 DEF Taken
  <2> QED
    BY <2>1, BgetTakes
<1> QED
  BY <1>2, <1>3


-----------------------------------------------------------------------------
LEMMA InitInv ==
  ASSUME Init
  PROVE  IInv
<1>1. /\ \A i \in Bufs : /\ buf[i].block = NONE /\ ~buf[i].valid /\ ~buf[i].dirty
                         /\ buf[i].refcnt = 0 /\ buf[i] \in BufType
      /\ buf \in [Bufs -> BufType]
  BY DEF Init, BufType
<1>2. /\ \A p \in Procs : pc[p].at = "out" /\ pc[p] \in PcType
      /\ pc \in [Procs -> PcType]
  <2>1. [at |-> "out", buf |-> NONE, use |-> "read", block |-> NONE, calls |-> 0] \in PcType
    BY DEF PcType, Places, Uses
  <2> QED
    BY <2>1 DEF Init
<1>3. Types
  <2>1. /\ locked \in [Bufs -> Procs \cup {NONE}]
        /\ idequeue \in Seq(Bufs) /\ sent \in {0, 1, NONE}
        /\ disk \in [Blocks -> {0, 1}] /\ latest \in [Blocks -> {0, 1}]
    BY DEF Init
  <2>2. panicked = FALSE
    BY DEF Init
  <2> QED
    BY <2>1, <2>2, <1>1, <1>2 DEF Types
<1>4. InList
  <2>1. NBUF \in Nat /\ Bufs = 1 .. NBUF /\ mru = [i \in Bufs |-> NBUF + 1 - i]
    BY Constants DEF Init, Bufs
  <2>2. ASSUME NEW i \in Bufs PROVE NBUF + 1 - i \in Bufs /\ NBUF + 1 - (NBUF + 1 - i) = i
    BY <2>1
  <2>3. ASSUME NEW i \in Bufs PROVE mru[NBUF + 1 - i] = i
    BY <2>1, <2>2
  <2> QED
    BY <2>1, <2>2, <2>3 DEF InList
<1>5. Counted
  <2>1. \A i \in Bufs : Users(i) = {}
    BY <1>2 DEF Users, At
  <2> QED
    BY <2>1, <1>1, FS_EmptySet DEF Counted
<1>6. HasBlock /\ AllFlags
  BY <1>2 DEF HasBlock, AllFlags, Flags, At
<1>7. Owners
  BY <1>2 DEF Init, Owners, Holds, Holding, At
<1>8. QueueOnce /\ QueueHeld /\ Sending
  <2>1. idequeue = <<>> /\ Len(idequeue) = 0 /\ sent = NONE
    BY DEF Init
  <2> QED
    BY <2>1 DEF QueueOnce, QueueHeld, Queued, Sending
<1>9. OnePlace /\ Fresh /\ OnDisk
  BY <1>1, Constants DEF OnePlace, Fresh, OnDisk, Init
<1>10. Room
  <2>1. Kept = {}
    BY <1>1, <1>2 DEF Kept, Keeps, Logs, At
  <2> QED
    BY <2>1, FS_EmptySet, Constants DEF Room
<1> QED
  BY <1>3, <1>4, <1>5, <1>6, <1>7, <1>8, <1>9, <1>10 DEF IInv

LEMMA NextInv ==
  ASSUME IInv, [Next]_vars
  PROVE  IInv'
<1>1. CASE ideintr
  BY <1>1, IdeintrStep
<1>2. ASSUME NEW p \in Procs, bget(p) PROVE IInv'
  BY <1>2, BgetStep
<1>3. ASSUME NEW p \in Procs, kill(p) PROVE IInv'
  BY <1>3, KillStep
<1>4. ASSUME NEW p \in Procs, GoOn(p) PROVE IInv'
  BY <1>4, AcquireStep, ValidStep, IderwStep, DoneStep, UseStep, ReleaseStep, BrelseStep DEF GoOn
<1>5. CASE UNCHANGED vars
  <2>1. panicked' \in BOOLEAN /\ (EnoughBuffers => ~panicked')
    BY <1>5 DEF vars, IInv, Types
  <2> QED
    BY <1>5, <2>1, Unmoved DEF vars
<1> QED
  BY <1>1, <1>2, <1>3, <1>4, <1>5 DEF Next

\* A request in the queue has a process of its own that waits for it.
LEMMA QueueShort ==
  ASSUME IInv
  PROVE  Len(idequeue) <= Cardinality(Procs)
<1> DEFINE D == 1 .. Len(idequeue)
           f == [k \in D |-> locked[idequeue[k]]]
<1>1. Len(idequeue) \in Nat /\ \A k \in D : idequeue[k] \in Bufs
  BY DEF IInv, Types
<1>2. \A k \in D : locked[idequeue[k]] \in Procs /\ B(locked[idequeue[k]]) = idequeue[k]
  <2>1. ASSUME NEW k \in D PROVE locked[idequeue[k]] \in Procs /\ B(locked[idequeue[k]]) = idequeue[k]
    <3>1. Queued(idequeue[k])
      BY DEF Queued
    <3>2. locked[idequeue[k]] # NONE
      BY <3>1, <1>1 DEF IInv, QueueHeld
    <3> QED
      BY <3>2, <1>1 DEF IInv, Types, Owners
  <2> QED
    BY <2>1
<1>3. f \in Injection(D, Procs)
  <2>1. f \in [D -> Procs]
    BY <1>2
  <2>2. ASSUME NEW j \in D, NEW k \in D, f[j] = f[k] PROVE j = k
    <3>1. idequeue[j] = idequeue[k]
      BY <2>2, <1>2
    <3> QED
      BY <3>1 DEF IInv, QueueOnce
  <2> HIDE DEF f
  <2> QED
    BY <2>1, <2>2 DEF Injection, IsInjective
<1>4. Cardinality(D) <= Cardinality(Procs)
  BY <1>3, Constants, FS_Injection
<1>5. Cardinality(D) = IF 1 > Len(idequeue) THEN 0 ELSE Len(idequeue) - 1 + 1
  BY <1>1, FS_Interval
<1> QED
  BY <1>1, <1>4, <1>5, Constants

LEMMA InvCorrect ==
  ASSUME IInv
  PROVE  BlocksCached
<1>1. BuffersTypeOK
  <2>1. \A p \in Procs : Holds(p) => B(p) \in Bufs /\ locked[B(p)] = p
    BY DEF IInv, Owners, HasBlock, Holds, Holding, At
  <2>2. ToSet(mru) = Bufs /\ Len(mru) = NBUF
    <3>1. mru \in [1 .. NBUF -> Bufs] /\ NBUF \in Nat
      BY Constants DEF IInv, InList, Bufs
    <3>2. mru \in Seq(Bufs) /\ Len(mru) = NBUF /\ DOMAIN mru = Bufs
      BY <3>1 DEF Bufs
    <3> QED
      BY <3>2 DEF IInv, InList, ToSet
  <2> QED
    BY <2>1, <2>2, QueueShort DEF BuffersTypeOK, IInv, Counted, Users
<1>2. OneUser
  <2>1. ASSUME NEW n \in Blocks PROVE Cardinality(Cached(n)) <= 1
    <3>1. CASE Cached(n) = {}
      BY <3>1, FS_EmptySet
    <3>2. CASE Cached(n) # {}
      <4>1. PICK i \in Bufs : buf[i].block = n
        BY <3>2 DEF Cached
      <4>2. Cached(n) = {i}
        BY <4>1 DEF Cached, IInv, OnePlace
      <4> QED
        BY <4>2, FS_Singleton
    <3> QED
      BY <3>1, <3>2
  <2>2. \A p, q \in Procs : Holds(p) /\ Holds(q) /\ B(p) = B(q) => p = q
    BY DEF IInv, Owners
  <2> QED
    BY <2>1, <2>2 DEF OneUser
<1>3. ReadsLatest
  <2>1. ASSUME NEW p \in Procs, At(p, "using")
        PROVE  /\ buf[B(p)].block = pc[p].block
               /\ buf[B(p)].data = latest[pc[p].block] \/ pc[p].block \in FAULTY
    <3>1. buf[B(p)].block = pc[p].block /\ B(p) \in Bufs
      BY <2>1 DEF IInv, HasBlock, At
    <3>2. buf[B(p)].valid
      BY <2>1 DEF IInv, AllFlags, Flags
    <3> QED
      BY <3>1, <3>2 DEF IInv, Fresh
  <2> QED
    BY <2>1 DEF ReadsLatest, IInv, OnDisk, Cached
<1>4. BufferFound
  BY DEF BufferFound, IInv, Types
<1>5. SleepersHaveWaker
  <2>1. ASSUME NEW p \in Procs, At(p, "read sleep") \/ At(p, "write sleep")
        PROVE  B(p) \in ToSet(idequeue) /\ sent # NONE
    <3>1. Queued(B(p))
      BY <2>1 DEF IInv, AllFlags, Flags
    <3>2. PICK k \in 1 .. Len(idequeue) : idequeue[k] = B(p)
      BY <3>1 DEF Queued
    <3>3. idequeue \in Seq(Bufs) /\ idequeue # <<>>
      BY <3>2 DEF IInv, Types
    <3>4. Head(idequeue) \in Bufs /\ DOMAIN idequeue = 1 .. Len(idequeue)
      BY <3>3
    <3>5. buf[Head(idequeue)].data \in {0, 1}
      BY <3>4 DEF IInv, Types, BufType
    <3>6. sent # NONE
      BY <3>3, <3>5, Constants DEF IInv, Sending
    <3> QED
      BY <3>2, <3>4, <3>6 DEF ToSet
  <2> QED
    BY <2>1 DEF SleepersHaveWaker, IInv, Owners
<1> QED
  BY <1>1, <1>2, <1>3, <1>4, <1>5 DEF BlocksCached

\* A block is in one buffer, which has one user at a time, and who reads it finds what
\* was written last, on whichever way; there is a buffer to be had if there are enough, and
\* who sleeps in acquiresleep or iderw is woken (bio.c, sleeplock.c, ide.c).
THEOREM CacheCorrect == Spec => []BlocksCached
<1>1. Init => IInv
  BY InitInv
<1>2. IInv /\ [Next]_vars => IInv'
  BY NextInv
<1>3. IInv => BlocksCached
  BY InvCorrect
<1> QED
  BY <1>1, <1>2, <1>3, PTL DEF Spec
=============================================================================
