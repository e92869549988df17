--------------------------------- MODULE Log ----------------------------------
(***************************************************************************)
(* The write-ahead log of the file system (log.c): begin_op, log_write and *)
(* end_op of the system calls that change files, the group commit, the     *)
(* recovery, and crashes between any two disk writes.  A disk write of one *)
(* block is atomic.  A panic stops the machine and is a crash.             *)
(***************************************************************************)
EXTENDS Integers, Sequences, FiniteSetsExt, TLC
CONSTANTS Ops,           \* the processes that make such system calls
          Blocks,        \* home blocks of the file system
          Values,        \* what a block may hold
          INODESTART,    \* the home block that follows the log on the disk
          MAXOPBLOCKS,
          LOGSIZE        \* entries of log.lh.block

\* NPROC processes and a disk of FSSIZE blocks; MAXOPBLOCKS is 10, LOGSIZE three
\* times that.
ASSUME LogAssumption ==
  /\ IsFiniteSet(Ops) /\ IsFiniteSet(Blocks)
  /\ Values # {} /\ INODESTART \in Blocks
  /\ MAXOPBLOCKS \in Nat \ {0}
  /\ LOGSIZE \in Nat /\ LOGSIZE >= MAXOPBLOCKS /\ LOGSIZE >= 2

nlog == LOGSIZE          \* mkfs: blocks of the log, its header included

VARIABLES home,          \* disk: the home blocks
          logged,        \* disk: the blocks of the log after its header
          head,          \* disk: the log's header, the block numbers in it
          cache,         \* a block as bread returns it
          lh,            \* log.lh
          outstanding, committing,
          stage,         \* what commit() or recover_from_log() does next
          tail,          \* the index of its loop
          pc,
          wrote,         \* op -> the blocks it has modified
          buf,           \* op -> the modified buffer on its way into the log
          overrun        \* history: write_log has written beyond the log
disk == <<home, logged, head, overrun>>
memory == <<cache, lh, outstanding, committing, stage, tail, pc, wrote,
            buf>>
vars == <<disk, memory>>

Stages == {"up", "write", "head", "install", "erase", "done", "boot"}
PCs == {"out", "woken", "asleep", "in", "commit"}

Init ==
  /\ home \in [Blocks -> Values]
  /\ logged \in [1 .. nlog - 1 -> {CHOOSE v \in Values : TRUE}]
  /\ head = <<>>
  /\ cache = home
  /\ lh = <<>>
  /\ outstanding = 0
  /\ committing = FALSE
  /\ stage = "boot"
  /\ tail = 1
  /\ pc = [p \in Ops |-> "out"]
  /\ wrote = [p \in Ops |-> {}]
  /\ buf = [p \in Ops |-> {}]
  /\ overrun = FALSE

\* wakeup(&log)
Wakened == [p \in Ops |-> IF pc[p] = "asleep" THEN "woken" ELSE pc[p]]

------------------------------------------------------------------------------
\* Mutant: the room that the new operation needs is not counted.
HasRoomForOthers == Len(lh) + outstanding * MAXOPBLOCKS <= LOGSIZE
HasRoom == Len(lh) + (outstanding + 1) * MAXOPBLOCKS <= LOGSIZE

\* System calls start once the recovery is over.
Recovering == ~committing /\ stage # "up"

begin_op(p) ==
  /\ pc[p] \in {"out", "woken"}
  /\ ~Recovering
  /\ \/ /\ committing \/ ~HasRoom
        /\ pc' = [pc EXCEPT ![p] = "asleep"]
        /\ UNCHANGED outstanding
     \/ /\ ~committing /\ HasRoom
        /\ outstanding' = outstanding + 1
        /\ pc' = [pc EXCEPT ![p] = "in"]
  /\ UNCHANGED <<disk, cache, lh, committing, stage, tail, wrote, buf>>

\* Room for one more block is asked for even when the block is in the log,
\* and without log.lock.
TooBig == Len(lh) >= LOGSIZE \/ Len(lh) >= nlog - 1

\* The blocks an operation may still modify: any, up to MAXOPBLOCKS of them,
\* that no other operation has locked.
MayWrite(p, b) ==
  /\ pc[p] = "in" /\ buf[p] = {}
  /\ b \in wrote[p] \/ Cardinality(wrote[p]) < MAXOPBLOCKS
  /\ \A q \in Ops : b \notin buf[q]

Record(b) == IF b \in Range(lh) THEN lh ELSE Append(lh, b)

\* An operation modifies a block in the cache, and log_write finds room ...
log_write(p, b, v) ==
  /\ MayWrite(p, b)
  /\ ~TooBig
  /\ cache' = [cache EXCEPT ![b] = v]
  /\ wrote' = [wrote EXCEPT ![p] = @ \cup {b}]
  /\ buf' = [buf EXCEPT ![p] = {b}]
  /\ UNCHANGED <<disk, lh, outstanding, committing, stage, tail, pc>>

\* ... and takes log.lock to record it.
LogBlock(p) ==
  \E b \in buf[p] :
    /\ lh' = Record(b)
    /\ buf' = [buf EXCEPT ![p] = {}]
    /\ UNCHANGED <<disk, cache, outstanding, committing, stage, tail, pc, wrote>>

end_op(p) ==
  /\ pc[p] = "in" /\ buf[p] = {}
  /\ outstanding' = outstanding - 1
  /\ wrote' = [wrote EXCEPT ![p] = {}]
  /\ \/ /\ outstanding' = 0
        /\ committing' = TRUE
        /\ stage' = IF lh = <<>> THEN "done" ELSE "write"
        /\ pc' = [pc EXCEPT ![p] = "commit"]
     \/ /\ outstanding' # 0
        /\ pc' = [Wakened EXCEPT ![p] = "out"]
        /\ UNCHANGED <<committing, stage>>
  /\ UNCHANGED <<disk, cache, lh, tail, buf>>

------------------------------------------------------------------------------
\* One turn of a loop over the blocks in lh; next is what comes after it.
Turn(from, next) ==
  /\ stage = from
  /\ \/ tail < Len(lh) /\ tail' = tail + 1 /\ UNCHANGED stage
     \/ tail = Len(lh) /\ tail' = 1 /\ stage' = next

\* The block of the log for the entry at tail.  For the last entry there is none:
\* log.start + LOGSIZE is the first block of the inodes, and its buffer the one in use.
InLog == tail < nlog
\* Mutant: the last block is not copied.
write_log_short ==
  /\ Turn("write", "head")
  /\ logged' = IF tail = Len(lh) THEN logged
               ELSE [logged EXCEPT ![tail] = cache[lh[tail]]]
  /\ UNCHANGED <<home, head, cache, lh, outstanding, committing, pc, wrote, buf, overrun>>
\* A process never gets a buffer that it has locked (lh[tail] = INODESTART).
write_log ==
  /\ Turn("write", "head")
  /\ \/ /\ InLog
        /\ logged' = [logged EXCEPT ![tail] = cache[lh[tail]]]
        /\ UNCHANGED <<home, cache, overrun>>
     \/ /\ ~InLog /\ lh[tail] # INODESTART
        /\ home' = [home EXCEPT ![INODESTART] = cache[lh[tail]]]
        /\ cache' = [cache EXCEPT ![INODESTART] = cache[lh[tail]]]
        /\ overrun' = TRUE
        /\ UNCHANGED logged
  /\ UNCHANGED <<head, lh, outstanding, committing, pc, wrote, buf>>

\* The real commit.
write_head ==
  /\ stage = "head"
  /\ head' = lh
  /\ stage' = "install"
  /\ UNCHANGED <<home, logged, cache, lh, outstanding, committing, tail, pc, wrote, buf, overrun>>

\* Mutant: only the first block goes home.
install_first ==
  /\ stage = "install"
  /\ home' = [home EXCEPT ![lh[1]] = logged[1]]
  /\ cache' = [cache EXCEPT ![lh[1]] = logged[1]]
  /\ stage' = "erase"
  /\ UNCHANGED <<logged, head, lh, outstanding, committing, tail, pc, wrote, buf, overrun>>
install_trans ==
  /\ Turn("install", "erase")
  /\ LET copy == IF InLog THEN logged[tail] ELSE cache[INODESTART]
     IN  /\ home' = [home EXCEPT ![lh[tail]] = copy]
         /\ cache' = [cache EXCEPT ![lh[tail]] = copy]
  /\ UNCHANGED <<logged, head, lh, outstanding, committing, pc, wrote, buf, overrun>>

\* lh.n = 0, and the header is written again.
Erase ==
  /\ stage = "erase"
  /\ lh' = <<>>
  /\ head' = <<>>
  /\ stage' = IF committing THEN "done" ELSE "up"
  /\ UNCHANGED <<home, logged, cache, outstanding, committing, tail, pc, wrote, buf, overrun>>

Committer == [p \in Ops |-> IF pc[p] = "commit" THEN "out" ELSE Wakened[p]]
\* The end of the end_op that committed.
EndCommit ==
  /\ stage = "done"
  /\ committing' = FALSE
  /\ stage' = "up"
  /\ pc' = Committer
  /\ UNCHANGED <<disk, cache, lh, outstanding, tail, wrote, buf>>

\* recover_from_log, whose install_trans and Erase are those of commit().
read_head ==
  /\ stage = "boot"
  /\ lh' = head
  /\ stage' = IF head = <<>> THEN "erase" ELSE "install"
  /\ UNCHANGED <<disk, cache, outstanding, committing, tail, pc, wrote, buf>>

\* Power failure or panic, and a restart: only the disk is left.
Crash ==
  /\ cache' = home
  /\ lh' = <<>>
  /\ outstanding' = 0
  /\ committing' = FALSE
  /\ stage' = "boot"
  /\ tail' = 1
  /\ pc' = [p \in Ops |-> "out"]
  /\ wrote' = [p \in Ops |-> {}]
  /\ buf' = [p \in Ops |-> {}]
  /\ UNCHANGED disk

Next ==
  \/ \E p \in Ops : \/ begin_op(p) \/ end_op(p) \/ LogBlock(p)
                    \/ \E b \in Blocks, v \in Values : log_write(p, b, v)
  \/ write_log \/ write_head \/ install_trans \/ Erase \/ EndCommit
  \/ read_head \/ Crash
Spec == Init /\ [][Next]_vars
------------------------------------------------------------------------------
\* The operations between begin_op and end_op.
Active == {p \in Ops : pc[p] = "in"}

TypeOK ==
  /\ home \in [Blocks -> Values] /\ cache \in [Blocks -> Values]
  /\ logged \in [1 .. nlog - 1 -> Values]
  /\ {head, lh} \subseteq Seq(Blocks)
  /\ outstanding = Cardinality(Active)
  /\ committing \in BOOLEAN /\ overrun \in BOOLEAN
  /\ stage \in Stages
  /\ tail \in 1 .. LOGSIZE
  /\ pc \in [Ops -> PCs]
  /\ wrote \in [Ops -> SUBSET Blocks]
  /\ buf \in [Ops -> SUBSET Blocks]

\* The disk after a recovery that starts now.
Position(h, b) == CHOOSE i \in DOMAIN h : h[i] = b
Copy(i) == IF i < nlog THEN logged[i] ELSE home[INODESTART]
Recovered ==
  [b \in Blocks |->
     IF \E i \in DOMAIN head : head[i] = b THEN Copy(Position(head, b)) ELSE home[b]]

\* File-system operations are atomic however the machine crashes, also in the
\* middle of a commit or of a recovery - until write_log goes beyond the log.
Abs == INSTANCE AtomicDisk WITH
         stable <- Recovered,
         current <- IF Recovering THEN Recovered ELSE cache,
         active <- Active
ImplementsAtomicDisk == Abs!Init /\ [][Abs!Next \/ overrun']_(Abs!vars)

\* When the last operation has returned from end_op, a crash loses nothing.
Durable ==
  ~overrun /\ ~Recovering /\ ~committing /\ outstanding = 0 => Recovered = cache

\* begin_op lets in only as many operations as log.lh.block has entries for,
\* whatever blocks they go on to write and however their calls of log_write race.
Charged ==
  {c \in Ops \X Blocks : pc[c[1]] = "in" /\ c[2] \in wrote[c[1]] \cap Range(lh)}
Reserved ==
  Len(lh) + outstanding * MAXOPBLOCKS - Cardinality(Charged) <= LOGSIZE

\* Each block is in a transaction once: installing in any order is the same.
OnceInLog == \A i, j \in DOMAIN lh : lh[i] = lh[j] => i = j

\* Who sleeps in begin_op will be woken: an operation or a commit is under way.
SleeperHasWaker ==
  (\E p \in Ops : pc[p] = "asleep") => outstanding > 0 \/ committing

\* The log has room for all it admitted, and those it did not admit will be.
SpaceKept == TypeOK /\ Reserved /\ OnceInLog /\ SleeperHasWaker

\* "too big a transaction": log_write keeps the transaction within the blocks
\* of the log; write_log would put one more over the first inode block.
LogFits == Len(lh) <= nlog - 1

-----------------------------------------------------------------------------
(***************************************************************************)
(* Symmetry for Log.                                                       *)
(***************************************************************************)
LogSymmetry == Permutations(Ops) \cup Permutations(Blocks \ {INODESTART})
=============================================================================
