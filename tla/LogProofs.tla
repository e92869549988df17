------------------------------ MODULE LogProofs -------------------------------
(***************************************************************************)
(* For any finite sets of processes and blocks, any number of blocks that  *)
(* an operation may write and any size of the log: however the operations  *)
(* race, a transaction fits into log.lh.block, and until one takes more    *)
(* blocks than the log has on the disk, a crash loses nothing once the     *)
(* last operation has ended, and the log implements AtomicDisk.            *)
(*                                                                         *)
(* The argument: while the system is up or the log is being copied the     *)
(* header on disk is empty, and the cache differs from the home blocks     *)
(* only on blocks of the transaction; from the header's write to its       *)
(* erasure the log's blocks are what the cache holds, and each turn of     *)
(* install_trans brings one more home block up to its copy in the log.     *)
(* What says so of the disk holds as long as overrun is FALSE.             *)
(***************************************************************************)
EXTENDS Log, FiniteSetTheorems, SequenceTheorems, TLAPS

Headers ==
  /\ Len(head) <= LOGSIZE
  /\ \A i, j \in DOMAIN head : head[i] = head[j] => i = j

\* What each stage of commit() and recover_from_log() finds in lh and head.
StageInv ==
  /\ stage = "boot" => lh = <<>>
  /\ stage \in {"up", "boot"} => ~committing
  /\ stage \in {"write", "head", "done"} => committing
  /\ stage = "done" => lh = <<>>
  /\ stage \in {"up", "write", "head", "done"} => head = <<>>
  /\ stage \in {"install", "erase"} => head = lh
  /\ stage \in {"write", "head", "install"} => lh # <<>>
  /\ IF stage \in {"write", "install"} THEN tail <= Len(lh) ELSE tail = 1
  /\ stage = "up" /\ outstanding = 0 => lh = <<>>

\* A transaction as long as lh.block is copied over the inodes, or stops in write_log.
Within ==
  ~overrun =>
    /\ Len(head) < nlog
    /\ stage \in {"head", "install", "erase"} => Len(lh) < nlog

\* The blocks of the operations under way: in the log, or locked on the way.
OpInv(p) ==
  /\ pc[p] = "in" => stage = "up"
  /\ wrote[p] # {} => pc[p] = "in"
  /\ buf[p] \subseteq wrote[p]
  /\ wrote[p] \ buf[p] \subseteq Range(lh)
  /\ Cardinality(wrote[p]) <= MAXOPBLOCKS
  /\ \A b, c \in buf[p] : b = c
BufsDisjoint == \A p, q \in Ops : p # q => buf[p] \cap buf[q] = {}

Dirty(b) == b \in Range(lh) \/ \E p \in Ops : b \in buf[p]
\* Where the blocks of the transaction are, stage by stage.
DirtyOnly ==
  ~overrun /\ (stage \in {"up", "write", "head"} \/ (stage = "install" /\ committing)) =>
    \A b \in Blocks : cache[b] # home[b] => Dirty(b)
Copied == ~overrun =>
  /\ stage = "write" => \A i \in 1 .. tail - 1 : logged[i] = cache[lh[i]]
  /\ stage = "head" \/ (stage = "install" /\ committing) =>
       \A i \in DOMAIN lh : logged[i] = cache[lh[i]]
Installed == ~overrun =>
  /\ stage = "install" => \A i \in 1 .. tail - 1 : home[lh[i]] = logged[i]
  /\ stage = "erase" => \A i \in DOMAIN lh : home[lh[i]] = logged[i]
Clean ==
  ~overrun /\ (stage \in {"boot", "erase", "done"} \/ (stage = "install" /\ ~committing)) =>
    cache = home

\* Inductive: Durable and the refinement follow from it.
IInv == /\ SpaceKept
        /\ Headers
        /\ StageInv
        /\ Within
        /\ \A p \in Ops : OpInv(p)
        /\ BufsDisjoint
        /\ DirtyOnly
        /\ Copied
        /\ Installed
        /\ Clean

------------------------------------------------------------------------------
LEMMA LogSizeType == LOGSIZE \in Nat /\ LOGSIZE >= 2 /\ LOGSIZE >= MAXOPBLOCKS /\ nlog = LOGSIZE
BY LogAssumption DEF nlog

\* Sets of operations and of pairs are finite.
LEMMA Finite ==
  /\ IsFiniteSet(Active) /\ Cardinality(Active) \in Nat
  /\ IsFiniteSet(Charged) /\ Cardinality(Charged) \in Nat
<1>1. IsFiniteSet(Ops \X Blocks) BY LogAssumption, FS_Product
<1>2. Active \in SUBSET Ops /\ Charged \in SUBSET (Ops \X Blocks)
  BY DEF Active, Charged
<1>3. IsFiniteSet(Active) /\ IsFiniteSet(Charged)
  BY <1>1, <1>2, LogAssumption, FS_Subset
<1> QED BY <1>3, FS_CardinalityType

\* A sequence of blocks and the set of its elements.
LEMMA SeqFacts ==
  ASSUME NEW s \in Seq(Blocks)
  PROVE  /\ Len(s) \in Nat /\ DOMAIN s = 1 .. Len(s)
         /\ \A i \in 1 .. Len(s) : s[i] \in Blocks
         /\ Range(s) = {s[i] : i \in 1 .. Len(s)}
         /\ Len(s) = 0 => s = <<>>
<1>1. Len(s) \in Nat /\ DOMAIN s = 1 .. Len(s) BY LenProperties
<1>2. \A i \in 1 .. Len(s) : s[i] \in Blocks BY ElementOfSeq
<1>3. Range(s) = {s[i] : i \in 1 .. Len(s)} BY <1>1 DEF Range
<1>4. Len(s) = 0 => s = <<>> BY EmptySeq
<1> QED BY <1>1, <1>2, <1>3, <1>4

LEMMA EmptyFacts ==
  /\ <<>> \in Seq(Blocks) /\ Len(<<>>) = 0 /\ DOMAIN <<>> = {} /\ Range(<<>>) = {}
<1>1. <<>> \in Seq(Blocks) /\ Len(<<>>) = 0 OBVIOUS
<1>2. DOMAIN <<>> = {} OBVIOUS
<1> QED BY <1>1, <1>2 DEF Range

\* What a crash leaves of a block: its copy, when the header names it.
LEMMA RecoveredValue ==
  ASSUME TypeOK, Headers
  PROVE  /\ Recovered \in [Blocks -> Values]
         /\ \A i \in DOMAIN head : Recovered[head[i]] = Copy(i)
         /\ \A b \in Blocks \ Range(head) : Recovered[b] = home[b]
         /\ head = <<>> => Recovered = home
<1>0. /\ head \in Seq(Blocks) /\ Len(head) \in Nat /\ DOMAIN head = 1 .. Len(head)
      /\ \A i \in DOMAIN head : head[i] \in Blocks /\ i \in 1 .. LOGSIZE
      /\ Range(head) = {head[i] : i \in DOMAIN head}
  <2>1. head \in Seq(Blocks) BY DEF TypeOK
  <2> QED BY <2>1, SeqFacts, LogSizeType DEF Headers
<1>1. ASSUME NEW i \in DOMAIN head
      PROVE  Position(head, head[i]) = i
  BY <1>1 DEF Position, Headers
<1>2. \A i \in DOMAIN head : Recovered[head[i]] = Copy(i)
  BY <1>0, <1>1 DEF Recovered
<1>3. \A b \in Blocks \ Range(head) : Recovered[b] = home[b]
  BY <1>0 DEF Recovered
<1>4. Recovered \in [Blocks -> Values]
  <2>1. \A b \in Blocks : (\E i \in DOMAIN head : head[i] = b) => Position(head, b) \in DOMAIN head
    BY DEF Position
  <2>2. \A i \in DOMAIN head : Copy(i) \in Values
    <3>1. INODESTART \in Blocks /\ logged \in [1 .. nlog - 1 -> Values] /\ home \in [Blocks -> Values]
      BY LogAssumption DEF TypeOK
    <3>2. \A i \in DOMAIN head : i < nlog => i \in 1 .. nlog - 1 BY <1>0, LogSizeType
    <3> QED BY <3>1, <3>2 DEF Copy
  <2>3. \A b \in Blocks : home[b] \in Values BY DEF TypeOK
  <2> QED BY <2>1, <2>2, <2>3 DEF Recovered
<1>5. head = <<>> => Recovered = home
  BY <1>0, EmptyFacts, <1>3, <1>4 DEF TypeOK
<1> QED BY <1>2, <1>3, <1>4, <1>5

------------------------------------------------------------------------------
LEMMA InitInv == Init => IInv
<1> SUFFICES ASSUME Init PROVE IInv OBVIOUS
<1>1. TypeOK
  <2>1. (CHOOSE v \in Values : TRUE) \in Values BY LogAssumption
  <2>2. Active = {} BY DEF Init, Active
  <2>3. outstanding = Cardinality(Active) BY <2>2, FS_EmptySet DEF Init
  <2>4. tail \in 1 .. LOGSIZE BY LogSizeType DEF Init
  <2> QED BY <2>1, <2>3, <2>4, EmptyFacts DEF Init, TypeOK, Stages, PCs
<1>2. Reserved
  <2>1. Charged = {} BY DEF Init, Charged
  <2> QED BY <2>1, FS_EmptySet, EmptyFacts, LogSizeType, LogAssumption DEF Init, Reserved
<1>3. OnceInLog /\ SleeperHasWaker /\ Headers
  BY EmptyFacts, LogSizeType DEF Init, OnceInLog, SleeperHasWaker, Headers
<1>4. StageInv BY DEF Init, StageInv
<1>5. \A p \in Ops : OpInv(p)
  BY FS_EmptySet, LogAssumption DEF Init, OpInv
<1>6. BufsDisjoint /\ DirtyOnly /\ Copied /\ Installed /\ Clean
  BY DEF Init, BufsDisjoint, DirtyOnly, Copied, Installed, Clean
<1>7. Within BY EmptyFacts, LogSizeType DEF Init, Within
<1> QED BY <1>1, <1>2, <1>3, <1>4, <1>5, <1>6, <1>7 DEF IInv, SpaceKept

\* begin_op adds the caller to the operations under way, or puts it to sleep.
LEMMA BeginInv == ASSUME IInv, NEW p \in Ops, begin_op(p) PROVE IInv'
<1> USE DEF begin_op, disk
<1>0. /\ TypeOK /\ Reserved /\ StageInv /\ OpInv(p)
      /\ pc' \in [Ops -> PCs] /\ pc[p] # "in"
  BY DEF IInv, SpaceKept, TypeOK, PCs
<1>1. CASE pc' = [pc EXCEPT ![p] = "asleep"] /\ UNCHANGED outstanding
           /\ (committing \/ ~HasRoom)
  <2>1. Active' = Active BY <1>0, <1>1 DEF Active, TypeOK
  <2>2. Charged' = Charged BY <1>0, <1>1 DEF Charged, TypeOK
  <2>3. TypeOK' BY <1>0, <1>1, <2>1 DEF TypeOK
  <2>4. SleeperHasWaker'
    <3>1. ~committing => outstanding # 0
      BY <1>0, <1>1, LogSizeType, LogAssumption, EmptyFacts
         DEF HasRoom, Recovering, StageInv
    <3>2. outstanding \in Nat BY <1>0, Finite DEF TypeOK
    <3> QED BY <1>1, <3>1, <3>2 DEF SleeperHasWaker
  <2>5. \A q \in Ops : OpInv(q)' BY <1>0, <1>1 DEF IInv, OpInv, TypeOK
  <2> QED BY <1>1, <2>2, <2>3, <2>4, <2>5
      DEF IInv, SpaceKept, Reserved, OnceInLog, Headers, StageInv, Within, BufsDisjoint,
          DirtyOnly, Dirty, Copied, Installed, Clean
<1>2. CASE /\ ~committing /\ HasRoom
           /\ outstanding' = outstanding + 1
           /\ pc' = [pc EXCEPT ![p] = "in"]
  <2>1. Active' = Active \cup {p} /\ p \notin Active
    BY <1>0, <1>2 DEF Active, TypeOK
  <2>2. Cardinality(Active') = Cardinality(Active) + 1 /\ outstanding \in Nat
    BY <2>1, <1>0, Finite, FS_AddElement DEF TypeOK
  <2>3. TypeOK' BY <1>0, <1>2, <2>2 DEF TypeOK
  <2>4. Reserved'
    <3>1. IsFiniteSet(Charged') /\ Cardinality(Charged') \in Nat
      <4>1. Charged' \in SUBSET (Ops \X Blocks) BY DEF Charged
      <4> QED BY <4>1, LogAssumption, FS_Product, FS_Subset, FS_CardinalityType
    <3>2. Len(lh) \in Nat BY <1>0, SeqFacts DEF TypeOK
    <3> QED BY <1>2, <2>2, <3>1, <3>2, LogSizeType, LogAssumption DEF Reserved, HasRoom
  <2>5. SleeperHasWaker' BY <1>2, <2>2 DEF SleeperHasWaker
  <2>6. \A q \in Ops : OpInv(q)'
    BY <1>0, <1>2 DEF IInv, OpInv, TypeOK, Recovering
  <2>7. StageInv' BY <1>0, <1>2, <2>2 DEF StageInv
  <2> QED BY <1>2, <2>3, <2>4, <2>5, <2>6, <2>7
      DEF IInv, SpaceKept, OnceInLog, Headers, Within, BufsDisjoint, DirtyOnly, Dirty,
          Copied, Installed, Clean
<1> QED BY <1>1, <1>2

\* log_write changes a block in the cache, and has its buffer locked.
LEMMA WriteInv ==
  ASSUME IInv, NEW p \in Ops, NEW b \in Blocks, NEW v \in Values, log_write(p, b, v)
  PROVE  IInv'
<1> USE DEF log_write, MayWrite, disk
<1>0. /\ TypeOK /\ StageInv /\ BufsDisjoint /\ (\A q \in Ops : OpInv(q)) /\ DirtyOnly
      /\ stage = "up" /\ buf[p] = {} /\ pc[p] = "in"
  BY DEF IInv, SpaceKept, OpInv
<1>1. /\ wrote'[p] = wrote[p] \cup {b} /\ buf'[p] = {b}
      /\ \A q \in Ops \ {p} : wrote'[q] = wrote[q] /\ buf'[q] = buf[q]
      /\ cache'[b] = v /\ \A c \in Blocks \ {b} : cache'[c] = cache[c]
  BY <1>0 DEF TypeOK
<1>2. Active' = Active BY DEF Active
<1>3. TypeOK' BY <1>0, <1>2 DEF TypeOK
<1>4. Reserved'
  <2>1. CASE b \in Range(lh)
    <3>1. \A c \in Charged : c \in Charged'
      BY <1>0, <1>1 DEF Charged
    <3>2. Cardinality(Charged) <= Cardinality(Charged') /\ Cardinality(Charged') \in Nat
      <4>1. Charged' \in SUBSET (Ops \X Blocks) BY DEF Charged
      <4>2. IsFiniteSet(Charged')
        BY <4>1, LogAssumption, FS_Product, FS_Subset
      <4> QED BY <4>2, <3>1, FS_Subset, FS_CardinalityType
    <3>3. Len(lh) \in Nat /\ outstanding \in Nat BY <1>0, SeqFacts, Finite DEF TypeOK
    <3> QED BY <3>2, <3>3, Finite, LogSizeType, LogAssumption DEF IInv, SpaceKept, Reserved
  <2>2. CASE b \notin Range(lh)
    <3>1. Charged' = Charged BY <1>0, <1>1, <2>2 DEF Charged
    <3> QED BY <3>1 DEF IInv, SpaceKept, Reserved
  <2> QED BY <2>1, <2>2
<1>5. \A q \in Ops : OpInv(q)'
  <2>1. IsFiniteSet(wrote[p]) /\ Cardinality(wrote[p]) \in Nat
    BY <1>0, LogAssumption, FS_Subset, FS_CardinalityType DEF TypeOK
  <2>2. Cardinality(wrote'[p]) <= MAXOPBLOCKS
    <3>1. CASE b \in wrote[p]
      <4>1. wrote'[p] = wrote[p] BY <1>1, <3>1
      <4> QED BY <1>0, <4>1 DEF OpInv
    <3>2. CASE b \notin wrote[p]
      <4>1. Cardinality(wrote[p] \cup {b}) = Cardinality(wrote[p]) + 1
        BY <2>1, <3>2, FS_AddElement
      <4>2. Cardinality(wrote[p]) < MAXOPBLOCKS BY <3>2
      <4>3. Cardinality(wrote'[p]) = Cardinality(wrote[p]) + 1 BY <1>1, <4>1
      <4> QED BY <2>1, <4>2, <4>3, LogAssumption
    <3> QED BY <3>1, <3>2
  <2>3. OpInv(p)' BY <1>0, <1>1, <2>2 DEF OpInv
  <2>4. \A q \in Ops \ {p} : OpInv(q)' BY <1>0, <1>1 DEF OpInv
  <2> QED BY <2>3, <2>4
<1>6. BufsDisjoint' BY <1>0, <1>1 DEF BufsDisjoint
<1>7. DirtyOnly' BY <1>0, <1>1 DEF DirtyOnly, Dirty
<1>8. (Copied /\ Installed /\ Clean)' BY <1>0 DEF Copied, Installed, Clean
<1> QED BY <1>3, <1>4, <1>5, <1>6, <1>7, <1>8
    DEF IInv, SpaceKept, OnceInLog, SleeperHasWaker, Headers, StageInv, Within

\* A transaction has each block once, and the new block.
LEMMA RecordFacts ==
  ASSUME TypeOK, OnceInLog, NEW b \in Blocks
  PROVE  /\ Record(b) \in Seq(Blocks)
         /\ Range(Record(b)) = Range(lh) \cup {b}
         /\ Len(Record(b)) = IF b \in Range(lh) THEN Len(lh) ELSE Len(lh) + 1
         /\ Record(b) # <<>>
         /\ \A i, j \in DOMAIN Record(b) : Record(b)[i] = Record(b)[j] => i = j
<1>0. lh \in Seq(Blocks) BY DEF TypeOK
<1>1. /\ Len(lh) \in Nat /\ DOMAIN lh = 1 .. Len(lh)
      /\ Range(lh) = {lh[i] : i \in 1 .. Len(lh)}
  BY <1>0, SeqFacts
<1>2. CASE b \in Range(lh)
  BY <1>0, <1>1, <1>2, EmptyFacts DEF Record, OnceInLog
<1>3. CASE b \notin Range(lh)
  <2>1. /\ Append(lh, b) \in Seq(Blocks)
        /\ Len(Append(lh, b)) = Len(lh) + 1
        /\ \A i \in 1 .. Len(lh) : Append(lh, b)[i] = lh[i]
        /\ Append(lh, b)[Len(lh) + 1] = b
    BY <1>0, AppendProperties
  <2>2. /\ DOMAIN Append(lh, b) = 1 .. Len(lh) + 1
        /\ Range(Append(lh, b)) = {Append(lh, b)[i] : i \in 1 .. Len(lh) + 1}
    BY <2>1, SeqFacts
  <2>3. Range(Append(lh, b)) = Range(lh) \cup {b}
    <3>1. \A i \in 1 .. Len(lh) + 1 : i \in 1 .. Len(lh) \/ i = Len(lh) + 1 BY <1>1
    <3>2. \A i \in 1 .. Len(lh) : i \in 1 .. Len(lh) + 1 BY <1>1
    <3>3. Len(lh) + 1 \in 1 .. Len(lh) + 1 BY <1>1
    <3> QED BY <1>1, <2>1, <2>2, <3>1, <3>2, <3>3
  <2>4. \A i, j \in 1 .. Len(lh) + 1 : Append(lh, b)[i] = Append(lh, b)[j] => i = j
    <3>1. \A i \in 1 .. Len(lh) : lh[i] # b BY <1>1, <1>3
    <3> QED BY <1>1, <2>1, <3>1 DEF OnceInLog
  <2>5. Append(lh, b) # <<>> BY <2>1, <1>1, EmptyFacts
  <2> QED BY <1>3, <2>1, <2>2, <2>3, <2>4, <2>5 DEF Record
<1> QED BY <1>2, <1>3

\* log_write's locked part moves the block from the buffer to the log.
LEMMA LogBlockInv == ASSUME IInv, NEW p \in Ops, LogBlock(p) PROVE IInv'
<1>0. PICK b \in buf[p] : /\ lh' = Record(b)
                          /\ buf' = [buf EXCEPT ![p] = {}]
                          /\ UNCHANGED <<disk, cache, outstanding, committing, stage,
                                         tail, pc, wrote>>
  BY DEF LogBlock
<1>1. /\ TypeOK /\ Reserved /\ OnceInLog /\ StageInv /\ BufsDisjoint /\ DirtyOnly
      /\ \A q \in Ops : OpInv(q)
      /\ b \in Blocks /\ b \in wrote[p] /\ pc[p] = "in" /\ stage = "up" /\ buf[p] = {b}
  BY <1>0 DEF IInv, SpaceKept, OpInv, TypeOK
<1>2. /\ lh' \in Seq(Blocks) /\ Range(lh') = Range(lh) \cup {b}
      /\ Len(lh') = IF b \in Range(lh) THEN Len(lh) ELSE Len(lh) + 1
      /\ lh' # <<>> /\ OnceInLog'
  <2>1. Record(b) \in Seq(Blocks) /\ Range(Record(b)) = Range(lh) \cup {b}
    BY <1>1, RecordFacts
  <2> QED BY <1>0, <1>1, <2>1, RecordFacts DEF OnceInLog
<1>3. buf'[p] = {} /\ \A q \in Ops \ {p} : buf'[q] = buf[q] BY <1>0, <1>1 DEF TypeOK
<1>4. TypeOK'
  <2>1. Active' = Active BY <1>0 DEF Active
  <2> QED BY <1>0, <1>1, <1>2, <2>1 DEF TypeOK, disk
<1>5. Reserved'
  <2>0. Len(lh) \in Nat /\ outstanding \in Nat /\ Cardinality(Charged) \in Nat
    BY <1>1, SeqFacts, Finite DEF TypeOK
  <2>1. CASE b \in Range(lh)
    <3>1. Range(lh') = Range(lh) BY <1>2, <2>1
    <3>2. Charged' = Charged BY <1>0, <3>1 DEF Charged
    <3> QED BY <1>0, <1>1, <1>2, <2>1, <3>2 DEF Reserved
  <2>2. CASE b \notin Range(lh)
    <3>1. \A q \in Ops \ {p} : b \notin wrote[q]
      BY <1>0, <1>1, <2>2 DEF OpInv, BufsDisjoint
    <3>2. Charged' = Charged \cup {<<p, b>>}
      <4>1. ASSUME NEW q \in Ops, NEW c \in Blocks
            PROVE  <<q, c>> \in Charged' <=> <<q, c>> \in Charged \cup {<<p, b>>}
        <5>1. <<q, c>> \in Charged' <=> pc[q] = "in" /\ c \in wrote[q] \cap (Range(lh) \cup {b})
          BY <1>0, <1>2 DEF Charged
        <5>2. <<q, c>> \in Charged <=> pc[q] = "in" /\ c \in wrote[q] \cap Range(lh)
          BY DEF Charged
        <5> QED BY <1>1, <3>1, <5>1, <5>2
      <4>2. Charged' \subseteq Ops \X Blocks /\ Charged \subseteq Ops \X Blocks
        BY DEF Charged
      <4>3. <<p, b>> \in Ops \X Blocks BY <1>1
      <4> QED BY <4>1, <4>2, <4>3
    <3>3. <<p, b>> \notin Charged BY <2>2 DEF Charged
    <3>4. Cardinality(Charged') = Cardinality(Charged) + 1
      BY <3>2, <3>3, Finite, FS_AddElement
    <3> QED BY <1>0, <1>1, <1>2, <2>0, <2>2, <3>4, LogSizeType, LogAssumption DEF Reserved
  <2> QED BY <2>1, <2>2
<1>6. \A q \in Ops : OpInv(q)'
  <2>1. OpInv(p)' BY <1>0, <1>1, <1>2, <1>3 DEF OpInv
  <2>2. \A q \in Ops \ {p} : OpInv(q)' BY <1>0, <1>1, <1>2, <1>3 DEF OpInv
  <2> QED BY <2>1, <2>2
<1>7. BufsDisjoint' BY <1>1, <1>3 DEF BufsDisjoint
<1>8. DirtyOnly'
  <2>1. ASSUME NEW c \in Blocks, Dirty(c) PROVE Dirty(c)'
    <3>1. CASE c \in Range(lh') BY <3>1 DEF Dirty
    <3>2. CASE c \notin Range(lh')
      <4>1. c # b /\ c \notin Range(lh) BY <1>2, <3>2
      <4>2. PICK q \in Ops : c \in buf[q] BY <2>1, <4>1 DEF Dirty
      <4>3. q # p BY <1>1, <4>1, <4>2
      <4> QED BY <1>3, <4>2, <4>3 DEF Dirty
    <3> QED BY <3>1, <3>2
  <2> QED BY <1>0, <1>1, <2>1 DEF DirtyOnly, disk
<1>9. (StageInv /\ SleeperHasWaker /\ Headers)'
  <2>1. outstanding # 0
    <3>1. p \in Active BY <1>1 DEF Active
    <3> QED BY <1>1, <3>1, Finite, FS_EmptySet DEF TypeOK
  <2> QED BY <1>0, <1>1, <2>1 DEF IInv, SpaceKept, StageInv, SleeperHasWaker, Headers, disk
<1>11. Within' BY <1>0, <1>1 DEF IInv, Within, disk
<1>10. (Copied /\ Installed /\ Clean)'
  BY <1>0, <1>1 DEF Copied, Installed, Clean, disk
<1> QED BY <1>2, <1>4, <1>5, <1>6, <1>7, <1>8, <1>9, <1>10, <1>11 DEF IInv, SpaceKept

\* end_op gives back the room the operation did not use, and the last one
\* out begins the commit.
LEMMA EndInv == ASSUME IInv, NEW p \in Ops, end_op(p) PROVE IInv'
<1> USE DEF end_op, disk
<1>0. /\ TypeOK /\ Reserved /\ StageInv /\ BufsDisjoint /\ DirtyOnly
      /\ \A q \in Ops : OpInv(q)
      /\ pc[p] = "in" /\ stage = "up" /\ ~committing /\ head = <<>> /\ tail = 1
      /\ lh \in Seq(Blocks) /\ Len(lh) \in Nat
      /\ outstanding \in Nat /\ Cardinality(Charged) \in Nat
  <2>1. TypeOK /\ pc[p] = "in" BY DEF IInv, SpaceKept
  <2>2. OpInv(p) /\ StageInv BY DEF IInv
  <2>3. stage = "up" BY <2>1, <2>2 DEF OpInv
  <2>4. lh \in Seq(Blocks) /\ Len(lh) \in Nat BY <2>1, SeqFacts DEF TypeOK
  <2> QED BY <2>1, <2>2, <2>3, <2>4, Finite DEF IInv, SpaceKept, StageInv, TypeOK
<1>1. pc'[p] # "in" /\ \A q \in Ops \ {p} : pc'[q] = "in" <=> pc[q] = "in"
  BY <1>0 DEF Wakened, TypeOK
<1>2. wrote'[p] = {} /\ \A q \in Ops \ {p} : wrote'[q] = wrote[q]
  BY <1>0 DEF TypeOK
<1>3. outstanding' = outstanding - 1 /\ outstanding' = Cardinality(Active')
      /\ outstanding' \in Nat
  <2>1. Active' = Active \ {p} /\ p \in Active BY <1>0, <1>1 DEF Active
  <2>2. Cardinality(Active') = Cardinality(Active) - 1 /\ Cardinality(Active') \in Nat
    BY <2>1, Finite, FS_RemoveElement, FS_CardinalityType
  <2> QED BY <1>0, <2>2 DEF TypeOK
<1>4. TypeOK'
  <2>1. pc' \in [Ops -> PCs]
    BY <1>0 DEF Wakened, TypeOK, PCs
  <2>2. wrote' \in [Ops -> SUBSET Blocks] BY <1>0 DEF TypeOK
  <2>3. committing' \in BOOLEAN /\ stage' \in Stages BY <1>0 DEF TypeOK, Stages
  <2> QED BY <1>0, <1>3, <2>1, <2>2, <2>3 DEF TypeOK
<1>5. Reserved'
  <2> DEFINE Mine == {<<p, b>> : b \in wrote[p] \cap Range(lh)}
  <2>1. Charged' = Charged \ Mine /\ Charged \cap Mine = Mine
    <3>1. ASSUME NEW q \in Ops, NEW c \in Blocks
          PROVE  <<q, c>> \in Charged' <=> <<q, c>> \in Charged /\ q # p
      BY <1>1, <1>2 DEF Charged
    <3>2. Charged' \subseteq Ops \X Blocks /\ Charged \subseteq Ops \X Blocks
      BY DEF Charged
    <3>3. Mine \subseteq Charged BY <1>0 DEF Charged, TypeOK
    <3>4. ASSUME NEW q \in Ops, NEW c \in Blocks, <<q, c>> \in Charged
          PROVE  <<q, c>> \in Mine <=> q = p
      BY <3>4 DEF Charged
    <3> QED BY <3>1, <3>2, <3>3, <3>4
  <2>2. IsFiniteSet(Mine) /\ Cardinality(Mine) <= Cardinality(wrote[p])
    <3>1. IsFiniteSet(wrote[p])
      BY <1>0, LogAssumption, FS_Subset DEF TypeOK
    <3>2. [m \in Mine |-> m[2]] \in Injection(Mine, wrote[p])
      BY DEF Injection, IsInjective
    <3> QED BY <3>1, <3>2, FS_Injection
  <2>3. Cardinality(Mine) <= MAXOPBLOCKS /\ Cardinality(Mine) \in Nat
    <3>1. Cardinality(wrote[p]) \in Nat
      BY <1>0, LogAssumption, FS_Subset, FS_CardinalityType DEF TypeOK
    <3> QED BY <1>0, <2>2, <3>1, FS_CardinalityType, LogAssumption DEF OpInv
  <2>4. Cardinality(Charged') = Cardinality(Charged) - Cardinality(Mine)
    <3>1. Cardinality(Charged \ Mine) = Cardinality(Charged) - Cardinality(Charged \cap Mine)
      BY Finite, FS_Difference
    <3>2. Cardinality(Charged') = Cardinality(Charged \ Mine) BY <2>1
    <3>3. Cardinality(Charged \cap Mine) = Cardinality(Mine) BY <2>1
    <3> HIDE DEF Mine
    <3> QED BY <3>1, <3>2, <3>3
  <2>5. outstanding * MAXOPBLOCKS = (outstanding - 1) * MAXOPBLOCKS + MAXOPBLOCKS
    BY <1>0, LogAssumption
  <2> QED BY <1>0, <1>3, <2>3, <2>4, <2>5, LogSizeType, LogAssumption DEF Reserved
<1>6. \A q \in Ops : OpInv(q)'
  <2>1. OpInv(p)'
    BY <1>0, <1>1, <1>2, FS_EmptySet, LogAssumption DEF OpInv
  <2>2. ASSUME NEW q \in Ops \ {p} PROVE OpInv(q)'
    <3>1. outstanding' = 0 => pc[q] # "in"
      <4>1. pc[q] = "in" => q \in Active' BY <1>1 DEF Active
      <4>2. Active' \in SUBSET Ops BY DEF Active
      <4>3. IsFiniteSet(Active') BY <4>2, LogAssumption, FS_Subset
      <4> QED BY <1>3, <4>1, <4>3, FS_EmptySet
    <3>2. pc'[q] = "in" => stage' = "up" BY <1>0, <1>1, <1>3, <3>1
    <3> QED BY <1>0, <1>1, <1>2, <3>2 DEF OpInv
  <2> QED BY <2>1, <2>2
<1>7. StageInv' BY <1>0, <1>3, SeqFacts, EmptyFacts DEF StageInv
<1>8. SleeperHasWaker'
  BY <1>0, <1>3 DEF SleeperHasWaker, Wakened, TypeOK
<1>9. DirtyOnly' /\ Clean'
  <2>1. ASSUME stage' = "done", ~overrun PROVE cache = home
    <3>1. \A q \in Ops : buf[q] = {}
      <4>1. lh = <<>> /\ outstanding' = 0 BY <1>0, <2>1
      <4> QED BY <1>0, <1>1, <1>2, <1>6, <2>1 DEF OpInv
    <3>2. Range(lh) = {} BY <1>0, <2>1, EmptyFacts
    <3>3. \A b \in Blocks : cache[b] = home[b] BY <1>0, <2>1, <3>1, <3>2 DEF DirtyOnly, Dirty
    <3> QED BY <1>0, <3>3 DEF TypeOK
  <2> QED BY <1>0, <2>1 DEF DirtyOnly, Dirty, Clean
<1>10. (Copied /\ Installed)' BY <1>0 DEF Copied, Installed
<1>11. Within' BY <1>0 DEF IInv, Within
<1> QED BY <1>4, <1>5, <1>6, <1>7, <1>8, <1>9, <1>10, <1>11
    DEF IInv, SpaceKept, OnceInLog, Headers, BufsDisjoint

------------------------------------------------------------------------------
\* While the log is being committed or recovered no operation is under way.
LEMMA NobodyInside ==
  ASSUME IInv, stage # "up"
  PROVE  /\ \A p \in Ops : pc[p] # "in" /\ wrote[p] = {} /\ buf[p] = {}
         /\ Active = {} /\ outstanding = 0
         /\ Charged = {} /\ Len(lh) <= LOGSIZE
<1>1. \A p \in Ops : pc[p] # "in" /\ wrote[p] = {} /\ buf[p] = {}
  BY DEF IInv, OpInv
<1>2. Active = {} /\ Charged = {} BY <1>1 DEF Active, Charged
<1>3. outstanding = 0 BY <1>2, FS_EmptySet DEF IInv, SpaceKept, TypeOK
<1>4. Len(lh) \in Nat BY SeqFacts DEF IInv, SpaceKept, TypeOK
<1>5. Len(lh) <= LOGSIZE
  BY <1>2, <1>3, <1>4, FS_EmptySet, LogSizeType, LogAssumption
     DEF IInv, SpaceKept, Reserved
<1> QED BY <1>1, <1>2, <1>3, <1>5

\* The turns of the loops: tail stays within the transaction.
LEMMA TurnFacts ==
  ASSUME IInv, NEW from \in {"write", "install"}, NEW next, Turn(from, next)
  PROVE  /\ stage = from /\ tail \in 1 .. LOGSIZE /\ tail \in DOMAIN lh
         /\ DOMAIN lh = 1 .. Len(lh) /\ lh \in Seq(Blocks) /\ lh[tail] \in Blocks
         /\ \/ tail < Len(lh) /\ tail' = tail + 1 /\ stage' = stage
               /\ tail' \in 1 .. LOGSIZE /\ tail' <= Len(lh)
            \/ tail = Len(lh) /\ tail' = 1 /\ stage' = next /\ tail' \in 1 .. LOGSIZE
         /\ tail \in Nat /\ Len(lh) \in Nat
<1>1. /\ lh \in Seq(Blocks) /\ tail \in 1 .. LOGSIZE /\ stage = from /\ tail <= Len(lh)
  BY DEF IInv, SpaceKept, TypeOK, StageInv, Turn
<1>2. Len(lh) <= LOGSIZE BY <1>1, NobodyInside
<1>3. Len(lh) \in Nat /\ DOMAIN lh = 1 .. Len(lh) /\ \A i \in 1 .. Len(lh) : lh[i] \in Blocks
  BY <1>1, SeqFacts
<1>4. tail \in Nat /\ tail \in DOMAIN lh BY <1>1, <1>3, LogSizeType
<1>5. tail < Len(lh) => tail + 1 \in 1 .. LOGSIZE /\ tail + 1 <= Len(lh)
  BY <1>2, <1>3, <1>4, LogSizeType
<1>6. 1 \in 1 .. LOGSIZE BY LogSizeType
<1>7. \/ tail < Len(lh) /\ tail' = tail + 1 /\ stage' = stage
      \/ tail = Len(lh) /\ tail' = 1 /\ stage' = next
  BY DEF Turn
<1>8. lh[tail] \in Blocks BY <1>3, <1>4
<1> QED BY <1>1, <1>3, <1>4, <1>5, <1>6, <1>7, <1>8

LEMMA UpTo ==
  ASSUME NEW n \in Nat, NEW t \in 1 .. n
  PROVE  /\ \A i \in 1 .. t - 1 : i \in 1 .. n /\ i # t
         /\ \A i \in 1 .. t : i \in 1 .. t - 1 \/ i = t
OBVIOUS

LEMMA WriteLogInv == ASSUME IInv, write_log PROVE IInv'
<1> USE DEF write_log
<1>0. /\ TypeOK /\ OnceInLog /\ StageInv /\ Copied /\ DirtyOnly
      /\ stage = "write" /\ committing /\ lh # <<>>
  BY DEF IInv, SpaceKept, StageInv, Turn
<1>1. /\ tail \in 1 .. LOGSIZE /\ tail \in DOMAIN lh /\ DOMAIN lh = 1 .. Len(lh)
      /\ lh[tail] \in Blocks /\ tail \in Nat /\ Len(lh) \in Nat
      /\ \/ tail < Len(lh) /\ tail' = tail + 1 /\ stage' = "write"
            /\ tail' \in 1 .. LOGSIZE /\ tail' <= Len(lh)
         \/ tail = Len(lh) /\ tail' = 1 /\ stage' = "head" /\ tail' \in 1 .. LOGSIZE
  BY <1>0, TurnFacts
<1>2. Active' = Active /\ Charged' = Charged BY DEF Active, Charged
<1>a. tail < nlog => tail \in 1 .. nlog - 1 BY <1>1, LogSizeType
<1>b. INODESTART \in Blocks /\ cache[lh[tail]] \in Values
  BY <1>0, <1>1, LogAssumption DEF TypeOK
<1>c. ASSUME ~overrun'
      PROVE  /\ ~overrun /\ tail < nlog /\ home' = home /\ cache' = cache
             /\ logged' = [logged EXCEPT ![tail] = cache[lh[tail]]]
  BY <1>c DEF InLog
<1>3. TypeOK'
  <2>1. logged' \in [1 .. nlog - 1 -> Values] BY <1>0, <1>a, <1>b DEF TypeOK, InLog
  <2>3. home' \in [Blocks -> Values] /\ cache' \in [Blocks -> Values] /\ overrun' \in BOOLEAN
    BY <1>0, <1>b DEF TypeOK
  <2>2. stage' \in Stages /\ tail' \in 1 .. LOGSIZE BY <1>1 DEF Stages
  <2> QED BY <1>0, <1>2, <2>1, <2>2, <2>3 DEF TypeOK
<1>4. StageInv' BY <1>0, <1>1 DEF StageInv
<1>5. ASSUME ~overrun' PROVE Copied'
  <2>0. ~overrun /\ tail < nlog /\ cache' = cache /\ logged' = [logged EXCEPT ![tail] = cache[lh[tail]]]
    BY <1>5, <1>c
  <2>1. logged'[tail] = cache[lh[tail]] /\ \A i \in 1 .. tail - 1 : logged'[i] = cache[lh[i]]
    <3>1. logged'[tail] = cache[lh[tail]] BY <1>0, <1>a, <2>0 DEF TypeOK
    <3>2. \A i \in 1 .. tail - 1 : logged[i] = cache[lh[i]] BY <1>0, <2>0 DEF Copied
    <3>3. \A i \in 1 .. tail - 1 : i # tail BY <1>1, UpTo
    <3>4. \A i \in 1 .. tail - 1 : logged'[i] = logged[i]
      <4>1. logged \in [1 .. nlog - 1 -> Values] BY <1>0 DEF TypeOK
      <4>2. \A i \in 1 .. nlog - 1 : i # tail => logged'[i] = logged[i] BY <2>0, <4>1
      <4>3. \A i \in 1 .. tail - 1 : i \in 1 .. nlog - 1 BY <1>1, <2>0, LogSizeType
      <4> QED BY <3>3, <4>2, <4>3
    <3> QED BY <3>1, <3>2, <3>4
  <2>2. \A i \in 1 .. tail : i \in 1 .. tail - 1 \/ i = tail BY <1>1, UpTo
  <2>3. \A i \in 1 .. tail : logged'[i] = cache[lh[i]] BY <2>1, <2>2
  <2>4. CASE stage' = "write" /\ tail' = tail + 1
    BY <1>1, <2>0, <2>3, <2>4 DEF Copied
  <2>5. CASE stage' = "head" /\ tail = Len(lh)
    BY <1>1, <2>0, <2>3, <2>5 DEF Copied
  <2> QED BY <1>1, <2>4, <2>5
<1>6. (DirtyOnly /\ Installed /\ Clean)'
  <2>1. DirtyOnly' BY <1>0, <1>1, <1>c DEF DirtyOnly, Dirty
  <2> QED BY <1>0, <1>1, <2>1 DEF Installed, Clean
<1>8. Within'
  <2>1. ASSUME ~overrun', stage' = "head" PROVE Len(lh) < nlog
    BY <1>1, <1>c, <2>1
  <2> QED BY <1>0, <1>1, <1>c, <2>1 DEF IInv, Within
<1>9. Copied' BY <1>5 DEF Copied
<1>7. \A p \in Ops : OpInv(p)' BY <1>0 DEF IInv, OpInv
<1> QED BY <1>2, <1>3, <1>4, <1>6, <1>7, <1>8, <1>9
    DEF IInv, SpaceKept, Reserved, OnceInLog, SleeperHasWaker, Headers, BufsDisjoint

LEMMA WriteHeadInv == ASSUME IInv, write_head PROVE IInv'
<1> USE DEF write_head
<1>0. /\ TypeOK /\ OnceInLog /\ StageInv /\ Copied /\ DirtyOnly
      /\ stage = "head" /\ committing /\ lh # <<>> /\ tail = 1
      /\ Len(lh) <= LOGSIZE /\ Len(lh) \in Nat
  BY NobodyInside, SeqFacts DEF IInv, SpaceKept, StageInv, TypeOK
<1>1. Len(lh) >= 1 BY <1>0, SeqFacts DEF TypeOK
<1>2. Active' = Active /\ Charged' = Charged BY DEF Active, Charged
<1>3. TypeOK' BY <1>0, <1>2 DEF TypeOK, Stages
<1>4. StageInv' /\ Headers' BY <1>0, <1>1 DEF StageInv, Headers, OnceInLog
<1>5. (DirtyOnly /\ Copied /\ Clean)' BY <1>0 DEF DirtyOnly, Dirty, Copied, Clean
<1>6. Installed' BY <1>0 DEF Installed
<1>7. \A p \in Ops : OpInv(p)' BY <1>0 DEF IInv, OpInv
<1>8. Within' BY <1>0 DEF IInv, Within
<1> QED BY <1>2, <1>3, <1>4, <1>5, <1>6, <1>7, <1>8
    DEF IInv, SpaceKept, Reserved, OnceInLog, SleeperHasWaker, BufsDisjoint

LEMMA InstallInv == ASSUME IInv, install_trans PROVE IInv'
<1> USE DEF install_trans
<1>0. /\ TypeOK /\ OnceInLog /\ StageInv /\ Copied /\ DirtyOnly /\ Installed /\ Clean
      /\ stage = "install" /\ lh # <<>> /\ head = lh
      /\ \A p \in Ops : buf[p] = {}
  BY NobodyInside DEF IInv, SpaceKept, StageInv, Turn
<1>1. /\ tail \in 1 .. LOGSIZE /\ tail \in DOMAIN lh /\ DOMAIN lh = 1 .. Len(lh)
      /\ lh[tail] \in Blocks /\ tail \in Nat /\ Len(lh) \in Nat
      /\ \/ tail < Len(lh) /\ tail' = tail + 1 /\ stage' = "install"
            /\ tail' \in 1 .. LOGSIZE /\ tail' <= Len(lh)
         \/ tail = Len(lh) /\ tail' = 1 /\ stage' = "erase" /\ tail' \in 1 .. LOGSIZE
      /\ lh \in Seq(Blocks)
  BY <1>0, TurnFacts
<1>2. Active' = Active /\ Charged' = Charged BY DEF Active, Charged
<1>a. PICK copy \in Values :
        /\ home' = [home EXCEPT ![lh[tail]] = copy]
        /\ cache' = [cache EXCEPT ![lh[tail]] = copy]
        /\ ~overrun => copy = logged[tail]
  <2>0. tail \in 1 .. LOGSIZE /\ tail \in Nat /\ Len(lh) \in Nat /\ tail <= Len(lh)
    BY <1>0, <1>1 DEF StageInv
  <2>1. tail < nlog => tail \in 1 .. nlog - 1 BY <2>0, LogSizeType
  <2>2. INODESTART \in Blocks BY LogAssumption
  <2>3. (IF InLog THEN logged[tail] ELSE cache[INODESTART]) \in Values
    BY <1>0, <2>1, <2>2 DEF TypeOK, InLog
  <2>4. ~overrun => tail < nlog
    <3>1. ~overrun => Len(lh) < nlog BY <1>0 DEF IInv, Within
    <3> QED BY <2>0, <3>1, LogSizeType
  <2> QED BY <2>3, <2>4 DEF InLog
<1>3. TypeOK'
  <2>0. home \in [Blocks -> Values] /\ cache \in [Blocks -> Values] BY <1>0 DEF TypeOK
  <2>a. lh[tail] \in Blocks BY <1>1
  <2>1. home' \in [Blocks -> Values] /\ cache' \in [Blocks -> Values]
    BY ONLY <1>a, <2>0, <2>a
  <2>2. stage' \in Stages /\ tail' \in 1 .. LOGSIZE BY <1>1 DEF Stages
  <2> QED BY <1>0, <1>2, <2>1, <2>2 DEF TypeOK
<1>4. StageInv' BY <1>0, <1>1 DEF StageInv
<1>5. ASSUME ~overrun PROVE \A i \in 1 .. tail : home'[lh[i]] = logged[i]
  <2>1. \A i \in 1 .. tail - 1 : home'[lh[i]] = logged[i]
    <3>1. \A i \in 1 .. tail - 1 : i \in DOMAIN lh /\ lh[i] # lh[tail] /\ lh[i] \in Blocks
      <4>1. \A i \in 1 .. tail - 1 : i \in DOMAIN lh /\ i # tail BY <1>1, UpTo
      <4>2. \A i \in DOMAIN lh : lh[i] \in Blocks BY <1>1, SeqFacts
      <4> QED BY <1>0, <1>1, <4>1, <4>2 DEF OnceInLog
    <3> QED BY <1>0, <1>1, <1>5, <1>a, <3>1 DEF Installed, TypeOK
  <2>2. home'[lh[tail]] = logged[tail] BY <1>0, <1>1, <1>5, <1>a DEF TypeOK
  <2>3. \A i \in 1 .. tail : i \in 1 .. tail - 1 \/ i = tail BY <1>1, UpTo
  <2> QED BY <2>1, <2>2, <2>3
<1>6. Installed'
  <2>1. CASE stage' = "install" /\ tail' = tail + 1 BY <1>1, <1>5, <2>1 DEF Installed
  <2>2. CASE stage' = "erase" /\ tail = Len(lh) BY <1>1, <1>5, <2>2 DEF Installed
  <2> QED BY <1>1, <2>1, <2>2
<1>7. ~overrun /\ committing => cache' = cache
  <2>1. cache \in [Blocks -> Values] BY <1>0 DEF TypeOK
  <2>2. ~overrun /\ committing => logged[tail] = cache[lh[tail]] BY <1>0, <1>1 DEF Copied
  <2>3. lh[tail] \in Blocks BY <1>1
  <2> QED BY ONLY <1>a, <2>1, <2>2, <2>3
<1>8. Clean'
  <2>0. SUFFICES ASSUME ~overrun PROVE Clean' BY DEF Clean
  <2>1. CASE committing
    <3>1. ASSUME stage' = "erase" PROVE cache' = home'
      <4>1. \A i \in DOMAIN lh : home'[lh[i]] = cache[lh[i]]
        BY <1>0, <1>1, <1>5, <2>0, <2>1, <3>1 DEF Copied
      <4>2. \A b \in Blocks : b \in Range(lh) => home'[b] = cache[b]
        BY <4>1 DEF Range
      <4>3. \A b \in Blocks : b \notin Range(lh) => home'[b] = cache[b]
        <5>1. lh[tail] \in Range(lh) BY <1>1 DEF Range
        <5> QED BY <1>0, <1>a, <2>0, <2>1, <5>1 DEF DirtyOnly, Dirty, TypeOK
      <4>4. \A b \in Blocks : home'[b] = cache'[b] BY <4>2, <4>3, <1>7, <2>0, <2>1
      <4>5. home' \in [Blocks -> Values] /\ cache' \in [Blocks -> Values]
        BY <1>3 DEF TypeOK
      <4>6. home' = [b \in Blocks |-> home'[b]] /\ cache' = [b \in Blocks |-> cache'[b]]
        BY <4>5
      <4> QED BY <4>4, <4>6
    <3> QED BY <1>1, <2>1, <3>1 DEF Clean
  <2>2. CASE ~committing BY <1>0, <1>a, <2>0, <2>2 DEF Clean
  <2> QED BY <2>1, <2>2
<1>9. DirtyOnly'
  <2>1. ASSUME ~overrun, committing, NEW b \in Blocks, cache'[b] # home'[b]
        PROVE  b \in Range(lh)
    <3>1. lh[tail] \in Range(lh) BY <1>1 DEF Range
    <3>2. CASE b = lh[tail] BY <3>1, <3>2
    <3>3. CASE b # lh[tail]
      <4>1. cache[b] # home[b] BY <1>0, <1>a, <2>1, <3>3 DEF TypeOK
      <4> QED BY <1>0, <2>1, <4>1 DEF DirtyOnly, Dirty
    <3> QED BY <3>2, <3>3
  <2> QED BY <1>1, <2>1 DEF DirtyOnly, Dirty
<1>10. Copied' BY <1>0, <1>1, <1>7 DEF Copied
<1>11. \A p \in Ops : OpInv(p)' BY <1>0 DEF IInv, OpInv
<1>12. Within' BY <1>0, <1>1 DEF IInv, Within
<1> QED BY <1>12, <1>2, <1>3, <1>4, <1>6, <1>8, <1>9, <1>10, <1>11
    DEF IInv, SpaceKept, Reserved, OnceInLog, SleeperHasWaker, Headers, BufsDisjoint

\* What holds when lh becomes empty, or read from the disk, with nobody inside.
LEMMA EraseInv == ASSUME IInv, Erase PROVE IInv'
<1> USE DEF Erase
<1>0. /\ TypeOK /\ StageInv /\ Clean /\ stage = "erase" /\ (~overrun => cache = home) /\ tail = 1
      /\ outstanding = 0 /\ Charged = {} /\ Active = {}
      /\ \A p \in Ops : pc[p] # "in" /\ wrote[p] = {} /\ buf[p] = {}
  BY NobodyInside DEF IInv, SpaceKept, StageInv, Clean
<1>1. Active' = Active /\ Charged' = {} BY <1>0 DEF Active, Charged
<1>2. TypeOK' BY <1>0, <1>1, EmptyFacts DEF TypeOK, Stages
<1>3. Reserved'
  BY <1>0, <1>1, EmptyFacts, FS_EmptySet, LogSizeType, LogAssumption DEF Reserved
<1>4. (OnceInLog /\ SleeperHasWaker /\ Headers)'
  BY <1>0, EmptyFacts, LogSizeType DEF IInv, SpaceKept, OnceInLog, SleeperHasWaker, Headers
<1>5. StageInv' BY <1>0 DEF StageInv
<1>6. (BufsDisjoint /\ \A p \in Ops : OpInv(p))'
  <2>1. Cardinality({}) <= MAXOPBLOCKS BY FS_EmptySet, LogAssumption
  <2>2. \A p \in Ops : pc'[p] # "in" /\ wrote'[p] = {} /\ buf'[p] = {} BY <1>0
  <2> QED BY <2>1, <2>2 DEF BufsDisjoint, OpInv
<1>7. (DirtyOnly /\ Copied /\ Installed /\ Clean)'
  BY <1>0 DEF DirtyOnly, Copied, Installed, Clean
<1>8. Within' BY <1>0, EmptyFacts, LogSizeType DEF Within
<1> QED BY <1>8, <1>2, <1>3, <1>4, <1>5, <1>6, <1>7 DEF IInv, SpaceKept

LEMMA EndCommitInv == ASSUME IInv, EndCommit PROVE IInv'
<1> USE DEF EndCommit, disk
<1>0. /\ TypeOK /\ StageInv /\ Clean /\ stage = "done" /\ (~overrun => cache = home) /\ tail = 1
      /\ outstanding = 0 /\ lh = <<>> /\ head = <<>> /\ Charged = {} /\ Active = {}
      /\ \A p \in Ops : pc[p] # "in" /\ wrote[p] = {} /\ buf[p] = {}
  BY NobodyInside DEF IInv, SpaceKept, StageInv, Clean
<1>1. \A p \in Ops : pc'[p] \in PCs \ {"in", "asleep"}
  BY <1>0 DEF Committer, Wakened, TypeOK, PCs
<1>2. Active' = Active /\ Charged' = {} BY <1>0, <1>1 DEF Active, Charged
<1>3. TypeOK'
  <2>1. pc' \in [Ops -> PCs] BY <1>1 DEF Committer
  <2> QED BY <1>0, <1>2, <2>1 DEF TypeOK, Stages
<1>4. Reserved' BY <1>0, <1>2 DEF IInv, SpaceKept, Reserved
<1>5. (OnceInLog /\ SleeperHasWaker /\ Headers)'
  BY <1>0, <1>1 DEF IInv, SpaceKept, OnceInLog, SleeperHasWaker, Headers
<1>6. StageInv' BY <1>0 DEF StageInv
<1>7. (BufsDisjoint /\ \A p \in Ops : OpInv(p))'
  <2>1. Cardinality({}) <= MAXOPBLOCKS BY FS_EmptySet, LogAssumption
  <2>2. \A p \in Ops : pc'[p] # "in" /\ wrote'[p] = {} /\ buf'[p] = {} BY <1>0, <1>1
  <2> QED BY <2>1, <2>2 DEF BufsDisjoint, OpInv
<1>8. (DirtyOnly /\ Copied /\ Installed /\ Clean)'
  BY <1>0 DEF DirtyOnly, Copied, Installed, Clean
<1>9. Within' BY <1>0 DEF IInv, Within
<1> QED BY <1>9, <1>3, <1>4, <1>5, <1>6, <1>7, <1>8 DEF IInv, SpaceKept

LEMMA ReadHeadInv == ASSUME IInv, read_head PROVE IInv'
<1> USE DEF read_head, disk
<1>0. /\ TypeOK /\ StageInv /\ Clean /\ Headers /\ stage = "boot" /\ (~overrun => cache = home) /\ tail = 1
      /\ ~committing /\ outstanding = 0 /\ Charged = {} /\ Active = {}
      /\ Len(head) <= LOGSIZE /\ Len(head) \in Nat /\ (head # <<>> => 1 <= Len(head))
      /\ \A p \in Ops : pc[p] # "in" /\ wrote[p] = {} /\ buf[p] = {}
  BY NobodyInside, SeqFacts DEF IInv, SpaceKept, StageInv, Clean, TypeOK, Headers
<1>1. Active' = Active /\ Charged' = {} BY <1>0 DEF Active, Charged
<1>2. TypeOK' BY <1>0, <1>1 DEF TypeOK, Stages
<1>3. Reserved'
  BY <1>0, <1>1, FS_EmptySet, LogSizeType, LogAssumption DEF Reserved
<1>4. (OnceInLog /\ SleeperHasWaker /\ Headers)'
  BY <1>0 DEF IInv, SpaceKept, OnceInLog, SleeperHasWaker, Headers
<1>5. StageInv' BY <1>0 DEF StageInv
<1>6. (BufsDisjoint /\ \A p \in Ops : OpInv(p))'
  <2>1. Cardinality({}) <= MAXOPBLOCKS BY FS_EmptySet, LogAssumption
  <2>2. \A p \in Ops : pc'[p] # "in" /\ wrote'[p] = {} /\ buf'[p] = {} BY <1>0
  <2> QED BY <2>1, <2>2 DEF BufsDisjoint, OpInv
<1>7. Installed' BY <1>0, EmptyFacts DEF Installed
<1>8. (DirtyOnly /\ Copied /\ Clean)' BY <1>0 DEF DirtyOnly, Copied, Clean
<1>9. Within' BY <1>0 DEF IInv, Within
<1> QED BY <1>9, <1>2, <1>3, <1>4, <1>5, <1>6, <1>7, <1>8 DEF IInv, SpaceKept

\* A crash forgets all but the disk, whatever it was doing.
LEMMA CrashInv == ASSUME IInv, Crash PROVE IInv'
<1> USE DEF Crash, disk
<1>0. TypeOK /\ Headers BY DEF IInv, SpaceKept
<1>1. Active' = {} /\ Charged' = {} BY DEF Active, Charged
<1>2. TypeOK'
  <2>1. outstanding' = Cardinality(Active') BY <1>1, FS_EmptySet
  <2>2. tail' \in 1 .. LOGSIZE BY LogSizeType
  <2> QED BY <1>0, <2>1, <2>2, EmptyFacts DEF TypeOK, Stages, PCs
<1>3. Reserved'
  BY <1>1, EmptyFacts, FS_EmptySet, LogSizeType, LogAssumption DEF Reserved
<1>4. (OnceInLog /\ SleeperHasWaker /\ Headers)'
  BY <1>0, EmptyFacts DEF OnceInLog, SleeperHasWaker, Headers
<1>5. StageInv' BY DEF StageInv
<1>6. (BufsDisjoint /\ \A p \in Ops : OpInv(p))'
  BY FS_EmptySet, LogAssumption DEF BufsDisjoint, OpInv
<1>7. (DirtyOnly /\ Copied /\ Installed /\ Clean)'
  BY DEF DirtyOnly, Copied, Installed, Clean
<1>8. Within' BY DEF IInv, Within
<1> QED BY <1>8, <1>2, <1>3, <1>4, <1>5, <1>6, <1>7 DEF IInv, SpaceKept

LEMMA Inductive == IInv /\ [Next]_vars => IInv'
<1> SUFFICES ASSUME IInv, [Next]_vars PROVE IInv' OBVIOUS
<1>1. CASE UNCHANGED vars
  BY <1>1 DEF vars, disk, memory, IInv, SpaceKept, TypeOK, Active, Reserved, Charged,
              OnceInLog, SleeperHasWaker, Headers, StageInv, Within, OpInv, BufsDisjoint,
              DirtyOnly, Dirty, Copied, Installed, Clean
<1>2. CASE Next
  BY <1>2, BeginInv, EndInv, LogBlockInv, WriteInv, WriteLogInv, WriteHeadInv,
     InstallInv, EraseInv, EndCommitInv, ReadHeadInv, CrashInv DEF Next
<1> QED BY <1>1, <1>2

LEMMA Invariant == Spec => []IInv
BY InitInv, Inductive, PTL DEF Spec

\* Whatever the operations that begin_op let in write, and however the unlocked tests of
\* log_write race, the transaction stays within log.lh.block, has each block once, and
\* whoever sleeps in begin_op has somebody to wake it.
THEOREM SpaceAlwaysKept == Spec => []SpaceKept
<1>1. IInv => SpaceKept BY DEF IInv
<1> QED BY <1>1, Invariant, PTL

\* After the last end_op the disk holds, or will recover, all that was written, unless
\* write_log has gone beyond the log, into the inodes.
THEOREM AlwaysDurable == Spec => []Durable
<1>1. IInv => Durable
  <2> SUFFICES ASSUME IInv, ~overrun, ~Recovering, ~committing, outstanding = 0
               PROVE  Recovered = cache
    BY DEF Durable
  <2>1. /\ TypeOK /\ Headers /\ stage = "up" /\ head = <<>> /\ lh = <<>> /\ DirtyOnly
    BY DEF IInv, SpaceKept, StageInv, Recovering
  <2>2. \A p \in Ops : buf[p] = {}
    <3>1. Active = {} BY <2>1, Finite, FS_EmptySet DEF TypeOK
    <3> QED BY <3>1 DEF IInv, OpInv, Active
  <2>3. \A b \in Blocks : cache[b] = home[b]
    BY <2>1, <2>2, EmptyFacts DEF DirtyOnly, Dirty
  <2>4. Recovered = home BY <2>1, RecoveredValue
  <2> QED BY <2>1, <2>3, <2>4 DEF TypeOK
<1> QED BY <1>1, Invariant, PTL

------------------------------------------------------------------------------
\* The refinement of AtomicDisk, under the mapping of Abs.
LEMMA AbsInit == Init => Abs!Init
<1> SUFFICES ASSUME Init PROVE Abs!Init OBVIOUS
<1>1. TypeOK /\ Headers BY InitInv DEF IInv, SpaceKept
<1>2. Recovered = home /\ home \in [Blocks -> Values]
  BY <1>1, RecoveredValue DEF Init
<1>3. Active = {} BY DEF Init, Active
<1> QED BY <1>2, <1>3 DEF Init, Abs!Init, Recovering

\* With the same header and log and the same home blocks, the same recovery.
LEMMA RecoveredSame ==
  ASSUME UNCHANGED disk
  PROVE  Recovered' = Recovered
BY DEF Recovered, Position, Copy, disk

LEMMA AbsStep == IInv /\ IInv' /\ [Next]_vars => [Abs!Next \/ overrun']_Abs!vars
<1> SUFFICES ASSUME IInv, IInv', [Next]_vars, ~overrun'
             PROVE  [Abs!Next]_Abs!vars
  OBVIOUS
<1>00. ~overrun
  BY DEF Next, vars, disk, begin_op, end_op, LogBlock, log_write, write_log, write_head,
         install_trans, Erase, EndCommit, read_head, Crash
<1>0. /\ ~overrun /\ ~overrun' /\ TypeOK /\ StageInv /\ Headers /\ TypeOK' /\ StageInv' /\ Headers'
  BY <1>00 DEF IInv, SpaceKept
<1>1. CASE UNCHANGED vars
  BY <1>1 DEF vars, disk, memory, Abs!vars, Recovered, Position, Copy, Recovering, Active
<1>2. ASSUME NEW p \in Ops, begin_op(p) PROVE [Abs!Next]_Abs!vars
  <2>1. Recovered' = Recovered /\ ~Recovering /\ ~Recovering' /\ cache' = cache
    BY <1>2, RecoveredSame DEF begin_op, Recovering
  <2>2. CASE pc' = [pc EXCEPT ![p] = "asleep"]
    <3>1. Active' = Active BY <1>0, <1>2, <2>2 DEF begin_op, Active, TypeOK, PCs
    <3> QED BY <2>1, <3>1 DEF Abs!vars
  <2>3. CASE pc' = [pc EXCEPT ![p] = "in"]
    <3>1. Active' = Active \cup {p} BY <1>0, <2>3 DEF Active, TypeOK
    <3>2. Abs!Begin(p) BY <2>1, <3>1 DEF Abs!Begin
    <3> QED BY <3>2 DEF Abs!Next
  <2> QED BY <1>2, <2>2, <2>3 DEF begin_op
<1>3. ASSUME NEW p \in Ops, end_op(p) PROVE [Abs!Next]_Abs!vars
  <2>1. stage = "up" BY <1>3 DEF end_op, IInv, OpInv
  <2>2. Recovered' = Recovered /\ ~Recovering /\ ~Recovering' /\ cache' = cache
    BY <1>3, <2>1, RecoveredSame DEF end_op, Recovering
  <2>3. Active' = Active \ {p}
    BY <1>0, <1>3 DEF end_op, Wakened, Active, TypeOK, PCs
  <2>4. Abs!End(p) BY <2>2, <2>3 DEF Abs!End
  <2> QED BY <2>4 DEF Abs!Next
<1>4. ASSUME NEW p \in Ops, LogBlock(p) PROVE [Abs!Next]_Abs!vars
  <2>1. Recovered' = Recovered /\ Recovering' = Recovering /\ cache' = cache
    BY <1>4, RecoveredSame DEF LogBlock, Recovering
  <2>2. Active' = Active BY <1>4 DEF LogBlock, Active
  <2> QED BY <2>1, <2>2 DEF Abs!vars
<1>5. ASSUME NEW p \in Ops, NEW b \in Blocks, NEW v \in Values, log_write(p, b, v)
      PROVE  [Abs!Next]_Abs!vars
  <2>1. p \in Active /\ stage = "up"
    BY <1>5 DEF log_write, MayWrite, Active, IInv, OpInv
  <2>2. Recovered' = Recovered /\ ~Recovering /\ ~Recovering'
    BY <1>5, <2>1, RecoveredSame DEF log_write, Recovering
  <2>3. Active' = Active BY <1>5 DEF log_write, Active
  <2>4. cache' = [cache EXCEPT ![b] = v] BY <1>5 DEF log_write
  <2>5. Abs!Write(p, b, v) BY <2>1, <2>2, <2>3, <2>4 DEF Abs!Write
  <2> QED BY <2>5 DEF Abs!Next
<1>6. CASE write_log
  <2>1. head = <<>> /\ head' = <<>> /\ stage = "write" /\ committing
    BY <1>0, <1>6 DEF write_log, Turn, StageInv
  <2>2. Recovered' = Recovered
    <3>1. Recovered' = home'
      <4>1. \A b : ~ \E i \in DOMAIN head' : head'[i] = b BY <2>1, EmptyFacts
      <4>2. Recovered' = [b \in Blocks |-> home'[b]] BY <4>1 DEF Recovered
      <4> QED BY <1>0, <4>2 DEF TypeOK
    <3>2. Recovered = home BY <1>0, <2>1, RecoveredValue
    <3> QED BY <1>0, <1>6, <3>1, <3>2 DEF write_log
  <2>3. ~Recovering /\ ~Recovering' /\ cache' = cache /\ Active' = Active
    BY <1>0, <1>6, <2>1 DEF write_log, Recovering, Active
  <2> QED BY <2>2, <2>3 DEF Abs!vars
<1>7. CASE write_head
  <2>1. /\ stage = "head" /\ committing /\ committing' /\ head' = lh /\ Active = {}
        /\ \A p \in Ops : buf[p] = {}
    BY <1>0, <1>7, NobodyInside DEF write_head, StageInv
  <2>2. Recovered' = cache
    <3>0. \A i \in DOMAIN lh : Copy(i)' = logged[i]
      <4>1. /\ Len(lh) < nlog /\ lh \in Seq(Blocks) /\ Len(lh) \in Nat
            /\ DOMAIN lh = 1 .. Len(lh)
        BY <1>0, <2>1, SeqFacts DEF IInv, Within, TypeOK
      <4>2. \A i \in DOMAIN lh : i < nlog BY <4>1, LogSizeType
      <4> QED BY <1>7, <4>2 DEF Copy, write_head, nlog
    <3>1. \A i \in DOMAIN lh : logged[i] = cache[lh[i]]
      BY <1>0, <2>1 DEF IInv, Copied
    <3>2. \A b \in Blocks \ Range(lh) : home[b] = cache[b]
      BY <1>0, <2>1 DEF IInv, DirtyOnly, Dirty
    <3>3. Recovered' = [b \in Blocks |->
             IF \E i \in DOMAIN lh : lh[i] = b THEN logged[Position(lh, b)] ELSE home[b]]
      <4>1. \A b : (\E i \in DOMAIN lh : lh[i] = b) => Position(lh, b) \in DOMAIN lh
        BY DEF Position
      <4>2. Recovered' = [b \in Blocks |->
               IF \E i \in DOMAIN lh : lh[i] = b
               THEN IF Position(lh, b) < nlog THEN logged[Position(lh, b)] ELSE home[INODESTART]
               ELSE home[b]]
        BY <1>7, <2>1 DEF Recovered, Position, Copy, write_head, nlog
      <4>3. \A i \in DOMAIN lh : (IF i < nlog THEN logged[i] ELSE home[INODESTART]) = logged[i]
        BY <1>7, <3>0 DEF Copy, write_head, nlog
      <4> QED BY ONLY <4>1, <4>2, <4>3
    <3>4. ASSUME NEW b \in Blocks PROVE Recovered'[b] = cache[b]
      <4>1. CASE \E i \in DOMAIN lh : lh[i] = b
        <5>1. Position(lh, b) \in DOMAIN lh /\ lh[Position(lh, b)] = b
          BY <4>1 DEF Position
        <5>2. logged[Position(lh, b)] = cache[b] BY <3>1, <5>1
        <5> QED BY <3>3, <4>1, <5>2
      <4>2. CASE ~ \E i \in DOMAIN lh : lh[i] = b
        <5>1. b \notin Range(lh) BY <4>2 DEF Range
        <5> QED BY <3>2, <3>3, <4>2, <5>1
      <4> QED BY <4>1, <4>2
    <3>5. cache = [b \in Blocks |-> cache[b]] BY <1>0 DEF TypeOK
    <3>6. Recovered' = [b \in Blocks |-> Recovered'[b]] BY <3>3
    <3> QED BY <3>4, <3>5, <3>6
  <2>3. ~Recovering /\ ~Recovering' /\ cache' = cache /\ Active' = Active
    BY <1>7, <2>1 DEF write_head, Recovering, Active
  <2>4. Abs!Commit BY <2>1, <2>2, <2>3 DEF Abs!Commit
  <2> QED BY <2>4 DEF Abs!Next
<1>8. CASE install_trans
  <2>1. /\ stage = "install" /\ head = lh /\ lh \in Seq(Blocks)
        /\ tail \in DOMAIN lh /\ lh[tail] \in Blocks
    BY <1>0, <1>8, TurnFacts DEF install_trans, Turn, StageInv
  <2>2. Recovered' = Recovered
    <3>1. ASSUME NEW b \in Blocks, ~ \E i \in DOMAIN head : head[i] = b
          PROVE  home'[b] = home[b]
      <4>1. b # lh[tail] BY <2>1, <3>1
      <4> QED BY <1>0, <1>8, <4>1 DEF install_trans, TypeOK
    <3>2. head' = head /\ logged' = logged BY <1>8 DEF install_trans
    <3>3. \A i \in DOMAIN head : i < nlog
      <4>1. Len(head) < nlog /\ head \in Seq(Blocks) /\ Len(head) \in Nat
            /\ DOMAIN head = 1 .. Len(head)
        BY <1>0, SeqFacts DEF IInv, Within, TypeOK
      <4> QED BY <4>1, LogSizeType
    <3>4. \A b : (\E i \in DOMAIN head : head[i] = b) => Position(head, b) \in DOMAIN head
      BY DEF Position
    <3> DEFINE At(b) == Position(head, b)
    <3>5. Recovered = [b \in Blocks |->
             IF \E i \in DOMAIN head : head[i] = b
             THEN IF At(b) < nlog THEN logged[At(b)] ELSE home[INODESTART] ELSE home[b]]
      BY DEF Recovered, Copy
    <3>6. Recovered' = [b \in Blocks |->
             IF \E i \in DOMAIN head : head[i] = b
             THEN IF At(b) < nlog THEN logged[At(b)] ELSE home'[INODESTART] ELSE home'[b]]
      BY <3>2 DEF Recovered, Position, Copy, nlog
    <3>7. \A b : (\E i \in DOMAIN head : head[i] = b) => At(b) < nlog BY <3>3, <3>4
    <3> HIDE DEF At
    <3> QED BY ONLY <3>1, <3>5, <3>6, <3>7
  <2>3. committing => cache' = cache
    <3>1. committing => cache[lh[tail]] = logged[tail] BY <1>0, <2>1 DEF IInv, Copied
    <3>2. tail < nlog
      <4>1. Len(lh) < nlog /\ Len(lh) \in Nat /\ DOMAIN lh = 1 .. Len(lh)
        BY <1>0, <2>1, SeqFacts DEF IInv, Within
      <4> QED BY <2>1, <4>1, LogSizeType
    <3>3. cache' = [cache EXCEPT ![lh[tail]] = logged[tail]]
      BY <1>8, <3>2 DEF install_trans, InLog
    <3> QED BY <1>0, <2>1, <3>1, <3>3 DEF TypeOK
  <2>4. (Recovering <=> ~committing) /\ (Recovering' <=> ~committing)
    BY <1>8, <2>1 DEF install_trans, Turn, Recovering
  <2>5. Active' = Active BY <1>8 DEF install_trans, Active
  <2> QED BY <2>2, <2>3, <2>4, <2>5 DEF Abs!vars
<1>9. CASE Erase
  <2>1. stage = "erase" /\ head = lh /\ head' = <<>> /\ cache = home /\ home' = home
        /\ cache' = cache
    BY <1>0, <1>9 DEF Erase, StageInv, IInv, Clean
  <2>2. Recovered = home
    <3>1. \A i \in DOMAIN head : Recovered[head[i]] = home[head[i]]
      <4>1. Len(head) < nlog /\ head \in Seq(Blocks) /\ Len(head) \in Nat
            /\ DOMAIN head = 1 .. Len(head)
        BY <1>0, SeqFacts DEF IInv, Within, TypeOK
      <4>2. \A i \in DOMAIN head : i < nlog BY <4>1, LogSizeType
      <4>3. \A i \in DOMAIN head : home[head[i]] = logged[i]
        BY <1>0, <1>9, <2>1 DEF IInv, Installed, Erase
      <4> QED BY <1>0, <4>2, <4>3, RecoveredValue DEF Copy
    <3>2. \A b \in Blocks : Recovered[b] = home[b]
      BY <1>0, <3>1, RecoveredValue DEF Range
    <3>3. Recovered = [b \in Blocks |-> Recovered[b]] BY <1>0, RecoveredValue
    <3>4. home = [b \in Blocks |-> home[b]] BY <1>0 DEF TypeOK
    <3> QED BY <3>2, <3>3, <3>4
  <2>3. Recovered' = home
    <3>1. \A b : ~ \E i \in DOMAIN head' : head'[i] = b BY <2>1, EmptyFacts
    <3>2. Recovered' = [b \in Blocks |-> home'[b]] BY <3>1 DEF Recovered
    <3> QED BY <1>0, <2>1, <3>2 DEF TypeOK
  <2>4. Active' = Active BY <1>9 DEF Erase, Active
  <2> QED BY <2>1, <2>2, <2>3, <2>4 DEF Abs!vars
<1>10. CASE EndCommit
  <2>1. stage = "done" /\ committing /\ stage' = "up" /\ cache' = cache
    BY <1>0, <1>10 DEF EndCommit, StageInv
  <2>2. Recovered' = Recovered /\ ~Recovering /\ ~Recovering'
    BY <1>10, <2>1, RecoveredSame DEF EndCommit, Recovering
  <2>3. Active' = Active
    BY <1>0, <1>10 DEF EndCommit, Committer, Wakened, Active, TypeOK, PCs
  <2> QED BY <2>1, <2>2, <2>3 DEF Abs!vars
<1>11. CASE read_head
  <2>1. stage = "boot" /\ ~committing /\ ~committing' /\ stage' \in {"erase", "install"}
    BY <1>0, <1>11 DEF read_head, StageInv
  <2>2. Recovered' = Recovered /\ Recovering /\ Recovering'
    BY <1>11, <2>1, RecoveredSame DEF read_head, Recovering
  <2>3. Active' = Active BY <1>11 DEF read_head, Active
  <2> QED BY <2>2, <2>3 DEF Abs!vars
<1>12. CASE Crash
  <2>1. Recovered' = Recovered /\ Recovering' /\ Active' = {}
    BY <1>12, RecoveredSame DEF Crash, Recovering, Active
  <2>2. Abs!Crash BY <2>1 DEF Abs!Crash
  <2> QED BY <2>2 DEF Abs!Next
<1> QED BY <1>1, <1>2, <1>3, <1>4, <1>5, <1>6, <1>7, <1>8, <1>9, <1>10, <1>11, <1>12
    DEF Next

\* However the machine crashes, file-system operations are atomic: the log
\* implements AtomicDisk up to the step, if any, with which write_log goes beyond it.
THEOREM LogRefinement == Spec => ImplementsAtomicDisk
BY AbsInit, AbsStep, Invariant, PTL DEF Spec, ImplementsAtomicDisk
=============================================================================
