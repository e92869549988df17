------------------------------ MODULE FileBlocks ------------------------------
(***************************************************************************)
(* The blocks of a file in xv6 (fs.c): allocation, the block map with its  *)
(* direct, single, double and triple indirect parts, reading, writing and  *)
(* truncation.  A block is NINDIRECT words, of data or of block numbers.   *)
(* fs is the state of the file system: its size, the bitmap, the blocks,   *)
(* the inodes in memory and on disk, the blocks that the operation under   *)
(* way has given to the log, and the panic that stopped the kernel.        *)
(***************************************************************************)
EXTENDS Integers, Sequences, SequencesExt, FiniteSetsExt, TLC
CONSTANTS NDIRECT, NINDIRECT, MAXOPBLOCKS,
          BPB,       \* the bits of a block of the bitmap
          Disks,     \* how many data blocks a disk may have
          Files

NDINDIRECT == NINDIRECT * NINDIRECT
NTINDIRECT == NINDIRECT * NINDIRECT * NINDIRECT
MAXFILE == NDIRECT + NINDIRECT + NDINDIRECT + NTINDIRECT
BSIZE == NINDIRECT
Words == 0 .. BSIZE - 1
INODES == -1
\* The block of the bitmap that has block b.
BBLOCK(b) == -2 - b \div BPB
NoInode == [addrs |-> [i \in 0 .. NDIRECT + 2 |-> 0], size |-> 0]
\* A disk of n blocks; block 0, which no file has, is there for those before them.
Made(n) == [size |-> n, used |-> {}, disk |-> 0 :> [w \in Words |-> 0],
            inode |-> [f \in Files |-> NoInode], dinode |-> [f \in Files |-> NoInode],
            logged |-> {}, panicked |-> ""]

panic(fs, why) == [fs EXCEPT !.panicked = IF @ = "" THEN why ELSE @]
log_write(fs, bs) == [fs EXCEPT !.logged = @ \cup bs]
\* The first free block, filled with zeros; nothing goes on when there is none.
\* Mutant: it keeps what it had.
Free(fs) == 1 .. fs.size \ fs.used
balloc_dirty(fs) ==
  IF Free(fs) = {} THEN [addr |-> 0, fs |-> panic(fs, "out of blocks")]
  ELSE LET b == Min(Free(fs))
       IN  [addr |-> b, fs |-> log_write([fs EXCEPT !.used = @ \cup {b},
              !.disk = IF b \in DOMAIN @ THEN @ ELSE (b :> [w \in Words |-> 0]) @@ @], {BBLOCK(b), b})]
balloc(fs) ==
  IF Free(fs) = {} THEN [addr |-> 0, fs |-> panic(fs, "out of blocks")]
  ELSE LET b == Min(Free(fs))
       IN  [addr |-> b, fs |-> log_write([fs EXCEPT !.used = @ \cup {b},
              !.disk = (b :> [w \in Words |-> 0]) @@ @], {BBLOCK(b), b})]
\* bfree of several blocks, one after the other.
bfree(fs, bs) ==
  LET freed == log_write([fs EXCEPT !.used = @ \ ToSet(bs)], {BBLOCK(b) : b \in ToSet(bs)})
  IN  IF IsInjective(bs) /\ ToSet(bs) \subseteq fs.used THEN freed
      ELSE panic(freed, "freeing free block")
iupdate(fs, f) == log_write([fs EXCEPT !.dinode[f] = fs.inode[f]], {INODES})

\* How bmap gets to block bn: an entry of addrs, and one of each indirect block.
\* Mutant: the double indirect index is not reduced before the last step.
Path_unreduced(bn) ==
  LET s == bn - NDIRECT
      d == s - NINDIRECT
      t == d - NDINDIRECT
  IN  CASE bn < NDIRECT -> <<bn>>
        [] bn >= NDIRECT /\ s < NINDIRECT -> <<NDIRECT, s>>
        [] s >= NINDIRECT /\ d < NDINDIRECT -> <<NDIRECT + 1, d \div NINDIRECT, d % NINDIRECT>>
        [] OTHER -> <<NDIRECT + 2, t \div NDINDIRECT, (d % NDINDIRECT) \div NINDIRECT, t % NDIRECT>>
Path(bn) ==
  LET s == bn - NDIRECT
      d == s - NINDIRECT
      t == d - NDINDIRECT
  IN  CASE bn < NDIRECT -> <<bn>>
        [] bn >= NDIRECT /\ s < NINDIRECT -> <<NDIRECT, s>>
        [] s >= NINDIRECT /\ d < NDINDIRECT -> <<NDIRECT + 1, d \div NINDIRECT, d % NINDIRECT>>
        [] OTHER -> <<NDIRECT + 2, t \div NDINDIRECT, (t % NDINDIRECT) \div NINDIRECT, t % NINDIRECT>>
\* One step of it, which allocates what is missing.
FromInode(fs, f, i) ==
  IF fs.inode[f].addrs[i] # 0 THEN [addr |-> fs.inode[f].addrs[i], fs |-> fs]
  ELSE LET new == balloc(fs)
       IN  [new EXCEPT !.fs.inode[f].addrs[i] = new.addr]
Indirect(at, k) ==
  LET a == at.fs.disk[at.addr][k]
      new == balloc(at.fs)
  IN  IF a # 0 THEN [at EXCEPT !.addr = a]
      ELSE [new EXCEPT !.fs = log_write([@ EXCEPT !.disk[at.addr][k] = new.addr], {at.addr})]
bmap(fs, f, bn) == FoldLeft(Indirect, FromInode(fs, f, Head(Path(bn))), Tail(Path(bn)))

\* writei for n words with value v; writei_p differs in that off may be past the end.
WriteBlock(fs, f, bn, words, v) ==
  LET at == bmap(fs, f, bn)
  IN  log_write([at.fs EXCEPT !.disk[at.addr] =
                   [w \in Words |-> IF bn * BSIZE + w \in words THEN v ELSE @[w]]], {at.addr})
RECURSIVE WriteBlocks(_, _, _, _, _)
WriteBlocks(fs, f, bns, words, v) ==
  IF bns = {} THEN fs
  ELSE WriteBlocks(WriteBlock(fs, f, Min(bns), words, v), f, bns \ {Min(bns)}, words, v)
writei_p(fs, f, off, n, v) ==
  IF off + n > MAXFILE * BSIZE THEN fs
  ELSE LET words == off .. off + n - 1
           done == WriteBlocks(fs, f, {w \div BSIZE : w \in words}, words, v)
       IN  IF off + n > fs.inode[f].size
           THEN iupdate([done EXCEPT !.inode[f].size = off + n], f) ELSE done
writei(fs, f, off, n, v) == IF off > fs.inode[f].size THEN fs ELSE writei_p(fs, f, off, n, v)
\* How many words filewrite gives to writei in one transaction at most.
MaxWrite == ((MAXOPBLOCKS - 1 - 1 - 2) \div 2) * BSIZE

\* The blocks below an indirect block, and that block, in the order itrunc frees them.
RECURSIVE Below(_, _, _)
Below(fs, a, depth) ==
  IF a = 0 THEN <<>>
  ELSE (IF depth = 0 THEN <<>>
        ELSE FlattenSeq([k \in 1 .. NINDIRECT |-> Below(fs, fs.disk[a][k - 1], depth - 1)])) \o <<a>>
BlocksOf(fs, addrs) ==
  FlattenSeq([i \in 1 .. NDIRECT + 3 |-> Below(fs, addrs[i - 1], IF i <= NDIRECT THEN 0 ELSE i - NDIRECT)])
itrunc(fs, f) ==
  iupdate([bfree(fs, BlocksOf(fs, fs.inode[f].addrs)) EXCEPT !.inode[f] = NoInode], f)

\* The block that readi finds a word in, 0 in a hole, and the word.  In a hole bmap
\* allocates: outside of a transaction log_write panics.
BlockOf(fs, f, w) ==
  LET p == Path(w \div BSIZE)
  IN  FoldLeft(LAMBDA b, k : IF b = 0 THEN 0 ELSE fs.disk[b][k], fs.inode[f].addrs[Head(p)], Tail(p))
Lookup(fs, f, w) == fs.disk[BlockOf(fs, f, w)][w % BSIZE]
readi(fs, f, w) ==
  IF w < fs.inode[f].size /\ BlockOf(fs, f, w) = 0 THEN panic(fs, "log_write outside of trans") ELSE fs

-----------------------------------------------------------------------------
(***************************************************************************)
(* Files that are written, truncated and read again from disk, next to     *)
(* what their users should read: content, the words up to the end.         *)
(***************************************************************************)
CONSTANTS Starts,  \* the sizes a file has at first, in blocks
          Offsets, \* the blocks where writes begin, if not at the end of the file
          WRITES   \* how many operations there are
VARIABLES fs, user
bvars == <<fs, user>>

\* A file of n blocks and a word, written from its start.
RECURSIVE Grown(_, _, _)
Grown(x, f, n) == IF n = 0 THEN writei(x, f, x.inode[f].size, 1, 9)
                  ELSE Grown(writei(x, f, x.inode[f].size, BSIZE, 9), f, n - 1)
BInit ==
  \E f \in Files, n \in Starts, blocks \in Disks :
    /\ fs = [Grown(Made(blocks), f, n) EXCEPT !.logged = {}]
    /\ fs.panicked = ""
    /\ user = [content |-> [g \in Files |-> IF g = f THEN [i \in 1 .. n * BSIZE + 1 |-> 9] ELSE <<>>],
               ops |-> 0, holed |-> FALSE, lost |-> FALSE]
Written(c, off, n, v) ==
  [i \in 1 .. IF off + n > Len(c) THEN off + n ELSE Len(c) |->
     IF i \in off + 1 .. off + n THEN v ELSE IF i <= Len(c) THEN c[i] ELSE 0]
Idle == [fs EXCEPT !.logged = {}]
\* After a panic nothing goes on, and what the operation had done so far is lost.
Op(x, u) ==
  /\ fs.panicked = ""
  /\ user.ops < WRITES
  /\ fs' = IF x.panicked = "" THEN x ELSE panic(Idle, x.panicked)
  /\ user' = [(IF x.panicked = "" THEN u ELSE user) EXCEPT !.ops = @ + 1]
Append1(f) ==
  \E n \in {1, MaxWrite} :
    LET off == fs.inode[f].size IN
    Op(writei(Idle, f, off, n, user.ops + 1),
       [user EXCEPT !.content[f] = IF off + n > MAXFILE * BSIZE THEN @ ELSE Written(@, off, n, user.ops + 1)])
Pwrite(f) ==
  \E n \in {1, MaxWrite}, b \in Offsets :
    LET off == b * BSIZE + 1 IN
    Op(writei_p(Idle, f, off, n, user.ops + 1),
       IF off + n > MAXFILE * BSIZE THEN user
       ELSE [user EXCEPT !.content[f] = Written(@, off, n, user.ops + 1),
                         !.holed = @ \/ off > fs.inode[f].size])
Truncate(f) == Op(itrunc(Idle, f), [user EXCEPT !.content[f] = <<>>])
\* read, of every word; in a file without holes it changes nothing.
Read(f) == \E w \in {x \in 0 .. fs.inode[f].size - 1 : BlockOf(fs, f, x) = 0} : Op(readi(Idle, f, w), user)
\* The inode leaves the cache and is read again; what was only in memory is lost.
Reload(f) ==
  /\ fs.panicked = ""
  /\ fs' = [fs EXCEPT !.inode[f] = fs.dinode[f], !.logged = {}]
  /\ user' = [user EXCEPT !.lost = @ \/ fs.inode[f] # fs.dinode[f]]
BNext == \E f \in Files : Append1(f) \/ Pwrite(f) \/ Read(f) \/ Truncate(f) \/ Reload(f)
BSpec == BInit /\ [][BNext]_bvars

-----------------------------------------------------------------------------
\* A file reads as it was written, over all four parts of the block map: a new block
\* shows nothing of the file it was in before, and only a file that was written past
\* its end has a hole.
FileExact ==
  ~user.lost => \A f \in Files :
    /\ fs.inode[f].size = Len(user.content[f])
    /\ \A i \in DOMAIN user.content[f] :
         IF BlockOf(fs, f, i - 1) # 0 THEN Lookup(fs, f, i - 1) = user.content[f][i]
         ELSE user.content[f][i] = 0 /\ user.holed
    /\ fs.panicked = "log_write outside of trans" => user.holed

\* A block that the bitmap has as used is in one place of one file; truncation
\* finds all of them.
BlocksAccounted ==
  ~user.lost =>
    LET blocks == FlattenSeq([i \in 1 .. Cardinality(Files) |->
                                BlocksOf(fs, fs.inode[SetToSeq(Files)[i]].addrs)])
    IN  /\ IsInjective(blocks) /\ ToSet(blocks) = fs.used
        /\ fs.panicked # "freeing free block"

\* What a write of filewrite, or a truncation, gives to the log is within what begin_op
\* reserved but for two things, which the reservation does not count: every block of
\* the bitmap after the first, and one more indirect block in a file with a hole.
OpFits ==
  Cardinality(fs.logged) <=
    MAXOPBLOCKS + Cardinality({BBLOCK(b) : b \in 1 .. fs.size} \cap fs.logged)
      - (IF fs.logged = {} THEN 0 ELSE 1) + (IF user.holed THEN 1 ELSE 0)

\* "Must be called after every change to an ip->xxx field that lives on disk".
WrittenThrough == \A f \in Files : fs.inode[f] = fs.dinode[f]

-----------------------------------------------------------------------------
(***************************************************************************)
(* mkfs.c: the file system image that xv6 starts from, made on the host.   *)
(* A directory entry is a word, the number of its inode; files are written *)
(* as they are read, in chunks of at most a block.  The part above says    *)
(* how the kernel reads the image.                                         *)
(***************************************************************************)
VARIABLES image,    \* freeblock, freeinode, the blocks and inodes written, the bitmap
          content,  \* the words of each file so far
          done
mvars == <<image, content, done>>
ROOTINO == 1
Inum == image.inodes     \* the file that is copied
Fresh(im) == [im EXCEPT !.free = @ + 1, !.disk = (im.free :> [w \in Words |-> 0]) @@ @]

\* The block at place k of the inode, and of the indirect block.
FromDinode(im, inum, k) ==
  LET a == im.dinode[inum].addrs[k]
  IN  IF a # 0 THEN [x |-> a, im |-> im]
      ELSE [x |-> im.free, im |-> [Fresh(im) EXCEPT !.dinode[inum].addrs[k] = im.free]]
FromIndirect(at, k) ==
  LET a == at.im.disk[at.x][k]
  IN  IF a # 0 THEN [at EXCEPT !.x = a]
      ELSE [x |-> at.im.free, im |-> [Fresh(at.im) EXCEPT !.disk[at.x][k] = at.im.free]]
BlockAt(im, inum, fbn) ==
  IF fbn < NDIRECT THEN FromDinode(im, inum, fbn)
  ELSE FromIndirect(FromDinode(im, inum, NDIRECT), fbn - NDIRECT)
RECURSIVE iappend(_, _, _)
iappend(im, inum, words) ==
  LET off == im.dinode[inum].size
      fbn == off \div BSIZE
      first == off % BSIZE
      n1 == Min({Len(words), BSIZE - first})
      at == BlockAt(im, inum, fbn)
      written == [at.im EXCEPT !.dinode[inum].size = off + n1, !.disk[at.x] =
                    [w \in Words |-> IF w \in first .. first + n1 - 1 THEN words[w - first + 1] ELSE @[w]]]
  IN  IF words = <<>> THEN im
      ELSE iappend(written, inum, SubSeq(words, n1 + 1, Len(words)))
ialloc(im) == [im EXCEPT !.inodes = @ + 1, !.dinode[im.inodes + 1] = NoInode]
bitmap(im) == [im EXCEPT !.used = 1 .. im.free - 1]

Blank == [free |-> 1, inodes |-> 0, disk |-> <<>>, dinode |-> [f \in Files |-> NoInode], used |-> {}]
ImageInit ==
  /\ image = iappend(iappend(ialloc(Blank), ROOTINO, <<ROOTINO>>), ROOTINO, <<ROOTINO>>)
  /\ content = [f \in Files |-> <<>>] /\ done = FALSE
NewFile ==
  /\ ~done /\ Inum + 1 \in Files
  /\ image' = iappend(ialloc(image), ROOTINO, <<Inum + 1>>)
  /\ UNCHANGED <<content, done>>
\* Past the indirect block the code writes outside of its array.
Copy ==
  /\ ~done /\ Inum # ROOTINO
  /\ \E cc \in 1 .. BSIZE :
       LET len == Len(content[Inum])
           words == [i \in 1 .. cc |-> 100 * Inum + len + i]
       IN  /\ len + cc <= (NDIRECT + NINDIRECT) * BSIZE
           /\ image' = iappend(image, Inum, words)
           /\ content' = [content EXCEPT ![Inum] = @ \o words]
  /\ UNCHANGED done
Finish ==
  /\ ~done /\ done' = TRUE
  /\ image' = bitmap([image EXCEPT !.dinode[ROOTINO].size = (@ \div BSIZE + 1) * BSIZE])
  /\ UNCHANGED content
ImageNext == NewFile \/ Copy \/ Finish
ImageSpec == ImageInit /\ [][ImageNext]_mvars

-----------------------------------------------------------------------------
Kernel == [Made(image.free) EXCEPT !.disk = image.disk @@ @, !.inode = image.dinode, !.dinode = image.dinode, !.used = image.used]
Entries == <<ROOTINO, ROOTINO>> \o [i \in 1 .. Inum - 1 |-> i + 1]
\* The kernel finds on the image the files that were copied, with their contents; the
\* bitmap has the blocks that it finds in one place each; and all blocks of the root
\* directory are there (ls reads it outside of a transaction), unless its entries
\* fill the last one.
ImageExact ==
  done =>
    /\ \A f \in 2 .. Inum : /\ Kernel.inode[f].size = Len(content[f])
                            /\ \A i \in DOMAIN content[f] : Lookup(Kernel, f, i - 1) = content[f][i]
    /\ \A w \in 0 .. Kernel.inode[ROOTINO].size - 1 :
         Lookup(Kernel, ROOTINO, w) = IF w < Len(Entries) THEN Entries[w + 1] ELSE 0
    /\ LET blocks == FlattenSeq([f \in 1 .. Inum |-> BlocksOf(Kernel, Kernel.inode[f].addrs)])
       IN  IsInjective(blocks) /\ ToSet(blocks) = Kernel.used
    /\ Len(Entries) % BSIZE # 0 =>
         Kernel.inode[ROOTINO].addrs[Kernel.inode[ROOTINO].size \div BSIZE - 1] # 0
=============================================================================
