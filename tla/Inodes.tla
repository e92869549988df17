-------------------------------- MODULE Inodes --------------------------------
(***************************************************************************)
(* Inodes and directories of xv6 (fs.c) under the calls of sysfile.c, made *)
(* by several processes at a time.  A step runs from one acquisition of an *)
(* inode's sleep lock to the next place where the process can wait; what   *)
(* icache.lock or a buffer protects is one step.  Contents of directories  *)
(* are functions from names to inode numbers; contents of files, the log   *)
(* and the entries . and .. are left out.                                  *)
(***************************************************************************)
EXTENDS Integers, Sequences, FiniteSets, FiniteSetsExt, TLC
CONSTANTS Procs, Names, NINODES, Trees,
          NINODE,    \* slots of the inode cache
          Paths,     \* the paths calls are made with
          Starting,  \* where they start: "root" or "cwd"
          CALLS,     \* how many each process makes
          None
VARIABLES
  disk,      \* dinode of each inode number, and its directory contents
  icache,    \* the cached inodes
  cwd, open, \* the slots of each process: its directory and its open file
  pc,        \* the call each process is in
  calls,     \* how many calls each has begun
  lost       \* for the properties: inodes whose last directory was freed
vars == <<disk, icache, cwd, open, pc, calls, lost>>

ASSUME InodesAssumption == NINODES \in Nat /\ NINODE \in Nat /\ NINODES >= 1

ROOTINO == 1
Inums == 1 .. NINODES
Slots == 1 .. NINODE
T_DIR == "dir"
T_FILE == "file"
NoType == "none"
NoEntries == [n \in Names |-> 0]
dinode(type, nlink) == [type |-> type, nlink |-> nlink, entry |-> NoEntries]
Unused == [inum |-> 0, ref |-> 0, valid |-> FALSE, lock |-> None, type |-> NoType, nlink |-> 0]
\* at is where the process is; ip, dp, old and put are inodes it has references to.
Idle == [at |-> "idle", call |-> None, path |-> <<>>, target |-> <<>>, from |-> "root",
         name |-> None, inum |-> 0, ip |-> None, dp |-> None, old |-> None, put |-> None,
         then |-> None]

\* The file system: the root, and perhaps a directory and a file in one of the two
\* (Trees: what the path of the file is).
FileSystem(path) ==
  LET new == [i \in Inums |-> IF i = ROOTINO THEN dinode(T_DIR, 1) ELSE dinode(NoType, 0)]
      With(fs, dir, name, inum, type) ==
        [fs EXCEPT ![dir].entry[name] = inum, ![dir].nlink = IF type = T_DIR THEN @ + 1 ELSE @,
                   ![inum] = dinode(type, 1)]
  IN  CASE path = <<>> -> new
        [] Len(path) = 1 -> With(new, ROOTINO, path[1], 2, T_FILE)
        [] OTHER -> With(With(new, ROOTINO, path[1], 2, T_DIR), 2, path[2], 3, T_FILE)
Init ==
  /\ \E path \in Trees : disk = FileSystem(path)
  /\ icache = [s \in Slots |->
                 IF s = 1 THEN [Unused EXCEPT !.inum = ROOTINO, !.ref = Cardinality(Procs)]
                 ELSE Unused]
  /\ cwd = [p \in Procs |-> 1]
  /\ open = [p \in Procs |-> None]
  /\ pc = [p \in Procs |-> Idle]
  /\ calls = [p \in Procs |-> 0]
  /\ lost = {}

-----------------------------------------------------------------------------
\* The cache.  iget: the entry of inum, or the first free one for it.
Cached(c, inum) == {s \in Slots : c[s].ref > 0 /\ c[s].inum = inum}
Empty(c) == {s \in Slots : c[s].ref = 0}
Entry(c, inum) == IF Cached(c, inum) # {} THEN Min(Cached(c, inum)) ELSE Min(Empty(c))
iget(c, inum) ==
  LET s == Entry(c, inum)
  IN  [c EXCEPT ![s] = IF @.ref > 0 THEN [@ EXCEPT !.ref = @ + 1]
                       ELSE [@ EXCEPT !.inum = inum, !.ref = 1, !.valid = FALSE]]
idup(c, s) == [c EXCEPT ![s].ref = @ + 1]
Unlocked(s) == icache[s].lock = None
ilock(c, s, p) ==
  [c EXCEPT ![s] = IF @.valid THEN [@ EXCEPT !.lock = p]
                   ELSE [@ EXCEPT !.lock = p, !.valid = TRUE, !.type = disk[c[s].inum].type,
                                  !.nlink = disk[c[s].inum].nlink]]
iunlock(c, s) == [c EXCEPT ![s].lock = None]
\* nlink of an inode is changed in the cache and, with iupdate, on the disk.
AddLink(c, s, n) == [c EXCEPT ![s].nlink = @ + n]
iupdate(d, c, s) == [d EXCEPT ![c[s].inum] = [@ EXCEPT !.type = c[s].type, !.nlink = c[s].nlink]]
dirlookup(c, s, name) == disk[c[s].inum].entry[name]
SetEntry(d, c, s, name, inum) == [d EXCEPT ![c[s].inum].entry[name] = inum]
isdirempty(inum) == disk[inum].entry = NoEntries

Set(p, r) == pc' = [pc EXCEPT ![p] = r]
\* Goes on to iput(s), with r afterwards.
Put(p, r, s) == Set(p, [r EXCEPT !.at = "iput", !.put = s, !.then = r.at])
To(r, label) == [r EXCEPT !.at = label]
\* The call is over, when the last reference has been put.
Over(p, s) == Put(p, Idle, s)

-----------------------------------------------------------------------------
\* iput.  The count is read under icache.lock, the inode is freed after that.
\* Mutant: the other references are not looked at.
Iput_any(p) ==
  LET r == pc[p]
      e == icache[r.put]
      last == e.valid /\ e.nlink = 0
  IN  /\ r.at = "iput" /\ Unlocked(r.put)
      /\ icache' = IF last THEN [icache EXCEPT ![r.put].lock = p] ELSE icache
      /\ Set(p, To(r, IF last THEN "itrunc" ELSE "unref"))
      /\ UNCHANGED <<disk, cwd, open, calls, lost>>
Iput(p) ==
  LET r == pc[p]
      e == icache[r.put]
      last == e.valid /\ e.nlink = 0 /\ e.ref = 1
  IN  /\ r.at = "iput" /\ Unlocked(r.put)
      /\ icache' = IF last THEN [icache EXCEPT ![r.put].lock = p] ELSE icache
      /\ Set(p, To(r, IF last THEN "itrunc" ELSE "unref"))
      /\ UNCHANGED <<disk, cwd, open, calls, lost>>
Itrunc(p) ==
  LET r == pc[p]
      inum == icache[r.put].inum
  IN  /\ r.at = "itrunc"
      /\ lost' = ((lost \ {inum}) \cup {disk[inum].entry[n] : n \in Names}) \ {0}
      /\ disk' = [disk EXCEPT ![inum] = dinode(NoType, 0)]
      /\ icache' = [icache EXCEPT ![r.put] = [@ EXCEPT !.lock = None, !.valid = FALSE, !.type = NoType]]
      /\ Set(p, To(r, "unref"))
      /\ UNCHANGED <<cwd, open, calls>>
Unref(p) ==
  LET r == pc[p]
  IN  /\ r.at = "unref"
      /\ icache' = [icache EXCEPT ![r.put].ref = @ - 1]
      /\ Set(p, [r EXCEPT !.at = r.then, !.put = None, !.then = None])
      /\ UNCHANGED <<disk, cwd, open, calls, lost>>

-----------------------------------------------------------------------------
\* namex.
OnParent(call) == call \in {"create", "mkdir", "unlink", "link new"}
\* From where, for which call, with the rest of the registers as in r.
StartPath(p, c, r, call, path, from) ==
  LET s == IF from = "root" THEN Entry(c, ROOTINO) ELSE cwd[p]
  IN  /\ icache' = IF from = "root" THEN iget(c, ROOTINO) ELSE idup(c, s)
      /\ Set(p, [r EXCEPT !.at = "namex", !.call = call, !.path = path, !.from = from, !.ip = s])
\* namex gives up: the call fails, and link takes its count back.
Failed(r) == IF r.call = "link new" THEN [To(r, "bad") EXCEPT !.ip = None] ELSE Idle
Namex(p) ==
  LET r == pc[p]
      c == ilock(icache, r.ip, p)
      free == iunlock(c, r.ip)
      inum == dirlookup(c, r.ip, Head(r.path))
      next == Entry(free, inum)
      \* the path that is left, or the call that has what it looked for
      rest == [r EXCEPT !.path = Tail(@), !.at = IF Len(r.path) = 1 THEN r.call ELSE "namex"]
  IN  /\ r.at = "namex" /\ Unlocked(r.ip)
      /\ CASE c[r.ip].type = T_FILE -> Put(p, Failed(r), r.ip) /\ icache' = free
           [] c[r.ip].type = T_DIR /\ OnParent(r.call) /\ Len(r.path) = 1 ->
                /\ Set(p, [rest EXCEPT !.dp = r.ip, !.ip = None, !.name = Head(r.path)])
                /\ icache' = free
           [] OTHER -> IF inum = 0 THEN Put(p, Failed(r), r.ip) /\ icache' = free
                       ELSE /\ Put(p, [rest EXCEPT !.ip = next], r.ip)
                            /\ icache' = iget(free, inum)
      /\ UNCHANGED <<disk, cwd, open, calls, lost>>

-----------------------------------------------------------------------------
\* open of a path, for writing or not.  A process has room for one open file.
Opened(p, c, s) ==
  IF open[p] = None
  THEN open' = [open EXCEPT ![p] = s] /\ icache' = iunlock(c, s) /\ Set(p, Idle)
  ELSE open' = open /\ icache' = iunlock(c, s) /\ Over(p, s)
SysOpen(p) ==
  LET r == pc[p]
      c == ilock(icache, r.ip, p)
  IN  /\ r.at = "open" /\ Unlocked(r.ip)
      /\ \/ Opened(p, c, r.ip)
         \/ /\ c[r.ip].type = T_DIR
            /\ icache' = iunlock(c, r.ip) /\ Over(p, r.ip) /\ UNCHANGED open
      /\ UNCHANGED <<disk, cwd, calls, lost>>
SysClose(p) ==
  /\ pc[p].at = "idle" /\ calls[p] < CALLS /\ open[p] # None
  /\ calls' = [calls EXCEPT ![p] = @ + 1]
  /\ Over(p, open[p])
  /\ open' = [open EXCEPT ![p] = None]
  /\ UNCHANGED <<disk, icache, cwd, lost>>
SysChdir(p) ==
  LET r == pc[p]
      c == ilock(icache, r.ip, p)
  IN  /\ r.at = "chdir" /\ Unlocked(r.ip)
      /\ icache' = iunlock(c, r.ip)
      /\ IF c[r.ip].type = T_DIR THEN Put(p, To(r, "set cwd"), cwd[p]) ELSE Over(p, r.ip)
      /\ UNCHANGED <<disk, cwd, open, calls, lost>>
SetCwd(p) ==
  /\ pc[p].at = "set cwd"
  /\ cwd' = [cwd EXCEPT ![p] = pc[p].ip]
  /\ Set(p, Idle)
  /\ UNCHANGED <<disk, icache, open, calls, lost>>

-----------------------------------------------------------------------------
\* create, for open with O_CREATE and for mkdir: the directory is kept locked
\* until the new inode is in it.
CreateIn(p) ==
  LET r == pc[p]
      c == ilock(icache, r.dp, p)
      inum == dirlookup(c, r.dp, r.name)
      free == iunlock(c, r.dp)
      ip == Entry(free, inum)
  IN  /\ r.at \in {"create", "mkdir"} /\ Unlocked(r.dp)
      /\ IF inum # 0
         THEN /\ icache' = iget(free, inum)
              /\ Put(p, [To(r, "found") EXCEPT !.ip = ip, !.dp = None], r.dp)
         ELSE icache' = c /\ Set(p, To(r, "ialloc"))
      /\ UNCHANGED <<disk, cwd, open, calls, lost>>
CreateFound(p) ==
  LET r == pc[p]
      c == ilock(icache, r.ip, p)
  IN  /\ r.at = "found" /\ Unlocked(r.ip)
      /\ IF c[r.ip].type = T_FILE /\ r.call = "create"
         THEN icache' = c /\ Set(p, To(r, "created"))
         ELSE icache' = iunlock(c, r.ip) /\ Over(p, r.ip)
      /\ UNCHANGED <<disk, cwd, open, calls, lost>>
\* ialloc marks the inode on the disk, and gets an entry of the cache for it.
FreeInums == {i \in Inums : disk[i].type = NoType}
Ialloc(p) ==
  LET r == pc[p]
  IN  /\ r.at = "ialloc" /\ FreeInums # {}
      /\ disk' = [disk EXCEPT ![Min(FreeInums)] =
                    dinode(IF r.call = "mkdir" THEN T_DIR ELSE T_FILE, 0)]
      /\ Set(p, [To(r, "iget") EXCEPT !.inum = Min(FreeInums)])
      /\ UNCHANGED <<icache, cwd, open, calls, lost>>
IgetNew(p) ==
  LET r == pc[p]
  IN  /\ r.at = "iget"
      /\ icache' = iget(icache, r.inum)
      /\ Set(p, [To(r, "new") EXCEPT !.ip = Entry(icache, r.inum), !.inum = 0])
      /\ UNCHANGED <<disk, cwd, open, calls, lost>>
CreateNew(p) ==
  LET r == pc[p]
      locked == ilock(icache, r.ip, p)
      c == [locked EXCEPT ![r.ip].nlink = 1,
                          ![r.dp].nlink = IF r.call = "mkdir" THEN @ + 1 ELSE @]
      inum == c[r.ip].inum
  IN  /\ r.at = "new" /\ Unlocked(r.ip)
      /\ disk' = SetEntry(iupdate(iupdate(disk, c, r.ip), c, r.dp), c, r.dp, r.name, inum)
      /\ icache' = iunlock(c, r.dp)
      /\ Put(p, [To(r, "created") EXCEPT !.dp = None], r.dp)
      /\ UNCHANGED <<cwd, open, calls, lost>>
Created(p) ==
  LET r == pc[p]
  IN  /\ r.at = "created"
      /\ IF r.call = "mkdir" THEN icache' = iunlock(icache, r.ip) /\ Over(p, r.ip) /\ UNCHANGED open
         ELSE Opened(p, icache, r.ip)
      /\ UNCHANGED <<disk, cwd, calls, lost>>

-----------------------------------------------------------------------------
\* link: the count goes up before the entry is made, and down again if that fails.
\* Mutant: the count goes up without iupdate.
LinkOld_unsaved(p) ==
  LET r == pc[p]
      locked == ilock(icache, r.ip, p)
      c == AddLink(locked, r.ip, 1)
  IN  /\ r.at = "link" /\ Unlocked(r.ip)
      /\ IF c[r.ip].type = T_DIR
         THEN icache' = iunlock(locked, r.ip) /\ Over(p, r.ip)
         ELSE StartPath(p, iunlock(c, r.ip), [r EXCEPT !.old = r.ip], "link new", r.target, r.from)
      /\ UNCHANGED <<disk, cwd, open, calls, lost>>
LinkOld(p) ==
  LET r == pc[p]
      locked == ilock(icache, r.ip, p)
      c == AddLink(locked, r.ip, 1)
  IN  /\ r.at = "link" /\ Unlocked(r.ip)
      /\ IF c[r.ip].type = T_DIR
         THEN icache' = iunlock(locked, r.ip) /\ Over(p, r.ip) /\ UNCHANGED disk
         ELSE /\ disk' = iupdate(disk, c, r.ip)
              /\ StartPath(p, iunlock(c, r.ip), [r EXCEPT !.old = r.ip], "link new", r.target, r.from)
      /\ UNCHANGED <<cwd, open, calls, lost>>
\* dirlink looks the name up first, and puts what it finds with dp still locked.
LinkNew(p) ==
  LET r == pc[p]
      c == ilock(icache, r.dp, p)
      inum == dirlookup(c, r.dp, r.name)
  IN  /\ r.at = "link new" /\ Unlocked(r.dp)
      /\ IF inum # 0
         THEN icache' = iget(c, inum) /\ Put(p, To(r, "exists"), Entry(c, inum)) /\ UNCHANGED disk
         ELSE /\ disk' = SetEntry(disk, c, r.dp, r.name, c[r.old].inum)
              /\ icache' = iunlock(c, r.dp)
              /\ Put(p, [To(r, "linked") EXCEPT !.dp = None], r.dp)
      /\ UNCHANGED <<cwd, open, calls, lost>>
LinkExists(p) ==
  LET r == pc[p]
  IN  /\ r.at = "exists"
      /\ icache' = iunlock(icache, r.dp)
      /\ Put(p, [To(r, "bad") EXCEPT !.dp = None], r.dp)
      /\ UNCHANGED <<disk, cwd, open, calls, lost>>
Linked(p) ==
  /\ pc[p].at = "linked"
  /\ Over(p, pc[p].old)
  /\ UNCHANGED <<disk, icache, cwd, open, calls, lost>>
LinkBad(p) ==
  LET r == pc[p]
      c == AddLink(ilock(icache, r.old, p), r.old, -1)
  IN  /\ r.at = "bad" /\ Unlocked(r.old)
      /\ disk' = iupdate(disk, c, r.old)
      /\ icache' = iunlock(c, r.old)
      /\ Over(p, r.old)
      /\ UNCHANGED <<cwd, open, calls, lost>>

\* unlink: the directory stays locked while it waits for the inode.
UnlinkIn(p) ==
  LET r == pc[p]
      c == ilock(icache, r.dp, p)
      inum == dirlookup(c, r.dp, r.name)
  IN  /\ r.at = "unlink" /\ Unlocked(r.dp)
      /\ IF inum = 0 THEN icache' = iunlock(c, r.dp) /\ Over(p, r.dp)
         ELSE icache' = iget(c, inum) /\ Set(p, [To(r, "unlink ip") EXCEPT !.ip = Entry(c, inum)])
      /\ UNCHANGED <<disk, cwd, open, calls, lost>>
UnlinkIp(p) ==
  LET r == pc[p]
      c == ilock(icache, r.ip, p)
      dir == c[r.ip].type = T_DIR
      less == IF dir THEN AddLink(c, r.dp, -1) ELSE c
  IN  /\ r.at = "unlink ip" /\ Unlocked(r.ip)
      /\ IF dir /\ ~isdirempty(c[r.ip].inum)
         THEN /\ icache' = iunlock(c, r.ip) /\ UNCHANGED disk
              /\ Put(p, [To(r, "unlink bad") EXCEPT !.ip = None], r.ip)
         ELSE /\ disk' = SetEntry(iupdate(disk, less, r.dp), c, r.dp, r.name, 0)
              /\ icache' = iunlock(less, r.dp)
              /\ Put(p, [To(r, "unlink nlink") EXCEPT !.dp = None], r.dp)
      /\ UNCHANGED <<cwd, open, calls, lost>>
UnlinkBad(p) ==
  /\ pc[p].at = "unlink bad"
  /\ icache' = iunlock(icache, pc[p].dp)
  /\ Over(p, pc[p].dp)
  /\ UNCHANGED <<disk, cwd, open, calls, lost>>
UnlinkNlink(p) ==
  LET ip == pc[p].ip
      c == AddLink(icache, ip, -1)
  IN  /\ pc[p].at = "unlink nlink"
      /\ disk' = iupdate(disk, c, ip)
      /\ icache' = iunlock(c, ip)
      /\ Over(p, ip)
      /\ UNCHANGED <<cwd, open, calls, lost>>

-----------------------------------------------------------------------------
Call(p) ==
  /\ pc[p].at = "idle" /\ calls[p] < CALLS
  /\ calls' = [calls EXCEPT ![p] = @ + 1]
  /\ \E path \in Paths, from \in Starting :
       \/ \E call \in {"open", "chdir", "create", "mkdir", "unlink"} :
            StartPath(p, icache, Idle, call, path, from)
       \/ \E to \in Paths \ {path} :
            StartPath(p, icache, [Idle EXCEPT !.target = to], "link", path, from)
  /\ UNCHANGED <<disk, cwd, open, lost>>

Step(p) ==
  \/ Call(p) \/ SysClose(p) \/ Iput(p) \/ Itrunc(p) \/ Unref(p) \/ Namex(p)
  \/ SysOpen(p) \/ SysChdir(p) \/ SetCwd(p)
  \/ CreateIn(p) \/ CreateFound(p) \/ Ialloc(p) \/ IgetNew(p) \/ CreateNew(p) \/ Created(p)
  \/ LinkOld(p) \/ LinkNew(p) \/ LinkExists(p) \/ Linked(p) \/ LinkBad(p)
  \/ UnlinkIn(p) \/ UnlinkIp(p) \/ UnlinkBad(p) \/ UnlinkNlink(p)
Next == \E p \in Procs : Step(p)
Spec == Init /\ [][Next]_vars

-----------------------------------------------------------------------------
\* What each process has a reference to, and what it has locked.
Registers == {"ip", "dp", "old", "put"}
References(s) ==
  Cardinality({p \in Procs : cwd[p] = s /\ pc[p].then # "set cwd" /\ pc[p].at # "set cwd"})
  + Cardinality({p \in Procs : open[p] = s})
  + Cardinality({<<p, x>> \in Procs \X Registers : pc[p][x] = s})
Stage(r) == IF r.at \in {"iput", "itrunc", "unref"} THEN r.then ELSE r.at
HasLocked(p) ==
  LET r == pc[p]
  IN  {s \in Slots :
        \/ s = r.put /\ r.at = "itrunc"
        \/ s = r.dp /\ Stage(r) \in {"ialloc", "iget", "new", "unlink ip", "exists", "unlink bad"}
        \/ s = r.ip /\ Stage(r) \in {"created", "unlink nlink"}}
Used == {s \in Slots : icache[s].ref > 0}
\* The inode a process is about to lock.
Wanted(r) ==
  CASE r.at \in {"namex", "open", "chdir", "found", "new", "link", "unlink ip"} -> r.ip
    [] r.at \in {"create", "mkdir", "link new", "unlink"} -> r.dp
    [] r.at = "bad" -> r.old
    [] r.at = "iput" -> r.put
    [] OTHER -> None

\* Type correctness; an inode is locked exactly by the process that is in the part
\* of a call that has it locked.
InodesTypeOK ==
  /\ \A i \in Inums : /\ disk[i].type \in {T_DIR, T_FILE, NoType} /\ disk[i].nlink \in Nat
                       /\ disk[i].entry \in [Names -> 0 .. NINODES]
  /\ \A s \in Slots : icache[s].lock = None \/ s \in HasLocked(icache[s].lock)
  /\ \A p \in Procs : \A s \in HasLocked(p) : icache[s].lock = p

\* The reference count of a cached inode is the number of pointers to it, in calls
\* at any point, open files and current directories: none leaks, none dangles.
RefsCounted == \A s \in Slots : icache[s].ref = References(s)

\* An inode has one entry of the cache, so that its lock is the lock of the inode,
\* and what is valid there is what the disk has.
CacheCoherent ==
  /\ \A s, u \in Used : s # u => icache[s].inum # icache[u].inum
  /\ \A s \in Used : icache[s].valid =>
       /\ icache[s].type = disk[icache[s].inum].type
       /\ icache[s].nlink = disk[icache[s].inum].nlink

\* The link count of an inode is the number of entries that name it, and of the
\* directories in it if it is one, plus the calls that are between the change of
\* the count and that of the entry.  An inode is lost when a directory it was made
\* in after its removal is freed.
Entries(i) == Cardinality({<<j, n>> \in Inums \X Names : disk[j].entry[n] = i})
Subdirs(i) == {n \in Names : disk[i].entry[n] # 0 /\ disk[disk[i].entry[n]].type = T_DIR}
Between(i) ==
  Cardinality({p \in Procs :
    LET r == pc[p]
        is(s) == s # None /\ icache[s].inum = i
    IN  \/ is(r.old) /\ "linked" \notin {r.at, r.then}
        \/ is(r.ip) /\ "unlink nlink" \in {r.at, r.then}})
LinksCounted ==
  \A i \in Inums \ lost : disk[i].type # NoType =>
    disk[i].nlink = (IF i = ROOTINO THEN 1 ELSE 0) + Entries(i) + Cardinality(Subdirs(i)) + Between(i)

\* No entry names a free inode, and an inode that is freed has no user left but
\* those that are about to give up their reference.
FreedSafely ==
  /\ \A i \in Inums, n \in Names : disk[i].entry[n] # 0 => disk[disk[i].entry[n]].type # NoType
  /\ \A s \in Used : disk[icache[s].inum].type = NoType =>
       References(s) = Cardinality({p \in Procs : pc[p].at = "unref" /\ pc[p].put = s})

\* The last reference to an inode without links frees it: there is no such inode
\* on the disk that nobody refers to.
Reclaimed ==
  \A i \in Inums : disk[i].type # NoType /\ disk[i].nlink = 0 =>
    (\E s \in Used : icache[s].inum = i) \/ \E p \in Procs : pc[p].at = "iget" /\ pc[p].inum = i

\* Concurrent calls do not wait for each other's inodes in a circle.
NoCircle ==
  \A p, q \in Procs : p # q =>
    ~ (Wanted(pc[p]) \in HasLocked(q) /\ Wanted(pc[q]) \in HasLocked(p))

\* ilock never finds an inode without a type, and unlink never one without links.
NoPanic ==
  \A p \in Procs : LET s == Wanted(pc[p]) IN
    /\ s # None /\ pc[p].at # "iput" => disk[icache[s].inum].type # NoType
    /\ pc[p].at = "unlink ip" => disk[icache[s].inum].nlink >= 1

\* The counts of references and of links are exact at any point of any call, and the
\* cache agrees with the disk.
CountsExact == InodesTypeOK /\ RefsCounted /\ LinksCounted /\ CacheCoherent
\* Nothing that is named or used is freed, so that ilock and unlink do not panic.
NothingLost == FreedSafely /\ NoPanic

-----------------------------------------------------------------------------
CONSTANTS a, d
SomePaths == {<<a>>, <<d, a>>, <<d>>}
SomeTrees == {<<>>, <<a>>, <<d, a>>}
Sym == Permutations(Procs)
=============================================================================
