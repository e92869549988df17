-------------------------------- MODULE Memory --------------------------------
(***************************************************************************)
(* The frames of physical memory of xv6 and the page tables made of them   *)
(* (kalloc.c, vm.c, and their use by fork, exec, growproc and wait).  m is  *)
(* the memory: the free list and what each frame holds, in one word.  A     *)
(* page has PGSIZE = 2 bytes.  An operation that can fail gives ok = FALSE, *)
(* at whichever kalloc finds the list empty.                               *)
(***************************************************************************)
EXTENDS Integers, Sequences, SequencesExt, FiniteSetsExt, TLC
CONSTANTS NFRAMES,
          NPTENTRIES,  \* pages one page table maps
          NPDENTRIES,  \* page tables of the user part; one more is the kernel's
          UINT         \* 2^32 in the code: sizes and addresses wrap there

PGSIZE == 2
KERNBASE == PGSIZE * NPTENTRIES * NPDENTRIES
Pages == 0 .. NPTENTRIES * NPDENTRIES - 1
Page(a) == a \div PGSIZE
RoundUp(a) == Page(a + PGSIZE - 1)
PagesFrom(pg, end) == [i \in 1 .. end - pg |-> pg + i - 1]
PDX(pg) == pg \div NPTENTRIES
PTX(pg) == pg % NPTENTRIES
Kernel == NPDENTRIES
Junk == -1
NoPte == [pa |-> 0, user |-> FALSE]
NoTable == [i \in 0 .. NPTENTRIES - 1 |-> NoPte] \* of zeros
NoDir == [i \in 0 .. Kernel |-> 0]
Booted == [free |-> [i \in 1 .. NFRAMES |-> i], mem |-> [f \in 1 .. NFRAMES |-> Junk], panic |-> FALSE]

kalloc(m) ==
  IF m.free = <<>> THEN [ok |-> FALSE, m |-> m, at |-> 0]
  ELSE [ok |-> TRUE, m |-> [m EXCEPT !.free = Tail(@)], at |-> Head(m.free)]
kfree(m, f) == [m EXCEPT !.free = <<f>> \o @, !.mem[f] = Junk]

\* The page table for a page, allocated if it is missing and alloc holds.
walkpgdir(m, dir, pg, alloc) ==
  LET pde == m.mem[dir][PDX(pg)]
      new == kalloc(m)
  IN  IF pde # 0 THEN [ok |-> TRUE, m |-> m, at |-> pde]
      ELSE IF ~alloc \/ ~new.ok THEN [ok |-> FALSE, m |-> m, at |-> 0]
      ELSE [new EXCEPT !.m.mem[new.at] = NoTable, !.m.mem[dir][PDX(pg)] = new.at]
Pte(m, dir, pg) ==
  LET w == walkpgdir(m, dir, pg, FALSE) IN IF w.ok THEN m.mem[w.at][PTX(pg)] ELSE NoPte
\* The entry that the walk w found becomes pte.
Mapped(w, pg, pte) ==
  IF w.ok THEN [w EXCEPT !.m.mem[w.at][PTX(pg)] = pte,
                         !.m.panic = @ \/ w.m.mem[w.at][PTX(pg)].pa # 0] ELSE w
mappages(m, dir, pg, pte) == Mapped(walkpgdir(m, dir, pg, TRUE), pg, pte)

\* Frees the pages of a range; the page tables stay.
Unmap(m, dir, pg) ==
  LET w == walkpgdir(m, dir, pg, FALSE)
      pa == Pte(m, dir, pg).pa
  IN  IF pa = 0 THEN m ELSE kfree([m EXCEPT !.mem[w.at][PTX(pg)] = NoPte], pa)
deallocuvm(m, dir, oldsz, newsz) ==
  IF newsz >= oldsz THEN [m |-> m, sz |-> oldsz]
  ELSE [m |-> FoldLeft(LAMBDA n, pg : IF pg \in Pages THEN Unmap(n, dir, pg) ELSE n, m,
                       PagesFrom(RoundUp(newsz), RoundUp(oldsz))), sz |-> newsz]
\* The tables of a directory without pages are freed, and the directory.
FreeTables(bare, dir) ==
  kfree(FoldLeft(LAMBDA n, t : IF t = 0 THEN n ELSE kfree(n, t), bare,
                 [i \in 1 .. Kernel + 1 |-> bare.mem[dir][i - 1]]), dir)
freevm(m, dir) == FreeTables(deallocuvm(m, dir, KERNBASE, 0).m, dir)
\* A page directory with the kernel's part, which is one page table here.
MapKernel(dir, table) ==
  IF table.ok THEN [table EXCEPT !.at = dir] ELSE [table EXCEPT !.m = freevm(table.m, dir)]
setupkvm(m) ==
  LET dir == kalloc(m)
  IN  IF ~dir.ok THEN dir
      ELSE MapKernel(dir.at, walkpgdir([dir.m EXCEPT !.mem[dir.at] = NoDir], dir.at,
                                       Kernel * NPTENTRIES, TRUE))

\* A new page with something in it, mapped; what is to be undone when that fails.
MapPage(new, dir, pg, content, user) ==
  mappages([new.m EXCEPT !.mem[new.at] = content], dir, pg, [pa |-> new.at, user |-> user])
\* Mutant: the page that could not be mapped is not freed.
MapNew_leak(m, dir, pg, content, user) ==
  LET new == kalloc(m) IN IF new.ok THEN MapPage(new, dir, pg, content, user) ELSE new
Undone(new, done) == IF done.ok THEN done ELSE [done EXCEPT !.m = kfree(done.m, new.at)]
MapNew(m, dir, pg, content, user) ==
  LET new == kalloc(m)
  IN  IF new.ok THEN Undone(new, MapPage(new, dir, pg, content, user)) ELSE new
Grown(m, dir, oldsz, newsz, done) ==
  IF newsz >= KERNBASE THEN [m |-> m, sz |-> 0]
  ELSE IF newsz < oldsz THEN [m |-> m, sz |-> oldsz]
  ELSE IF done.ok THEN [m |-> done.m, sz |-> newsz]
  ELSE [m |-> deallocuvm(done.m, dir, newsz, oldsz).m, sz |-> 0]
allocuvm(m, dir, oldsz, newsz) ==
  LET Step(r, pg) == IF r.ok THEN MapNew(r.m, dir, pg, 0, TRUE) ELSE r
  IN  Grown(m, dir, oldsz, newsz,
            FoldLeft(Step, [ok |-> TRUE, m |-> m, at |-> 0],
                     PagesFrom(RoundUp(oldsz), RoundUp(newsz))))
clearpteu(m, dir, pg) == [m EXCEPT !.mem[m.mem[dir][PDX(pg)]][PTX(pg)].user = FALSE]
\* A copy for a child, into the new directory of d.
CopyPages(d, dir, sz) ==
  LET Step(r, pg) == LET pte == Pte(r.m, dir, pg)
                     IN  IF r.ok THEN MapNew(r.m, d.at, pg, r.m.mem[pte.pa], pte.user) ELSE r
  IN  FoldLeft(Step, d, PagesFrom(0, RoundUp(sz)))
Copied(d, done) ==
  IF done.ok THEN [done EXCEPT !.at = d.at] ELSE [done EXCEPT !.m = freevm(done.m, d.at)]
CopyInto(m, d, dir, sz) ==
  IF ~d.ok THEN d
  ELSE IF \E pg \in 0 .. RoundUp(sz) - 1 : Pte(m, dir, pg).pa = 0 THEN [d EXCEPT !.m.panic = TRUE]
  ELSE Copied(d, CopyPages(d, dir, sz))
copyuvm(m, dir, sz) == CopyInto(m, setupkvm(m), dir, sz)

-----------------------------------------------------------------------------
\* The calls of a process p = [dir, sz, kstack].  growproc gives -1 also when the
\* size becomes 0: the pages are gone, and the size stays.
NewSize(r, p) ==
  IF r.sz = 0 THEN [ok |-> FALSE, m |-> r.m, p |-> p]
  ELSE [ok |-> TRUE, m |-> r.m, p |-> [p EXCEPT !.sz = r.sz]]
growproc(m, p, n) ==
  NewSize(IF n > 0 THEN allocuvm(m, p.dir, p.sz, (p.sz + n) % UINT)
          ELSE deallocuvm(m, p.dir, p.sz, (p.sz + n) % UINT), p)
Child(p, stack, d) ==
  IF d.ok THEN [ok |-> TRUE, m |-> d.m, p |-> [dir |-> d.at, sz |-> p.sz, kstack |-> stack.at]]
  ELSE [ok |-> FALSE, m |-> kfree(d.m, stack.at), p |-> p]
fork(m, p) ==
  LET stack == kalloc(m)
  IN  IF stack.ok THEN Child(p, stack, copyuvm(stack.m, p.dir, p.sz))
      ELSE [ok |-> FALSE, m |-> m, p |-> p]
\* exec of a program of n bytes: its pages, a guard and a stack.
AddStack(p, d, top, stack) ==
  IF stack.sz = 0 THEN [ok |-> FALSE, m |-> freevm(stack.m, d.at), p |-> p]
  ELSE [ok |-> TRUE, m |-> freevm(clearpteu(stack.m, d.at, Page(top)), p.dir),
        p |-> [p EXCEPT !.dir = d.at, !.sz = stack.sz]]
Load(p, d, text) ==
  LET top == PGSIZE * RoundUp(text.sz)
  IN  IF text.sz = 0 THEN [ok |-> FALSE, m |-> freevm(text.m, d.at), p |-> p]
      ELSE AddStack(p, d, top, allocuvm(text.m, d.at, top, top + 2 * PGSIZE))
ExecInto(p, d, n) ==
  IF d.ok THEN Load(p, d, allocuvm(d.m, d.at, 0, n)) ELSE [ok |-> FALSE, m |-> d.m, p |-> p]
exec(m, p, n) == ExecInto(p, setupkvm(m), n)
\* wait reaps it.
Reap(m, p) == freevm(kfree(m, p.kstack), p.dir)
\* userinit: one page of code.
userinit(m) ==
  LET stack == kalloc(m)
      d == setupkvm(stack.m)
  IN  [m |-> MapNew(d.m, d.at, 0, 0, TRUE).m, p |-> [dir |-> d.at, sz |-> PGSIZE, kstack |-> stack.at]]

-----------------------------------------------------------------------------
(***************************************************************************)
(* Processes that grow, shrink, fork, exec, write and exit, next to what   *)
(* each should find in its pages: user[p] is a sequence of page contents.  *)
(***************************************************************************)
CONSTANTS Procs, First, TAKEN,
          GROWTH,               \* by how much sbrk changes the size
          CHANGES               \* how many calls there are
VARIABLES k,     \* the kernel: [m, proc]
          user
mvars == <<k, user>>
NoProc == [dir |-> 0, sz |-> 0, kstack |-> 0]
Guard == -2   \* what is in the guard page does not matter
\* Some of the frames, taken, are in other hands.
MInit ==
  \E n \in TAKEN :
    LET u == userinit([Booted EXCEPT !.free = SubSeq(@, n + 1, NFRAMES)])
    IN  k = [m |-> u.m, proc |-> [p \in Procs |-> IF p = First THEN u.p ELSE NoProc],
             calls |-> 0, taken |-> n]
        /\ user = [p \in Procs |-> IF p = First THEN <<0>> ELSE <<>>]
Alive(p) == k.proc[p].dir # 0
Done(r, p) == k' = [k EXCEPT !.m = r.m, !.proc[p] = r.p, !.calls = @ + 1]
More == k.calls < CHANGES /\ ~k.m.panic
Resized(c, n) == [i \in 1 .. n |-> IF i <= Len(c) THEN c[i] ELSE 0]
Sbrk(p, n) ==
  /\ Alive(p) /\ More /\ user[p] # <<>>
  /\ \E r \in {growproc(k.m, k.proc[p], n)} :
       /\ Done(r, p)
       /\ user' = [user EXCEPT ![p] = IF r.ok THEN Resized(@, RoundUp(r.p.sz))
                                      ELSE IF k.proc[p].sz + n = 0 THEN <<>> ELSE @]
Fork(p, c) ==
  /\ Alive(p) /\ ~Alive(c) /\ More /\ user[p] # <<>>
  /\ \E r \in {fork(k.m, k.proc[p])} :
       /\ k' = [k EXCEPT !.m = r.m, !.proc[c] = IF r.ok THEN r.p ELSE @, !.calls = @ + 1]
       /\ user' = IF r.ok THEN [user EXCEPT ![c] = user[p]] ELSE user
Exec(p, n) ==
  /\ Alive(p) /\ More /\ user[p] # <<>>
  /\ \E r \in {exec(k.m, k.proc[p], n)} :
       /\ Done(r, p)
       /\ user' = IF r.ok THEN [user EXCEPT ![p] = [i \in 1 .. RoundUp(n) + 2 |-> IF i = RoundUp(n) + 1 THEN Guard ELSE 0]]
                  ELSE user
Exit(p) ==
  /\ Alive(p) /\ p # First /\ ~k.m.panic
  /\ k' = [k EXCEPT !.m = Reap(k.m, k.proc[p]), !.proc[p] = NoProc]
  /\ user' = [user EXCEPT ![p] = <<>>]
Store(p, i) ==
  /\ Alive(p) /\ user[p][i] = 0 /\ More
  /\ k' = [k EXCEPT !.m.mem[Pte(k.m, k.proc[p].dir, i - 1).pa] = p, !.calls = @ + 1]
  /\ user' = [user EXCEPT ![p][i] = p]
MNext ==
  \E p \in Procs :
    \/ \E n \in GROWTH : Sbrk(p, n)
    \/ \E c \in Procs : Fork(p, c)
    \/ \E n \in {1, 3} : Exec(p, n)
    \/ Exit(p)
    \/ \E i \in DOMAIN user[p] : Store(p, i)
MSpec == MInit /\ [][MNext]_mvars
-----------------------------------------------------------------------------
\* The frames a process holds: its kernel stack, directory, tables and pages.
Held(p) ==
  LET dir == k.m.mem[k.proc[p].dir]
      tables == SelectSeq([i \in 1 .. Kernel + 1 |-> dir[i - 1]], LAMBDA t : t # 0)
      PagesOf(t) == [i \in 1 .. NPTENTRIES |-> k.m.mem[t][i - 1].pa]
  IN  IF ~Alive(p) THEN <<>>
      ELSE <<k.proc[p].kstack, k.proc[p].dir>> \o tables
           \o SelectSeq(FlattenSeq([i \in DOMAIN tables |-> PagesOf(tables[i])]), LAMBDA f : f # 0)
\* Every frame is in one place, once: in the free list or in one process, also after
\* kalloc failed in the middle of fork, exec or sbrk.
FramesOnce ==
  LET all == k.m.free \o FlattenSeq([i \in 1 .. Cardinality(Procs) |-> Held(SetToSeq(Procs)[i])])
  IN  Len(all) = NFRAMES - k.taken /\ IsInjective(all) /\ ~k.m.panic
\* A process finds in its pages what it wrote, zeros in new ones, and in those of
\* its parent a copy; the guard below the stack stays out of its reach.
MemoryExact ==
  \A p \in Procs : Alive(p) =>
    \A pg \in Pages :
      LET pte == Pte(k.m, k.proc[p].dir, pg)
      IN  IF pg + 1 \in DOMAIN user[p]
          THEN IF user[p][pg + 1] = Guard THEN ~pte.user /\ pte.pa # 0
               ELSE pte.user /\ k.m.mem[pte.pa] = user[p][pg + 1]
          ELSE pte.pa = 0

-----------------------------------------------------------------------------
(***************************************************************************)
(* How the kernel reaches the memory of a process: the arguments of a      *)
(* system call (syscall.c), and copyout, loaduvm and inituvm (vm.c), page  *)
(* by page through the page table.  pages is the page table: the frame of  *)
(* each page that is there, and whether the user may reach it.             *)
(***************************************************************************)
CONSTANTS WORD,       \* characters of an integer
          UserFrames
Addresses == 0 .. UINT - 1
U(x) == x % UINT
PGROUNDDOWN(va) == va - (va % PGSIZE)
Failed == [ok |-> FALSE, value |-> 0]
Fetched(v) == [ok |-> TRUE, value |-> v]

IntOK(sz, addr) == ~(addr >= sz \/ U(addr + WORD) > sz)
\* The length of the string at addr; At[a] is the character at a.
fetchstr(sz, addr, At) ==
  LET ends == {a \in addr .. sz - 1 : At[a] = 0}
  IN  IF addr >= sz \/ ends = {} THEN Failed ELSE Fetched(Min(ends) - addr)
argptr(sz, i, size) == ~(size < 0 \/ i >= sz \/ U(i + size) > sz)

\* Where the page of va is, if it may be used.  t = [tables, frames] has the page tables
\* there are, to which walkpgdir adds a missing one while there are free frames; if there
\* are none the pointer that is read is null.
uva2ka(pages, t, va) ==
  LET there == PDX(Page(va)) \in t.tables \/ PDX(Page(va)) >= Kernel
  IN  [null |-> ~there /\ t.frames = 0,
       frame |-> IF Page(va) \in DOMAIN pages /\ pages[Page(va)].user THEN pages[Page(va)].frame ELSE 0,
       t |-> IF there \/ t.frames = 0 THEN t
             ELSE [tables |-> t.tables \cup {PDX(Page(va))}, frames |-> t.frames - 1]]
Place(frame, offset) == <<frame, offset>>
Stored(m, f, offset, data) ==
  [x \in DOMAIN m |-> IF x[1] = f /\ x[2] \in offset .. offset + Len(data) - 1 THEN data[x[2] - offset + 1] ELSE m[x]]
RECURSIVE copyout(_, _, _, _, _)
\* copyout of the characters data to va, into the memory mem of the frames.
copyout(pages, t, mem, va, data) ==
  LET va0 == PGROUNDDOWN(va)
      n == Min({PGSIZE - (va - va0), Len(data)})
      at == uva2ka(pages, t, va0)
  IN  IF data = <<>> THEN [ok |-> TRUE, null |-> FALSE, mem |-> mem, t |-> t]
      ELSE IF at.frame = 0 THEN [ok |-> FALSE, null |-> at.null, mem |-> mem, t |-> at.t]
      ELSE copyout(pages, at.t, Stored(mem, at.frame, va - va0, SubSeq(data, 1, n)),
                   U(va0 + PGSIZE), SubSeq(data, n + 1, Len(data)))
\* loaduvm of a segment of the file to a page boundary; every page is there.
RECURSIVE loaduvm(_, _, _, _)
loaduvm(pages, mem, addr, segment) ==
  LET n == Min({PGSIZE, Len(segment)})
      f == pages[addr \div PGSIZE].frame
  IN  IF segment = <<>> THEN mem
      ELSE loaduvm(pages, Stored(mem, f, 0, SubSeq(segment, 1, n)), addr + PGSIZE, SubSeq(segment, n + 1, Len(segment)))

-----------------------------------------------------------------------------
(***************************************************************************)
(* Page tables that grow and lose their user pages; every address is tried *)
(* with every length.                                                      *)
(***************************************************************************)
VARIABLES sz, pages
uvars == <<sz, pages>>
UInit == sz = 0 /\ pages = <<>>
Grow ==
  /\ sz < UINT \div 2
  /\ \E n \in 1 .. PGSIZE, f \in UserFrames :
       LET p == Cardinality(DOMAIN pages) IN
       /\ sz' = p * PGSIZE + n
       /\ f \notin {pages[q].frame : q \in DOMAIN pages}
       /\ pages' = (p :> [frame |-> f, user |-> TRUE]) @@ pages
GuardPage == \E p \in DOMAIN pages : pages' = [pages EXCEPT ![p].user = FALSE] /\ UNCHANGED sz
UNext == Grow \/ GuardPage
USpec == UInit /\ [][UNext]_uvars

Mem == [x \in UserFrames \X (0 .. PGSIZE - 1) |-> 0]
Data(n) == [i \in 1 .. n |-> i]
Whole(from, n, reach) == from + n <= reach
\* The tests of the arguments let through what lies in the process, whole, and the
\* string ends in it.
ArgsExact ==
  \A a \in Addresses :
    /\ IntOK(sz, a) = Whole(a, WORD, sz)
    /\ \A n \in -1 .. UINT \div 2 - 1 : argptr(sz, a, n) = (n >= 0 /\ a < sz /\ Whole(a, n, sz))
    /\ \A z \in Addresses :
         fetchstr(sz, a, [b \in Addresses |-> IF b = z THEN 0 ELSE 1]) = IF a <= z /\ z < sz THEN Fetched(z - a) ELSE Failed
\* A copy changes exactly the characters from va on, through whatever frames; it fails
\* at a page that is not the user's, and then has copied what comes before.  It adds a
\* page table only for the page where it fails, and reads a null pointer only there,
\* when no frame is left for the table.  exec puts a segment where its addresses are.
CopyExact ==
  /\ \A va \in Addresses, n \in 0 .. 2 * PGSIZE + 1, frames \in 0 .. 1 :
       LET t == [tables |-> {PDX(p) : p \in DOMAIN pages}, frames |-> frames]
           r == copyout(pages, t, Mem, va, Data(n))
           User(i) == LET p == Page(U(va + i - 1)) IN p \in DOMAIN pages /\ pages[p].user
           copied == {i \in 1 .. n : \A j \in 1 .. i : User(j)}
           end == PDX(Page(U(va + Cardinality(copied))))
           bare == copied # 1 .. n /\ end \notin t.tables /\ end < Kernel
       IN  /\ r.ok = (copied = 1 .. n)
           /\ r.null = (bare /\ frames = 0)
           /\ r.t.tables = t.tables \cup (IF bare /\ frames > 0 THEN {end} ELSE {})
           /\ \A x \in DOMAIN Mem :
                LET here == {i \in copied : Place(pages[Page(U(va + i - 1))].frame, U(va + i - 1) % PGSIZE) = x}
                IN  r.mem[x] = IF here = {} THEN 0 ELSE Max(here)
  /\ \A p \in DOMAIN pages : \A n \in 0 .. (Cardinality(DOMAIN pages) - p) * PGSIZE :
       LET m == loaduvm(pages, Mem, p * PGSIZE, Data(n))
       IN  \A a \in 0 .. Cardinality(DOMAIN pages) * PGSIZE - 1 :
             m[Place(pages[a \div PGSIZE].frame, a % PGSIZE)] = IF a - p * PGSIZE \in 0 .. n - 1 THEN a - p * PGSIZE + 1 ELSE 0
=============================================================================
