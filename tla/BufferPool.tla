------------------------------ MODULE BufferPool ------------------------------
(***************************************************************************)
(* The buffer pool of the database (buffer_manager.cc) over its data file  *)
(* (disk_space_manager.cc): frames in a doubly linked LRU list, pins, dirty *)
(* flags, and a free list that is kept both in the buffered header page and *)
(* in the file.  Each call is one step: calls are made by one thread, or   *)
(* under buffer_pool_mutex.                                                *)
(***************************************************************************)
EXTENDS Integers, Sequences, SequencesExt, FiniteSetsExt
CONSTANTS num_of_buffer, Values, GROW, MAXPAGE,
          VALUED,       \* the leaves: the pages whose contents callers change
          HELD, PINS    \* how many frames callers keep pinned, and how often each
VARIABLES pool,   \* the frames, their list and the data file
          held,   \* the pins callers have on each frame
          fresh,  \* the pages callers have allocated and not written yet
          left,   \* the frames that db_find and db_update have left pinned
          endless \* whether a walk of get_LRU_index does not end
pvars == <<pool, held, fresh, left, endless>>

Frames == 0 .. num_of_buffer - 1
Pages == 1 .. MAXPAGE
\* A page, in a frame or in the file.  next is free_page_num of the header page
\* 0, and of a node parent_page_num, in which free pages are linked.  num is
\* num_of_page of the header; body stands for all else.
Data(next, body, num) == [next |-> next, body |-> body, num |-> num]
PARENT == 1
Clean == [used |-> FALSE, page |-> 0, dirty |-> FALSE, pinned |-> 0,
          next |-> -1, prev |-> -1, data |-> Data(0, 0, 0)]

-----------------------------------------------------------------------------
Holding(p, n) == {i \in Frames : p.buffer[i].used /\ p.buffer[i].page = n}
Unused(p) == {i \in Frames : ~p.buffer[i].used}

RECURSIVE UnpinnedFrom(_, _)
UnpinnedFrom(b, i) == IF b[i].pinned = 0 THEN i ELSE UnpinnedFrom(b, b[i].next)
get_LRU_index(p) == UnpinnedFrom(p.buffer, p.head)

get_buffer_index(p, n) ==
  CASE Holding(p, n) # {} -> Min(Holding(p, n))
    [] Holding(p, n) = {} /\ Unused(p) # {} -> Min(Unused(p))
    [] OTHER -> get_LRU_index(p)

\* The frame for n is free or holds n, its old page written if it was dirty.
EmptiedFrame(p, n, i) ==
  LET v == p.buffer[i]
  IN  IF v.page = n \/ ~v.used THEN p
      ELSE [p EXCEPT !.buffer[i].used = FALSE, !.buffer[i].dirty = FALSE,
                     !.file = IF v.dirty THEN [@ EXCEPT ![v.page] = v.data] ELSE @]
Emptied(p, n) == EmptiedFrame(p, n, get_buffer_index(p, n))

Unlinked(b, i) == [b EXCEPT ![b[i].next].prev = b[i].prev, ![b[i].prev].next = b[i].next]
AtTail(b, i, tail) == [b EXCEPT ![tail].next = i, ![i].next = i, ![i].prev = tail]
arrange_LRU_list(p, i) ==
  LET b == p.buffer
      new == b[i].next = -1 /\ b[i].prev = -1
      second == b[i].next
  IN  IF p.head = -1
      THEN [p EXCEPT !.buffer[i].next = i, !.buffer[i].prev = i, !.head = i, !.tail = i]
      ELSE IF p.tail = i THEN p
      ELSE IF new THEN [p EXCEPT !.buffer = AtTail(b, i, p.tail), !.tail = i]
      ELSE IF p.head = i
      THEN [p EXCEPT !.buffer = AtTail([b EXCEPT ![second].prev = second], i, p.tail),
                     !.head = second, !.tail = i]
      ELSE [p EXCEPT !.buffer = AtTail(Unlinked(b, i), i, p.tail), !.tail = i]

disk_to_buffer(p, i, n) ==
  [p EXCEPT !.buffer[i] = [@ EXCEPT !.used = TRUE, !.page = n, !.dirty = FALSE,
                                    !.pinned = 0, !.data = p.file[n]]]
FilledFrame(p, n, i) == IF p.buffer[i].used THEN p ELSE disk_to_buffer(p, i, n)
Filled(p, n) == FilledFrame(p, n, get_buffer_index(p, n))
Fetched(p, n) == Filled(Emptied(p, n), n)
FrameOf(p, n) == Min(Holding(p, n))
Header(p) == p.buffer[FrameOf(p, 0)].data

-----------------------------------------------------------------------------
\* buffer_read_page, and get_buffer_pointer, which does the same.
PinnedFrame(p, i) == arrange_LRU_list([p EXCEPT !.buffer[i].pinned = @ + 1], i)
PinnedPage(p, n) == PinnedFrame(p, FrameOf(p, n))
read_page(p, n) == PinnedPage(Fetched(p, n), n)

\* Mutant: the page written is not marked dirty.
user_to_buffer_clean(p, i, n, d) ==
  [p EXCEPT !.buffer[i] = [@ EXCEPT !.used = TRUE, !.page = n, !.data = d]]
user_to_buffer(p, i, n, d) ==
  [p EXCEPT !.buffer[i] = [@ EXCEPT !.used = TRUE, !.page = n, !.data = d, !.dirty = TRUE]]
WrittenFrame(p, i, n, d) == arrange_LRU_list(user_to_buffer(p, i, n, d), i)
WrittenPage(p, n, d) == WrittenFrame(p, get_buffer_index(p, n), n, d)
write_page(p, n, d) == WrittenPage(Emptied(p, n), n, d)

\* The file keeps its own free list.
file_alloc_page(file) ==
  LET h == file[0]
      grown == [n \in DOMAIN file |->
                  IF n = 0 THEN [h EXCEPT !.next = h.num + 1, !.num = h.num + GROW]
                  ELSE IF n >= h.num /\ n < h.num + GROW
                  THEN Data(IF n = h.num + GROW - 1 THEN 0 ELSE n + 1, 0, 0)
                  ELSE file[n]]
  IN  IF h.next = 0 THEN grown ELSE [file EXCEPT ![0].next = file[h.next].next]
file_free_page(file, n) ==
  [file EXCEPT ![0].next = n, ![n].next = file[0].next]

\* A new page gets a frame as it is, a page that was free is read again.
NewFrame(p, h, n, i) ==
  [p EXCEPT !.buffer[i].used = TRUE, !.buffer[i].page = n, !.buffer[i].dirty = FALSE,
            !.buffer[h].data.next = n + 1, !.buffer[h].data.num = n + GROW]
ReusedFrame(p, h, n, i) ==
  [disk_to_buffer(p, i, n) EXCEPT !.buffer[h].data.next = p.file[n].next]
Allocated(p, h, i) ==
  arrange_LRU_list(arrange_LRU_list([p EXCEPT !.file = file_alloc_page(@)], h), i)
AllocNew(p, h, n, i) == Allocated(NewFrame(p, h, n, i), h, i)
AllocReused(p, h, n, i) == Allocated(ReusedFrame(p, h, n, i), h, i)
AllocIn(p, h, header) ==
  LET r == Emptied(p, header.num)
      q == Emptied(p, header.next)
  IN  IF header.next = 0
      THEN AllocNew(r, h, header.num, get_buffer_index(r, header.num))
      ELSE AllocReused(q, h, header.next, get_buffer_index(q, header.next))
AllocWith(p) == AllocIn(p, FrameOf(p, 0), Header(p))
alloc_page(p) == AllocWith(Fetched(p, 0))

Freed(p, h, i, n) ==
  arrange_LRU_list(arrange_LRU_list(
    [p EXCEPT !.buffer[h].data.next = n, !.buffer[i].data.next = p.buffer[h].data.next,
              !.file = file_free_page(@, n)], h), i)
FreeIn(p, n) == Freed(p, FrameOf(p, 0), FrameOf(p, n), n)
free_page(p, n) == FreeIn(Fetched(Fetched(p, 0), n), n)

\* Mutant: clean frames keep their page.
Flushed_dirty_only(b, i) == [b EXCEPT ![i] = [@ EXCEPT !.dirty = FALSE]]
Flushed(b, i) == [b EXCEPT ![i] = [@ EXCEPT !.used = FALSE, !.page = 0, !.dirty = FALSE,
                                            !.pinned = 0]]
close_table_frame(p, i) ==
  LET v == p.buffer[i]
  IN  IF v.used
      THEN arrange_LRU_list(
             [p EXCEPT !.buffer = Flushed(@, i),
                       !.file = IF v.dirty THEN [@ EXCEPT ![v.page] = v.data] ELSE @], i)
      ELSE p
write_to_disk_table(p) ==
  FoldLeft(close_table_frame, p, [i \in 1 .. num_of_buffer |-> i - 1])

-----------------------------------------------------------------------------
\* What callers see of a page, and the free list they use.
Visible(n) ==
  LET frames == Holding(pool, n)
  IN  IF frames = {} THEN pool.file[n] ELSE pool.buffer[Min(frames)].data
RECURSIVE Chain(_, _)
Chain(next, n) == IF n = 0 THEN <<>> ELSE <<n>> \o Chain(next, next[n])
FreeList == Chain([n \in Pages |-> Visible(n).next], Visible(0).next)
InUse == LET num == Visible(0).num IN (1 .. num - 1) \ ToSet(FreeList)

\* init_db and open_table of a new file.
PoolInit ==
  /\ held = [i \in Frames |-> 0] /\ fresh = {} /\ left = {} /\ endless = FALSE
  /\ LET header == Data(0, 0, 1)
         empty == [buffer |-> [i \in Frames |-> Clean], head |-> -1, tail |-> -1,
                   file |-> [n \in 0 .. MAXPAGE |-> IF n = 0 THEN header ELSE Data(0, 0, 0)]]
     IN  pool = arrange_LRU_list([empty EXCEPT !.buffer[0].used = TRUE,
                                               !.buffer[0].data = header], 0)

Pinned == {i \in Frames : held[i] > 0}
MayFetch(n) == Holding(pool, n) \cap Pinned # {} \/ Cardinality(Pinned) < HELD
HeaderHeld == Holding(pool, 0) \cap Pinned # {}

\* With every frame pinned get_LRU_index finds none, and walks on at the tail.
Ends(n) == Holding(pool, n) # {} \/ \E i \in Frames : ~pool.buffer[i].used \/ pool.buffer[i].pinned = 0
Walk(n) ==
  /\ ~endless
  /\ endless' = ~Ends(n)
  /\ endless' => UNCHANGED <<pool, held, fresh, left>>

buffer_read_page(n) ==
  /\ n = 0 \/ n \in InUse \ fresh
  /\ MayFetch(n)
  /\ \A i \in Holding(pool, n) : held[i] < PINS
  /\ Walk(n)
  /\ ~endless' =>
       /\ pool' = read_page(pool, n)
       /\ held' = [held EXCEPT ![FrameOf(pool', n)] = @ + 1]
       /\ UNCHANGED <<fresh, left>>
\* Who lets the header go has written every page that it allocated.
unpin(i) ==
  /\ ~endless /\ held[i] > 0
  /\ pool.buffer[i].page = 0 => fresh = {}
  /\ pool' = [pool EXCEPT !.buffer[i].pinned = @ - 1]
  /\ held' = [held EXCEPT ![i] = @ - 1]
  /\ UNCHANGED <<fresh, left, endless>>
\* db_find and db_update, which run when no insertion or deletion does and hold no
\* other pin by then, never unpin the leaf they read; one such pin on each frame is all that get_LRU_index tells apart.
db_find(n) ==
  /\ Pinned = {} /\ fresh = {} /\ n \in VALUED \cap InUse
  /\ Holding(pool, n) \cap left = {}
  /\ Walk(n)
  /\ ~endless' =>
       /\ pool' = read_page(pool, n)
       /\ left' = left \cup {FrameOf(pool', n)}
       /\ UNCHANGED <<held, fresh>>

\* Callers write pages of the tree, and the header only to change the root: db_insert
\* and delete_entry with the header pinned, db_update the leaf that it has read.
buffer_write_page(n, v) ==
  /\ HeaderHeld \/ (Pinned = {} /\ Holding(pool, n) \cap left # {})
  /\ n \in VALUED \/ v = Visible(n).body
  /\ n = 0 \/ n \in InUse
  /\ Walk(n)
  /\ ~endless' =>
       /\ pool' = write_page(pool, n, IF n = 0 THEN [Visible(0) EXCEPT !.body = v]
                                      ELSE Data(PARENT, v, 0))
       /\ fresh' = fresh \ {n}
       /\ UNCHANGED <<held, left>>
\* db_insert and delete_entry have the header pinned when they allocate or free;
\* no page that they still have pinned has been freed when they allocate.  A page
\* that is read again (disk_to_buffer) loses the pin that was left on it.
buffer_alloc_page ==
  /\ HeaderHeld
  /\ \A i \in Pinned : pool.buffer[i].page \in InUse \cup {0}
  /\ Visible(0).next = 0 => Visible(0).num + GROW - 1 <= MAXPAGE
  /\ Walk(IF Visible(0).next = 0 THEN Visible(0).num ELSE Visible(0).next)
  /\ ~endless' =>
       /\ pool' = alloc_page(pool)
       /\ fresh' = fresh \cup (InUse' \ InUse)
       /\ left' = {i \in left : pool'.buffer[i].pinned > 0}
       /\ UNCHANGED held
buffer_free_page(n) ==
  /\ HeaderHeld /\ n \in InUse \ fresh
  /\ Walk(n)
  /\ ~endless' => pool' = free_page(pool, n) /\ UNCHANGED <<held, fresh, left>>
\* close_table, and open_table of the same file again.
close_table ==
  /\ ~endless /\ Pinned = {} /\ fresh = {}
  /\ pool' = write_to_disk_table(pool)
  /\ left' = {}
  /\ UNCHANGED <<held, fresh, endless>>

PoolNext ==
  \/ \E n \in 0 .. MAXPAGE :
       buffer_read_page(n) \/ db_find(n) \/ \E v \in Values : buffer_write_page(n, v)
  \/ \E i \in Frames : unpin(i)
  \/ buffer_alloc_page \/ \E n \in Pages : buffer_free_page(n)
  \/ close_table
PoolSpec == PoolInit /\ [][PoolNext]_pvars
-----------------------------------------------------------------------------
PoolTypeOK ==
  /\ \A i \in Frames : LET f == pool.buffer[i]
                       IN  f.page \in 0 .. MAXPAGE /\ f.pinned \in Nat /\ f.data.body \in Values
  /\ \A i, j \in Frames : /\ i # j /\ pool.buffer[i].used /\ pool.buffer[j].used
                          => pool.buffer[i].page # pool.buffer[j].page

\* The LRU list runs through every frame that was ever used, once, and back.
RECURSIVE Along(_, _)
Along(b, i) == IF b[i].next = i THEN <<i>> ELSE <<i>> \o Along(b, b[i].next)
ListWhole ==
  LET l == Along(pool.buffer, pool.head)
  IN  /\ ToSet(l) = {i \in Frames : pool.buffer[i].next # -1}
      /\ \A k \in DOMAIN l : pool.buffer[l[k]].prev = IF k = 1 THEN l[1] ELSE l[k - 1]
      /\ Last(l) = pool.tail

\* A frame that callers keep pinned keeps its page, and its count of pins, until the
\* last of them is gone (get_LRU_index).
PinnedStep ==
  \A i \in Frames : held[i] > 0 /\ held'[i] > 0
    => /\ pool'.buffer[i].used /\ pool'.buffer[i].page = pool.buffer[i].page
       /\ pool'.buffer[i].pinned = held'[i] + (IF i \in left' THEN 1 ELSE 0)
PinnedStays == [][PinnedStep]_pvars

\* The free list in the file is the one in the buffer, whatever was evicted
\* in between: file_alloc_page and buffer_alloc_page take the same page.
FreeListsAgree ==
  /\ pool.file[0].next = Visible(0).next /\ pool.file[0].num = Visible(0).num
  /\ \A n \in ToSet(FreeList) : pool.file[n].next = Visible(n).next

\* A page keeps what was written last, through evictions and close_table.
Abstract ==
  LET header == Visible(0)
      free == FreeList
      written == (1 .. header.num - 1) \ (ToSet(free) \cup fresh)
  IN  [root |-> header.body, num |-> header.num, free |-> free,
       body |-> [n \in written |-> Visible(n).body]]
Store == INSTANCE PageStore WITH store <- Abstract
ImplementsPageStore == Store!Spec

-----------------------------------------------------------------------------
\* What no call reads: frames that are not used, pages that have not been written
\* since they were allocated, the links of pages in use, the contents of free
\* pages, and in the file what a dirty frame will overwrite.
Blank == Data(0, 0, 0)
Seen(used, n, d) ==
  IF n = 0 THEN d
  ELSE IF n \in fresh THEN Blank
  ELSE IF n \in used THEN [d EXCEPT !.next = 0] ELSE [d EXCEPT !.body = 0]
Frame(used, f) ==
  IF f.used THEN [f EXCEPT !.data = Seen(used, f.page, @)]
  ELSE [f EXCEPT !.data = Blank, !.page = 0, !.dirty = FALSE, !.pinned = 0]
Overwritten(used, n) ==
  n \in used /\ \E i \in Holding(pool, n) : pool.buffer[i].dirty
View ==
  LET used == InUse
  IN  <<held, fresh, left, endless, pool.head, pool.tail,
        [i \in Frames |-> Frame(used, pool.buffer[i])],
        [n \in 0 .. MAXPAGE |-> IF Overwritten(used, n) THEN Blank
                                ELSE Seen(used, n, pool.file[n])]>>
=============================================================================
