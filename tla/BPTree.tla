-------------------------------- MODULE BPTree --------------------------------
(***************************************************************************)
(* The disk-based B+ tree of the database (bpt.cc): operators that take a  *)
(* table and return it changed.  A table is its header page and its pages; *)
(* BufferPool shows that reading and writing them through the buffer is    *)
(* what is done here directly.  Functions get copies of pages (page_t),    *)
(* which may be older than the table they are used with, as in the code.   *)
(***************************************************************************)
EXTENDS Integers, Sequences, SequencesExt, FiniteSetsExt, TLC
CONSTANTS LEAF_ORDER, INTERNAL_ORDER,
          project,   \* 5, or 2 for the first version of the tree (bpt.c)
          GROW,      \* pages added when none is free (100)
          INT_MAX    \* keys are 64 bit, some variables for keys are int

\* page_t.  An entry is a record_t or an internal_t: a key with its value or
\* page number.  link is the union right_sibling_num / left_page_num.
Page(num, parent, leaf, link, entry) ==
  [num |-> num, parent |-> parent, is_leaf |-> leaf, link |-> link, entry |-> entry]
Entry(key, to) == [key |-> key, to |-> to]
AsInt(k) == ((k + INT_MAX + 1) % (2 * INT_MAX + 2)) - INT_MAX - 1

Empty == [header |-> [free |-> 0, root |-> 0, num |-> 1], page |-> <<>>]
Read(t, n) == t.page[n]
Write(t, p) == [t EXCEPT !.page[p.num] = p]
Adopt(t, children, num) ==
  FoldSet(LAMBDA c, u : [u EXCEPT !.page[c].parent = num], t, children)
cut(length) == IF length % 2 = 0 THEN length \div 2 ELSE length \div 2 + 1
Children(p) == {p.link} \cup {e.to : e \in ToSet(p.entry)}

-----------------------------------------------------------------------------
\* The free list: a free page has the next one in the place of its parent.
Grown(t) ==
  LET n == t.header.num
  IN  [header |-> [t.header EXCEPT !.free = n, !.num = n + GROW],
       page |-> t.page \o [i \in 1 .. GROW |->
                              Page(n + i - 1, IF i = GROW THEN 0 ELSE n + i, TRUE, 0, <<>>)]]
WithFree(t) == IF t.header.free = 0 THEN Grown(t) ELSE t
buffer_alloc_page(t) ==
  LET g == WithFree(t) IN [g EXCEPT !.header.free = g.page[g.header.free].parent]
NewPage(t) == WithFree(t).header.free
buffer_free_page(t, n) ==
  [t EXCEPT !.header.free = n, !.page[n].parent = t.header.free]

-----------------------------------------------------------------------------
\* internal[-1].page_num, which find_leaf reads for the smallest keys, is the
\* field before the array: left_page_num.
Child(p, i) == IF i = 0 THEN p.link ELSE p.entry[i].to
\* How many entries the loop passes before the child that may hold key.
Descent(p, key) ==
  IF key < p.entry[1].key THEN 0
  ELSE CHOOSE i \in DOMAIN p.entry :
         /\ i = Len(p.entry) \/ key < p.entry[i + 1].key
         /\ \A j \in 2 .. i : key >= p.entry[j].key
RECURSIVE LeafBelow(_, _, _)
LeafBelow(t, n, key) ==
  IF Read(t, n).is_leaf THEN n
  ELSE LeafBelow(t, Child(Read(t, n), Descent(Read(t, n), key)), key)
find_leaf(t, key) ==
  IF t.header.root = 0 THEN 0 ELSE LeafBelow(t, t.header.root, key)
\* What db_find copies to ret_val, as a set: empty when it fails.
Value(t, key) ==
  LET n == find_leaf(t, key)
  IN  IF n = 0 THEN {} ELSE {e.to : e \in {r \in ToSet(Read(t, n).entry) : r.key = key}}
db_find(t, key) == Value(t, key) # {}

-----------------------------------------------------------------------------
\* The number of leading entries with a key less than this one.
Below(entry, key) ==
  Min({i \in 0 .. Len(entry) : i = Len(entry) \/ entry[i + 1].key >= key})
Inserted(entry, r) == InsertAt(entry, Below(entry, r.key) + 1, r)

get_insertion_index(parent, child) ==
  IF parent.link = child THEN 0
  ELSE SelectInSeq(parent.entry, LAMBDA e : e.to = child)

insert_into_leaf(t, p, r) == Write(t, [p EXCEPT !.entry = Inserted(@, r)])
insert_into_internal(t, p, index, key, right) ==
  Write(t, [p EXCEPT !.entry = InsertAt(@, index + 1, Entry(key, right))])

insert_into_new_root(t, left, key, right) ==
  LET n == NewPage(t)
      root == Page(n, 0, FALSE, left.num, <<Entry(key, right.num)>>)
      u == Write(Write(Write(buffer_alloc_page(t), [left EXCEPT !.parent = n]),
                       [right EXCEPT !.parent = n]), root)
  IN  [u EXCEPT !.header.root = n]

RECURSIVE insert_into_parent(_, _, _, _)
\* Mutant: the children that move keep their old parent.
split_internal_orphans(t, p, index, key, right) ==
  LET n == NewPage(t)
      all == InsertAt(p.entry, index + 1, Entry(key, right))
      split == cut(INTERNAL_ORDER)
      new == Page(n, p.parent, FALSE, all[split].to, SubSeq(all, split + 1, INTERNAL_ORDER))
      old == [p EXCEPT !.entry = SubSeq(all, 1, split - 1)]
  IN  insert_into_parent(Write(Write(buffer_alloc_page(t), old), new),
                         old, AsInt(all[split].key), n)
insert_into_internal_after_splitting(t, p, index, key, right) ==
  LET n == NewPage(t)
      all == InsertAt(p.entry, index + 1, Entry(key, right))
      split == cut(INTERNAL_ORDER)
      new == Page(n, p.parent, FALSE, all[split].to, SubSeq(all, split + 1, INTERNAL_ORDER))
      old == [p EXCEPT !.entry = SubSeq(all, 1, split - 1)]
      u == Adopt(buffer_alloc_page(t), Children(new), n)
  IN  insert_into_parent(Write(Write(u, old), new), old, AsInt(all[split].key), n)
insert_into_parent(t, left, key, right) ==
  IF left.parent = 0 THEN insert_into_new_root(t, left, key, Read(t, right))
  ELSE LET parent == Read(t, left.parent)
           index == get_insertion_index(parent, left.num)
       IN  IF Len(parent.entry) < INTERNAL_ORDER - 1
           THEN insert_into_internal(t, parent, index, key, right)
           ELSE insert_into_internal_after_splitting(t, parent, index, key, right)

insert_into_leaf_after_splitting(t, p, r) ==
  LET n == NewPage(t)
      all == Inserted(p.entry, r)
      split == cut(LEAF_ORDER - 1)
      new == Page(n, p.parent, TRUE, p.link, SubSeq(all, split + 1, LEAF_ORDER))
      old == [p EXCEPT !.entry = SubSeq(all, 1, split), !.link = n]
  IN  insert_into_parent(Write(Write(buffer_alloc_page(t), old), new),
                         old, AsInt(new.entry[1].key), n)

start_new_tree(t, r) ==
  LET n == NewPage(t)
  IN  [Write(buffer_alloc_page(t), Page(n, 0, TRUE, 0, <<r>>)) EXCEPT !.header.root = n]

db_insert(t, key, value) ==
  IF db_find(t, key) THEN t
  ELSE IF t.header.root = 0 THEN start_new_tree(t, Entry(key, value))
  ELSE LET p == Read(t, find_leaf(t, key))
       IN  IF Len(p.entry) < LEAF_ORDER - 1 THEN insert_into_leaf(t, p, Entry(key, value))
           ELSE insert_into_leaf_after_splitting(t, p, Entry(key, value))

-----------------------------------------------------------------------------
\* -2 for the leftmost child, else the index (from 0) of the entry before it.
get_neighbor_index(parent, num) ==
  IF parent.link = num THEN -2
  ELSE SelectInSeq(parent.entry, LAMBDA e : e.to = num) - 2

Removed(p, key) ==
  [p EXCEPT !.entry = RemoveAt(@, SelectInSeq(@, LAMBDA e : e.key = key))]

\* The header is written back from a copy read before the page was freed.
adjust_root(t, p) ==
  IF p.entry # <<>> THEN t
  ELSE LET root == IF p.is_leaf THEN 0 ELSE p.link
           u == buffer_free_page(IF p.is_leaf THEN t ELSE Adopt(t, {root}, 0), p.num)
       IN  [u EXCEPT !.header = [t.header EXCEPT !.root = root, !.free = p.num]]

\* What the left page of two becomes when the right one is merged into it.
\* In project 2 the values are copied from the same slots of the left page, which
\* is empty whenever there is something to move: 0 is what those slots hold.
Moved(right) ==
  IF project = 2 THEN [i \in DOMAIN right.entry |-> Entry(right.entry[i].key, 0)]
  ELSE right.entry
Merged(left, right, key) ==
  IF right.is_leaf
  THEN [left EXCEPT !.entry = @ \o Moved(right), !.link = right.link]
  ELSE [left EXCEPT !.entry = @ \o <<Entry(key, right.link)>> \o right.entry]
RECURSIVE delete_entry(_, _, _)
coalesce_page(t, target, neighbor, index, key) ==
  LET left == IF index = -2 THEN target ELSE neighbor
      right == IF index = -2 THEN neighbor ELSE target
      moved == IF right.is_leaf THEN {} ELSE Children(right)
      u == Write(Write(Adopt(t, moved, left.num), [right EXCEPT !.entry = <<>>]),
                 Merged(left, right, key))
  IN  delete_entry(buffer_free_page(u, right.num), Read(u, left.parent), key)

\* The neighbour to the right gives its first entry, to the left its last.
FromRight(target, neighbor, key) ==
  LET first == Head(neighbor.entry)
  IN  IF target.is_leaf
      THEN [target |-> [target EXCEPT !.entry = Append(@, first)],
            neighbor |-> [neighbor EXCEPT !.entry = Tail(@)],
            key |-> neighbor.entry[2].key, moved |-> {}]
      ELSE [target |-> [target EXCEPT !.entry = Append(@, Entry(key, neighbor.link))],
            neighbor |-> [neighbor EXCEPT !.entry = Tail(@), !.link = first.to],
            key |-> first.key, moved |-> {neighbor.link}]
FromLeft(target, neighbor, key) ==
  LET last == Last(neighbor.entry)
  IN  IF target.is_leaf
      THEN [target |-> [target EXCEPT !.entry = <<last>> \o @],
            neighbor |-> [neighbor EXCEPT !.entry = Front(@)],
            key |-> last.key, moved |-> {}]
      ELSE [target |-> [target EXCEPT !.entry = <<Entry(key, target.link)>> \o @,
                                      !.link = last.to],
            neighbor |-> [neighbor EXCEPT !.entry = Front(@)],
            key |-> last.key, moved |-> {last.to}]
redistribute_page(t, target, neighbor, index, at, key) ==
  LET r == IF index = -2 THEN FromRight(target, neighbor, key)
           ELSE FromLeft(target, neighbor, key)
      parent == [Read(t, target.parent) EXCEPT !.entry[at].key = r.key]
  IN  Write(Write(Write(Adopt(t, r.moved, target.num), r.target), r.neighbor), parent)

MIN_KEYS == 1
\* Entries are counted from 1 here, so the separating key is at index + 2.
delete_entry(t, page, key) ==
  LET target == Removed(page, key)
      u == Write(t, target)
      parent == Read(u, target.parent)
      index == get_neighbor_index(parent, target.num)
      at == IF index = -2 THEN 1 ELSE index + 2
      neighbor == Read(u, IF index = -2 THEN parent.entry[1].to ELSE Child(parent, index + 1))
      k_prime == AsInt(parent.entry[at].key)
      capacity == cut(IF target.is_leaf THEN LEAF_ORDER ELSE INTERNAL_ORDER - 1)
  IN  IF target.num = t.header.root THEN adjust_root(u, target)
      ELSE IF Len(target.entry) >= MIN_KEYS THEN u
      ELSE IF Len(neighbor.entry) + Len(target.entry) < capacity
           THEN coalesce_page(u, target, neighbor, index, k_prime)
           ELSE redistribute_page(u, target, neighbor, index, at, k_prime)

db_delete(t, key) ==
  IF ~db_find(t, key) THEN t
  ELSE delete_entry(t, Read(t, find_leaf(t, key)), key)

-----------------------------------------------------------------------------
\* join_table: a cursor on each table's leaves; at its last record a cursor
\* stays, and only the end of the table is noted.
RECURSIVE Leftmost(_, _)
Leftmost(t, n) == IF Read(t, n).is_leaf THEN n ELSE Leftmost(t, Read(t, n).link)
First(t) == [page |-> Leftmost(t, t.header.root), i |-> 1, end |-> FALSE]
KeyAt(t, c) == Read(t, c.page).entry[c.i].key
Step(t, c) ==
  LET p == Read(t, c.page)
  IN  IF c.end THEN c
      ELSE IF c.i < Len(p.entry) THEN [c EXCEPT !.i = @ + 1]
      ELSE IF p.link = 0 THEN [c EXCEPT !.end = TRUE]
      ELSE [c EXCEPT !.page = p.link, !.i = 1]
Finished(c1, c2) == c1.end /\ c2.end
RECURSIVE Joined(_, _, _, _, _)
Joined(t1, t2, c1, c2, out) ==
  LET k1 == KeyAt(t1, c1)
      k2 == KeyAt(t2, c2)
  IN  IF k1 = k2
      THEN LET d1 == Step(t1, c1)
               d2 == Step(t2, c2)
           IN  IF Finished(d1, d2) THEN Append(out, k1)
               ELSE Joined(t1, t2, d1, d2, Append(out, k1))
      ELSE IF k1 < k2
      THEN IF c1.end THEN out ELSE Joined(t1, t2, Step(t1, c1), c2, out)
      ELSE IF c2.end THEN out ELSE Joined(t1, t2, c1, Step(t2, c2), out)
join_table(t1, t2) ==
  IF t1.header.root = 0 \/ t2.header.root = 0 THEN <<>>
  ELSE Joined(t1, t2, First(t1), First(t2), <<>>)

-----------------------------------------------------------------------------
(***************************************************************************)
(* One table of the database under inserts and deletes: t is the table, and *)
(* value the dictionary its callers should find in it.                      *)
(***************************************************************************)
CONSTANTS Records, LEAST    \* how many keys stay in the table, once it is filled
VARIABLES t, value
tvars == <<t, value>>

TInit == t = Empty /\ value = <<>>
Insert(k) ==
  /\ t' = db_insert(t, k, k)
  /\ value' = IF k \in DOMAIN value THEN value ELSE value @@ (k :> k)
Delete(k) ==
  /\ Cardinality(DOMAIN value \ {k}) >= LEAST
  /\ t' = db_delete(t, k)
  /\ value' = [j \in DOMAIN value \ {k} |-> value[j]]
TNext == \E k \in Records : Insert(k) \/ Delete(k)
TSpec == TInit /\ [][TNext]_tvars

RECURSIVE Preorder(_)
Preorder(n) ==
  LET p == Read(t, n)
      children == <<p.link>> \o [i \in DOMAIN p.entry |-> p.entry[i].to]
  IN  IF p.is_leaf THEN <<n>>
      ELSE <<n>> \o FlattenSeq([i \in DOMAIN children |-> Preorder(children[i])])
TreePages == IF t.header.root = 0 THEN <<>> ELSE Preorder(t.header.root)
RECURSIVE FreeFrom(_)
FreeFrom(n) == IF n = 0 THEN <<>> ELSE <<n>> \o FreeFrom(Read(t, n).parent)
Free == FreeFrom(t.header.free)

\* States that differ only in the numbers of their pages, or in how many are free,
\* behave alike: pages are told by their places in the tree.
Shape ==
  LET order == TreePages
      Place(n) == SelectInSeq(order, LAMBDA m : m = n)
      Seen(p) == <<Place(p.parent), Place(p.link),
                   [i \in DOMAIN p.entry |->
                      <<p.entry[i].key, IF p.is_leaf THEN p.entry[i].to ELSE Place(p.entry[i].to)>>]>>
  IN  <<Len(t.page) - Len(order) - Len(Free), [i \in DOMAIN order |-> Seen(Read(t, order[i]))]>>
-----------------------------------------------------------------------------
RECURSIVE LeafChain(_)
LeafChain(n) == IF n = 0 THEN <<>> ELSE Read(t, n).entry \o LeafChain(Read(t, n).link)
Scanned == IF t.header.root = 0 THEN <<>> ELSE LeafChain(Leftmost(t, t.header.root))

\* db_find gives back what was inserted for a key, through splits, merges and
\* redistributions (coalesce_page, redistribute_page).
ValuesKept ==
  \A k \in Records : Value(t, k) = IF k \in DOMAIN value THEN {value[k]} ELSE {}
\* The chain of leaves, which join_table walks, has every key once and in order.
LeavesInOrder ==
  /\ \A i \in DOMAIN Scanned : i = 1 \/ Scanned[i - 1].key < Scanned[i].key
  /\ {e.key : e \in ToSet(Scanned)} = DOMAIN value
\* Every page is in the tree or once in the free list: none is lost or given
\* out twice, though adjust_root writes the header from an old copy.
PagesAccounted ==
  LET all == TreePages \o Free
  IN  ToSet(all) = DOMAIN t.page /\ Len(all) = Len(t.page)
\* Children know their parent, which the next split or merge climbs to, and
\* no page but the root is empty.
ParentsKnown ==
  \A n \in ToSet(TreePages) :
    LET p == Read(t, n)
    IN  /\ n # t.header.root => p.entry # <<>>
        /\ ~p.is_leaf => \A c \in Children(p) : Read(t, c).parent = n
\* join_table finds exactly the common keys, also when one table ends first.
Filled(ks) == FoldLeft(LAMBDA u, k : db_insert(u, k, k), Empty, SetToSortSeq(ks, <))
Others == LET sets == {ks \in SUBSET Records : Cardinality(ks) \in {1, 4}} IN
          [ks \in sets |-> Filled(ks)]
JoinExact ==
  \A ks \in DOMAIN Others :
    join_table(t, Others[ks]) = SetToSortSeq(DOMAIN value \cap ks, <)
=============================================================================
