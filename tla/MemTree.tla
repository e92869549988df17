------------------------------- MODULE MemTree --------------------------------
(***************************************************************************)
(* The B+ tree in memory from which the tree of the database was made      *)
(* (project1, bpt.c).  t is the heap of nodes and the root, 0 for NULL.    *)
(* A node has its keys and pointers; those of a leaf are the values, and    *)
(* its last pointer, to the next leaf, is the field next.                  *)
(***************************************************************************)
EXTENDS Integers, Sequences, SequencesExt, FiniteSetsExt, TLC
CONSTANT order

NoTree == [root |-> 0, node |-> <<>>]
Leaf(keys, ptrs, parent, next) ==
  [is_leaf |-> TRUE, keys |-> keys, ptrs |-> ptrs, parent |-> parent, next |-> next]
Inner(keys, ptrs, parent) ==
  [is_leaf |-> FALSE, keys |-> keys, ptrs |-> ptrs, parent |-> parent, next |-> 0]
\* The node that malloc gives, and one that is freed.
make_node(t) == Min(1 .. Cardinality(DOMAIN t.node) + 1 \ DOMAIN t.node)
Freed(t, n) == [t EXCEPT !.node = [i \in DOMAIN @ \ {n} |-> @[i]]]
With(t, n, node) == [t EXCEPT !.node = (n :> node) @@ @]
Parented(t, children, n) == FoldSet(LAMBDA c, u : [u EXCEPT !.node[c].parent = n], t, children)
cut(length) == (length + 1) \div 2
CountOf(keys, P(_)) == Cardinality({i \in DOMAIN keys : P(keys[i])})

RECURSIVE LeafFrom(_, _, _)
LeafFrom(t, n, key) ==
  IF t.node[n].is_leaf THEN n
  ELSE LeafFrom(t, t.node[n].ptrs[CountOf(t.node[n].keys, LAMBDA k : key >= k) + 1], key)
find_leaf(t, key) == IF t.root = 0 THEN 0 ELSE LeafFrom(t, t.root, key)
\* The value of a key in a set, empty if it is not there.
find(t, key) ==
  LET n == find_leaf(t, key)
  IN  IF n = 0 THEN {} ELSE {t.node[n].ptrs[i] : i \in {j \in DOMAIN t.node[n].keys : t.node[n].keys[j] = key}}
\* The keys from n on up to the last one; it gives up in a leaf that ends too early.
RECURSIVE Upto(_, _, _)
Upto(t, n, last) ==
  IF n = 0 THEN <<>> ELSE SelectSeq(t.node[n].keys, LAMBDA k : k <= last) \o Upto(t, t.node[n].next, last)
find_range(t, first, last) ==
  LET n == find_leaf(t, first)
  IN  IF n = 0 \/ CountOf(t.node[n].keys, LAMBDA k : k >= first) = 0 THEN <<>>
      ELSE SelectSeq(Upto(t, n, last), LAMBDA k : k >= first)
RECURSIVE Chain(_, _)
Chain(t, n) == IF n = 0 THEN <<>> ELSE t.node[n].keys \o Chain(t, t.node[n].next)
RECURSIVE LeftLeaf(_, _)
LeftLeaf(t, n) == IF t.node[n].is_leaf THEN n ELSE LeftLeaf(t, t.node[n].ptrs[1])
print_leaves(t) == Chain(t, LeftLeaf(t, t.root))
RECURSIVE path_to_root(_, _)
path_to_root(t, n) == IF n = t.root THEN 0 ELSE 1 + path_to_root(t, t.node[n].parent)
\* print_tree: a line of nodes per rank; a first child may begin a new one.
Enqueued(node) == IF node.is_leaf THEN <<>> ELSE node.ptrs
IsFirst(t, n) == t.node[n].parent # 0 /\ t.node[t.node[n].parent].ptrs[1] = n
Begins(t, n, rank) == IsFirst(t, n) /\ path_to_root(t, n) # rank
RECURSIVE Ranked(_, _, _, _)
Ranked(t, queue, rank, lines) ==
  IF queue = <<>> THEN lines
  ELSE LET n == Head(queue)
           new == Begins(t, n, rank)
           keys == t.node[n].keys
       IN  Ranked(t, Tail(queue) \o Enqueued(t.node[n]), IF new THEN path_to_root(t, n) ELSE rank,
                  IF new THEN Append(lines, <<keys>>) ELSE Append(Front(lines), Append(Last(lines), keys)))
print_tree(t) == Ranked(t, <<t.root>>, 0, <<<<>>>>)
-----------------------------------------------------------------------------
get_left_index(parent, left) == SelectInSeq(parent.ptrs, LAMBDA p : p = left)
insert_into_new_root(t, left, key, right) ==
  LET r == make_node(t)
  IN  [Parented(With(t, r, Inner(<<key>>, <<left, right>>, 0)), {left, right}, r) EXCEPT !.root = r]
RECURSIVE insert_into_parent(_, _, _, _)
insert_into_node_after_splitting(t, n, node) ==
  LET split == cut(order)
      new == make_node(t)
      u == With([t EXCEPT !.node[n].keys = SubSeq(node.keys, 1, split - 1),
                          !.node[n].ptrs = SubSeq(node.ptrs, 1, split)],
                new, Inner(SubSeq(node.keys, split + 1, order), SubSeq(node.ptrs, split + 1, order + 1), node.parent))
  IN  insert_into_parent(Parented(u, ToSet(u.node[new].ptrs), new), n, node.keys[split], new)
insert_into_parent(t, left, key, right) ==
  LET p == t.node[left].parent
      i == get_left_index(t.node[p], left)
      node == [t.node[p] EXCEPT !.keys = InsertAt(@, i, key), !.ptrs = InsertAt(@, i + 1, right)]
  IN  IF p = 0 THEN insert_into_new_root(t, left, key, right)
      ELSE IF Len(t.node[p].keys) < order - 1 THEN [t EXCEPT !.node[p] = node]
      ELSE insert_into_node_after_splitting(t, p, node)
insert_into_leaf_after_splitting(t, n, leaf) ==
  LET split == cut(order - 1)
      new == make_node(t)
      u == With([t EXCEPT !.node[n].keys = SubSeq(leaf.keys, 1, split),
                          !.node[n].ptrs = SubSeq(leaf.ptrs, 1, split), !.node[n].next = new],
                new, Leaf(SubSeq(leaf.keys, split + 1, order), SubSeq(leaf.ptrs, split + 1, order), leaf.parent, leaf.next))
  IN  insert_into_parent(u, n, leaf.keys[split + 1], new)
insert(t, key, value) ==
  LET n == find_leaf(t, key)
      i == CountOf(t.node[n].keys, LAMBDA k : k < key) + 1
      leaf == [t.node[n] EXCEPT !.keys = InsertAt(@, i, key), !.ptrs = InsertAt(@, i, value)]
  IN  IF find(t, key) # {} THEN t
      ELSE IF t.root = 0 THEN [root |-> make_node(t), node |-> make_node(t) :> Leaf(<<key>>, <<value>>, 0, 0)]
      ELSE IF Len(t.node[n].keys) < order - 1 THEN [t EXCEPT !.node[n] = leaf]
      ELSE insert_into_leaf_after_splitting(t, n, leaf)
-----------------------------------------------------------------------------
RECURSIVE delete_entry(_, _, _, _)
remove_entry_from_node(t, n, key, ptr) ==
  [t EXCEPT !.node[n].keys = RemoveAt(@, SelectInSeq(@, LAMBDA k : k = key)),
            !.node[n].ptrs = RemoveAt(@, SelectInSeq(@, LAMBDA p : p = ptr))]
adjust_root(t) ==
  LET r == t.node[t.root]
      new == IF r.is_leaf THEN 0 ELSE r.ptrs[1]
  IN  IF r.keys # <<>> THEN t ELSE Freed(Parented([t EXCEPT !.root = new], {new} \ {0}, 0), t.root)
\* left is the one of the two nodes that stays.
coalesce_nodes(t, left, right, k_prime) ==
  LET a == t.node[left]
      b == t.node[right]
      u == IF a.is_leaf THEN [t EXCEPT !.node[left].keys = @ \o b.keys, !.node[left].ptrs = @ \o b.ptrs,
                                       !.node[left].next = b.next]
           ELSE Parented([t EXCEPT !.node[left].keys = @ \o <<k_prime>> \o b.keys,
                                   !.node[left].ptrs = @ \o b.ptrs], ToSet(b.ptrs), left)
  IN  Freed(delete_entry(u, b.parent, k_prime, right), right)
\* The last entry of the left neighbour moves to n, or the first of the right one.
redistribute_nodes(t, n, neighbor, leftmost, k, k_prime) ==
  LET a == t.node[n]
      b == t.node[neighbor]
      key == IF a.is_leaf THEN IF leftmost THEN Head(b.keys) ELSE Last(b.keys) ELSE k_prime
      ptr == IF leftmost THEN Head(b.ptrs) ELSE Last(b.ptrs)
      up == IF ~leftmost THEN Last(b.keys) ELSE IF a.is_leaf THEN b.keys[2] ELSE b.keys[1]
      u == [t EXCEPT !.node[a.parent].keys[k] = up,
                     !.node[n].keys = IF leftmost THEN Append(@, key) ELSE <<key>> \o @,
                     !.node[n].ptrs = IF leftmost THEN Append(@, ptr) ELSE <<ptr>> \o @,
                     !.node[neighbor].keys = IF leftmost THEN Tail(@) ELSE Front(@),
                     !.node[neighbor].ptrs = IF leftmost THEN Tail(@) ELSE Front(@)]
  IN  IF a.is_leaf THEN u ELSE Parented(u, {ptr}, n)
delete_entry(t, n, key, ptr) ==
  LET u == remove_entry_from_node(t, n, key, ptr)
      node == u.node[n]
      parent == u.node[node.parent]
      leftmost == parent.ptrs[1] = n
      k == IF leftmost THEN 1 ELSE get_left_index(parent, n) - 1
      neighbor == IF leftmost THEN parent.ptrs[2] ELSE parent.ptrs[k]
      capacity == IF node.is_leaf THEN order ELSE order - 1
  IN  IF n = u.root THEN adjust_root(u)
      ELSE IF Len(node.keys) >= (IF node.is_leaf THEN cut(order - 1) ELSE cut(order) - 1) THEN u
      ELSE IF Len(u.node[neighbor].keys) + Len(node.keys) < capacity
      THEN IF leftmost THEN coalesce_nodes(u, n, neighbor, parent.keys[k])
           ELSE coalesce_nodes(u, neighbor, n, parent.keys[k])
      ELSE redistribute_nodes(u, n, neighbor, leftmost, k, parent.keys[k])
delete(t, key) ==
  IF find(t, key) = {} THEN t
  ELSE delete_entry(t, find_leaf(t, key), key, CHOOSE v \in find(t, key) : TRUE)
\* Every node that destroy_tree frees.
RECURSIVE Nodes(_, _)
Nodes(t, n) ==
  IF t.node[n].is_leaf THEN <<n>>
  ELSE FlattenSeq([i \in DOMAIN t.node[n].ptrs |-> Nodes(t, t.node[n].ptrs[i])]) \o <<n>>
destroy_tree(t) ==
  IF t.root = 0 THEN t ELSE [FoldLeft(Freed, t, Nodes(t, t.root)) EXCEPT !.root = 0]

-----------------------------------------------------------------------------
(***************************************************************************)
(* The tree of project1 under inserts and deletes, next to the set of keys *)
(* in it.                                                                  *)
(***************************************************************************)
CONSTANT TreeKeys
VARIABLES t, keys
Value(key) == 10 + key
TInit == t = NoTree /\ keys = {}
TNext == \E key \in TreeKeys :
           \/ t' = insert(t, key, Value(key)) /\ keys' = keys \cup {key}
           \/ t' = delete(t, key) /\ keys' = keys \ {key}
           \/ t' = destroy_tree(t) /\ keys' = {}
TSpec == TInit /\ [][TNext]_<<t, keys>>
TreeNodes == IF t.root = 0 THEN <<>> ELSE Nodes(t, t.root)
Leaves == SelectSeq(TreeNodes, LAMBDA n : t.node[n].is_leaf)
\* States that differ in the numbers of the nodes only are alike.
TreeShape ==
  LET Seen(n) == <<t.node[n].is_leaf, t.node[n].keys, Len(t.node[n].ptrs),
                   SelectInSeq(TreeNodes, LAMBDA x : x = t.node[n].parent),
                   SelectInSeq(Leaves, LAMBDA x : x = t.node[n].next)>>
  IN  <<[i \in DOMAIN TreeNodes |-> Seen(TreeNodes[i])], Cardinality(DOMAIN t.node)>>
RECURSIVE PathLength(_)
PathLength(n) == IF t.node[n].parent = 0 THEN 0 ELSE 1 + PathLength(t.node[n].parent)
-----------------------------------------------------------------------------
\* Every key is found with its value, and a range that starts at a key of the tree
\* is complete: the chain of leaves is in order after splits and merges.
RangesExact ==
  /\ \A key \in TreeKeys : find(t, key) = IF key \in keys THEN {Value(key)} ELSE {}
  /\ \A a \in keys, b \in TreeKeys :
       find_range(t, a, b) = SelectSeq([i \in 1 .. b |-> i], LAMBDA key : a <= key /\ key \in keys)
\* The tree is balanced, nodes are filled as delete_entry demands and know their
\* parents, and no node is lost.
NodesExact ==
  /\ ToSet(TreeNodes) = DOMAIN t.node
  /\ \A n \in ToSet(TreeNodes) :
       LET node == t.node[n] IN
       /\ n # t.root => Len(node.keys) >= IF node.is_leaf THEN cut(order - 1) ELSE cut(order) - 1
       /\ Len(node.keys) < order
       /\ ~node.is_leaf => \A c \in ToSet(node.ptrs) : t.node[c].parent = n
       /\ node.is_leaf => PathLength(n) = PathLength(Leaves[1])
\* The tree is printed level by level, from the root on, each from left to right, and
\* its leaves are the keys in order.
PrintedByLevel ==
  t.root # 0 =>
    LET deep == PathLength(Leaves[1])
    IN  /\ print_tree(t) = [d \in 1 .. deep + 1 |->
              LET row == SelectSeq(TreeNodes, LAMBDA n : PathLength(n) = d - 1) IN [i \in DOMAIN row |-> t.node[row[i]].keys]]
        /\ print_leaves(t) = SelectSeq([i \in 1 .. 2 * Cardinality(TreeKeys) |-> i], LAMBDA k : k \in keys)
=============================================================================
