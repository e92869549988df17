---------------------------- MODULE DataStructures ----------------------------
(***************************************************************************)
(* The data structures course.  Lists and tables: the linked list and its  *)
(* reversal through a stack (hw4.c), the skip list, the two hash tables and *)
(* the heap.  Nodes are cells of a memory; malloc takes the least free one. *)
(* Trees.  Then the graph programs (BFS.c, DFS.c, hw7_dijkstra.c,          *)
(* equivalenceclass.c), the product of two polynomials (hw3.c) and the     *)
(* towers of Hanoi (hw2_hanoi.c), with what they should compute.           *)
(***************************************************************************)
EXTENDS Integers, Sequences, SequencesExt, FiniteSetsExt, TLC
CONSTANTS NULL, MAX_LEVEL, TABLE_SIZE, MAX_NODES, Capacity, MAX_VERTICES, MAX_SIZE, INF

-----------------------------------------------------------------------------
\* hw4.c.  Cell 0 is headNode, inside the LinkedList itself.
EmptyList == [curCount |-> 0, cell |-> 0 :> [data |-> 0, next |-> NULL]]
malloc(cell) == Min((0 .. Cardinality(DOMAIN cell)) \ DOMAIN cell)
free(cell, a) == [b \in DOMAIN cell \ {a} |-> cell[b]]
RECURSIVE At(_, _, _)
At(cell, a, pos) == IF pos = 0 THEN a ELSE At(cell, cell[a].next, pos - 1)
RECURSIVE From(_, _)
From(cell, a) == IF a = NULL THEN <<>> ELSE <<a>> \o From(cell, cell[a].next)
Nodes(l) == From(l.cell, l.cell[0].next)
Listed(l) == [i \in DOMAIN Nodes(l) |-> l.cell[Nodes(l)[i]].data]

addNode(l, pos, data) ==
  LET new == malloc(l.cell)
      before == At(l.cell, 0, pos)
      node == [data |-> data, next |-> l.cell[before].next]
  IN  IF pos < 0 \/ pos > l.curCount THEN l
      ELSE [curCount |-> l.curCount + 1,
            cell |-> [(new :> node) @@ l.cell EXCEPT ![before].next = new]]
\* At pos = curCount the code reads through NULL: callers stay below.
removeNode(l, pos) ==
  LET before == At(l.cell, 0, pos)
      del == l.cell[before].next
  IN  IF pos < 0 \/ pos > l.curCount THEN l
      ELSE [curCount |-> l.curCount - 1,
            cell |-> free([l.cell EXCEPT ![before].next = l.cell[del].next], del)]
findPos(l, data) == SelectInSeq(Listed(l), LAMBDA d : d = data) - 1
\* The version of linked_list.c leaves curCount as it was.
makeEmpty(l) ==
  [curCount |-> l.curCount - Len(Nodes(l)), cell |-> 0 :> [data |-> 0, next |-> NULL]]

\* Every node is pushed; the stack is then popped while the nodes are relinked.
RECURSIVE Relinked(_, _, _)
Relinked(cell, s, stack) ==
  IF stack = <<>> THEN [cell EXCEPT ![s].next = NULL]
  ELSE Relinked([cell EXCEPT ![s].next = Head(stack)], Head(stack), Tail(stack))
reverseList(l) ==
  LET stack == Reverse(Nodes(l))
  IN  [l EXCEPT !.cell = Relinked([@ EXCEPT ![0].next = Head(stack)], Head(stack), Tail(stack))]

-----------------------------------------------------------------------------
\* randomizedskiplist.c.  Cell 0 is the head, with MIN_DATA.
MIN_DATA == -9999
Levels == 1 .. MAX_LEVEL
SkipNode(data, level, next) == [data |-> data, level |-> level, next |-> next]
EmptySkip == <<>> @@ 0 :> SkipNode(MIN_DATA, MAX_LEVEL, [i \in Levels |-> NULL])
\* The last node of level i whose data is not greater.
RECURSIVE LastBefore(_, _, _, _)
LastBefore(s, a, i, data) ==
  LET n == s[a].next[i]
  IN  IF n = NULL \/ s[n].data > data THEN a ELSE LastBefore(s, n, i, data)
Places(s, data) == [i \in Levels |-> LastBefore(s, 0, i, data)]
insertSkipNode(s, data, level) ==
  LET new == malloc(s)
      at == Places(s, data)
      node == SkipNode(data, level,
                       [i \in Levels |-> IF i <= level THEN s[at[i]].next[i] ELSE NULL])
  IN  (new :> node) @@
      [a \in DOMAIN s |-> [s[a] EXCEPT !.next =
         [i \in Levels |-> IF i <= level /\ at[i] = a THEN new ELSE @[i]]]]
\* The search starts at the first node of the highest level that is not past
\* data, and goes down when the next node is missing or too large; below level 1
\* the code reads outside next, which it only does for absent data.
EntryLevel(s, data) ==
  Max({i \in Levels : s[0].next[i] # NULL /\ s[s[0].next[i]].data <= data})
RECURSIVE Search(_, _, _, _)
Search(s, a, pos, data) ==
  LET n == s[a].next[pos]
  IN  IF s[a].data = data THEN a
      ELSE IF n = NULL \/ s[n].data > data THEN Search(s, a, pos - 1, data)
      ELSE Search(s, n, pos, data)
\* Where the search for data that is there ends, and what it prints: when the
\* node it enters at is the one, it says that there is none.
searchSkipNode(s, data) ==
  LET pos == EntryLevel(s, data)
      entry == s[0].next[pos]
      a == Search(s, entry, pos, data)
  IN  [node |-> a, printed |-> a # entry]
LevelNodes(s, i) ==
  LET RECURSIVE Along(_)
      Along(a) == IF a = NULL THEN <<>> ELSE <<a>> \o Along(s[a].next[i])
  IN  Along(s[0].next[i])

-----------------------------------------------------------------------------
\* hw6_hash.c and 0531hash.c; a key is given by its number transform(key) and
\* a name that tells apart keys with the same number.
hashFunction(key) == key.number % TABLE_SIZE
Probe(key, i) == ((hashFunction(key) + i) % TABLE_SIZE) + 1
\* The steps of the probe that end it: the key, an empty slot.
Ends(ht, key) == {i \in 0 .. TABLE_SIZE - 1 : ht[Probe(key, i)] \in {key, NULL}}
addHashTable(ht, key) ==
  IF Ends(ht, key) = {} THEN ht ELSE [ht EXCEPT ![Probe(key, Min(Ends(ht, key)))] = key]
hashSearch(ht, key) ==
  Ends(ht, key) # {} /\ ht[Probe(key, Min(Ends(ht, key)))] = key

addChain(ht, key) ==
  IF key \in ToSet(ht[hashFunction(key) + 1]) THEN ht
  ELSE [ht EXCEPT ![hashFunction(key) + 1] = <<key>> \o @]
searchChain(ht, key) == key \in ToSet(ht[hashFunction(key) + 1])

-----------------------------------------------------------------------------
\* 0510heap.c.  Slots above lastIndex keep what they held.
initHeap == [nodes |-> [i \in 1 .. MAX_NODES - 1 |-> 0], lastIndex |-> 0]
RECURSIVE SiftUp(_, _, _)
SiftUp(nodes, index, data) ==
  IF index = 1 \/ data <= nodes[index \div 2] THEN [nodes EXCEPT ![index] = data]
  ELSE SiftUp([nodes EXCEPT ![index] = nodes[index \div 2]], index \div 2, data)
insertData(h, data) ==
  IF h.lastIndex = MAX_NODES - 1 THEN h
  ELSE [nodes |-> SiftUp(h.nodes, h.lastIndex + 1, data), lastIndex |-> h.lastIndex + 1]

\* childIndex + 1 may be the slot just given up, which still holds temp.
Larger(nodes, child) == IF nodes[child] < nodes[child + 1] THEN child + 1 ELSE child
RECURSIVE SiftDown(_, _, _, _)
SiftDown(nodes, last, parent, temp) ==
  LET child == Larger(nodes, 2 * parent)
  IN  IF 2 * parent > last THEN [nodes EXCEPT ![parent] = temp]
      ELSE IF temp > nodes[child] THEN [nodes EXCEPT ![parent] = temp]
      ELSE SiftDown([nodes EXCEPT ![parent] = nodes[child]], last, child, temp)
deleteData(h) ==
  LET temp == h.nodes[h.lastIndex]
      last == h.lastIndex - 1
  IN  CASE h.lastIndex = 0 -> h
        [] h.lastIndex = 1 -> [nodes |-> [h.nodes EXCEPT ![1] = 0], lastIndex |-> 0]
        [] OTHER -> [nodes |-> SiftDown([h.nodes EXCEPT ![1] = temp], last, 1, temp),
                     lastIndex |-> last]
Heaped(h) == SubSeq(h.nodes, 1, h.lastIndex)

-----------------------------------------------------------------------------
\* queue.c: front is the slot before the first element.
createCircularQueue == [data |-> [i \in 0 .. Capacity - 1 |-> 0], front |-> 0, rear |-> 0]
isFull(q) == (q.rear + 1) % Capacity = q.front
enqueue(q, data) ==
  LET r == (q.rear + 1) % Capacity
  IN  IF isFull(q) THEN q ELSE [q EXCEPT !.rear = r, !.data[r] = data]
dequeue(q) ==
  IF q.front = q.rear THEN q ELSE [q EXCEPT !.front = (@ + 1) % Capacity]
\* The loop starts at front + 1 without the modulo: data[Capacity] is front.
RECURSIVE Shown(_, _)
Shown(q, i) ==
  <<IF i = Capacity THEN q.front ELSE q.data[i]>>
    \o (IF i = q.rear THEN <<>> ELSE Shown(q, (i + 1) % Capacity))
showQueue(q) == IF q.front = q.rear THEN <<>> ELSE Shown(q, q.front + 1)

-----------------------------------------------------------------------------
(***************************************************************************)
(* The search trees of the data structures course: the binary search tree  *)
(* of hw5_BST.c, AVLtree.c and 0524B_Tree.c.  Functions that change a tree *)
(* through pointers are operators that return it changed.                  *)
(***************************************************************************)
CONSTANT M_WAY

Nil == <<>>
Node(data, left, right) == [data |-> data, left |-> left, right |-> right]

RECURSIVE Inorder(_)
Inorder(t) == IF t = Nil THEN <<>> ELSE Inorder(t.left) \o <<t.data>> \o Inorder(t.right)

-----------------------------------------------------------------------------
RECURSIVE insertTreeNode(_, _)
insertTreeNode(t, value) ==
  IF t = Nil THEN Node(value, Nil, Nil)
  ELSE IF t.data > value THEN [t EXCEPT !.left = insertTreeNode(@, value)]
  ELSE [t EXCEPT !.right = insertTreeNode(@, value)]

RECURSIVE searchTreeNode(_, _)
searchTreeNode(t, value) ==
  IF t = Nil THEN Nil
  ELSE IF t.data = value THEN t
  ELSE IF t.data < value THEN searchTreeNode(t.right, value)
  ELSE searchTreeNode(t.left, value)

RECURSIVE Least(_)
Least(t) == IF t.left = Nil THEN t.data ELSE Least(t.left)
\* What is left when the successor has been unhooked from the right subtree.
RECURSIVE WithoutLeast(_)
WithoutLeast(t) == IF t.left = Nil THEN t.right ELSE [t EXCEPT !.left = WithoutLeast(@)]
Replaced(d) == Node(Least(d.right), d.left, WithoutLeast(d.right))

\* Where the node to delete hangs: "root", "left" or "right" of its parent.
RECURSIVE Side(_, _, _)
Side(t, value, side) ==
  IF t.data = value THEN side
  ELSE IF t.data < value THEN Side(t.right, value, "right") ELSE Side(t.left, value, "left")
RECURSIVE Hooked(_, _, _, _)
Hooked(t, value, side, new) ==
  LET here == (t.left # Nil /\ t.left.data = value) \/ (t.right # Nil /\ t.right.data = value)
  IN  IF here THEN [t EXCEPT ![side] = new]
      ELSE IF t.data < value THEN [t EXCEPT !.right = Hooked(@, value, side, new)]
      ELSE [t EXCEPT !.left = Hooked(@, value, side, new)]
\* A root with one child is replaced by NULL; a successor always becomes the
\* right child of the parent, where a left one leaves a freed node behind.
deleteTreeNode(t, value) ==
  LET d == searchTreeNode(t, value)
      side == Side(t, value, "root")
      two == d.left # Nil /\ d.right # Nil
      child == IF d.left # Nil THEN d.left ELSE d.right
  IN  IF d = Nil THEN t
      ELSE IF side = "root" THEN IF two THEN Replaced(d) ELSE Nil
      ELSE IF two THEN Hooked(t, value, "right", Replaced(d))
      ELSE Hooked(t, value, side, child)
\* The deletions after which the tree is what it should be.
DeletesOne(t, value) ==
  LET d == searchTreeNode(t, value)
      two == d.left # Nil /\ d.right # Nil
      none == d.left = Nil /\ d.right = Nil
  IN  d # Nil => CASE Side(t, value, "root") = "root" -> two \/ none
                   [] Side(t, value, "root") = "left" -> ~two
                   [] OTHER -> TRUE

RECURSIVE copyTreeNode(_)
copyTreeNode(src) ==
  IF src = Nil THEN Nil
  ELSE Node(src.data, copyTreeNode(src.left), copyTreeNode(src.right))
RECURSIVE compareTwoTree(_, _)
compareTwoTree(t1, t2) ==
  IF t1 # Nil /\ t2 # Nil
  THEN /\ t1.data = t2.data
       /\ compareTwoTree(t1.left, t2.left) /\ compareTwoTree(t1.right, t2.right)
  ELSE t1 = Nil /\ t2 = Nil

-----------------------------------------------------------------------------
AvlNode(data, left, right, h) ==
  [data |-> data, left |-> left, right |-> right, Height |-> h]
height(t) == IF t = Nil THEN -1 ELSE t.Height
\* Max(x, y) + 1 as the macro is expanded: only the second alternative gets 1.
MaxPlusOne(x, y) == IF x > y THEN x ELSE y + 1

rotateLL(p) ==
  LET c == p.left
      parent == [p EXCEPT !.left = c.right, !.Height = MaxPlusOne(height(p.right), height(c.right))]
  IN  [c EXCEPT !.right = parent, !.Height = MaxPlusOne(height(c.left), parent.Height)]
rotateRR(p) ==
  LET c == p.right
      parent == [p EXCEPT !.right = c.left, !.Height = MaxPlusOne(height(c.left), height(p.left))]
  IN  [c EXCEPT !.left = parent, !.Height = MaxPlusOne(parent.Height, height(c.right))]
rotateLR(p) == rotateLL([p EXCEPT !.left = rotateRR(@)])
rotateRL(p) == rotateRR([p EXCEPT !.right = rotateLL(@)])

RECURSIVE avlAdd(_, _)
avlAdd(t, data) ==
  LET l == [t EXCEPT !.left = avlAdd(@, data)]
      r == [t EXCEPT !.right = avlAdd(@, data)]
      u == IF data < t.data
           THEN IF height(l.left) - height(l.right) # 2 THEN l
                ELSE IF data < l.left.data THEN rotateLL(l) ELSE rotateLR(l)
           ELSE IF height(r.right) - height(r.left) # 2 THEN r
                ELSE IF data > r.right.data THEN rotateRR(r) ELSE rotateRL(r)
  IN  IF t = Nil THEN AvlNode(data, Nil, Nil, MaxPlusOne(-1, -1))
      ELSE [u EXCEPT !.Height = MaxPlusOne(height(u.left), height(u.right))]
RECURSIVE avlSearch(_, _)
avlSearch(t, key) ==
  /\ t # Nil
  /\ CASE key = t.data -> TRUE
       [] key < t.data -> avlSearch(t.left, key)
       [] OTHER -> avlSearch(t.right, key)

-----------------------------------------------------------------------------
\* A node of the M_WAY-way tree with its keys and, below it, its children.
BTNode(isLeaf, isRoot, keys, childs) ==
  [isLeaf |-> isLeaf, isRoot |-> isRoot, keys |-> keys, childs |-> childs]
initBTNode == BTNode(TRUE, FALSE, <<>>, <<>>)
\* Keys 1 .. mid stay, key mid + 1 goes up.
mid == (M_WAY - 1) \div 2
splitChild(t) ==
  LET left == [t EXCEPT !.isRoot = FALSE, !.keys = SubSeq(t.keys, 1, mid),
                        !.childs = IF t.isLeaf THEN <<>> ELSE SubSeq(@, 1, mid + 1)]
      right == BTNode(t.isLeaf, FALSE, SubSeq(t.keys, mid + 2, M_WAY),
                      IF t.isLeaf THEN <<>> ELSE SubSeq(t.childs, mid + 2, M_WAY + 1))
  IN  BTNode(FALSE, t.isRoot, <<t.keys[mid + 1]>>, <<left, right>>)

\* How many keys are not greater: where the key goes, or below which child.
Position(t, key) == Len(SelectSeq(t.keys, LAMBDA k : k <= key))
RootSplit(t) == IF Len(t.keys) = M_WAY /\ t.isRoot THEN splitChild(t) ELSE t
RECURSIVE BTInsert(_, _)
BTInsert(t, key) ==
  LET pos == Position(t, key) + 1
      c == BTInsert(t.childs[pos], key)
      s == splitChild(c)
      u == IF Len(c.keys) < M_WAY THEN [t EXCEPT !.childs[pos] = c]
           ELSE [t EXCEPT !.keys = InsertAt(@, pos, s.keys[1]),
                          !.childs = InsertAt([@ EXCEPT ![pos] = s.childs[2]], pos, s.childs[1])]
  IN  RootSplit(IF t.isLeaf THEN [t EXCEPT !.keys = InsertAt(@, pos, key)] ELSE u)
RECURSIVE inorderTraversal(_)
inorderTraversal(t) ==
  IF t.isLeaf THEN t.keys
  ELSE LET below == [i \in DOMAIN t.childs |->
                       inorderTraversal(t.childs[i])
                         \o (IF i \in DOMAIN t.keys THEN <<t.keys[i]>> ELSE <<>>)]
       IN  FlattenSeq(below)

-----------------------------------------------------------------------------
Vertices == 0 .. MAX_VERTICES - 1
UNDEF == -1
\* A graph is its set of edges; insertEdge enters both directions.
Adjacent(g, u, v) == <<u, v>> \in g \/ <<v, u>> \in g

\* bfs with its queue: dequeue_bfs does front + (1 % MAX_SIZE) and never wraps.
isFull_bfs(q) == (q.rear + 1) % MAX_SIZE = q.front
enqueue_bfs(q, v) ==
  IF isFull_bfs(q) THEN q
  ELSE [q EXCEPT !.queue = (q.rear :> v) @@ @, !.rear = (@ + 1) % MAX_SIZE]
dequeue_bfs(q) == [q EXCEPT !.front = @ + (1 % MAX_SIZE)]
Discover(g, q, visited, v) ==
  LET new == SetToSortSeq({w \in Vertices : Adjacent(g, v, w) /\ w \notin visited}, <)
  IN  [q |-> FoldLeft(enqueue_bfs, q, new), visited |-> visited \cup ToSet(new)]
RECURSIVE BfsFrom(_, _, _, _)
BfsFrom(g, q, visited, out) ==
  LET v == q.queue[q.front]
      d == Discover(g, dequeue_bfs(q), visited, v)
  IN  IF q.front = q.rear THEN out ELSE BfsFrom(g, d.q, d.visited, Append(out, v))
bfs(g, v) ==
  BfsFrom(g, enqueue_bfs([queue |-> <<>>, rear |-> 0, front |-> 0], v), {v}, <<>>)

\* Mutant: vertices already visited are printed again.
Fresh_any(g, v, visited) == {w \in Vertices : Adjacent(g, v, w) /\ w # v}
Fresh(g, v, visited) == {w \in Vertices : Adjacent(g, v, w) /\ w \notin visited}
RECURSIVE DfsLoop(_, _, _, _)
DfsLoop(g, v, w, s) ==
  IF w = MAX_VERTICES THEN s
  ELSE LET visit == [visited |-> s.visited \cup {w}, out |-> Append(s.out, w)]
       IN  DfsLoop(g, v, w + 1,
                   IF w \in Fresh(g, v, s.visited) THEN DfsLoop(g, w, 0, visit) ELSE s)
dfs(g, v) == DfsLoop(g, v, 0, [visited |-> {v}, out |-> <<v>>]).out

RECURSIVE Spread(_, _)
Spread(g, seen) ==
  LET more == seen \cup {w \in Vertices : \E u \in seen : Adjacent(g, u, w)}
  IN  IF more = seen THEN seen ELSE Spread(g, more)
Component(g, v) == Spread(g, {v})
RECURSIVE Distance(_, _, _)
Distance(g, seen, w) ==
  IF w \in seen THEN 0
  ELSE 1 + Distance(g, seen \cup {x \in Vertices : \E u \in seen : Adjacent(g, u, x)}, w)
\* Each vertex of the component once, the near ones before the far ones.
BfsOrder(g, v, out) ==
  /\ ToSet(out) = Component(g, v) /\ Len(out) = Cardinality(ToSet(out))
  /\ \A i, j \in DOMAIN out : i < j => Distance(g, {v}, out[i]) <= Distance(g, {v}, out[j])
\* Each vertex once, and each one next to the last vertex before it that still
\* had a neighbour to visit.
DfsOrder(g, v, out) ==
  /\ out[1] = v /\ ToSet(out) = Component(g, v) /\ Len(out) = Cardinality(ToSet(out))
  /\ \A i \in 2 .. Len(out) :
       LET open == {j \in 1 .. i - 1 : \E k \in i .. Len(out) : Adjacent(g, out[j], out[k])}
       IN  Adjacent(g, out[Max(open)], out[i])

-----------------------------------------------------------------------------
\* equivalenceclass.c: seq[i] lists the partners of i.  A node that is used is
\* linked into the stack top through its own link.
AddPair(s, i, j) ==
  LET x == Len(s.node)
      first == [data |-> j, link |-> s.seq[i]]
      seq == [s.seq EXCEPT ![i] = x + 1]
      second == [data |-> i, link |-> seq[j]]
  IN  [node |-> s.node \o <<first, second>>, seq |-> [seq EXCEPT ![j] = x + 2]]
NoPairs == [node |-> <<>>, seq |-> [i \in Vertices |-> NULL]]
Partners(pairs) == FoldLeft(LAMBDA s, p : AddPair(s, p[1], p[2]), NoPairs, pairs)

After(node, x, top) == node[x].link
RECURSIVE Traverse(_, _, _, _, _)
Traverse(s, x, top, out, class) ==
  IF x # NULL
  THEN IF s.node[x].data \in out
       THEN Traverse([s EXCEPT !.node[x].link = top], After(s.node, x, top), x,
                     out \ {s.node[x].data}, class \cup {s.node[x].data})
       ELSE Traverse(s, s.node[x].link, top, out, class)
  ELSE IF top = NULL THEN [s |-> s, out |-> out, class |-> class]
  ELSE Traverse(s, s.seq[s.node[top].data], s.node[top].link, out, class)
RECURSIVE ClassesFrom(_, _, _, _)
ClassesFrom(s, i, out, classes) ==
  LET r == Traverse(s, s.seq[i], NULL, out \ {i}, {i})
  IN  IF i = MAX_VERTICES THEN classes
      ELSE IF i \in out THEN ClassesFrom(r.s, i + 1, r.out, classes \cup {r.class})
      ELSE ClassesFrom(s, i + 1, out, classes)
EquivalenceClasses(pairs) == ClassesFrom(Partners(pairs), 0, Vertices, {})

-----------------------------------------------------------------------------
\* hw7_dijkstra.c on a matrix of weights; check is never cleared for s, and
\* pos is not set when all the vertices left are out of reach.
Unchecked(d) == {i \in Vertices : d.dist[i] < INF /\ i \notin d.check}
getMinDist(d) ==
  Min({i \in Unchecked(d) : \A j \in Unchecked(d) : d.dist[i] <= d.dist[j]})
\* Mutant: the last distance found is kept, not the least.
Relaxed_last(graph, d, pos, i) ==
  IF graph[pos][i] = INF \/ i \in d.check THEN d
  ELSE [d EXCEPT !.dist[i] = d.dist[pos] + graph[pos][i], !.prev[i] = pos]
Relaxed(graph, d, pos, i) ==
  IF graph[pos][i] = INF \/ i \in d.check \/ d.dist[i] <= d.dist[pos] + graph[pos][i] THEN d
  ELSE [d EXCEPT !.dist[i] = d.dist[pos] + graph[pos][i], !.prev[i] = pos]
DijkstraStep(graph, d) ==
  LET pos == getMinDist(d)
  IN  FoldLeft(LAMBDA e, i : Relaxed(graph, e, pos, i), [d EXCEPT !.check = @ \cup {pos}],
               SetToSortSeq(Vertices, <))
dijkstra(graph, s) ==
  LET start == [dist |-> [i \in Vertices |-> IF i = s THEN 0 ELSE INF],
                prev |-> [i \in Vertices |-> UNDEF], check |-> {}]
  IN  FoldLeft(LAMBDA d, k : DijkstraStep(graph, d), start, [k \in 1 .. MAX_VERTICES |-> k])
RECURSIVE getPath(_, _)
getPath(d, v) == IF d.prev[v] = UNDEF THEN <<v>> ELSE <<v>> \o getPath(d, d.prev[v])

\* Distances settle, and every path found has its distance.
Shortest(graph, s, d) ==
  /\ d.dist[s] = 0
  /\ \A u, v \in Vertices : graph[u][v] # INF => d.dist[v] <= d.dist[u] + graph[u][v]
  /\ \A v \in Vertices :
       LET path == getPath(d, v)
           length == FoldLeft(LAMBDA n, i : n + graph[path[i + 1]][path[i]], 0,
                              [i \in 1 .. Len(path) - 1 |-> i])
       IN  Last(path) = s /\ length = d.dist[v]
RECURSIVE Reached(_, _)
Reached(graph, seen) ==
  LET more == seen \cup {v \in Vertices : \E u \in seen : graph[u][v] # INF}
  IN  IF more = seen THEN seen ELSE Reached(graph, more)
Connected(graph, s) == Reached(graph, {s}) = Vertices

-----------------------------------------------------------------------------
\* hw3.c: terms by falling exponent behind a head; a term of an exponent that
\* is there is refused.
Term(coef, expon) == [coef |-> coef, expon |-> expon]
findPolynomial(p, expon) == \E i \in DOMAIN p : p[i].expon = expon
addPolynomial(p, coef, expon) ==
  IF findPolynomial(p, expon) THEN p
  ELSE InsertAt(p, 1 + Len(SelectSeq(p, LAMBDA t : t.expon > expon)), Term(coef, expon))
removePolynomial(p, expon) == SelectSeq(p, LAMBDA t : t.expon # expon)
\* A coefficient that becomes 0 stays: removePolynomial is called with the term
\* itself as the head and looks behind it.
Accumulated(c, coef, expon) ==
  IF findPolynomial(c, expon)
  THEN [i \in DOMAIN c |-> IF c[i].expon = expon THEN [c[i] EXCEPT !.coef = @ + coef] ELSE c[i]]
  ELSE addPolynomial(c, coef, expon)
multiplication(a, b) ==
  FoldLeft(LAMBDA c, u : FoldLeft(LAMBDA e, t : Accumulated(e, t.coef * u.coef,
                                                            t.expon + u.expon), c, a), <<>>, b)
Coefficient(p, n) == FoldLeft(LAMBDA s, t : s + (IF t.expon = n THEN t.coef ELSE 0), 0, p)
IsProduct(c, a, b) ==
  /\ \A i \in 2 .. Len(c) : c[i - 1].expon > c[i].expon
  /\ \A n \in 0 .. 4 : Coefficient(c, n) =
       FoldSet(LAMBDA i, s : s + Coefficient(a, i) * Coefficient(b, n - i), 0, 0 .. n)

\* hw2_hanoi.c
RECURSIVE hanoi(_, _, _, _)
hanoi(n, from, middle, to) ==
  IF n = 1 THEN <<<<1, from, to>>>>
  ELSE hanoi(n - 1, from, to, middle) \o <<<<n, from, to>>>> \o hanoi(n - 1, middle, from, to)
Smallest(pegs, peg) == Min({i \in DOMAIN pegs : pegs[i] = peg} \cup {Len(pegs) + 1})
Moved(pegs, m) ==
  IF Smallest(pegs, m[2]) = m[1] /\ Smallest(pegs, m[3]) > m[1]
  THEN [pegs EXCEPT ![m[1]] = m[3]] ELSE [i \in DOMAIN pegs |-> "broken"]
Solves(n, moves) ==
  /\ Len(moves) = 2 ^ n - 1
  /\ FoldLeft(Moved, [i \in 1 .. n |-> "A"], moves) = [i \in 1 .. n |-> "C"]

-----------------------------------------------------------------------------
\* What the trees promise.
Ascending(s) == \A i \in DOMAIN s : i = 1 \/ s[i - 1] < s[i]
HoldsExactly(s, keys) == Ascending(s) /\ ToSet(s) = keys
RECURSIVE Depths(_)
Depths(t) == IF t.isLeaf THEN {0} ELSE {d + 1 : d \in UNION {Depths(c) : c \in ToSet(t.childs)}}

-----------------------------------------------------------------------------
(***************************************************************************)
(* The programs of the data structures course and the tables of the last   *)
(* database, one at a time.  The state is a structure s, changed by the    *)
(* calls of the program, and ref, what its caller should find in it.       *)
(***************************************************************************)
CONSTANTS EDGES,   \* how many weights are set
          LEAF_ORDER, INTERNAL_ORDER, project, GROW, INT_MAX, LEAST, Records,
          Keys, TreeKeys, Numbers, Names, Weights, Coefs
VARIABLES part, s, ref
vars == <<part, s, ref>>
B == INSTANCE BPTree WITH t <- s, value <- ref

PlusMinus == {1, -1}
HashKeys == [number : Numbers, name : Names]
Sorted(q, d) == InsertAt(q, Len(SelectSeq(q, LAMBDA x : x <= d)) + 1, d)
Starts(p, s0, ref0) == part = p /\ s = s0 /\ ref = ref0
Init ==
  \/ \E p \in {"bst", "avl"} : Starts(p, Nil, {})
  \/ Starts("btree", [initBTNode EXCEPT !.isRoot = TRUE], {})
  \/ Starts("list", EmptyList, <<>>)
  \/ Starts("skip", EmptySkip, <<>>)
  \/ Starts("probe", [i \in 1 .. TABLE_SIZE |-> NULL], {})
  \/ Starts("chain", [i \in 1 .. TABLE_SIZE |-> <<>>], {})
  \/ Starts("heap", initHeap, <<>>)
  \/ Starts("queue", createCircularQueue, <<>>)
  \/ Starts("graph", {}, {})
  \/ Starts("pairs", <<>>, {})
  \/ Starts("weights", [u \in Vertices |-> [v \in Vertices |-> IF u = v THEN 0 ELSE INF]], {})
  \/ Starts("poly", [a |-> <<>>, b |-> <<>>], {})
  \/ Starts("hanoi", 1, {})
  \/ part = "table" /\ B!TInit

Do(p, s1, ref1) == part = p /\ s' = s1 /\ ref' = ref1 /\ UNCHANGED part
Trees == \E k \in TreeKeys :
  \/ part = "bst" /\ k \notin ref /\ Do("bst", insertTreeNode(s, k), ref \cup {k})
  \/ part = "bst" /\ s # Nil /\ DeletesOne(s, k) /\ Do("bst", deleteTreeNode(s, k), ref \ {k})
  \/ part = "avl" /\ k \notin ref /\ Do("avl", avlAdd(s, k), ref \cup {k})
  \/ part = "btree" /\ k \notin ref /\ Do("btree", BTInsert(s, k), ref \cup {k})
Lists ==
  \/ part = "list" /\ s.curCount < 4 /\ \E p \in 0 .. s.curCount, d \in {1, 2} :
        Do("list", addNode(s, p, d), InsertAt(ref, p + 1, d))
  \/ part = "list" /\ \E p \in 0 .. s.curCount - 1 :
        Do("list", removeNode(s, p), RemoveAt(ref, p + 1))
  \/ part = "list" /\ s.curCount > 0 /\ Do("list", reverseList(s), Reverse(ref))
  \/ part = "list" /\ Do("list", makeEmpty(s), <<>>)
  \/ part = "skip" /\ Len(ref) < 4 /\ \E d \in Keys, l \in Levels :
        Do("skip", insertSkipNode(s, d, l), Sorted(ref, d))
Tables == \E k \in HashKeys :
  \/ part = "probe" /\ Do("probe", addHashTable(s, k),
                          IF Cardinality(ref) = TABLE_SIZE THEN ref ELSE ref \cup {k})
  \/ part = "chain" /\ Cardinality(ref) < 4 /\ Do("chain", addChain(s, k), ref \cup {k})
Queue ==
  \/ part = "queue" /\ \E d \in Names :
        Do("queue", enqueue(s, d), IF Len(ref) = Capacity - 1 THEN ref ELSE Append(ref, d))
  \/ part = "queue" /\ Do("queue", dequeue(s), IF ref = <<>> THEN ref ELSE Tail(ref))
Heap ==
  \/ part = "heap" /\ \E d \in Keys :
        Do("heap", insertData(s, d), IF Len(ref) = MAX_NODES - 1 THEN ref ELSE Sorted(ref, d))
  \/ part = "heap" /\ Do("heap", deleteData(s), IF ref = <<>> THEN ref ELSE Front(ref))
Set(m) == Cardinality({e \in Vertices \X Vertices : e[1] # e[2] /\ m[e[1]][e[2]] # INF})
Graphs == \E u, v \in Vertices :
  \/ part = "graph" /\ u < v /\ Do("graph", s \cup {<<u, v>>}, ref)
  \/ part = "pairs" /\ Len(s) < 4 /\ Do("pairs", Append(s, <<u, v>>), ref)
  \/ part = "weights" /\ u # v /\ Set(s) < EDGES
       /\ \E w \in Weights : Do("weights", [s EXCEPT ![u][v] = w], ref)
Sums == \E q \in {"a", "b"}, n \in 0 .. 2 :
  \/ part = "poly" /\ \E c \in Coefs : Do("poly", [s EXCEPT ![q] = addPolynomial(@, c, n)], ref)
  \/ part = "poly" /\ Do("poly", [s EXCEPT ![q] = removePolynomial(@, n)], ref)
Hanoi == part = "hanoi" /\ s < 5 /\ Do("hanoi", s + 1, ref)
Table == \E k \in Records :
  \/ part = "table" /\ B!Insert(k) /\ UNCHANGED part
  \/ part = "table" /\ B!Delete(k) /\ UNCHANGED part

Next == Trees \/ Lists \/ Tables \/ Queue \/ Heap \/ Graphs \/ Sums \/ Hanoi \/ Table
Spec == Init /\ [][Next]_vars
View == IF part = "table" THEN <<part, B!Shape, ref>> ELSE <<part, s, ref>>
-----------------------------------------------------------------------------
\* A search tree holds what was inserted and not deleted, in order, finds it, and
\* a copy of it compares equal (hw5_BST.c).
BstExact ==
  part = "bst" => /\ HoldsExactly(Inorder(s), ref)
                  /\ \A k \in TreeKeys : (searchTreeNode(s, k) # Nil) = (k \in ref)
                  /\ compareTwoTree(s, copyTreeNode(s))
\* Rotations lose nothing, though they are chosen from wrong heights (AVLtree.c).
AvlExact ==
  part = "avl" => /\ HoldsExactly(Inorder(s), ref)
                  /\ \A k \in TreeKeys : avlSearch(s, k) = (k \in ref)
\* All leaves of the M_WAY tree are at one depth and every key is there once.
BTreeExact ==
  part = "btree" => /\ HoldsExactly(inorderTraversal(s), ref)
                    /\ Cardinality(Depths(s)) = 1
\* The linked list is the sequence its positions say, also when it is reversed
\* through the stack, and curCount is its length.
ListExact == part = "list" => Listed(s) = ref /\ s.curCount = Len(ref)
\* Every level of the skip list has the nodes that reach it, in order, and the
\* search ends at what it looks for, whatever the levels (randomizedskiplist.c).
SkipExact ==
  part = "skip" =>
    LET all == LevelNodes(s, 1)
    IN  /\ [i \in DOMAIN all |-> s[all[i]].data] = ref
        /\ \A i \in Levels : LevelNodes(s, i) = SelectSeq(all, LAMBDA a : s[a].level >= i)
        /\ \A d \in ToSet(ref) : s[searchSkipNode(s, d).node].data = d
\* A key is found exactly if it was added, in a full table too (hw6_hash.c).
ProbeExact == part = "probe" => \A k \in HashKeys : hashSearch(s, k) = (k \in ref)
\* The chains hold what was added, each key once (0531hash.c).
ChainExact ==
  part = "chain" => /\ \A k \in HashKeys : searchChain(s, k) = (k \in ref)
                    /\ FoldLeft(LAMBDA n, c : n + Len(c), 0, s) = Cardinality(ref)
\* The circular queue hands out what was put in, and shows it unless the first
\* element is in slot 0 (queue.c).
QueueExact ==
  part = "queue" =>
    /\ Len(ref) = (s.rear - s.front) % Capacity
    /\ \A i \in DOMAIN ref : s.data[(s.front + i) % Capacity] = ref[i]
    /\ s.front # Capacity - 1 => showQueue(s) = ref
\* deleteData takes the largest, though it compares with a slot past the end.
HeapExact ==
  part = "heap" => /\ SortSeq(Heaped(s), <) = ref
                   /\ \A i \in 2 .. s.lastIndex : s.nodes[i] <= s.nodes[i \div 2]
\* The traversals visit each vertex they can reach once, in their order.
TraversalsExact ==
  part = "graph" => \A v \in Vertices : /\ BfsOrder(s, v, bfs(s, v))
                                        /\ DfsOrder(s, v, dfs(s, v))
\* The classes printed are those of the equivalence the pairs generate, though
\* the lists that are walked serve as the stack.
ClassesExact ==
  part = "pairs" => EquivalenceClasses(s) = {Component(ToSet(s), v) : v \in Vertices}
\* Distances are shortest and the paths printed have that length.
DijkstraExact ==
  part = "weights" => \A v \in Vertices : Connected(s, v) => Shortest(s, v, dijkstra(s, v))
\* The product of two polynomials has the right coefficients.
ProductExact ==
  part = "poly" => IsProduct(multiplication(s.a, s.b), s.a, s.b)
\* The moves never put a disk on a smaller one and bring all of them to C.
HanoiSolved == part = "hanoi" => Solves(s, hanoi(s, "A", "B", "C"))

\* All of them, and what BPTree says of the tree of the database, its leaves and pages,
\* and of join_table (bpt.cc).
StructuresExact ==
  /\ BstExact /\ AvlExact /\ BTreeExact /\ ListExact /\ SkipExact /\ ProbeExact
  /\ ChainExact /\ QueueExact /\ HeapExact /\ TraversalsExact /\ ClassesExact
  /\ DijkstraExact /\ ProductExact /\ HanoiSolved
TablesKept ==
  part = "table" =>
    B!ValuesKept /\ B!LeavesInOrder /\ B!PagesAccounted /\ B!ParentsKnown /\ B!JoinExact
=============================================================================
