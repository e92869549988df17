--------------------------- MODULE CircQueueProofs ---------------------------
(***************************************************************************)
(* Lemmas about the circular queue of mlfq.c and xem.c, for every          *)
(* capacity: which slots are in use, what an enqueue and a dequeue do to   *)
(* the contents, and that the duplicate scan refuses nothing but an index  *)
(* that is queued.                                                         *)
(***************************************************************************)
EXTENDS CircQueue, SequenceTheorems, TLAPS

\* The slots that hold entries: after head, up to tail, around the end.
Window(q) ==
  {p \in Positions : \/ q.head < p /\ p <= q.tail
                     \/ q.tail < q.head /\ q.head < p
                     \/ q.tail < q.head /\ p <= q.tail}

\* Two slots in use hold the same index only where the duplicate scan does not
\* look: slot 0, with head on the last slot.
OnceEach(q) ==
  \A p, r \in Window(q) :
    p # r /\ q.arr[p] = q.arr[r] => q.head = Capacity - 1 /\ (p = 0 \/ r = 0)

\* A queue the code can produce.  The third conjunct is what makes the lap of
\* the duplicate scan over the whole array harmless: a slot that head has
\* passed on its present lap holds -1 until it is used again.
WellFormed(q) ==
  /\ q \in CQueue
  /\ \A p \in Window(q) : q.arr[p] \in Idx
  /\ \A p \in 1 .. q.head : p \in Window(q) \/ q.arr[p] = Empty
  /\ OnceEach(q)

\* What the lemmas need of the constants.
Sane == Capacity \in Nat /\ Capacity >= 2 /\ Idx \subseteq Nat

\* The only two cases "modulo" meets here.
LEMMA ModValue ==
  ASSUME Sane, NEW i \in 0 .. 2 * Capacity - 1
  PROVE  i % Capacity = IF i < Capacity THEN i ELSE i - Capacity
<1>1. CASE i < Capacity
  BY <1>1 DEF Sane
<1>2. CASE i >= Capacity
  BY <1>2 DEF Sane
<1> QED BY <1>1, <1>2 DEF Sane

LEMMA Cursors ==
  ASSUME Sane, NEW q \in CQueue
  PROVE  /\ q.head \in 0 .. Capacity - 1 /\ q.tail \in 0 .. Capacity - 1
         /\ Capacity \in Nat /\ Capacity >= 2
         /\ Positions = 0 .. Capacity - 1
  BY DEF Sane, CQueue, Positions

\* The number of entries and the slot of the k-th one, without "modulo".
LEMMA LengthValue ==
  ASSUME Sane, NEW q \in CQueue
  PROVE  /\ Length(q) = IF q.head <= q.tail THEN q.tail - q.head
                                              ELSE q.tail - q.head + Capacity
         /\ Length(q) \in 0 .. Capacity - 1
<1>1. CASE q.head <= q.tail
  <2>1. q.tail - q.head + Capacity \in 0 .. 2 * Capacity - 1
    BY Cursors
  <2>2. (q.tail - q.head + Capacity) % Capacity = q.tail - q.head
    BY <1>1, <2>1, ModValue, Cursors
  <2> QED BY <1>1, <2>2, Cursors DEF Length
<1>2. CASE q.tail < q.head
  <2>1. q.tail - q.head + Capacity \in 0 .. 2 * Capacity - 1
    BY Cursors
  <2>2. (q.tail - q.head + Capacity) % Capacity
           = q.tail - q.head + Capacity
    BY <1>2, <2>1, ModValue, Cursors
  <2>3. Length(q) = q.tail - q.head + Capacity
    BY <2>2 DEF Length
  <2> QED BY <1>2, <2>3, Cursors
<1> QED BY <1>1, <1>2, Cursors

LEMMA SlotValue ==
  ASSUME Sane, NEW q \in CQueue, NEW k \in 1 .. Capacity
  PROVE  (q.head + k) % Capacity =
           IF q.head + k < Capacity THEN q.head + k
                                       ELSE q.head + k - Capacity
<1>1. q.head + k \in 0 .. 2 * Capacity - 1
  BY Cursors
<1> QED BY <1>1, ModValue, Cursors

LEMMA InWindow ==
  ASSUME Sane, NEW q \in CQueue, NEW p \in 0 .. Capacity - 1
  PROVE  p \in Window(q) <=> \/ q.head < p /\ p <= q.tail
                             \/ q.tail < q.head /\ q.head < p
                             \/ q.tail < q.head /\ p <= q.tail
  BY DEF Window, Positions

LEMMA WindowSlots ==
  ASSUME Sane, NEW q \in CQueue
  PROVE  /\ \A k \in 1 .. Length(q) :
              (q.head + k) % Capacity \in Window(q)
         /\ \A p \in Window(q) : \E k \in 1 .. Length(q) :
              p = (q.head + k) % Capacity
<1> DEFINE h == q.head
           t == q.tail
           n == Length(q)
<1>a. /\ h \in 0 .. Capacity - 1 /\ t \in 0 .. Capacity - 1
      /\ Capacity \in Nat /\ Capacity >= 2
  BY Cursors
<1>b. /\ n = IF h <= t THEN t - h ELSE t - h + Capacity
      /\ n \in 0 .. Capacity - 1
  BY LengthValue
<1>c. \A k \in 1 .. Capacity :
        (h + k) % Capacity = IF h + k < Capacity THEN h + k
                                                 ELSE h + k - Capacity
  BY SlotValue
<1>d. \A p \in 0 .. Capacity - 1 :
        p \in Window(q) <=> \/ h < p /\ p <= t
                            \/ t < h /\ h < p
                            \/ t < h /\ p <= t
  BY InWindow
<1>e. Window(q) \subseteq 0 .. Capacity - 1
  BY DEF Window, Positions
<1> HIDE DEF h, t, n
<1>1. ASSUME NEW k \in 1 .. n
      PROVE  (h + k) % Capacity \in Window(q)
  <2>1. k \in 1 .. Capacity
    BY <1>a, <1>b
  <2>2. CASE h + k < Capacity
    <3>1. (h + k) % Capacity = h + k
      BY <1>c, <2>1, <2>2
    <3> QED BY <1>a, <1>b, <1>d, <2>1, <2>2, <3>1
  <2>3. CASE h + k >= Capacity
    <3>1. (h + k) % Capacity = h + k - Capacity
      BY <1>a, <1>c, <2>1, <2>3
    <3> QED BY <1>a, <1>b, <1>d, <2>1, <2>3, <3>1
  <2> QED BY <1>a, <2>1, <2>2, <2>3
<1>2. ASSUME NEW p \in Window(q)
      PROVE  \E k \in 1 .. n : p = (h + k) % Capacity
  <2>0. p \in 0 .. Capacity - 1
    BY <1>e
  <2>1. CASE h < p
    <3>1. p - h \in 1 .. n /\ p - h \in 1 .. Capacity
      BY <1>a, <1>b, <1>d, <2>0, <2>1
    <3> QED BY <1>a, <1>c, <2>0, <3>1
  <2>2. CASE p <= h
    <3>1. /\ p - h + Capacity \in 1 .. n
          /\ p - h + Capacity \in 1 .. Capacity
      BY <1>a, <1>b, <1>d, <2>0, <2>2
    <3> QED BY <1>a, <1>c, <2>0, <3>1
  <2> QED BY <1>a, <2>0, <2>1, <2>2
<1> QED BY <1>1, <1>2 DEF h, n

\* A cursor moved on by one.
LEMMA NextSlot ==
  ASSUME Sane, NEW i \in 0 .. Capacity - 1
  PROVE  /\ (i + 1) % Capacity = IF i = Capacity - 1 THEN 0 ELSE i + 1
         /\ (i + 1) % Capacity \in 0 .. Capacity - 1
<1>a. Capacity \in Nat /\ Capacity >= 2
  BY DEF Sane
<1> DEFINE j == i + 1
<1>1. j \in 0 .. 2 * Capacity - 1
  BY <1>a
<1> HIDE DEF j
<1>2. j % Capacity = IF j < Capacity THEN j ELSE j - Capacity
  BY <1>1, ModValue
<1> QED BY <1>a, <1>2 DEF j

\* The contents of a well-formed queue, as a sequence of indexes.
LEMMA ContentsValue ==
  ASSUME Sane, NEW q, WellFormed(q)
  PROVE  /\ Contents(q) \in Seq(Idx)
         /\ Len(Contents(q)) = Length(q)
         /\ Length(q) \in 0 .. Capacity - 1
         /\ \A k \in 1 .. Length(q) :
              /\ Contents(q)[k] = q.arr[(q.head + k) % Capacity]
              /\ (q.head + k) % Capacity \in Window(q)
<1> DEFINE n == Length(q)
<1>1. q \in CQueue /\ \A p \in Window(q) : q.arr[p] \in Idx
  BY DEF WellFormed
<1>2. n \in 0 .. Capacity - 1 /\ n \in Nat
  BY <1>1, LengthValue DEF Sane
<1>3. \A k \in 1 .. n : (q.head + k) % Capacity \in Window(q)
  BY <1>1, WindowSlots
<1>4. Contents(q) = [k \in 1 .. n |-> q.arr[(q.head + k) % Capacity]]
  BY DEF Contents
<1> HIDE DEF n
<1> QED BY <1>1, <1>2, <1>3, <1>4 DEF n

\* An accepted enqueue keeps a queue well formed and appends to its contents.
LEMMA EnqueueAppends ==
  ASSUME Sane, NEW q, WellFormed(q), NEW idx \in Idx, Accepts(q, idx)
  PROVE  /\ WellFormed(Enqueue(q, idx))
         /\ Length(q) < Capacity - 1
         /\ Length(Enqueue(q, idx)) = Length(q) + 1
         /\ Contents(Enqueue(q, idx)) = Append(Contents(q), idx)
<1> DEFINE h == q.head
           t == q.tail
           u == (q.tail + 1) % Capacity
           r == Enqueue(q, idx)
           n == Length(q)
<1>a. /\ h \in 0 .. Capacity - 1 /\ t \in 0 .. Capacity - 1
      /\ Capacity \in Nat /\ Capacity >= 2
  BY Cursors DEF WellFormed
<1>b. /\ u = IF t = Capacity - 1 THEN 0 ELSE t + 1
      /\ u \in 0 .. Capacity - 1
  BY <1>a, NextSlot
<1>c. h # u
  BY DEF Accepts, IsFull
<1>d. r = [arr |-> [q.arr EXCEPT ![u] = idx], head |-> h, tail |-> u]
  BY DEF Enqueue
<1>e. q.arr \in [0 .. Capacity - 1 -> Idx \cup {Empty, 0}]
  BY DEF WellFormed, CQueue, Positions
<1>f. r \in CQueue
  BY <1>a, <1>b, <1>d, <1>e DEF CQueue, Positions
<1>g. /\ r.head = h /\ r.tail = u
      /\ r.arr[u] = idx
      /\ \A p \in 0 .. Capacity - 1 : p # u => r.arr[p] = q.arr[p]
  <2> HIDE DEF h, u, r
  <2>1. r.head = h /\ r.tail = u /\ r.arr = [q.arr EXCEPT ![u] = idx]
    BY <1>d
  <2> QED BY <1>b, <1>e, <2>1
<1>h. /\ n = IF h <= t THEN t - h ELSE t - h + Capacity
      /\ Length(r) = IF h <= u THEN u - h ELSE u - h + Capacity
  BY <1>f, <1>g, LengthValue DEF WellFormed
<1>i. \A p \in 0 .. Capacity - 1 :
        /\ p \in Window(q) <=> \/ h < p /\ p <= t
                               \/ t < h /\ h < p
                               \/ t < h /\ p <= t
        /\ p \in Window(r) <=> \/ h < p /\ p <= u
                               \/ u < h /\ h < p
                               \/ u < h /\ p <= u
  BY <1>f, <1>g, InWindow DEF WellFormed
<1>j. /\ Window(r) \subseteq 0 .. Capacity - 1
      /\ \A p \in Window(q) : q.arr[p] \in Idx
      /\ \A p \in 1 .. h : p \in Window(q) \/ q.arr[p] = Empty
  BY DEF WellFormed, Window, Positions
<1> HIDE DEF h, t, u, r, n
<1>1. \A p \in 0 .. Capacity - 1 : p \in Window(r) <=> p \in Window(q) \/ p = u
  BY <1>a, <1>b, <1>c, <1>i
<1>2. WellFormed(r)
  <2>1. \A p \in Window(r) : r.arr[p] \in Idx
    BY <1>1, <1>g, <1>j
  <2>2. ASSUME NEW p \in 1 .. h
        PROVE  p \in Window(r) \/ r.arr[p] = Empty
    <3>1. p \in 0 .. Capacity - 1
      BY <1>a
    <3> QED BY <3>1, <1>1, <1>g, <1>j
  <2>3. ASSUME NEW s \in Window(q), q.arr[s] = idx
        PROVE  h = Capacity - 1 /\ s = 0
    <3>1. s \in 0 .. Capacity - 1 BY <2>3 DEF Window, Positions
    <3>2. h # t BY <1>a, <1>i, <2>3, <3>1
    <3>3. \A i \in Scanned(q) : Read(q, i) # idx
      BY <3>2 DEF Accepts, Seen, IsEmpty, h, t
    <3>4. s \notin Scanned(q) BY <1>a, <2>3, <3>1, <3>3 DEF Read
    <3>5. CASE h # Capacity - 1
      <4>1. \E k \in 1 .. Length(q) : s = (q.head + k) % Capacity
        BY <2>3, WindowSlots DEF WellFormed
      <4> QED BY <3>4, <3>5, <4>1 DEF Scanned, h
    <3>6. CASE h = Capacity - 1
      <4>1. s \in 1 .. t \/ s = 0 BY <1>a, <1>i, <2>3, <3>1, <3>6
      <4>2. t = 0 => s \in Scanned(q)
        BY <3>1, <3>6 DEF Scanned, Positions, h, t
      <4>3. t # 0 => 1 .. t \subseteq Scanned(q)
        BY <3>6 DEF Scanned, h, t
      <4> QED BY <3>4, <3>6, <4>1, <4>2, <4>3
    <3> QED BY <3>5, <3>6
  <2>4. OnceEach(r)
    <3>1. OnceEach(q) BY DEF WellFormed
    <3> SUFFICES ASSUME NEW p \in Window(r), NEW s \in Window(r), p # s, r.arr[p] = r.arr[s]
                 PROVE  h = Capacity - 1 /\ (p = 0 \/ s = 0)
      BY <1>g DEF OnceEach
    <3>2. p \in 0 .. Capacity - 1 /\ s \in 0 .. Capacity - 1 BY <1>j
    <3>3. CASE p # u /\ s # u
      <4>1. q.arr[p] = q.arr[s] /\ p \in Window(q) /\ s \in Window(q)
        BY <1>1, <1>g, <3>2, <3>3
      <4> QED BY <3>1, <4>1 DEF OnceEach, h
    <3>4. CASE p = u
      <4>1. s \in Window(q) /\ q.arr[s] = idx BY <1>1, <1>g, <3>2, <3>4
      <4> QED BY <2>3, <4>1
    <3>5. CASE s = u
      <4>1. p \in Window(q) /\ q.arr[p] = idx BY <1>1, <1>g, <3>2, <3>5
      <4> QED BY <2>3, <4>1
    <3> QED BY <3>3, <3>4, <3>5
  <2> QED BY <2>1, <2>2, <2>4, <1>f, <1>g DEF WellFormed
<1>3. Length(r) = n + 1 /\ n < Capacity - 1 /\ n \in Nat
  BY <1>a, <1>b, <1>c, <1>h
<1>4. Contents(r) = Append(Contents(q), idx)
  <2> DEFINE c == Contents(q)
             d == Contents(r)
             a == Append(c, idx)
  <2>1. /\ c \in Seq(Idx) /\ Len(c) = n
        /\ \A k \in 1 .. n : /\ c[k] = q.arr[(h + k) % Capacity]
                             /\ (h + k) % Capacity \in Window(q)
    BY ContentsValue DEF h, n
  <2>2. /\ d \in Seq(Idx) /\ Len(d) = n + 1
        /\ \A k \in 1 .. n + 1 : d[k] = r.arr[(h + k) % Capacity]
    <3>1. /\ d \in Seq(Idx) /\ Len(d) = Length(r)
          /\ \A k \in 1 .. Length(r) : d[k] = r.arr[(r.head + k) % Capacity]
      BY <1>2, ContentsValue
    <3> QED BY <3>1, <1>3, <1>g
  <2>3. /\ a \in Seq(Idx) /\ Len(a) = n + 1
        /\ \A k \in 1 .. n : a[k] = c[k]
        /\ a[n + 1] = idx
    BY <2>1, AppendProperties
  <2>4. (h + (n + 1)) % Capacity = u
    <3>1. n + 1 \in 1 .. Capacity
      BY <1>a, <1>3
    <3>2. \A k \in 1 .. Capacity :
            (h + k) % Capacity = IF h + k < Capacity THEN h + k
                                                     ELSE h + k - Capacity
      BY SlotValue DEF WellFormed, h
    <3> QED BY <3>1, <3>2, <1>a, <1>b, <1>c, <1>h, <1>3
  <2>5. u \notin Window(q)
    BY <1>a, <1>b, <1>c, <1>i
  <2>6. Window(q) \subseteq 0 .. Capacity - 1
    BY DEF Window, Positions
  <2> HIDE DEF a, c, d
  <2>7. ASSUME NEW k \in 1 .. n + 1 PROVE d[k] = a[k]
    <3>1. CASE k = n + 1
      BY <3>1, <2>2, <2>3, <2>4, <1>g
    <3>2. CASE k \in 1 .. n
      BY <3>2, <2>1, <2>2, <2>3, <2>5, <2>6, <1>g
    <3> QED BY <3>1, <3>2, <1>3
  <2>8. d = a
    BY <2>2, <2>3, <2>7, SeqEqual
  <2> QED BY <2>8 DEF a, c, d
<1> QED BY <1>2, <1>3, <1>4 DEF r, n

\* A dequeue of a queue with entries takes the oldest one and returns it.
LEMMA DequeueTakesHead ==
  ASSUME Sane, NEW q, WellFormed(q), ~IsEmpty(q)
  PROVE  /\ WellFormed(Dequeue(q))
         /\ Length(q) > 0
         /\ DequeueReply(q) \in Idx
         /\ DequeueReply(q) = Head(Contents(q))
         /\ Contents(q) # <<>>
         /\ Contents(Dequeue(q)) = Tail(Contents(q))
<1> DEFINE h == q.head
           t == q.tail
           g == (q.head + 1) % Capacity
           r == Dequeue(q)
           n == Length(q)
<1>a. /\ h \in 0 .. Capacity - 1 /\ t \in 0 .. Capacity - 1
      /\ Capacity \in Nat /\ Capacity >= 2
  BY Cursors DEF WellFormed
<1>b. /\ g = IF h = Capacity - 1 THEN 0 ELSE h + 1
      /\ g \in 0 .. Capacity - 1
  BY <1>a, NextSlot
<1>c. h # t
  BY DEF IsEmpty
<1>d. r = [arr |-> [q.arr EXCEPT ![g] = Empty], head |-> g, tail |-> t]
  BY DEF Dequeue
<1>e. q.arr \in [0 .. Capacity - 1 -> Idx \cup {Empty, 0}]
  BY DEF WellFormed, CQueue, Positions
<1>f. r \in CQueue
  BY <1>a, <1>b, <1>d, <1>e DEF CQueue, Positions
<1>g. /\ r.head = g /\ r.tail = t
      /\ r.arr[g] = Empty
      /\ \A p \in 0 .. Capacity - 1 : p # g => r.arr[p] = q.arr[p]
  <2> HIDE DEF h, t, g, r
  <2>1. r.head = g /\ r.tail = t /\ r.arr = [q.arr EXCEPT ![g] = Empty]
    BY <1>d
  <2> QED BY <1>b, <1>e, <2>1
<1>h. /\ n = IF h <= t THEN t - h ELSE t - h + Capacity
      /\ Length(r) = IF g <= t THEN t - g ELSE t - g + Capacity
  BY <1>f, <1>g, LengthValue DEF WellFormed
<1>i. \A p \in 0 .. Capacity - 1 :
        /\ p \in Window(q) <=> \/ h < p /\ p <= t
                               \/ t < h /\ h < p
                               \/ t < h /\ p <= t
        /\ p \in Window(r) <=> \/ g < p /\ p <= t
                               \/ t < g /\ g < p
                               \/ t < g /\ p <= t
  BY <1>f, <1>g, InWindow DEF WellFormed
<1>j. /\ Window(r) \subseteq 0 .. Capacity - 1
      /\ \A p \in Window(q) : q.arr[p] \in Idx
      /\ \A p \in 1 .. h : p \in Window(q) \/ q.arr[p] = Empty
  BY DEF WellFormed, Window, Positions
<1>k. /\ DequeueReply(q) = q.arr[g]
      /\ \A k \in 1 .. Capacity :
            /\ (h + k) % Capacity = IF h + k < Capacity THEN h + k
                                                     ELSE h + k - Capacity
            /\ (g + k) % Capacity = IF g + k < Capacity THEN g + k
                                                     ELSE g + k - Capacity
  BY <1>f, <1>g, SlotValue DEF WellFormed, DequeueReply, IsEmpty
<1> HIDE DEF h, t, g, r, n
<1>1. \A p \in 0 .. Capacity - 1 : p \in Window(r) <=> p \in Window(q) /\ p # g
  BY <1>a, <1>b, <1>c, <1>i
<1>2. WellFormed(r)
  <2>1. \A p \in Window(r) : r.arr[p] \in Idx
    BY <1>1, <1>g, <1>j
  <2>2. ASSUME NEW p \in 1 .. g
        PROVE  p \in Window(r) \/ r.arr[p] = Empty
    <3>1. CASE p = g
      BY <3>1, <1>g
    <3>2. CASE p # g
      <4>1. p \in 1 .. h /\ p \in 0 .. Capacity - 1
        BY <3>2, <1>a, <1>b
      <4> QED BY <3>2, <4>1, <1>1, <1>g, <1>j
    <3> QED BY <3>1, <3>2
  <2>3. OnceEach(r)
    <3>1. OnceEach(q) BY DEF WellFormed
    <3> SUFFICES ASSUME NEW p \in Window(r), NEW s \in Window(r), p # s, r.arr[p] = r.arr[s]
                 PROVE  FALSE
      BY DEF OnceEach
    <3>2. p \in 0 .. Capacity - 1 /\ s \in 0 .. Capacity - 1 BY <1>j
    <3>3. /\ q.arr[p] = q.arr[s] /\ p \in Window(q) /\ s \in Window(q)
          /\ p # g /\ s # g
      BY <1>1, <1>g, <3>2
    <3>4. h = Capacity - 1 /\ (p = 0 \/ s = 0) BY <3>1, <3>3 DEF OnceEach, h
    <3> QED BY <1>b, <3>3, <3>4
  <2> QED BY <2>1, <2>2, <2>3, <1>f, <1>g DEF WellFormed
<1>3. n = Length(r) + 1 /\ n \in 1 .. Capacity - 1
  BY <1>a, <1>b, <1>c, <1>h
<1> DEFINE c == Contents(q)
           d == Contents(r)
<1>4. /\ c \in Seq(Idx) /\ Len(c) = n
      /\ \A k \in 1 .. n : /\ c[k] = q.arr[(h + k) % Capacity]
                           /\ (h + k) % Capacity \in Window(q)
  BY ContentsValue DEF h, n
<1>5. /\ d \in Seq(Idx) /\ Len(d) = n - 1
      /\ \A k \in 1 .. n - 1 : /\ d[k] = r.arr[(g + k) % Capacity]
                               /\ (g + k) % Capacity \in Window(r)
  <2>1. /\ d \in Seq(Idx) /\ Len(d) = Length(r) /\ Length(r) \in Nat
        /\ \A k \in 1 .. Length(r) :
              /\ d[k] = r.arr[(r.head + k) % Capacity]
              /\ (r.head + k) % Capacity \in Window(r)
    BY <1>2, ContentsValue
  <2>2. Length(r) = n - 1
    BY <2>1, <1>3
  <2> QED BY <2>1, <2>2, <1>g
<1> HIDE DEF c, d
<1>6. c # <<>> /\ Tail(c) \in Seq(Idx) /\ Len(Tail(c)) = n - 1
      /\ \A k \in 1 .. n - 1 : Tail(c)[k] = c[k + 1]
  <2>1. c # <<>>
    BY <1>3, <1>4, EmptySeq
  <2> QED BY <2>1, <1>4, HeadTailProperties
<1>7. ASSUME NEW k \in 1 .. n - 1 PROVE d[k] = Tail(c)[k]
  <2>1. k + 1 \in 1 .. n /\ k \in 1 .. Capacity /\ k + 1 \in 1 .. Capacity
    BY <1>3, <1>a
  <2> DEFINE m == k + 1
  <2>2. (g + k) % Capacity = (h + m) % Capacity
    <3>1. (h + m) % Capacity = IF h + m < Capacity THEN h + m
                                                   ELSE h + m - Capacity
      BY <1>k, <2>1
    <3>2. (g + k) % Capacity = IF g + k < Capacity THEN g + k
                                                   ELSE g + k - Capacity
      BY <1>k, <2>1
    <3>3. CASE h = Capacity - 1
      BY <3>1, <3>2, <3>3, <1>a, <1>b, <2>1
    <3>4. CASE h # Capacity - 1
      BY <3>1, <3>2, <3>4, <1>a, <1>b, <2>1
    <3> QED BY <3>3, <3>4
  <2>3. c[m] = q.arr[(g + k) % Capacity]
    BY <2>1, <2>2, <1>4
  <2>4. (g + k) % Capacity # g /\ (g + k) % Capacity \in 0 .. Capacity - 1
    BY <1>1, <1>5, <1>j
  <2>5. d[k] = q.arr[(g + k) % Capacity]
    BY <2>4, <1>5, <1>g
  <2> QED BY <2>3, <2>5, <1>6
<1>8. d = Tail(c)
  BY <1>5, <1>6, <1>7, SeqEqual
<1>9. DequeueReply(q) = Head(c) /\ DequeueReply(q) \in Idx
  <2>1. Head(c) = c[1] /\ 1 \in 1 .. n
    BY <1>3, <1>4, <1>6
  <2>2. c[1] = q.arr[g] /\ c[1] \in Idx
    BY <2>1, <1>4, <1>j DEF h, g
  <2> QED BY <2>1, <2>2, <1>k
<1> QED BY <1>2, <1>3, <1>6, <1>8, <1>9 DEF c, d, n, r

\* An enqueue is refused only for an index that is queued or a full queue: the
\* lap the scan may make over slots that are not queued finds nothing there.
LEMMA RefusalJustified ==
  ASSUME Sane, NEW q, WellFormed(q), NEW idx \in Idx, ~Accepts(q, idx),
         idx # Capacity - 1
  PROVE  \/ Length(q) = Capacity - 1
         \/ \E k \in 1 .. Length(q) : Contents(q)[k] = idx
<1>a. /\ q.head \in 0 .. Capacity - 1 /\ q.tail \in 0 .. Capacity - 1
      /\ Capacity \in Nat /\ Capacity >= 2
      /\ Positions = 0 .. Capacity - 1
  BY Cursors DEF WellFormed
<1>b. Length(q) = IF q.head <= q.tail THEN q.tail - q.head
                                        ELSE q.tail - q.head + Capacity
  BY LengthValue DEF WellFormed
<1>1. CASE IsFull(q)
  <2> DEFINE h == q.head
             t == q.tail
  <2>1. h = IF t = Capacity - 1 THEN 0 ELSE t + 1
    BY <1>1, <1>a, NextSlot DEF IsFull
  <2>2. Length(q) = IF h <= t THEN t - h ELSE t - h + Capacity
    BY <1>b
  <2>3. t \in 0 .. Capacity - 1
    BY <1>a
  <2> HIDE DEF h, t
  <2> QED BY <1>a, <2>1, <2>2, <2>3
<1>2. CASE ~IsFull(q)
  <2>1. PICK i \in Scanned(q) : Read(q, i) = idx
    BY <1>2 DEF Accepts, Seen
  <2>2. q.head # q.tail
    BY <1>2 DEF Accepts, Seen, IsEmpty
  <2>3. SUFFICES ASSUME i \in Window(q) PROVE \E k \in 1 .. Length(q) : Contents(q)[k] = idx
    <3>1. i \in Window(q)
      <4>1. \A p \in 0 .. Capacity - 1 :
              p \in Window(q) <=> \/ q.head < p /\ p <= q.tail
                                  \/ q.tail < q.head /\ q.head < p
                                  \/ q.tail < q.head /\ p <= q.tail
        BY InWindow DEF WellFormed
      <4>2. i # Capacity
        <5>1. CASE i = Capacity
          <6>1. q.head = Capacity - 1 \/ i \in Positions
            <7>1. CASE q.head # Capacity - 1
              BY <7>1, <2>1, WindowSlots DEF Scanned, Window, WellFormed
            <7> QED BY <7>1
          <6>2. q.head = Capacity - 1 /\ q.head = idx
            BY <5>1, <6>1, <1>a, <2>1 DEF Read
          <6> QED BY <6>2
        <5> QED BY <5>1
      <4>3. CASE q.head # Capacity - 1
        BY <4>3, <2>1, WindowSlots DEF Scanned, WellFormed
      <4>4. CASE q.head = Capacity - 1 /\ q.tail # 0
        <5>1. i \in 1 .. q.tail
          BY <4>2, <4>4, <2>1 DEF Scanned
        <5> QED BY <5>1, <4>1, <4>4, <1>a, <2>2
      <4>5. CASE q.head = Capacity - 1 /\ q.tail = 0
        <5>1. i \in 0 .. Capacity - 1
          BY <4>2, <4>5, <2>1, <1>a DEF Scanned
        <5>2. CASE i = 0
          BY <5>2, <4>1, <4>5, <1>a
        <5>3. CASE i # 0
          <6>1. i \in 1 .. q.head
            BY <5>1, <5>3, <4>5, <1>a
          <6>2. q.arr[i] = idx
            BY <4>2, <2>1 DEF Read
          <6>3. idx # Empty
            BY DEF Sane, Empty
          <6> QED BY <6>1, <6>2, <6>3 DEF WellFormed
        <5> QED BY <5>2, <5>3
      <4> QED BY <4>3, <4>4, <4>5
    <3> QED BY <3>1
  <2>4. PICK k \in 1 .. Length(q) : i = (q.head + k) % Capacity
    BY <2>3, WindowSlots DEF WellFormed
  <2>5. i # Capacity
    BY <2>3, <1>a DEF Window
  <2>6. q.arr[i] = idx
    BY <2>1, <2>5 DEF Read
  <2> QED BY <2>4, <2>6, ContentsValue
<1> QED BY <1>1, <1>2

\* A new queue is well formed and empty.
LEMMA NewQueueEmpty ==
  ASSUME Sane, NEW v \in Idx \cup {Empty, 0}
  PROVE  /\ WellFormed(NewQueue(v))
         /\ Contents(NewQueue(v)) = <<>>
<1> DEFINE z == NewQueue(v)
<1>1. /\ z.head = 0 /\ z.tail = 0
      /\ z.arr = [i \in 0 .. Capacity - 1 |-> v]
  BY DEF NewQueue, Positions
<1>2. z \in CQueue
  BY DEF Sane, NewQueue, CQueue, Positions
<1>3. Window(z) = {}
  BY <1>1 DEF Window, Positions
<1>4. WellFormed(z)
  BY <1>1, <1>2, <1>3 DEF WellFormed, OnceEach
<1>5. Length(z) = 0
  BY <1>1, <1>2, LengthValue
<1> QED BY <1>4, <1>5 DEF Contents

\* What each call does to one queue, in terms of its contents.
LEMMA EnqueueStep ==
  ASSUME Sane, NEW q, WellFormed(q), NEW idx \in Idx
  PROVE  /\ WellFormed(Enqueue(q, idx))
         /\ EnqueueReply(q, idx) \in Idx \cup {Empty}
<1>1. CASE Accepts(q, idx)
  BY <1>1, EnqueueAppends DEF EnqueueReply
<1>2. CASE ~Accepts(q, idx)
  BY <1>2 DEF Enqueue, EnqueueReply
<1> QED BY <1>1, <1>2

\* The k-th entries are in slots of their own.
LEMMA SlotsApart ==
  ASSUME Sane, NEW q \in CQueue, NEW j \in 1 .. Capacity - 1, NEW k \in 1 .. Capacity - 1,
         j < k
  PROVE  /\ (q.head + j) % Capacity # (q.head + k) % Capacity
         /\ q.head = Capacity - 1 /\ (q.head + j) % Capacity = 0 => j = 1
         /\ q.head = Capacity - 1 => (q.head + k) % Capacity # 0
<1> DEFINE h == q.head
<1>1. /\ h \in 0 .. Capacity - 1 /\ Capacity \in Nat /\ Capacity >= 2
      /\ j \in 1 .. Capacity /\ k \in 1 .. Capacity
  BY Cursors
<1>2. \A i \in 1 .. Capacity :
        (h + i) % Capacity = IF h + i < Capacity THEN h + i ELSE h + i - Capacity
  BY SlotValue
<1> HIDE DEF h
<1>3. /\ (h + j) % Capacity = IF h + j < Capacity THEN h + j ELSE h + j - Capacity
      /\ (h + k) % Capacity = IF h + k < Capacity THEN h + k ELSE h + k - Capacity
  BY <1>1, <1>2
<1> QED BY <1>1, <1>3 DEF h

LEMMA EmptyContents ==
  ASSUME Sane, NEW q, WellFormed(q)
  PROVE  Contents(q) = <<>> <=> IsEmpty(q)
<1>1. CASE IsEmpty(q)
  <2>1. Length(q) = 0
    BY <1>1, LengthValue, Cursors DEF IsEmpty, WellFormed
  <2> QED BY <1>1, <2>1 DEF Contents
<1>2. CASE ~IsEmpty(q)
  BY <1>2, DequeueTakesHead
<1> QED BY <1>1, <1>2
==============================================================================
