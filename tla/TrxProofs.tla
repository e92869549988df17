------------------------------ MODULE TrxProofs ------------------------------
(***************************************************************************)
(* For any transactions, records, pages and number of calls: the locks of  *)
(* a record are granted without conflict and in order, no update is lost,  *)
(* and nobody reads what is not committed.                                 *)
(*                                                                         *)
(* The argument: of two locks of a record that conflict the later one      *)
(* waits, and a reader points to the last exclusive lock before it; a      *)
(* transaction with a lock that waits is asking for that lock and cannot   *)
(* end, so the lock that goes away was granted and is the first of those   *)
(* it conflicts with; a page and the copies made of it agree as long as    *)
(* its latch is held; a value that is not committed is that of the one     *)
(* transaction with the exclusive lock, which can undo it.                 *)
(***************************************************************************)
EXTENDS Trx, FiniteSetTheorems, SequenceTheorems, TLAPS

\* The inductive invariant: the locks of one record,
Locks == [trx : Trx, mode : {S, X}, state : {"RUN", "WAIT"},
          wait : {NONE} \cup [trx : Trx, mode : {X}]]
\* a second lock of a transaction is the upgrade of a shared one that was granted,
Pairs(list) ==
  \A i, j \in DOMAIN list : i < j /\ list[i].trx = list[j].trx =>
    list[i].mode = S /\ list[j].mode = X /\ list[i].state = "RUN"
\* of two that conflict the later one waits,
InOrder(list) ==
  \A i, j \in DOMAIN list : i < j /\ Conflict(list[i], list[j]) => list[j].state = "WAIT"
\* and a reader points to the last exclusive lock before it, or there is none.
Behind(list) ==
  \A j \in DOMAIN list :
    /\ list[j].wait = NONE /\ list[j].mode = S => \A i \in 1 .. j - 1 : list[i].mode = S
    /\ list[j].wait # NONE => /\ list[j].mode = S
                              /\ \E i \in 1 .. j - 1 :
                                   /\ list[i].mode = X /\ list[i].trx = list[j].wait.trx
                                   /\ \A h \in i + 1 .. j - 1 : list[h].mode = S
ListOK(list) == list \in Seq(Locks) /\ Pairs(list) /\ InOrder(list) /\ Behind(list)

\* Where threads are,
Choosing == {"upgrade", "new", "first"}
Deciding == {"covered", "deadlock", "retry", "retry upgrade"} \cup Choosing
Asking == {"loop", "want", "got", "asleep", "signalled", "hung"} \cup Deciding
Working == {"work", "log"}
Resting == {"idle", "end", "done", "undo", "aborted"}
Latched == {"want", "got"} \cup Deciding \cup Working
Threads == [at : Asking \cup Working \cup Resting, key : Keys \cup {NONE}, mode : {S, X, NONE},
            calls : Nat, got : {NONE, "RUN", "WAIT", "DEADLOCK"}]
Sections ==
  /\ pc \in [Trx -> Threads]
  /\ \A t \in Trx : pc[t].at \in Asking \cup Working => K(t) \in Keys /\ pc[t].mode \in {S, X}
  /\ lock_table_mutex \in Trx \cup {NONE} /\ trx_table_mutex \in Trx \cup {NONE}
  /\ \A t \in Trx : pc[t].at \in Deciding => lock_table_mutex = t
\* the locks of each of them on a record, without their places in the list:
LocksOf(list, t) ==
  {<<list[i].mode, list[i].state>> : i \in {j \in DOMAIN list : list[j].trx = t}}
L(k, t) == LocksOf(table[k], t)
\* what a thread in lock_record has found out about the list is still true,
FoundAt(t) ==
  /\ pc[t].at \in Choosing =>
       L(K(t), t) \subseteq {<<S, "RUN">>} /\ (pc[t].mode = S => L(K(t), t) = {})
  /\ pc[t].at = "covered" => pc[t].mode = S /\ <<X, "RUN">> \in L(K(t), t)
  /\ pc[t].at \in {"retry", "retry upgrade"} => \E s \in {"RUN", "WAIT"} : <<pc[t].mode, s>> \in L(K(t), t)
\* who has a lock that waits is asking for it, and who works has one that does not.
WaitsAt(t) ==
  \A k \in Keys : \A m \in {S, X} : <<m, "WAIT">> \in L(k, t) =>
    /\ pc[t].at \in Asking /\ K(t) = k /\ pc[t].mode = m
    /\ pc[t].at = "got" => pc[t].got # "RUN"
WorksAt(t) ==
  pc[t].at \in Working \/ (pc[t].at = "got" /\ pc[t].got = "RUN") =>
    <<X, "RUN">> \in L(K(t), t) \/ (pc[t].mode = S /\ <<S, "RUN">> \in L(K(t), t))
LocksInv ==
  /\ table = [k \in Keys |-> table[k]] /\ \A k \in Keys : ListOK(table[k])
  /\ Sections /\ \A t \in Trx : FoundAt(t) /\ WaitsAt(t) /\ WorksAt(t)

\* The copy of a thread is the page, which it has latched,
OnPage(p) == {k \in Keys : leaf[k] = p}
Latches ==
  /\ leaf \in [Keys -> Leaves] /\ latch \in [Leaves -> Trx \cup {NONE}]
  /\ DOMAIN page = Leaves /\ \A p \in Leaves : page[p] \in [OnPage(p) -> Writers]
  /\ DOMAIN copy = Trx /\ latest \in [Keys -> Writers]
  /\ history \in [Trx -> Seq([key : Keys, old_value : Writers])]
CopyAt(t) ==
  pc[t].at \in Latched =>
    /\ latch[leaf[K(t)]] = t
    /\ copy[t] \in [OnPage(leaf[K(t)]) -> Writers]
    /\ page[leaf[K(t)]] = IF pc[t].at = "log" THEN [copy[t] EXCEPT ![K(t)] = t] ELSE copy[t]
\* a value that is not committed is that of a transaction with the exclusive lock, which
\* has logged it or is about to,
Undone(t, k) == \E i \in DOMAIN history[t] : history[t][i].key = k
ValueOf(k) ==
  ~Finished(latest[k]) =>
    /\ <<X, "RUN">> \in L(k, latest[k])
    /\ Undone(latest[k], k) \/ (pc[latest[k]].at = "log" /\ K(latest[k]) = k)
\* and it still has the lock of whatever it has logged.
Settled(t, v) == v = t \/ Finished(v)
LogOf(t) ==
  /\ pc[t].at # "done" => \A i \in DOMAIN history[t] :
       /\ <<X, "RUN">> \in L(history[t][i].key, t)
       /\ Settled(t, history[t][i].old_value)
       /\ history[t][i].old_value = t => \E h \in 1 .. i - 1 : history[t][h].key = history[t][i].key
  /\ pc[t].at = "undo" => history[t] # <<>>
  /\ pc[t].at = "log" =>
       /\ pc[t].mode = X /\ Settled(t, copy[t][K(t)])
       /\ copy[t][K(t)] = t => Undone(t, K(t))
RecordsInv ==
  /\ Latches /\ NoLostUpdate
  /\ \A t \in Trx : CopyAt(t) /\ LogOf(t)
  /\ \A k \in Keys : ValueOf(k)
-----------------------------------------------------------------------------

\* A list without the lock at i: the later ones move down by one.
LEMMA Removal ==
  ASSUME NEW T, NEW list \in Seq(T), NEW i \in 1 .. Len(list)
  PROVE  /\ RemoveAt(list, i) \in Seq(T)
         /\ Len(RemoveAt(list, i)) = Len(list) - 1
         /\ \A j \in 1 .. Len(list) - 1 : RemoveAt(list, i)[j] = list[IF j < i THEN j ELSE j + 1]
<1> DEFINE a == SubSeq(list, 1, i - 1)
           b == SubSeq(list, i + 1, Len(list))
<1>1. /\ a \in Seq(T) /\ Len(a) = i - 1
      /\ \A j \in 1 .. i - 1 : a[j] = list[j]
  <2>1. i - 1 \in 0 .. Len(list)
    OBVIOUS
  <2> QED
    BY <2>1, SubSeqProperties
<1>2. /\ b \in Seq(T) /\ Len(b) = Len(list) - i
      /\ \A j \in 1 .. Len(list) - i : b[j] = list[i + j]
  <2>1. i + 1 \in 1 .. Len(list) + 1 /\ Len(list) \in i .. Len(list)
    OBVIOUS
  <2>2. /\ b \in Seq(T)
        /\ Len(b) = IF i + 1 <= Len(list) THEN Len(list) - (i + 1) + 1 ELSE 0
        /\ \A j \in 1 .. Len(list) - (i + 1) + 1 : b[j] = list[(i + 1) + j - 1]
    BY <2>1, SubSeqProperties
  <2> QED
    BY <2>2
<1> HIDE DEF a, b
<1>3. /\ a \o b \in Seq(T) /\ Len(a \o b) = Len(a) + Len(b)
      /\ \A j \in 1 .. Len(a) + Len(b) : (a \o b)[j] = IF j <= Len(a) THEN a[j] ELSE b[j - Len(a)]
  BY <1>1, <1>2, ConcatProperties
<1>4. RemoveAt(list, i) = a \o b
  BY DEF RemoveAt, a, b
<1>5. ASSUME NEW j \in 1 .. Len(list) - 1
      PROVE  (a \o b)[j] = list[IF j < i THEN j ELSE j + 1]
  <2>1. CASE j < i
    BY <2>1, <1>1, <1>2, <1>3
  <2>2. CASE j >= i
    <3>1. j - Len(a) \in 1 .. Len(list) - i /\ i + (j - Len(a)) = j + 1
      BY <2>2, <1>1
    <3>2. (a \o b)[j] = b[j - Len(a)]
      BY <2>2, <1>1, <1>2, <1>3
    <3>3. b[j - Len(a)] = list[i + (j - Len(a))]
      BY <3>1, <1>2
    <3>4. ~(j < i)
      BY <2>2
    <3> QED
      BY <3>1, <3>2, <3>3, <3>4
  <2>3. j < i \/ j >= i
    OBVIOUS
  <2> QED
    BY <2>1, <2>2, <2>3
<1>6. Len(a) + Len(b) = Len(list) - 1
  BY <1>1, <1>2
<1>7. /\ a \o b \in Seq(T) /\ Len(a \o b) = Len(list) - 1
  BY <1>3, <1>6
<1> QED
  BY <1>7, <1>4, <1>5

\* The greatest and the only element.
LEMMA GreatestNatural ==
  ASSUME NEW n \in Nat, NEW N, N \subseteq 1 .. n, N # {}
  PROVE  Max(N) \in N /\ \A j \in N : j <= Max(N)
<1> DEFINE T == {n - k : k \in N}
<1>1. T \subseteq Nat /\ T # {}
  <2>1. \A k \in N : n - k \in Nat
    OBVIOUS
  <2>2. PICK k \in N : TRUE
    OBVIOUS
  <2> QED
    BY <2>1, <2>2
<1> DEFINE R == OpToRel(<, Nat)
<1>2. IsWellFoundedOn(R, Nat)
  BY NatLessThanWellFounded
<1>3. \A x, y \in Nat : <<y, x>> \in R <=> y < x
  BY DEF OpToRel
<1> HIDE DEF T, R
<1>4. PICK x \in T : \A y \in T : ~(<<y, x>> \in R)
  BY <1>1, <1>2, WFMin
<1>5. PICK k \in N : x = n - k
  BY <1>4 DEF T
<1>6. ASSUME NEW j \in N PROVE k >= j
  <2>1. n - j \in T /\ n - j \in Nat /\ x \in Nat
    BY <1>1, <1>4 DEF T
  <2>2. ~(n - j < x)
    BY <2>1, <1>3, <1>4
  <2> QED
    BY <2>2, <1>5
<1>7. \E m \in N : \A j \in N : m >= j
  BY <1>6
<1>8. Max(N) \in N /\ \A j \in N : Max(N) >= j
  BY <1>7 DEF Max
<1> QED
  BY <1>8

LEMMA SmallestOf ==
  ASSUME NEW n \in Nat, NEW N, N \subseteq 1 .. n, N # {}
  PROVE  Min(N) \in N /\ \A j \in N : Min(N) <= j
<1>1. N \subseteq Nat
  OBVIOUS
<1> DEFINE R == OpToRel(<, Nat)
<1>2. IsWellFoundedOn(R, Nat)
  BY NatLessThanWellFounded
<1>3. \A x, y \in Nat : <<y, x>> \in R <=> y < x
  BY DEF OpToRel
<1> HIDE DEF R
<1>4. PICK x \in N : \A y \in N : ~(<<y, x>> \in R)
  BY <1>1, <1>2, WFMin
<1>5. \A y \in N : x <= y
  <2>1. \A y \in N : x \in Nat /\ y \in Nat /\ ~(y < x)
    BY <1>1, <1>3, <1>4
  <2> QED
    BY <2>1
<1> QED
  BY <1>5 DEF Min

-----------------------------------------------------------------------------
\* What a transaction may add to a list: it has at most a shared lock there, which was
\* granted, and wants the exclusive one.
MayAdd(list, t, mode) ==
  \A i \in DOMAIN list : list[i].trx = t => list[i].mode = S /\ mode = X /\ list[i].state = "RUN"
\* A list and the same with one more lock.
LEMMA Longer ==
  ASSUME NEW list, ListOK(list), NEW new \in Locks,
         \A i \in DOMAIN list : list[i].trx = new.trx => list[i].mode = S /\ new.mode = X /\ list[i].state = "RUN",
         \A i \in DOMAIN list : Conflict(list[i], new) => new.state = "WAIT",
         new.wait = NONE /\ new.mode = S => \A i \in DOMAIN list : list[i].mode = S,
         new.wait # NONE => /\ new.mode = S
                            /\ \E i \in DOMAIN list :
                                 /\ list[i].mode = X /\ list[i].trx = new.wait.trx
                                 /\ \A h \in DOMAIN list : h > i => list[h].mode = S
  PROVE  ListOK(Append(list, new))
<1> DEFINE n == Len(list) + 1
           more == Append(list, new)
<1>1. /\ list \in Seq(Locks) /\ DOMAIN list = 1 .. Len(list) /\ Len(list) \in Nat
  BY DEF ListOK
<1>2. /\ more \in Seq(Locks) /\ Len(more) = n /\ more[n] = new
      /\ \A i \in 1 .. Len(list) : more[i] = list[i]
  BY <1>1, AppendProperties
<1>3. DOMAIN more = 1 .. n
  BY <1>2
<1> HIDE DEF more
<1>4. Pairs(more)
  <2> SUFFICES ASSUME NEW i \in 1 .. n, NEW j \in 1 .. n, i < j, more[i].trx = more[j].trx
               PROVE  more[i].mode = S /\ more[j].mode = X /\ more[i].state = "RUN"
    BY <1>3 DEF Pairs
  <2>1. i \in 1 .. Len(list) /\ more[i] = list[i]
    BY <1>1, <1>2
  <2>2. CASE j = n
    BY <2>1, <2>2, <1>1, <1>2
  <2>3. CASE j # n
    BY <2>1, <2>3, <1>1, <1>2 DEF ListOK, Pairs
  <2> QED
    BY <2>2, <2>3
<1>5. InOrder(more)
  <2> SUFFICES ASSUME NEW i \in 1 .. n, NEW j \in 1 .. n, i < j, Conflict(more[i], more[j])
               PROVE  more[j].state = "WAIT"
    BY <1>3 DEF InOrder
  <2>1. i \in 1 .. Len(list) /\ more[i] = list[i]
    BY <1>1, <1>2
  <2>2. CASE j = n
    BY <2>1, <2>2, <1>1, <1>2
  <2>3. CASE j # n
    BY <2>1, <2>3, <1>1, <1>2 DEF ListOK, InOrder
  <2> QED
    BY <2>2, <2>3
<1>6. ASSUME NEW j \in 1 .. n, more[j].wait = NONE, more[j].mode = S, NEW i \in 1 .. j - 1
      PROVE  more[i].mode = S
  <2>1. i \in 1 .. Len(list) /\ more[i] = list[i]
    BY <1>1, <1>2
  <2>2. CASE j = n
    BY <2>1, <2>2, <1>1, <1>2, <1>6
  <2>3. CASE j # n
    BY <2>1, <2>3, <1>1, <1>2, <1>6 DEF ListOK, Behind
  <2> QED
    BY <2>2, <2>3
<1>7. ASSUME NEW j \in 1 .. n, more[j].wait # NONE
      PROVE  /\ more[j].mode = S
             /\ \E i \in 1 .. j - 1 : /\ more[i].mode = X /\ more[i].trx = more[j].wait.trx
                                      /\ \A h \in i + 1 .. j - 1 : more[h].mode = S
  <2>1. CASE j = n
    <3>1. new.mode = S
      BY <2>1, <1>7, <1>2
    <3>2. PICK i \in 1 .. Len(list) : /\ list[i].mode = X /\ list[i].trx = new.wait.trx
                                      /\ \A h \in DOMAIN list : h > i => list[h].mode = S
      BY <2>1, <1>7, <1>2, <1>1
    <3>3. i \in 1 .. j - 1 /\ more[i].mode = X /\ more[i].trx = more[j].wait.trx
      BY <3>2, <2>1, <1>1, <1>2
    <3>4. \A h \in i + 1 .. j - 1 : more[h].mode = S
      BY <3>2, <2>1, <1>1, <1>2
    <3> QED
      BY <3>1, <3>3, <3>4, <2>1, <1>2
  <2>2. CASE j # n
    <3>1. j \in 1 .. Len(list) /\ more[j] = list[j]
      BY <2>2, <1>1, <1>2
    <3>2. list[j].mode = S
      BY <3>1, <1>7, <1>1 DEF ListOK, Behind
    <3>3. PICK i \in 1 .. j - 1 : /\ list[i].mode = X /\ list[i].trx = list[j].wait.trx
                                  /\ \A h \in i + 1 .. j - 1 : list[h].mode = S
      BY <3>1, <1>7, <1>1 DEF ListOK, Behind
    <3>4. \A h \in 1 .. j - 1 : more[h] = list[h]
      BY <3>1, <1>1, <1>2
    <3> QED
      BY <3>1, <3>2, <3>3, <3>4, <1>1
  <2> QED
    BY <2>1, <2>2
<1>8. Behind(more)
  BY <1>3, <1>6, <1>7 DEF Behind
<1> QED
  BY <1>2, <1>4, <1>5, <1>8 DEF ListOK, more

\* What lock_record adds keeps the list in order.
LEMMA NewLockOK ==
  ASSUME NEW list, ListOK(list), NEW t \in Trx, NEW mode \in {S, X}, MayAdd(list, t, mode)
  PROVE  /\ NewLock(list, t, mode) \in Locks
         /\ NewLock(list, t, mode).trx = t /\ NewLock(list, t, mode).mode = mode
         /\ ListOK(Append(list, NewLock(list, t, mode)))
<1> DEFINE new == NewLock(list, t, mode)
<1>1. list \in Seq(Locks) /\ DOMAIN list = 1 .. Len(list) /\ Len(list) \in Nat
  BY DEF ListOK
<1>2. \A i \in DOMAIN list : list[i] \in Locks /\ list[i].mode \in {S, X} /\ list[i].trx \in Trx
  <2>1. \A i \in DOMAIN list : list[i] \in Locks
    BY <1>1
  <2> QED
    BY <2>1 DEF Locks
<1>3. S # X
  BY DEF S, X
<1>4. /\ Has(list, t, S) <=> \E i \in DOMAIN list : list[i].trx = t /\ list[i].mode = S
      /\ OthersX(list, t) = {} <=> \A i \in DOMAIN list : list[i].trx = t \/ list[i].mode # X
  BY DEF Has, Places, OthersX
<1>5. CASE list = <<>>
  <2>1. new = Lock(t, mode, "RUN", NONE)
    BY <1>5 DEF NewLock
  <2>2. new \in Locks /\ new.trx = t /\ new.mode = mode /\ new.state = "RUN" /\ new.wait = NONE
    BY <2>1 DEF Lock, Locks
  <2>3. DOMAIN list = {}
    BY <1>5
  <2>4. ListOK(Append(list, new))
    BY <2>2, <2>3, Longer
  <2> QED
    BY <2>2, <2>4
<1>6. CASE list # <<>> /\ Has(list, t, S)
  <2>1. new = Lock(t, X, IF Sole(list) THEN "RUN" ELSE "WAIT", NONE)
    BY <1>6 DEF NewLock
  <2>2. mode = X
    BY <1>4, <1>6 DEF MayAdd
  <2>3. /\ new \in Locks /\ new.trx = t /\ new.mode = mode /\ new.wait = NONE
        /\ new.state = IF Sole(list) THEN "RUN" ELSE "WAIT"
    BY <2>1, <2>2 DEF Lock, Locks
  <2>4. ASSUME NEW i \in DOMAIN list, Conflict(list[i], new)
        PROVE  new.state = "WAIT"
    <3>1. list[i].trx # t
      BY <2>4, <2>3 DEF Conflict
    <3>2. PICK k \in DOMAIN list : list[k].trx = t
      BY <1>4, <1>6
    <3>3. ~Sole(list)
      BY <3>1, <3>2, <1>1 DEF Sole
    <3> QED
      BY <3>3, <2>3
  <2>5. ListOK(Append(list, new))
    BY <2>2, <2>3, <2>4, <1>3, Longer DEF MayAdd
  <2> QED
    BY <2>3, <2>5
<1>7. CASE list # <<>> /\ ~Has(list, t, S) /\ mode = S /\ OthersX(list, t) = {}
  <2>1. new = Lock(t, S, "RUN", NONE)
    BY <1>7, <1>3 DEF NewLock
  <2>2. new \in Locks /\ new.trx = t /\ new.mode = mode /\ new.wait = NONE
    BY <2>1, <1>7 DEF Lock, Locks
  <2>3. \A i \in DOMAIN list : list[i].trx # t /\ list[i].mode = S
    BY <1>2, <1>3, <1>4, <1>7 DEF MayAdd
  <2>4. ListOK(Append(list, new))
    BY <2>2, <2>3, <1>3, <1>7, Longer DEF Conflict
  <2> QED
    BY <2>2, <2>4
<1>8. CASE list # <<>> /\ ~Has(list, t, S) /\ mode = S /\ OthersX(list, t) # {}
  <2> DEFINE m == Max(OthersX(list, t))
  <2>1. m \in OthersX(list, t) /\ \A j \in OthersX(list, t) : j <= m
    <3>1. OthersX(list, t) \subseteq 1 .. Len(list)
      BY <1>1 DEF OthersX
    <3> QED
      BY <3>1, <1>1, <1>8, GreatestNatural
  <2>2. m \in DOMAIN list /\ list[m].trx # t /\ list[m].mode = X
    BY <2>1 DEF OthersX
  <2>3. new = Lock(t, S, "WAIT", [trx |-> list[m].trx, mode |-> X])
    BY <1>8, <1>3 DEF NewLock, LastX
  <2>4. /\ new \in Locks /\ new.trx = t /\ new.mode = mode /\ new.state = "WAIT"
        /\ new.wait.trx = list[m].trx
    BY <2>2, <2>3, <1>2, <1>8 DEF Lock, Locks
  <2> HIDE DEF m
  <2>5. \A i \in DOMAIN list : list[i].trx # t
    BY <1>3, <1>8 DEF MayAdd
  <2>6. ASSUME NEW h \in DOMAIN list, h > m PROVE list[h].mode = S
    <3>1. h \notin OthersX(list, t)
      BY <2>1, <2>2, <2>6, <1>1
    <3> QED
      BY <3>1, <2>5, <1>2 DEF OthersX
  <2>7. new.wait # NONE
    <3>1. [trx |-> list[m].trx, mode |-> X] \in [trx : Trx, mode : {"EXCLUSIVE"}]
      BY <2>2, <1>2 DEF X
    <3>2. new.wait = [trx |-> list[m].trx, mode |-> X]
      BY <2>3 DEF Lock
    <3> QED
      BY <3>1, <3>2, TrxAssumption
  <2>8. ListOK(Append(list, new))
    BY <2>2, <2>4, <2>5, <2>6, <2>7, <1>8, Longer
  <2> QED
    BY <2>4, <2>8
<1>9. CASE list # <<>> /\ ~Has(list, t, S) /\ mode = X
  <2>1. new = Lock(t, X, "WAIT", NONE)
    BY <1>9, <1>3 DEF NewLock
  <2>2. new \in Locks /\ new.trx = t /\ new.mode = mode /\ new.state = "WAIT" /\ new.wait = NONE
    BY <2>1, <1>9 DEF Lock, Locks
  <2>3. ListOK(Append(list, new))
    BY <2>2, <1>3, <1>9, Longer DEF MayAdd
  <2> QED
    BY <2>2, <2>3
<1> QED
  BY <1>5, <1>6, <1>7, <1>8, <1>9


\* A lock that is granted on a retry has no lock in conflict before it.
LEMMA RetriedOK ==
  ASSUME NEW list, ListOK(list), NEW i \in DOMAIN list
  PROVE  /\ ListOK(Retried(list, i)) /\ DOMAIN Retried(list, i) = DOMAIN list
         /\ \A j \in DOMAIN list :
              /\ Retried(list, i)[j].trx = list[j].trx /\ Retried(list, i)[j].mode = list[j].mode
              /\ j # i \/ list[j].state = "RUN" => Retried(list, i)[j].state = list[j].state
<1> DEFINE run == [list EXCEPT ![i].state = "RUN"]
<1>1. list \in Seq(Locks) /\ DOMAIN list = 1 .. Len(list) /\ Len(list) \in Nat
  BY DEF ListOK
<1>2. \A j \in DOMAIN list : list[j] \in Locks
  BY <1>1
<1>3. CASE ~Granted(list, i)
  BY <1>3 DEF Retried
<1>4. CASE Granted(list, i)
  <2>1. Retried(list, i) = run
    BY <1>4 DEF Retried
  <2>2. /\ run \in Seq(Locks) /\ DOMAIN run = DOMAIN list
        /\ \A j \in DOMAIN list : /\ run[j].trx = list[j].trx /\ run[j].mode = list[j].mode
                                  /\ run[j].wait = list[j].wait
                                  /\ j # i => run[j].state = list[j].state
        /\ run[i].state = "RUN"
    BY <1>1, <1>2 DEF Locks
  <2> HIDE DEF run
  <2>3. Pairs(run)
    BY <2>2 DEF ListOK, Pairs
  <2>4. ASSUME NEW h \in DOMAIN list, h < i PROVE ~Conflict(list[h], list[i])
    <3>1. CASE list[i].mode = S
      <4>1. list[i].wait = NONE
        BY <1>4, <3>1 DEF Granted
      <4>2. list[h].mode = S
        BY <4>1, <3>1, <2>4, <1>1 DEF ListOK, Behind
      <4> QED
        BY <3>1, <4>2 DEF Conflict, S, X
    <3>2. CASE list[i].mode # S /\ Has(list, list[i].trx, S)
      <4> DEFINE P == Places(list, list[i].trx, S)
      <4>1. Max(P) = 1 /\ i = 2
        BY <1>4, <3>2 DEF Granted, Mine
      <4>2. P # {} /\ P \subseteq 1 .. Len(list)
        BY <3>2, <1>1 DEF Has, Places
      <4> HIDE DEF P
      <4>3. 1 \in P
        BY <4>1, <4>2, <1>1, GreatestNatural
      <4>4. list[1].trx = list[i].trx
        BY <4>3 DEF P, Places
      <4>5. h = 1
        BY <2>4, <4>1, <1>1
      <4> QED
        BY <4>4, <4>5 DEF Conflict
    <3>3. CASE list[i].mode # S /\ ~Has(list, list[i].trx, S)
      <4>1. i = 1
        BY <1>4, <3>3 DEF Granted
      <4> QED
        BY <4>1, <2>4, <1>1
    <3> QED
      BY <3>1, <3>2, <3>3
  <2>5. InOrder(run)
    <3> SUFFICES ASSUME NEW h \in DOMAIN list, NEW j \in DOMAIN list, h < j, Conflict(run[h], run[j])
                 PROVE  run[j].state = "WAIT"
      BY <2>2 DEF InOrder
    <3>1. Conflict(list[h], list[j])
      BY <2>2 DEF Conflict
    <3>2. j # i
      BY <3>1, <2>4
    <3>3. list[j].state = "WAIT"
      BY <3>1 DEF ListOK, InOrder
    <3> QED
      BY <3>2, <3>3, <2>2
  <2>6. Behind(run)
    <3>1. Behind(list)
      BY DEF ListOK
    <3>2. \A j \in DOMAIN list : \A h \in 1 .. j - 1 : h \in DOMAIN list
      BY <1>1
    <3>3. ASSUME NEW j \in DOMAIN list, run[j].wait = NONE, run[j].mode = S, NEW h \in 1 .. j - 1
          PROVE  run[h].mode = S
      BY <3>1, <3>2, <3>3, <2>2 DEF Behind
    <3>4. ASSUME NEW j \in DOMAIN list, run[j].wait # NONE
          PROVE  /\ run[j].mode = S
                 /\ \E q \in 1 .. j - 1 : /\ run[q].mode = X /\ run[q].trx = run[j].wait.trx
                                          /\ \A h \in q + 1 .. j - 1 : run[h].mode = S
      <4>1. list[j].wait # NONE
        BY <3>4, <2>2
      <4>2. PICK q \in 1 .. j - 1 : /\ list[q].mode = X /\ list[q].trx = list[j].wait.trx
                                    /\ \A h \in q + 1 .. j - 1 : list[h].mode = S
        BY <3>1, <4>1 DEF Behind
      <4>3. \A h \in q + 1 .. j - 1 : h \in 1 .. j - 1
        BY <1>1
      <4>4. list[j].mode = S
        BY <3>1, <4>1 DEF Behind
      <4> QED
        BY <4>2, <4>3, <4>4, <3>2, <2>2
    <3> QED
      BY <3>3, <3>4, <2>2 DEF Behind
  <2> QED
    BY <2>1, <2>2, <2>3, <2>5, <2>6 DEF ListOK
<1> QED
  BY <1>3, <1>4

\* unlock_record keeps the list in order, if the lock that goes away was granted: when it
\* is an exclusive one, nothing was before it.
LEMMA ReleasedOK ==
  ASSUME NEW list, ListOK(list), NEW t,
         \A i \in DOMAIN list : list[i].trx = t => list[i].state = "RUN"
  PROVE  /\ ListOK(Released(list, t))
         /\ \A j \in DOMAIN Released(list, t) : \E i \in DOMAIN list :
              /\ Released(list, t)[j].trx = list[i].trx /\ Released(list, t)[j].mode = list[i].mode
              /\ Released(list, t)[j].state = list[i].state
         /\ \A i \in DOMAIN list : list[i].trx # t => \E j \in DOMAIN Released(list, t) :
              /\ Released(list, t)[j].trx = list[i].trx /\ Released(list, t)[j].mode = list[i].mode
              /\ Released(list, t)[j].state = list[i].state
<1>1. list \in Seq(Locks) /\ DOMAIN list = 1 .. Len(list) /\ Len(list) \in Nat
  BY DEF ListOK
<1>2. \A j \in DOMAIN list : list[j] \in Locks
  BY <1>1
<1>3. CASE Owned(list, t) = {}
  BY <1>3 DEF Released
<1>4. CASE Owned(list, t) # {}
  <2> DEFINE m == Min(Owned(list, t))
             left == RemoveAt(list, m)
             gone == [trx |-> list[m].trx, mode |-> list[m].mode]
             new == unlock_record(list, m)
             n == Len(list) - 1
             at(j) == IF j < m THEN j ELSE j + 1
  <2>1. m \in 1 .. Len(list) /\ list[m].trx = t /\ \A i \in 1 .. Len(list) : list[i].trx = t => m <= i
    <3>1. Owned(list, t) \subseteq 1 .. Len(list)
      BY <1>1 DEF Owned
    <3>2. m \in Owned(list, t) /\ \A i \in Owned(list, t) : m <= i
      BY <3>1, <1>1, <1>4, SmallestOf
    <3> QED
      BY <3>2, <1>1 DEF Owned
  <2>2. Released(list, t) = new
    BY <1>4 DEF Released
  <2> HIDE DEF m
  <2>3. /\ left \in Seq(Locks) /\ Len(left) = n
        /\ \A j \in 1 .. n : left[j] = list[at(j)]
    BY <1>1, <2>1, Removal
  <2>4. new = [j \in DOMAIN left |-> IF left[j].wait = gone THEN [left[j] EXCEPT !.wait = NONE] ELSE left[j]]
    BY DEF unlock_record
  <2>5. DOMAIN left = 1 .. n /\ n \in Nat /\ \A j \in 1 .. n : left[j] \in Locks
    BY <2>3, <2>1, <1>1
  <2>6. \A j \in 1 .. n : at(j) \in 1 .. Len(list) /\ at(j) # m
    BY <2>1, <1>1
  <2>7. \A i, j \in 1 .. n : i < j => at(i) < at(j)
    BY <2>1
  <2> HIDE DEF left
  <2>8. ASSUME NEW j \in 1 .. n
        PROVE  /\ new[j] \in Locks
               /\ new[j].trx = list[at(j)].trx /\ new[j].mode = list[at(j)].mode
               /\ new[j].state = list[at(j)].state
               /\ list[at(j)].wait # gone => new[j].wait = list[at(j)].wait
               /\ list[at(j)].wait = gone => new[j].wait = NONE
    <3>1. left[j] \in Locks /\ left[j] = list[at(j)]
      BY <2>3, <2>5
    <3>2. new[j] = IF left[j].wait = gone THEN [left[j] EXCEPT !.wait = NONE] ELSE left[j]
      BY <2>4, <2>5
    <3>3. CASE left[j].wait = gone
      <4>1. new[j] = [left[j] EXCEPT !.wait = NONE]
        BY <3>2, <3>3
      <4>2. /\ new[j] \in Locks /\ new[j].trx = left[j].trx /\ new[j].mode = left[j].mode
            /\ new[j].state = left[j].state /\ new[j].wait = NONE
        BY <3>1, <4>1 DEF Locks
      <4> QED
        BY <3>1, <3>3, <4>2
    <3>4. CASE left[j].wait # gone
      BY <3>1, <3>2, <3>4
    <3> QED
      BY <3>3, <3>4
  <2>9. DOMAIN new = 1 .. n
    BY <2>4, <2>5
  <2>10. new \in Seq(Locks)
    <3>1. new \in [1 .. n -> Locks]
      BY <2>4, <2>5, <2>8
    <3> QED
      BY <3>1, <2>5
  <2> HIDE DEF new, gone, at, n
  <2>11. Pairs(new)
    <3> SUFFICES ASSUME NEW i \in 1 .. n, NEW j \in 1 .. n, i < j, new[i].trx = new[j].trx
                 PROVE  new[i].mode = S /\ new[j].mode = X /\ new[i].state = "RUN"
      BY <2>9 DEF Pairs
    <3>1. at(i) < at(j) /\ at(i) \in DOMAIN list /\ at(j) \in DOMAIN list
      BY <2>6, <2>7, <1>1
    <3>2. list[at(i)].trx = list[at(j)].trx
      BY <2>8
    <3>3. list[at(i)].mode = S /\ list[at(j)].mode = X /\ list[at(i)].state = "RUN"
      BY <3>1, <3>2 DEF ListOK, Pairs
    <3> QED
      BY <3>3, <2>8
  <2>12. InOrder(new)
    <3> SUFFICES ASSUME NEW i \in 1 .. n, NEW j \in 1 .. n, i < j, Conflict(new[i], new[j])
                 PROVE  new[j].state = "WAIT"
      BY <2>9 DEF InOrder
    <3>1. at(i) < at(j) /\ at(i) \in DOMAIN list /\ at(j) \in DOMAIN list
      BY <2>6, <2>7, <1>1
    <3>2. Conflict(list[at(i)], list[at(j)])
      BY <2>8 DEF Conflict
    <3>3. list[at(j)].state = "WAIT"
      BY <3>1, <3>2 DEF ListOK, InOrder
    <3> QED
      BY <3>3, <2>8
  <2>13. ASSUME NEW j \in 1 .. n, new[j].wait = NONE, new[j].mode = S, NEW i \in 1 .. n, i < j
         PROVE  new[i].mode = S
    <3>1. at(i) < at(j) /\ at(i) \in 1 .. Len(list) /\ at(j) \in 1 .. Len(list)
      BY <2>6, <2>7, <2>13
    <3>2. list[at(j)].mode = S
      BY <2>8, <2>13
    <3>3. CASE list[at(j)].wait = NONE
      <4>1. list[at(i)].mode = S
        BY <3>1, <3>2, <3>3, <1>1 DEF ListOK, Behind
      <4> QED
        BY <4>1, <2>8
    <3>4. CASE list[at(j)].wait # NONE
      <4>1. list[at(j)].wait = gone
        BY <3>4, <2>8, <2>13
      <4>2. list[at(j)].wait \in [trx : Trx, mode : {X}]
        BY <3>1, <3>4, <1>1, <1>2 DEF Locks
      <4>3. list[m].mode = X /\ list[at(j)].wait.trx = t
        BY <4>1, <4>2, <2>1 DEF gone
      <4>4. PICK q \in 1 .. at(j) - 1 : /\ list[q].mode = X /\ list[q].trx = list[at(j)].wait.trx
                                        /\ \A h \in q + 1 .. at(j) - 1 : list[h].mode = S
        BY <3>1, <3>4, <1>1 DEF ListOK, Behind
      <4>5. q = m
        <5>1. q \in 1 .. Len(list) /\ m <= q
          BY <4>3, <4>4, <3>1, <2>1, <1>1
        <5>2. m < q => list[m].mode = S
          BY <5>1, <4>3, <4>4, <2>1, <1>1 DEF ListOK, Pairs
        <5> QED
          BY <5>1, <5>2, <4>3, <2>1 DEF S, X
      <4>6. ASSUME at(i) < m PROVE FALSE
        <5>1. list[at(i)].trx # t
          BY <4>6, <3>1, <2>1
        <5>2. Conflict(list[at(i)], list[m])
          BY <5>1, <4>3, <2>1 DEF Conflict
        <5>3. list[m].state = "WAIT"
          BY <5>2, <4>6, <3>1, <2>1, <1>1 DEF ListOK, InOrder
        <5> QED
          BY <5>3, <2>1, <1>1
      <4>7. at(i) # m
        BY <2>6
      <4>8. at(i) \in q + 1 .. at(j) - 1
        BY <4>5, <4>6, <4>7, <3>1, <2>1
      <4> QED
        BY <4>4, <4>8, <2>8
    <3> QED
      BY <3>3, <3>4
  <2>14. ASSUME NEW j \in 1 .. n, new[j].wait # NONE
         PROVE  /\ new[j].mode = S
                /\ \E i \in 1 .. j - 1 : /\ new[i].mode = X /\ new[i].trx = new[j].wait.trx
                                         /\ \A h \in i + 1 .. j - 1 : new[h].mode = S
    <3>1. list[at(j)].wait # gone /\ new[j].wait = list[at(j)].wait /\ list[at(j)].wait # NONE
      BY <2>8, <2>14
    <3>2. at(j) \in DOMAIN list
      BY <2>6, <1>1
    <3>3. list[at(j)].mode = S
      BY <3>1, <3>2 DEF ListOK, Behind
    <3>4. PICK q \in 1 .. at(j) - 1 : /\ list[q].mode = X /\ list[q].trx = list[at(j)].wait.trx
                                      /\ \A h \in q + 1 .. at(j) - 1 : list[h].mode = S
      BY <3>1, <3>2 DEF ListOK, Behind
    <3>5. q # m
      <4>1. SUFFICES ASSUME q = m PROVE FALSE
        OBVIOUS
      <4>2. list[at(j)].wait \in [trx : Trx, mode : {X}]
        BY <3>1, <3>2, <1>2 DEF Locks
      <4>3. list[at(j)].wait.trx = list[m].trx /\ list[m].mode = X
        BY <4>1, <3>4
      <4>4. list[at(j)].wait = gone
        BY <4>2, <4>3 DEF gone
      <4> QED
        BY <4>4, <3>1
    <3>6. PICK i \in 1 .. j - 1 : at(i) = q
      <4>1. j \in Nat /\ m \in Nat /\ q \in Nat /\ q >= 1 /\ q < at(j)
        BY <3>4, <2>1, <2>6, <1>1 DEF n
      <4>2. CASE q < m
        <5>1. q < j /\ at(q) = q
          BY <4>1, <4>2 DEF at
        <5> QED
          BY <5>1, <4>1
      <4>3. CASE q > m
        <5>1. q - 1 < j /\ q - 1 >= 1 /\ at(q - 1) = q
          BY <4>1, <4>3, <2>1 DEF at
        <5> QED
          BY <5>1, <4>1
      <4> QED
        BY <4>1, <4>2, <4>3, <3>5
    <3>7. i \in 1 .. n /\ \A h \in i + 1 .. j - 1 : h \in 1 .. n /\ i < h /\ h < j
      BY <2>5
    <3>8. ASSUME NEW h \in i + 1 .. j - 1 PROVE new[h].mode = S
      <4>1. h \in 1 .. n /\ at(i) < at(h) /\ at(h) < at(j)
        BY <3>7, <2>7
      <4>2. at(h) \in q + 1 .. at(j) - 1
        BY <4>1, <3>6, <2>6, <1>1
      <4> QED
        BY <4>1, <4>2, <3>4, <2>8
    <3>9. new[i].mode = X /\ new[i].trx = new[j].wait.trx
      BY <3>1, <3>4, <3>6, <3>7, <2>8
    <3>10. new[j].mode = S
      BY <3>3, <2>8
    <3> QED
      BY <3>8, <3>9, <3>10
  <2>15. Behind(new)
    <3>1. \A j \in 1 .. n : \A i \in 1 .. j - 1 : i \in 1 .. n /\ i < j
      BY <2>5
    <3> QED
      BY <3>1, <2>9, <2>13, <2>14 DEF Behind
  <2>16. \A j \in DOMAIN new : \E i \in DOMAIN list :
           new[j].trx = list[i].trx /\ new[j].mode = list[i].mode /\ new[j].state = list[i].state
    BY <2>6, <2>8, <2>9, <1>1
  <2>17. ASSUME NEW i \in DOMAIN list, list[i].trx # t
         PROVE  \E j \in DOMAIN new :
                  new[j].trx = list[i].trx /\ new[j].mode = list[i].mode /\ new[j].state = list[i].state
    <3>1. i # m
      BY <2>1, <2>17
    <3>2. PICK j \in 1 .. n : at(j) = i
      <4>1. i < m => i \in 1 .. n /\ at(i) = i
        BY <2>1, <1>1 DEF at, n
      <4>2. i > m => i - 1 \in 1 .. n /\ at(i - 1) = i
        BY <2>1, <1>1 DEF at, n
      <4> QED
        BY <4>1, <4>2, <3>1, <2>1, <1>1
    <3> QED
      BY <3>2, <2>8, <2>9
  <2> QED
    BY <2>2, <2>10, <2>11, <2>12, <2>15, <2>16, <2>17 DEF ListOK
<1> QED
  BY <1>3, <1>4

\* end_trx on one record: the locks of the others stay as they are.
LEMMA UnlockedOK ==
  ASSUME NEW list, ListOK(list), NEW t,
         \A i \in DOMAIN list : list[i].trx = t => list[i].state = "RUN"
  PROVE  /\ ListOK(Unlocked(list, t))
         /\ \A j \in DOMAIN Unlocked(list, t) : \E i \in DOMAIN list :
              /\ Unlocked(list, t)[j].trx = list[i].trx /\ Unlocked(list, t)[j].mode = list[i].mode
              /\ Unlocked(list, t)[j].state = list[i].state
         /\ \A i \in DOMAIN list : list[i].trx # t => \E j \in DOMAIN Unlocked(list, t) :
              /\ Unlocked(list, t)[j].trx = list[i].trx /\ Unlocked(list, t)[j].mode = list[i].mode
              /\ Unlocked(list, t)[j].state = list[i].state
<1> DEFINE once == Released(list, t)
<1>1. /\ ListOK(once)
      /\ \A j \in DOMAIN once : \E i \in DOMAIN list :
           once[j].trx = list[i].trx /\ once[j].mode = list[i].mode /\ once[j].state = list[i].state
      /\ \A i \in DOMAIN list : list[i].trx # t => \E j \in DOMAIN once :
           once[j].trx = list[i].trx /\ once[j].mode = list[i].mode /\ once[j].state = list[i].state
  BY ReleasedOK
<1>2. Unlocked(list, t) = Released(once, t)
  BY DEF Unlocked
<1> HIDE DEF once
<1>3. \A j \in DOMAIN once : once[j].trx = t => once[j].state = "RUN"
  BY <1>1
<1> DEFINE twice == Released(once, t)
<1>4. /\ ListOK(twice)
      /\ \A j \in DOMAIN twice : \E i \in DOMAIN once :
           twice[j].trx = once[i].trx /\ twice[j].mode = once[i].mode /\ twice[j].state = once[i].state
      /\ \A i \in DOMAIN once : once[i].trx # t => \E j \in DOMAIN twice :
           twice[j].trx = once[i].trx /\ twice[j].mode = once[i].mode /\ twice[j].state = once[i].state
  BY <1>1, <1>3, ReleasedOK
<1> HIDE DEF twice
<1>5. \A j \in DOMAIN twice : \E i \in DOMAIN list :
        twice[j].trx = list[i].trx /\ twice[j].mode = list[i].mode /\ twice[j].state = list[i].state
  BY <1>1, <1>4
<1>6. ASSUME NEW i \in DOMAIN list, list[i].trx # t
      PROVE  \E j \in DOMAIN twice :
               twice[j].trx = list[i].trx /\ twice[j].mode = list[i].mode /\ twice[j].state = list[i].state
  <2>1. PICK h \in DOMAIN once :
          once[h].trx = list[i].trx /\ once[h].mode = list[i].mode /\ once[h].state = list[i].state
    BY <1>1, <1>6
  <2>2. PICK j \in DOMAIN twice :
          twice[j].trx = once[h].trx /\ twice[j].mode = once[h].mode /\ twice[j].state = once[h].state
    BY <1>4, <1>6, <2>1
  <2> QED
    BY <2>1, <2>2
<1> QED
  BY <1>2, <1>4, <1>5, <1>6 DEF twice

-----------------------------------------------------------------------------
\* The locks of a transaction in a list, in a longer one, after a retry, and when another
\* transaction ends.
LEMMA LocksOfMember ==
  ASSUME NEW list, NEW t, NEW m, NEW s
  PROVE  <<m, s>> \in LocksOf(list, t)
           <=> \E i \in DOMAIN list : list[i].trx = t /\ list[i].mode = m /\ list[i].state = s
BY DEF LocksOf

LEMMA LocksTyped ==
  ASSUME NEW list, ListOK(list), NEW i \in DOMAIN list
  PROVE  /\ list[i] \in Locks /\ list[i].trx \in Trx /\ list[i].mode \in {S, X}
         /\ list[i].state \in {"RUN", "WAIT"}
<1>1. list \in Seq(Locks) /\ DOMAIN list = 1 .. Len(list)
  BY DEF ListOK
<1>2. list[i] \in Locks
  BY <1>1
<1> QED
  BY <1>2 DEF Locks

LEMMA OneOfEachMode ==
  ASSUME NEW list, ListOK(list), NEW i \in DOMAIN list, NEW j \in DOMAIN list,
         list[i].trx = list[j].trx, list[i].mode = list[j].mode
  PROVE  i = j
<1>1. DOMAIN list = 1 .. Len(list) /\ Len(list) \in Nat
  BY DEF ListOK
<1>2. i < j => FALSE
  BY DEF ListOK, Pairs, S, X
<1>3. j < i => FALSE
  BY DEF ListOK, Pairs, S, X
<1> QED
  BY <1>1, <1>2, <1>3

LEMMA AddedLocks ==
  ASSUME NEW list, ListOK(list), NEW new \in Locks, NEW u
  PROVE  LocksOf(Append(list, new), u) =
           IF u = new.trx THEN LocksOf(list, u) \cup {<<new.mode, new.state>>} ELSE LocksOf(list, u)
<1> DEFINE more == Append(list, new)
           n == Len(list) + 1
<1>1. list \in Seq(Locks) /\ DOMAIN list = 1 .. Len(list) /\ Len(list) \in Nat
  BY DEF ListOK
<1>2. /\ DOMAIN more = 1 .. n /\ more[n] = new
      /\ \A i \in 1 .. Len(list) : more[i] = list[i]
  BY <1>1, AppendProperties
<1> HIDE DEF more
<1>3. ASSUME NEW e \in LocksOf(list, u) PROVE e \in LocksOf(more, u)
  <2>1. PICK i \in DOMAIN list : list[i].trx = u /\ e = <<list[i].mode, list[i].state>>
    BY <1>3 DEF LocksOf
  <2>2. i \in DOMAIN more /\ more[i] = list[i]
    BY <1>1, <1>2
  <2> QED
    BY <2>1, <2>2 DEF LocksOf
<1>4. u = new.trx => <<new.mode, new.state>> \in LocksOf(more, u)
  <2>1. n \in DOMAIN more
    BY <1>1, <1>2
  <2> QED
    BY <2>1, <1>2 DEF LocksOf
<1>5. ASSUME NEW e \in LocksOf(more, u)
      PROVE  e \in LocksOf(list, u) \/ (u = new.trx /\ e = <<new.mode, new.state>>)
  <2>1. PICK i \in DOMAIN more : more[i].trx = u /\ e = <<more[i].mode, more[i].state>>
    BY <1>5 DEF LocksOf
  <2>2. CASE i = n
    BY <2>1, <2>2, <1>2
  <2>3. CASE i # n
    <3>1. i \in DOMAIN list /\ more[i] = list[i]
      BY <2>3, <1>1, <1>2
    <3> QED
      BY <2>1, <3>1 DEF LocksOf
  <2> QED
    BY <2>2, <2>3
<1> QED
  BY <1>3, <1>4, <1>5 DEF more

LEMMA RetriedLocks ==
  ASSUME NEW list, ListOK(list), NEW i \in DOMAIN list, NEW u
  PROVE  LET new == Retried(list, i)
         IN  /\ u # list[i].trx => LocksOf(new, u) = LocksOf(list, u)
             /\ \A m : <<m, "WAIT">> \in LocksOf(new, u) => <<m, "WAIT">> \in LocksOf(list, u)
             /\ \A m : <<m, "RUN">> \in LocksOf(list, u) => <<m, "RUN">> \in LocksOf(new, u)
             /\ u = list[i].trx => <<list[i].mode, new[i].state>> \in LocksOf(new, u)
             /\ u = list[i].trx /\ new[i].state = "RUN" => <<list[i].mode, "WAIT">> \notin LocksOf(new, u)
             /\ new[i].state \in {"RUN", "WAIT"}
<1> DEFINE new == Retried(list, i)
<1>1. /\ ListOK(new) /\ DOMAIN new = DOMAIN list
      /\ \A j \in DOMAIN list : /\ new[j].trx = list[j].trx /\ new[j].mode = list[j].mode
                                /\ j # i \/ list[j].state = "RUN" => new[j].state = list[j].state
  BY RetriedOK
<1>2. \A j \in DOMAIN list : list[j].state \in {"RUN", "WAIT"} /\ new[j].state \in {"RUN", "WAIT"}
  BY <1>1, LocksTyped
<1> HIDE DEF new
<1>3. u # list[i].trx => LocksOf(new, u) = LocksOf(list, u)
  <2>1. ASSUME u # list[i].trx, NEW e \in LocksOf(list, u) PROVE e \in LocksOf(new, u)
    <3>1. PICK j \in DOMAIN list : list[j].trx = u /\ e = <<list[j].mode, list[j].state>>
      BY <2>1 DEF LocksOf
    <3> QED
      BY <3>1, <2>1, <1>1 DEF LocksOf
  <2>2. ASSUME u # list[i].trx, NEW e \in LocksOf(new, u) PROVE e \in LocksOf(list, u)
    <3>1. PICK j \in DOMAIN list : new[j].trx = u /\ e = <<new[j].mode, new[j].state>>
      BY <2>2, <1>1 DEF LocksOf
    <3> QED
      BY <3>1, <2>2, <1>1 DEF LocksOf
  <2> QED
    BY <2>1, <2>2
<1>4. ASSUME NEW m, <<m, "WAIT">> \in LocksOf(new, u) PROVE <<m, "WAIT">> \in LocksOf(list, u)
  <2>1. PICK j \in DOMAIN list : new[j].trx = u /\ new[j].mode = m /\ new[j].state = "WAIT"
    BY <1>4, <1>1, LocksOfMember
  <2>2. list[j].trx = u /\ list[j].mode = m /\ list[j].state = "WAIT"
    BY <2>1, <1>1, <1>2
  <2> QED
    BY <2>2, LocksOfMember
<1>5. ASSUME NEW m, <<m, "RUN">> \in LocksOf(list, u) PROVE <<m, "RUN">> \in LocksOf(new, u)
  <2>1. PICK j \in DOMAIN list : list[j].trx = u /\ list[j].mode = m /\ list[j].state = "RUN"
    BY <1>5, LocksOfMember
  <2>2. new[j].trx = u /\ new[j].mode = m /\ new[j].state = "RUN"
    BY <2>1, <1>1
  <2> QED
    BY <2>2, <1>1, LocksOfMember
<1>6. u = list[i].trx => <<list[i].mode, new[i].state>> \in LocksOf(new, u)
  BY <1>1, LocksOfMember
<1>7. ASSUME u = list[i].trx, new[i].state = "RUN", <<list[i].mode, "WAIT">> \in LocksOf(new, u)
      PROVE  FALSE
  <2>1. PICK j \in DOMAIN list : new[j].trx = u /\ new[j].mode = list[i].mode /\ new[j].state = "WAIT"
    BY <1>7, <1>1, LocksOfMember
  <2>2. j = i
    BY <2>1, <1>1, <1>7, OneOfEachMode
  <2> QED
    BY <2>1, <2>2, <1>7
<1> QED
  BY <1>2, <1>3, <1>4, <1>5, <1>6, <1>7 DEF new

LEMMA UnlockedLocks ==
  ASSUME NEW list, ListOK(list), NEW t, <<S, "WAIT">> \notin LocksOf(list, t),
         <<X, "WAIT">> \notin LocksOf(list, t)
  PROVE  /\ ListOK(Unlocked(list, t))
         /\ \A u : u # t => LocksOf(Unlocked(list, t), u) = LocksOf(list, u)
         /\ LocksOf(Unlocked(list, t), t) \subseteq LocksOf(list, t)
<1> DEFINE new == Unlocked(list, t)
<1>1. ASSUME NEW i \in DOMAIN list, list[i].trx = t PROVE list[i].state = "RUN"
  <2>1. list[i].mode \in {S, X} /\ list[i].state \in {"RUN", "WAIT"}
    BY LocksTyped
  <2>2. <<list[i].mode, list[i].state>> \in LocksOf(list, t)
    BY <1>1, LocksOfMember
  <2> QED
    BY <2>1, <2>2
<1>2. /\ ListOK(new)
      /\ \A j \in DOMAIN new : \E i \in DOMAIN list :
           new[j].trx = list[i].trx /\ new[j].mode = list[i].mode /\ new[j].state = list[i].state
      /\ \A i \in DOMAIN list : list[i].trx # t => \E j \in DOMAIN new :
           new[j].trx = list[i].trx /\ new[j].mode = list[i].mode /\ new[j].state = list[i].state
  BY <1>1, UnlockedOK
<1> HIDE DEF new
<1>3. ASSUME NEW u, NEW e \in LocksOf(new, u) PROVE e \in LocksOf(list, u)
  <2>1. PICK j \in DOMAIN new : new[j].trx = u /\ e = <<new[j].mode, new[j].state>>
    BY <1>3 DEF LocksOf
  <2>2. PICK i \in DOMAIN list :
          new[j].trx = list[i].trx /\ new[j].mode = list[i].mode /\ new[j].state = list[i].state
    BY <1>2
  <2> QED
    BY <2>1, <2>2 DEF LocksOf
<1>4. ASSUME NEW u, u # t, NEW e \in LocksOf(list, u) PROVE e \in LocksOf(new, u)
  <2>1. PICK i \in DOMAIN list : list[i].trx = u /\ e = <<list[i].mode, list[i].state>>
    BY <1>4 DEF LocksOf
  <2>2. PICK j \in DOMAIN new :
          new[j].trx = list[i].trx /\ new[j].mode = list[i].mode /\ new[j].state = list[i].state
    BY <1>2, <1>4, <2>1
  <2> QED
    BY <2>1, <2>2 DEF LocksOf
<1>5. ASSUME NEW u, u # t PROVE LocksOf(new, u) = LocksOf(list, u)
  <2>1. LocksOf(new, u) \subseteq LocksOf(list, u)
    BY <1>3
  <2>2. LocksOf(list, u) \subseteq LocksOf(new, u)
    BY <1>4, <1>5
  <2> QED
    BY <2>1, <2>2
<1>6. LocksOf(new, t) \subseteq LocksOf(list, t)
  BY <1>3
<1> QED
  BY <1>2, <1>5, <1>6 DEF new

\* What lock_record finds out in its loop, in terms of the locks.
LEMMA Requested ==
  ASSUME NEW list, ListOK(list), NEW t, NEW mode \in {S, X},
         <<S, "WAIT">> \in LocksOf(list, t) => mode = S
  PROVE  /\ Request(list, t, mode) \in Deciding
         /\ Request(list, t, mode) \in Choosing =>
              LocksOf(list, t) \subseteq {<<S, "RUN">>} /\ (mode = S => LocksOf(list, t) = {})
         /\ Request(list, t, mode) = "covered" => mode = S /\ \E s \in {"RUN", "WAIT"} : <<X, s>> \in LocksOf(list, t)
         /\ Request(list, t, mode) \in {"retry", "retry upgrade"} =>
              \E s \in {"RUN", "WAIT"} : <<mode, s>> \in LocksOf(list, t)
<1> DEFINE s == Has(list, t, S)
           x == Has(list, t, X)
           r == Request(list, t, mode)
<1>1. \A m \in {S, X} : Has(list, t, m) <=> \E st \in {"RUN", "WAIT"} : <<m, st>> \in LocksOf(list, t)
  <2> TAKE m \in {S, X}
  <2>1. Has(list, t, m) <=> \E i \in DOMAIN list : list[i].trx = t /\ list[i].mode = m
    BY DEF Has, Places
  <2>2. ASSUME NEW i \in DOMAIN list, list[i].trx = t, list[i].mode = m
        PROVE  \E st \in {"RUN", "WAIT"} : <<m, st>> \in LocksOf(list, t)
    <3>1. list[i].state \in {"RUN", "WAIT"}
      BY LocksTyped
    <3>2. <<m, list[i].state>> \in LocksOf(list, t)
      BY <2>2, LocksOfMember
    <3> QED
      BY <3>1, <3>2
  <2>3. ASSUME NEW st \in {"RUN", "WAIT"}, <<m, st>> \in LocksOf(list, t)
        PROVE  \E i \in DOMAIN list : list[i].trx = t /\ list[i].mode = m
    BY <2>3, LocksOfMember
  <2> QED
    BY <2>1, <2>2, <2>3
<1>2. \A e \in LocksOf(list, t) : \E m \in {S, X} : \E st \in {"RUN", "WAIT"} : e = <<m, st>>
  <2> TAKE e \in LocksOf(list, t)
  <2>1. PICK i \in DOMAIN list : e = <<list[i].mode, list[i].state>>
    BY DEF LocksOf
  <2>2. list[i].mode \in {S, X} /\ list[i].state \in {"RUN", "WAIT"}
    BY LocksTyped
  <2> QED
    BY <2>1, <2>2
<1>3. list = <<>> => ~s /\ ~x
  BY DEF Has, Places
<1>4. S # X
  BY DEF S, X
<1>5. r = IF list = <<>> THEN "first"
          ELSE IF mode = S /\ x THEN "covered"
          ELSE IF mode = X /\ s
          THEN IF x THEN "retry upgrade"
               ELSE IF OthersX(list, t) # {} THEN "deadlock"
               ELSE IF Sole(list) THEN "first" ELSE "upgrade"
          ELSE IF s \/ x THEN "retry" ELSE "new"
  BY DEF Request
<1> HIDE DEF s, x, r
<1>6. r \in Deciding
  BY <1>5 DEF Deciding, Choosing
<1>7. r \in Choosing => ~x /\ (s => mode = X)
  BY <1>3, <1>4, <1>5 DEF Choosing
<1>8. r = "covered" => mode = S /\ x
  BY <1>5
<1>9. r \in {"retry", "retry upgrade"} => IF mode = S THEN s ELSE x
  BY <1>4, <1>5
<1>10. ASSUME r \in Choosing, NEW e \in LocksOf(list, t) PROVE e = <<S, "RUN">> /\ mode = X
  <2>1. PICK m \in {S, X} : \E st \in {"RUN", "WAIT"} : e = <<m, st>>
    BY <1>2
  <2>2. PICK st \in {"RUN", "WAIT"} : e = <<m, st>>
    BY <2>1
  <2>3. m # X
    BY <1>1, <1>7, <1>10, <2>2 DEF x
  <2>4. s /\ mode = X
    BY <1>1, <1>7, <1>10, <2>2, <2>3 DEF s
  <2>5. st # "WAIT"
    BY <2>2, <2>3, <2>4, <1>4
  <2> QED
    BY <2>2, <2>3, <2>4, <2>5
<1>11. r \in Choosing => LocksOf(list, t) \subseteq {<<S, "RUN">>} /\ (mode = S => LocksOf(list, t) = {})
  BY <1>10, <1>4
<1> QED
  BY <1>1, <1>6, <1>8, <1>9, <1>11 DEF s, x, r

-----------------------------------------------------------------------------
LEMMA LocksInit == Init => LocksInv
<1> SUFFICES ASSUME Init PROVE LocksInv
  OBVIOUS
<1>1. ASSUME NEW k \in Keys PROVE ListOK(table[k]) /\ DOMAIN table[k] = {}
  <2>1. table[k] = <<>>
    BY DEF Init
  <2>2. DOMAIN table[k] = {}
    BY <2>1
  <2>3. table[k] \in Seq(Locks)
    BY <2>1
  <2> QED
    BY <2>2, <2>3 DEF ListOK, Pairs, InOrder, Behind
<1>2. table = [k \in Keys |-> table[k]]
  BY DEF Init
<1>3. \A t \in Trx : pc[t] = [at |-> "idle", key |-> NONE, mode |-> NONE, calls |-> 0, got |-> NONE]
  BY DEF Init
<1>4. Sections
  <2>1. pc \in [Trx -> Threads]
    BY DEF Init, Threads, Resting
  <2>2. \A t \in Trx : pc[t].at = "idle"
    BY <1>3
  <2>3. "idle" \notin Asking \cup Working \cup Deciding
    BY DEF Asking, Working, Deciding, Choosing
  <2> QED
    BY <2>1, <2>2, <2>3 DEF Sections, Init
<1>5. ASSUME NEW t \in Trx PROVE FoundAt(t) /\ WaitsAt(t) /\ WorksAt(t)
  <2>1. pc[t].at = "idle"
    BY <1>3
  <2>2. \A k \in Keys : L(k, t) = {}
    BY <1>1 DEF L, LocksOf
  <2> QED
    BY <2>1, <2>2 DEF FoundAt, WaitsAt, WorksAt, Choosing, Working
<1> QED
  BY <1>1, <1>2, <1>4, <1>5 DEF LocksInv

\* What a step of one thread leaves alone: the others stay where they are, apart from
\* being woken, and so do their locks.
Others(t) ==
  \A u \in Trx : u # t =>
    /\ pc'[u].key = pc[u].key /\ pc'[u].mode = pc[u].mode /\ pc'[u].got = pc[u].got
    /\ pc'[u].at = pc[u].at \/ (pc[u].at = "asleep" /\ pc'[u].at = "signalled")
    /\ \A k \in Keys : L(k, u)' = L(k, u)

\* The exclusive locks that a thread has been granted stay so, until its transaction ends.
RunsKept(t) == \A k \in Keys : <<X, "RUN">> \in L(k, t) => <<X, "RUN">> \in L(k, t)'

LEMMA OthersAlone ==
  ASSUME NEW t \in Trx, table' = table, \A u \in Trx : u # t => pc'[u] = pc[u]
  PROVE  Others(t) /\ RunsKept(t)
BY DEF Others, RunsKept, L

LEMMA OthersKept ==
  ASSUME LocksInv, NEW t \in Trx, Others(t), NEW u \in Trx, u # t, Sections'
  PROVE  FoundAt(u)' /\ WaitsAt(u)' /\ WorksAt(u)'
<1>1. /\ pc'[u].key = pc[u].key /\ pc'[u].mode = pc[u].mode /\ pc'[u].got = pc[u].got
      /\ pc'[u].at = pc[u].at \/ (pc[u].at = "asleep" /\ pc'[u].at = "signalled")
      /\ \A k \in Keys : L(k, u)' = L(k, u)
  BY DEF Others
<1>2. FoundAt(u) /\ WaitsAt(u) /\ WorksAt(u)
  BY DEF LocksInv
<1>3. pc[u].at \in Asking \cup Working => K(u) \in Keys
  BY DEF LocksInv, Sections
<1>4. K(u)' = K(u)
  BY <1>1 DEF K
<1>5. CASE pc'[u].at = pc[u].at
  <2>1. L(K(u), u)' = LocksOf(table'[K(u)], u)
    BY <1>4 DEF L
  <2>2. pc[u].at \in Deciding \cup Working \cup {"got"} => L(K(u), u)' = L(K(u), u)
    <3>1. \A k \in Keys : LocksOf(table'[k], u) = L(k, u)
      BY <1>1 DEF L
    <3> QED
      BY <1>3, <2>1, <3>1 DEF Asking
  <2>3. FoundAt(u)'
    BY <1>1, <1>2, <1>4, <1>5, <2>2 DEF FoundAt, Deciding, Choosing
  <2>4. WaitsAt(u)'
    BY <1>1, <1>2, <1>4, <1>5 DEF WaitsAt
  <2>5. WorksAt(u)'
    BY <1>1, <1>2, <1>4, <1>5, <2>2 DEF WorksAt, Working
  <2> QED
    BY <2>3, <2>4, <2>5
<1>6. CASE pc[u].at = "asleep" /\ pc'[u].at = "signalled"
  <2>1. FoundAt(u)' /\ WorksAt(u)'
    BY <1>6 DEF FoundAt, WorksAt, Choosing, Working
  <2>2. WaitsAt(u)'
    BY <1>1, <1>2, <1>4, <1>6 DEF WaitsAt, Asking
  <2> QED
    BY <2>1, <2>2
<1> QED
  BY <1>1, <1>5, <1>6

Everywhere == Asking \cup Working \cup Resting
\* A thread goes somewhere, and one that has an answer.
LEMMA Moves ==
  ASSUME Sections, NEW t \in Trx, NEW a \in Everywhere, Goto(t, a)
  PROVE  /\ pc' \in [Trx -> Threads]
         /\ pc'[t].at = a /\ pc'[t].key = pc[t].key /\ pc'[t].mode = pc[t].mode /\ pc'[t].got = pc[t].got
         /\ \A u \in Trx : u # t => pc'[u] = pc[u]
<1>1. pc \in [Trx -> Threads] /\ pc' = [pc EXCEPT ![t].at = a]
  BY DEF Sections, Goto
<1> QED
  BY <1>1 DEF Threads, Everywhere
LEMMA MovesGot ==
  ASSUME Sections, NEW t \in Trx, NEW r \in {"RUN", "WAIT", "DEADLOCK"}, Got(t, r)
  PROVE  /\ pc' \in [Trx -> Threads]
         /\ pc'[t].at = "got" /\ pc'[t].key = pc[t].key /\ pc'[t].mode = pc[t].mode /\ pc'[t].got = r
         /\ \A u \in Trx : u # t => pc'[u] = pc[u]
<1>1. pc \in [Trx -> Threads] /\ pc' = [pc EXCEPT ![t].at = "got", ![t].got = r]
  BY DEF Sections, Got
<1> QED
  BY <1>1 DEF Threads, Asking
LEMMA MovesAt ==
  ASSUME Sections, NEW t \in Trx, NEW a \in Everywhere, NEW k \in Keys \cup {NONE},
         NEW m \in {S, X, NONE}, At(a, t, k, m)
  PROVE  /\ pc' \in [Trx -> Threads]
         /\ pc'[t].at = a /\ pc'[t].key = k /\ pc'[t].mode = m /\ pc'[t].got = pc[t].got
         /\ \A u \in Trx : u # t => pc'[u] = pc[u]
<1>1. pc \in [Trx -> Threads] /\ pc' = [pc EXCEPT ![t].at = a, ![t].key = k, ![t].mode = m]
  BY DEF Sections, At
<1> QED
  BY <1>1 DEF Threads, Everywhere

\* Mutexes: only who holds lock_table_mutex, or finds it free, changes it.
LEMMA SectionsKept ==
  ASSUME Sections, NEW t \in Trx, pc' \in [Trx -> Threads],
         \A u \in Trx : u # t => pc'[u] = pc[u],
         pc'[t].at \in Asking \cup Working => K(t)' \in Keys /\ pc'[t].mode \in {S, X},
         pc'[t].at \in Deciding => lock_table_mutex' = t,
         lock_table_mutex' = lock_table_mutex
           \/ (lock_table_mutex \in {NONE, t} /\ lock_table_mutex' \in {NONE, t}),
         trx_table_mutex' \in {trx_table_mutex, NONE, t}
  PROVE  Sections'
<1>1. \A u \in Trx : pc'[u].at \in Asking \cup Working => K(u)' \in Keys /\ pc'[u].mode \in {S, X}
  BY DEF Sections, K
<1>2. ASSUME NEW u \in Trx, pc'[u].at \in Deciding PROVE lock_table_mutex' = u
  <2>1. CASE u # t
    <3>1. lock_table_mutex = u /\ u # NONE
      BY <2>1, <1>2, TrxAssumption DEF Sections
    <3> QED
      BY <3>1, <2>1
  <2> QED
    BY <2>1, <1>2
<1> QED
  BY <1>1, <1>2 DEF Sections

\* A step that leaves the lists alone.
LEMMA ListsAlone ==
  ASSUME LocksInv, NEW t \in Trx, Sections', table' = table,
         \A u \in Trx : u # t => pc'[u] = pc[u],
         FoundAt(t)', WaitsAt(t)', WorksAt(t)'
  PROVE  LocksInv'
<1>1. \A k, u : L(k, u)' = L(k, u)
  BY DEF L
<1>2. Others(t)
  BY <1>1 DEF Others
<1>3. \A u \in Trx : FoundAt(u)' /\ WaitsAt(u)' /\ WorksAt(u)'
  BY <1>2, OthersKept
<1> QED
  BY <1>3 DEF LocksInv

\* A thread without a lock that waits, as one that is not asking is, may go anywhere.
NoWait(t) == \A k \in Keys : \A m \in {S, X} : <<m, "WAIT">> \notin L(k, t)
LEMMA Waitless ==
  ASSUME LocksInv, NEW t \in Trx,
         pc[t].at \notin Asking \/ (pc[t].at = "got" /\ pc[t].got = "RUN")
  PROVE  NoWait(t)
BY DEF LocksInv, WaitsAt, NoWait

LEMMA LocksSame ==
  ASSUME LocksInv, table' = table, pc' = pc, lock_table_mutex' = lock_table_mutex,
         trx_table_mutex' \in {trx_table_mutex, NONE}
  PROVE  LocksInv'
<1>1. \A u : K(u)' = K(u) /\ \A k : L(k, u)' = L(k, u)
  BY DEF K, L
<1>2. ASSUME NEW u \in Trx PROVE FoundAt(u)' /\ WaitsAt(u)' /\ WorksAt(u)'
  <2>1. FoundAt(u) /\ WaitsAt(u) /\ WorksAt(u)
    BY DEF LocksInv
  <2>2. L(K(u), u)' = L(K(u), u)
    BY <1>1 DEF L
  <2> QED
    BY <1>1, <2>1, <2>2 DEF FoundAt, WaitsAt, WorksAt
<1>3. Sections'
  BY <1>1 DEF LocksInv, Sections
<1> QED
  BY <1>2, <1>3 DEF LocksInv

LEMMA MoveKept ==
  ASSUME LocksInv, NEW t \in Trx, NEW a \in Everywhere, Goto(t, a), table' = table,
         a # "got", a \notin Deciding,
         a \in Asking => pc[t].at \in Asking,
         a \in Working => pc[t].at \in Asking \cup Working,
         a \notin Asking => NoWait(t),
         a \in Working => pc[t].at \in Working \/ (pc[t].at = "got" /\ pc[t].got = "RUN"),
         lock_table_mutex' = lock_table_mutex, trx_table_mutex' \in {trx_table_mutex, NONE, t}
  PROVE  LocksInv'
<1>1. /\ pc' \in [Trx -> Threads]
      /\ pc'[t].at = a /\ pc'[t].key = pc[t].key /\ pc'[t].mode = pc[t].mode /\ pc'[t].got = pc[t].got
      /\ \A u \in Trx : u # t => pc'[u] = pc[u]
  BY Moves DEF LocksInv
<1>2. K(t)' = K(t)
  BY <1>1 DEF K
<1>3. Sections'
  <2>1. a \in Asking \cup Working => K(t)' \in Keys /\ pc'[t].mode \in {S, X}
    BY <1>1, <1>2 DEF LocksInv, Sections
  <2> QED
    BY <1>1, <2>1, SectionsKept DEF LocksInv
<1>4. FoundAt(t)'
  BY <1>1 DEF FoundAt, Deciding
<1>5. WaitsAt(t)'
  <2>1. WaitsAt(t)
    BY DEF LocksInv
  <2>2. \A k : L(k, t)' = L(k, t)
    BY DEF L
  <2> QED
    BY <1>1, <1>2, <2>1, <2>2 DEF WaitsAt, NoWait
<1>6. WorksAt(t)'
  <2>1. WorksAt(t)
    BY DEF LocksInv
  <2>2. L(K(t), t)' = L(K(t), t)
    BY <1>2 DEF L
  <2> QED
    BY <1>1, <1>2, <2>1, <2>2 DEF WorksAt
<1> QED
  BY <1>1, <1>3, <1>4, <1>5, <1>6, ListsAlone

LEMMA CallLocks ==
  ASSUME LocksInv, NEW t \in Trx, NEW k \in Keys, NEW mode \in {S, X}, Call(t, k, mode)
  PROVE  LocksInv'
<1>1. pc \in [Trx -> Threads] /\ pc[t].at = "idle"
  BY DEF LocksInv, Sections, Call
<1>2. pc' = [pc EXCEPT ![t].at = "loop", ![t].key = k, ![t].mode = mode, ![t].calls = @ + 1]
  BY DEF Call
<1>3. /\ pc' \in [Trx -> Threads] /\ pc'[t].at = "loop" /\ pc'[t].key = k /\ pc'[t].mode = mode
      /\ \A u \in Trx : u # t => pc'[u] = pc[u]
  BY <1>1, <1>2 DEF Threads, Asking
<1>4. table' = table /\ lock_table_mutex' = lock_table_mutex /\ trx_table_mutex' = trx_table_mutex
  BY DEF Call
<1>5. Sections'
  BY <1>3, <1>4, SectionsKept DEF LocksInv, K, Deciding, Choosing
<1>6. NoWait(t)
  BY <1>1, Waitless DEF Asking, Deciding, Choosing
<1>7. WaitsAt(t)'
  BY <1>4, <1>6 DEF WaitsAt, NoWait, L
<1>8. FoundAt(t)' /\ WorksAt(t)'
  BY <1>3 DEF FoundAt, WorksAt, Choosing, Working
<1> QED
  BY <1>3, <1>4, <1>5, <1>7, <1>8, ListsAlone

LEMMA TakeTableLocks ==
  ASSUME LocksInv, NEW t \in Trx, TakeTable(t)
  PROVE  LocksInv'
<1> DEFINE list == table[K(t)]
           r == Request(list, t, pc[t].mode)
<1>1. /\ pc[t].at = "want" /\ lock_table_mutex = NONE /\ lock_table_mutex' = t /\ Goto(t, r)
      /\ table' = table /\ trx_table_mutex' = trx_table_mutex
  BY DEF TakeTable, Goto, Free
<1>2. K(t) \in Keys /\ pc[t].mode \in {S, X}
  BY <1>1 DEF LocksInv, Sections, Asking
<1>3. ListOK(list) /\ LocksOf(list, t) = L(K(t), t)
  BY <1>2 DEF LocksInv, L
<1>4. \A m \in {S, X} : <<m, "WAIT">> \in LocksOf(list, t) => pc[t].mode = m
  BY <1>2, <1>3 DEF LocksInv, WaitsAt
<1> HIDE DEF list, r
<1>5. /\ r \in Deciding
      /\ r \in Choosing =>
           LocksOf(list, t) \subseteq {<<S, "RUN">>} /\ (pc[t].mode = S => LocksOf(list, t) = {})
      /\ r = "covered" => pc[t].mode = S /\ \E s \in {"RUN", "WAIT"} : <<X, s>> \in LocksOf(list, t)
      /\ r \in {"retry", "retry upgrade"} =>
           \E s \in {"RUN", "WAIT"} : <<pc[t].mode, s>> \in LocksOf(list, t)
  BY <1>2, <1>3, <1>4, Requested DEF r
<1>6. r \in Everywhere
  BY <1>5 DEF Everywhere, Asking
<1>7. /\ pc' \in [Trx -> Threads]
      /\ pc'[t].at = r /\ pc'[t].key = pc[t].key /\ pc'[t].mode = pc[t].mode /\ pc'[t].got = pc[t].got
      /\ \A u \in Trx : u # t => pc'[u] = pc[u]
  BY <1>1, <1>6, Moves DEF LocksInv
<1>8. K(t)' = K(t) /\ L(K(t), t)' = LocksOf(list, t)
  BY <1>1, <1>3, <1>7 DEF K, L
<1>9. Sections'
  BY <1>1, <1>2, <1>7, <1>8, SectionsKept DEF LocksInv
<1>10. FoundAt(t)'
  <2>1. r = "covered" => <<X, "RUN">> \in LocksOf(list, t)
    BY <1>4, <1>5 DEF S, X
  <2> QED
    BY <1>5, <1>7, <1>8, <2>1 DEF FoundAt
<1>11. WaitsAt(t)'
  <2>1. \A k : L(k, t)' = L(k, t)
    BY <1>1 DEF L
  <2>2. r \in Asking /\ r # "got"
    BY <1>5 DEF Asking, Deciding, Choosing
  <2>3. WaitsAt(t)
    BY DEF LocksInv
  <2> QED
    BY <1>7, <1>8, <2>1, <2>2, <2>3 DEF WaitsAt
<1>12. WorksAt(t)'
  BY <1>5, <1>7 DEF WorksAt, Working, Deciding, Choosing
<1> QED
  BY <1>1, <1>7, <1>9, <1>10, <1>11, <1>12, ListsAlone

LEMMA DetectLocks ==
  ASSUME LocksInv, NEW t \in Trx, Detect(t)
  PROVE  LocksInv'
<1>1. /\ pc[t].at \in {"upgrade", "new"} /\ table' = table /\ lock_table_mutex' = lock_table_mutex
      /\ trx_table_mutex' \in {trx_table_mutex, t} /\ (Goto(t, "hung") \/ Goto(t, "first"))
  BY DEF Detect
<1>2. CASE Goto(t, "hung")
  <2>1. "hung" \in Everywhere \ (Deciding \cup Working) /\ "hung" \in Asking /\ pc[t].at \in Asking
    BY <1>1 DEF Everywhere, Asking, Deciding, Choosing, Working
  <2> QED
    BY <1>1, <1>2, <2>1, MoveKept
<1>3. CASE Goto(t, "first")
  <2>1. "first" \in Everywhere /\ pc[t].at \in Deciding /\ pc[t].at \in Asking /\ pc[t].at \in Choosing
    BY <1>1 DEF Everywhere, Asking, Deciding, Choosing
  <2>2. /\ pc' \in [Trx -> Threads]
        /\ pc'[t].at = "first" /\ pc'[t].key = pc[t].key /\ pc'[t].mode = pc[t].mode /\ pc'[t].got = pc[t].got
        /\ \A u \in Trx : u # t => pc'[u] = pc[u]
    BY <1>3, <2>1, Moves DEF LocksInv
  <2>3. K(t)' = K(t)
    BY <2>2 DEF K
  <2>4. \A k : L(k, t)' = L(k, t)
    BY <1>1 DEF L
  <2>5. L(K(t), t)' = L(K(t), t)
    BY <1>1, <2>3 DEF L
  <2>6. Sections'
    BY <1>1, <2>1, <2>2, <2>3, SectionsKept DEF LocksInv, Sections
  <2>7. FoundAt(t)' /\ WorksAt(t)'
    BY <2>1, <2>2, <2>3, <2>5 DEF LocksInv, FoundAt, WorksAt, Working, Choosing
  <2>8. WaitsAt(t)'
    <3>1. WaitsAt(t) /\ "first" \in Asking
      BY DEF LocksInv, Asking, Deciding, Choosing
    <3> QED
      BY <3>1, <2>2, <2>3, <2>4 DEF WaitsAt
  <2> QED
    BY <1>1, <2>2, <2>6, <2>7, <2>8, ListsAlone
<1> QED
  BY <1>1, <1>2, <1>3

\* The steps that change a list.
LEMMA AnswerLocks ==
  ASSUME LocksInv, NEW t \in Trx, Answer(t)
  PROVE  /\ LocksInv' /\ Others(t) /\ RunsKept(t)
         /\ pc'[t].at = "got" /\ pc'[t].key = pc[t].key
<1> DEFINE list == table[K(t)]
           m == IF pc[t].at = "covered" THEN X ELSE pc[t].mode
           i == Mine(list, t, m)
           new == IF pc[t].at \in {"retry", "retry upgrade"} THEN Retried(list, i) ELSE list
           r == IF pc[t].at = "deadlock" THEN "DEADLOCK" ELSE new[i].state
<1>1. /\ pc[t].at \in {"covered", "deadlock", "retry", "retry upgrade"}
      /\ lock_table_mutex' = NONE /\ trx_table_mutex' = trx_table_mutex
      /\ table' = [table EXCEPT ![K(t)] = new] /\ Got(t, r)
  BY DEF Answer
<1>2. pc[t].at \in Deciding /\ pc[t].at \in Asking /\ pc[t].at \notin Choosing
  BY <1>1 DEF Asking, Deciding, Choosing
<1>3. K(t) \in Keys /\ pc[t].mode \in {S, X} /\ lock_table_mutex = t
  BY <1>2 DEF LocksInv, Sections
<1>4. ListOK(list) /\ LocksOf(list, t) = L(K(t), t) /\ DOMAIN table = Keys
  BY <1>3 DEF LocksInv, L
<1>5. WaitsAt(t) /\ FoundAt(t)
  BY DEF LocksInv
<1> HIDE DEF list, i, m
<1>6. CASE pc[t].at = "deadlock"
  <2>1. new = list /\ r = "DEADLOCK"
    BY <1>6
  <2>2. table' = table
    <3>1. table = [k \in Keys |-> table[k]] /\ table' = [table EXCEPT ![K(t)] = list]
      BY <1>1, <2>1 DEF LocksInv
    <3>2. table' = [k \in Keys |-> IF k = K(t) THEN list ELSE table[k]]
      BY <3>1
    <3>3. \A k \in Keys : (IF k = K(t) THEN list ELSE table[k]) = table[k]
      BY DEF list
    <3>4. [k \in Keys |-> IF k = K(t) THEN list ELSE table[k]] = [k \in Keys |-> table[k]]
      BY <3>3
    <3> QED
      BY <3>1, <3>2, <3>4
  <2>3. Got(t, "DEADLOCK")
    BY <1>1, <2>1
  <2>4. /\ pc' \in [Trx -> Threads]
        /\ pc'[t].at = "got" /\ pc'[t].key = pc[t].key /\ pc'[t].mode = pc[t].mode /\ pc'[t].got = "DEADLOCK"
        /\ \A u \in Trx : u # t => pc'[u] = pc[u]
    BY <2>3, MovesGot DEF LocksInv
  <2>5. K(t)' = K(t) /\ \A k : L(k, t)' = L(k, t)
    BY <2>2, <2>4 DEF K, L
  <2>6. Sections'
    BY <1>1, <1>3, <2>4, <2>5, SectionsKept DEF LocksInv, Deciding, Choosing
  <2>7. FoundAt(t)' /\ WorksAt(t)'
    BY <2>4 DEF FoundAt, WorksAt, Working, Choosing
  <2>8. WaitsAt(t)'
    <3>1. "got" \in Asking
      BY DEF Asking
    <3> QED
      BY <1>5, <2>4, <2>5, <3>1 DEF WaitsAt
  <2>9. Others(t) /\ RunsKept(t)
    BY <2>2, <2>4, OthersAlone
  <2> QED
    BY <2>2, <2>4, <2>6, <2>7, <2>8, <2>9, ListsAlone
<1>7. CASE pc[t].at # "deadlock"
  <2>1. \E s \in {"RUN", "WAIT"} : <<m, s>> \in LocksOf(list, t)
    <3>1. pc[t].at = "covered" => <<X, "RUN">> \in LocksOf(list, t)
      BY <1>4, <1>5 DEF FoundAt
    <3>2. pc[t].at # "covered" => \E s \in {"RUN", "WAIT"} : <<pc[t].mode, s>> \in LocksOf(list, t)
      BY <1>1, <1>4, <1>5, <1>7 DEF FoundAt
    <3> QED
      BY <3>1, <3>2 DEF m
  <2>2. i \in DOMAIN list /\ list[i].trx = t /\ list[i].mode = m
    <3> DEFINE P == Places(list, t, m)
    <3>1. PICK s \in {"RUN", "WAIT"} : <<m, s>> \in LocksOf(list, t)
      BY <2>1
    <3>2. \E j \in DOMAIN list : list[j].trx = t /\ list[j].mode = m /\ list[j].state = s
      BY <3>1, LocksOfMember
    <3>3. DOMAIN list = 1 .. Len(list) /\ Len(list) \in Nat
      BY <1>4 DEF ListOK
    <3>4. P # {} /\ P \subseteq 1 .. Len(list)
      BY <3>2, <3>3 DEF Places
    <3> HIDE DEF P
    <3>5. Max(P) \in P
      BY <3>3, <3>4, GreatestNatural
    <3> QED
      BY <3>5 DEF P, Places, i, Mine
  <2>3. r = new[i].state
    BY <1>7
  <2>4. /\ ListOK(new)
        /\ \A u : u # t => LocksOf(new, u) = LocksOf(list, u)
        /\ \A k : <<k, "WAIT">> \in LocksOf(new, t) => <<k, "WAIT">> \in LocksOf(list, t)
        /\ <<X, "RUN">> \in LocksOf(list, t) => <<X, "RUN">> \in LocksOf(new, t)
        /\ <<m, new[i].state>> \in LocksOf(new, t)
        /\ new[i].state = "RUN" => <<m, "WAIT">> \notin LocksOf(new, t)
        /\ new[i].state \in {"RUN", "WAIT"}
    <3>1. CASE pc[t].at \in {"retry", "retry upgrade"}
      <4>1. new = Retried(list, i)
        BY <3>1
      <4>2. ListOK(Retried(list, i))
        BY <1>4, <2>2, RetriedOK
      <4>3. \A u : u # t => LocksOf(Retried(list, i), u) = LocksOf(list, u)
        BY <1>4, <2>2, RetriedLocks
      <4>4. /\ \A k : <<k, "WAIT">> \in LocksOf(Retried(list, i), t) => <<k, "WAIT">> \in LocksOf(list, t)
            /\ <<X, "RUN">> \in LocksOf(list, t) => <<X, "RUN">> \in LocksOf(Retried(list, i), t)
            /\ <<m, Retried(list, i)[i].state>> \in LocksOf(Retried(list, i), t)
            /\ Retried(list, i)[i].state = "RUN" => <<m, "WAIT">> \notin LocksOf(Retried(list, i), t)
            /\ Retried(list, i)[i].state \in {"RUN", "WAIT"}
        BY <1>4, <2>2, RetriedLocks
      <4> QED
        BY <4>1, <4>2, <4>3, <4>4
    <3>2. CASE pc[t].at \notin {"retry", "retry upgrade"}
      <4>1. new = list
        BY <3>2
      <4>2. <<m, list[i].state>> \in LocksOf(list, t)
        BY <2>2, LocksOfMember
      <4>3. list[i].state \in {"RUN", "WAIT"}
        BY <1>4, <2>2, LocksTyped
      <4>4. ASSUME list[i].state = "RUN", <<m, "WAIT">> \in LocksOf(list, t) PROVE FALSE
        <5>1. PICK j \in DOMAIN list : list[j].trx = t /\ list[j].mode = m /\ list[j].state = "WAIT"
          BY <4>4, LocksOfMember
        <5>2. j = i
          BY <5>1, <2>2, <1>4, OneOfEachMode
        <5> QED
          BY <5>1, <5>2, <4>4
      <4> QED
        BY <4>1, <4>2, <4>3, <4>4, <1>4
    <3> QED
      BY <3>1, <3>2
  <2>5. new[i].state = "RUN" => <<S, "WAIT">> \notin LocksOf(new, t) /\ <<X, "WAIT">> \notin LocksOf(new, t)
    <3>1. SUFFICES ASSUME new[i].state = "RUN", NEW k \in {S, X}, <<k, "WAIT">> \in LocksOf(new, t) PROVE FALSE
      OBVIOUS
    <3>2. <<k, "WAIT">> \in L(K(t), t)
      BY <3>1, <2>4, <1>4
    <3>3. pc[t].mode = k
      BY <3>2, <1>3, <1>5 DEF WaitsAt
    <3>4. k # m
      BY <3>1, <2>4
    <3>5. pc[t].at = "covered" /\ k = S /\ m = X
      BY <3>3, <3>4, <1>5 DEF m, FoundAt
    <3>6. PICK j \in DOMAIN list : list[j].trx = t /\ list[j].mode = S /\ list[j].state = "WAIT"
      BY <3>2, <3>5, <1>4, LocksOfMember
    <3>7. j # i /\ DOMAIN list = 1 .. Len(list) /\ Len(list) \in Nat
      BY <3>5, <3>6, <2>2, <1>4 DEF S, X, ListOK
    <3>8. j < i => list[j].state = "RUN"
      BY <3>6, <2>2, <1>4 DEF ListOK, Pairs
    <3>9. i < j => list[i].mode = S
      BY <3>6, <2>2, <1>4 DEF ListOK, Pairs
    <3> QED
      BY <3>5, <3>6, <3>7, <3>8, <3>9, <2>2 DEF S, X
  <2> HIDE DEF new
  <2>6. /\ table' = [table EXCEPT ![K(t)] = new] /\ Got(t, new[i].state)
    BY <1>1, <2>3
  <2>7. /\ pc' \in [Trx -> Threads]
        /\ pc'[t].at = "got" /\ pc'[t].key = pc[t].key /\ pc'[t].mode = pc[t].mode
        /\ pc'[t].got = new[i].state /\ \A u \in Trx : u # t => pc'[u] = pc[u]
    BY <2>4, <2>6, MovesGot DEF LocksInv
  <2>8. K(t)' = K(t)
    BY <2>7 DEF K
  <2>9. /\ table' = [k \in Keys |-> table'[k]] /\ table'[K(t)] = new
        /\ \A k \in Keys : k # K(t) => table'[k] = table[k]
    BY <2>6, <1>3, <1>4
  <2>10. \A k \in Keys : ListOK(table'[k])
    BY <2>4, <2>9 DEF LocksInv
  <2>11. ASSUME NEW k \in Keys, NEW u \in Trx, u # t PROVE L(k, u)' = L(k, u)
    <3>1. L(k, u)' = LocksOf(table'[k], u) /\ L(k, u) = LocksOf(table[k], u)
      BY DEF L
    <3> QED
      BY <3>1, <2>4, <2>9, <2>11 DEF list
  <2>12. Others(t)
    BY <2>7, <2>11 DEF Others
  <2>13. Sections'
    BY <1>1, <1>3, <2>7, <2>8, SectionsKept DEF LocksInv, Deciding, Choosing
  <2>14. FoundAt(t)'
    BY <2>7 DEF FoundAt, Choosing
  <2>15. L(K(t), t)' = LocksOf(new, t)
    BY <2>8, <2>9 DEF L
  <2>16. WorksAt(t)'
    <3>1. m = X \/ (pc[t].mode = S /\ m = S)
      BY <1>3 DEF m
    <3> QED
      BY <2>4, <2>7, <2>15, <3>1 DEF WorksAt, Working
  <2>17. WaitsAt(t)'
    <3> SUFFICES ASSUME NEW k \in Keys, NEW q \in {S, X}, <<q, "WAIT">> \in L(k, t)'
                 PROVE  K(t)' = k /\ pc'[t].mode = q /\ pc'[t].got # "RUN"
      BY <2>7 DEF WaitsAt, Asking
    <3>1. L(k, t)' = LocksOf(table'[k], t)
      BY DEF L
    <3>2. <<q, "WAIT">> \in L(k, t)
      BY <3>1, <2>4, <2>9, <1>4 DEF L
    <3>3. K(t) = k /\ pc[t].mode = q
      BY <3>2, <1>5 DEF WaitsAt
    <3>4. new[i].state # "RUN"
      BY <3>1, <3>3, <2>5, <2>9
    <3> QED
      BY <3>3, <3>4, <2>7, <2>8
  <2>18. RunsKept(t)
    <3> SUFFICES ASSUME NEW k \in Keys, <<X, "RUN">> \in L(k, t) PROVE <<X, "RUN">> \in LocksOf(table'[k], t)
      BY DEF RunsKept, L
    <3> QED
      BY <1>4, <2>4, <2>9 DEF L
  <2> QED
    <3>1. \A u \in Trx : FoundAt(u)' /\ WaitsAt(u)' /\ WorksAt(u)'
      BY <2>12, <2>13, <2>14, <2>16, <2>17, OthersKept
    <3> QED
      BY <3>1, <2>7, <2>9, <2>10, <2>12, <2>13, <2>18 DEF LocksInv
<1> QED
  BY <1>6, <1>7

LEMMA AddLockLocks ==
  ASSUME LocksInv, NEW t \in Trx, AddLock(t)
  PROVE  /\ LocksInv' /\ Others(t) /\ RunsKept(t)
         /\ pc'[t].at = "got" /\ pc'[t].key = pc[t].key
<1> DEFINE list == table[K(t)]
           mode == pc[t].mode
           new == NewLock(list, t, mode)
<1>1. /\ pc[t].at = "first" /\ lock_table_mutex' = NONE /\ trx_table_mutex' = trx_table_mutex
      /\ table' = [table EXCEPT ![K(t)] = Append(table[K(t)], new)] /\ Got(t, new.state)
  BY DEF AddLock
<1>2. pc[t].at \in Deciding /\ pc[t].at \in Asking /\ pc[t].at \in Choosing
  BY <1>1 DEF Asking, Deciding, Choosing
<1>3. K(t) \in Keys /\ mode \in {S, X} /\ lock_table_mutex = t
  BY <1>2 DEF LocksInv, Sections
<1>4. ListOK(list) /\ LocksOf(list, t) = L(K(t), t) /\ DOMAIN table = Keys
  BY <1>3 DEF LocksInv, L
<1>5. LocksOf(list, t) \subseteq {<<S, "RUN">>} /\ (mode = S => LocksOf(list, t) = {})
  BY <1>2, <1>4 DEF LocksInv, FoundAt
<1>6. MayAdd(list, t, mode)
  <2> SUFFICES ASSUME NEW i \in DOMAIN list, list[i].trx = t
               PROVE  list[i].mode = S /\ mode = X /\ list[i].state = "RUN"
    BY DEF MayAdd
  <2>1. <<list[i].mode, list[i].state>> \in LocksOf(list, t)
    BY LocksOfMember
  <2> QED
    BY <2>1, <1>3, <1>5
<1> HIDE DEF new, list
<1>7. /\ new \in Locks /\ new.trx = t /\ new.mode = mode /\ ListOK(Append(list, new))
  BY <1>3, <1>4, <1>6, NewLockOK DEF new
<1>8. new.state \in {"RUN", "WAIT"}
  BY <1>7 DEF Locks
<1>9. \A u : LocksOf(Append(list, new), u) =
               IF u = t THEN LocksOf(list, u) \cup {<<mode, new.state>>} ELSE LocksOf(list, u)
  BY <1>4, <1>7, AddedLocks
<1>10. /\ pc' \in [Trx -> Threads]
       /\ pc'[t].at = "got" /\ pc'[t].key = pc[t].key /\ pc'[t].mode = mode
       /\ pc'[t].got = new.state /\ \A u \in Trx : u # t => pc'[u] = pc[u]
  BY <1>1, <1>8, MovesGot DEF LocksInv
<1>11. K(t)' = K(t)
  BY <1>10 DEF K
<1>12. /\ table' = [k \in Keys |-> table'[k]] /\ table'[K(t)] = Append(list, new)
       /\ \A k \in Keys : k # K(t) => table'[k] = table[k]
  BY <1>1, <1>3, <1>4 DEF list
<1>13. \A k \in Keys : ListOK(table'[k])
  BY <1>7, <1>12 DEF LocksInv
<1>14. ASSUME NEW k \in Keys, NEW u \in Trx, u # t PROVE L(k, u)' = L(k, u)
  <2>1. L(k, u)' = LocksOf(table'[k], u) /\ L(k, u) = LocksOf(table[k], u)
    BY DEF L
  <2> QED
    BY <2>1, <1>9, <1>12, <1>14 DEF list
<1>15. Others(t)
  BY <1>10, <1>14 DEF Others
<1>16. Sections'
  BY <1>1, <1>3, <1>10, <1>11, SectionsKept DEF LocksInv, Deciding, Choosing
<1>17. FoundAt(t)'
  BY <1>10 DEF FoundAt, Choosing
<1>18. L(K(t), t)' = LocksOf(list, t) \cup {<<mode, new.state>>}
  BY <1>9, <1>11, <1>12 DEF L
<1>19. WorksAt(t)'
  BY <1>3, <1>10, <1>18 DEF WorksAt, Working
<1>20. WaitsAt(t)'
  <2> SUFFICES ASSUME NEW k \in Keys, NEW q \in {S, X}, <<q, "WAIT">> \in L(k, t)'
               PROVE  K(t)' = k /\ pc'[t].mode = q /\ pc'[t].got # "RUN"
    BY <1>10 DEF WaitsAt, Asking
  <2>1. L(k, t)' = LocksOf(table'[k], t)
    BY DEF L
  <2>2. CASE k = K(t)
    <3>1. <<q, "WAIT">> \in {<<S, "RUN">>} \cup {<<mode, new.state>>}
      BY <2>1, <2>2, <1>5, <1>9, <1>12
    <3>2. q = mode /\ new.state = "WAIT"
      BY <3>1
    <3> QED
      BY <3>2, <2>2, <1>10, <1>11
  <2>3. CASE k # K(t)
    <3>1. <<q, "WAIT">> \in L(k, t)
      BY <2>1, <2>3, <1>12 DEF L
    <3> QED
      BY <3>1, <2>3 DEF LocksInv, WaitsAt
  <2> QED
    BY <2>2, <2>3
<1>21. RunsKept(t)
  <2> SUFFICES ASSUME NEW k \in Keys, <<X, "RUN">> \in L(k, t) PROVE <<X, "RUN">> \in LocksOf(table'[k], t)
    BY DEF RunsKept, L
  <2> QED
    BY <1>4, <1>9, <1>12 DEF L
<1> QED
  <2>1. \A u \in Trx : FoundAt(u)' /\ WaitsAt(u)' /\ WorksAt(u)'
    BY <1>15, <1>16, <1>17, <1>19, <1>20, OthersKept
  <2> QED
    BY <2>1, <1>10, <1>12, <1>13, <1>15, <1>16, <1>21 DEF LocksInv

LEMMA EndTrxLocks ==
  ASSUME LocksInv, NEW t \in Trx, end_trx(t)
  PROVE  LocksInv' /\ Others(t) /\ pc'[t].at = "done"
<1> DEFINE signalled == UNION {Signalled(table[k], t) : k \in Keys}
<1>1. /\ pc[t].at = "end" /\ lock_table_mutex' = lock_table_mutex /\ trx_table_mutex' = trx_table_mutex
      /\ table' = [k \in Keys |-> Unlocked(table[k], t)]
      /\ pc' = [u \in Trx |->
                  IF u = t THEN [pc[u] EXCEPT !.at = "done"]
                  ELSE IF u \in signalled /\ pc[u].at = "asleep"
                  THEN [pc[u] EXCEPT !.at = "signalled"] ELSE pc[u]]
  BY DEF end_trx
<1> HIDE DEF signalled
<1>2. pc \in [Trx -> Threads]
  BY DEF LocksInv, Sections
<1>3. ASSUME NEW u \in Trx
      PROVE  /\ pc'[u] \in Threads /\ pc'[u].key = pc[u].key /\ pc'[u].mode = pc[u].mode
             /\ pc'[u].got = pc[u].got
             /\ u = t => pc'[u].at = "done"
             /\ u # t => pc'[u].at = pc[u].at \/ (pc[u].at = "asleep" /\ pc'[u].at = "signalled")
  <2>1. pc[u] \in Threads
    BY <1>2
  <2>2. CASE u = t
    <3>1. pc'[u] = [pc[u] EXCEPT !.at = "done"]
      BY <1>1, <2>2
    <3> QED
      BY <3>1, <2>1, <2>2 DEF Threads, Resting
  <2>3. CASE u # t /\ u \in signalled /\ pc[u].at = "asleep"
    <3>1. pc'[u] = [pc[u] EXCEPT !.at = "signalled"]
      BY <1>1, <2>3
    <3> QED
      BY <3>1, <2>1, <2>3 DEF Threads, Asking
  <2>4. CASE u # t /\ ~(u \in signalled /\ pc[u].at = "asleep")
    <3>1. pc'[u] = pc[u]
      BY <1>1, <2>4
    <3> QED
      BY <3>1, <2>1, <2>4
  <2> QED
    BY <2>2, <2>3, <2>4
<1>4. pc' \in [Trx -> Threads]
  <2>1. DOMAIN pc' = Trx /\ pc' = [u \in Trx |-> pc'[u]]
    BY <1>1
  <2> QED
    BY <2>1, <1>3
<1>5. NoWait(t)
  <2>1. "end" \notin Asking
    BY DEF Asking, Deciding, Choosing
  <2> QED
    BY <2>1, <1>1, Waitless
<1>6. ASSUME NEW k \in Keys
      PROVE  /\ ListOK(table'[k]) /\ L(k, t)' \subseteq L(k, t)
             /\ \A u : u # t => L(k, u)' = L(k, u)
  <2>1. table'[k] = Unlocked(table[k], t)
    BY <1>1
  <2>2. ListOK(table[k]) /\ <<S, "WAIT">> \notin LocksOf(table[k], t) /\ <<X, "WAIT">> \notin LocksOf(table[k], t)
    BY <1>5 DEF LocksInv, NoWait, L
  <2>3. /\ ListOK(Unlocked(table[k], t))
        /\ \A u : u # t => LocksOf(Unlocked(table[k], t), u) = LocksOf(table[k], u)
        /\ LocksOf(Unlocked(table[k], t), t) \subseteq LocksOf(table[k], t)
    BY <2>2, UnlockedLocks
  <2> QED
    BY <2>1, <2>3 DEF L
<1>7. Others(t)
  BY <1>3, <1>6 DEF Others
<1>8. Sections'
  <2>1. \A u \in Trx : pc'[u].at \in Asking \cup Working => K(u)' \in Keys /\ pc'[u].mode \in {S, X}
    <3> TAKE u \in Trx
    <3> HAVE pc'[u].at \in Asking \cup Working
    <3>1. pc[u].at \in Asking \cup Working
      <4>1. "done" \notin Asking \cup Working /\ "asleep" \in Asking
        BY DEF Asking, Working, Deciding, Choosing
      <4> QED
        BY <1>3, <4>1
    <3> QED
      BY <3>1, <1>3 DEF LocksInv, Sections, K
  <2>2. \A u \in Trx : pc'[u].at \in Deciding => lock_table_mutex' = u
    <3> TAKE u \in Trx
    <3> HAVE pc'[u].at \in Deciding
    <3>1. pc[u].at \in Deciding
      <4>1. "done" \notin Deciding /\ "signalled" \notin Deciding
        BY DEF Deciding, Choosing
      <4> QED
        BY <1>3, <4>1
    <3> QED
      BY <3>1, <1>1 DEF LocksInv, Sections
  <2> QED
    BY <1>1, <1>4, <2>1, <2>2 DEF LocksInv, Sections
<1>9. FoundAt(t)' /\ WaitsAt(t)' /\ WorksAt(t)'
  <2>1. FoundAt(t)' /\ WorksAt(t)'
    BY <1>3 DEF FoundAt, WorksAt, Working, Choosing
  <2>2. WaitsAt(t)'
    BY <1>5, <1>6 DEF WaitsAt, NoWait
  <2> QED
    BY <2>1, <2>2
<1>10. \A u \in Trx : FoundAt(u)' /\ WaitsAt(u)' /\ WorksAt(u)'
  BY <1>7, <1>8, <1>9, OthersKept
<1> QED
  <2>1. table' = [k \in Keys |-> table'[k]]
    BY <1>1
  <2> QED
    BY <2>1, <1>3, <1>6, <1>7, <1>8, <1>10 DEF LocksInv

LEMMA LocksStep ==
  ASSUME LocksInv, NEW t \in Trx, Step(t)
  PROVE  LocksInv'
<1>1. ASSUME NEW k \in Keys, Call(t, k, S) \/ Call(t, k, X) PROVE LocksInv'
  BY <1>1, CallLocks
<1>2. CASE ReadPage(t)
  <2>1. /\ pc[t].at = "loop" /\ Goto(t, "want") /\ table' = table
        /\ lock_table_mutex' = lock_table_mutex /\ trx_table_mutex' = trx_table_mutex
    BY <1>2 DEF ReadPage
  <2> QED
    BY <2>1, MoveKept DEF Everywhere, Asking, Deciding, Choosing, Working
<1>3. CASE Answered(t)
  <2>1. /\ pc[t].at = "got" /\ table' = table
        /\ lock_table_mutex' = lock_table_mutex /\ trx_table_mutex' \in {trx_table_mutex, t}
        /\ (pc[t].got = "RUN" /\ Goto(t, "work")) \/ Goto(t, "asleep") \/ Goto(t, "hung")
    BY <1>3 DEF Answered
  <2>2. CASE pc[t].got = "RUN" /\ Goto(t, "work")
    <3>1. NoWait(t)
      BY <2>1, <2>2, Waitless
    <3> QED
      BY <2>1, <2>2, <3>1, MoveKept DEF Everywhere, Asking, Deciding, Choosing, Working
  <2>3. CASE Goto(t, "asleep")
    BY <2>1, <2>3, MoveKept DEF Everywhere, Asking, Deciding, Choosing, Working
  <2>4. CASE Goto(t, "hung")
    BY <2>1, <2>4, MoveKept DEF Everywhere, Asking, Deciding, Choosing, Working
  <2> QED
    BY <2>1, <2>2, <2>3, <2>4
<1>4. CASE Woken(t)
  <2>1. /\ pc[t].at = "signalled" /\ Goto(t, "loop") /\ table' = table
        /\ lock_table_mutex' = lock_table_mutex /\ trx_table_mutex' = trx_table_mutex
    BY <1>4 DEF Woken
  <2> QED
    BY <2>1, MoveKept DEF Everywhere, Asking, Deciding, Choosing, Working
<1>5. CASE Find(t) \/ Log(t)
  <2>1. /\ pc[t].at \in Working /\ At("idle", t, NONE, NONE) /\ table' = table
        /\ lock_table_mutex' = lock_table_mutex /\ trx_table_mutex' = trx_table_mutex
    BY <1>5 DEF Find, Log, Working
  <2>2. NoWait(t)
    BY <2>1, Waitless DEF Working, Asking, Deciding, Choosing
  <2>3. "idle" \in Everywhere /\ "idle" \notin Asking \cup Working \cup Deciding
    BY DEF Everywhere, Asking, Deciding, Choosing, Working, Resting
  <2>4. /\ pc' \in [Trx -> Threads] /\ pc'[t].at = "idle"
        /\ \A u \in Trx : u # t => pc'[u] = pc[u]
    BY <2>1, <2>3, MovesAt DEF LocksInv
  <2>5. Sections'
    BY <2>1, <2>3, <2>4, SectionsKept DEF LocksInv
  <2>6. FoundAt(t)' /\ WorksAt(t)'
    BY <2>4 DEF FoundAt, WorksAt, Working, Choosing
  <2>7. WaitsAt(t)'
    BY <2>1, <2>2 DEF WaitsAt, NoWait, L
  <2> QED
    BY <2>1, <2>4, <2>5, <2>6, <2>7, ListsAlone
<1>6. CASE Update(t)
  <2>1. /\ pc[t].at = "work" /\ Goto(t, "log") /\ table' = table
        /\ lock_table_mutex' = lock_table_mutex /\ trx_table_mutex' = trx_table_mutex
    BY <1>6 DEF Update
  <2>2. NoWait(t)
    BY <2>1, Waitless DEF Asking, Deciding, Choosing
  <2> QED
    BY <2>1, <2>2, MoveKept DEF Everywhere, Asking, Deciding, Choosing, Working
<1>7. CASE EndBegin(t) \/ AbortBegin(t) \/ AbortEnd(t)
  <2>1. /\ pc[t].at \in {"idle", "aborted"} /\ table' = table
        /\ lock_table_mutex' = lock_table_mutex /\ trx_table_mutex' \in {trx_table_mutex, t}
        /\ Goto(t, "end") \/ Goto(t, "aborted") \/ Goto(t, "undo")
    BY <1>7 DEF EndBegin, AbortBegin, AbortEnd
  <2>2. NoWait(t)
    BY <2>1, Waitless DEF Asking, Deciding, Choosing
  <2>3. \A a \in {"end", "aborted", "undo"} : a \in Everywhere /\ a \notin Asking \cup Deciding \cup Working /\ a # "got"
    BY DEF Everywhere, Asking, Deciding, Choosing, Working, Resting
  <2> QED
    BY <2>1, <2>2, <2>3, MoveKept
<1>8. CASE Undo(t) \/ Erase(t)
  <2>1. /\ table' = table /\ pc' = pc /\ lock_table_mutex' = lock_table_mutex
        /\ trx_table_mutex' \in {trx_table_mutex, NONE}
    BY <1>8 DEF Undo, Erase
  <2> QED
    BY <2>1, LocksSame
<1> QED
  BY <1>1, <1>2, <1>3, <1>4, <1>5, <1>6, <1>7, <1>8, TakeTableLocks, AnswerLocks, DetectLocks,
     AddLockLocks, EndTrxLocks DEF Step


-----------------------------------------------------------------------------
LEMMA RecordsInit == Init => RecordsInv
<1> SUFFICES ASSUME Init PROVE RecordsInv
  OBVIOUS
<1>1. \A t \in Trx : pc[t].at = "idle" /\ history[t] = <<>>
  BY DEF Init
<1>2. Latches
  <2>1. leaf \in [Keys -> Leaves]
    BY DEF Init
  <2>2. page = [p \in Leaves |-> [k \in OnPage(p) |-> NONE]]
    BY DEF Init, OnPage
  <2>3. \A p \in Leaves : page[p] \in [OnPage(p) -> Writers]
    BY <2>2 DEF Writers
  <2>4. /\ latch \in [Leaves -> Trx \cup {NONE}] /\ DOMAIN copy = Trx /\ latest \in [Keys -> Writers]
    BY DEF Init, Writers
  <2>5. history \in [Trx -> Seq([key : Keys, old_value : Writers])]
    BY DEF Init
  <2> QED
    BY <2>1, <2>2, <2>3, <2>4, <2>5 DEF Latches
<1>3. \A k \in Keys : latest[k] = NONE
  BY DEF Init
<1>4. NoLostUpdate
  <2> SUFFICES ASSUME NEW k \in Keys PROVE page[leaf[k]][k] = latest[k]
    BY DEF NoLostUpdate
  <2>1. leaf[k] \in Leaves /\ k \in {j \in Keys : leaf[j] = leaf[k]}
    BY DEF Init
  <2>2. page = [p \in Leaves |-> [j \in {i \in Keys : leaf[i] = p} |-> NONE]]
    BY DEF Init
  <2> QED
    BY <1>3, <2>1, <2>2
<1>5. \A t \in Trx : CopyAt(t)
  BY <1>1 DEF CopyAt, Latched, Deciding, Choosing, Working
<1>6. \A t \in Trx : LogOf(t)
  BY <1>1 DEF LogOf
<1>7. \A k \in Keys : ValueOf(k)
  BY <1>3 DEF ValueOf, Finished
<1> QED
  BY <1>2, <1>4, <1>5, <1>6, <1>7 DEF RecordsInv

\* Of two transactions with granted locks of a record, none is exclusive.
LEMMA Exclusive ==
  ASSUME LocksInv, NEW k \in Keys, NEW t \in Trx, NEW u \in Trx, NEW m \in {S, X},
         <<X, "RUN">> \in L(k, t), <<m, "RUN">> \in L(k, u)
  PROVE  t = u
<1> SUFFICES ASSUME t # u PROVE FALSE
  OBVIOUS
<1>1. ListOK(table[k])
  BY DEF LocksInv
<1>2. PICK i \in DOMAIN table[k] : table[k][i].trx = t /\ table[k][i].mode = X /\ table[k][i].state = "RUN"
  BY LocksOfMember DEF L
<1>3. PICK j \in DOMAIN table[k] : table[k][j].trx = u /\ table[k][j].mode = m /\ table[k][j].state = "RUN"
  BY LocksOfMember DEF L
<1>4. Conflict(table[k][i], table[k][j]) /\ Conflict(table[k][j], table[k][i])
  BY <1>2, <1>3 DEF Conflict
<1>5. i \in Nat /\ j \in Nat /\ i # j
  BY <1>1, <1>2, <1>3 DEF ListOK
<1> QED
  BY <1>1, <1>2, <1>3, <1>4, <1>5 DEF ListOK, InOrder

LEMMA EntryTyped ==
  ASSUME RecordsInv, NEW t \in Trx, NEW i \in DOMAIN history[t]
  PROVE  history[t][i].key \in Keys /\ history[t][i].old_value \in Writers
<1> DEFINE E == [key : Keys, old_value : Writers]
           log == history[t]
<1>1. log \in Seq(E)
  BY DEF RecordsInv, Latches
<1> HIDE DEF E, log
<1>2. DOMAIN log = 1 .. Len(log)
  BY <1>1
<1>3. i \in 1 .. Len(log)
  BY <1>2 DEF log
<1>4. log[i] \in E
  BY <1>1, <1>3
<1> QED
  BY <1>4 DEF E, log

\* What holds of the values and logs of the others, whatever a thread does with its own.
LEMMA FinishedKept ==
  ASSUME NEW t \in Trx, Others(t), pc[t].at = "done" => pc'[t].at = "done", NEW v \in Writers, Finished(v)
  PROVE  Finished(v)'
BY DEF Finished, Others, Writers

LEMMA LogKept ==
  ASSUME LocksInv, RecordsInv, NEW t \in Trx, Others(t), pc[t].at = "done" => pc'[t].at = "done",
         NEW u \in Trx, u # t, history'[u] = history[u], copy'[u] = copy[u]
  PROVE  LogOf(u)'
<1>1. LogOf(u)
  BY DEF RecordsInv
<1>2. /\ pc'[u].key = pc[u].key /\ pc'[u].mode = pc[u].mode
      /\ pc'[u].at = pc[u].at \/ (pc[u].at = "asleep" /\ pc'[u].at = "signalled")
      /\ \A k \in Keys : L(k, u)' = L(k, u)
  BY DEF Others
<1>3. K(u)' = K(u)
  BY <1>2 DEF K
<1>5. \A i \in DOMAIN history[u] : history[u][i].key \in Keys /\ history[u][i].old_value \in Writers
  BY EntryTyped
<1>6. \A v \in Writers : Settled(u, v) => Settled(u, v)'
  BY FinishedKept DEF Settled
<1>7. \A k \in Keys : <<X, "RUN">> \in L(k, u) => <<X, "RUN">> \in L(k, u)'
  BY <1>2
<1>8. ASSUME pc'[u].at # "done", NEW i \in DOMAIN history'[u]
      PROVE  /\ <<X, "RUN">> \in LocksOf(table'[history'[u][i].key], u)
             /\ Settled(u, history[u][i].old_value)'
             /\ history'[u][i].old_value = u => \E h \in 1 .. i - 1 : history'[u][h].key = history'[u][i].key
  <2>1. i \in DOMAIN history[u] /\ history'[u][i] = history[u][i]
    BY <1>8
  <2>2. <<X, "RUN">> \in L(history[u][i].key, u) /\ Settled(u, history[u][i].old_value)
    BY <1>1, <1>2, <1>8, <2>1 DEF LogOf
  <2>3. <<X, "RUN">> \in L(history[u][i].key, u)'
    BY <1>5, <1>7, <2>1, <2>2 DEF L
  <2>4. <<X, "RUN">> \in LocksOf(table'[history'[u][i].key], u)
    BY <2>3 DEF L
  <2>5. Settled(u, history[u][i].old_value)'
    BY <1>5, <1>6, <2>1, <2>2 DEF Settled, Finished
  <2>6. history[u][i].old_value = u => \E h \in 1 .. i - 1 : history[u][h].key = history[u][i].key
    BY <1>1, <1>2, <1>8, <2>1 DEF LogOf
  <2> QED
    BY <2>1, <2>4, <2>5, <2>6
<1>9. pc'[u].at = "undo" => history'[u] # <<>>
  BY <1>1, <1>2 DEF LogOf
<1>10. ASSUME pc'[u].at = "log"
       PROVE  /\ pc'[u].mode = X /\ Settled(u, copy[u][K(u)])'
              /\ copy'[u][K(u)'] = u => Undone(u, K(u))'
  <2>1. pc[u].at = "log"
    BY <1>2, <1>10
  <2>2. pc[u].mode = X /\ Settled(u, copy[u][K(u)]) /\ (copy[u][K(u)] = u => Undone(u, K(u)))
    BY <1>1, <2>1 DEF LogOf
  <2>3. copy[u][K(u)] \in Writers
    <3>1. copy[u] \in [OnPage(leaf[K(u)]) -> Writers]
      BY <2>1 DEF RecordsInv, CopyAt, Latched, Working
    <3>2. K(u) \in OnPage(leaf[K(u)])
      BY <2>1 DEF LocksInv, Sections, Working, OnPage
    <3> QED
      BY <3>1, <3>2
  <2>4. Settled(u, copy[u][K(u)])'
    BY <1>3, <1>6, <2>2, <2>3 DEF Settled, Finished
  <2>5. Undone(u, K(u))' = Undone(u, K(u))
    BY <1>3 DEF Undone
  <2> QED
    BY <1>2, <1>3, <2>2, <2>4, <2>5
<1> QED
  BY <1>8, <1>9, <1>10 DEF LogOf, L, Settled, Finished

\* A step that leaves the pages alone.
LEMMA PagesAlone ==
  ASSUME LocksInv, LocksInv', RecordsInv, NEW t \in Trx, Others(t),
         leaf' = leaf, page' = page, latest' = latest,
         pc[t].at # "log", pc[t].at = "done" => pc'[t].at = "done",
         latch' \in [Leaves -> Trx \cup {NONE}],
         \A p \in Leaves : latch[p] \notin {NONE, t} => latch'[p] = latch[p],
         DOMAIN copy' = Trx, \A u \in Trx : u # t => copy'[u] = copy[u],
         history' \in [Trx -> Seq([key : Keys, old_value : Writers])],
         \A u \in Trx : u # t => history'[u] = history[u],
         \/ pc'[t].at = "done"
         \/ /\ history'[t] = history[t]
            /\ \A k \in Keys : <<X, "RUN">> \in L(k, t) => <<X, "RUN">> \in L(k, t)'
            /\ pc'[t].at \notin {"done", "log"}
            /\ pc'[t].at = "undo" => history[t] # <<>>,
         pc'[t].at \in Latched => latch'[leaf[K(t)']] = t /\ copy'[t] = page[leaf[K(t)']]
  PROVE  RecordsInv'
<1>1. Latches'
  BY DEF RecordsInv, Latches, OnPage
<1>2. NoLostUpdate'
  BY DEF RecordsInv, NoLostUpdate
<1>3. CopyAt(t)'
  <2> SUFFICES ASSUME pc'[t].at \in Latched
               PROVE  /\ latch'[leaf'[K(t)']] = t
                      /\ copy'[t] \in [OnPage(leaf[K(t)])' -> Writers]
                      /\ page'[leaf'[K(t)']] = copy'[t] /\ pc'[t].at # "log"
    BY DEF CopyAt
  <2>1. pc'[t].at # "log"
    OBVIOUS
  <2>2. K(t)' \in Keys
    <3>1. Latched \subseteq Asking \cup Working
      BY DEF Latched, Asking
    <3> QED
      BY <3>1 DEF LocksInv, Sections
  <2>3. leaf[K(t)'] \in Leaves
    BY <2>2 DEF RecordsInv, Latches
  <2>4. page[leaf[K(t)']] \in [OnPage(leaf[K(t)']) -> Writers]
    BY <2>3 DEF RecordsInv, Latches
  <2>5. OnPage(leaf[K(t)])' = OnPage(leaf[K(t)'])
    BY DEF OnPage
  <2> QED
    BY <2>1, <2>4, <2>5
<1>4. ASSUME NEW u \in Trx, u # t PROVE CopyAt(u)'
  <2>1. /\ pc'[u].key = pc[u].key
        /\ pc'[u].at = pc[u].at \/ (pc[u].at = "asleep" /\ pc'[u].at = "signalled")
    BY <1>4 DEF Others
  <2>2. K(u)' = K(u)
    BY <2>1 DEF K
  <2> SUFFICES ASSUME pc'[u].at \in Latched
               PROVE  /\ latch'[leaf'[K(u)']] = u
                      /\ copy'[u] \in [OnPage(leaf[K(u)])' -> Writers]
                      /\ page'[leaf'[K(u)']] =
                           IF pc'[u].at = "log" THEN [copy'[u] EXCEPT ![K(u)'] = u] ELSE copy'[u]
    BY DEF CopyAt
  <2>3. pc'[u].at = pc[u].at
    BY <2>1 DEF Latched, Deciding, Choosing, Working
  <2>4. /\ latch[leaf[K(u)]] = u /\ copy[u] \in [OnPage(leaf[K(u)]) -> Writers]
        /\ page[leaf[K(u)]] = IF pc[u].at = "log" THEN [copy[u] EXCEPT ![K(u)] = u] ELSE copy[u]
    BY <2>3 DEF RecordsInv, CopyAt
  <2>5. K(u) \in Keys
    <3>1. Latched \subseteq Asking \cup Working
      BY DEF Latched, Asking
    <3> QED
      BY <2>3, <3>1 DEF LocksInv, Sections
  <2>6. leaf[K(u)] \in Leaves
    BY <2>5 DEF RecordsInv, Latches
  <2>7. u # NONE
    BY TrxAssumption
  <2>8. latch'[leaf[K(u)]] = u
    BY <1>4, <2>4, <2>6, <2>7
  <2>9. copy'[u] = copy[u]
    BY <1>4
  <2>10. OnPage(leaf[K(u)])' = OnPage(leaf[K(u)])
    BY <2>2 DEF OnPage
  <2> QED
    BY <2>2, <2>3, <2>4, <2>8, <2>9, <2>10
<1>5. \A u \in Trx : u # t => LogOf(u)'
  BY LogKept
<1>6. LogOf(t)'
  <2>1. CASE pc'[t].at = "done"
    BY <2>1 DEF LogOf
  <2>2. CASE /\ history'[t] = history[t]
             /\ \A k \in Keys : <<X, "RUN">> \in L(k, t) => <<X, "RUN">> \in L(k, t)'
             /\ pc'[t].at \notin {"done", "log"}
             /\ pc'[t].at = "undo" => history[t] # <<>>
    <3>1. \A i \in DOMAIN history[t] : history[t][i].key \in Keys /\ history[t][i].old_value \in Writers
      BY EntryTyped
    <3>2. LogOf(t)
      BY DEF RecordsInv
    <3>3. ASSUME NEW i \in DOMAIN history'[t]
          PROVE  /\ <<X, "RUN">> \in LocksOf(table'[history'[t][i].key], t)
                 /\ Settled(t, history[t][i].old_value)'
                 /\ history'[t][i].old_value = t => \E h \in 1 .. i - 1 : history'[t][h].key = history'[t][i].key
      <4>1. i \in DOMAIN history[t] /\ history'[t][i] = history[t][i]
        BY <2>2, <3>3
      <4>2. <<X, "RUN">> \in L(history[t][i].key, t)
        BY <2>2, <3>2, <4>1 DEF LogOf
      <4>3. \A k \in Keys : <<X, "RUN">> \in L(k, t) => <<X, "RUN">> \in LocksOf(table'[k], t)
        BY <2>2 DEF L
      <4>4. <<X, "RUN">> \in LocksOf(table'[history'[t][i].key], t)
        BY <3>1, <4>1, <4>2, <4>3
      <4>5. Settled(t, history[t][i].old_value)
        BY <2>2, <3>2, <4>1 DEF LogOf
      <4>6. Settled(t, history[t][i].old_value)'
        <5>1. PICK v \in Writers : v = history[t][i].old_value
          BY <3>1, <4>1
        <5>2. v = t \/ Finished(v)
          BY <4>5, <5>1 DEF Settled
        <5>3. v = t \/ Finished(v)'
          BY <5>2, FinishedKept
        <5> QED
          BY <2>2, <5>1, <5>3 DEF Settled, Finished
      <4>7. history[t][i].old_value = t => \E h \in 1 .. i - 1 : history[t][h].key = history[t][i].key
        BY <2>2, <3>2, <4>1 DEF LogOf
      <4> QED
        BY <2>2, <4>4, <4>6, <4>7
    <3> QED
      BY <2>2, <3>3 DEF LogOf, L
  <2> QED
    BY <2>1, <2>2
<1>7. ASSUME NEW k \in Keys PROVE ValueOf(k)'
  <2>1. PICK v \in Writers : v = latest[k]
    BY DEF RecordsInv, Latches
  <2> SUFFICES ASSUME ~Finished(v)'
               PROVE  /\ <<X, "RUN">> \in L(k, v)'
                      /\ Undone(v, k)' \/ (pc'[v].at = "log" /\ K(v)' = k)
    BY <2>1 DEF ValueOf, L, Undone, Finished, K
  <2>2. ~Finished(v) /\ v \in Trx /\ pc'[v].at # "done"
    BY <2>1, FinishedKept DEF Finished, Writers
  <2>3. /\ <<X, "RUN">> \in L(k, v) /\ (Undone(v, k) \/ (pc[v].at = "log" /\ K(v) = k))
    BY <2>1, <2>2 DEF RecordsInv, ValueOf
  <2>4. CASE v = t
    <3>1. history'[t] = history[t]
      BY <2>2, <2>4
    <3>2. <<X, "RUN">> \in L(k, t)'
      BY <2>2, <2>3, <2>4
    <3>3. Undone(t, k)'
      BY <2>3, <2>4, <3>1 DEF Undone
    <3> QED
      BY <2>4, <3>2, <3>3 DEF L, Undone
  <2>5. CASE v # t
    <3>1. L(k, v)' = L(k, v) /\ pc'[v].key = pc[v].key /\ (pc[v].at = "log" => pc'[v].at = "log")
      BY <2>2, <2>5 DEF Others
    <3>2. history'[v] = history[v]
      BY <2>2, <2>5
    <3> QED
      BY <2>3, <3>1, <3>2 DEF Undone, K
  <2> QED
    BY <2>4, <2>5
<1> QED
  BY <1>1, <1>2, <1>3, <1>4, <1>5, <1>6, <1>7 DEF RecordsInv

-----------------------------------------------------------------------------
\* The steps of one thread: where it goes, what it does to the page it has latched.
\* A latch is taken when it is free, and given up by its holder.
LEMMA LatchGiven ==
  ASSUME LocksInv, RecordsInv, NEW t \in Trx, pc[t].at \in Latched, Unlatch(t)
  PROVE  /\ latch' \in [Leaves -> Trx \cup {NONE}]
         /\ \A p \in Leaves : latch[p] \notin {NONE, t} => latch'[p] = latch[p]
         /\ DOMAIN copy' = Trx /\ \A u \in Trx : u # t => copy'[u] = copy[u]
<1>1. latch[leaf[K(t)]] = t
  BY DEF RecordsInv, CopyAt
<1> QED
  BY <1>1 DEF RecordsInv, Latches, Unlatch

\* The steps of a thread that leave the lists and the pages alone, and its latch.
LEMMA QuietRecords ==
  ASSUME LocksInv, LocksInv', RecordsInv, NEW t \in Trx, NEW a \in Everywhere, Goto(t, a),
         pc[t].at \notin {"done", "log"}, a \notin {"done", "log"},
         a = "undo" => history[t] # <<>>, a \in Latched => pc[t].at \in Latched,
         leaf' = leaf, page' = page, table' = table, history' = history, latch' = latch,
         copy' = copy, latest' = latest
  PROVE  RecordsInv'
<1>1. /\ pc' \in [Trx -> Threads]
      /\ pc'[t].at = a /\ pc'[t].key = pc[t].key
      /\ \A u \in Trx : u # t => pc'[u] = pc[u]
  BY Moves DEF LocksInv
<1>2. K(t)' = K(t)
  BY <1>1 DEF K
<1>3. Others(t) /\ RunsKept(t)
  BY <1>1, OthersAlone
<1>4. pc'[t].at \in Latched => latch'[leaf[K(t)']] = t /\ copy'[t] = page[leaf[K(t)']]
  BY <1>1, <1>2 DEF RecordsInv, CopyAt
<1>5. /\ latch' \in [Leaves -> Trx \cup {NONE}] /\ DOMAIN copy' = Trx
      /\ history' \in [Trx -> Seq([key : Keys, old_value : Writers])]
  BY DEF RecordsInv, Latches
<1> QED
  BY <1>1, <1>3, <1>4, <1>5, PagesAlone DEF RunsKept

LEMMA ListRecords ==
  ASSUME LocksInv, RecordsInv, NEW t \in Trx, Answer(t) \/ AddLock(t)
  PROVE  RecordsInv'
<1>1. /\ pc[t].at \in Deciding /\ leaf' = leaf /\ page' = page /\ history' = history
      /\ latch' = latch /\ copy' = copy /\ latest' = latest
  BY DEF Answer, AddLock, Deciding, Choosing
<1>2. /\ LocksInv' /\ Others(t) /\ RunsKept(t) /\ pc'[t].at = "got" /\ pc'[t].key = pc[t].key
  BY AnswerLocks, AddLockLocks
<1>3. pc[t].at \in Latched /\ pc[t].at \notin {"done", "log"}
  BY <1>1 DEF Latched, Deciding, Choosing
<1>4. latch'[leaf[K(t)']] = t /\ copy'[t] = page[leaf[K(t)']]
  BY <1>1, <1>2, <1>3 DEF RecordsInv, CopyAt, K
<1>5. /\ latch' \in [Leaves -> Trx \cup {NONE}] /\ DOMAIN copy' = Trx
      /\ history' \in [Trx -> Seq([key : Keys, old_value : Writers])]
  BY <1>1 DEF RecordsInv, Latches
<1> QED
  BY <1>1, <1>2, <1>3, <1>4, <1>5, PagesAlone DEF RunsKept

LEMMA CallRecords ==
  ASSUME LocksInv, RecordsInv, NEW t \in Trx, NEW k \in Keys, NEW mode \in {S, X}, Call(t, k, mode)
  PROVE  RecordsInv'
<1>1. /\ pc[t].at = "idle" /\ leaf' = leaf /\ page' = page /\ history' = history /\ table' = table
      /\ latch' = latch /\ copy' = copy /\ latest' = latest
      /\ pc' = [pc EXCEPT ![t].at = "loop", ![t].key = k, ![t].mode = mode, ![t].calls = @ + 1]
  BY DEF Call
<1>2. LocksInv'
  BY CallLocks
<1>3. pc \in [Trx -> Threads]
  BY DEF LocksInv, Sections
<1>4. pc'[t].at = "loop" /\ \A u \in Trx : u # t => pc'[u] = pc[u]
  BY <1>1, <1>3 DEF Threads
<1>5. Others(t) /\ RunsKept(t)
  BY <1>1, <1>4, OthersAlone
<1>6. "loop" \notin Latched
  BY DEF Latched, Deciding, Choosing, Working
<1>7. /\ latch' \in [Leaves -> Trx \cup {NONE}] /\ DOMAIN copy' = Trx
      /\ history' \in [Trx -> Seq([key : Keys, old_value : Writers])]
  BY <1>1 DEF RecordsInv, Latches
<1> QED
  BY <1>1, <1>2, <1>4, <1>5, <1>6, <1>7, PagesAlone DEF RunsKept

LEMMA ReadPageRecords ==
  ASSUME LocksInv, LocksInv', RecordsInv, NEW t \in Trx, ReadPage(t)
  PROVE  RecordsInv'
<1>1. /\ pc[t].at = "loop" /\ latch[leaf[K(t)]] = NONE /\ Goto(t, "want")
      /\ latch' = [latch EXCEPT ![leaf[K(t)]] = t] /\ copy' = [copy EXCEPT ![t] = page[leaf[K(t)]]]
      /\ leaf' = leaf /\ page' = page /\ history' = history /\ table' = table /\ latest' = latest
  BY DEF ReadPage, Free
<1>2. "want" \in Everywhere
  BY DEF Everywhere, Asking
<1>3. /\ pc'[t].at = "want" /\ pc'[t].key = pc[t].key /\ \A u \in Trx : u # t => pc'[u] = pc[u]
  BY <1>1, <1>2, Moves DEF LocksInv
<1>4. K(t)' = K(t) /\ K(t) \in Keys
  BY <1>1, <1>3 DEF K, LocksInv, Sections, Asking
<1>5. leaf[K(t)] \in Leaves
  BY <1>4 DEF RecordsInv, Latches
<1>6. Others(t) /\ RunsKept(t)
  BY <1>1, <1>3, OthersAlone
<1>7. /\ latch' \in [Leaves -> Trx \cup {NONE}] /\ DOMAIN copy' = Trx
      /\ history' \in [Trx -> Seq([key : Keys, old_value : Writers])]
      /\ \A p \in Leaves : latch[p] \notin {NONE, t} => latch'[p] = latch[p]
      /\ \A u \in Trx : u # t => copy'[u] = copy[u]
      /\ latch'[leaf[K(t)]] = t /\ copy'[t] = page[leaf[K(t)]]
  BY <1>1, <1>5 DEF RecordsInv, Latches
<1> QED
  BY <1>1, <1>3, <1>4, <1>6, <1>7, PagesAlone DEF RunsKept

LEMMA SleepRecords ==
  ASSUME LocksInv, LocksInv', RecordsInv, NEW t \in Trx, Answered(t), Goto(t, "asleep"), Unlatch(t)
  PROVE  RecordsInv'
<1>1. /\ pc[t].at = "got"
      /\ leaf' = leaf /\ page' = page /\ history' = history /\ table' = table /\ latest' = latest
  BY DEF Answered
<1>2. "asleep" \in Everywhere /\ "asleep" \notin Latched /\ "got" \in Latched
  BY DEF Everywhere, Asking, Latched, Deciding, Choosing, Working
<1>3. /\ pc'[t].at = "asleep" /\ \A u \in Trx : u # t => pc'[u] = pc[u]
  BY <1>2, Moves DEF LocksInv
<1>4. Others(t) /\ RunsKept(t)
  BY <1>1, <1>3, OthersAlone
<1>5. /\ latch' \in [Leaves -> Trx \cup {NONE}]
      /\ \A p \in Leaves : latch[p] \notin {NONE, t} => latch'[p] = latch[p]
      /\ DOMAIN copy' = Trx /\ \A u \in Trx : u # t => copy'[u] = copy[u]
  BY <1>1, <1>2, LatchGiven
<1>6. history' \in [Trx -> Seq([key : Keys, old_value : Writers])]
  BY <1>1 DEF RecordsInv, Latches
<1> QED
  BY <1>1, <1>2, <1>3, <1>4, <1>5, <1>6, PagesAlone DEF RunsKept

LEMMA FindRecords ==
  ASSUME LocksInv, LocksInv', RecordsInv, NEW t \in Trx, Find(t)
  PROVE  RecordsInv'
<1>1. /\ pc[t].at = "work" /\ Unlatch(t) /\ At("idle", t, NONE, NONE)
      /\ leaf' = leaf /\ page' = page /\ history' = history /\ table' = table /\ latest' = latest
  BY DEF Find
<1>2. "idle" \in Everywhere /\ "idle" \notin Latched /\ "work" \in Latched
  BY DEF Everywhere, Resting, Latched, Deciding, Choosing, Working
<1>3. /\ pc'[t].at = "idle" /\ \A u \in Trx : u # t => pc'[u] = pc[u]
  BY <1>1, <1>2, MovesAt DEF LocksInv
<1>4. Others(t) /\ RunsKept(t)
  BY <1>1, <1>3, OthersAlone
<1>5. /\ latch' \in [Leaves -> Trx \cup {NONE}]
      /\ \A p \in Leaves : latch[p] \notin {NONE, t} => latch'[p] = latch[p]
      /\ DOMAIN copy' = Trx /\ \A u \in Trx : u # t => copy'[u] = copy[u]
  BY <1>1, <1>2, LatchGiven
<1>6. history' \in [Trx -> Seq([key : Keys, old_value : Writers])]
  BY <1>1 DEF RecordsInv, Latches
<1> QED
  BY <1>1, <1>2, <1>3, <1>4, <1>5, <1>6, PagesAlone DEF RunsKept

LEMMA EndTrxRecords ==
  ASSUME LocksInv, RecordsInv, NEW t \in Trx, end_trx(t)
  PROVE  RecordsInv'
<1>1. /\ pc[t].at = "end" /\ leaf' = leaf /\ page' = page /\ latest' = latest /\ latch' = latch
      /\ copy' = copy /\ history' = history
  BY DEF end_trx
<1>2. LocksInv' /\ Others(t) /\ pc'[t].at = "done"
  BY EndTrxLocks
<1>3. "done" \notin Latched
  BY DEF Latched, Deciding, Choosing, Working
<1>4. /\ history' \in [Trx -> Seq([key : Keys, old_value : Writers])]
      /\ latch' \in [Leaves -> Trx \cup {NONE}] /\ DOMAIN copy' = Trx
  BY <1>1 DEF RecordsInv, Latches
<1> QED
  BY <1>1, <1>2, <1>3, <1>4, PagesAlone

LEMMA EraseRecords ==
  ASSUME LocksInv, LocksInv', RecordsInv, NEW t \in Trx, Erase(t)
  PROVE  RecordsInv'
<1>1. /\ pc[t].at = "done" /\ leaf' = leaf /\ page' = page /\ latest' = latest /\ latch' = latch
      /\ copy' = copy /\ history' = [history EXCEPT ![t] = <<>>] /\ table' = table /\ pc' = pc
  BY DEF Erase
<1>2. Others(t) /\ pc'[t].at = "done"
  BY <1>1 DEF Others, L
<1>3. "done" \notin Latched
  BY DEF Latched, Deciding, Choosing, Working
<1>4. /\ history' \in [Trx -> Seq([key : Keys, old_value : Writers])]
      /\ \A u \in Trx : u # t => history'[u] = history[u]
  <2> DEFINE E == [key : Keys, old_value : Writers]
  <2>1. history \in [Trx -> Seq(E)]
    BY DEF RecordsInv, Latches
  <2> HIDE DEF E
  <2>2. history' \in [Trx -> Seq(E)] /\ \A u \in Trx : u # t => history'[u] = history[u]
    BY <1>1, <2>1
  <2> QED
    BY <2>2 DEF E
<1>5. latch' \in [Leaves -> Trx \cup {NONE}] /\ DOMAIN copy' = Trx
  BY <1>1 DEF RecordsInv, Latches
<1> QED
  BY <1>1, <1>2, <1>3, <1>4, <1>5, PagesAlone

LEMMA UpdateRecords ==
  ASSUME LocksInv, LocksInv', RecordsInv, NEW t \in Trx, Update(t)
  PROVE  RecordsInv'
<1> DEFINE key == K(t)
           p == leaf[key]
           new == [copy[t] EXCEPT ![key] = t]
<1>1. /\ pc[t].at = "work" /\ pc[t].mode = X /\ Goto(t, "log") /\ leaf' = leaf /\ table' = table
      /\ page' = [page EXCEPT ![p] = new] /\ latest' = [latest EXCEPT ![key] = t]
      /\ history' = history /\ latch' = latch /\ copy' = copy
  BY DEF Update
<1>2. "log" \in Everywhere /\ "work" \in Latched /\ "work" \in Working
  BY DEF Everywhere, Working, Latched
<1>3. /\ pc'[t].at = "log" /\ pc'[t].key = pc[t].key /\ pc'[t].mode = X
      /\ \A u \in Trx : u # t => pc'[u] = pc[u]
  BY <1>1, <1>2, Moves DEF LocksInv
<1>4. Others(t) /\ RunsKept(t)
  BY <1>1, <1>3, OthersAlone
<1>5. K(t)' = key
  BY <1>3 DEF K
<1>6. key \in Keys /\ <<X, "RUN">> \in L(key, t)
  BY <1>1, <1>2 DEF LocksInv, Sections, WorksAt, S, X
<1>7. latch[p] = t /\ copy[t] \in [OnPage(p) -> Writers] /\ page[p] = copy[t]
  BY <1>1, <1>2 DEF RecordsInv, CopyAt
<1>8. p \in Leaves /\ key \in OnPage(p)
  BY <1>6 DEF RecordsInv, Latches, OnPage
<1>9. t \in Writers /\ t # NONE
  BY TrxAssumption DEF Writers
<1>10. DOMAIN page = Leaves /\ latest \in [Keys -> Writers]
  BY DEF RecordsInv, Latches
<1>11. /\ new \in [OnPage(p) -> Writers] /\ new[key] = t
       /\ \A k \in OnPage(p) : k # key => new[k] = copy[t][k]
  BY <1>7, <1>8, <1>9
<1> HIDE DEF new, key, p
<1>12. /\ DOMAIN page' = Leaves /\ page'[p] = new /\ \A q \in Leaves : q # p => page'[q] = page[q]
       /\ latest' \in [Keys -> Writers] /\ latest'[key] = t
       /\ \A k \in Keys : k # key => latest'[k] = latest[k]
  BY <1>1, <1>6, <1>8, <1>9, <1>10
<1>13. \A q : OnPage(q)' = OnPage(q)
  BY <1>1 DEF OnPage
<1>14. Latches'
  <2>1. \A q \in Leaves : page'[q] \in [OnPage(q) -> Writers]
    BY <1>11, <1>12 DEF RecordsInv, Latches
  <2>2. \A q \in Leaves : page'[q] \in [OnPage(q)' -> Writers]
    BY <1>13, <2>1
  <2> QED
    BY <1>1, <1>12, <2>2 DEF RecordsInv, Latches
<1>15. NoLostUpdate'
  <2> SUFFICES ASSUME NEW k \in Keys PROVE page'[leaf[k]][k] = latest'[k]
    BY <1>1 DEF NoLostUpdate
  <2>1. leaf[k] \in Leaves /\ page[leaf[k]][k] = latest[k]
    BY DEF RecordsInv, Latches, NoLostUpdate
  <2>2. CASE k = key
    BY <2>2, <1>11, <1>12 DEF p
  <2>3. CASE k # key /\ leaf[k] = p
    <3>1. k \in OnPage(p)
      BY <2>3 DEF OnPage
    <3> QED
      BY <2>1, <2>3, <3>1, <1>7, <1>11, <1>12
  <2>4. CASE leaf[k] # p
    BY <2>1, <2>4, <1>12 DEF p
  <2> QED
    BY <2>2, <2>3, <2>4
<1>16. CopyAt(t)'
  <2>1. /\ latch'[leaf'[key]] = t /\ copy'[t] \in [OnPage(leaf[key]) -> Writers]
        /\ page'[leaf'[key]] = [copy'[t] EXCEPT ![key] = t]
    BY <1>1, <1>7, <1>12 DEF p, new
  <2>2. OnPage(leaf[K(t)])' = OnPage(leaf[key])
    BY <1>1, <1>5 DEF OnPage
  <2> QED
    BY <1>3, <1>5, <2>1, <2>2 DEF CopyAt
<1>17. ASSUME NEW u \in Trx, u # t PROVE CopyAt(u)'
  <2>1. pc'[u] = pc[u] /\ CopyAt(u)
    BY <1>3, <1>17 DEF RecordsInv
  <2>2. K(u)' = K(u)
    BY <2>1 DEF K
  <2>3. ASSUME pc[u].at \in Latched PROVE page'[leaf[K(u)]] = page[leaf[K(u)]]
    <3>1. latch[leaf[K(u)]] = u
      BY <2>1, <2>3 DEF CopyAt
    <3>2. leaf[K(u)] # p
      BY <1>7, <1>17, <3>1
    <3>3. leaf[K(u)] \in Leaves
      <4>1. pc[u].at \in Asking \cup Working
        BY <2>3 DEF Latched, Asking
      <4> QED
        BY <4>1 DEF LocksInv, Sections, RecordsInv, Latches
    <3> QED
      BY <3>2, <3>3, <1>12
  <2>4. OnPage(leaf[K(u)])' = OnPage(leaf[K(u)])
    BY <1>1, <2>2 DEF OnPage
  <2> QED
    BY <1>1, <2>1, <2>2, <2>3, <2>4 DEF CopyAt
<1>18. \A u \in Trx : u # t => LogOf(u)'
  BY <1>1, <1>3, <1>4, LogKept
<1>19. copy[t][key] = latest[key]
  BY <1>6, <1>7 DEF RecordsInv, NoLostUpdate, p
<1>20. ValueOf(key) /\ latest[key] \in Writers /\ LogOf(t) /\ pc[t].at # "done"
  BY <1>1, <1>6, <1>10 DEF RecordsInv
<1>21. Settled(t, latest[key])
  <2> SUFFICES ASSUME ~Finished(latest[key]) PROVE latest[key] = t
    BY DEF Settled
  <2>1. latest[key] \in Trx /\ <<X, "RUN">> \in L(key, latest[key])
    BY <1>20 DEF ValueOf, Finished, Writers
  <2> QED
    BY <2>1, <1>6, Exclusive
<1>22. latest[key] = t => Undone(t, key)
  <2>1. ~Finished(t)
    BY <1>1, <1>9 DEF Finished
  <2> QED
    BY <1>1, <1>20, <2>1 DEF ValueOf
<1>23. \A v \in Writers : Settled(t, v) => Settled(t, v)'
  BY <1>1, <1>4, FinishedKept DEF Settled
<1>24. LogOf(t)'
  <2>1. ASSUME NEW i \in DOMAIN history[t]
        PROVE  <<X, "RUN">> \in L(history[t][i].key, t)' /\ Settled(t, history[t][i].old_value)'
    <3>1. PICK v \in Writers : v = history[t][i].old_value
      BY EntryTyped
    <3>2. PICK k \in Keys : k = history[t][i].key
      BY EntryTyped
    <3>3. Settled(t, v)' /\ <<X, "RUN">> \in L(k, t)'
      BY <1>4, <1>20, <1>23, <3>1, <3>2 DEF LogOf, RunsKept
    <3> QED
      BY <1>1, <3>1, <3>2, <3>3 DEF Settled, Finished, L
  <2>2. Settled(t, copy[t][K(t)])'
    <3>1. PICK v \in Writers : v = latest[key]
      BY <1>20
    <3>2. Settled(t, v)'
      BY <1>21, <1>23, <3>1
    <3> QED
      BY <1>1, <1>5, <1>19, <3>1, <3>2 DEF Settled, Finished
  <2>3. copy'[t][K(t)'] = t => Undone(t, K(t))'
    BY <1>1, <1>5, <1>19, <1>22 DEF Undone
  <2> QED
    BY <1>1, <1>3, <1>20, <2>1, <2>2, <2>3 DEF LogOf
<1>25. ASSUME NEW k \in Keys PROVE ValueOf(k)'
  <2>1. CASE k = key
    <3>1. <<X, "RUN">> \in L(k, t)'
      BY <2>1, <1>4, <1>6 DEF RunsKept
    <3>2. latest'[k] = t /\ pc'[t].key = k
      BY <2>1, <1>3, <1>12 DEF key, K
    <3> QED
      BY <3>1, <3>2, <1>3 DEF ValueOf, L, K
  <2>2. CASE k # key
    <3>1. PICK v \in Writers : v = latest[k]
      BY <1>10
    <3>2. latest'[k] = v /\ ValueOf(k)
      BY <2>2, <3>1, <1>12 DEF RecordsInv
    <3> SUFFICES ASSUME ~Finished(v)'
                 PROVE  /\ <<X, "RUN">> \in L(k, v)'
                        /\ Undone(v, k)' \/ (pc'[v].at = "log" /\ K(v)' = k)
      BY <3>2 DEF ValueOf, L, Undone, Finished, K
    <3>3. ~Finished(v) /\ v \in Trx
      BY <1>1, <1>4, FinishedKept DEF Finished, Writers
    <3>4. <<X, "RUN">> \in L(k, v) /\ (Undone(v, k) \/ (pc[v].at = "log" /\ K(v) = k))
      BY <3>1, <3>2, <3>3 DEF ValueOf
    <3>5. v # t => pc'[v] = pc[v]
      BY <1>3, <3>3
    <3> QED
      BY <1>1, <3>4, <3>5 DEF L, Undone, K
  <2> QED
    BY <2>1, <2>2
<1> QED
  BY <1>14, <1>15, <1>16, <1>17, <1>18, <1>24, <1>25 DEF RecordsInv

LEMMA LogRecords ==
  ASSUME LocksInv, LocksInv', RecordsInv, NEW t \in Trx, Log(t)
  PROVE  RecordsInv'
<1> DEFINE key == K(t)
           old == copy[t][key]
           n == Len(history[t])
           E == [key : Keys, old_value : Writers]
<1>1. /\ pc[t].at = "log" /\ Unlatch(t) /\ At("idle", t, NONE, NONE)
      /\ history' = [history EXCEPT ![t] = Append(@, [key |-> key, old_value |-> old])]
      /\ leaf' = leaf /\ page' = page /\ table' = table /\ latest' = latest
  BY DEF Log
<1>2. "idle" \in Everywhere /\ "idle" \notin Latched /\ "log" \in Latched /\ "log" \in Working
  BY DEF Everywhere, Resting, Latched, Deciding, Choosing, Working
<1>3. /\ pc'[t].at = "idle" /\ \A u \in Trx : u # t => pc'[u] = pc[u]
  BY <1>1, <1>2, MovesAt DEF LocksInv
<1>4. Others(t) /\ RunsKept(t)
  BY <1>1, <1>3, OthersAlone
<1>5. /\ latch' \in [Leaves -> Trx \cup {NONE}]
      /\ \A p \in Leaves : latch[p] \notin {NONE, t} => latch'[p] = latch[p]
      /\ DOMAIN copy' = Trx /\ \A u \in Trx : u # t => copy'[u] = copy[u]
  BY <1>1, <1>2, LatchGiven
<1>6. LogOf(t) /\ pc[t].mode = X /\ Settled(t, old) /\ (old = t => Undone(t, key))
  BY <1>1 DEF RecordsInv, LogOf
<1>7. key \in Keys /\ <<X, "RUN">> \in L(key, t)
  BY <1>1, <1>2, <1>6 DEF LocksInv, Sections, WorksAt, S, X
<1>8. old \in Writers
  <2>1. copy[t] \in [OnPage(leaf[key]) -> Writers]
    BY <1>1, <1>2 DEF RecordsInv, CopyAt
  <2>2. key \in OnPage(leaf[key])
    BY <1>7 DEF OnPage
  <2> QED
    BY <2>1, <2>2
<1>9. [key |-> key, old_value |-> old] \in E
  BY <1>7, <1>8
<1>10. history \in [Trx -> Seq(E)]
  BY DEF RecordsInv, Latches
<1> HIDE DEF E, key, old
<1>11. history[t] \in Seq(E) /\ n \in Nat /\ DOMAIN history[t] = 1 .. n
  BY <1>10
<1>12. /\ history' \in [Trx -> Seq(E)] /\ history'[t] = Append(history[t], [key |-> key, old_value |-> old])
       /\ \A u \in Trx : u # t => history'[u] = history[u]
  BY <1>1, <1>9, <1>10
<1>13. /\ DOMAIN history'[t] = 1 .. n + 1
       /\ history'[t][n + 1] = [key |-> key, old_value |-> old]
       /\ \A i \in 1 .. n : history'[t][i] = history[t][i]
  BY <1>9, <1>11, <1>12, AppendProperties
<1>14. \A k : Undone(t, k) => Undone(t, k)'
  BY <1>11, <1>13 DEF Undone
<1>15. \E i \in DOMAIN history'[t] : history'[t][i].key = key
  <2>1. n + 1 \in DOMAIN history'[t] /\ history'[t][n + 1].key = key
    BY <1>11, <1>13
  <2> QED
    BY <2>1
<1>16. Latches' /\ NoLostUpdate'
  <2>1. NoLostUpdate'
    BY <1>1 DEF RecordsInv, NoLostUpdate
  <2>2. \A p \in Leaves : page'[p] \in [OnPage(p)' -> Writers]
    BY <1>1 DEF RecordsInv, Latches, OnPage
  <2> QED
    BY <1>1, <1>5, <1>12, <2>1, <2>2 DEF RecordsInv, Latches, E
<1>17. CopyAt(t)'
  BY <1>2, <1>3 DEF CopyAt
<1>18. ASSUME NEW u \in Trx, u # t PROVE CopyAt(u)'
  <2>1. pc'[u] = pc[u] /\ CopyAt(u) /\ copy'[u] = copy[u]
    BY <1>3, <1>5, <1>18 DEF RecordsInv
  <2>2. K(u)' = K(u)
    BY <2>1 DEF K
  <2>3. ASSUME pc[u].at \in Latched PROVE latch'[leaf[K(u)]] = latch[leaf[K(u)]]
    <3>1. latch[leaf[K(u)]] = u
      BY <2>1, <2>3 DEF CopyAt
    <3>2. leaf[K(u)] \in Leaves
      <4>1. pc[u].at \in Asking \cup Working
        BY <2>3 DEF Latched, Asking
      <4> QED
        BY <4>1 DEF LocksInv, Sections, RecordsInv, Latches
    <3>3. u # NONE
      BY TrxAssumption
    <3> QED
      BY <1>5, <1>18, <3>1, <3>2, <3>3
  <2>4. OnPage(leaf[K(u)])' = OnPage(leaf[K(u)])
    BY <1>1, <2>2 DEF OnPage
  <2> QED
    BY <1>1, <2>1, <2>2, <2>3, <2>4 DEF CopyAt
<1>19. \A u \in Trx : u # t => LogOf(u)'
  BY <1>1, <1>3, <1>4, <1>5, <1>12, LogKept
<1>20. LogOf(t)'
  <2>1. ASSUME NEW i \in 1 .. n + 1
        PROVE  /\ <<X, "RUN">> \in LocksOf(table'[history'[t][i].key], t)
               /\ Settled(t, history[t][i].old_value)'
               /\ history'[t][i].old_value = t =>
                    \E h \in 1 .. i - 1 : history'[t][h].key = history'[t][i].key
    <3>1. CASE i \in 1 .. n
      <4>1. i \in DOMAIN history[t] /\ history'[t][i] = history[t][i]
        BY <3>1, <1>11, <1>13
      <4>2. PICK v \in Writers : v = history[t][i].old_value
        BY <4>1, EntryTyped
      <4>3. /\ <<X, "RUN">> \in LocksOf(table[history[t][i].key], t) /\ Settled(t, v)
            /\ v = t => \E h \in 1 .. i - 1 : history[t][h].key = history[t][i].key
        BY <1>1, <1>6, <4>1, <4>2 DEF LogOf, L
      <4>4. Settled(t, v)'
        BY <1>1, <1>4, <4>3, FinishedKept DEF Settled
      <4>5. Settled(t, history[t][i].old_value)'
        BY <4>1, <4>2, <4>4 DEF Settled, Finished
      <4>6. \A h \in 1 .. i - 1 : history'[t][h] = history[t][h]
        BY <3>1, <1>11, <1>13
      <4> QED
        BY <1>1, <4>1, <4>2, <4>3, <4>5, <4>6
    <3>2. CASE i = n + 1
      <4>1. history'[t][i].key = key /\ history'[t][i].old_value = old
        BY <3>2, <1>13
      <4>2. PICK v \in Writers : v = old
        BY <1>8
      <4>3. Settled(t, v)'
        BY <1>1, <1>4, <1>6, <4>2, FinishedKept DEF Settled
      <4>4. Settled(t, history[t][i].old_value)'
        BY <4>1, <4>2, <4>3 DEF Settled, Finished
      <4>5. <<X, "RUN">> \in LocksOf(table'[key], t)
        BY <1>1, <1>7 DEF L
      <4>6. old = t => \E h \in 1 .. i - 1 : history'[t][h].key = key
        <5> SUFFICES ASSUME old = t PROVE \E h \in 1 .. i - 1 : history'[t][h].key = key
          OBVIOUS
        <5>1. PICK h \in DOMAIN history[t] : history[t][h].key = key
          BY <1>6 DEF Undone
        <5> QED
          BY <5>1, <3>2, <1>11, <1>13
      <4> QED
        BY <4>1, <4>4, <4>5, <4>6
    <3> QED
      BY <3>1, <3>2, <1>11
  <2> QED
    BY <1>3, <1>13, <2>1 DEF LogOf, L
<1>21. ASSUME NEW k \in Keys PROVE ValueOf(k)'
  <2>1. PICK v \in Writers : v = latest[k]
    BY DEF RecordsInv, Latches
  <2> SUFFICES ASSUME ~Finished(v)'
               PROVE  /\ <<X, "RUN">> \in L(k, v)'
                      /\ Undone(v, k)' \/ (pc'[v].at = "log" /\ K(v)' = k)
    BY <1>1, <2>1 DEF ValueOf, L, Undone, Finished, K
  <2>2. ~Finished(v) /\ v \in Trx
    BY <1>1, <1>4, FinishedKept DEF Finished, Writers
  <2>3. <<X, "RUN">> \in L(k, v) /\ (Undone(v, k) \/ (pc[v].at = "log" /\ K(v) = k))
    BY <2>1, <2>2 DEF RecordsInv, ValueOf
  <2>4. <<X, "RUN">> \in L(k, v)'
    BY <1>1, <2>3 DEF L
  <2>5. CASE v = t
    <3>1. Undone(t, k) => Undone(t, k)'
      BY <1>14
    <3>2. K(t) = k => Undone(t, k)'
      BY <1>15 DEF Undone, key
    <3> QED
      BY <2>3, <2>4, <2>5, <3>1, <3>2 DEF Undone
  <2>6. CASE v # t
    BY <1>3, <1>12, <2>2, <2>3, <2>4, <2>6 DEF Undone, K
  <2> QED
    BY <2>5, <2>6
<1> QED
  BY <1>16, <1>17, <1>18, <1>19, <1>20, <1>21 DEF RecordsInv

LEMMA UndoRecords ==
  ASSUME LocksInv, LocksInv', RecordsInv, NEW t \in Trx, Undo(t)
  PROVE  RecordsInv'
<1> DEFINE log == history[t]
           key == Last(log).key
           old == Last(log).old_value
           p == leaf[key]
<1>1. /\ pc[t].at = "undo" /\ latch[p] = NONE
      /\ page' = [page EXCEPT ![p][key] = old] /\ latest' = [latest EXCEPT ![key] = old]
      /\ leaf' = leaf /\ table' = table /\ history' = history /\ latch' = latch /\ pc' = pc /\ copy' = copy
  BY DEF Undo, Free
<1>2. LogOf(t) /\ history[t] # <<>>
  BY <1>1 DEF RecordsInv, LogOf
<1>3. Len(log) \in DOMAIN log /\ Last(log) = log[Len(log)]
  <2> DEFINE E == [key : Keys, old_value : Writers]
  <2>1. log \in Seq(E)
    BY DEF RecordsInv, Latches
  <2> HIDE DEF E
  <2> QED
    BY <1>2, <2>1, EmptySeq, LenProperties DEF Last
<1>4. /\ key \in Keys /\ old \in Writers /\ <<X, "RUN">> \in L(key, t) /\ Settled(t, old)
      /\ Undone(t, key)
  BY <1>1, <1>2, <1>3, EntryTyped DEF LogOf, Undone
<1>5. p \in Leaves /\ key \in OnPage(p) /\ DOMAIN page = Leaves /\ latest \in [Keys -> Writers]
  BY <1>4 DEF RecordsInv, Latches, OnPage
<1>6. page[p] \in [OnPage(p) -> Writers]
  BY <1>5 DEF RecordsInv, Latches
<1> HIDE DEF key, old, p, log
<1>7. page' = [page EXCEPT ![p] = [page[p] EXCEPT ![key] = old]]
  BY <1>1
<1>8. /\ DOMAIN page' = Leaves /\ \A q \in Leaves : q # p => page'[q] = page[q]
      /\ page'[p] \in [OnPage(p) -> Writers] /\ page'[p][key] = old
      /\ \A k \in OnPage(p) : k # key => page'[p][k] = page[p][k]
      /\ latest' \in [Keys -> Writers] /\ latest'[key] = old
      /\ \A k \in Keys : k # key => latest'[k] = latest[k]
  BY <1>1, <1>4, <1>5, <1>6, <1>7
<1>9. Latches'
  <2>1. \A q \in Leaves : page'[q] \in [OnPage(q) -> Writers]
    BY <1>8 DEF RecordsInv, Latches
  <2>2. \A q \in Leaves : page'[q] \in [OnPage(q)' -> Writers]
    BY <1>1, <2>1 DEF OnPage
  <2> QED
    BY <1>1, <1>8, <2>2 DEF RecordsInv, Latches
<1>10. NoLostUpdate'
  <2> SUFFICES ASSUME NEW k \in Keys PROVE page'[leaf[k]][k] = latest'[k]
    BY <1>1 DEF NoLostUpdate
  <2>1. leaf[k] \in Leaves /\ page[leaf[k]][k] = latest[k]
    BY DEF RecordsInv, Latches, NoLostUpdate
  <2>2. CASE k = key
    BY <2>2, <1>8 DEF p
  <2>3. CASE k # key /\ leaf[k] = p
    <3>1. k \in OnPage(p)
      BY <2>3 DEF OnPage
    <3> QED
      BY <2>1, <2>3, <3>1, <1>8
  <2>4. CASE leaf[k] # p
    BY <2>1, <2>4, <1>8 DEF p
  <2> QED
    BY <2>2, <2>3, <2>4
<1>11. \A u \in Trx : K(u)' = K(u)
  BY <1>1 DEF K
<1>12. ASSUME NEW u \in Trx PROVE CopyAt(u)'
  <2>1. CopyAt(u) /\ K(u)' = K(u) /\ u # NONE
    BY <1>11, TrxAssumption DEF RecordsInv
  <2>2. ASSUME pc[u].at \in Latched PROVE page'[leaf[K(u)]] = page[leaf[K(u)]]
    <3>1. latch[leaf[K(u)]] = u
      BY <2>1, <2>2 DEF CopyAt
    <3>2. leaf[K(u)] # p
      BY <1>1, <2>1, <3>1
    <3>3. leaf[K(u)] \in Leaves
      <4>1. pc[u].at \in Asking \cup Working
        BY <2>2 DEF Latched, Asking
      <4> QED
        BY <4>1 DEF LocksInv, Sections, RecordsInv, Latches
    <3> QED
      BY <3>2, <3>3, <1>8
  <2>3. OnPage(leaf[K(u)])' = OnPage(leaf[K(u)])
    BY <1>1, <2>1 DEF OnPage
  <2> QED
    BY <1>1, <2>1, <2>2, <2>3 DEF CopyAt
<1>13. ASSUME NEW u \in Trx PROVE LogOf(u)'
  <2>1. LogOf(u) /\ K(u)' = K(u)
    BY <1>11 DEF RecordsInv
  <2> QED
    BY <1>1, <2>1 DEF LogOf, L, Settled, Finished, Undone
<1>14. ASSUME NEW k \in Keys PROVE ValueOf(k)'
  <2>1. CASE k = key
    <3>1. latest'[k] = old
      BY <2>1, <1>8
    <3>2. ~Finished(old) => old = t
      BY <1>4 DEF Settled
    <3>3. <<X, "RUN">> \in L(k, t) /\ Undone(t, k)
      BY <2>1, <1>4
    <3> QED
      BY <3>1, <3>2, <3>3, <1>1 DEF ValueOf, L, Undone, Finished, K
  <2>2. CASE k # key
    <3>1. latest'[k] = latest[k] /\ ValueOf(k)
      BY <2>2, <1>8 DEF RecordsInv
    <3> QED
      BY <3>1, <1>1 DEF ValueOf, L, Undone, Finished, K
  <2> QED
    BY <2>1, <2>2
<1> QED
  BY <1>9, <1>10, <1>12, <1>13, <1>14 DEF RecordsInv

LEMMA RecordsStep ==
  ASSUME LocksInv, LocksInv', RecordsInv, NEW t \in Trx, Step(t)
  PROVE  RecordsInv'
<1>1. ASSUME NEW k \in Keys, Call(t, k, S) \/ Call(t, k, X) PROVE RecordsInv'
  BY <1>1, CallRecords
<1>2. CASE TakeTable(t)
  <2> DEFINE r == Request(table[K(t)], t, pc[t].mode)
  <2>1. r \in Deciding
    BY DEF Request, Deciding, Choosing
  <2>2. r \in Everywhere /\ r \notin {"done", "log", "undo"} /\ "want" \in Latched
    BY <2>1 DEF Everywhere, Asking, Deciding, Choosing, Latched
  <2>3. /\ pc[t].at = "want" /\ Goto(t, r) /\ leaf' = leaf /\ page' = page /\ table' = table
        /\ history' = history /\ latch' = latch /\ copy' = copy /\ latest' = latest
    BY <1>2 DEF TakeTable, Goto
  <2> HIDE DEF r
  <2> QED
    BY <2>2, <2>3, QuietRecords
<1>3. CASE Detect(t)
  <2>1. PICK a \in {"hung", "first"} : Goto(t, a)
    BY <1>3 DEF Detect
  <2>2. a \in Everywhere /\ a \notin {"done", "log", "undo"} /\ pc[t].at \in Latched
    BY <1>3 DEF Detect, Everywhere, Asking, Deciding, Choosing, Latched
  <2>3. /\ pc[t].at \notin {"done", "log"} /\ leaf' = leaf /\ page' = page /\ table' = table
        /\ history' = history /\ latch' = latch /\ copy' = copy /\ latest' = latest
    BY <1>3 DEF Detect
  <2> QED
    BY <2>1, <2>2, <2>3, QuietRecords
<1>4. CASE Answered(t)
  <2>1. CASE Goto(t, "asleep") /\ Unlatch(t)
    BY <1>4, <2>1, SleepRecords
  <2>2. CASE (Goto(t, "work") \/ Goto(t, "hung")) /\ latch' = latch /\ copy' = copy
    <3>1. PICK a \in {"work", "hung"} : Goto(t, a)
      BY <2>2
    <3>2. a \in Everywhere /\ a \notin {"done", "log", "undo"} /\ "got" \in Latched
      BY DEF Everywhere, Asking, Working, Latched
    <3>3. /\ pc[t].at = "got" /\ leaf' = leaf /\ page' = page /\ table' = table
          /\ history' = history /\ latest' = latest
      BY <1>4 DEF Answered
    <3> QED
      BY <2>2, <3>1, <3>2, <3>3, QuietRecords
  <2> QED
    BY <1>4, <2>1, <2>2 DEF Answered, Unlatch
<1>5. CASE Woken(t)
  <2>1. "loop" \in Everywhere /\ "loop" \notin Latched
    BY DEF Everywhere, Asking, Latched, Deciding, Choosing, Working
  <2>2. /\ pc[t].at = "signalled" /\ Goto(t, "loop") /\ leaf' = leaf /\ page' = page /\ table' = table
        /\ history' = history /\ latch' = latch /\ copy' = copy /\ latest' = latest
    BY <1>5 DEF Woken
  <2> QED
    BY <2>1, <2>2, QuietRecords
<1>6. CASE EndBegin(t) \/ AbortBegin(t) \/ AbortEnd(t)
  <2>1. PICK a \in {"end", "aborted", "undo"} : Goto(t, a) /\ (a = "undo" => history[t] # <<>>)
    BY <1>6 DEF EndBegin, AbortBegin, AbortEnd
  <2>2. a \in Everywhere /\ a \notin Latched /\ a \notin {"done", "log"}
    BY DEF Everywhere, Resting, Latched, Deciding, Choosing, Working
  <2>3. /\ pc[t].at \in {"idle", "aborted"} /\ leaf' = leaf /\ page' = page /\ table' = table
        /\ history' = history /\ latch' = latch /\ copy' = copy /\ latest' = latest
    BY <1>6 DEF EndBegin, AbortBegin, AbortEnd
  <2> QED
    BY <2>1, <2>2, <2>3, QuietRecords
<1> QED
  BY <1>1, <1>2, <1>3, <1>4, <1>5, <1>6, ReadPageRecords, ListRecords, FindRecords, UpdateRecords,
     LogRecords, EndTrxRecords, EraseRecords, UndoRecords DEF Step

LEMMA Invariant ==
  /\ Init => LocksInv /\ RecordsInv
  /\ LocksInv /\ RecordsInv /\ [Next]_vars => LocksInv' /\ RecordsInv'
<1>1. Init => LocksInv /\ RecordsInv
  BY LocksInit, RecordsInit
<1>2. ASSUME LocksInv, RecordsInv, Next PROVE LocksInv' /\ RecordsInv'
  BY <1>2, LocksStep, RecordsStep DEF Next
<1>3. ASSUME LocksInv, RecordsInv, UNCHANGED vars PROVE LocksInv' /\ RecordsInv'
  <2>1. /\ leaf' = leaf /\ page' = page /\ table' = table /\ history' = history /\ latch' = latch
        /\ trx_table_mutex' = trx_table_mutex /\ lock_table_mutex' = lock_table_mutex
        /\ pc' = pc /\ copy' = copy /\ latest' = latest
    BY <1>3 DEF vars
  <2>2. LocksInv'
    BY <1>3, <2>1, LocksSame
  <2>3. \A t : K(t)' = K(t)
    BY <2>1 DEF K
  <2>4. Latches' /\ NoLostUpdate'
    BY <1>3, <2>1 DEF RecordsInv, Latches, OnPage, NoLostUpdate
  <2>5. ASSUME NEW t \in Trx PROVE CopyAt(t)' /\ LogOf(t)'
    <3>1. CopyAt(t) /\ LogOf(t) /\ K(t)' = K(t)
      BY <1>3, <2>3 DEF RecordsInv
    <3>2. OnPage(leaf[K(t)])' = OnPage(leaf[K(t)])
      BY <2>1, <3>1 DEF OnPage
    <3>3. CopyAt(t)'
      BY <2>1, <3>1, <3>2 DEF CopyAt
    <3>4. LogOf(t)'
      BY <2>1, <3>1 DEF LogOf, L, Settled, Finished, Undone
    <3> QED
      BY <3>3, <3>4
  <2>6. ASSUME NEW k \in Keys PROVE ValueOf(k)'
    BY <1>3, <2>1 DEF RecordsInv, ValueOf, L, Undone, Finished, K
  <2> QED
    BY <2>2, <2>4, <2>5, <2>6 DEF RecordsInv
<1> QED
  BY <1>1, <1>2, <1>3

\* For any transactions, records and pages, whatever the order of the steps: locks of a
\* record that conflict are never both granted, nobody overtakes a waiter it conflicts
\* with, a reader that waits points to an exclusive lock before it, and the sections of
\* lock_record are those of the holder of lock_table_mutex (lock_manager.cc, end_trx).
THEOREM LocksAlwaysGranted == Spec => []LocksGranted
<1>1. LocksInv /\ RecordsInv => LocksGranted
  <2> SUFFICES ASSUME LocksInv, RecordsInv PROVE LocksGranted
    OBVIOUS
  <2>1. ASSUME NEW k \in Keys PROVE ListOK(table[k]) /\ DOMAIN table[k] = 1 .. Len(table[k]) /\ Len(table[k]) \in Nat
    BY DEF LocksInv, ListOK
  <2>2. TrxTypeOK
    <3>1. \A p \in Leaves : page[p] \in [{k \in Keys : leaf[k] = p} -> Writers]
      BY DEF RecordsInv, Latches, OnPage
    <3>2. ASSUME NEW k \in Keys, NEW l \in ToSet(table[k])
          PROVE  l.trx \in Trx /\ l.mode \in {S, X} /\ l.state \in {"RUN", "WAIT"}
      <4>1. PICK i \in DOMAIN table[k] : l = table[k][i]
        BY DEF ToSet
      <4> QED
        BY <4>1, <2>1, LocksTyped
    <3>3. /\ lock_table_mutex \in Trx \cup {NONE} /\ trx_table_mutex \in Trx \cup {NONE}
          /\ \A t \in Trx :
               pc[t].at \in {"covered", "deadlock", "retry", "retry upgrade", "upgrade", "new", "first"}
                 => lock_table_mutex = t
      BY DEF LocksInv, Sections, Deciding, Choosing
    <3> QED
      BY <3>1, <3>2, <3>3 DEF TrxTypeOK
  <2>3. ConflictFree
    <3> SUFFICES ASSUME NEW k \in Keys, NEW i \in DOMAIN table[k], NEW j \in DOMAIN table[k],
                        Conflict(table[k][i], table[k][j])
                 PROVE  "WAIT" \in {table[k][i].state, table[k][j].state}
      BY DEF ConflictFree
    <3>1. Conflict(table[k][j], table[k][i]) /\ i # j /\ i \in Nat /\ j \in Nat
      BY <2>1 DEF Conflict
    <3> QED
      BY <2>1, <3>1 DEF ListOK, InOrder
  <2>4. NoOvertaking
    BY <2>1 DEF NoOvertaking, ListOK, InOrder
  <2>5. WaitsForALock
    <3> SUFFICES ASSUME NEW k \in Keys, NEW j \in DOMAIN table[k], table[k][j].wait # NONE
                 PROVE  \E i \in 1 .. j - 1 : table[k][i].trx = table[k][j].wait.trx /\ table[k][i].mode = X
      BY DEF WaitsForALock
    <3> QED
      BY <2>1 DEF ListOK, Behind
  <2> QED
    BY <2>2, <2>3, <2>4, <2>5 DEF LocksGranted
<1> QED
  BY <1>1, Invariant, PTL DEF Spec

\* For any transactions, records and pages: although db_update writes back a whole page
\* from a copy that it made before it had the lock, every record on a page has its latest
\* value; who works on a record reads that value, and it is its own or committed; and the
\* first value a transaction logged for a record is the one of before it, by another
\* transaction that has ended.
THEOREM RecordsAlwaysKept == Spec => []RecordsKept
<1>1. LocksInv /\ RecordsInv => RecordsKept
  <2> SUFFICES ASSUME LocksInv, RecordsInv PROVE RecordsKept
    OBVIOUS
  <2>1. NoLostUpdate
    BY DEF RecordsInv
  <2>2. CleanRead
    <3> SUFFICES ASSUME NEW t \in Trx, pc[t].at = "work"
                 PROVE  /\ copy[t][K(t)] = latest[K(t)]
                        /\ copy[t][K(t)] = t \/ Finished(copy[t][K(t)])
      BY DEF CleanRead
    <3>1. "work" \in Working /\ "work" \in Latched
      BY DEF Working, Latched
    <3>2. K(t) \in Keys /\ \E m \in {S, X} : <<m, "RUN">> \in L(K(t), t)
      BY <3>1 DEF LocksInv, Sections, WorksAt
    <3>3. copy[t] = page[leaf[K(t)]]
      BY <3>1 DEF RecordsInv, CopyAt
    <3>4. copy[t][K(t)] = latest[K(t)]
      BY <2>1, <3>2, <3>3 DEF NoLostUpdate
    <3>5. ASSUME ~Finished(latest[K(t)]) PROVE latest[K(t)] = t
      <4>1. latest[K(t)] \in Writers /\ ValueOf(K(t))
        BY <3>2 DEF RecordsInv, Latches
      <4>2. latest[K(t)] \in Trx /\ <<X, "RUN">> \in L(K(t), latest[K(t)])
        BY <3>5, <4>1 DEF ValueOf, Finished, Writers
      <4> QED
        BY <3>2, <4>2, Exclusive
    <3> QED
      BY <3>4, <3>5
  <2>3. UndoExact
    <3> SUFFICES ASSUME NEW t \in Trx, ~Finished(t), NEW k \in Keys
                 PROVE  LET mine == {i \in DOMAIN history[t] : history[t][i].key = k}
                            logging == pc[t].at = "log" /\ K(t) = k
                        IN  /\ latest[k] = t => mine # {} \/ logging
                            /\ mine # {} => LET v == history[t][Min(mine)].old_value
                                            IN  v # t /\ Finished(v)
      BY DEF UndoExact
    <3> DEFINE mine == {i \in DOMAIN history[t] : history[t][i].key = k}
    <3>1. latest[k] = t => mine # {} \/ (pc[t].at = "log" /\ K(t) = k)
      BY DEF RecordsInv, ValueOf, Undone
    <3>2. ASSUME mine # {}
          PROVE  history[t][Min(mine)].old_value # t /\ Finished(history[t][Min(mine)].old_value)
      <4> DEFINE E == [key : Keys, old_value : Writers]
      <4>1. history[t] \in Seq(E)
        BY DEF RecordsInv, Latches
      <4> HIDE DEF E
      <4>2. DOMAIN history[t] = 1 .. Len(history[t]) /\ Len(history[t]) \in Nat
        BY <4>1
      <4>3. mine \subseteq 1 .. Len(history[t])
        BY <4>2
      <4> HIDE DEF mine
      <4>4. Min(mine) \in mine /\ \A y \in mine : Min(mine) <= y
        BY <3>2, <4>2, <4>3, SmallestOf
      <4>5. PICK i \in DOMAIN history[t] : i = Min(mine) /\ history[t][i].key = k
        BY <4>4 DEF mine
      <4>6. LogOf(t) /\ i \in Nat /\ pc[t].at # "done"
        BY <4>2, <4>5 DEF RecordsInv, Finished
      <4>7. history[t][i].old_value # t
        <5> SUFFICES ASSUME history[t][i].old_value = t PROVE FALSE
          OBVIOUS
        <5>1. PICK h \in 1 .. i - 1 : history[t][h].key = k
          BY <4>5, <4>6 DEF LogOf
        <5>2. h \in mine /\ h \in Nat /\ h < i
          BY <5>1, <4>2, <4>5, <4>6 DEF mine
        <5> QED
          BY <5>2, <4>4, <4>5, <4>6
      <4> QED
        BY <4>5, <4>6, <4>7 DEF LogOf, Settled
    <3> QED
      BY <3>1, <3>2
  <2> QED
    BY <2>1, <2>2, <2>3 DEF RecordsKept
<1> QED
  BY <1>1, Invariant, PTL DEF Spec
=============================================================================
