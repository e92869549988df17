--------------------------- MODULE SpinlocksProofs ---------------------------
(***************************************************************************)
(* For any CPUs and processes: xv6 takes and gives back its spinlocks and   *)
(* turns interrupts off and on as spinlock.c and sched() demand.            *)
(*                                                                         *)
(* The argument: what is left of the path of a kernel thread says which     *)
(* locks it has, those that it will release before it takes them again.    *)
(* A CPU has the locks of the thread that it runs, and its ncli counts     *)
(* them; a thread that was switched out has ptable.lock, which the CPU     *)
(* keeps for the next thread.  Whoever is in an interrupt handler finds    *)
(* interrupts off once it has given its last lock back, because intena     *)
(* travels with it in sched's local variable.                              *)
(***************************************************************************)
EXTENDS Spinlocks, SequenceTheorems, TLAPS

Switches == {"swtch", "swtch thread"}
Others == Switches \cup {"restore", "pick", "uptime", "sti", "iret"}
Alone == {""}
Ops == ({"acquire", "xchg", "release"} \X Locks) \cup (Others \X Alone)
\* The locks of a thread with the path s before it.
Has(s, l) == \E k \in 1 .. Len(s) : s[k] = Release(l) /\ \A j \in 1 .. k - 1 : s[j][2] # l
Locked(s) == {l \in Locks : Has(s, l)}
Handling(s) == \E i \in 1 .. Len(s) : s[i][1] = "iret"
Begins(s, kind) == s # <<>> /\ s[1][1] = kind

\* What a step needs of the rest of its path: a lock is taken to be released, and was
\* taken when it is; threads are switched with ptable.lock; handlers do not nest.
Fits(op, rest) ==
  /\ op[1] \in {"acquire", "xchg"} => op[2] \in Locked(rest)
  /\ op[1] = "release" => op[2] \notin Locked(rest)
  /\ op[1] \in Switches => rest # <<>> /\ rest[1] = Do("restore")
  /\ op[1] = "pick" => rest # <<>> /\ rest[1] = Do("uptime")
  /\ op[1] \in Switches \cup {"restore", "pick", "uptime"} => Locked(rest) = {"ptable"}
  /\ op[1] \in {"sti", "iret"} => Locked(rest) = {}
  /\ op[1] \in {"sti", "iret", "pick"} => ~Handling(rest)
  /\ op[1] \notin Switches => ~Begins(rest, "restore") /\ ~Begins(rest, "xchg")
Path(s) == s \in Seq(Ops) /\ \A i \in 1 .. Len(s) : Fits(s[i], SubSeq(s, i + 1, Len(s)))

\* The scheduler's thread picks, the others switch.
Foreign(t) == IF t \in Tasks THEN {"pick"} ELSE Switches \cup {"restore"}
Without(s, kinds) == \A i \in 1 .. Len(s) : s[i][1] \notin kinds
PathOf(t, s) == Path(s) /\ Without(s, Foreign(t))
\* A thread that was switched out.
Parked(s) ==
  /\ s # <<>> /\ s[1] \in {Do("restore"), Do("uptime"), Release("ptable")}
  /\ Locked(s) = {"ptable"}
  /\ Handling(s) => Begins(s, "restore")
Running(t) == \E c \in CPUs : Cur(c) = t

\* The locks of a CPU are those of its thread, and ncli counts them.
One(b) == IF b THEN 1 ELSE 0
Count(H) == One("ptable" \in H) + One("ticks" \in H) + One("device" \in H)
Agrees(u, s, H) ==
  /\ H = Locked(s) /\ u.ncli = Count(H) + One(Begins(s, "xchg"))
  /\ u.interruptible => u.ncli = 0 /\ ~Handling(s)
  /\ Handling(s) /\ u.ncli > 0 /\ ~Begins(s, "restore") => ~u.intena
Cpus == [on : CPUs \cup Tasks, ncli : Nat, intena : BOOLEAN, interruptible : BOOLEAN]
Types ==
  /\ lock \in [Locks -> CPUs \cup {FREE}] /\ cpu \in [CPUs -> Cpus]
  /\ todo = [t \in Tasks \cup CPUs |-> todo[t]] /\ kept \in [Tasks -> BOOLEAN]
  /\ \A c \in CPUs : Cur(c) \in Tasks \cup {c}
  /\ \A c, d \in CPUs : Cur(c) = Cur(d) => c = d
SpinInv ==
  /\ Types /\ ~panic
  /\ \A t \in Tasks \cup CPUs : PathOf(t, todo[t]) /\ (~Running(t) => Parked(todo[t]))
  /\ \A t \in Tasks : Handling(todo[t]) /\ Begins(todo[t], "restore") => ~kept[t]
  /\ \A c \in CPUs : Agrees(cpu[c], todo[Cur(c)], Held(c))
Distinct == FREE \notin CPUs /\ CPUs \cap Tasks = {}

-----------------------------------------------------------------------------
\* Paths.

\* Every step is a name and a lock, or a name alone.
LEMMA Pairs ==
  ASSUME NEW A, NEW B, NEW op \in A \X B
  PROVE  op = <<op[1], op[2]>> /\ op[1] \in A /\ op[2] \in B
OBVIOUS
LEMMA Steps ==
  ASSUME NEW op \in Ops
  PROVE  /\ op = <<op[1], op[2]>>
         /\ op[2] \in Locks => op[1] \in {"acquire", "xchg", "release"}
         /\ op[2] \notin Locks => op[1] \in Others /\ op[2] = ""
<1>1. "" \notin Locks
  BY DEF Locks
<1>2. CASE op \in {"acquire", "xchg", "release"} \X Locks
  BY <1>2, Pairs
<1>3. CASE op \in Others \X Alone
  <2>1. op = <<op[1], op[2]>> /\ op[1] \in Others /\ op[2] \in Alone
    BY <1>3, Pairs
  <2> QED BY <2>1, <1>1 DEF Alone
<1> QED BY <1>2, <1>3 DEF Ops

\* The rest of a path after its first step.
LEMMA Rests ==
  ASSUME NEW op \in Ops, NEW r \in Seq(Ops), NEW w, w = <<op>> \o r
  PROVE  /\ w \in Seq(Ops) /\ Len(w) = Len(r) + 1 /\ w # <<>> /\ w[1] = op /\ Tail(w) = r
         /\ \A i \in 1 .. Len(r) : w[i + 1] = r[i]
         /\ SubSeq(w, 2, Len(w)) = r
         /\ \A i \in 1 .. Len(r) : SubSeq(w, i + 2, Len(w)) = SubSeq(r, i + 1, Len(r))
<1>1. w \in Seq(Ops) /\ Len(w) = Len(r) + 1 /\ w # <<>> /\ w[1] = op
  OBVIOUS
<1>2. \A i \in 1 .. Len(r) : w[i + 1] = r[i]
  BY <1>1
<1>3. SubSeq(w, 2, Len(w)) = r /\ Tail(w) = r
  BY <1>1, <1>2
<1>4. ASSUME NEW i \in 1 .. Len(r)
      PROVE  SubSeq(w, i + 2, Len(w)) = SubSeq(r, i + 1, Len(r))
  <2>1. Len(SubSeq(w, i + 2, Len(w))) = Len(SubSeq(r, i + 1, Len(r)))
    BY <1>1
  <2>2. \A j \in 1 .. Len(SubSeq(r, i + 1, Len(r))) :
          SubSeq(w, i + 2, Len(w))[j] = SubSeq(r, i + 1, Len(r))[j]
    BY <1>1, <1>2
  <2> QED BY <2>1, <2>2, <1>1
<1> QED BY <1>1, <1>2, <1>3, <1>4

\* A step before a path changes what the thread has by its own lock.
LEMMA LockedCons ==
  ASSUME NEW op \in Ops, NEW r \in Seq(Ops), NEW w, w = <<op>> \o r
  PROVE  /\ op[1] = "release" => Locked(w) = Locked(r) \cup {op[2]}
         /\ op[1] \in {"acquire", "xchg"} => Locked(w) = Locked(r) \ {op[2]}
         /\ op[1] \notin {"acquire", "xchg", "release"} => Locked(w) = Locked(r)
         /\ Handling(w) <=> op[1] = "iret" \/ Handling(r)
<1>1. /\ w \in Seq(Ops) /\ Len(w) = Len(r) + 1 /\ w[1] = op /\ Len(r) \in Nat
      /\ \A i \in 1 .. Len(r) : w[i + 1] = r[i]
  BY Rests
<1>2. ASSUME NEW l \in Locks
      PROVE  Has(w, l) <=> IF op[2] = l THEN op[1] = "release" ELSE Has(r, l)
  <2>1. CASE op[2] = l
    <3>1. op[1] = "release" => Has(w, l)
      <4>1. HAVE op[1] = "release"
      <4>3. op = <<"release", l>>
        BY <4>1, <2>1, Steps
      <4>2. w[1] = Release(l)
        BY <1>1, <4>3 DEF Release
      <4>4. 1 \in 1 .. Len(w)
        BY <1>1
      <4> QED BY <4>2, <4>4 DEF Has
    <3>2. Has(w, l) => op[1] = "release"
      <4>1. HAVE Has(w, l)
      <4>2. PICK k \in 1 .. Len(w) : w[k] = Release(l) /\ \A j \in 1 .. k - 1 : w[j][2] # l
        BY <4>1 DEF Has
      <4>3. k = 1
        BY <4>2, <2>1, <1>1
      <4> QED BY <4>2, <4>3, <1>1 DEF Release
    <3> QED BY <3>1, <3>2, <2>1
  <2>2. CASE op[2] # l
    <3>1. ASSUME Has(r, l) PROVE Has(w, l)
      <4>1. PICK k \in 1 .. Len(r) : r[k] = Release(l) /\ \A j \in 1 .. k - 1 : r[j][2] # l
        BY <3>1 DEF Has
      <4>2. ASSUME NEW j \in 1 .. k PROVE w[j][2] # l
        <5>1. CASE j = 1
          BY <5>1, <2>2, <1>1
        <5>2. CASE j # 1
          <6>1. j - 1 \in 1 .. k - 1 /\ w[(j - 1) + 1] = r[j - 1] /\ (j - 1) + 1 = j
            BY <5>2, <1>1, <4>1
          <6> QED BY <6>1, <4>1
        <5> QED BY <5>1, <5>2
      <4>3. k + 1 \in 1 .. Len(w) /\ w[k + 1] = Release(l) /\ (k + 1) - 1 = k
        BY <4>1, <1>1
      <4> QED BY <4>2, <4>3 DEF Has
    <3>2. ASSUME Has(w, l) PROVE Has(r, l)
      <4>1. PICK k \in 1 .. Len(w) : w[k] = Release(l) /\ \A j \in 1 .. k - 1 : w[j][2] # l
        BY <3>2 DEF Has
      <4>2. k # 1
        BY <4>1, <2>2, <1>1 DEF Release
      <4>3. k - 1 \in 1 .. Len(r) /\ r[k - 1] = w[(k - 1) + 1] /\ (k - 1) + 1 = k
        BY <4>1, <4>2, <1>1
      <4>4. ASSUME NEW j \in 1 .. (k - 1) - 1 PROVE r[j][2] # l
        <5>1. j \in 1 .. Len(r) /\ w[j + 1] = r[j] /\ j + 1 \in 1 .. k - 1
          BY <4>3, <1>1
        <5> QED BY <5>1, <4>1
      <4> QED BY <4>1, <4>3, <4>4 DEF Has
    <3> QED BY <3>1, <3>2, <2>2
  <2> QED BY <2>1, <2>2
<1>3. op[2] \in Locks <=> op[1] \in {"acquire", "xchg", "release"}
  BY Steps DEF Others, Switches
<1>4. \A l \in Locks : l \in Locked(w) <=> IF op[2] = l THEN op[1] = "release" ELSE l \in Locked(r)
  BY <1>2 DEF Locked
<1>5. Locked(w) \subseteq Locks /\ Locked(r) \subseteq Locks
  BY DEF Locked
<1>6. Handling(w) <=> op[1] = "iret" \/ Handling(r)
  <2>1. ASSUME Handling(w) PROVE op[1] = "iret" \/ Handling(r)
    <3>1. PICK i \in 1 .. Len(w) : w[i][1] = "iret"
      BY <2>1 DEF Handling
    <3>2. CASE i = 1
      BY <3>1, <3>2, <1>1
    <3>3. CASE i # 1
      <4>1. i - 1 \in 1 .. Len(r) /\ r[i - 1] = w[(i - 1) + 1] /\ (i - 1) + 1 = i
        BY <3>3, <1>1
      <4> QED BY <3>1, <4>1 DEF Handling
    <3> QED BY <3>2, <3>3
  <2>2. op[1] = "iret" => Handling(w)
    BY <1>1 DEF Handling
  <2>3. ASSUME Handling(r) PROVE Handling(w)
    <3>1. PICK i \in 1 .. Len(r) : r[i][1] = "iret"
      BY <2>3 DEF Handling
    <3>2. i + 1 \in 1 .. Len(w) /\ w[i + 1] = r[i]
      BY <1>1
    <3> QED BY <3>1, <3>2 DEF Handling
  <2> QED BY <2>1, <2>2, <2>3
<1> QED BY <1>3, <1>4, <1>5, <1>6

\* A path is a step that fits before a path.
LEMMA PathCons ==
  ASSUME NEW op \in Ops, NEW r \in Seq(Ops), NEW w, w = <<op>> \o r
  PROVE  Path(w) <=> Fits(op, r) /\ Path(r)
<1>1. /\ w \in Seq(Ops) /\ Len(w) = Len(r) + 1 /\ w[1] = op /\ Len(r) \in Nat
      /\ \A i \in 1 .. Len(r) : w[i + 1] = r[i]
      /\ SubSeq(w, 2, Len(w)) = r
      /\ \A i \in 1 .. Len(r) : SubSeq(w, i + 2, Len(w)) = SubSeq(r, i + 1, Len(r))
  BY Rests
<1>2. ASSUME Path(w) PROVE Fits(op, r) /\ Path(r)
  <2>1. Fits(op, r)
    <3>1. 1 \in 1 .. Len(w) /\ SubSeq(w, 1 + 1, Len(w)) = r /\ w[1] = op
      BY <1>1
    <3>2. Fits(w[1], SubSeq(w, 1 + 1, Len(w)))
      BY <3>1, <1>2 DEF Path
    <3> QED BY <3>1, <3>2
  <2>2. ASSUME NEW i \in 1 .. Len(r) PROVE Fits(r[i], SubSeq(r, i + 1, Len(r)))
    <3>1. Fits(w[i + 1], SubSeq(w, (i + 1) + 1, Len(w))) /\ (i + 1) + 1 = i + 2
      BY <1>1, <1>2 DEF Path
    <3> QED BY <3>1, <1>1
  <2> QED BY <2>1, <2>2 DEF Path
<1>3. ASSUME Fits(op, r), Path(r) PROVE Path(w)
  <2>1. ASSUME NEW i \in 1 .. Len(w) PROVE Fits(w[i], SubSeq(w, i + 1, Len(w)))
    <3>1. CASE i = 1
      <4>1. w[i] = op /\ SubSeq(w, i + 1, Len(w)) = r
        BY <3>1, <1>1
      <4> QED BY <4>1, <1>3
    <3>2. CASE i # 1
      <4> DEFINE j == i - 1
      <4>1. j \in 1 .. Len(r) /\ j + 1 = i /\ j + 2 = i + 1
        BY <3>2, <1>1
      <4>2. Fits(r[j], SubSeq(r, j + 1, Len(r)))
        BY <4>1, <1>3 DEF Path
      <4>3. r[j] = w[i] /\ SubSeq(r, j + 1, Len(r)) = SubSeq(w, i + 1, Len(w))
        BY <4>1, <1>1
      <4> QED BY <4>2, <4>3
    <3> QED BY <3>1, <3>2
  <2> QED BY <2>1, <1>1 DEF Path
<1> QED BY <1>2, <1>3

\* A path on which no lock is held and nothing was begun.
Closed(s) == Path(s) /\ Locked(s) = {} /\ ~Begins(s, "restore") /\ ~Begins(s, "xchg")

\* What a handler and the path that it interrupts have in common with the handler.
LEMMA Concat ==
  ASSUME NEW h \in Seq(Ops), NEW s \in Seq(Ops), Locked(s) = {}, ~Handling(s),
         ~Begins(s, "restore"), ~Begins(s, "xchg"), NEW w, w = h \o s
  PROVE  /\ w \in Seq(Ops) /\ Locked(w) = Locked(h) /\ (Handling(w) <=> Handling(h))
         /\ h # <<>> => w # <<>> /\ w[1] = h[1]
         /\ (Begins(w, "restore") <=> Begins(h, "restore")) /\ (Begins(w, "xchg") <=> Begins(h, "xchg"))
<1>1. /\ w \in Seq(Ops) /\ Len(w) = Len(h) + Len(s) /\ Len(h) \in Nat /\ Len(s) \in Nat
      /\ \A i \in 1 .. Len(h) : w[i] = h[i]
      /\ \A i \in 1 .. Len(s) : w[Len(h) + i] = s[i]
  OBVIOUS
<1>2. ASSUME NEW l \in Locks, Has(h, l) PROVE Has(w, l)
  <2>1. PICK k \in 1 .. Len(h) : h[k] = Release(l) /\ \A j \in 1 .. k - 1 : h[j][2] # l
    BY <1>2 DEF Has
  <2>2. k \in 1 .. Len(w) /\ w[k] = h[k] /\ \A j \in 1 .. k - 1 : w[j] = h[j]
    BY <1>1
  <2> QED BY <2>1, <2>2 DEF Has
<1>3. ASSUME NEW l \in Locks, Has(w, l) PROVE Has(h, l)
  <2>1. PICK k \in 1 .. Len(w) : w[k] = Release(l) /\ \A j \in 1 .. k - 1 : w[j][2] # l
    BY <1>3 DEF Has
  <2>2. CASE k \in 1 .. Len(h)
    <3>1. w[k] = h[k] /\ \A j \in 1 .. k - 1 : w[j] = h[j]
      BY <2>2, <1>1
    <3> QED BY <2>1, <2>2, <3>1 DEF Has
  <2>3. CASE k \notin 1 .. Len(h)
    <3> DEFINE m == k - Len(h)
    <3>1. m \in 1 .. Len(s) /\ s[m] = w[k]
      BY <2>3, <1>1
    <3>2. ASSUME NEW j \in 1 .. m - 1 PROVE s[j][2] # l
      <4>1. w[Len(h) + j] = s[j] /\ Len(h) + j \in 1 .. k - 1
        BY <1>1, <3>1
      <4> QED BY <4>1, <2>1
    <3>3. Has(s, l)
      BY <3>1, <3>2, <2>1 DEF Has
    <3> QED BY <3>3 DEF Locked
  <2> QED BY <2>2, <2>3
<1>4. Locked(w) = Locked(h)
  BY <1>2, <1>3 DEF Locked
<1>5. Handling(w) => Handling(h)
  <2>1. HAVE Handling(w)
  <2>2. PICK i \in 1 .. Len(w) : w[i][1] = "iret"
    BY <2>1 DEF Handling
  <2>3. CASE i \in 1 .. Len(h)
    BY <2>2, <2>3, <1>1 DEF Handling
  <2>4. CASE i \notin 1 .. Len(h)
    <3>1. i - Len(h) \in 1 .. Len(s) /\ s[i - Len(h)] = w[i]
      BY <2>4, <1>1
    <3> QED BY <3>1, <2>2 DEF Handling
  <2> QED BY <2>3, <2>4
<1>6. Handling(h) => Handling(w)
  <2>1. HAVE Handling(h)
  <2>2. PICK i \in 1 .. Len(h) : h[i][1] = "iret"
    BY <2>1 DEF Handling
  <2>3. i \in 1 .. Len(w) /\ w[i] = h[i]
    BY <1>1
  <2> QED BY <2>2, <2>3 DEF Handling
<1>7. h # <<>> => w # <<>> /\ w[1] = h[1]
  BY <1>1
<1>8. h = <<>> => w = s
  BY <1>1
<1>9. (Begins(w, "restore") <=> Begins(h, "restore")) /\ (Begins(w, "xchg") <=> Begins(h, "xchg"))
  BY <1>7, <1>8 DEF Begins
<1> QED BY <1>1, <1>4, <1>5, <1>6, <1>7, <1>9

LEMMA PathConcat ==
  ASSUME NEW h, Path(h), NEW s, Closed(s), ~Handling(s), NEW w, w = h \o s
  PROVE  Path(w)
<1>1. h \in Seq(Ops) /\ s \in Seq(Ops)
  BY DEF Path, Closed
<1>2. /\ w \in Seq(Ops) /\ Len(w) = Len(h) + Len(s) /\ Len(h) \in Nat /\ Len(s) \in Nat
      /\ \A i \in 1 .. Len(h) : w[i] = h[i]
      /\ \A i \in 1 .. Len(s) : w[Len(h) + i] = s[i]
  BY <1>1
<1>3. ASSUME NEW i \in 1 .. Len(h) PROVE Fits(w[i], SubSeq(w, i + 1, Len(w)))
  <2> DEFINE rest == SubSeq(h, i + 1, Len(h))
             all == SubSeq(w, i + 1, Len(w))
  <2>1. rest \in Seq(Ops)
    BY <1>1
  <2>2. all = rest \o s
    <3>1. all \in Seq(Ops) /\ rest \o s \in Seq(Ops) /\ Len(all) = Len(rest \o s)
      BY <1>1, <1>2
    <3>2. \A j \in 1 .. Len(all) : all[j] = (rest \o s)[j]
      BY <1>1, <1>2
    <3> HIDE DEF rest, all
    <3> QED BY <3>1, <3>2, SeqEqual
  <2>3. Fits(h[i], rest)
    BY DEF Path
  <2> HIDE DEF rest, all
  <2>4. /\ Locked(all) = Locked(rest) /\ (Handling(all) <=> Handling(rest))
        /\ rest # <<>> => all # <<>> /\ all[1] = rest[1]
        /\ (Begins(all, "restore") <=> Begins(rest, "restore"))
        /\ (Begins(all, "xchg") <=> Begins(rest, "xchg"))
    <3>1. Locked(s) = {} /\ ~Begins(s, "restore") /\ ~Begins(s, "xchg")
      BY DEF Closed
    <3> QED BY <3>1, <2>1, <2>2, <1>1, Concat
  <2>5. Fits(h[i], all)
    BY <2>3, <2>4 DEF Fits
  <2>6. w[i] = h[i]
    BY <1>2
  <2> QED BY <2>5, <2>6 DEF all
<1>4. ASSUME NEW i \in 1 .. Len(s) PROVE Fits(w[Len(h) + i], SubSeq(w, Len(h) + i + 1, Len(w)))
  <2> DEFINE rest == SubSeq(s, i + 1, Len(s))
             all == SubSeq(w, Len(h) + i + 1, Len(w))
  <2>1. all = rest
    <3>1. all \in Seq(Ops) /\ rest \in Seq(Ops) /\ Len(all) = Len(rest)
      BY <1>1, <1>2
    <3>2. \A j \in 1 .. Len(all) : all[j] = rest[j]
      BY <1>1, <1>2
    <3> HIDE DEF rest, all
    <3> QED BY <3>1, <3>2, SeqEqual
  <2>2. Fits(s[i], rest)
    BY DEF Path, Closed
  <2>3. w[Len(h) + i] = s[i]
    BY <1>2
  <2> HIDE DEF rest
  <2> QED BY <2>1, <2>2, <2>3
<1>5. ASSUME NEW i \in 1 .. Len(w) PROVE Fits(w[i], SubSeq(w, i + 1, Len(w)))
  <2>1. CASE i \in 1 .. Len(h)
    BY <2>1, <1>3
  <2>2. CASE i \notin 1 .. Len(h)
    <3> DEFINE m == i - Len(h)
    <3>1. m \in 1 .. Len(s) /\ Len(h) + m = i
      BY <2>2, <1>2
    <3> HIDE DEF m
    <3>2. Fits(w[Len(h) + m], SubSeq(w, Len(h) + m + 1, Len(w)))
      BY <3>1, <1>4
    <3> QED BY <3>1, <3>2
  <2> QED BY <2>1, <2>2
<1> QED BY <1>2, <1>5 DEF Path

LEMMA WithoutConcat ==
  ASSUME NEW h \in Seq(Ops), NEW s \in Seq(Ops), NEW kinds, Without(h, kinds), Without(s, kinds),
         NEW w, w = h \o s
  PROVE  Without(w, kinds)
<1>1. /\ Len(w) = Len(h) + Len(s) /\ Len(h) \in Nat /\ Len(s) \in Nat
      /\ \A i \in 1 .. Len(h) : w[i] = h[i]
      /\ \A i \in 1 .. Len(s) : w[Len(h) + i] = s[i]
  OBVIOUS
<1>2. ASSUME NEW i \in 1 .. Len(w) PROVE w[i][1] \notin kinds
  <2>1. CASE i \in 1 .. Len(h)
    BY <2>1, <1>1 DEF Without
  <2>2. CASE i \notin 1 .. Len(h)
    <3>1. i - Len(h) \in 1 .. Len(s) /\ s[i - Len(h)] = w[i]
      BY <2>2, <1>1
    <3> QED BY <3>1 DEF Without
  <2> QED BY <2>1, <2>2
<1> QED BY <1>2 DEF Without

\* The steps, one before another.
Is(w, first, locks, r) ==
  /\ Path(w) /\ w # <<>> /\ w[1] = first /\ Locked(w) = locks /\ (Handling(w) <=> Handling(r))
LEMMA Empty == Closed(<<>>) /\ ~Handling(<<>>)
BY DEF Closed, Path, Locked, Has, Handling, Begins

LEMMA Cons ==
  ASSUME NEW op \in Ops, NEW r, Path(r), Fits(op, r), NEW w, w = <<op>> \o r
  PROVE  /\ Path(w) /\ w # <<>> /\ w[1] = op
         /\ op[1] = "release" => Locked(w) = Locked(r) \cup {op[2]}
         /\ op[1] \in {"acquire", "xchg"} => Locked(w) = Locked(r) \ {op[2]}
         /\ op[1] \in Others => Locked(w) = Locked(r)
         /\ Handling(w) <=> op[1] = "iret" \/ Handling(r)
<1>1. r \in Seq(Ops)
  BY DEF Path
<1>2. Path(w)
  BY <1>1, PathCons
<1>3. w # <<>> /\ w[1] = op
  BY <1>1, Rests
<1>5. op[1] \in Others => op[1] \notin {"acquire", "xchg", "release"}
  BY DEF Others, Switches
<1>4. /\ op[1] = "release" => Locked(w) = Locked(r) \cup {op[2]}
      /\ op[1] \in {"acquire", "xchg"} => Locked(w) = Locked(r) \ {op[2]}
      /\ op[1] \in Others => Locked(w) = Locked(r)
      /\ Handling(w) <=> op[1] = "iret" \/ Handling(r)
  BY <1>1, <1>5, LockedCons
<1> QED BY <1>2, <1>3, <1>4

LEMMA InOps ==
  /\ \A l \in Locks : Acquire(l) \in Ops /\ Release(l) \in Ops /\ <<"xchg", l>> \in Ops
  /\ \A kind \in Others : Do(kind) \in Ops
BY DEF Ops, Alone, Acquire, Release, Do

LEMMA Acquired ==
  ASSUME NEW l \in Locks, NEW r, Path(r), l \in Locked(r),
         ~Begins(r, "restore"), ~Begins(r, "xchg"), NEW w, w = <<Acquire(l)>> \o r
  PROVE  Is(w, Acquire(l), Locked(r) \ {l}, r)
<1> DEFINE op == Acquire(l)
<1>1. op \in Ops /\ op[1] = "acquire" /\ op[2] = l
  BY InOps DEF Acquire
<1> HIDE DEF op
<1>2. Fits(op, r)
  BY <1>1 DEF Fits, Switches
<1>3. w = <<op>> \o r
  BY DEF op
<1>4. Is(w, op, Locked(r) \ {l}, r)
  BY <1>1, <1>2, <1>3, Cons DEF Is
<1> QED BY <1>4 DEF op

LEMMA Released ==
  ASSUME NEW l \in Locks, NEW r, Path(r), l \notin Locked(r),
         ~Begins(r, "restore"), ~Begins(r, "xchg"), NEW w, w = <<Release(l)>> \o r
  PROVE  Is(w, Release(l), Locked(r) \cup {l}, r)
<1> DEFINE op == Release(l)
<1>1. op \in Ops /\ op[1] = "release" /\ op[2] = l
  BY InOps DEF Release
<1> HIDE DEF op
<1>2. Fits(op, r)
  BY <1>1 DEF Fits, Switches
<1>3. w = <<op>> \o r
  BY DEF op
<1>4. Is(w, op, Locked(r) \cup {l}, r)
  BY <1>1, <1>2, <1>3, Cons DEF Is
<1> QED BY <1>4 DEF op

\* The other steps.
LEMMA Done ==
  ASSUME NEW kind \in Others, NEW r, Path(r), Fits(Do(kind), r), NEW w, w = <<Do(kind)>> \o r,
         kind # "iret"
  PROVE  Is(w, Do(kind), Locked(r), r)
<1> DEFINE op == Do(kind)
<1>1. op \in Ops /\ op[1] \in Others /\ op[1] # "iret"
  BY InOps DEF Do
<1> HIDE DEF op
<1>2. Fits(op, r) /\ w = <<op>> \o r
  BY DEF op
<1>3. Is(w, op, Locked(r), r)
  BY <1>1, <1>2, Cons DEF Is
<1> QED BY <1>3 DEF op

\* How a path begins decides whether it can come after another step.
LEMMA Starts ==
  ASSUME NEW w, NEW first, NEW locks, NEW r, Is(w, first, locks, r), first[1] \notin {"restore", "xchg"}
  PROVE  /\ ~Begins(w, "restore") /\ ~Begins(w, "xchg")
         /\ locks = {} => Closed(w)
BY DEF Is, Begins, Closed
LEMMA Firsts ==
  \A x : Acquire(x)[1] = "acquire" /\ Release(x)[1] = "release" /\ Do(x)[1] = x
BY DEF Acquire, Release, Do

\* Out to the scheduler and back.
LEMMA Switched ==
  ASSUME NEW kind \in Switches, NEW r, Closed(r),
         NEW r1, r1 = <<Release("ptable")>> \o r, NEW r2, r2 = <<Do("restore")>> \o r1,
         NEW w, w = <<Do(kind)>> \o r2
  PROVE  Is(w, Do(kind), {"ptable"}, r)
<1>3. Is(r1, Release("ptable"), {"ptable"}, r)
  <2>1. "ptable" \in Locks
    BY DEF Locks
  <2>2. Path(r) /\ Locked(r) = {} /\ ~Begins(r, "restore") /\ ~Begins(r, "xchg")
    BY DEF Closed
  <2>3. Is(r1, Release("ptable"), Locked(r) \cup {"ptable"}, r)
    BY <2>1, <2>2, Released
  <2> QED BY <2>2, <2>3
<1>4. Is(r2, Do("restore"), {"ptable"}, r)
  <2>1. ~Begins(r1, "restore") /\ ~Begins(r1, "xchg") /\ Path(r1) /\ Locked(r1) = {"ptable"}
    BY <1>3, Starts, Firsts DEF Is
  <2>2. "restore" \in Others /\ Do("restore")[1] = "restore"
    BY Firsts DEF Others
  <2>3. Fits(Do("restore"), r1)
    BY <2>1, <2>2 DEF Fits, Switches
  <2>4. Is(r2, Do("restore"), Locked(r1), r1)
    BY <2>1, <2>2, <2>3, Done
  <2> QED BY <2>1, <2>4, <1>3 DEF Is
<1>6. Path(r2) /\ r2 # <<>> /\ r2[1] = Do("restore") /\ Locked(r2) = {"ptable"} /\ (Handling(r2) <=> Handling(r))
  BY <1>4 DEF Is
<1>7. kind \in Others /\ Do(kind)[1] = kind /\ kind # "iret"
  BY Firsts DEF Others, Switches
<1>8. Fits(Do(kind), r2)
  BY <1>6, <1>7 DEF Fits, Switches
<1>9. Is(w, Do(kind), Locked(r2), r2)
  BY <1>6, <1>7, <1>8, Done
<1> QED BY <1>6, <1>9 DEF Is

-----------------------------------------------------------------------------
\* The paths of the model are paths, on which every lock is given back.

LEMMA Names ==
  /\ "ptable" \in Locks /\ "ticks" \in Locks /\ "device" \in Locks
  /\ \A l \in Locks : l \in {"ptable", "ticks", "device"}
BY DEF Locks

\* Taking a lock and giving it back before a path that does not hold it.
LEMMA Bracket ==
  ASSUME NEW l \in Locks, NEW r, Path(r), l \notin Locked(r), ~Begins(r, "restore"), ~Begins(r, "xchg"),
         NEW r1, r1 = <<Release(l)>> \o r, NEW w, w = <<Acquire(l)>> \o r1
  PROVE  Is(w, Acquire(l), Locked(r), r)
<1>2. Is(r1, Release(l), Locked(r) \cup {l}, r)
  BY Released
<1>3. Path(r1) /\ Locked(r1) = Locked(r) \cup {l} /\ (Handling(r1) <=> Handling(r))
  BY <1>2 DEF Is
<1>4. ~Begins(r1, "restore") /\ ~Begins(r1, "xchg")
  BY <1>2, Starts, Firsts
<1>5. Is(w, Acquire(l), Locked(r1) \ {l}, r1)
  BY <1>3, <1>4, Acquired
<1>6. Locked(r1) \ {l} = Locked(r)
  BY <1>3
<1> QED BY <1>3, <1>5, <1>6 DEF Is

\* A driver or the clock wakes processes.
LEMMA Notifying ==
  ASSUME NEW l \in {"ticks", "device"}, NEW r, Closed(r), NEW r1, r1 = <<Release(l)>> \o r,
         NEW r2, r2 = <<Release("ptable")>> \o r1, NEW r3, r3 = <<Acquire("ptable")>> \o r2,
         NEW w, w = <<Acquire(l)>> \o r3
  PROVE  Is(w, Acquire(l), {}, r)
<1>1. l \in Locks /\ "ptable" \in Locks /\ l # "ptable"
  BY Names
<1>2. Path(r) /\ Locked(r) = {} /\ ~Begins(r, "restore") /\ ~Begins(r, "xchg")
  BY DEF Closed
<1>6. Is(r1, Release(l), {l}, r)
  <2>1. Is(r1, Release(l), Locked(r) \cup {l}, r)
    BY <1>1, <1>2, Released
  <2> QED BY <2>1, <1>2
<1>7. Is(r3, Acquire("ptable"), {l}, r)
  <2>1. Path(r1) /\ Locked(r1) = {l} /\ (Handling(r1) <=> Handling(r))
    BY <1>6 DEF Is
  <2>2. ~Begins(r1, "restore") /\ ~Begins(r1, "xchg")
    BY <1>6, Starts, Firsts
  <2>3. Is(r3, Acquire("ptable"), Locked(r1), r1)
    BY <1>1, <2>1, <2>2, Bracket
  <2> QED BY <2>1, <2>3 DEF Is
<1>8. Path(r3) /\ Locked(r3) = {l} /\ (Handling(r3) <=> Handling(r))
  BY <1>7 DEF Is
<1>9. ~Begins(r3, "restore") /\ ~Begins(r3, "xchg")
  BY <1>7, Starts, Firsts
<1>10. Is(w, Acquire(l), Locked(r3) \ {l}, r3)
  BY <1>1, <1>8, <1>9, Acquired
<1>11. Locked(r3) \ {l} = {}
  BY <1>8
<1> QED BY <1>8, <1>10, <1>11 DEF Is

\* A thread gives up the CPU.
LEMMA Yielding ==
  ASSUME NEW kind \in Switches, NEW r, Closed(r),
         NEW r1, r1 = <<Release("ptable")>> \o r, NEW r2, r2 = <<Do("restore")>> \o r1,
         NEW r3, r3 = <<Do(kind)>> \o r2, NEW w, w = <<Acquire("ptable")>> \o r3
  PROVE  Is(w, Acquire("ptable"), {}, r)
<1>2. Is(r3, Do(kind), {"ptable"}, r)
  BY Switched
<1>3. Path(r3) /\ Locked(r3) = {"ptable"} /\ (Handling(r3) <=> Handling(r))
  BY <1>2 DEF Is
<1>4. ~Begins(r3, "restore") /\ ~Begins(r3, "xchg")
  BY <1>2, Starts, Firsts DEF Switches
<1>5. "ptable" \in Locks
  BY Names
<1>6. Is(w, Acquire("ptable"), Locked(r3) \ {"ptable"}, r3)
  BY <1>3, <1>4, <1>5, Acquired
<1> QED BY <1>3, <1>6 DEF Is

\* A thread that sleeps with a lock, as in sys_sleep and iderw.
LEMMA Sleeping ==
  ASSUME NEW l \in {"ticks", "device"}, NEW r7, r7 = <<Release(l)>> \o <<>>,
         NEW r6, r6 = <<Acquire(l)>> \o r7, NEW r5, r5 = <<Release("ptable")>> \o r6,
         NEW r4, r4 = <<Do("restore")>> \o r5, NEW r3, r3 = <<Do("swtch")>> \o r4,
         NEW r2, r2 = <<Release(l)>> \o r3, NEW r1, r1 = <<Acquire("ptable")>> \o r2,
         NEW w, w = <<Acquire(l)>> \o r1
  PROVE  Is(w, Acquire(l), {}, <<>>)
<1>1. l \in Locks /\ "ptable" \in Locks /\ l # "ptable"
  BY Names
<1>7. Is(r6, Acquire(l), {}, <<>>)
  <2>1. Path(<<>>) /\ Locked(<<>>) = {} /\ ~Begins(<<>>, "restore") /\ ~Begins(<<>>, "xchg")
    BY Empty DEF Closed
  <2>2. Is(r6, Acquire(l), Locked(<<>>), <<>>)
    BY <2>1, <1>1, Bracket
  <2> QED BY <2>1, <2>2
<1>8. Closed(r6) /\ ~Handling(r6)
  BY <1>7, Starts, Firsts, Empty DEF Is
<1>9. Is(r3, Do("swtch"), {"ptable"}, r6)
  BY <1>8, Switched DEF Switches
<1>10. Is(r2, Release(l), {"ptable", l}, r3)
  <2>1. Path(r3) /\ Locked(r3) = {"ptable"}
    BY <1>9 DEF Is
  <2>2. ~Begins(r3, "restore") /\ ~Begins(r3, "xchg")
    BY <1>9, Starts, Firsts
  <2>3. l \notin Locked(r3)
    BY <2>1, <1>1
  <2>4. Is(r2, Release(l), Locked(r3) \cup {l}, r3)
    BY <1>1, <2>1, <2>2, <2>3, Released
  <2>5. Locked(r3) \cup {l} = {"ptable", l}
    BY <2>1
  <2> QED BY <2>4, <2>5
<1>11. Is(r1, Acquire("ptable"), {l}, r2)
  <2>1. Path(r2) /\ Locked(r2) = {"ptable", l}
    BY <1>10 DEF Is
  <2>2. ~Begins(r2, "restore") /\ ~Begins(r2, "xchg")
    BY <1>10, Starts, Firsts
  <2>3. Is(r1, Acquire("ptable"), Locked(r2) \ {"ptable"}, r2)
    BY <1>1, <2>1, <2>2, Acquired
  <2>4. Locked(r2) \ {"ptable"} = {l}
    BY <2>1, <1>1
  <2> QED BY <2>3, <2>4
<1>12. Is(w, Acquire(l), {}, r1)
  <2>1. Path(r1) /\ Locked(r1) = {l}
    BY <1>11 DEF Is
  <2>2. ~Begins(r1, "restore") /\ ~Begins(r1, "xchg")
    BY <1>11, Starts, Firsts
  <2>3. Is(w, Acquire(l), Locked(r1) \ {l}, r1)
    BY <1>1, <2>1, <2>2, Acquired
  <2>4. Locked(r1) \ {l} = {}
    BY <2>1
  <2> QED BY <2>3, <2>4
<1> QED BY <1>8, <1>9, <1>10, <1>11, <1>12, Empty DEF Is

\* Tuples, and what is left of them.
LEMMA Put ==
  ASSUME NEW S, NEW g \in S, NEW r \in Seq(S), NEW y, y = <<g>> \o r
  PROVE  y \in Seq(S) /\ Len(y) = Len(r) + 1 /\ y[1] = g /\ \A i \in 1 .. Len(r) : y[i + 1] = r[i]
OBVIOUS
LEMMA Two ==
  ASSUME NEW S, NEW g \in S, NEW h \in S
  PROVE  <<g, h>> = <<g>> \o <<h>>
<1>1. PICK r : r = <<h>>
  OBVIOUS
<1>2. r \in Seq(S) /\ Len(r) = 1 /\ r[1] = h
  BY <1>1
<1> HIDE <1>1
<1>3. PICK y : y = <<g>> \o r
  OBVIOUS
<1>4. r \in Seq(S)
  BY <1>2
<1>5. y \in Seq(S) /\ Len(y) = Len(r) + 1 /\ y[1] = g /\ \A i \in 1 .. Len(r) : y[i + 1] = r[i]
  BY <1>3, <1>4, Put
<1>6. y \in Seq(S) /\ Len(y) = 2 /\ y[1] = g
  BY <1>2, <1>5
<1>7. y[2] = h
  <2>1. \A i \in 1 .. Len(r) : y[i + 1] = r[i]
    BY <1>5
  <2> QED BY <2>1, <1>2
<1> HIDE <1>3
<1>8. y = <<g, h>>
  BY <1>6, <1>7
<1> QED BY <1>1, <1>3, <1>8, Zenon
LEMMA Eight ==
  ASSUME NEW a, NEW b, NEW c, NEW d, NEW e, NEW f, NEW g, NEW h, NEW w, w = <<a, b, c, d, e, f, g, h>>
  PROVE  \A i \in 1 .. Len(w) : w[i] \in {a, b, c, d, e, f, g, h}
OBVIOUS

\* sys_sleep and iderw.
LEMMA Waiting ==
  ASSUME NEW l \in {"ticks", "device"}, NEW w, w = <<Acquire(l)>> \o sleep(l) \o <<Release(l)>>
  PROVE  Is(w, Acquire(l), {}, <<>>) /\ Without(w, {"pick"})
<1> DEFINE a == Acquire(l)  b == Acquire("ptable")  c == Release(l)  d == Do("swtch")
           e == Do("restore")  f == Release("ptable")
<1>1. a \in Ops /\ b \in Ops /\ c \in Ops /\ d \in Ops /\ e \in Ops /\ f \in Ops
  BY Names, InOps DEF Others, Switches
<1>2. w = <<a>> \o (<<b, c>> \o <<d, e>> \o <<f, a>>) \o <<c>>
  BY DEF sleep, sched
<1>3. a[1] # "pick" /\ b[1] # "pick" /\ c[1] # "pick" /\ d[1] # "pick" /\ e[1] # "pick" /\ f[1] # "pick"
  BY Firsts
<1> HIDE DEF a, b, c, d, e, f
<1>4. w = <<a, b, c, d, e, f, a, c>>
  <2>1. <<b, c, d, e>> = <<b, c>> \o <<d, e>>
    OBVIOUS
  <2>2. <<b, c, d, e, f, a>> = <<b, c, d, e>> \o <<f, a>>
    OBVIOUS
  <2>3. <<a, b, c, d, e, f, a>> = <<a>> \o <<b, c, d, e, f, a>>
    OBVIOUS
  <2>4. <<a, b, c, d, e, f, a, c>> = <<a, b, c, d, e, f, a>> \o <<c>>
    OBVIOUS
  <2> QED BY <1>2, <2>1, <2>2, <2>3, <2>4, Zenon
<1>5. Is(w, Acquire(l), {}, <<>>)
  <2>1. <<c>> = <<c>> \o <<>>
    OBVIOUS
  <2>2. <<a, c>> = <<a>> \o <<c>>
    BY <1>1, Two
  <2>3. <<f, a, c>> = <<f>> \o <<a, c>>
    OBVIOUS
  <2>4. <<e, f, a, c>> = <<e>> \o <<f, a, c>>
    OBVIOUS
  <2>5. <<d, e, f, a, c>> = <<d>> \o <<e, f, a, c>>
    OBVIOUS
  <2>6. <<c, d, e, f, a, c>> = <<c>> \o <<d, e, f, a, c>>
    OBVIOUS
  <2>7. <<b, c, d, e, f, a, c>> = <<b>> \o <<c, d, e, f, a, c>>
    OBVIOUS
  <2>8. w = <<a>> \o <<b, c, d, e, f, a, c>>
    <3>1. <<a, b, c, d, e, f, a, c>> = <<a>> \o <<b, c, d, e, f, a, c>>
      OBVIOUS
    <3> QED BY <3>1, <1>4, Zenon
  <2> QED BY <2>1, <2>2, <2>3, <2>4, <2>5, <2>6, <2>7, <2>8, Sleeping, Zenon DEF a, b, c, d, e, f
<1>6. Without(w, {"pick"})
  <2>1. \A i \in 1 .. Len(w) : w[i] \in {a, b, c, d, e, f, a, c}
    BY <1>4, Eight, Zenon
  <2> QED BY <2>1, <1>3 DEF Without
<1> QED BY <1>5, <1>6

\* Handlers: of the disk,
LEMMA Iret ==
  ASSUME NEW r, r = <<Do("iret")>>
  PROVE  Is(r, Do("iret"), {}, r) /\ Closed(r) /\ Without(r, {"pick"} \cup Switches \cup {"restore"})
<1>1. r = <<Do("iret")>> \o <<>>
  OBVIOUS
<1>2. Path(<<>>) /\ Locked(<<>>) = {} /\ ~Begins(<<>>, "restore") /\ ~Begins(<<>>, "xchg") /\ ~Handling(<<>>)
  BY Empty DEF Closed
<1> DEFINE op == Do("iret")
<1>3. op \in Ops /\ op[1] = "iret" /\ op[1] \in Others
  BY InOps, Firsts DEF Others
<1>4. r = <<op>> \o <<>>
  BY <1>1
<1>5. r = <<op>>
  OBVIOUS
<1> HIDE DEF op
<1>6. Fits(op, <<>>)
  BY <1>2, <1>3 DEF Fits, Switches
<1>7. Path(r) /\ r # <<>> /\ r[1] = op /\ Locked(r) = {}
  <2>1. PICK n : n = <<>>
    OBVIOUS
  <2>2. Path(n) /\ Locked(n) = {} /\ Fits(op, n) /\ r = <<op>> \o n
    BY <2>1, <1>2, <1>4, <1>6, Zenon
  <2>3. Path(r) /\ r # <<>> /\ r[1] = op /\ Locked(r) = Locked(n)
    BY <1>3, <2>2, Cons
  <2> QED BY <2>2, <2>3
<1>8. Is(r, op, {}, r)
  BY <1>7 DEF Is
<1>9. Closed(r)
  BY <1>8, <1>3, Starts
<1>10. \A i \in 1 .. Len(r) : r[i] = op
  BY <1>5
<1>11. Without(r, {"pick"} \cup Switches \cup {"restore"})
  BY <1>10, <1>3 DEF Without, Switches
<1> QED BY <1>8, <1>9, <1>11 DEF op

LEMMA Ideintr ==
  Closed(ideintr_path) /\ ideintr_path # <<>> /\ Without(ideintr_path, {"pick"} \cup Switches \cup {"restore"})
<1> DEFINE a == Acquire("device")  b == Acquire("ptable")  c == Release("ptable")  d == Release("device")
           e == Do("iret")
<1>1. a \in Ops /\ b \in Ops /\ c \in Ops /\ d \in Ops /\ e \in Ops
  BY Names, InOps DEF Others
<1>2. ideintr_path = <<a>> \o <<b, c>> \o <<d, e>>
  BY DEF ideintr_path, wakeup
<1>3. a[1] = "acquire" /\ b[1] = "acquire" /\ c[1] = "release" /\ d[1] = "release" /\ e[1] = "iret"
  BY Firsts
<1> HIDE DEF a, b, c, d, e
<1>4. ideintr_path = <<a, b, c, d, e>>
  <2>1. <<a, b, c>> = <<a>> \o <<b, c>>
    OBVIOUS
  <2>2. <<a, b, c, d, e>> = <<a, b, c>> \o <<d, e>>
    OBVIOUS
  <2> QED BY <1>2, <2>1, <2>2, Zenon
<1>5. Is(ideintr_path, Acquire("device"), {}, <<e>>)
  <2>1. <<d, e>> = <<d>> \o <<e>>
    BY <1>1, Two
  <2>2. <<c, d, e>> = <<c>> \o <<d, e>>
    OBVIOUS
  <2>3. <<b, c, d, e>> = <<b>> \o <<c, d, e>>
    OBVIOUS
  <2>4. <<a, b, c, d, e>> = <<a>> \o <<b, c, d, e>>
    OBVIOUS
  <2>5. Closed(<<e>>)
    BY Iret DEF e
  <2>6. "device" \in {"ticks", "device"}
    OBVIOUS
  <2> QED BY <1>4, <2>1, <2>2, <2>3, <2>4, <2>5, <2>6, Notifying, Zenon DEF a, b, c, d
<1>6. Closed(ideintr_path) /\ ideintr_path # <<>>
  BY <1>5, Starts, Firsts DEF Is
<1>7. \A i \in 1 .. Len(ideintr_path) : ideintr_path[i] \in {a, b, c, d, e}
  BY <1>4
<1>8. Without(ideintr_path, {"pick"} \cup Switches \cup {"restore"})
  BY <1>3, <1>7 DEF Without, Switches
<1> QED BY <1>6, <1>8

LEMMA Joined ==
  ASSUME NEW S, NEW a \in Seq(S), NEW b \in Seq(S), NEW r \in Seq(S), NEW ab, ab = a \o b,
         NEW br, br = b \o r
  PROVE  ab \o r = a \o br
BY ConcatAssociative

LEMMA Few ==
  ASSUME NEW a \in Ops, NEW b \in Ops, NEW c \in Ops, NEW d \in Ops
  PROVE  <<a>> \in Seq(Ops) /\ <<a, b>> \in Seq(Ops) /\ <<a, b, c, d>> \in Seq(Ops)
         /\ <<a, b, c, d>> = <<a>> \o <<b, c>> \o <<d>>
<1>1. <<a, b, c>> = <<a>> \o <<b, c>>
  OBVIOUS
<1>2. <<a, b, c, d>> = <<a, b, c>> \o <<d>>
  OBVIOUS
<1>3. <<a, b, c, d>> = <<a>> \o <<b, c>> \o <<d>>
  BY <1>1, <1>2, Zenon
<1> QED BY <1>3

\* A lock is taken and given back before a path that does not hold it.
LEMMA Around ==
  ASSUME NEW l \in Locks, NEW r, Path(r), l \notin Locked(r), ~Begins(r, "restore"), ~Begins(r, "xchg"),
         NEW kinds, "acquire" \notin kinds, "release" \notin kinds, Without(r, kinds),
         NEW w, w = <<Acquire(l), Release(l)>> \o r
  PROVE  Is(w, Acquire(l), Locked(r), r) /\ Without(w, kinds)
<1> DEFINE a == Acquire(l)  d == Release(l)
<1>1. a \in Ops /\ d \in Ops /\ a[1] = "acquire" /\ d[1] = "release"
  BY InOps, Firsts
<1>2. w = <<a, d>> \o r /\ r \in Seq(Ops)
  BY DEF Path
<1> HIDE DEF a, d
<1>3. PICK r1 : r1 = <<d>> \o r
  OBVIOUS
<1>4. w = <<a>> \o r1
  <2>1. <<a, d>> = <<a>> \o <<d>>
    BY <1>1, Two
  <2>2. <<a>> \in Seq(Ops) /\ <<d>> \in Seq(Ops)
    BY <1>1
  <2> QED BY <1>2, <1>3, <2>1, <2>2, ConcatAssociative
<1>5. Is(w, a, Locked(r), r)
  BY <1>3, <1>4, Bracket DEF a, d
<1>6. <<a, d>> \in Seq(Ops) /\ Without(<<a, d>>, kinds)
  BY <1>1 DEF Without
<1>7. Without(w, kinds)
  BY <1>2, <1>6, WithoutConcat
<1> QED BY <1>5, <1>7 DEF a

\* A part of a handler that ends with a return from the interrupt.
Back(w, kinds) == Closed(w) /\ w # <<>> /\ Without(w, kinds)
Plain(kinds) == {"acquire", "release", "iret"} \cap kinds = {}

LEMMA Returns ==
  ASSUME NEW kinds, Plain(kinds)
  PROVE  Back(<<Do("iret")>>, kinds) /\ <<Do("iret")>> \in Seq(Ops)
<1>1. Is(<<Do("iret")>>, Do("iret"), {}, <<Do("iret")>>) /\ Closed(<<Do("iret")>>)
  BY Iret DEF Is
<1>2. Without(<<Do("iret")>>, kinds)
  BY Firsts DEF Without, Plain
<1> QED BY <1>1, <1>2 DEF Back, Is, Closed, Path

\* The tick of a process is counted under ptable.lock,
LEMMA Counting ==
  ASSUME NEW kinds, Plain(kinds), NEW r, Back(r, kinds), NEW w, w = addtick \o r
  PROVE  Back(w, kinds)
<1>1. /\ Path(r) /\ Locked(r) = {} /\ ~Begins(r, "restore") /\ ~Begins(r, "xchg") /\ Without(r, kinds)
      /\ "acquire" \notin kinds /\ "release" \notin kinds /\ "ptable" \in Locks
  BY Names DEF Back, Closed, Plain
<1>2. w = <<Acquire("ptable"), Release("ptable")>> \o r
  BY DEF addtick
<1>3. Is(w, Acquire("ptable"), Locked(r), r) /\ Without(w, kinds)
  BY <1>1, <1>2, Around
<1>4. Is(w, Acquire("ptable"), {}, r)
  BY <1>1, <1>3
<1> QED BY <1>3, <1>4, Starts, Firsts DEF Back, Is

\* that of the clock under tickslock, with a wakeup,
LEMMA Ticking ==
  ASSUME NEW kinds, Plain(kinds), NEW r, Back(r, kinds),
         NEW w, w = (<<Acquire("ticks")>> \o wakeup \o <<Release("ticks")>>) \o r
  PROVE  Back(w, kinds)
<1> DEFINE a == Acquire("ticks")  b == Acquire("ptable")  c == Release("ptable")  d == Release("ticks")
<1>1. a \in Ops /\ b \in Ops /\ c \in Ops /\ d \in Ops
  BY Names, InOps
<1>2. a[1] = "acquire" /\ b[1] = "acquire" /\ c[1] = "release" /\ d[1] = "release"
  BY Firsts
<1>3. w = (<<a>> \o <<b, c>> \o <<d>>) \o r
  BY DEF wakeup
<1>4. Closed(r) /\ Without(r, kinds) /\ r \in Seq(Ops)
  BY DEF Back, Closed, Path
<1> HIDE DEF a, b, c, d
<1>5. <<a>> \o <<b, c>> \o <<d>> = <<a, b, c, d>>
  <2>1. <<a, b, c>> = <<a>> \o <<b, c>>
    OBVIOUS
  <2>2. <<a, b, c, d>> = <<a, b, c>> \o <<d>>
    OBVIOUS
  <2> QED BY <2>1, <2>2, Zenon
<1>6. w = <<a, b, c, d>> \o r
  BY <1>3, <1>5, Zenon
<1>7. PICK r1 : r1 = <<d>> \o r
  OBVIOUS
<1>8. PICK r2 : r2 = <<c>> \o r1
  OBVIOUS
<1>9. PICK r3 : r3 = <<b>> \o r2
  OBVIOUS
<1>10. w = <<a>> \o r3
  <2>1. <<a>> \in Seq(Ops) /\ <<b>> \in Seq(Ops) /\ <<c>> \in Seq(Ops) /\ <<d>> \in Seq(Ops)
    BY <1>1
  <2>2. PICK t2 : t2 = <<c, d>>
    OBVIOUS
  <2>3. PICK t3 : t3 = <<b, c, d>>
    OBVIOUS
  <2>4. PICK t4 : t4 = <<a, b, c, d>>
    OBVIOUS
  <2>5. t2 = <<c>> \o <<d>>
    BY <1>1, <2>2, Two
  <2>6. t3 = <<b>> \o t2
    BY <2>2, <2>3
  <2>7. t4 = <<a>> \o t3
    BY <2>3, <2>4
  <2>8. t2 \in Seq(Ops) /\ t3 \in Seq(Ops) /\ t4 \in Seq(Ops)
    <3>1. <<c, d>> \in Seq(Ops) /\ <<b, c, d>> \in Seq(Ops) /\ <<a, b, c, d>> \in Seq(Ops)
      BY <1>1
    <3> QED BY <3>1, <2>2, <2>3, <2>4
  <2>9. r2 = t2 \o r
    BY <1>4, <1>7, <1>8, <2>1, <2>5, <2>8, Joined
  <2>10. r3 = t3 \o r
    BY <1>4, <1>9, <2>1, <2>6, <2>9, <2>8, Joined
  <2>11. t4 \o r = <<a>> \o r3
    BY <1>4, <2>1, <2>7, <2>10, <2>8, Joined
  <2> QED BY <1>6, <2>4, <2>11
<1>11. "ticks" \in {"ticks", "device"}
  OBVIOUS
<1>12. Is(w, Acquire("ticks"), {}, r)
  BY <1>4, <1>7, <1>8, <1>9, <1>10, <1>11, Notifying, Zenon DEF a, b, c, d
<1>13. Closed(w) /\ w # <<>>
  BY <1>12, Starts, Firsts DEF Is
<1>14. <<a, b, c, d>> \in Seq(Ops) /\ Without(<<a, b, c, d>>, kinds)
  <2>1. \A i \in 1 .. 4 : <<a, b, c, d>>[i] \in {a, b, c, d}
    OBVIOUS
  <2>2. a[1] \notin kinds /\ b[1] \notin kinds /\ c[1] \notin kinds /\ d[1] \notin kinds
    BY <1>2 DEF Plain
  <2>3. Len(<<a, b, c, d>>) = 4 /\ <<a, b, c, d>> \in Seq(Ops)
    BY <1>1
  <2> QED BY <2>1, <2>2, <2>3 DEF Without
<1>15. Without(w, kinds)
  BY <1>4, <1>6, <1>14, WithoutConcat
<1> QED BY <1>13, <1>15 DEF Back

\* and a thread gives up the CPU.
LEMMA Yields ==
  ASSUME NEW kind \in Switches,
         NEW w, w = <<Acquire("ptable"), Do(kind), Do("restore"), Release("ptable")>> \o <<Do("iret")>>
  PROVE  Back(w, {"pick"})
<1> DEFINE b == Acquire("ptable")  c == Release("ptable")
           e == Do("iret")  f == Do(kind)  g == Do("restore")
<1>1. b \in Ops /\ c \in Ops /\ e \in Ops /\ f \in Ops /\ g \in Ops
  BY Names, InOps DEF Others
<1>2. w = <<b, f, g, c>> \o <<e>>
  OBVIOUS
<1>3. b[1] # "pick" /\ c[1] # "pick" /\ e[1] # "pick" /\ f[1] # "pick" /\ g[1] # "pick"
  BY Firsts DEF Switches
<1>4. Closed(<<e>>)
  BY Iret
<1> HIDE DEF b, c, e, f, g
<1>5. w = <<b, f, g, c, e>>
  <2>1. <<b, f, g, c, e>> = <<b, f, g, c>> \o <<e>>
    OBVIOUS
  <2> QED BY <1>2, <2>1
<1>6. Is(w, Acquire("ptable"), {}, <<e>>)
  <2>1. <<c, e>> = <<c>> \o <<e>>
    BY <1>1, Two
  <2>2. <<g, c, e>> = <<g>> \o <<c, e>>
    OBVIOUS
  <2>3. <<f, g, c, e>> = <<f>> \o <<g, c, e>>
    OBVIOUS
  <2>4. <<b, f, g, c, e>> = <<b>> \o <<f, g, c, e>>
    OBVIOUS
  <2> QED BY <1>4, <1>5, <2>1, <2>2, <2>3, <2>4, Yielding, Zenon DEF b, c, f, g
<1>7. Closed(w) /\ w # <<>>
  BY <1>6, Starts, Firsts DEF Is
<1>8. \A i \in 1 .. Len(w) : w[i] \in {b, f, g, c, e}
  BY <1>5
<1>9. Without(w, {"pick"})
  BY <1>3, <1>8 DEF Without
<1> QED BY <1>7, <1>9 DEF Back

\* What is done before the interrupt of the clock returns.
LEMMA Passing ==
  ASSUME NEW c \in CPUs, NEW y \in Passed(c)
  PROVE  Back(y \o <<Do("iret")>>, Foreign(Cur(c))) /\ y \in Seq(Ops)
<1>1. Plain(Foreign(Cur(c)))
  BY DEF Plain, Foreign, Switches
<1>2. <<Do("iret")>> \in Seq(Ops) /\ addtick \in Seq(Ops)
  <2>1. Do("iret") \in Ops /\ Acquire("ptable") \in Ops /\ Release("ptable") \in Ops
    BY Names, InOps DEF Others
  <2> QED BY <2>1, Few DEF addtick
<1>3. CASE Cur(c) \notin Tasks
  <2>1. y = <<>>
    BY <1>3 DEF Passed, Cur
  <2>2. y \o <<Do("iret")>> = <<Do("iret")>>
    BY <2>1
  <2> QED BY <1>1, <2>1, <2>2, Returns
<1>4. CASE Cur(c) \in Tasks
  <2> DEFINE put(kind) == <<Acquire("ptable"), Do(kind), Do("restore"), Release("ptable")>>
  <2>1. yield = put("swtch") /\ thread_yield = put("swtch thread")
    <3> DEFINE a == Acquire("ptable")  k == Do("swtch")  g == Do("restore")  e == Release("ptable")
    <3>1. yield = <<a>> \o <<k, g>> \o <<e>>
      BY DEF yield, sched
    <3>2. <<a, k, g>> = <<a>> \o <<k, g>> /\ <<a, k, g, e>> = <<a, k, g>> \o <<e>>
      <4> HIDE DEF a, k, g, e
      <4>1. <<a, k, g>> = <<a>> \o <<k, g>>
        OBVIOUS
      <4>2. <<a, k, g, e>> = <<a, k, g>> \o <<e>>
        OBVIOUS
      <4> QED BY <4>1, <4>2
    <3>3. yield = <<a, k, g, e>>
      BY <3>1, <3>2, Zenon
    <3> QED BY <3>3 DEF thread_yield
  <2>2. Foreign(Cur(c)) = {"pick"}
    BY <1>4 DEF Foreign
  <2>3. ASSUME NEW kind \in Switches, NEW x, x = put(kind)
        PROVE  x \in Seq(Ops) /\ Back(x \o <<Do("iret")>>, {"pick"})
    <3>1. Acquire("ptable") \in Ops /\ Do(kind) \in Ops /\ Do("restore") \in Ops /\ Release("ptable") \in Ops
      BY Names, InOps DEF Others
    <3>2. x \in Seq(Ops)
      BY <2>3, <3>1, Few
    <3>3. Back(put(kind) \o <<Do("iret")>>, {"pick"})
      BY Yields
    <3> QED BY <2>3, <3>2, <3>3
  <2>4. yield \in Seq(Ops) /\ Back(yield \o <<Do("iret")>>, {"pick"})
    <3> HIDE DEF put
    <3> QED BY <2>1, <2>3 DEF Switches
  <2>5. thread_yield \in Seq(Ops) /\ Back(thread_yield \o <<Do("iret")>>, {"pick"})
    <3> HIDE DEF put
    <3> QED BY <2>1, <2>3 DEF Switches
  <2>6. ASSUME NEW x \in Seq(Ops), Back(x \o <<Do("iret")>>, {"pick"})
        PROVE  addtick \o x \in Seq(Ops) /\ Back((addtick \o x) \o <<Do("iret")>>, {"pick"})
    <3>1. (addtick \o x) \o <<Do("iret")>> = addtick \o (x \o <<Do("iret")>>)
      BY <1>2, <2>6, ConcatAssociative
    <3>2. Plain({"pick"})
      BY DEF Plain
    <3>3. Back(addtick \o (x \o <<Do("iret")>>), {"pick"})
      BY <2>6, <3>2, Counting
    <3>4. addtick \o x \in Seq(Ops)
      BY <1>2, <2>6
    <3> QED BY <3>1, <3>3, <3>4
  <2>7. y = (addtick \o addtick) \o yield \/ y = addtick \o thread_yield
    BY <1>4 DEF Passed, Cur
  <2>8. (addtick \o addtick) \o yield = addtick \o (addtick \o yield)
    BY <1>2, <2>4, ConcatAssociative
  <2>9. addtick \o yield \in Seq(Ops) /\ Back((addtick \o yield) \o <<Do("iret")>>, {"pick"})
    BY <2>4, <2>6
  <2> QED BY <2>2, <2>5, <2>6, <2>7, <2>8, <2>9
<1> QED BY <1>3, <1>4

\* Every handler.
LEMMA Handlers ==
  ASSUME NEW c \in CPUs, NEW h \in timer(c) \cup {ideintr_path}
  PROVE  Closed(h) /\ h # <<>> /\ Without(h, Foreign(Cur(c)))
<1> DEFINE tick == <<Acquire("ticks")>> \o wakeup \o <<Release("ticks")>>
<1>1. CASE h = ideintr_path
  BY <1>1, Ideintr DEF Foreign, Without
<1>2. CASE h \in timer(c)
  <2>1. PICK y \in Passed(c) : h = (Tick(c) \o y) \o <<Do("iret")>>
    BY <1>2 DEF timer
  <2>2. Back(y \o <<Do("iret")>>, Foreign(Cur(c))) /\ y \in Seq(Ops) /\ <<Do("iret")>> \in Seq(Ops)
    BY Passing, InOps DEF Others
  <2>3. Plain(Foreign(Cur(c)))
    BY DEF Plain, Foreign, Switches
  <2>4. tick \in Seq(Ops)
    <3>1. Acquire("ticks") \in Ops /\ Acquire("ptable") \in Ops /\ Release("ptable") \in Ops /\ Release("ticks") \in Ops
      BY Names, InOps
    <3>2. wakeup \in Seq(Ops) /\ <<Acquire("ticks")>> \in Seq(Ops) /\ <<Release("ticks")>> \in Seq(Ops)
      BY <3>1, Few DEF wakeup
    <3> QED BY <3>2
  <2>5. Tick(c) = <<>> \/ Tick(c) = tick
    BY DEF Tick
  <2>6. Back(tick \o (y \o <<Do("iret")>>), Foreign(Cur(c)))
    BY <2>2, <2>3, Ticking
  <2> HIDE DEF tick
  <2>7. CASE Tick(c) = <<>>
    <3>1. h = y \o <<Do("iret")>>
      BY <2>1, <2>2, <2>7
    <3> QED BY <2>2, <3>1 DEF Back
  <2>8. CASE Tick(c) = tick
    <3>1. h = tick \o (y \o <<Do("iret")>>)
      BY <2>1, <2>2, <2>4, <2>8, ConcatAssociative
    <3> QED BY <2>6, <3>1 DEF Back
  <2> QED BY <2>5, <2>7, <2>8
<1> QED BY <1>1, <1>2

\* The scheduler's rounds, with a process found and without.
LEMMA Sti ==
  ASSUME NEW r, Closed(r), ~Handling(r), NEW w, w = <<Do("sti")>> \o r
  PROVE  Is(w, Do("sti"), {}, r)
<1>1. Path(r) /\ Locked(r) = {} /\ ~Begins(r, "restore") /\ ~Begins(r, "xchg")
  BY DEF Closed
<1>2. "sti" \in Others /\ Do("sti")[1] = "sti"
  BY Firsts DEF Others
<1>3. Fits(Do("sti"), r)
  BY <1>1, <1>2 DEF Fits, Switches
<1>4. Is(w, Do("sti"), Locked(r), r)
  BY <1>1, <1>2, <1>3, Done
<1> QED BY <1>1, <1>4

\* What is left of a round with ptable.lock taken.
Round(s) ==
  /\ Path(s) /\ Locked(s) = {"ptable"} /\ ~Handling(s) /\ ~Begins(s, "restore") /\ ~Begins(s, "xchg")
  /\ Without(s, Switches \cup {"restore"})

LEMMA Reading ==
  ASSUME NEW r, Round(r), NEW w, w = sys_uptime \o r
  PROVE  Round(w)
<1>1. "ticks" \in Locks /\ "ticks" \notin {"ptable"}
  BY Names
<1>2. Is(w, Acquire("ticks"), Locked(r), r) /\ Without(w, Switches \cup {"restore"})
  <2>1. w = <<Acquire("ticks"), Release("ticks")>> \o r
    BY DEF sys_uptime
  <2>2. "acquire" \notin Switches \cup {"restore"} /\ "release" \notin Switches \cup {"restore"}
    BY DEF Switches
  <2> QED BY <1>1, <2>1, <2>2, Around DEF Round
<1> QED BY <1>2, Starts, Firsts DEF Round, Is

LEMMA Picking == Round(picking) /\ Round(<<Release("ptable")>>)
<1> DEFINE e == Do("pick")  g == Do("uptime")  f == Release("ptable")
<1>1. e \in Ops /\ f \in Ops /\ g \in Ops
  BY Names, InOps DEF Others
<1>2. e[1] = "pick" /\ f[1] = "release" /\ g[1] = "uptime"
  BY Firsts
<1>3. Path(<<>>) /\ Locked(<<>>) = {} /\ ~Begins(<<>>, "restore") /\ ~Begins(<<>>, "xchg") /\ ~Handling(<<>>)
  BY Empty DEF Closed
<1>4. picking = <<e, g, f>>
  BY DEF picking
<1> HIDE DEF e, f, g
<1>5. PICK r0 : r0 = <<f>>
  OBVIOUS
<1>6. r0 = <<f>> \o <<>>
  BY <1>5
<1>7. Is(r0, f, {"ptable"}, <<>>)
  <2>1. Is(r0, Release("ptable"), Locked(<<>>) \cup {"ptable"}, <<>>)
    BY <1>3, <1>6, Names, Released DEF f
  <2> QED BY <1>3, <2>1 DEF f
<1>8. /\ Path(r0) /\ Locked(r0) = {"ptable"} /\ ~Handling(r0)
      /\ ~Begins(r0, "restore") /\ ~Begins(r0, "xchg")
  BY <1>2, <1>3, <1>7, Starts DEF Is
<1>9. PICK r1 : r1 = <<g, f>>
  OBVIOUS
<1>10. Is(r1, g, {"ptable"}, <<>>)
  <2>1. r1 = <<g>> \o r0
    BY <1>1, <1>5, <1>9, Two, Zenon
  <2>2. "uptime" \in Others /\ Do("uptime")[1] = "uptime"
    BY Firsts DEF Others
  <2>3. Fits(Do("uptime"), r0)
    BY <1>8, <2>2 DEF Fits, Switches
  <2>4. Is(r1, Do("uptime"), Locked(r0), r0)
    BY <1>8, <2>1, <2>2, <2>3, Done DEF g
  <2> QED BY <1>3, <1>8, <2>4 DEF Is, g
<1>11. /\ Path(r1) /\ Locked(r1) = {"ptable"} /\ ~Handling(r1) /\ r1 # <<>> /\ r1[1] = Do("uptime")
       /\ ~Begins(r1, "restore") /\ ~Begins(r1, "xchg")
  BY <1>2, <1>3, <1>10, Starts DEF Is, g
<1>12. Is(picking, e, {"ptable"}, <<>>)
  <2>1. picking = <<e>> \o r1
    BY <1>4, <1>9
  <2>2. "pick" \in Others /\ Do("pick")[1] = "pick"
    BY Firsts DEF Others
  <2>3. Fits(Do("pick"), r1)
    BY <1>11, <2>2 DEF Fits, Switches
  <2>4. Is(picking, Do("pick"), Locked(r1), r1)
    BY <1>11, <2>1, <2>2, <2>3, Done DEF e
  <2> QED BY <1>3, <1>11, <2>4 DEF Is, e
<1>13. Without(picking, Switches \cup {"restore"}) /\ Without(r0, Switches \cup {"restore"})
  <2>1. e[1] \notin Switches \cup {"restore"} /\ f[1] \notin Switches \cup {"restore"} /\ g[1] \notin Switches \cup {"restore"}
    BY <1>2 DEF Switches
  <2>2. \A i \in 1 .. Len(picking) : picking[i] \in {e, g, f}
    BY <1>4
  <2>3. \A i \in 1 .. Len(r0) : r0[i] \in {e, g, f}
    BY <1>5
  <2> QED BY <2>1, <2>2, <2>3 DEF Without
<1>14. Round(picking)
  BY <1>2, <1>3, <1>12, <1>13, Starts DEF Is, Round
<1>15. Round(r0)
  BY <1>8, <1>13 DEF Round
<1> QED BY <1>5, <1>14, <1>15 DEF f

LEMMA Entering ==
  ASSUME NEW r, Round(r), NEW w, w = <<Do("sti"), Acquire("ptable")>> \o r
  PROVE  Closed(w) /\ w # <<>> /\ ~Handling(w) /\ Without(w, Switches \cup {"restore"})
<1> DEFINE a == Do("sti")  b == Acquire("ptable")
<1>1. a \in Ops /\ b \in Ops /\ "ptable" \in Locks /\ a[1] = "sti" /\ b[1] = "acquire"
  BY Names, InOps, Firsts DEF Others
<1>2. w = <<a, b>> \o r /\ r \in Seq(Ops)
  BY DEF Round, Path
<1> HIDE DEF a, b
<1>3. PICK r1 : r1 = <<b>> \o r
  OBVIOUS
<1>4. w = <<a>> \o r1
  <2>1. <<a, b>> = <<a>> \o <<b>>
    BY <1>1, Two
  <2>2. <<a>> \in Seq(Ops) /\ <<b>> \in Seq(Ops)
    BY <1>1
  <2> QED BY <1>2, <1>3, <2>1, <2>2, ConcatAssociative
<1>5. Is(r1, b, {}, r)
  <2>1. Is(r1, Acquire("ptable"), Locked(r) \ {"ptable"}, r)
    BY <1>1, <1>3, Acquired DEF Round, b
  <2>2. Locked(r) \ {"ptable"} = {}
    BY DEF Round
  <2> QED BY <2>1, <2>2 DEF b
<1>6. Closed(r1) /\ ~Handling(r1)
  BY <1>1, <1>5, Starts DEF Is, Round
<1>7. Is(w, Do("sti"), {}, r1)
  BY <1>4, <1>6, Sti DEF a
<1>8. Closed(w) /\ w # <<>> /\ ~Handling(w)
  BY <1>6, <1>7, Starts, Firsts DEF Is
<1>9. <<a, b>> \in Seq(Ops) /\ Without(<<a, b>>, Switches \cup {"restore"})
  <2>1. a[1] \notin Switches \cup {"restore"} /\ b[1] \notin Switches \cup {"restore"}
    BY <1>1 DEF Switches
  <2>2. <<a, b>> \in Seq(Ops) /\ \A i \in 1 .. Len(<<a, b>>) : <<a, b>>[i] \in {a, b}
    BY <1>1
  <2> QED BY <2>1, <2>2 DEF Without
<1>10. Without(w, Switches \cup {"restore"})
  BY <1>2, <1>9, WithoutConcat DEF Round
<1> QED BY <1>8, <1>10

LEMMA Rounds ==
  ASSUME NEW w, w \in {scheduler, scheduler_last, scheduler_stride, scheduler_idle}
  PROVE  Closed(w) /\ w # <<>> /\ ~Handling(w) /\ Without(w, Switches \cup {"restore"})
<1> DEFINE in == <<Do("sti"), Acquire("ptable")>>
<1>1. in \in Seq(Ops) /\ sys_uptime \in Seq(Ops)
  <2>1. Do("sti") \in Ops /\ Acquire("ptable") \in Ops /\ Acquire("ticks") \in Ops /\ Release("ticks") \in Ops
    BY Names, InOps DEF Others
  <2> QED BY <2>1, Few DEF sys_uptime
<1>2. Round(picking) /\ Round(<<Release("ptable")>>) /\ picking \in Seq(Ops)
  BY Picking DEF Round, Path
<1>3. Round(sys_uptime \o picking) /\ sys_uptime \o picking \in Seq(Ops)
  BY <1>2, Reading DEF Round, Path
<1>4. Round(sys_uptime \o (sys_uptime \o picking))
  BY <1>3, Reading
<1>5. scheduler = in \o (sys_uptime \o picking)
  <2>1. scheduler = (in \o sys_uptime) \o picking
    BY DEF scheduler
  <2> HIDE DEF in
  <2> QED BY <1>1, <1>2, <2>1, ConcatAssociative
<1>6. scheduler_last = in \o (sys_uptime \o (sys_uptime \o picking))
  <2>1. scheduler_last = ((in \o sys_uptime) \o sys_uptime) \o picking
    BY DEF scheduler_last
  <2> HIDE DEF in
  <2>2. in \o sys_uptime \in Seq(Ops)
    BY <1>1
  <2>3. ((in \o sys_uptime) \o sys_uptime) \o picking = (in \o sys_uptime) \o (sys_uptime \o picking)
    BY <1>1, <1>2, <2>2, Joined
  <2>4. (in \o sys_uptime) \o (sys_uptime \o picking) = in \o (sys_uptime \o (sys_uptime \o picking))
    BY <1>1, <1>3, ConcatAssociative
  <2> QED BY <2>1, <2>3, <2>4
<1>7. scheduler_stride = in \o picking
  BY DEF scheduler_stride
<1>8. scheduler_idle = in \o <<Release("ptable")>>
  <2> DEFINE a == Do("sti")  b == Acquire("ptable")  f == Release("ptable")
  <2>1. scheduler_idle = <<a, b, f>>
    BY DEF scheduler_idle
  <2>2. <<a, b, f>> = <<a, b>> \o <<f>>
    <3> HIDE DEF a, b, f
    <3> QED OBVIOUS
  <2> QED BY <2>1, <2>2
<1>9. CASE w = scheduler
  BY <1>3, <1>5, <1>9, Entering
<1>10. CASE w = scheduler_last
  BY <1>4, <1>6, <1>10, Entering
<1>11. CASE w = scheduler_stride
  BY <1>2, <1>7, <1>11, Entering
<1>12. CASE w = scheduler_idle
  BY <1>2, <1>8, <1>12, Entering
<1> QED BY <1>9, <1>10, <1>11, <1>12

\* A new thread.
LEMMA Forked ==
  /\ Path(forkret) /\ forkret # <<>> /\ forkret[1] = Release("ptable") /\ Locked(forkret) = {"ptable"}
  /\ ~Handling(forkret) /\ Without(forkret, {"pick"})
<1> DEFINE a == Release("ptable")  b == Do("sti")
<1>1. a \in Ops /\ b \in Ops /\ "ptable" \in Locks
  BY Names, InOps DEF Others
<1>2. a[1] = "release" /\ b[1] = "sti"
  BY Firsts
<1>3. Closed(<<>>) /\ ~Handling(<<>>)
  BY Empty
<1>4. forkret = <<a, b>>
  BY DEF forkret
<1> HIDE DEF a, b
<1>5. PICK r : r = <<b>>
  OBVIOUS
<1>6. r = <<b>> \o <<>>
  BY <1>5
<1>7. forkret = <<a>> \o r
  BY <1>1, <1>4, <1>5, Two, Zenon
<1>8. Is(r, Do("sti"), {}, <<>>)
  BY <1>3, <1>6, Sti DEF b
<1>9. Path(r) /\ Locked(r) = {} /\ ~Handling(r) /\ ~Begins(r, "restore") /\ ~Begins(r, "xchg")
  BY <1>3, <1>8, Starts, Firsts DEF Is
<1>10. Is(forkret, Release("ptable"), Locked(r) \cup {"ptable"}, r)
  BY <1>1, <1>7, <1>9, Released DEF a
<1>11. Without(forkret, {"pick"})
  BY <1>2, <1>4 DEF Without
<1> QED BY <1>9, <1>10, <1>11 DEF Is

-----------------------------------------------------------------------------
\* Steps.

\* ncli, as locks come and go.
LEMMA Counts ==
  ASSUME NEW H, H \subseteq Locks
  PROVE  /\ Count(H) \in Nat /\ (Count(H) = 0 => H = {}) /\ (H = {} => Count(H) = 0)
         /\ H = {"ptable"} => Count(H) = 1
         /\ \A l \in Locks \ H : Count(H \cup {l}) = Count(H) + 1
         /\ \A l \in H : Count(H \ {l}) = Count(H) - 1 /\ Count(H) > 0
<1>1. \A x \in H : x \in {"ptable", "ticks", "device"}
  BY Names
<1>2. Count(H) \in Nat /\ (Count(H) = 0 => H = {}) /\ (H = {} => Count(H) = 0)
  BY <1>1 DEF Count, One
<1>3. H = {"ptable"} => Count(H) = 1
  BY DEF Count, One
<1>4. ASSUME NEW l \in Locks \ H PROVE Count(H \cup {l}) = Count(H) + 1
  <2>1. l \in {"ptable", "ticks", "device"} /\ l \notin H
    BY Names
  <2> QED BY <2>1 DEF Count, One
<1>5. ASSUME NEW l \in H PROVE Count(H \ {l}) = Count(H) - 1 /\ Count(H) > 0
  <2>1. l \in {"ptable", "ticks", "device"}
    BY <1>1
  <2> QED BY <2>1 DEF Count, One
<1> QED BY <1>2, <1>3, <1>4, <1>5

\* The next step of a path, and what is left of it.
LEMMA Walk ==
  ASSUME NEW t, NEW s, PathOf(t, s), s # <<>>
  PROVE  /\ s[1] \in Ops /\ s[1][1] \notin Foreign(t) /\ Fits(s[1], Tail(s)) /\ PathOf(t, Tail(s))
         /\ s[1][1] = "release" => Locked(s) = Locked(Tail(s)) \cup {s[1][2]} /\ s[1][2] \in Locks
         /\ s[1][1] \in {"acquire", "xchg"} => Locked(s) = Locked(Tail(s)) \ {s[1][2]} /\ s[1][2] \in Locks
         /\ s[1][1] \in Others => Locked(s) = Locked(Tail(s))
         /\ Handling(s) <=> s[1][1] = "iret" \/ Handling(Tail(s))
         /\ ~Begins(Tail(s), "xchg") /\ (Begins(Tail(s), "restore") => s[1][1] \in Switches)
<1> DEFINE op == s[1]
           r == Tail(s)
<1>1. s \in Seq(Ops) /\ Path(s) /\ Without(s, Foreign(t))
  BY DEF PathOf, Path
<1>2. op \in Ops /\ r \in Seq(Ops) /\ Len(r) = Len(s) - 1 /\ 1 \in 1 .. Len(s)
      /\ \A i \in 1 .. Len(r) : r[i] = s[i + 1]
  BY <1>1
<1>3. s = <<op>> \o r
  <2>1. PICK w : w = <<op>> \o r
    OBVIOUS
  <2>2. w \in Seq(Ops) /\ Len(w) = Len(r) + 1 /\ w[1] = op /\ \A i \in 1 .. Len(r) : w[i + 1] = r[i]
    BY <1>2, <2>1, Rests
  <2>3. ASSUME NEW i \in 1 .. Len(s) PROVE s[i] = w[i]
    <3>1. CASE i = 1
      BY <3>1, <2>2
    <3>2. CASE i # 1
      <4>1. i - 1 \in 1 .. Len(r) /\ (i - 1) + 1 = i
        BY <1>1, <1>2, <3>2
      <4> QED BY <4>1, <1>2, <2>2
    <3> QED BY <3>1, <3>2
  <2>4. Len(s) = Len(w)
    BY <1>1, <1>2, <2>2
  <2>5. s = w
    BY <1>1, <2>2, <2>3, <2>4, SeqEqual
  <2> QED BY <2>1, <2>5
<1>4. \A i \in 1 .. Len(r) : i + 1 \in 1 .. Len(s)
  BY <1>1, <1>2
<1> HIDE DEF op, r
<1>5. Fits(op, r) /\ Path(r)
  BY <1>1, <1>2, <1>3, PathCons
<1>6. op[1] \notin Foreign(t) /\ Without(r, Foreign(t))
  BY <1>1, <1>2, <1>4 DEF Without, op
<1>7. /\ op[1] = "release" => Locked(s) = Locked(r) \cup {op[2]}
      /\ op[1] \in {"acquire", "xchg"} => Locked(s) = Locked(r) \ {op[2]}
      /\ op[1] \in Others => Locked(s) = Locked(r)
      /\ Handling(s) <=> op[1] = "iret" \/ Handling(r)
  BY <1>2, <1>3, <1>5, Cons
<1>8. op[1] \in {"acquire", "xchg", "release"} => op[2] \in Locks
  BY <1>2, Steps DEF Others, Switches
<1>9. ~Begins(r, "xchg") /\ (Begins(r, "restore") => op[1] \in Switches)
  <2>1. CASE op[1] \in Switches
    <3>1. r[1] = Do("restore")
      BY <1>5, <2>1 DEF Fits
    <3>2. r[1][1] = "restore"
      BY <3>1, Firsts, Zenon
    <3> QED BY <2>1, <3>2 DEF Begins
  <2>2. CASE op[1] \notin Switches
    BY <1>5, <2>2 DEF Fits
  <2> QED BY <2>1, <2>2
<1>10. PathOf(t, r)
  BY <1>5, <1>6 DEF PathOf
<1> QED BY <1>2, <1>5, <1>6, <1>7, <1>8, <1>9, <1>10 DEF op, r

\* A step of a CPU that leaves its thread in place.
LEMMA InPlace ==
  ASSUME SpinInv, Distinct, NEW c \in CPUs, NEW u \in Cpus, NEW s,
         cpu' = [cpu EXCEPT ![c] = u], u.on = Cur(c), todo' = [todo EXCEPT ![Cur(c)] = s],
         lock' \in [Locks -> CPUs \cup {FREE}],
         \A d \in CPUs \ {c}, l \in Locks : lock'[l] = d <=> lock[l] = d,
         kept' = kept, panic' = panic, PathOf(Cur(c), s),
         Cur(c) \in Tasks /\ Handling(s) /\ Begins(s, "restore") => ~kept[Cur(c)],
         Agrees(u, s, {l \in Locks : lock'[l] = c})
  PROVE  SpinInv'
<1> DEFINE t == Cur(c)
<1>1. Types /\ t \in Tasks \cup CPUs
  BY DEF SpinInv, Types
<1>2. cpu'[c] = u /\ \A d \in CPUs \ {c} : cpu'[d] = cpu[d]
  BY <1>1 DEF Types
<1>3. \A d \in CPUs : cpu'[d].on = cpu[d].on
  BY <1>2 DEF Cur
<1>4. todo'[t] = s /\ \A x \in (Tasks \cup CPUs) \ {t} : todo'[x] = todo[x]
  BY <1>1 DEF Types
<1>5. Types'
  <2>1. cpu' \in [CPUs -> Cpus] /\ todo' = [x \in Tasks \cup CPUs |-> todo'[x]] /\ kept' \in [Tasks -> BOOLEAN]
    BY <1>1 DEF Types
  <2>2. \A d \in CPUs : cpu'[d].on \in Tasks \cup {d}
    BY <1>1, <1>3 DEF Types, Cur
  <2>3. \A d, e \in CPUs : cpu'[d].on = cpu'[e].on => d = e
    BY <1>1, <1>3 DEF Types, Cur
  <2> QED BY <2>1, <2>2, <2>3 DEF Types, Cur
<1>6. \A x \in Tasks \cup CPUs : Running(x)' <=> Running(x)
  BY <1>3 DEF Running, Cur
<1>7. Running(t)
  BY DEF Running
<1>8. ASSUME NEW x \in Tasks \cup CPUs
      PROVE  PathOf(x, todo'[x]) /\ (~Running(x)' => Parked(todo'[x]))
  <2>1. CASE x = t
    BY <2>1, <1>4, <1>6, <1>7
  <2>2. CASE x # t
    BY <2>2, <1>4, <1>6 DEF SpinInv
  <2> QED BY <2>1, <2>2
<1>9. ASSUME NEW x \in Tasks, Handling(todo'[x]), Begins(todo'[x], "restore") PROVE ~kept'[x]
  <2>1. CASE x = t
    BY <2>1, <1>4, <1>9
  <2>2. CASE x # t
    BY <2>2, <1>4, <1>9 DEF SpinInv
  <2> QED BY <2>1, <2>2
<1>10. ASSUME NEW d \in CPUs PROVE Agrees(cpu'[d], todo'[cpu'[d].on], {l \in Locks : lock'[l] = d})
  <2>1. CASE d = c
    BY <2>1, <1>2, <1>3, <1>4 DEF Cur
  <2>2. CASE d # c
    <3>1. Cur(d) # t /\ Cur(d) \in Tasks \cup CPUs
      BY <2>2, <1>1 DEF Types
    <3>2. {l \in Locks : lock'[l] = d} = Held(d)
      BY <2>2 DEF Held
    <3>3. cpu'[d] = cpu[d] /\ todo'[cpu'[d].on] = todo[Cur(d)]
      BY <2>2, <3>1, <1>2, <1>4 DEF Cur
    <3> QED BY <3>2, <3>3 DEF SpinInv
  <2> QED BY <2>1, <2>2
<1>11. ~panic'
  BY DEF SpinInv
<1> QED BY <1>5, <1>8, <1>9, <1>10, <1>11 DEF SpinInv, Held, Cur

\* What a CPU has and does.
LEMMA Here ==
  ASSUME SpinInv, NEW c \in CPUs
  PROVE  /\ Cur(c) \in Tasks \cup CPUs /\ cpu[c] \in Cpus /\ cpu[c].on = Cur(c)
         /\ PathOf(Cur(c), todo[Cur(c)]) /\ Agrees(cpu[c], todo[Cur(c)], Held(c))
         /\ lock \in [Locks -> CPUs \cup {FREE}] /\ Held(c) = {l \in Locks : lock[l] = c}
         /\ todo[Cur(c)] # <<>> => Next1(c) = todo[Cur(c)][1]
         /\ Held(c) \subseteq Locks
<1>1. cpu[c] \in Cpus /\ lock \in [Locks -> CPUs \cup {FREE}] /\ Cur(c) \in Tasks \cup {c}
  BY DEF SpinInv, Types
<1>2. PathOf(Cur(c), todo[Cur(c)])
  BY <1>1 DEF SpinInv
<1>3. Agrees(cpu[c], todo[Cur(c)], Held(c))
  BY DEF SpinInv
<1>4. todo[Cur(c)] # <<>> => Next1(c) = todo[Cur(c)][1]
  BY DEF Next1
<1>5. Held(c) = {l \in Locks : lock[l] = c} /\ Held(c) \subseteq Locks /\ cpu[c].on = Cur(c)
  BY DEF Held, Cur
<1> QED BY <1>1, <1>2, <1>3, <1>4, <1>5

\* The names of the steps exclude each other.
LEMMA Kinds ==
  /\ "acquire" \notin Others /\ "release" \notin Others /\ "xchg" \notin Others
  /\ "restore" \in Others /\ "pick" \in Others /\ "uptime" \in Others /\ "sti" \in Others /\ "iret" \in Others
  /\ Switches \subseteq Others /\ "acquire" \notin Switches /\ "release" \notin Switches
  /\ "xchg" \notin Switches /\ "restore" \notin Switches /\ "pick" \notin Switches /\ "uptime" \notin Switches
  /\ "sti" \notin Switches /\ "iret" \notin Switches
  /\ "swtch" \in Switches /\ "swtch thread" \in Switches
BY DEF Others, Switches

LEMMA Pushed ==
  ASSUME NEW u \in Cpus
  PROVE  /\ pushcli(u) \in Cpus /\ pushcli(u).on = u.on /\ pushcli(u).ncli = u.ncli + 1
         /\ ~pushcli(u).interruptible
         /\ pushcli(u).intena = IF u.ncli = 0 THEN u.interruptible ELSE u.intena
<1>1. PICK i \in BOOLEAN : i = IF u.ncli = 0 THEN u.interruptible ELSE u.intena
  BY DEF Cpus
<1>2. PICK n \in Nat : n = u.ncli + 1
  BY DEF Cpus
<1>3. pushcli(u) = [u EXCEPT !.intena = i, !.ncli = n, !.interruptible = FALSE]
  BY <1>1, <1>2, Zenon DEF pushcli
<1>4. PICK v1 : v1 = [u EXCEPT !.intena = i]
  OBVIOUS
<1>5. PICK v2 : v2 = [v1 EXCEPT !.ncli = n]
  OBVIOUS
<1>6. PICK v3 : v3 = [v2 EXCEPT !.interruptible = FALSE]
  OBVIOUS
<1>8. pushcli(u) = v3
  BY <1>3, <1>4, <1>5, <1>6, Zenon
<1>9. v1 \in Cpus /\ v1.on = u.on /\ v1.intena = i
  BY <1>4 DEF Cpus
<1>10. v2 \in Cpus /\ v2.on = u.on /\ v2.intena = i /\ v2.ncli = n
  BY <1>5, <1>9 DEF Cpus
<1>11. v3 \in Cpus /\ v3.on = u.on /\ v3.ncli = n /\ v3.interruptible = FALSE /\ v3.intena = i
  BY <1>6, <1>10 DEF Cpus
<1> QED BY <1>1, <1>2, <1>8, <1>11
LEMMA Popped ==
  ASSUME NEW u \in Cpus, u.ncli > 0
  PROVE  /\ popcli(u) \in Cpus /\ popcli(u).on = u.on /\ popcli(u).ncli = u.ncli - 1
         /\ popcli(u).interruptible <=> (u.ncli = 1 /\ u.intena)
         /\ popcli(u).intena = u.intena
<1>1. PICK i \in BOOLEAN : i = (u.ncli = 1 /\ u.intena)
  OBVIOUS
<1>2. PICK n \in Nat : n = u.ncli - 1
  BY DEF Cpus
<1>3. popcli(u) = [u EXCEPT !.ncli = n, !.interruptible = i]
  BY <1>1, <1>2, Zenon DEF popcli
<1>4. PICK v : v = [u EXCEPT !.ncli = n]
  OBVIOUS
<1>5. PICK w : w = [v EXCEPT !.interruptible = i]
  OBVIOUS
<1>6. popcli(u) = w
  BY <1>3, <1>4, <1>5, Zenon
<1>7. v \in Cpus /\ v.on = u.on /\ v.ncli = n /\ v.intena = u.intena
  BY <1>4 DEF Cpus
<1>8. w \in Cpus /\ w.on = u.on /\ w.ncli = n /\ w.interruptible = i /\ w.intena = u.intena
  BY <1>5, <1>7 DEF Cpus
<1> QED BY <1>1, <1>2, <1>6, <1>8

LEMMA AcquireKeeps ==
  ASSUME SpinInv, Distinct, NEW c \in CPUs, acquire(c)
  PROVE  SpinInv'
<1> DEFINE s == todo[Cur(c)]  r == Tail(s)  u == cpu[c]  l == s[1][2]
<1>1. s # <<>> /\ s[1][1] = "acquire" /\ Next1(c) = s[1]
  BY Here DEF acquire, Next1
<1>2. PathOf(Cur(c), s) /\ Agrees(u, s, Held(c)) /\ u \in Cpus /\ u.on = Cur(c)
  BY Here
<1>3. /\ l \in Locks /\ Locked(s) = Locked(r) \ {l} /\ Fits(s[1], r) /\ PathOf(Cur(c), r)
      /\ (Handling(s) <=> Handling(r)) /\ ~Begins(r, "xchg") /\ ~Begins(r, "restore")
  BY <1>1, <1>2, Walk, Kinds
<1>4. l \in Locked(r) /\ l \notin Held(c)
  BY <1>1, <1>2, <1>3 DEF Fits, Agrees
<1>5. lock[l] # c
  BY <1>3, <1>4 DEF Held
<1> DEFINE u2 == pushcli(u)
<1>6. /\ cpu' = [cpu EXCEPT ![c] = u2] /\ todo' = [todo EXCEPT ![Cur(c)] = <<<<"xchg", l>>>> \o Tail(@)]
      /\ UNCHANGED <<lock, kept, panic>>
  BY <1>1, <1>5 DEF acquire
<1>7. /\ u2 \in Cpus /\ u2.on = Cur(c) /\ u2.ncli = u.ncli + 1 /\ ~u2.interruptible
      /\ u2.intena = IF u.ncli = 0 THEN u.interruptible ELSE u.intena
  BY <1>2, Pushed
<1>8. PICK w : w = <<<<"xchg", l>>>> \o r
  OBVIOUS
<1>9. todo' = [todo EXCEPT ![Cur(c)] = w]
  BY <1>6, <1>8
<1> DEFINE op == <<"xchg", l>>
<1>10. op \in Ops /\ op[1] = "xchg" /\ op[2] = l
  BY <1>3, InOps
<1>11. Path(r) /\ r \in Seq(Ops) /\ Without(r, Foreign(Cur(c)))
  BY <1>3 DEF PathOf, Path
<1>12. w = <<op>> \o r
  BY <1>8
<1> HIDE DEF op, u2, r
<1>13. Fits(op, r)
  BY <1>3, <1>4, <1>10 DEF Fits, Switches
<1>14. Path(w) /\ w # <<>> /\ w[1] = op /\ Locked(w) = Locked(s) /\ (Handling(w) <=> Handling(s))
  <2>1. /\ Path(w) /\ w # <<>> /\ w[1] = op
        /\ op[1] \in {"acquire", "xchg"} => Locked(w) = Locked(r) \ {op[2]}
        /\ Handling(w) <=> op[1] = "iret" \/ Handling(r)
    BY <1>10, <1>11, <1>12, <1>13, Cons
  <2>2. Locked(w) = Locked(r) \ {l} /\ (Handling(w) <=> Handling(r))
    BY <2>1, <1>10
  <2> QED BY <2>1, <2>2, <1>3
<1>15. Begins(w, "xchg") /\ ~Begins(w, "restore") /\ ~Begins(s, "xchg") /\ ~Begins(s, "restore")
  BY <1>1, <1>10, <1>14 DEF Begins
<1>16. PathOf(Cur(c), w)
  <2>1. op[1] \notin Foreign(Cur(c))
    BY <1>10, Kinds DEF Foreign
  <2>2. Len(w) = Len(r) + 1 /\ \A i \in 1 .. Len(r) : w[i + 1] = r[i]
    BY <1>10, <1>11, <1>12, Rests
  <2>3. ASSUME NEW i \in 1 .. Len(w) PROVE w[i][1] \notin Foreign(Cur(c))
    <3>1. CASE i = 1
      BY <3>1, <2>1, <1>14
    <3>2. CASE i # 1
      <4>1. i - 1 \in 1 .. Len(r) /\ (i - 1) + 1 = i
        BY <1>11, <2>2, <3>2
      <4> QED BY <4>1, <2>2, <1>11 DEF Without
    <3> QED BY <3>1, <3>2
  <2> QED BY <2>3, <1>14 DEF PathOf, Without
<1>17. Agrees(u2, w, Held(c))
  <2>1. u.ncli = Count(Held(c)) /\ Count(Held(c)) \in Nat
    BY <1>2, <1>15, Here, Counts DEF Agrees, One
  <2>2. u2.ncli = Count(Held(c)) + 1
    BY <1>7, <2>1
  <2>3. Held(c) = Locked(w)
    BY <1>2, <1>14 DEF Agrees
  <2>4. Handling(w) => ~u2.intena
    <3>1. HAVE Handling(w)
    <3>2. ~u.interruptible /\ (u.ncli > 0 => ~u.intena)
      BY <3>1, <1>2, <1>14, <1>15 DEF Agrees
    <3> QED BY <3>2, <1>7, <2>1
  <2> QED BY <2>2, <2>3, <2>4, <1>7, <1>15 DEF Agrees, One
<1>18. {x \in Locks : lock'[x] = c} = Held(c) /\ lock' = lock
  BY <1>6 DEF Held
<1>19. lock' \in [Locks -> CPUs \cup {FREE}] /\ kept' = kept /\ panic' = panic
  BY <1>6, Here
<1> QED BY <1>6, <1>7, <1>9, <1>15, <1>16, <1>17, <1>18, <1>19, InPlace

LEMMA XchgKeeps ==
  ASSUME SpinInv, Distinct, NEW c \in CPUs, xchg(c)
  PROVE  SpinInv'
<1> DEFINE s == todo[Cur(c)]  r == Tail(s)  u == cpu[c]  l == s[1][2]  H == {x \in Locks : lock'[x] = c}
<1>1. s # <<>> /\ s[1][1] = "xchg" /\ Next1(c) = s[1]
  BY Here DEF xchg, Next1
<1>2. PathOf(Cur(c), s) /\ Agrees(u, s, Held(c)) /\ u \in Cpus /\ u.on = Cur(c)
      /\ lock \in [Locks -> CPUs \cup {FREE}]
  BY Here
<1>3. /\ l \in Locks /\ Locked(s) = Locked(r) \ {l} /\ Fits(s[1], r) /\ PathOf(Cur(c), r)
      /\ (Handling(s) <=> Handling(r)) /\ ~Begins(r, "xchg") /\ ~Begins(r, "restore")
  BY <1>1, <1>2, Walk, Kinds
<1>4. /\ lock[l] = FREE /\ lock' = [lock EXCEPT ![l] = c] /\ todo' = [todo EXCEPT ![Cur(c)] = Tail(@)]
      /\ UNCHANGED <<cpu, kept, panic>>
  BY <1>1 DEF xchg, Advance
<1>5. cpu' = [cpu EXCEPT ![c] = u] /\ todo' = [todo EXCEPT ![Cur(c)] = r]
  BY <1>4 DEF SpinInv, Types
<1>6. lock' \in [Locks -> CPUs \cup {FREE}] /\ \A d \in CPUs \ {c}, x \in Locks : lock'[x] = d <=> lock[x] = d
  BY <1>2, <1>3, <1>4 DEF Distinct
<1>7. H = Held(c) \cup {l} /\ l \notin Held(c) /\ Held(c) \subseteq Locks
  BY <1>2, <1>3, <1>4 DEF Held, Distinct
<1>8. l \in Locked(r)
  BY <1>1, <1>3 DEF Fits
<1>9. Begins(s, "xchg") /\ ~Begins(s, "restore")
  BY <1>1 DEF Begins
<1> HIDE DEF s, r, u, l, H
<1>10. Agrees(u, r, H)
  <2>1. H = Locked(r)
    BY <1>2, <1>3, <1>7, <1>8 DEF Agrees
  <2>2. u.ncli = Count(Held(c)) + 1 /\ Count(H) = Count(Held(c)) + 1 /\ Count(H) \in Nat
    <3>1. Count(Held(c) \cup {l}) = Count(Held(c)) + 1 /\ Count(Held(c)) \in Nat
      BY <1>3, <1>7, Counts
    <3> QED BY <3>1, <1>2, <1>7, <1>9 DEF Agrees, One
  <2>3. u.ncli = Count(H) + One(Begins(r, "xchg"))
    BY <2>2, <1>3 DEF One
  <2> QED BY <2>1, <2>3, <1>2, <1>3, <1>9 DEF Agrees
<1> QED BY <1>2, <1>3, <1>4, <1>5, <1>6, <1>10, InPlace DEF H

LEMMA ReleaseKeeps ==
  ASSUME SpinInv, Distinct, NEW c \in CPUs, release(c)
  PROVE  SpinInv'
<1> DEFINE s == todo[Cur(c)]  r == Tail(s)  u == cpu[c]  l == s[1][2]  H == {x \in Locks : lock'[x] = c}
<1>1. s # <<>> /\ s[1][1] = "release" /\ Next1(c) = s[1]
  BY Here DEF release, Next1
<1>2. PathOf(Cur(c), s) /\ Agrees(u, s, Held(c)) /\ u \in Cpus /\ u.on = Cur(c)
      /\ lock \in [Locks -> CPUs \cup {FREE}]
  BY Here
<1>3. /\ l \in Locks /\ Locked(s) = Locked(r) \cup {l} /\ Fits(s[1], r) /\ PathOf(Cur(c), r)
      /\ (Handling(s) <=> Handling(r)) /\ ~Begins(r, "xchg") /\ ~Begins(r, "restore")
  BY <1>1, <1>2, Walk, Kinds
<1>4. l \in Held(c) /\ l \notin Locked(r)
  BY <1>1, <1>2, <1>3 DEF Fits, Agrees
<1>5. ~Begins(s, "xchg") /\ ~Begins(s, "restore")
  BY <1>1 DEF Begins
<1>6. /\ Held(c) \subseteq Locks /\ u.ncli = Count(Held(c)) /\ Count(Held(c)) > 0 /\ Count(Held(c)) \in Nat
      /\ Count(Held(c) \ {l}) = Count(Held(c)) - 1
  <2>1. Held(c) \subseteq Locks
    BY DEF Held
  <2>2. Count(Held(c) \ {l}) = Count(Held(c)) - 1 /\ Count(Held(c)) > 0 /\ Count(Held(c)) \in Nat
    BY <2>1, <1>4, Counts
  <2>3. u.ncli = Count(Held(c))
    BY <2>2, <1>2, <1>5 DEF Agrees, One
  <2> QED BY <2>1, <2>2, <2>3
<1>7. ~u.interruptible /\ lock[l] = c
  BY <1>2, <1>4, <1>6 DEF Agrees, Held
<1> DEFINE u2 == popcli(u)
<1>8. /\ lock' = [lock EXCEPT ![l] = FREE] /\ cpu' = [cpu EXCEPT ![c] = u2]
      /\ todo' = [todo EXCEPT ![Cur(c)] = Tail(@)] /\ kept' = kept /\ panic' = panic
  BY <1>1, <1>6, <1>7 DEF release, Advance
<1>9. /\ u2 \in Cpus /\ u2.on = Cur(c) /\ u2.ncli = u.ncli - 1 /\ u2.intena = u.intena
      /\ u2.interruptible <=> (u.ncli = 1 /\ u.intena)
  BY <1>2, <1>6, Popped
<1>10. todo' = [todo EXCEPT ![Cur(c)] = r]
  BY <1>8 DEF SpinInv, Types
<1>11. lock' \in [Locks -> CPUs \cup {FREE}] /\ \A d \in CPUs \ {c}, x \in Locks : lock'[x] = d <=> lock[x] = d
  BY <1>2, <1>3, <1>7, <1>8 DEF Distinct
<1>12. H = Held(c) \ {l}
  BY <1>2, <1>3, <1>8 DEF Held, Distinct
<1> HIDE DEF s, r, u, l, H, u2
<1>13. Agrees(u2, r, H)
  <2>1. H = Locked(r)
    BY <1>2, <1>3, <1>4, <1>12 DEF Agrees
  <2>2. u2.ncli = Count(H) + One(Begins(r, "xchg"))
    BY <1>3, <1>6, <1>9, <1>12 DEF One
  <2>3. Handling(r) => ~u2.intena
    BY <1>2, <1>3, <1>5, <1>6, <1>9 DEF Agrees
  <2>4. u2.interruptible => u2.ncli = 0 /\ ~Handling(r)
    BY <2>3, <1>9
  <2> QED BY <2>1, <2>2, <2>3, <2>4 DEF Agrees
<1> QED BY <1>3, <1>8, <1>9, <1>10, <1>11, <1>13, InPlace DEF H

LEMMA EnableKeeps ==
  ASSUME SpinInv, Distinct, NEW c \in CPUs, Enable(c)
  PROVE  SpinInv'
<1> DEFINE s == todo[Cur(c)]  r == Tail(s)  u == cpu[c]
<1>1. s # <<>> /\ s[1][1] \in {"sti", "iret"}
  BY Here DEF Enable, Next1
<1>2. PathOf(Cur(c), s) /\ Agrees(u, s, Held(c)) /\ u \in Cpus /\ u.on = Cur(c)
      /\ lock \in [Locks -> CPUs \cup {FREE}] /\ Held(c) = {l \in Locks : lock[l] = c} /\ Held(c) \subseteq Locks
  BY Here
<1>3. /\ Locked(s) = Locked(r) /\ Fits(s[1], r) /\ PathOf(Cur(c), r)
      /\ ~Begins(r, "xchg") /\ ~Begins(r, "restore")
  <2>1. s[1][1] \in Others /\ s[1][1] \notin Switches
    BY <1>1, Kinds
  <2> HIDE DEF s
  <2> QED BY <1>1, <1>2, <2>1, Walk
<1>4. Locked(r) = {} /\ ~Handling(r)
  BY <1>1, <1>3 DEF Fits
<1>5. PICK u2 : u2 = [u EXCEPT !.interruptible = TRUE]
  OBVIOUS
<1>6. /\ cpu' = [cpu EXCEPT ![c] = u2] /\ todo' = [todo EXCEPT ![Cur(c)] = r]
      /\ lock' = lock /\ kept' = kept /\ panic' = panic
  BY <1>5 DEF Enable, Advance, SpinInv, Types
<1>7. u2 \in Cpus /\ u2.on = Cur(c) /\ u2.ncli = u.ncli
  BY <1>2, <1>5 DEF Cpus
<1>8. ~Begins(s, "xchg")
  BY <1>1 DEF Begins
<1> HIDE DEF s, r, u
<1>9. Agrees(u2, r, Held(c))
  <2>1. Held(c) = {} /\ u.ncli = Count(Held(c)) /\ Count(Held(c)) = 0
    <3>1. One(Begins(s, "xchg")) = 0
      BY <1>8 DEF One
    <3>2. Held(c) = {}
      BY <1>2, <1>3, <1>4 DEF Agrees
    <3>3. Count(Held(c)) = 0
      BY <3>2, <1>2, Counts
    <3> QED BY <1>2, <3>1, <3>2, <3>3 DEF Agrees
  <2> QED BY <2>1, <1>3, <1>4, <1>7 DEF Agrees, One
<1> QED BY <1>2, <1>3, <1>6, <1>7, <1>9, InPlace

LEMMA RestoreKeeps ==
  ASSUME SpinInv, Distinct, NEW c \in CPUs, restore(c)
  PROVE  SpinInv'
<1> DEFINE s == todo[Cur(c)]  r == Tail(s)  u == cpu[c]
<1>1. s # <<>> /\ s[1][1] = "restore"
  BY Here DEF restore, Next1
<1>2. PathOf(Cur(c), s) /\ Agrees(u, s, Held(c)) /\ u \in Cpus /\ u.on = Cur(c) /\ Cur(c) \in Tasks \cup CPUs
      /\ lock \in [Locks -> CPUs \cup {FREE}] /\ Held(c) = {l \in Locks : lock[l] = c} /\ Held(c) \subseteq Locks
  BY Here
<1>3. /\ Locked(s) = Locked(r) /\ Fits(s[1], r) /\ PathOf(Cur(c), r) /\ s[1][1] \notin Foreign(Cur(c))
      /\ (Handling(s) <=> Handling(r)) /\ ~Begins(r, "xchg") /\ ~Begins(r, "restore")
  BY <1>1, <1>2, Walk, Kinds
<1>4. Cur(c) \in Tasks
  BY <1>1, <1>3 DEF Foreign
<1>5. Handling(s) => ~kept[Cur(c)]
  BY <1>1, <1>4 DEF SpinInv, Begins
<1>6. kept[Cur(c)] \in BOOLEAN
  BY <1>4 DEF SpinInv, Types
<1>7. PICK b \in BOOLEAN : b = kept[Cur(c)]
  BY <1>6
<1>8. PICK u2 : u2 = [u EXCEPT !.intena = b]
  OBVIOUS
<1>9. /\ cpu' = [cpu EXCEPT ![c] = u2] /\ todo' = [todo EXCEPT ![Cur(c)] = r]
      /\ lock' = lock /\ kept' = kept /\ panic' = panic
  BY <1>7, <1>8 DEF restore, Advance, SpinInv, Types
<1>10. u2 \in Cpus /\ u2.on = Cur(c) /\ u2.ncli = u.ncli /\ u2.intena = b /\ u2.interruptible = u.interruptible
  BY <1>2, <1>8 DEF Cpus
<1>11. ~Begins(s, "xchg")
  BY <1>1 DEF Begins
<1> HIDE DEF s, r, u
<1>12. Agrees(u2, r, Held(c))
  BY <1>2, <1>3, <1>5, <1>7, <1>10, <1>11 DEF Agrees, One
<1> QED BY <1>2, <1>3, <1>9, <1>10, <1>12, InPlace

LEMMA UptimeKeeps ==
  ASSUME SpinInv, Distinct, NEW c \in CPUs, uptime(c)
  PROVE  SpinInv'
<1> DEFINE s == todo[Cur(c)]  r == Tail(s)  u == cpu[c]
<1>1. s # <<>> /\ s[1][1] = "uptime"
  BY Here DEF uptime, Next1
<1>2. PathOf(Cur(c), s) /\ Agrees(u, s, Held(c)) /\ u \in Cpus /\ u.on = Cur(c)
      /\ lock \in [Locks -> CPUs \cup {FREE}] /\ Held(c) = {l \in Locks : lock[l] = c}
  BY Here
<1>3. /\ Locked(s) = Locked(r) /\ Fits(s[1], r) /\ PathOf(Cur(c), r)
      /\ (Handling(s) <=> Handling(r)) /\ ~Begins(r, "xchg") /\ ~Begins(r, "restore")
  BY <1>1, <1>2, Walk, Kinds
<1>4. Locked(r) = {"ptable"}
  BY <1>1, <1>3 DEF Fits
<1>5. ~Begins(s, "xchg") /\ ~Begins(s, "restore")
  BY <1>1 DEF Begins
<1>6. /\ cpu' = [cpu EXCEPT ![c] = u]
      /\ lock' = lock /\ kept' = kept /\ panic' = panic
  BY DEF uptime, SpinInv, Types
<1>7. PICK w : /\ w = r \/ w = sys_uptime \o r
               /\ todo' = [todo EXCEPT ![Cur(c)] = w]
  BY DEF uptime, Advance
<1> HIDE DEF s, r, u
<1>8. /\ PathOf(Cur(c), w) /\ Locked(w) = Locked(r) /\ (Handling(w) <=> Handling(r))
      /\ ~Begins(w, "xchg") /\ ~Begins(w, "restore")
  <2>1. CASE w = r
    BY <2>1, <1>3
  <2>2. CASE w = sys_uptime \o r
    <3>1. w = <<Acquire("ticks"), Release("ticks")>> \o r
      BY <2>2 DEF sys_uptime
    <3>2. "ticks" \in Locks /\ "ticks" \notin Locked(r)
      BY <1>4, Names
    <3>3. "acquire" \notin Foreign(Cur(c)) /\ "release" \notin Foreign(Cur(c))
      BY DEF Foreign, Switches
    <3>4. Path(r) /\ Without(r, Foreign(Cur(c)))
      BY <1>3 DEF PathOf
    <3>5. Is(w, Acquire("ticks"), Locked(r), r) /\ Without(w, Foreign(Cur(c)))
      BY <1>3, <3>1, <3>2, <3>3, <3>4, Around
    <3> QED BY <3>5, Starts, Firsts DEF Is, PathOf
  <2> QED BY <1>7, <2>1, <2>2
<1>9. Agrees(u, w, Held(c))
  BY <1>2, <1>3, <1>5, <1>8 DEF Agrees, One
<1> QED BY <1>2, <1>6, <1>7, <1>8, <1>9, InPlace

LEMMA StartKeeps ==
  ASSUME SpinInv, Distinct, NEW c \in CPUs, Start(c)
  PROVE  SpinInv'
<1> DEFINE s == todo[Cur(c)]  u == cpu[c]
<1>1. s = <<>>
  BY DEF Start
<1>2. Agrees(u, s, Held(c)) /\ u \in Cpus /\ u.on = Cur(c) /\ Cur(c) \in Tasks \cup CPUs
      /\ lock \in [Locks -> CPUs \cup {FREE}] /\ Held(c) = {l \in Locks : lock[l] = c} /\ Held(c) \subseteq Locks
  BY Here
<1>3. PICK w \in IF Cur(c) \in Tasks THEN {sys_sleep, iderw_path}
                   ELSE {scheduler, scheduler_last, scheduler_stride, scheduler_idle} :
        todo' = [todo EXCEPT ![Cur(c)] = w]
  BY DEF Start
<1>4. Closed(w) /\ ~Handling(w) /\ w # <<>> /\ Without(w, Foreign(Cur(c)))
  <2>1. CASE Cur(c) \in Tasks
    <3>1. w \in {sys_sleep, iderw_path}
      BY <2>1, <1>3
    <3>2. PICK l \in {"ticks", "device"} : w = <<Acquire(l)>> \o sleep(l) \o <<Release(l)>>
      <4>1. CASE w = sys_sleep
        BY <4>1 DEF sys_sleep
      <4>2. CASE w = iderw_path
        BY <4>2 DEF iderw_path
      <4> QED BY <3>1, <4>1, <4>2
    <3>3. Is(w, Acquire(l), {}, <<>>) /\ Without(w, {"pick"})
      BY <3>2, Waiting
    <3> QED BY <3>3, <2>1, Starts, Firsts, Empty DEF Is, Foreign
  <2>2. CASE Cur(c) \notin Tasks
    BY <2>2, <1>3, Rounds DEF Foreign
  <2> QED BY <2>1, <2>2
<1>5. PathOf(Cur(c), w) /\ Locked(w) = {} /\ ~Begins(w, "xchg") /\ ~Begins(w, "restore")
  BY <1>4 DEF PathOf, Closed
<1>6. lock' = lock /\ cpu' = cpu /\ kept' = kept /\ panic' = panic
  BY DEF Start
<1>7. cpu' = [cpu EXCEPT ![c] = u]
  BY <1>6 DEF SpinInv, Types
<1>8. Agrees(u, w, Held(c))
  <2>1. Locked(s) = {} /\ ~Begins(s, "xchg")
    BY <1>1, Empty DEF Closed
  <2>2. Held(c) = {} /\ u.ncli = Count(Held(c)) /\ Count(Held(c)) = 0
    BY <2>1, <1>2, Counts DEF Agrees, One
  <2> HIDE DEF s, u
  <2> QED BY <2>2, <1>4, <1>5 DEF Agrees, One
<1> QED BY <1>2, <1>3, <1>5, <1>6, <1>7, <1>8, InPlace

LEMMA InterruptKeeps ==
  ASSUME SpinInv, Distinct, NEW c \in CPUs, Interrupt(c)
  PROVE  SpinInv'
<1> DEFINE s == todo[Cur(c)]  u == cpu[c]
<1>1. PathOf(Cur(c), s) /\ Agrees(u, s, Held(c)) /\ u \in Cpus /\ u.on = Cur(c) /\ Cur(c) \in Tasks \cup CPUs
      /\ lock \in [Locks -> CPUs \cup {FREE}] /\ Held(c) = {l \in Locks : lock[l] = c} /\ Held(c) \subseteq Locks
  BY Here
<1>2. u.interruptible
  BY DEF Interrupt
<1>3. PICK h \in timer(c) \cup {ideintr_path} : todo' = [todo EXCEPT ![Cur(c)] = h \o @]
  BY DEF Interrupt
<1>4. Closed(h) /\ h # <<>> /\ Without(h, Foreign(Cur(c)))
  BY Handlers
<1>5. PICK w : w = h \o s
  OBVIOUS
<1>6. PICK u2 : u2 = [u EXCEPT !.interruptible = FALSE]
  OBVIOUS
<1>7. /\ cpu' = [cpu EXCEPT ![c] = u2] /\ todo' = [todo EXCEPT ![Cur(c)] = w]
      /\ lock' = lock /\ kept' = kept /\ panic' = panic
  BY <1>3, <1>5, <1>6 DEF Interrupt, SpinInv, Types
<1>8. u2 \in Cpus /\ u2.on = Cur(c) /\ u2.ncli = u.ncli /\ u2.intena = u.intena /\ u2.interruptible = FALSE
  BY <1>1, <1>6 DEF Cpus
<1> HIDE DEF s, u
<1>9. Held(c) = {} /\ u.ncli = 0 /\ Locked(s) = {} /\ ~Handling(s) /\ ~Begins(s, "xchg") /\ Count(Held(c)) = 0
  <2>1. u.ncli = 0 /\ ~Handling(s) /\ Count(Held(c)) \in Nat /\ u.ncli = Count(Held(c)) + One(Begins(s, "xchg"))
    BY <1>1, <1>2, Counts DEF Agrees
  <2>2. Count(Held(c)) = 0 /\ ~Begins(s, "xchg")
    BY <2>1 DEF One
  <2> QED BY <2>1, <2>2, <1>1, Counts DEF Agrees
<1>10. ~Begins(s, "restore")
  <2>1. SUFFICES ASSUME Begins(s, "restore") PROVE FALSE
    OBVIOUS
  <2>2. s # <<>> /\ s[1][1] = "restore"
    BY <2>1 DEF Begins
  <2>3. Fits(s[1], Tail(s)) /\ Locked(s) = Locked(Tail(s))
    BY <2>2, <1>1, Walk, Kinds
  <2>4. Locked(s) = {"ptable"}
    BY <2>2, <2>3 DEF Fits
  <2> QED BY <2>4, <1>9
<1>11. Path(s) /\ Path(h) /\ Closed(s) /\ s \in Seq(Ops) /\ h \in Seq(Ops) /\ Without(s, Foreign(Cur(c)))
  BY <1>1, <1>4, <1>9, <1>10 DEF PathOf, Closed, Path
<1>12. Path(w)
  BY <1>5, <1>9, <1>11, PathConcat
<1>13. /\ Locked(w) = Locked(h) /\ (Begins(w, "restore") <=> Begins(h, "restore"))
       /\ (Begins(w, "xchg") <=> Begins(h, "xchg"))
  BY <1>5, <1>9, <1>10, <1>11, Concat
<1>14. Without(w, Foreign(Cur(c)))
  BY <1>4, <1>5, <1>11, WithoutConcat
<1>15. PathOf(Cur(c), w) /\ Locked(w) = {} /\ ~Begins(w, "xchg") /\ ~Begins(w, "restore")
  BY <1>4, <1>12, <1>13, <1>14 DEF PathOf, Closed
<1>16. Agrees(u2, w, Held(c))
  BY <1>8, <1>9, <1>15 DEF Agrees, One
<1> QED BY <1>1, <1>7, <1>8, <1>15, <1>16, InPlace

\* A thread that was switched out fits the CPU that has ptable.lock.
LEMMA Resumed ==
  ASSUME NEW s, Parked(s), NEW u, u.ncli = 1, ~u.interruptible
  PROVE  Agrees(u, s, {"ptable"})
<1>1. s[1] = Do("restore") \/ s[1] = Do("uptime") \/ s[1] = Release("ptable")
  BY DEF Parked
<1>2. ~Begins(s, "xchg")
  <2>1. s[1] = Do("restore") => s[1][1] = "restore"
    BY Firsts, Zenon
  <2>2. s[1] = Release("ptable") => s[1][1] = "release"
    BY Firsts, Zenon
  <2>3. s[1] = Do("uptime") => s[1][1] = "uptime"
    BY Firsts, Zenon
  <2> QED BY <1>1, <2>1, <2>2, <2>3 DEF Begins
<1>3. Count({"ptable"}) = 1
  BY DEF Count, One
<1> QED BY <1>2, <1>3 DEF Agrees, One, Parked

\* A CPU with ptable.lock goes from one kernel thread to another.
LEMMA Switching ==
  ASSUME SpinInv, Distinct, NEW c \in CPUs, NEW s, NEW t \in Tasks \cup {c},
         \/ t = Cur(c)
         \/ ~Running(t)
         \/ t = c,
         cpu' = [cpu EXCEPT ![c].on = t], todo' = [todo EXCEPT ![Cur(c)] = s],
         lock' = lock, panic' = panic, kept' \in [Tasks -> BOOLEAN],
         \A x \in Tasks : x # Cur(c) => kept'[x] = kept[x],
         PathOf(Cur(c), s), Parked(s) \/ t = Cur(c),
         Cur(c) \in Tasks /\ Handling(s) /\ Begins(s, "restore") => ~kept'[Cur(c)],
         cpu[c].ncli = 1, ~cpu[c].interruptible, Held(c) = {"ptable"},
         t = Cur(c) => Agrees(cpu[c], s, {"ptable"})
  PROVE  SpinInv'
<1> DEFINE o == Cur(c)
<1>1. Types /\ o \in Tasks \cup {c} /\ o \in Tasks \cup CPUs /\ t \in Tasks \cup CPUs
  BY DEF SpinInv, Types
<1>2. PICK u : u = [cpu[c] EXCEPT !.on = t]
  OBVIOUS
<1>3. u \in Cpus /\ u.on = t /\ u.ncli = 1 /\ ~u.interruptible /\ u.intena = cpu[c].intena
  BY <1>1, <1>2 DEF Types, Cpus
<1>4. cpu' = [cpu EXCEPT ![c] = u]
  BY <1>2
<1>5. cpu'[c] = u /\ (\A d \in CPUs \ {c} : cpu'[d] = cpu[d]) /\ cpu' \in [CPUs -> Cpus]
  BY <1>1, <1>3, <1>4 DEF Types
<1>6. todo'[o] = s /\ (\A x \in (Tasks \cup CPUs) \ {o} : todo'[x] = todo[x])
      /\ todo' = [x \in Tasks \cup CPUs |-> todo'[x]]
  BY <1>1 DEF Types
<1>7. \A d \in CPUs \ {c} : cpu'[d].on = Cur(d) /\ Cur(d) # o /\ Cur(d) # t /\ Cur(d) \in Tasks \cup {d}
  <2>1. TAKE d \in CPUs \ {c}
  <2>2. cpu'[d].on = Cur(d) /\ Cur(d) # o /\ Cur(d) \in Tasks \cup {d}
    BY <1>1, <1>5 DEF Types, Cur
  <2>3. Cur(d) # c
    BY <2>2 DEF Distinct
  <2>4. ~Running(t) => Cur(d) # t
    BY DEF Running
  <2> QED BY <2>2, <2>3, <2>4
<1>8. Types'
  <2>1. \A d \in CPUs : cpu'[d].on \in Tasks \cup {d}
    BY <1>3, <1>5, <1>7
  <2>2. \A d, e \in CPUs : cpu'[d].on = cpu'[e].on => d = e
    BY <1>1, <1>3, <1>5, <1>7 DEF Types, Cur
  <2> QED BY <2>1, <2>2, <1>1, <1>5, <1>6 DEF Types, Cur
<1>9. ASSUME NEW x \in Tasks \cup CPUs
      PROVE  PathOf(x, todo'[x]) /\ (~Running(x)' => Parked(todo'[x]))
  <2>1. CASE x = o
    <3>1. PathOf(x, todo'[x])
      BY <2>1, <1>6
    <3>2. t = o => Running(x)'
      BY <2>1, <1>3, <1>5 DEF Running, Cur
    <3> QED BY <2>1, <3>1, <3>2, <1>6
  <2>2. CASE x # o
    <3>1. PathOf(x, todo'[x])
      BY <2>2, <1>6 DEF SpinInv
    <3>2. Running(x) => Running(x)'
      <4>1. HAVE Running(x)
      <4>2. PICK d \in CPUs : Cur(d) = x
        BY <4>1 DEF Running
      <4>3. d # c
        BY <4>2, <2>2
      <4> QED BY <4>2, <4>3, <1>7 DEF Running, Cur
    <3>3. ~Running(x) => Parked(todo[x])
      BY DEF SpinInv
    <3> QED BY <3>1, <3>2, <3>3, <2>2, <1>6
  <2> QED BY <2>1, <2>2
<1>10. ASSUME NEW x \in Tasks, Handling(todo'[x]), Begins(todo'[x], "restore") PROVE ~kept'[x]
  <2>1. CASE x = o
    BY <2>1, <1>6, <1>10
  <2>2. CASE x # o
    BY <2>2, <1>6, <1>10 DEF SpinInv
  <2> QED BY <2>1, <2>2
<1>11. ASSUME NEW d \in CPUs PROVE Agrees(cpu'[d], todo'[cpu'[d].on], {l \in Locks : lock'[l] = d})
  <2>1. CASE d = c
    <3>1. {l \in Locks : lock'[l] = c} = {"ptable"}
      BY DEF Held
    <3>2. CASE t = o
      <4>1. Agrees(cpu[c], s, {"ptable"})
        BY <3>2
      <4>2. cpu[c].ncli = u.ncli /\ cpu[c].intena = u.intena
        BY <1>3
      <4>3. Agrees(u, s, {"ptable"})
        BY <4>1, <4>2, <1>3 DEF Agrees
      <4>4. cpu'[d] = u /\ todo'[cpu'[d].on] = s /\ {l \in Locks : lock'[l] = d} = {"ptable"}
        <5>1. cpu'[d] = u
          BY <2>1, <1>5
        <5>2. cpu'[d].on = o
          BY <5>1, <3>2, <1>3
        <5>3. todo'[cpu'[d].on] = s
          BY <5>2, <1>6
        <5> QED BY <2>1, <3>1, <5>1, <5>3
      <4> QED BY <4>3, <4>4
    <3>3. CASE t # o
      <4>1. ~Running(t)
        <5>1. CASE t = c
          <6>1. ASSUME NEW e \in CPUs, Cur(e) = c PROVE FALSE
            <7>1. e # c
              BY <3>3, <5>1, <6>1
            <7> QED BY <7>1, <5>1, <6>1, <1>7
          <6> QED BY <5>1, <6>1 DEF Running
        <5> QED BY <3>3, <5>1
      <4>2. Parked(todo[t]) /\ todo'[t] = todo[t]
        BY <3>3, <4>1, <1>1, <1>6 DEF SpinInv
      <4>3. Agrees(u, todo[t], {"ptable"})
        BY <4>2, <1>3, Resumed
      <4> QED BY <2>1, <3>1, <4>2, <4>3, <1>3, <1>5
    <3> QED BY <3>2, <3>3
  <2>2. CASE d # c
    <3>1. {l \in Locks : lock'[l] = d} = Held(d)
      BY DEF Held
    <3>2. cpu'[d] = cpu[d] /\ todo'[cpu'[d].on] = todo[Cur(d)]
      BY <2>2, <1>1, <1>5, <1>6, <1>7
    <3> QED BY <3>1, <3>2 DEF SpinInv
  <2> QED BY <2>1, <2>2
<1>12. ~panic'
  BY DEF SpinInv
<1> QED BY <1>8, <1>9, <1>10, <1>11, <1>12 DEF SpinInv, Held, Cur

\* With ptable.lock and nothing else, sched() finds what it asks for.
LEMMA OnlyTable ==
  ASSUME SpinInv, NEW c \in CPUs, todo[Cur(c)] # <<>>, todo[Cur(c)][1][1] \in Switches \cup {"restore", "pick"}
  PROVE  /\ Held(c) = {"ptable"} /\ cpu[c].ncli = 1 /\ ~cpu[c].interruptible /\ lock["ptable"] = c
         /\ Locked(Tail(todo[Cur(c)])) = {"ptable"}
<1> DEFINE s == todo[Cur(c)]  u == cpu[c]
<1>1. PathOf(Cur(c), s) /\ Agrees(u, s, Held(c)) /\ Held(c) = {l \in Locks : lock[l] = c} /\ Held(c) \subseteq Locks
  BY Here
<1>2. s[1][1] \in Others /\ s[1][1] # "xchg"
  BY Kinds
<1> HIDE DEF s, u
<1>3. Locked(s) = Locked(Tail(s)) /\ Fits(s[1], Tail(s)) /\ ~Begins(s, "xchg")
  BY <1>1, <1>2, Walk DEF s, Begins
<1>4. Locked(Tail(s)) = {"ptable"}
  BY <1>3 DEF Fits, s
<1>5. Held(c) = {"ptable"}
  BY <1>1, <1>3, <1>4 DEF Agrees
<1>6. u.ncli = 1
  <2>1. One(Begins(s, "xchg")) = 0
    BY <1>3 DEF One
  <2>2. Count(Held(c)) = 1
    BY <1>5 DEF Count, One
  <2> QED BY <1>1, <2>1, <2>2 DEF Agrees
<1>7. ~u.interruptible
  BY <1>1, <1>6 DEF Agrees
<1> QED BY <1>1, <1>4, <1>5, <1>6, <1>7 DEF s, u

LEMMA SwtchKeeps ==
  ASSUME SpinInv, Distinct, NEW c \in CPUs, swtch(c)
  PROVE  SpinInv'
<1> DEFINE s == todo[Cur(c)]  r == Tail(s)  u == cpu[c]
<1>1. s # <<>> /\ s[1][1] \in Switches /\ Next1(c)[1] \in Switches
  BY Here, Kinds DEF swtch, Next1, Switches
<1>2. PathOf(Cur(c), s) /\ Agrees(u, s, Held(c)) /\ u \in Cpus /\ Cur(c) \in Tasks \cup CPUs
  BY Here
<1>3. /\ Fits(s[1], r) /\ PathOf(Cur(c), r) /\ s[1][1] \notin Foreign(Cur(c)) /\ (Handling(s) <=> Handling(r))
  <2>1. s[1][1] # "iret"
    BY <1>1 DEF Switches
  <2> QED BY <1>1, <1>2, <2>1, Walk
<1>4. Cur(c) \in Tasks
  BY <1>1, <1>3 DEF Foreign
<1>5. Held(c) = {"ptable"} /\ u.ncli = 1 /\ ~u.interruptible /\ lock["ptable"] = c /\ Locked(r) = {"ptable"}
  BY <1>1, OnlyTable
<1>6. r # <<>> /\ r[1] = Do("restore") /\ Begins(r, "restore")
  <2>1. r # <<>> /\ r[1] = Do("restore")
    BY <1>1, <1>3 DEF Fits
  <2>2. r[1][1] = "restore"
    BY <2>1, Firsts, Zenon
  <2> QED BY <2>1, <2>2 DEF Begins
<1>7. Parked(r)
  BY <1>5, <1>6 DEF Parked
<1>8. Agrees(u, r, {"ptable"})
  BY <1>5, <1>7, Resumed
<1>9. PICK t \in Tasks \cup {c} : (t = Cur(c) \/ ~Running(t) \/ t = c) /\ cpu' = [cpu EXCEPT ![c].on = t]
  <2>1. \/ Switch(c, c) \/ Switch(c, Cur(c))
        \/ \E t \in Tasks : Ready(t) /\ Switch(c, t)
    BY <1>5 DEF swtch
  <2>2. CASE Switch(c, c)
    BY <2>2 DEF Switch
  <2>3. CASE Switch(c, Cur(c))
    BY <2>3, <1>4 DEF Switch
  <2>4. CASE \E t \in Tasks : Ready(t) /\ Switch(c, t)
    BY <2>4 DEF Switch, Ready, Running
  <2> QED BY <2>1, <2>2, <2>3, <2>4
<1>10. /\ kept' = [kept EXCEPT ![Cur(c)] = u.intena] /\ todo' = [todo EXCEPT ![Cur(c)] = r]
       /\ lock' = lock /\ panic' = panic
  BY <1>5 DEF swtch, Advance, SpinInv, Types
<1>11. kept \in [Tasks -> BOOLEAN] /\ u.intena \in BOOLEAN
  BY <1>2 DEF SpinInv, Types, Cpus
<1>12. kept' \in [Tasks -> BOOLEAN] /\ kept'[Cur(c)] = u.intena /\ \A x \in Tasks : x # Cur(c) => kept'[x] = kept[x]
  BY <1>4, <1>10, <1>11
<1>13. Handling(r) => ~u.intena
  <2>1. ~Begins(s, "restore")
    BY <1>1 DEF Begins, Switches
  <2> HIDE DEF s, r, u
  <2> QED BY <2>1, <1>2, <1>3, <1>5 DEF Agrees
<1> HIDE DEF s, r
<1> QED BY <1>3, <1>5, <1>7, <1>8, <1>9, <1>10, <1>12, <1>13, Switching

LEMMA PickKeeps ==
  ASSUME SpinInv, Distinct, NEW c \in CPUs, pick(c)
  PROVE  SpinInv'
<1> DEFINE s == todo[Cur(c)]  r == Tail(s)  u == cpu[c]
<1>1. s # <<>> /\ s[1][1] = "pick"
  BY Here DEF pick, Next1
<1>2. PathOf(Cur(c), s) /\ Agrees(u, s, Held(c)) /\ u \in Cpus /\ Cur(c) \in Tasks \cup CPUs
  BY Here
<1>3. /\ Fits(s[1], r) /\ PathOf(Cur(c), r) /\ s[1][1] \notin Foreign(Cur(c)) /\ ~Begins(r, "restore")
  BY <1>1, <1>2, Walk, Kinds
<1>4. Cur(c) \notin Tasks /\ Cur(c) = c
  BY <1>1, <1>3 DEF Foreign, SpinInv, Types
<1>5. Held(c) = {"ptable"} /\ u.ncli = 1 /\ ~u.interruptible /\ Locked(r) = {"ptable"}
  BY <1>1, OnlyTable
<1>6. r # <<>> /\ r[1] = Do("uptime") /\ ~Handling(r)
  BY <1>1, <1>3 DEF Fits
<1>7. Parked(r)
  BY <1>5, <1>6 DEF Parked
<1>8. Agrees(u, r, {"ptable"})
  BY <1>5, <1>7, Resumed
<1>9. PICK t \in Tasks \cup {c} : (t = Cur(c) \/ ~Running(t) \/ t = c) /\ cpu' = [cpu EXCEPT ![c].on = t]
  <2>1. CASE \E t \in Tasks : Ready(t) /\ Switch(c, t)
    BY <2>1 DEF Switch, Ready, Running
  <2>2. CASE UNCHANGED cpu
    <3>1. cpu' = [cpu EXCEPT ![c].on = Cur(c)]
      BY <2>2 DEF Cur, SpinInv, Types, Cpus
    <3> QED BY <3>1, <1>4
  <2> QED BY <2>1, <2>2 DEF pick
<1>10. /\ kept' = kept /\ todo' = [todo EXCEPT ![Cur(c)] = r] /\ lock' = lock /\ panic' = panic
  BY DEF pick, Advance, SpinInv, Types
<1>11. kept' \in [Tasks -> BOOLEAN]
  BY <1>10 DEF SpinInv, Types
<1> HIDE DEF s, r
<1> QED BY <1>3, <1>4, <1>5, <1>7, <1>8, <1>9, <1>10, <1>11, Switching

\* At first the processes are about to leave forkret, and the CPUs have taken no lock.
LEMMA Begun ==
  ASSUME SpinInit, Distinct PROVE SpinInv
<1>1. /\ lock = [l \in Locks |-> FREE]
      /\ cpu = [c \in CPUs |-> [on |-> c, ncli |-> 0, intena |-> FALSE, interruptible |-> FALSE]]
      /\ todo = [t \in Tasks \cup CPUs |-> IF t \in Tasks THEN forkret ELSE <<>>]
      /\ kept = [t \in Tasks |-> FALSE] /\ panic = FALSE
  BY DEF SpinInit
<1>2. \A c \in CPUs : Cur(c) = c /\ cpu[c].ncli = 0 /\ cpu[c].interruptible = FALSE /\ cpu[c].intena = FALSE
  BY <1>1 DEF Cur
<1>3. Types
  <2>1. cpu \in [CPUs -> Cpus]
    BY <1>1 DEF Cpus
  <2>2. lock \in [Locks -> CPUs \cup {FREE}] /\ kept \in [Tasks -> BOOLEAN]
    BY <1>1
  <2>3. todo = [t \in Tasks \cup CPUs |-> todo[t]]
    BY <1>1
  <2> QED BY <1>2, <2>1, <2>2, <2>3 DEF Types
<1>4. \A t \in Tasks \cup CPUs : todo[t] = IF t \in Tasks THEN forkret ELSE <<>>
  BY <1>1
<1>5. ASSUME NEW t \in Tasks \cup CPUs
      PROVE  PathOf(t, todo[t]) /\ (~Running(t) => Parked(todo[t])) /\ ~(Handling(todo[t]) /\ Begins(todo[t], "restore"))
  <2>1. CASE t \in Tasks
    <3>1. todo[t] = forkret /\ Foreign(t) = {"pick"}
      BY <2>1, <1>4 DEF Foreign
    <3>2. PathOf(t, forkret) /\ Parked(forkret)
      BY <3>1, Forked DEF PathOf, Parked
    <3> QED BY <3>1, <3>2, Forked
  <2>2. CASE t \notin Tasks
    <3>1. todo[t] = <<>> /\ Running(t)
      BY <2>2, <1>2, <1>4 DEF Running
    <3> QED BY <3>1, Empty DEF PathOf, Closed, Without, Begins
  <2> QED BY <2>1, <2>2
<1>6. ASSUME NEW c \in CPUs PROVE Agrees(cpu[c], todo[Cur(c)], Held(c))
  <2>1. todo[Cur(c)] = <<>>
    BY <1>2, <1>4 DEF Distinct
  <2>2. Held(c) = {}
    BY <1>1 DEF Held, Distinct
  <2>3. Locked(<<>>) = {} /\ ~Handling(<<>>) /\ ~Begins(<<>>, "xchg")
    BY Empty DEF Closed, Begins
  <2>4. Count({}) = 0
    BY Counts
  <2> QED BY <2>1, <2>2, <2>3, <2>4, <1>2 DEF Agrees, One
<1> QED BY <1>1, <1>3, <1>5, <1>6 DEF SpinInv

LEMMA StepKeeps ==
  ASSUME SpinInv, Distinct, SpinNext PROVE SpinInv'
<1>1. PICK c \in CPUs : \/ acquire(c) \/ xchg(c) \/ release(c) \/ Enable(c) \/ swtch(c)
                        \/ restore(c) \/ pick(c) \/ uptime(c) \/ Start(c) \/ Interrupt(c)
  BY DEF SpinNext
<1>2. CASE acquire(c)
  BY <1>2, AcquireKeeps
<1>3. CASE xchg(c)
  BY <1>3, XchgKeeps
<1>4. CASE release(c)
  BY <1>4, ReleaseKeeps
<1>5. CASE Enable(c)
  BY <1>5, EnableKeeps
<1>6. CASE swtch(c)
  BY <1>6, SwtchKeeps
<1>7. CASE restore(c)
  BY <1>7, RestoreKeeps
<1>8. CASE pick(c)
  BY <1>8, PickKeeps
<1>9. CASE Start(c)
  BY <1>9, StartKeeps
<1>10. CASE Interrupt(c)
  BY <1>10, InterruptKeeps
<1>11. CASE uptime(c)
  BY <1>11, UptimeKeeps
<1> QED BY <1>1, <1>2, <1>3, <1>4, <1>5, <1>6, <1>7, <1>8, <1>9, <1>10, <1>11

LEMMA StutterKeeps ==
  ASSUME SpinInv, UNCHANGED spinvars PROVE SpinInv'
<1>1. lock' = lock /\ cpu' = cpu /\ todo' = todo /\ kept' = kept /\ panic' = panic
  BY DEF spinvars
<1>2. Types'
  BY <1>1 DEF SpinInv, Types, Cur
<1>3. \A t : Running(t)' <=> Running(t)
  BY <1>1 DEF Running, Cur
<1> QED BY <1>1, <1>2, <1>3 DEF SpinInv, Cur, Held

\* Interrupts can come only when the CPU has no lock and its thread is in no handler.
LEMMA InvUsed ==
  ASSUME SpinInv PROVE LocksUsedRight
<1>1. ASSUME NEW c \in CPUs, cpu[c].interruptible
      PROVE  /\ Held(c) = {} /\ cpu[c].ncli = 0
             /\ \A i \in DOMAIN todo[Cur(c)] : todo[Cur(c)][i] # Do("iret")
  <2> DEFINE s == todo[Cur(c)]
  <2>1. Agrees(cpu[c], s, Held(c)) /\ PathOf(Cur(c), s)
    BY Here
  <2>2. cpu[c].ncli = 0 /\ ~Handling(s)
    BY <2>1, <1>1 DEF Agrees
  <2>3. Held(c) = {}
    <3>1. Held(c) \subseteq Locks
      BY DEF Held
    <3>2. Count(Held(c)) \in Nat /\ One(Begins(s, "xchg")) \in Nat /\ cpu[c].ncli = Count(Held(c)) + One(Begins(s, "xchg"))
      BY <3>1, <2>1, Counts DEF Agrees, One
    <3>3. Count(Held(c)) = 0
      BY <3>2, <2>2
    <3> QED BY <3>1, <3>3, Counts
  <2>4. ASSUME NEW i \in DOMAIN s, s[i] = Do("iret") PROVE FALSE
    <3>1. i \in 1 .. Len(s)
      BY <2>1 DEF PathOf, Path
    <3>2. s[i][1] = "iret"
      BY <2>4, Firsts, Zenon
    <3> QED BY <3>1, <3>2, <2>2 DEF Handling
  <2> QED BY <2>2, <2>3, <2>4
<1> QED BY <1>1 DEF LocksUsedRight, InterruptsOff, SpinInv

\* On any CPUs and for any processes interrupts are off while a CPU has or wants a
\* spinlock (acquire, release, pushcli and popcli) and until a handler returns, also over
\* the switches of sched() and scheduler(), and no panic of theirs is reached.
THEOREM LocksAlwaysUsedRight == Distinct /\ SpinSpec => []LocksUsedRight
<1>1. Distinct /\ SpinInit => SpinInv
  BY Begun
<1>2. Distinct /\ SpinInv /\ [SpinNext]_spinvars => SpinInv'
  BY StepKeeps, StutterKeeps
<1>3. SpinInv => LocksUsedRight
  BY InvUsed
<1>4. Distinct => Distinct'
  BY DEF Distinct
<1> QED BY <1>1, <1>2, <1>3, <1>4, PTL DEF SpinSpec
=============================================================================
