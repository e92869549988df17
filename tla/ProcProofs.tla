------------------------------ MODULE ProcProofs ------------------------------
(***************************************************************************)
(* For any numbers of slots, CPUs and pids, and programs that create no    *)
(* threads (Unthreaded): the table is sound, nobody sleeps in wait() over  *)
(* an exited child, and fork, exit, kill, exec and wait implement          *)
(* Lifecycle.  A kill arrives under two more restrictions (Plain).         *)
(*                                                                         *)
(* The argument: without threads a process is a ring of one, so that walks *)
(* along rings (Walk, Siblings, KillSet, NextRunnable) have a known end    *)
(* (Alone, RingAlone), and with ptable.lock held across a system call each *)
(* of them is one step on the table.  What a process that is not moved may *)
(* count on is in Untouched; each action is a lemma <action>Keeps.         *)
(***************************************************************************)
EXTENDS MCProc, FiniteSetTheorems, WellFoundedInduction, TLAPS

Roles == {"init", "main", "thread"}
\* Programs that create no threads,
Unthreaded == May \subseteq {"fork", "exit", "wait", "kill", "exec", "read", "nomem"} \X Roles
\* and that neither sleep in a device nor run out of memory.
Plain == May \subseteq {"fork", "exit", "wait", "kill", "exec"} \X Roles

Procs == [state : {"UNUSED", "EMBRYO", "SLEEPING", "RUNNABLE", "RUNNING", "ZOMBIE"},
          pid : 0 .. MaxPid, idx : Slots, parent : Slots \cup {NULL},
          join : Slots \cup {NULL}, chan : Slots \cup {NULL, IO},
          killed : BOOLEAN, pgdir : PageTables \cup {0}, thid : 0 .. MaxThid,
          nextid : 0 .. MaxThid, mainth : Slots \cup {NULL},
          nextth : Slots \cup {NULL}, prevth : Slots \cup {NULL},
          recentth : Slots \cup {NULL}, runblenum : 0 .. NPROC]
Started(r) == r.state \in {"SLEEPING", "RUNNABLE", "RUNNING"}

\* A slot with a pid is a process of its own main thread, alone in its ring.
Alone(r, p) ==
  /\ r.state # "UNUSED" => r.pid # 0
  /\ r.pid # 0 => r.mainth = p /\ r.nextth = p /\ r.recentth = p /\ r.idx = p
  /\ r.runblenum = IF r.state = "RUNNABLE" THEN 1 ELSE 0
Numbered ==
  /\ \A p \in Slots : proc[p].pid < nextpid
  /\ \A p, q \in Slots : proc[p].pid = proc[q].pid => \/ p = q \/ proc[p].state = "UNUSED"
                                                       \/ proc[q].state = "UNUSED"
OnCpus ==
  /\ OneCpu
  /\ \A c \in CPUS : cpu[c].proc # NULL => cpu[c].mainth = cpu[c].proc
Places == {"user", "sys", "fork", "poll", "nap", "asleep", "wait", "exit", "closing"}
PlaceAt(p) ==
  /\ pc[p] \in Places
  /\ ~Started(proc[p]) => pc[p] = "user"
  /\ proc[p].state = "SLEEPING" => \/ pc[p] = "wait" /\ proc[p].chan = p
                                   \/ pc[p] \in {"asleep", "closing"} /\ proc[p].chan = IO
  /\ pc[p] \in {"exit", "closing"} => p # initproc
  /\ pc[p] = "fork" => arg[p] \in Slots /\ proc[arg[p]].state = "EMBRYO"
                       /\ \A q \in Slots : pc[q] = "fork" /\ arg[q] = arg[p] => p = q
Parented(p) ==
  /\ proc[p].parent # NULL => proc[p].parent # p /\ Started(proc[proc[p].parent])
  /\ proc[p].state \in {"UNUSED", "EMBRYO"} \/ p = initproc => proc[p].parent = NULL
TableInv ==
  /\ Numbered /\ Started(proc[initproc]) /\ proc[initproc].pid = 1 /\ NoLostExit
  /\ \A p \in Slots : Alone(proc[p], p) /\ PlaceAt(p) /\ Parented(p)
ProcInv == TypeOK /\ OnCpus /\ TableInv

\* With plain programs.
SignalledAt(p) ==
  /\ proc[p].state = "UNUSED" => proc[p].pid = 0
  /\ proc[p].killed => proc[p].pid \in signalled /\ (proc[p].state = "SLEEPING" => pc[p] = "closing")
  /\ pc[p] \notin {"poll", "nap", "asleep"}
KillsInv == \A p \in Slots : SignalledAt(p)

-----------------------------------------------------------------------------
LEMMA FirstIn ==
  ASSUME NEW N, N \subseteq Nat, N # {}
  PROVE  FirstOf(N) \in N
<1> DEFINE R == OpToRel(<, Nat)
<1>1. IsWellFoundedOn(R, Nat)
  BY NatLessThanWellFounded
<1>2. \A x, y \in Nat : <<y, x>> \in R <=> y < x
  BY DEF OpToRel
<1> HIDE DEF R
<1>3. PICK x \in N : \A y \in N : ~(<<y, x>> \in R)
  BY <1>1, WFMin
<1>4. \A y \in N : x <= y
  <2>1. \A y \in N : x \in Nat /\ y \in Nat /\ ~(y < x)
    BY <1>2, <1>3
  <2> QED BY <2>1
<1> QED BY <1>3, <1>4 DEF FirstOf

\* A property of 0 that passes from each number to the next.
LEMMA Upward ==
  ASSUME NEW n \in Nat, NEW f, NEW v, f[0] = v, \A k \in 1 .. n : f[k - 1] = v => f[k] = v
  PROVE  \A k \in 0 .. n : f[k] = v
<1> DEFINE N == {k \in 0 .. n : f[k] # v}
<1>1. SUFFICES ASSUME N # {} PROVE FALSE
  OBVIOUS
<1>2. N \subseteq Nat
  OBVIOUS
<1> DEFINE R == OpToRel(<, Nat)
<1>3. IsWellFoundedOn(R, Nat)
  BY NatLessThanWellFounded
<1>4. \A x, y \in Nat : <<y, x>> \in R <=> y < x
  BY DEF OpToRel
<1> HIDE DEF R
<1>5. PICK k \in N : \A y \in N : ~(<<y, k>> \in R)
  BY <1>1, <1>2, <1>3, WFMin
<1>6. k \in 1 .. n /\ k - 1 \in 0 .. n /\ k - 1 < k
  BY <1>5
<1>7. k \in Nat /\ k - 1 \in Nat
  BY <1>6
<1>8. k - 1 \notin N
  BY <1>4, <1>5, <1>6, <1>7
<1>9. f[k - 1] = v
  BY <1>6, <1>8
<1> QED BY <1>5, <1>6, <1>9

LEMMA Sizes == ProcAssumption => /\ NPROC \in Nat /\ NPROC > 0 /\ Slots \subseteq Nat /\ initproc \in Slots
                                 /\ NULL \notin Slots /\ IO \notin Slots /\ IO # NULL
                                 /\ PageTables \subseteq Nat
  BY DEF ProcAssumption, Slots, NULL, initproc, IO, PageTables

\* A ring of one.
LEMMA WalkAlone ==
  ASSUME ProcAssumption, NEW t, NEW p \in Slots, t[p].nextth = p
  PROVE  \A k \in 0 .. NPROC : Walk(t, p)[k] = p
<1> DEFINE Next1(w, k) == IF k = 0 THEN p
                          ELSE LET q == w[k - 1]
                               IN  IF q = NULL \/ (k > 1 /\ q = p) THEN q ELSE t[q].nextth
           w == Walk(t, p)
           g == [k \in 0 .. NPROC |-> p]
<1>1. g = [k \in 0 .. NPROC |-> Next1(g, k)]
  BY Sizes
<1>2. w = [k \in 0 .. NPROC |-> Next1(w, k)]
  BY <1>1 DEF Walk
<1> HIDE DEF w
<1>3. NPROC \in Nat
  BY Sizes
<1>4. w[0] = p
  BY <1>2, <1>3
<1>5. ASSUME NEW k \in 1 .. NPROC, w[k - 1] = p PROVE w[k] = p
  BY <1>2, <1>3, <1>5, Sizes
<1>6. \A k \in 1 .. NPROC : w[k - 1] = p => w[k] = p
  BY <1>5
<1> HIDE DEF g, Next1
<1>7. \A k \in 0 .. NPROC : w[k] = p
  BY <1>3, <1>4, <1>6, Upward
<1> QED BY <1>7 DEF w

LEMMA RingAlone ==
  ASSUME ProcAssumption, NEW t, NEW p \in Slots, t[p].nextth = p
  PROVE  /\ Siblings(t, p) = {} /\ Closes(t, p) /\ KillSet(t, p) = {p}
         /\ NextRunnable(t, p) = IF t[p].state = "RUNNABLE" THEN p ELSE NULL
<1>1. \A k \in 0 .. NPROC : Walk(t, p)[k] = p
  BY WalkAlone
<1>2. NPROC \in 1 .. NPROC /\ 1 .. NPROC \subseteq 0 .. NPROC /\ p # NULL
  BY Sizes
<1>3. Siblings(t, p) = {} /\ Closes(t, p)
  BY <1>1, <1>2 DEF Siblings, Closes
<1> DEFINE K == {k \in 1 .. NPROC : Walk(t, p)[k] # NULL /\ t[Walk(t, p)[k]].state = "RUNNABLE"}
<1>4. CASE t[p].state = "RUNNABLE"
  <2>1. K # {} /\ K \subseteq Nat
    BY <1>1, <1>2, <1>4
  <2>2. FirstOf(K) \in K
    BY <2>1, FirstIn
  <2> QED BY <2>1, <2>2, <1>1, <1>2, <1>3, <1>4 DEF NextRunnable, KillSet
<1>5. CASE t[p].state # "RUNNABLE"
  <2>1. K = {}
    BY <1>1, <1>2, <1>5
  <2> QED BY <2>1, <1>3, <1>5 DEF NextRunnable, KillSet
<1> QED BY <1>4, <1>5

-----------------------------------------------------------------------------
(* What the operators on the table do to a process of one thread. *)
Kept(r, s) ==
  /\ s \in Procs
  /\ s.pid = r.pid /\ s.idx = r.idx /\ s.parent = r.parent /\ s.mainth = r.mainth
  /\ s.nextth = r.nextth /\ s.recentth = r.recentth
Counted(r) == r.runblenum = IF r.state = "RUNNABLE" THEN 1 ELSE 0
Tables == [Slots -> Procs]

LEMMA Rest == ASSUME NEW r \in Procs PROVE Kept(r, r)
  BY DEF Kept

LEMMA RunningAlone ==
  ASSUME ProcAssumption, NEW t \in Tables, NEW p \in Slots, t[p].recentth = p, t[p].runblenum = 1
  PROVE  /\ Running(t, p, p) \in Tables
         /\ \A q \in Slots \ {p} : Running(t, p, p)[q] = t[q]
         /\ Kept(t[p], Running(t, p, p)[p])
         /\ Running(t, p, p)[p].state = "RUNNING"
         /\ Running(t, p, p)[p].runblenum = 0
         /\ Running(t, p, p)[p].killed = t[p].killed
         /\ Running(t, p, p)[p].chan = t[p].chan
         /\ Running(t, p, p)[p].pgdir = t[p].pgdir
<1> DEFINE u == Running(t, p, p)
<1>1. ASSUME NEW q \in Slots \ {p} PROVE u[q] = t[q]
  <2>1. t[q] \in Procs
    BY DEF Tables
  <2>2. u[q] = [t[q] EXCEPT !.state = t[q].state, !.recentth = t[q].recentth, !.runblenum = t[q].runblenum]
    BY DEF Running
  <2> QED BY <2>1, <2>2 DEF Procs
<1>2. t[p] \in Procs /\ 0 \in 0 .. NPROC
  BY Sizes DEF Tables
<1>3. u[p] = [t[p] EXCEPT !.state = "RUNNING", !.recentth = p, !.runblenum = 0]
  <2>1. u[p] = [t[p] EXCEPT !.state = "RUNNING", !.recentth = p, !.runblenum = t[p].runblenum - 1]
    BY DEF Running
  <2>2. t[p].runblenum - 1 = 0
    OBVIOUS
  <2> QED BY <2>1, <2>2
<1>4. /\ Kept(t[p], u[p]) /\ u[p].state = "RUNNING" /\ u[p].runblenum = 0
      /\ u[p].killed = t[p].killed /\ u[p].chan = t[p].chan /\ u[p].pgdir = t[p].pgdir
  <2> DEFINE r == t[p]
             v == u[p]
  <2>1. r \in Procs /\ 0 \in 0 .. NPROC /\ r.recentth = p /\ v = [r EXCEPT !.state = "RUNNING", !.recentth = p, !.runblenum = 0]
    BY <1>2, <1>3
  <2> HIDE DEF r, v
  <2>2. /\ Kept(r, v) /\ v.state = "RUNNING" /\ v.runblenum = 0
        /\ v.killed = r.killed /\ v.chan = r.chan /\ v.pgdir = r.pgdir
    <3>1. v \in Procs
      <4>1. p \in Slots
        OBVIOUS
      <4> DEFINE r1 == [r EXCEPT !.state = "RUNNING"]
                 r2 == [r1 EXCEPT !.recentth = p]
      <4>2. r1 \in Procs
        BY ONLY <2>1 DEF Procs
      <4> HIDE DEF r1
      <4>3. r2 \in Procs
        BY ONLY <4>1, <4>2 DEF Procs
      <4>4. v = [r2 EXCEPT !.runblenum = 0]
        BY ONLY <2>1 DEF Procs, r1
      <4> HIDE DEF r2
      <4> QED BY ONLY <2>1, <4>3, <4>4 DEF Procs
    <3>2. v.pid = r.pid /\ v.idx = r.idx /\ v.parent = r.parent /\ v.mainth = r.mainth
      BY <2>1 DEF Procs
    <3>3. v.nextth = r.nextth /\ v.recentth = r.recentth
      BY <2>1 DEF Procs
    <3>4. /\ v.state = "RUNNING" /\ v.runblenum = 0
          /\ v.killed = r.killed /\ v.chan = r.chan /\ v.pgdir = r.pgdir
      BY <2>1 DEF Procs
    <3> QED BY <3>1, <3>2, <3>3, <3>4 DEF Kept
  <2> QED BY <2>2 DEF r, v
<1>5. DOMAIN u = Slots /\ u = [q \in Slots |-> u[q]]
  BY DEF Running
<1>6. \A q \in Slots : u[q] \in Procs
  BY <1>1, <1>4 DEF Kept, Tables
<1> QED BY <1>1, <1>4, <1>5, <1>6 DEF Tables

LEMMA MakeRunnableAlone ==
  ASSUME ProcAssumption, NEW t \in Tables, NEW p \in Slots, t[p].mainth = p, t[p].runblenum = 0
  PROVE  /\ MakeRunnable(t, p) \in Tables
         /\ \A q \in Slots \ {p} : MakeRunnable(t, p)[q] = t[q]
         /\ Kept(t[p], MakeRunnable(t, p)[p])
         /\ MakeRunnable(t, p)[p].state = "RUNNABLE"
         /\ MakeRunnable(t, p)[p].runblenum = 1
         /\ MakeRunnable(t, p)[p].killed = t[p].killed
         /\ MakeRunnable(t, p)[p].chan = t[p].chan
         /\ MakeRunnable(t, p)[p].pgdir = t[p].pgdir
<1> DEFINE u == MakeRunnable(t, p)
<1>1. t[p] \in Procs /\ 1 \in 0 .. NPROC
  BY Sizes DEF Tables
<1>2. \A q \in Slots \ {p} : u[q] = t[q]
  BY DEF MakeRunnable, Tables
<1>3. u[p] = [t[p] EXCEPT !.state = "RUNNABLE", !.runblenum = 1]
  <2> DEFINE a == [t EXCEPT ![p].state = "RUNNABLE"]
  <2>1. a[p] = [t[p] EXCEPT !.state = "RUNNABLE"] /\ p \in DOMAIN a
    BY DEF Tables
  <2>2. u = [a EXCEPT ![p].runblenum = a[p].runblenum + 1]
    BY DEF MakeRunnable
  <2>3. a[p].runblenum = 0
    BY <1>1, <2>1 DEF Procs
  <2> HIDE DEF a, u
  <2>4. u[p] = [a[p] EXCEPT !.runblenum = a[p].runblenum + 1]
    BY <2>1, <2>2
  <2>5. a[p].runblenum + 1 = 1
    BY <2>3
  <2> QED BY <2>1, <2>4, <2>5
<1>4. /\ Kept(t[p], u[p]) /\ u[p].state = "RUNNABLE" /\ u[p].runblenum = 1
      /\ u[p].killed = t[p].killed /\ u[p].chan = t[p].chan /\ u[p].pgdir = t[p].pgdir
  <2> DEFINE r == t[p]
             v == u[p]
  <2>1. r \in Procs /\ 1 \in 0 .. NPROC /\ v = [r EXCEPT !.state = "RUNNABLE", !.runblenum = 1]
    BY <1>1, <1>3
  <2> HIDE DEF r, v
  <2>2. /\ Kept(r, v) /\ v.state = "RUNNABLE" /\ v.runblenum = 1
        /\ v.killed = r.killed /\ v.chan = r.chan /\ v.pgdir = r.pgdir
    <3>1. v \in Procs
      <4>1. p \in Slots
        OBVIOUS
      <4> QED BY ONLY <2>1, <4>1 DEF Procs
    <3>2. v.pid = r.pid /\ v.idx = r.idx /\ v.parent = r.parent /\ v.mainth = r.mainth
      BY <2>1 DEF Procs
    <3>3. v.nextth = r.nextth /\ v.recentth = r.recentth
      BY <2>1 DEF Procs
    <3>4. /\ v.state = "RUNNABLE" /\ v.runblenum = 1
          /\ v.killed = r.killed /\ v.chan = r.chan /\ v.pgdir = r.pgdir
      BY <2>1 DEF Procs
    <3> QED BY <3>1, <3>2, <3>3, <3>4 DEF Kept
  <2> QED BY <2>2 DEF r, v
<1>5. DOMAIN u = Slots /\ u = [q \in Slots |-> u[q]]
  BY DEF MakeRunnable, Tables
<1>6. \A q \in Slots : u[q] \in Procs
  BY <1>2, <1>4 DEF Kept, Tables
<1> QED BY <1>2, <1>4, <1>5, <1>6 DEF Tables

-----------------------------------------------------------------------------
\* Every slot of the table is free or a process of one thread.
Ringed(t) == t \in Tables /\ \A p \in Slots : Alone(t[p], p)
\* r is woken: s.
Woken(r, s) == /\ Kept(r, s) /\ s.state = "RUNNABLE" /\ s.runblenum = 1
               /\ s.killed = r.killed /\ s.chan = r.chan

LEMMA Single ==
  ASSUME NEW t, Ringed(t), NEW p \in Slots, t[p].state # "UNUSED"
  PROVE  /\ t[p].pid # 0 /\ t[p].mainth = p /\ t[p].nextth = p /\ t[p].recentth = p /\ t[p].idx = p
         /\ t[p] \in Procs
  BY DEF Ringed, Alone, Tables

LEMMA WakeAlone ==
  ASSUME ProcAssumption, NEW t, Ringed(t), NEW W, W \subseteq Slots, \A q \in W : t[q].state = "SLEEPING"
  PROVE  /\ WakeSet(t, W) \in Tables
         /\ \A p \in Slots \ W : WakeSet(t, W)[p] = t[p]
         /\ \A p \in W : Woken(t[p], WakeSet(t, W)[p])
         /\ Queued(t, W) \subseteq Slots
         /\ Ringed(WakeSet(t, W))
<1> DEFINE u == WakeSet(t, W)
<1>1. \A q \in W : t[q].mainth = q /\ t[q].runblenum = 0 /\ t[q].idx \in Slots /\ t[q].pid # 0
  BY Single DEF Ringed, Alone, Procs
<1>2. ASSUME NEW p \in Slots \ W PROVE u[p] = t[p]
  <2>1. {q \in W : t[q].mainth = p} = {}
    BY <1>1
  <2>2. t[p] \in Procs
    BY DEF Ringed, Tables
  <2>3. Grown(t, W, p) = t[p].runblenum
    <3> DEFINE M == {q \in W : t[q].mainth = p}
    <3>1. Grown(t, W, p) = t[p].runblenum + Cardinality(M)
      BY DEF Grown
    <3>2. M = {}
      BY <2>1
    <3> HIDE DEF M
    <3>3. Cardinality(M) = 0
      BY <3>2, FS_EmptySet
    <3>4. t[p].runblenum \in Nat
      BY <2>2, Sizes DEF Procs
    <3> QED BY <3>1, <3>3, <3>4
  <2>4. u[p] = [t[p] EXCEPT !.state = t[p].state, !.runblenum = t[p].runblenum]
    BY <2>3 DEF WakeSet
  <2> DEFINE r == t[p]
             v == u[p]
  <2>5. r \in Procs /\ v = [r EXCEPT !.state = r.state, !.runblenum = r.runblenum]
    BY <2>2, <2>4
  <2> HIDE DEF r, v, u
  <2>6. v = r
    BY ONLY <2>5 DEF Procs
  <2> QED BY <2>6 DEF r, v
<1>3. ASSUME NEW p \in W PROVE Woken(t[p], u[p])
  <2>1. {q \in W : t[q].mainth = p} = {p}
    BY <1>1
  <2>2. t[p] \in Procs /\ 1 \in 0 .. NPROC
    BY Sizes DEF Ringed, Tables
  <2>3. Cardinality({p}) = 1
    BY FS_Singleton
  <2>4. Grown(t, W, p) = 1
    <3> DEFINE M == {q \in W : t[q].mainth = p}
    <3>1. Grown(t, W, p) = t[p].runblenum + Cardinality(M)
      BY DEF Grown
    <3>2. M = {p}
      BY <2>1
    <3> HIDE DEF M
    <3> QED BY <3>1, <3>2, <2>3, <1>1
  <2>5. u[p] = [t[p] EXCEPT !.state = "RUNNABLE", !.runblenum = 1]
    <3>1. p \in Slots
      OBVIOUS
    <3> QED BY <3>1, <2>4 DEF WakeSet
  <2> DEFINE r == t[p]
             v == u[p]
  <2>6. r \in Procs /\ 1 \in 0 .. NPROC /\ v = [r EXCEPT !.state = "RUNNABLE", !.runblenum = 1]
    BY <2>2, <2>5
  <2> HIDE DEF u, r, v
  <2>7. v \in Procs
    BY <2>6 DEF Procs
  <2>8. /\ v.state = "RUNNABLE" /\ v.runblenum = 1 /\ v.killed = r.killed /\ v.chan = r.chan
        /\ v.pid = r.pid /\ v.idx = r.idx /\ v.parent = r.parent /\ v.mainth = r.mainth
        /\ v.nextth = r.nextth /\ v.recentth = r.recentth
    BY <2>6 DEF Procs
  <2>9. Woken(r, v)
    BY <2>7, <2>8 DEF Woken, Kept
  <2> QED BY <2>9 DEF r, v
<1>4. u = [p \in Slots |-> u[p]]
  BY DEF WakeSet
<1>5. \A p \in Slots : u[p] \in Procs
  BY <1>2, <1>3 DEF Ringed, Tables, Woken, Kept
<1> HIDE DEF u
<1>6. u \in Tables
  BY <1>4, <1>5 DEF Tables
<1>7. Queued(t, W) \subseteq Slots
  BY <1>1 DEF Queued
<1>8. \A p \in Slots : Alone(u[p], p)
  <2>1. ASSUME NEW p \in W PROVE Alone(u[p], p)
    <3>1. Alone(t[p], p) /\ t[p].pid # 0 /\ Woken(t[p], u[p])
      BY <1>1, <1>3 DEF Ringed
    <3> QED BY <3>1 DEF Woken, Kept, Alone
  <2> QED BY <1>2, <2>1 DEF Ringed
<1> QED BY <1>2, <1>3, <1>6, <1>7, <1>8 DEF Ringed, u

LEMMA ClearAlone ==
  ASSUME ProcAssumption, NEW t, Ringed(t), NEW p \in Slots, t[p].state # "UNUSED"
  PROVE  ClearThread(t, p) = t
<1>1. t[p].mainth = p /\ t[p] \in Procs /\ Siblings(t, p) = {}
  BY Single, RingAlone
<1>2. t[p].runblenum - Cardinality(Siblings(t, p)) = t[p].runblenum
  BY <1>1, FS_EmptySet DEF Procs
<1> DEFINE n == t[p].runblenum - Cardinality(Siblings(t, p))
<1>3. [t[p] EXCEPT !.pgdir = t[p].pgdir, !.pid = t[p].pid, !.runblenum = n] = t[p]
  BY <1>1, <1>2 DEF Procs
<1>4. ClearThread(t, p) = [q \in Slots |-> IF q = p THEN [t[p] EXCEPT !.pgdir = t[p].pgdir, !.pid = t[p].pid, !.runblenum = n] ELSE t[q]]
  BY <1>1 DEF ClearThread
<1>5. t = [q \in Slots |-> t[q]]
  BY DEF Ringed, Tables
<1> QED BY <1>3, <1>4, <1>5

LEMMA KilledRecord ==
  ASSUME NEW r \in Procs, NEW u, u = [r EXCEPT !.killed = TRUE]
  PROVE  Kept(r, u) /\ u.killed = TRUE /\ u.state = r.state /\ u.chan = r.chan /\ u.runblenum = r.runblenum
  BY DEF Procs, Kept

LEMMA ExecAlone ==
  ASSUME ProcAssumption, NEW t, Ringed(t), NEW p \in Slots, t[p].state # "UNUSED", NEW n \in PageTables
  PROVE  /\ PrepareExec(t, p, n) \in Tables
         /\ \A q \in Slots \ {p} : PrepareExec(t, p, n)[q] = t[q]
         /\ Kept(t[p], PrepareExec(t, p, n)[p])
         /\ PrepareExec(t, p, n)[p].state = t[p].state
         /\ PrepareExec(t, p, n)[p].runblenum = 0
         /\ PrepareExec(t, p, n)[p].killed = t[p].killed
         /\ PrepareExec(t, p, n)[p].chan = t[p].chan
<1> DEFINE u == PrepareExec(t, p, n)
<1>1. /\ t[p].mainth = p /\ t[p].nextth = p /\ t[p].recentth = p /\ t[p].idx = p
      /\ t[p] \in Procs /\ Siblings(t, p) = {}
  BY Single, RingAlone
<1>2. u = [q \in Slots |-> IF q = p THEN [t[p] EXCEPT !.pgdir = n, !.pid = t[p].pid, !.parent = t[p].parent,
                !.killed = t[p].killed, !.thid = 0, !.nextid = 0, !.mainth = p, !.nextth = p,
                !.prevth = p, !.recentth = p, !.runblenum = 0] ELSE t[q]]
  BY <1>1 DEF PrepareExec
<1>4. u[p] = [t[p] EXCEPT !.pgdir = n, !.pid = t[p].pid, !.parent = t[p].parent,
                !.killed = t[p].killed, !.thid = 0, !.nextid = 0, !.mainth = p, !.nextth = p,
                !.prevth = p, !.recentth = p, !.runblenum = 0]
  BY <1>2
<1>5. \A q \in Slots \ {p} : u[q] = t[q]
  BY <1>2
<1>6. DOMAIN u = Slots /\ u = [q \in Slots |-> u[q]]
  BY <1>2
<1> HIDE DEF u
<1>7. /\ Kept(t[p], u[p]) /\ u[p].state = t[p].state /\ u[p].runblenum = 0
      /\ u[p].killed = t[p].killed /\ u[p].chan = t[p].chan
  <2> DEFINE r == t[p]
             v == u[p]
  <2>1. r \in Procs /\ r.mainth = p /\ r.nextth = p /\ r.recentth = p /\ p \in Slots /\ n \in PageTables
    BY <1>1
  <2>2. v = [r EXCEPT !.pgdir = n, !.pid = r.pid, !.parent = r.parent,
                !.killed = r.killed, !.thid = 0, !.nextid = 0, !.mainth = p, !.nextth = p,
                !.prevth = p, !.recentth = p, !.runblenum = 0]
    BY <1>4
  <2> HIDE DEF r, v
  <2>3. Kept(r, v) /\ v.state = r.state /\ v.runblenum = 0 /\ v.killed = r.killed /\ v.chan = r.chan
    <3>1. 0 \in 0 .. MaxThid /\ 0 \in 0 .. NPROC
      BY DEF ProcAssumption
    <3>2. v \in Procs
      BY <2>1, <2>2, <3>1 DEF Procs
    <3>3. /\ v.state = r.state /\ v.runblenum = 0 /\ v.killed = r.killed /\ v.chan = r.chan
      BY <2>1, <2>2 DEF Procs
    <3>4. /\ v.pid = r.pid /\ v.idx = r.idx /\ v.parent = r.parent /\ v.mainth = p
          /\ v.nextth = p /\ v.recentth = p
      BY <2>1, <2>2 DEF Procs
    <3> QED BY <2>1, <3>2, <3>3, <3>4 DEF Kept
  <2> QED BY <2>3 DEF r, v
<1>8. \A q \in Slots : u[q] \in Procs
  BY <1>5, <1>7 DEF Kept, Ringed, Tables
<1> QED BY <1>5, <1>6, <1>7, <1>8 DEF Tables, u

LEMMA KilledAlone ==
  ASSUME ProcAssumption, NEW t, Ringed(t), NEW p \in Slots, t[p].pid # 0
  PROVE  /\ Killed(t, p) \in Tables
         /\ \A q \in Slots \ {p} : Killed(t, p)[q] = t[q]
         /\ Kept(t[p], Killed(t, p)[p])
         /\ Killed(t, p)[p].state = IF t[p].state = "SLEEPING" THEN "RUNNABLE" ELSE t[p].state
         /\ Counted(Killed(t, p)[p])
         /\ Killed(t, p)[p].killed
         /\ Killed(t, p)[p].chan = t[p].chan
         /\ Queued(t, KillSleepers(t, p)) \subseteq Slots
         /\ Closes(t, p)
<1> DEFINE W == KillSleepers(t, p)
           w == WakeSet(t, W)
           u == Killed(t, p)
<1>1. t[p].nextth = p /\ Counted(t[p])
  BY DEF Ringed, Alone, Counted
<1>2. Closes(t, p) /\ KillSet(t, p) = {p}
  BY <1>1, RingAlone
<1>3. W = IF t[p].state = "SLEEPING" THEN {p} ELSE {}
  BY <1>2 DEF KillSleepers
<1>4. W \subseteq Slots /\ \A q \in W : t[q].state = "SLEEPING"
  BY <1>3
<1> HIDE DEF W
<1>5. /\ w \in Tables
      /\ \A q \in Slots \ W : w[q] = t[q]
      /\ \A q \in W : Woken(t[q], w[q])
      /\ Queued(t, W) \subseteq Slots
  BY <1>4, WakeAlone
<1>6. u = [q \in Slots |-> [w[q] EXCEPT !.killed = w[q].killed \/ q \in {p}]]
  BY <1>2 DEF Killed, W
<1> HIDE DEF w, u
<1>7. ASSUME NEW q \in Slots \ {p} PROVE u[q] = t[q]
  <2>1. w[q] = t[q] /\ t[q] \in Procs
    BY <1>3, <1>5 DEF Ringed, Tables
  <2>2. t[q].killed \in BOOLEAN
    BY <2>1 DEF Procs
  <2>3. u[q] = [w[q] EXCEPT !.killed = w[q].killed \/ q \in {p}]
    BY <1>6
  <2>4. (w[q].killed \/ q \in {p}) = t[q].killed
    BY <2>1, <2>2
  <2>5. u[q] = [t[q] EXCEPT !.killed = t[q].killed]
    BY <2>1, <2>3, <2>4
  <2> QED BY <2>1, <2>5 DEF Procs
<1>8. u[p] = [w[p] EXCEPT !.killed = TRUE]
  <2>1. u[p] = [w[p] EXCEPT !.killed = w[p].killed \/ p \in {p}]
    BY <1>6
  <2>2. (w[p].killed \/ p \in {p}) = TRUE
    OBVIOUS
  <2> QED BY <2>1, <2>2
<1>9. /\ w[p] \in Procs /\ Kept(t[p], w[p]) /\ w[p].chan = t[p].chan /\ Counted(w[p])
      /\ w[p].state = IF t[p].state = "SLEEPING" THEN "RUNNABLE" ELSE t[p].state
  <2>1. CASE t[p].state = "SLEEPING"
    BY <1>3, <1>5, <2>1 DEF Woken, Counted, Tables
  <2>2. CASE t[p].state # "SLEEPING"
    BY <1>1, <1>3, <1>5, <2>2, Rest DEF Tables
  <2> QED BY <2>1, <2>2
<1>10. /\ Kept(t[p], u[p]) /\ u[p].chan = t[p].chan /\ Counted(u[p]) /\ u[p].killed = TRUE
       /\ u[p].state = w[p].state
  <2>1. /\ Kept(w[p], u[p]) /\ u[p].killed = TRUE /\ u[p].state = w[p].state
        /\ u[p].chan = w[p].chan /\ u[p].runblenum = w[p].runblenum
    BY <1>8, <1>9, KilledRecord
  <2> QED BY <1>9, <2>1 DEF Kept, Counted
<1>11. DOMAIN u = Slots /\ u = [q \in Slots |-> u[q]]
  BY <1>6
<1>12. \A q \in Slots : u[q] \in Procs
  BY <1>7, <1>10 DEF Kept, Ringed, Tables
<1>13. u \in Tables
  BY <1>11, <1>12 DEF Tables
<1> QED BY <1>2, <1>5, <1>7, <1>9, <1>10, <1>13 DEF u, W

\* s is r with another parent.
Passed(r, s, par) ==
  /\ s \in Procs
  /\ s.pid = r.pid /\ s.idx = r.idx /\ s.parent = par /\ s.mainth = r.mainth
  /\ s.nextth = r.nextth /\ s.recentth = r.recentth
  /\ s.state = r.state /\ s.runblenum = r.runblenum /\ s.killed = r.killed /\ s.chan = r.chan

LEMMA AdoptedAlone ==
  ASSUME ProcAssumption, NEW t, Ringed(t), NEW p \in Slots
  PROVE  /\ Adopted(t, p) \in Tables
         /\ Ringed(Adopted(t, p))
         /\ \A q \in Slots : Passed(t[q], Adopted(t, p)[q], IF q \in Orphans(t, p) THEN initproc ELSE t[q].parent)
<1> DEFINE u == Adopted(t, p)
<1>1. ASSUME NEW q \in Slots PROVE Passed(t[q], u[q], IF q \in Orphans(t, p) THEN initproc ELSE t[q].parent)
  <2>1. t[q] \in Procs /\ initproc \in Slots
    BY Sizes DEF Ringed, Tables
  <2>2. CASE q \in Orphans(t, p)
    <3>1. u[q] = [t[q] EXCEPT !.parent = initproc]
      BY <2>2 DEF Adopted
    <3> HIDE DEF u
    <3> QED BY <2>1, <2>2, <3>1 DEF Passed, Procs
  <2>3. CASE q \notin Orphans(t, p)
    <3>1. u[q] = t[q]
      BY <2>3 DEF Adopted
    <3> HIDE DEF u
    <3> QED BY <2>1, <2>3, <3>1 DEF Passed
  <2> QED BY <2>2, <2>3
<1>2. u = [q \in Slots |-> u[q]]
  BY DEF Adopted
<1>3. \A q \in Slots : u[q] \in Procs
  BY <1>1 DEF Passed
<1>4. \A q \in Slots : Alone(u[q], q)
  BY <1>1 DEF Passed, Alone, Ringed
<1> QED BY <1>1, <1>2, <1>3, <1>4 DEF Ringed, Tables

LEMMA AllocAlone ==
  ASSUME ProcAssumption, NEW t \in Tables, NEW p \in Slots, NEW n \in 1 .. MaxPid
  PROVE  /\ Allocproc(t, p, n) \in Tables
         /\ \A q \in Slots \ {p} : Allocproc(t, p, n)[q] = t[q]
         /\ Alone(Allocproc(t, p, n)[p], p)
         /\ Allocproc(t, p, n)[p].state = "EMBRYO"
         /\ Allocproc(t, p, n)[p].pid = n
         /\ Allocproc(t, p, n)[p].parent = t[p].parent
         /\ Allocproc(t, p, n)[p].killed = t[p].killed
<1> DEFINE u == Allocproc(t, p, n)
           r == t[p]
           v == u[p]
<1>1. r \in Procs
  BY DEF Tables
<1>2. v = [r EXCEPT !.state = "EMBRYO", !.pid = n, !.idx = p,
      !.thid = 0, !.nextid = 0, !.mainth = p, !.nextth = p, !.prevth = p,
      !.recentth = p, !.runblenum = 0]
  BY DEF Allocproc, Tables
<1>3. \A q \in Slots \ {p} : u[q] = t[q]
  BY DEF Allocproc, Tables
<1>4. u = [q \in Slots |-> u[q]]
  BY DEF Allocproc, Tables
<1> HIDE DEF u, r, v
<1>5. 0 \in 0 .. MaxThid /\ 0 \in 0 .. NPROC /\ n \in 0 .. MaxPid
  BY DEF ProcAssumption
<1>6. v \in Procs
  BY <1>1, <1>2, <1>5 DEF Procs
<1>7. v.state = "EMBRYO" /\ v.pid = n /\ v.parent = r.parent /\ v.killed = r.killed
  BY <1>1, <1>2 DEF Procs
<1>8. v.mainth = p /\ v.nextth = p /\ v.recentth = p /\ v.idx = p /\ v.runblenum = 0
  BY <1>1, <1>2 DEF Procs
<1>9. \A q \in Slots : u[q] \in Procs
  BY <1>3, <1>6 DEF Tables, v
<1>10. u \in Tables
  BY <1>4, <1>9 DEF Tables
<1>11. Alone(v, p)
  BY <1>7, <1>8 DEF Alone
<1> QED BY <1>3, <1>7, <1>10, <1>11 DEF u, r, v

LEMMA ReapAlone ==
  ASSUME ProcAssumption, NEW t \in Tables, NEW z \in Slots
  PROVE  /\ Reaped(t, z) \in Tables
         /\ \A q \in Slots \ {z} : Reaped(t, z)[q] = t[q]
         /\ Alone(Reaped(t, z)[z], z)
         /\ Reaped(t, z)[z].state = "UNUSED"
         /\ Reaped(t, z)[z].pid = 0
         /\ Reaped(t, z)[z].parent = NULL
         /\ Reaped(t, z)[z].killed = FALSE
<1> DEFINE u == Reaped(t, z)
           r == t[z]
           v == u[z]
<1>1. r \in Procs
  BY DEF Tables
<1>2. v = [[r EXCEPT !.pid = 0, !.parent = NULL, !.killed = FALSE, !.idx = 0, !.state = "UNUSED", !.join = NULL]
            EXCEPT !.thid = 0, !.mainth = NULL, !.nextth = NULL, !.prevth = NULL, !.recentth = NULL,
                   !.runblenum = 0]
  BY DEF Reaped, Cleared, Tables
<1>3. \A q \in Slots \ {z} : u[q] = t[q]
  BY DEF Reaped, Tables
<1>4. u = [q \in Slots |-> u[q]]
  BY DEF Reaped, Tables
<1> HIDE DEF u, r, v
<1>5. 0 \in 0 .. MaxThid /\ 0 \in 0 .. NPROC /\ 0 \in 0 .. MaxPid /\ 0 \in Slots
  BY DEF ProcAssumption, Slots
<1>6. PICK s : s = [r EXCEPT !.pid = 0, !.parent = NULL, !.killed = FALSE, !.idx = 0, !.state = "UNUSED", !.join = NULL]
  OBVIOUS
<1>7. s \in Procs /\ s.pid = 0 /\ s.parent = NULL /\ s.killed = FALSE /\ s.state = "UNUSED"
  BY <1>1, <1>5, <1>6 DEF Procs
<1>8. v = [s EXCEPT !.thid = 0, !.mainth = NULL, !.nextth = NULL, !.prevth = NULL, !.recentth = NULL,
                    !.runblenum = 0]
  BY <1>2, <1>6
<1>9. v \in Procs
  <2>1. s \in Procs /\ 0 \in 0 .. MaxThid /\ 0 \in 0 .. NPROC
    BY <1>5, <1>7
  <2> QED BY ONLY <2>1, <1>8 DEF Procs
<1>10. v.state = "UNUSED" /\ v.pid = 0 /\ v.parent = NULL /\ v.killed = FALSE /\ v.runblenum = 0
  BY <1>7, <1>8 DEF Procs
<1>11. \A q \in Slots : u[q] \in Procs
  BY <1>3, <1>9 DEF Tables, v
<1>12. u \in Tables
  BY <1>4, <1>11 DEF Tables
<1>13. Alone(v, z)
  BY <1>10 DEF Alone
<1> QED BY <1>3, <1>10, <1>12, <1>13 DEF u, r, v

\* sleep() and the end of sleep() write the channel of p.
WithChan(t, p, ch) == [t EXCEPT ![p].chan = ch]
Asleep(t, p, ch) == [t EXCEPT ![p].chan = ch, ![p].state = "SLEEPING"]

LEMMA ChanAlone ==
  ASSUME ProcAssumption, NEW t \in Tables, NEW p \in Slots, NEW ch \in Slots \cup {NULL, IO}
  PROVE  /\ WithChan(t, p, ch) \in Tables
         /\ \A q \in Slots \ {p} : WithChan(t, p, ch)[q] = t[q]
         /\ Kept(t[p], WithChan(t, p, ch)[p]) /\ WithChan(t, p, ch)[p].state = t[p].state /\ WithChan(t, p, ch)[p].runblenum = t[p].runblenum
         /\ WithChan(t, p, ch)[p].killed = t[p].killed /\ WithChan(t, p, ch)[p].chan = ch
<1> DEFINE r == t[p]
           u == WithChan(t, p, ch)
           v == u[p]
<1>1. r \in Procs
  BY DEF Tables
<1>2. v = [r EXCEPT !.chan = ch]
  BY DEF Tables, WithChan
<1>3. \A q \in Slots \ {p} : u[q] = t[q]
  BY DEF Tables, WithChan
<1>4. u = [q \in Slots |-> u[q]]
  BY DEF Tables, WithChan
<1> HIDE DEF u, r, v
<1>5. Kept(r, v) /\ v.state = r.state /\ v.runblenum = r.runblenum /\ v.killed = r.killed /\ v.chan = ch
  BY <1>1, <1>2 DEF Kept, Procs
<1>6. \A q \in Slots : u[q] \in Procs
  BY <1>3, <1>5 DEF Tables, v, Kept
<1>7. u \in Tables
  BY <1>4, <1>6 DEF Tables
<1> QED BY <1>3, <1>5, <1>7 DEF u, r, v

LEMMA SleepAlone ==
  ASSUME ProcAssumption, NEW t \in Tables, NEW p \in Slots, NEW ch \in Slots \cup {NULL, IO}
  PROVE  /\ Asleep(t, p, ch) \in Tables
         /\ \A q \in Slots \ {p} : Asleep(t, p, ch)[q] = t[q]
         /\ Kept(t[p], Asleep(t, p, ch)[p]) /\ Asleep(t, p, ch)[p].state = "SLEEPING" /\ Asleep(t, p, ch)[p].runblenum = t[p].runblenum
         /\ Asleep(t, p, ch)[p].killed = t[p].killed /\ Asleep(t, p, ch)[p].chan = ch
<1> DEFINE r == t[p]
           u == Asleep(t, p, ch)
           v == u[p]
<1>1. r \in Procs
  BY DEF Tables
<1>2. v = [r EXCEPT !.chan = ch, !.state = "SLEEPING"]
  BY DEF Tables, Asleep
<1>3. \A q \in Slots \ {p} : u[q] = t[q]
  BY DEF Tables, Asleep
<1>4. u = [q \in Slots |-> u[q]]
  BY DEF Tables, Asleep
<1> HIDE DEF u, r, v
<1>5. Kept(r, v) /\ v.state = "SLEEPING" /\ v.runblenum = r.runblenum /\ v.killed = r.killed /\ v.chan = ch
  BY <1>1, <1>2 DEF Kept, Procs
<1>6. \A q \in Slots : u[q] \in Procs
  BY <1>3, <1>5 DEF Tables, v, Kept
<1>7. u \in Tables
  BY <1>4, <1>6 DEF Tables
<1> QED BY <1>3, <1>5, <1>7 DEF u, r, v

-----------------------------------------------------------------------------
\* What most steps leave of slot q: the process stays the one it was.
MoveAt(q) ==
  /\ Kept(proc[q], proc'[q]) /\ Counted(proc'[q])
  /\ \/ proc'[q].state = proc[q].state
     \/ Started(proc[q]) /\ Started(proc'[q])
  /\ pc'[q] \in Places
  /\ pc'[q] # "user" => Started(proc'[q])
  /\ pc'[q] \in {"exit", "closing"} => q # initproc
  /\ proc'[q].state = "SLEEPING" =>
       \/ pc'[q] \in {"asleep", "closing"} /\ proc'[q].chan = IO
       \/ /\ pc'[q] = "wait" /\ proc'[q].chan = q
          /\ \/ proc[q].state = "SLEEPING" /\ pc[q] = "wait" /\ proc'[q].killed = proc[q].killed
             \/ Zombies(q) = {} /\ ~proc'[q].killed
StepAt(q) ==
  /\ MoveAt(q)
  /\ pc'[q] = "fork" => pc[q] = "fork" /\ arg'[q] = arg[q]

-----------------------------------------------------------------------------
\* p exits: it becomes a zombie, its children are init's, and those of W, whoever
\* has a new zombie to wait for among them, wake up.
ExitedAt(p, W, q) ==
  /\ proc'[q].pid = proc[q].pid /\ proc'[q].mainth = proc[q].mainth /\ proc'[q].idx = proc[q].idx
  /\ proc'[q].nextth = proc[q].nextth /\ proc'[q].recentth = proc[q].recentth
  /\ proc'[q].killed = proc[q].killed
  /\ proc'[q].parent = IF proc[q].parent = p THEN initproc ELSE proc[q].parent
  /\ q # p => /\ proc'[q].state = IF q \in W THEN "RUNNABLE" ELSE proc[q].state
              /\ proc'[q].runblenum = IF q \in W THEN 1 ELSE proc[q].runblenum
              /\ proc'[q].chan = proc[q].chan
  /\ q = p => proc'[q].state = "ZOMBIE" /\ proc'[q].runblenum = 0
Exited(p, W) ==
  /\ p \in Slots \ {initproc} /\ proc[p].state = "RUNNING" /\ p \notin W
  /\ W \subseteq Slots /\ \A q \in W : proc[q].state = "SLEEPING"
  /\ \A q \in Slots : proc[q].state = "SLEEPING" /\ proc[q].chan = proc[p].parent => q \in W
  /\ \A z \in Slots : /\ proc[z].parent = p /\ proc[z].state = "ZOMBIE"
                     /\ proc[initproc].state = "SLEEPING" /\ proc[initproc].chan = initproc
                     => initproc \in W
  /\ \A q \in Slots : ExitedAt(p, W, q)
  /\ proc' \in Tables /\ OnCpus' /\ ready' \subseteq Slots
  /\ cpu' \in [CPUS -> [proc : Slots \cup {NULL}, mainth : Slots \cup {NULL}]]
  /\ pc' \in [Slots -> PCs] /\ pc'[p] = "user" /\ \A q \in Slots \ {p} : pc'[q] = pc[q]
  /\ UNCHANGED <<nextpid, vm, arg, signalled, fault>>

\* What a step does to the processes: nothing but let some run or sleep; or
\* one slot x is allocated, published, given back or reaped; or p exits.
Same(q) ==
  /\ proc'[q].pid = proc[q].pid /\ proc'[q].parent = proc[q].parent
  /\ proc'[q].state = proc[q].state \/ (Started(proc[q]) /\ Started(proc'[q]))
AllocStep(x) ==
  /\ proc[x].state = "UNUSED" /\ proc'[x].state = "EMBRYO" /\ proc'[x].parent = NULL
  /\ proc'[x].pid = nextpid /\ nextpid' = nextpid + 1
PublishStep(x) ==
  /\ proc[x].state = "EMBRYO" /\ proc'[x].state = "RUNNABLE" /\ proc'[x].pid = proc[x].pid
  /\ \E p \in Slots \ {x} : proc[p].state = "RUNNING" /\ proc'[x].parent = p
  /\ nextpid' = nextpid
AbandonStep(x) ==
  /\ proc[x].state = "EMBRYO" /\ proc'[x].state = "UNUSED" /\ proc'[x].pid = proc[x].pid
  /\ nextpid' = nextpid
ReapStep(x) ==
  /\ proc[x].state = "ZOMBIE" /\ proc'[x].state = "UNUSED"
  /\ \E p \in Slots : proc[p].state = "RUNNING" /\ proc[x].parent = p
  /\ nextpid' = nextpid
LifeStep ==
  \/ nextpid' = nextpid /\ \A q \in Slots : Same(q)
  \/ \E x \in Slots : /\ \A q \in Slots \ {x} : Same(q)
                      /\ AllocStep(x) \/ PublishStep(x) \/ AbandonStep(x) \/ ReapStep(x)
  \/ \E p, W : Exited(p, W)

LEMMA Untouched ==
  ASSUME ProcAssumption, ProcInv, NEW q \in Slots, proc'[q] = proc[q], pc'[q] = pc[q], arg' = arg
  PROVE  StepAt(q)
<1>1. proc[q] \in Procs /\ Alone(proc[q], q) /\ PlaceAt(q)
  BY DEF ProcInv, TableInv, TypeOK, Procs
<1>2. Kept(proc[q], proc'[q]) /\ Counted(proc'[q])
  BY <1>1, Rest DEF Alone, Counted
<1> QED BY <1>1, <1>2 DEF StepAt, MoveAt, PlaceAt

LEMMA Table == ProcInv => proc \in Tables /\ Ringed(proc)
  BY DEF ProcInv, TableInv, TypeOK, Tables, Procs, Ringed

LEMMA Steps ==
  ASSUME ProcAssumption, ProcInv, nextpid' = nextpid, proc' \in Tables, \A q \in Slots : StepAt(q)
  PROVE  TableInv' /\ LifeStep
<1>1. \A q \in Slots : proc[q] \in Procs /\ Alone(proc[q], q) /\ PlaceAt(q) /\ Parented(q)
  BY DEF ProcInv, TableInv, TypeOK, Procs
<1>2. Numbered'
  <2>1. Numbered
    BY DEF ProcInv, TableInv
  <2>2. \A q \in Slots : proc'[q].pid = proc[q].pid /\ (proc'[q].state = "UNUSED" <=> proc[q].state = "UNUSED")
    BY DEF StepAt, MoveAt, Kept, Started
  <2> QED BY <2>1, <2>2 DEF Numbered
<1>3. Started(proc[initproc])' /\ proc'[initproc].pid = 1
  BY Sizes DEF ProcInv, TableInv, StepAt, MoveAt, Kept, Started
<1>4. ASSUME NEW p \in Slots PROVE Alone(proc[p], p)' /\ Parented(p)'
  <2>1. Alone(proc[p], p) /\ Parented(p) /\ StepAt(p)
    BY <1>1
  <2>2. Alone(proc'[p], p)
    BY <2>1 DEF Alone, StepAt, MoveAt, Kept, Counted, Started
  <2>3. proc'[p].parent = proc[p].parent
    BY <2>1 DEF StepAt, MoveAt, Kept
  <2>4. proc[p].parent # NULL => proc[p].parent \in Slots
    BY <1>1 DEF Procs
  <2>5. proc[p].parent # NULL => Started(proc'[proc[p].parent])
    BY <2>1, <2>4 DEF Parented, StepAt, MoveAt, Started
  <2>6. proc'[p].state \in {"UNUSED", "EMBRYO"} => proc[p].state \in {"UNUSED", "EMBRYO"}
    BY <2>1 DEF StepAt, MoveAt, Started
  <2> QED BY <2>1, <2>2, <2>3, <2>5, <2>6 DEF Parented
<1>5. ASSUME NEW p \in Slots PROVE PlaceAt(p)'
  <2>1. StepAt(p)
    OBVIOUS
  <2>2. ASSUME pc'[p] = "fork"
        PROVE  /\ arg'[p] \in Slots /\ proc'[arg'[p]].state = "EMBRYO"
               /\ \A q \in Slots : pc'[q] = "fork" /\ arg'[q] = arg'[p] => p = q
    <3>1. PlaceAt(p) /\ pc[p] = "fork" /\ arg'[p] = arg[p]
      BY <1>1, <2>1, <2>2 DEF StepAt, MoveAt
    <3>2. arg[p] \in Slots /\ proc[arg[p]].state = "EMBRYO"
      BY <3>1 DEF PlaceAt
    <3>3. StepAt(arg[p])
      BY <3>2
    <3>4. proc'[arg[p]].state = "EMBRYO"
      BY <3>2, <3>3 DEF StepAt, MoveAt, Started
    <3>5. ASSUME NEW q \in Slots, pc'[q] = "fork", arg'[q] = arg'[p] PROVE p = q
      BY <3>1, <3>5 DEF StepAt, MoveAt, PlaceAt
    <3> QED BY <3>1, <3>2, <3>4, <3>5
  <2>3. /\ pc'[p] \in Places
        /\ ~Started(proc'[p]) => pc'[p] = "user"
        /\ proc'[p].state = "SLEEPING" => \/ pc'[p] = "wait" /\ proc'[p].chan = p
                                          \/ pc'[p] \in {"asleep", "closing"} /\ proc'[p].chan = IO
        /\ pc'[p] \in {"exit", "closing"} => p # initproc
    BY <2>1 DEF StepAt, MoveAt
  <2> QED BY <2>2, <2>3 DEF PlaceAt
<1>6. NoLostExit'
  <2> SUFFICES ASSUME NEW p \in Slots, proc'[p].state = "SLEEPING", pc'[p] = "wait"
               PROVE  Zombies(p)' = {} /\ ~proc'[p].killed
    BY DEF NoLostExit
  <2>1. Zombies(p)' \subseteq Zombies(p)
    BY DEF Zombies, Kids, StepAt, MoveAt, Kept, Started
  <2>2. Zombies(p) = {} /\ ~proc'[p].killed
    BY DEF ProcInv, TableInv, NoLostExit, StepAt, MoveAt
  <2> QED BY <2>1, <2>2
<1>7. \A q \in Slots : Same(q)
  BY DEF StepAt, MoveAt, Kept, Same
<1> QED BY <1>2, <1>3, <1>4, <1>5, <1>6, <1>7 DEF TableInv, LifeStep

-----------------------------------------------------------------------------
\* The CPUs: nothing changes,
LEMMA CpusStay ==
  ASSUME ProcInv, cpu' = cpu,
         \A q \in Slots : proc'[q].state = "RUNNING" <=> proc[q].state = "RUNNING"
  PROVE  OnCpus'
  BY DEF ProcInv, OnCpus, OneCpu, OnCpu

\* one is given to a process,
LEMMA CpuGiven ==
  ASSUME ProcAssumption, ProcInv, NEW c \in CPUS, NEW p \in Slots, cpu[c].proc = NULL,
         cpu' = [cpu EXCEPT ![c] = [proc |-> p, mainth |-> p]],
         proc[p].state # "RUNNING", proc'[p].state = "RUNNING",
         \A q \in Slots \ {p} : proc'[q].state = "RUNNING" <=> proc[q].state = "RUNNING"
  PROVE  OnCpus'
<1>1. cpu'[c] = [proc |-> p, mainth |-> p] /\ \A d \in CPUS \ {c} : cpu'[d] = cpu[d]
  <2>1. DOMAIN cpu = CPUS
    BY DEF ProcInv, TypeOK
  <2> QED BY <2>1
<1>2. \A d \in CPUS : cpu[d].proc # p
  <2>1. OneCpu
    BY DEF ProcInv, OnCpus
  <2>2. ~OnCpu(p)
    BY <2>1 DEF OneCpu
  <2> QED BY <2>2 DEF OnCpu
<1>3. p # NULL
  BY Sizes
<1>4. \A d \in CPUS : cpu'[d].proc # NULL => cpu'[d].mainth = cpu'[d].proc
  BY <1>1 DEF ProcInv, OnCpus
<1>5. \A d, e \in CPUS : d # e /\ cpu'[d].proc = cpu'[e].proc => cpu'[d].proc = NULL
  BY <1>1, <1>2 DEF ProcInv, OnCpus, OneCpu
<1>6. ASSUME NEW q \in Slots PROVE proc'[q].state = "RUNNING" <=> \E d \in CPUS : cpu'[d].proc = q
  <2>1. CASE q = p
    BY <1>1, <2>1
  <2>2. CASE q # p
    <3>1. proc[q].state = "RUNNING" <=> \E d \in CPUS : cpu[d].proc = q
      BY DEF ProcInv, OnCpus, OneCpu, OnCpu
    <3>2. q # NULL
      BY Sizes
    <3> QED BY <1>1, <2>2, <3>1, <3>2
  <2> QED BY <2>1, <2>2
<1> QED BY <1>4, <1>5, <1>6 DEF OnCpus, OneCpu, OnCpu

\* or one is taken from its process.
LEMMA CpuTaken ==
  ASSUME ProcAssumption, ProcInv, NEW c \in CPUS, NEW p \in Slots, cpu[c].proc = p,
         cpu' = [cpu EXCEPT ![c] = Idle], proc'[p].state # "RUNNING",
         \A q \in Slots \ {p} : proc'[q].state = "RUNNING" <=> proc[q].state = "RUNNING"
  PROVE  OnCpus'
<1>1. cpu'[c] = Idle /\ \A d \in CPUS \ {c} : cpu'[d] = cpu[d]
  BY DEF ProcInv, TypeOK
<1>2. \A d \in CPUS \ {c} : cpu[d].proc # p
  <2>1. p # NULL
    BY Sizes
  <2> QED BY <2>1 DEF ProcInv, OnCpus, OneCpu
<1>3. Idle.proc = NULL
  BY DEF Idle
<1>4. \A d \in CPUS : cpu'[d].proc # NULL => cpu'[d].mainth = cpu'[d].proc
  BY <1>1, <1>3 DEF ProcInv, OnCpus
<1>5. \A d, e \in CPUS : d # e /\ cpu'[d].proc = cpu'[e].proc => cpu'[d].proc = NULL
  BY <1>1, <1>3 DEF ProcInv, OnCpus, OneCpu
<1>6. ASSUME NEW q \in Slots PROVE proc'[q].state = "RUNNING" <=> \E d \in CPUS : cpu'[d].proc = q
  <2>2. q # NULL
    BY Sizes
  <2>3. proc[q].state = "RUNNING" <=> \E d \in CPUS : cpu[d].proc = q
    BY DEF ProcInv, OnCpus, OneCpu, OnCpu
  <2>4. CASE q = p
    BY <1>1, <1>2, <1>3, <2>2, <2>4
  <2>5. CASE q # p
    BY <1>1, <1>3, <2>2, <2>3, <2>5
  <2> QED BY <2>4, <2>5
<1> QED BY <1>4, <1>5, <1>6 DEF OnCpus, OneCpu, OnCpu

\* The process on a CPU.
LEMMA Runs ==
  ASSUME ProcAssumption, ProcInv, NEW c \in CPUS, cpu[c].proc # NULL
  PROVE  /\ cpu[c].proc \in Slots /\ proc[cpu[c].proc].state = "RUNNING" /\ cpu[c].mainth = cpu[c].proc
         /\ proc[cpu[c].proc].runblenum = 0
<1>1. cpu[c].proc \in Slots
  BY DEF ProcInv, TypeOK
<1>2. proc[cpu[c].proc].state = "RUNNING" /\ cpu[c].mainth = cpu[c].proc
  BY <1>1 DEF ProcInv, OnCpus, OneCpu, OnCpu
<1>3. Alone(proc[cpu[c].proc], cpu[c].proc)
  BY <1>1 DEF ProcInv, TableInv
<1> QED BY <1>1, <1>2, <1>3 DEF Alone

-----------------------------------------------------------------------------
\* The rest of the types.
LEMMA Typed ==
  ASSUME proc' \in Tables, cpu' \in [CPUS -> [proc : Slots \cup {NULL}, mainth : Slots \cup {NULL}]],
         ready' \subseteq Slots, nextpid' \in 2 .. MaxPid + 1, vm' \subseteq PageTables,
         pc' \in [Slots -> PCs], arg' \in [Slots -> Slots \cup 1 .. MaxThid], signalled' \subseteq Pids,
         fault' \in {"none", "kill loops", "freevm", "null thread", "zombie thread"}
  PROVE  TypeOK'
  BY DEF TypeOK, Tables, Procs

LEMMA Types ==
  ASSUME ProcInv
  PROVE  /\ proc \in Tables /\ cpu \in [CPUS -> [proc : Slots \cup {NULL}, mainth : Slots \cup {NULL}]]
         /\ ready \subseteq Slots /\ nextpid \in 2 .. MaxPid + 1 /\ vm \subseteq PageTables
         /\ pc \in [Slots -> PCs] /\ arg \in [Slots -> Slots \cup 1 .. MaxThid] /\ signalled \subseteq Pids
         /\ fault \in {"none", "kill loops", "freevm", "null thread", "zombie thread"}
  BY DEF ProcInv, TypeOK, Tables, Procs

\* Process p, RUNNABLE in t, takes the CPU.
LEMMA TakesCpu ==
  ASSUME ProcAssumption, ProcInv, NEW t, Ringed(t), NEW p \in Slots, t[p].state = "RUNNABLE"
  PROVE  /\ Tidy(Running(t, p, p), p) \in Tables
         /\ \A q \in Slots \ {p} : Tidy(Running(t, p, p), p)[q] = t[q]
         /\ Kept(t[p], Tidy(Running(t, p, p), p)[p])
         /\ Tidy(Running(t, p, p), p)[p].state = "RUNNING"
         /\ Tidy(Running(t, p, p), p)[p].runblenum = 0
         /\ Tidy(Running(t, p, p), p)[p].killed = t[p].killed
<1>1. t \in Tables /\ t[p].recentth = p /\ t[p].runblenum = 1
  BY Single DEF Ringed, Alone
<1> DEFINE u == Running(t, p, p)
           w == Tidy(u, p)
<1>2. /\ u \in Tables /\ Kept(t[p], u[p]) /\ u[p].state = "RUNNING" /\ u[p].runblenum = 0
      /\ u[p].killed = t[p].killed /\ \A q \in Slots \ {p} : u[q] = t[q]
  BY <1>1, RunningAlone
<1> HIDE DEF u
<1>3. CASE pc[p] \in {"asleep", "closing"}
  <2>1. w = WithChan(u, p, NULL)
    BY <1>3 DEF Tidy, WithChan
  <2>2. NULL \in Slots \cup {NULL, IO}
    OBVIOUS
  <2> HIDE DEF w
  <2>3. /\ w \in Tables /\ \A q \in Slots \ {p} : w[q] = u[q]
        /\ Kept(u[p], w[p]) /\ w[p].state = u[p].state /\ w[p].runblenum = u[p].runblenum
        /\ w[p].killed = u[p].killed
    BY <1>2, <2>1, <2>2, ChanAlone
  <2> QED BY <1>2, <2>3 DEF Kept, u, w
<1>4. CASE pc[p] \notin {"asleep", "closing"}
  <2>1. w = u
    BY <1>4 DEF Tidy
  <2> QED BY <1>2, <2>1 DEF u, w
<1> QED BY <1>3, <1>4

LEMMA DispatchKeeps ==
  ASSUME ProcAssumption, ProcInv, NEW c \in CPUS, NEW i \in Slots, Dispatch(c, i)
  PROVE  ProcInv' /\ LifeStep
<1> USE DEF Dispatch
<1>1. /\ proc \in Tables /\ Ringed(proc) /\ cpu[c].proc = NULL /\ nextpid' = nextpid /\ arg' = arg
  BY Table
<1>2. CASE ThreadPick(proc, i) = NULL
  <2>1. proc' = proc /\ cpu' = cpu /\ pc' = pc
    BY <1>2
  <2>2. \A q \in Slots : StepAt(q)
    BY <1>1, <2>1, Untouched
  <2>3. TableInv' /\ LifeStep /\ OnCpus'
    BY <1>1, <2>1, <2>2, Steps, CpusStay
  <2>4. TypeOK'
    BY <2>1, Types, Typed
  <2> QED BY <2>3, <2>4 DEF ProcInv
<1>3. CASE ThreadPick(proc, i) # NULL
  <2>1. proc[i].runblenum # 0 /\ proc[i].recentth # NULL /\ ThreadPick(proc, i) = NextRunnable(proc, proc[i].recentth)
    BY <1>3 DEF ThreadPick
  <2>2. proc[i].state = "RUNNABLE"
    BY <1>1, <2>1 DEF Ringed, Alone
  <2>3. proc[i].nextth = i /\ proc[i].recentth = i /\ proc[i].idx = i
    BY <1>1, <2>2, Single
  <2>4. ThreadPick(proc, i) = i
    BY <2>1, <2>2, <2>3, RingAlone
  <2>5. /\ proc' = Tidy(Running(proc, i, i), i)
        /\ cpu' = [cpu EXCEPT ![c] = [proc |-> i, mainth |-> i]]
        /\ pc' = Resumes(pc, i)
    BY <1>3, <2>3, <2>4
  <2>6. /\ proc' \in Tables /\ \A q \in Slots \ {i} : proc'[q] = proc[q]
        /\ Kept(proc[i], proc'[i]) /\ proc'[i].state = "RUNNING" /\ proc'[i].runblenum = 0
    BY <1>1, <2>2, <2>5, TakesCpu
  <2>7. /\ pc' \in [Slots -> PCs] /\ \A q \in Slots \ {i} : pc'[q] = pc[q]
        /\ pc'[i] = CASE pc[i] = "asleep" -> "poll" [] pc[i] = "closing" -> "exit" [] OTHER -> pc[i]
    BY <2>5, Types DEF Resumes, PCs
  <2>8. PlaceAt(i)
    BY DEF ProcInv, TableInv
  <2>9. StepAt(i)
    BY <1>1, <2>2, <2>6, <2>7, <2>8 DEF StepAt, MoveAt, Counted, Started, PlaceAt, Places
  <2>10. \A q \in Slots : StepAt(q)
    BY <1>1, <2>6, <2>7, <2>9, Untouched
  <2>11. TableInv' /\ LifeStep
    BY <1>1, <2>6, <2>10, Steps
  <2>12. OnCpus'
    <3>1. /\ proc[i].state # "RUNNING"
          /\ \A q \in Slots \ {i} : proc'[q].state = "RUNNING" <=> proc[q].state = "RUNNING"
      BY <2>2, <2>6
    <3> QED BY <1>1, <2>5, <2>6, <3>1, CpuGiven, Zenon
  <2>13. cpu' \in [CPUS -> [proc : Slots \cup {NULL}, mainth : Slots \cup {NULL}]]
    BY <2>5, Types
  <2>14. TypeOK'
    BY <2>6, <2>7, <2>13, Types, Typed
  <2> QED BY <2>11, <2>12, <2>14 DEF ProcInv
<1> QED BY <1>2, <1>3

\* p leaves the CPU c for the scheduler.
LEMMA Leaves ==
  ASSUME ProcAssumption, ProcInv, NEW c \in CPUS, cpu[c].proc # NULL, NEW t \in Tables, NEW pcs, NEW queue,
         Sched(c, t, pcs, queue), queue \subseteq Slots, t[cpu[c].proc].state # "RUNNING",
         \A q \in Slots \ {cpu[c].proc} : t[q].state = "RUNNING" <=> proc[q].state = "RUNNING"
  PROVE  /\ proc' = t /\ pc' = pcs /\ OnCpus' /\ ready' \subseteq Slots
         /\ cpu' \in [CPUS -> [proc : Slots \cup {NULL}, mainth : Slots \cup {NULL}]]
<1>1. proc' = t /\ pc' = pcs /\ cpu' = [cpu EXCEPT ![c] = Idle] /\ ready' = queue \cup Requeued(t, cpu[c].mainth)
  BY DEF Sched
<1>2. cpu[c].proc \in Slots /\ cpu[c].mainth = cpu[c].proc
  BY Runs
<1>3. t[cpu[c].proc].idx \in Slots
  BY <1>2 DEF Tables, Procs
<1>4. ready' \subseteq Slots
  BY <1>1, <1>2, <1>3 DEF Requeued
<1>5. cpu' \in [CPUS -> [proc : Slots \cup {NULL}, mainth : Slots \cup {NULL}]]
  BY <1>1, Types DEF Idle
<1>6. OnCpus'
  <2>1. PICK p \in Slots : cpu[c].proc = p
    BY <1>2
  <2>2. /\ proc'[p].state # "RUNNING"
        /\ \A q \in Slots \ {p} : proc'[q].state = "RUNNING" <=> proc[q].state = "RUNNING"
    BY <1>1, <2>1
  <2> QED BY <1>1, <2>1, <2>2, CpuTaken, Zenon
<1> QED BY <1>1, <1>4, <1>5, <1>6

LEMMA YieldKeeps ==
  ASSUME ProcAssumption, ProcInv, NEW c \in CPUS, yield(c)
  PROVE  ProcInv' /\ LifeStep
<1> DEFINE p == cpu[c].proc
           t == MakeRunnable(proc, p)
<1>1. /\ p # NULL /\ Sched(c, t, pc, ready) /\ nextpid' = nextpid /\ vm' = vm /\ arg' = arg
      /\ signalled' = signalled /\ fault' = fault /\ proc \in Tables /\ Ringed(proc)
  BY Table DEF yield
<1>2. p \in Slots /\ proc[p].state = "RUNNING" /\ proc[p].runblenum = 0 /\ proc[p].mainth = p
  BY <1>1, Runs, Single
<1> HIDE DEF p
<1>3. /\ t \in Tables /\ \A q \in Slots \ {p} : t[q] = proc[q]
      /\ Kept(proc[p], t[p]) /\ t[p].state = "RUNNABLE" /\ t[p].runblenum = 1
  BY <1>1, <1>2, MakeRunnableAlone
<1> HIDE DEF t
<1>4. /\ proc' = t /\ pc' = pc /\ OnCpus' /\ ready' \subseteq Slots
      /\ cpu' \in [CPUS -> [proc : Slots \cup {NULL}, mainth : Slots \cup {NULL}]]
  BY <1>1, <1>3, Leaves, Types DEF p
<1>5. PlaceAt(p)
  BY <1>2 DEF ProcInv, TableInv
<1>6. StepAt(p)
  BY <1>1, <1>2, <1>3, <1>4, <1>5 DEF StepAt, MoveAt, Counted, Started, PlaceAt
<1>7. \A q \in Slots : StepAt(q)
  BY <1>1, <1>3, <1>4, <1>6, Untouched
<1>8. TableInv' /\ LifeStep
  BY <1>1, <1>3, <1>4, <1>7, Steps
<1>9. TypeOK'
  BY <1>1, <1>3, <1>4, Types, Typed
<1> QED BY <1>4, <1>8, <1>9 DEF ProcInv

LEMMA ThreadYieldKeeps ==
  ASSUME ProcAssumption, ProcInv, NEW c \in CPUS, thread_yield(c)
  PROVE  ProcInv' /\ LifeStep
<1> DEFINE p == cpu[c].proc
           t == MakeRunnable(proc, p)
           u == Tidy(Running(t, p, p), p)
<1>1. /\ p # NULL /\ ThreadSched(c, p, t, pc, ready) /\ nextpid' = nextpid /\ vm' = vm /\ arg' = arg
      /\ signalled' = signalled /\ fault' = fault /\ proc \in Tables /\ Ringed(proc) /\ Interruptible(p)
  BY Table DEF thread_yield
<1>2. /\ p \in Slots /\ proc[p].state = "RUNNING" /\ proc[p].runblenum = 0
      /\ proc[p].mainth = p /\ proc[p].nextth = p
  BY <1>1, Runs, Single
<1> HIDE DEF p
<1>3. /\ t \in Tables /\ \A q \in Slots \ {p} : t[q] = proc[q]
      /\ Kept(proc[p], t[p]) /\ t[p].state = "RUNNABLE" /\ t[p].runblenum = 1
  BY <1>1, <1>2, MakeRunnableAlone
<1>4. t[p].mainth = p /\ t[p].nextth = p
  BY <1>2, <1>3 DEF Kept
<1> HIDE DEF t
<1>5. NextRunnable(t, p) = p
  BY <1>2, <1>3, <1>4, RingAlone
<1>6. Ringed(t)
  BY <1>1, <1>2, <1>3 DEF Ringed, Alone, Kept
<1>7. /\ u \in Tables /\ \A q \in Slots \ {p} : u[q] = t[q]
      /\ Kept(t[p], u[p]) /\ u[p].state = "RUNNING" /\ u[p].runblenum = 0
  BY <1>2, <1>3, <1>6, TakesCpu
<1>8. p # NULL
  BY <1>1
<1>9. proc' = u /\ pc' = Resumes(pc, p) /\ ready' = ready /\ cpu' = [cpu EXCEPT ![c].proc = p]
  BY <1>1, <1>3, <1>4, <1>5, <1>8 DEF ThreadSched
<1> HIDE DEF u
<1>10. cpu' = cpu
  BY <1>9, Types DEF p
<1>11. pc' = pc
  BY <1>1, <1>9 DEF Resumes, Interruptible
<1>12. PlaceAt(p) /\ Kept(proc[p], u[p])
  BY <1>2, <1>3, <1>7 DEF ProcInv, TableInv, Kept
<1>13. StepAt(p)
  BY <1>1, <1>2, <1>7, <1>9, <1>11, <1>12 DEF StepAt, MoveAt, Counted, Started, PlaceAt
<1>14. \A q \in Slots \ {p} : proc'[q] = proc[q]
  BY <1>3, <1>7, <1>9
<1>15. \A q \in Slots : StepAt(q)
  BY <1>1, <1>11, <1>13, <1>14, Untouched
<1>16. TableInv' /\ LifeStep
  BY <1>1, <1>7, <1>9, <1>15, Steps
<1>17. OnCpus'
  <2>1. \A q \in Slots : proc'[q].state = "RUNNING" <=> proc[q].state = "RUNNING"
    BY <1>2, <1>7, <1>9, <1>14
  <2> QED BY <1>10, <2>1, CpusStay, Zenon
<1>18. TypeOK'
  BY <1>1, <1>7, <1>9, <1>10, <1>11, Types, Typed
<1> QED BY <1>16, <1>17, <1>18 DEF ProcInv

\* Steps of a system call that only move its process on.
LEMMA BecomeKeeps ==
  ASSUME ProcAssumption, ProcInv, NEW c \in CPUS, cpu[c].proc # NULL, NEW label \in Places \ {"fork"},
         label \in {"exit", "closing"} => cpu[c].proc # initproc,
         Become(cpu[c].proc, label), UNCHANGED <<proc, cpu, ready, nextpid, vm, arg, signalled, fault>>
  PROVE  ProcInv' /\ LifeStep
<1> DEFINE p == cpu[c].proc
<1>1. p \in Slots /\ proc[p].state = "RUNNING" /\ proc[p].runblenum = 0 /\ proc[p] \in Procs /\ proc \in Tables
  BY Runs, Types DEF Tables
<1>2. pc' = [pc EXCEPT ![p] = label] /\ (label \in {"exit", "closing"} => p # initproc)
  BY DEF Become
<1> HIDE DEF p
<1>3. pc'[p] = label /\ \A q \in Slots \ {p} : pc'[q] = pc[q]
  BY <1>1, <1>2, Types
<1>4. pc' \in [Slots -> PCs]
  BY <1>2, Types DEF Places, PCs
<1>5. StepAt(p)
  BY <1>1, <1>2, <1>3, Rest DEF StepAt, MoveAt, Counted, Started
<1>6. \A q \in Slots : StepAt(q)
  BY <1>3, <1>5, Untouched
<1>7. TableInv' /\ LifeStep
  BY <1>1, <1>6, Steps
<1>8. OnCpus'
  BY CpusStay
<1>9. TypeOK'
  BY <1>4, Types, Typed
<1> QED BY <1>7, <1>8, <1>9 DEF ProcInv

LEMMA MovesKeep ==
  ASSUME ProcAssumption, ProcInv, NEW c \in CPUS, Syscall(c) \/ ReadEnter(c) \/ ReadPoll(c) \/ Exiting(c)
  PROVE  ProcInv' /\ LifeStep
<1>1. CASE Syscall(c)
  BY <1>1, BecomeKeeps DEF Syscall, Places
<1>2. CASE ReadEnter(c)
  <2>1. PICK p \in Slots : Calls(c, p, "read") /\ Become(p, "poll")
                           /\ UNCHANGED <<proc, cpu, ready, nextpid, vm, arg, signalled, fault>>
    BY <1>2 DEF ReadEnter
  <2> QED BY <2>1, BecomeKeeps, Sizes DEF Calls, Places
<1>3. CASE ReadPoll(c)
  BY <1>3, BecomeKeeps DEF ReadPoll, Places
<1>4. CASE Exiting(c)
  BY <1>4, BecomeKeeps DEF Exiting, Places
<1> QED BY <1>1, <1>2, <1>3, <1>4

LEMMA Sleeps ==
  ASSUME ProcAssumption, ProcInv, NEW c \in CPUS, cpu[c].proc # NULL, NEW t \in Tables, NEW ch, NEW label,
         \A q \in Slots \ {cpu[c].proc} : t[q] = proc[q],
         Kept(proc[cpu[c].proc], t[cpu[c].proc]), t[cpu[c].proc].runblenum = 0,
         SleepOn(c, cpu[c].proc, t, ch, label), arg' = arg, nextpid' = nextpid,
         \/ label = "asleep" /\ ch = IO
         \/ label = "closing" /\ ch = IO /\ cpu[c].proc # initproc
         \/ label = "wait" /\ ch = cpu[c].proc /\ Zombies(cpu[c].proc) = {} /\ ~t[cpu[c].proc].killed
  PROVE  /\ TableInv' /\ LifeStep /\ OnCpus' /\ proc' \in Tables /\ ready' \subseteq Slots /\ pc' \in [Slots -> PCs]
         /\ cpu' \in [CPUS -> [proc : Slots \cup {NULL}, mainth : Slots \cup {NULL}]]
<1> DEFINE p == cpu[c].proc
           u == Asleep(t, p, ch)
           pcs == [pc EXCEPT ![p] = label]
<1>1. p \in Slots /\ proc[p].state = "RUNNING" /\ proc[p].mainth = p /\ proc[p].idx = p
  BY Table, Runs, Single
<1>2. ch \in Slots \cup {NULL, IO}
  BY <1>1
<1>3. Sched(c, u, pcs, ready)
  <2>1. t[t[p].mainth].runblenum = 0
    BY <1>1 DEF Kept
  <2> QED BY <2>1 DEF SleepOn, Asleep
<1>4. p # NULL
  OBVIOUS
<1>5. /\ \A q \in Slots \ {p} : t[q] = proc[q]
      /\ Kept(proc[p], t[p]) /\ t[p].runblenum = 0
      /\ \/ label = "asleep" /\ ch = IO
         \/ label = "closing" /\ ch = IO /\ p # initproc
         \/ label = "wait" /\ ch = p /\ Zombies(p) = {} /\ ~t[p].killed
  OBVIOUS
<1> HIDE DEF p
<1>6. /\ u \in Tables /\ \A q \in Slots \ {p} : u[q] = t[q]
      /\ Kept(t[p], u[p]) /\ u[p].state = "SLEEPING" /\ u[p].runblenum = 0
      /\ u[p].killed = t[p].killed /\ u[p].chan = ch
  BY <1>1, <1>2, <1>5, SleepAlone
<1> HIDE DEF u, pcs
<1>7. /\ proc' = u /\ pc' = pcs /\ OnCpus' /\ ready' \subseteq Slots
      /\ cpu' \in [CPUS -> [proc : Slots \cup {NULL}, mainth : Slots \cup {NULL}]]
  <2>1. /\ u[cpu[c].proc].state # "RUNNING" /\ ready \subseteq Slots
        /\ \A q \in Slots \ {cpu[c].proc} : u[q].state = "RUNNING" <=> proc[q].state = "RUNNING"
    BY <1>5, <1>6, Types DEF p
  <2> QED BY <1>3, <1>6, <2>1, Leaves
<1>8. pc' \in [Slots -> PCs] /\ pc'[p] = label /\ \A q \in Slots \ {p} : pc'[q] = pc[q]
  BY <1>1, <1>5, <1>7, Types DEF pcs, PCs
<1>9. Kept(proc[p], u[p])
  BY <1>5, <1>6 DEF Kept
<1>10. StepAt(p)
  BY <1>1, <1>5, <1>6, <1>7, <1>8, <1>9 DEF StepAt, MoveAt, Counted, Started, Places
<1>11. \A q \in Slots : StepAt(q)
  BY <1>5, <1>6, <1>7, <1>8, <1>10, Untouched
<1>12. TableInv' /\ LifeStep
  BY <1>6, <1>7, <1>11, Steps
<1> QED BY <1>6, <1>7, <1>8, <1>12

LEMMA ReadSleepKeeps ==
  ASSUME ProcAssumption, ProcInv, NEW c \in CPUS, ReadSleep(c)
  PROVE  ProcInv' /\ LifeStep
<1>1. /\ cpu[c].proc # NULL /\ SleepOn(c, cpu[c].proc, proc, IO, "asleep")
      /\ nextpid' = nextpid /\ vm' = vm /\ arg' = arg /\ signalled' = signalled /\ fault' = fault
  BY DEF ReadSleep
<1>2. proc \in Tables /\ Kept(proc[cpu[c].proc], proc[cpu[c].proc]) /\ proc[cpu[c].proc].runblenum = 0
  BY <1>1, Types, Runs, Rest DEF Tables
<1>3. /\ TableInv' /\ LifeStep /\ OnCpus' /\ proc' \in Tables /\ ready' \subseteq Slots /\ pc' \in [Slots -> PCs]
      /\ cpu' \in [CPUS -> [proc : Slots \cup {NULL}, mainth : Slots \cup {NULL}]]
  BY <1>1, <1>2, Sleeps
<1>4. TypeOK'
  BY <1>1, <1>3, Types, Typed
<1> QED BY <1>3, <1>4 DEF ProcInv

LEMMA ExitSleepKeeps ==
  ASSUME ProcAssumption, ProcInv, NEW c \in CPUS, ExitSleep(c)
  PROVE  ProcInv' /\ LifeStep
<1>1. /\ cpu[c].proc # NULL /\ SleepOn(c, cpu[c].proc, proc, IO, "closing") /\ pc[cpu[c].proc] = "exit"
      /\ nextpid' = nextpid /\ vm' = vm /\ arg' = arg /\ signalled' = signalled /\ fault' = fault
  BY DEF ExitSleep
<1>2. proc \in Tables /\ Kept(proc[cpu[c].proc], proc[cpu[c].proc]) /\ proc[cpu[c].proc].runblenum = 0
  BY <1>1, Types, Runs, Rest DEF Tables
<1>3. cpu[c].proc # initproc
  <2>1. PlaceAt(cpu[c].proc)
    BY <1>1, Runs DEF ProcInv, TableInv
  <2> QED BY <1>1, <2>1 DEF PlaceAt
<1>4. /\ TableInv' /\ LifeStep /\ OnCpus' /\ proc' \in Tables /\ ready' \subseteq Slots /\ pc' \in [Slots -> PCs]
      /\ cpu' \in [CPUS -> [proc : Slots \cup {NULL}, mainth : Slots \cup {NULL}]]
  BY <1>1, <1>2, <1>3, Sleeps
<1>5. TypeOK'
  BY <1>1, <1>4, Types, Typed
<1> QED BY <1>4, <1>5 DEF ProcInv

\* Sleepers wake up: only slots of W change, and no CPU.
LEMMA WakeKeeps ==
  ASSUME ProcAssumption, ProcInv, wakeup(IO)
  PROVE  ProcInv' /\ LifeStep
<1> DEFINE W == SleepersOn(proc, IO)
<1>1. /\ proc' = WakeSet(proc, W) /\ ready' = ready \cup Queued(proc, W)
      /\ UNCHANGED <<cpu, nextpid, vm, pc, arg, signalled, fault>>
  BY DEF wakeup
<1>2. W \subseteq Slots /\ \A q \in W : proc[q].state = "SLEEPING"
  BY DEF SleepersOn
<1> HIDE DEF W
<1>3. /\ proc' \in Tables /\ \A p \in Slots \ W : proc'[p] = proc[p]
      /\ \A p \in W : Woken(proc[p], proc'[p])
      /\ Queued(proc, W) \subseteq Slots
  BY <1>1, <1>2, Table, WakeAlone
<1>4. ASSUME NEW p \in W PROVE StepAt(p)
  <2>1. PlaceAt(p) /\ proc[p].state = "SLEEPING" /\ Woken(proc[p], proc'[p])
    BY <1>2, <1>3 DEF ProcInv, TableInv
  <2> QED BY <1>1, <2>1 DEF PlaceAt, StepAt, MoveAt, Woken, Counted, Started
<1>5. \A q \in Slots : StepAt(q)
  BY <1>1, <1>3, <1>4, Untouched
<1>6. TableInv' /\ LifeStep
  BY <1>1, <1>3, <1>5, Steps
<1>7. OnCpus'
  <2>1. \A q \in Slots : proc'[q].state = "RUNNING" <=> proc[q].state = "RUNNING"
    BY <1>2, <1>3 DEF Woken
  <2> QED BY <1>1, <2>1, CpusStay
<1>8. TypeOK'
  BY <1>1, <1>3, Types, Typed
<1> QED BY <1>6, <1>7, <1>8 DEF ProcInv

LEMMA ExecKeeps ==
  ASSUME ProcAssumption, ProcInv, NEW c \in CPUS, exec(c)
  PROVE  ProcInv' /\ LifeStep
<1> DEFINE new == FirstOf(PageTables \ vm)
<1>1. PICK p \in Slots :
        LET old == proc[proc[p].mainth].pgdir
        IN  /\ Calls(c, p, "exec")
            /\ PageTables # vm
            /\ proc' = PrepareExec(proc, p, new)
            /\ vm' = (vm \cup {new}) \ {old}
            /\ fault' = IF old \in vm THEN fault ELSE "freevm"
            /\ Become(p, "user")
            /\ UNCHANGED <<cpu, ready, nextpid, arg, signalled>>
  BY DEF exec
<1>2. cpu[c].proc = p /\ p # NULL
  BY <1>1, Sizes DEF Calls
<1>3. proc[p].state = "RUNNING" /\ Ringed(proc) /\ proc \in Tables
  BY <1>2, Runs, Table
<1>4. new \in PageTables
  <2>1. PageTables \ vm \subseteq Nat /\ PageTables \ vm # {}
    BY <1>1, Sizes, Types
  <2> QED BY <2>1, FirstIn
<1> HIDE DEF new
<1>5. /\ proc' \in Tables /\ \A q \in Slots \ {p} : proc'[q] = proc[q]
      /\ Kept(proc[p], proc'[p]) /\ proc'[p].state = "RUNNING" /\ proc'[p].runblenum = 0
  BY <1>1, <1>3, <1>4, ExecAlone
<1>6. pc' \in [Slots -> PCs] /\ pc'[p] = "user" /\ \A q \in Slots \ {p} : pc'[q] = pc[q]
  BY <1>1, Types DEF Become, PCs
<1>7. StepAt(p)
  BY <1>3, <1>5, <1>6 DEF StepAt, MoveAt, Counted, Started, Places
<1>8. \A q \in Slots : StepAt(q)
  BY <1>1, <1>5, <1>6, <1>7, Untouched
<1>9. TableInv' /\ LifeStep
  BY <1>1, <1>5, <1>8, Steps
<1>10. OnCpus'
  <2>1. \A q \in Slots : proc'[q].state = "RUNNING" <=> proc[q].state = "RUNNING"
    BY <1>3, <1>5
  <2> QED BY <1>1, <2>1, CpusStay
<1>11. TypeOK'
  <2>1. vm' \subseteq PageTables /\ fault' \in {"none", "kill loops", "freevm", "null thread", "zombie thread"}
    BY <1>1, <1>4, Types
  <2> QED BY <1>1, <1>5, <1>6, <2>1, Types, Typed
<1> QED BY <1>9, <1>10, <1>11 DEF ProcInv

LEMMA KillKeeps ==
  ASSUME ProcAssumption, ProcInv, NEW c \in CPUS, NEW pid \in Killable, kill(c, pid)
  PROVE  ProcInv' /\ LifeStep
<1> DEFINE V == {q \in Slots : proc[q].pid = pid}
           v == FirstOf(V)
<1>1. PICK p \in Slots :
        /\ Calls(c, p, "kill")
        /\ \/ V = {} /\ UNCHANGED <<proc, ready, fault>>
           \/ /\ V # {} /\ proc' = Killed(proc, v)
              /\ ready' = ready \cup Queued(proc, KillSleepers(proc, v))
              /\ fault' = IF Closes(proc, v) THEN fault ELSE "kill loops"
        /\ Become(p, "user")
        /\ signalled' = signalled \cup {pid}
        /\ UNCHANGED <<cpu, nextpid, vm, arg>>
  BY DEF kill
<1>2. cpu[c].proc = p /\ p # NULL
  BY <1>1, Sizes DEF Calls
<1>3. proc[p].state = "RUNNING" /\ Ringed(proc) /\ proc \in Tables
  BY <1>2, Runs, Table
<1>4. pc' \in [Slots -> PCs] /\ pc'[p] = "user" /\ \A q \in Slots \ {p} : pc'[q] = pc[q]
  BY <1>1, Types DEF Become, PCs
<1>5. pid \in Pids /\ pid # 0
  BY DEF ProcAssumption, Pids
<1>6. signalled' \subseteq Pids
  BY <1>1, <1>5, Types
<1>7. CASE V = {}
  <2>1. proc' = proc /\ ready' = ready /\ fault' = fault
    BY <1>1, <1>7
  <2>2. StepAt(p)
    <3>1. Alone(proc[p], p) /\ Kept(proc[p], proc[p])
      BY <1>3, Rest DEF Ringed, Tables
    <3> QED BY <1>3, <1>4, <2>1, <3>1 DEF StepAt, MoveAt, Counted, Started, Places, Alone
  <2>3. \A q \in Slots : StepAt(q)
    BY <1>1, <1>4, <2>1, <2>2, Untouched
  <2>4. TableInv' /\ LifeStep
    BY <1>1, <1>3, <2>1, <2>3, Steps
  <2>5. OnCpus'
    BY <1>1, <2>1, CpusStay
  <2>6. TypeOK'
    BY <1>1, <1>4, <1>6, <2>1, Types, Typed
  <2> QED BY <2>4, <2>5, <2>6 DEF ProcInv
<1>8. CASE V # {}
  <2>1. v \in Slots /\ proc[v].pid # 0
    <3>1. V \subseteq Nat
      BY Sizes
    <3>2. v \in V
      BY <1>8, <3>1, FirstIn
    <3> QED BY <1>5, <3>2
  <2>2. /\ proc' = Killed(proc, v) /\ ready' = ready \cup Queued(proc, KillSleepers(proc, v))
        /\ fault' = IF Closes(proc, v) THEN fault ELSE "kill loops"
    BY <1>1, <1>8
  <2> HIDE DEF v, V
  <2>3. /\ proc' \in Tables /\ \A q \in Slots \ {v} : proc'[q] = proc[q]
        /\ Kept(proc[v], proc'[v])
        /\ proc'[v].state = IF proc[v].state = "SLEEPING" THEN "RUNNABLE" ELSE proc[v].state
        /\ Counted(proc'[v]) /\ Queued(proc, KillSleepers(proc, v)) \subseteq Slots
    BY <1>3, <2>1, <2>2, KilledAlone
  <2>4. ASSUME NEW q \in Slots PROVE StepAt(q)
    <3>1. PlaceAt(q) /\ Alone(proc[q], q) /\ Kept(proc[q], proc[q])
      BY <1>3, Rest DEF ProcInv, TableInv, Tables
    <3>2. /\ Kept(proc[q], proc'[q]) /\ Counted(proc'[q])
          /\ proc'[q].state = proc[q].state \/ (Started(proc[q]) /\ Started(proc'[q]))
      BY <2>3, <3>1 DEF Counted, Started, Alone
    <3>3. proc'[q].state = "SLEEPING" => proc'[q] = proc[q]
      BY <2>3
    <3>4. CASE q = p
      BY <1>1, <1>3, <1>4, <3>2, <3>3, <3>4 DEF StepAt, MoveAt, Started, Places
    <3>5. CASE q # p
      BY <1>1, <1>4, <3>1, <3>2, <3>3, <3>5 DEF StepAt, MoveAt, Started, PlaceAt
    <3> QED BY <3>4, <3>5
  <2>5. TableInv' /\ LifeStep
    BY <1>1, <2>3, <2>4, Steps
  <2>6. OnCpus'
    <3>1. \A q \in Slots : proc'[q].state = "RUNNING" <=> proc[q].state = "RUNNING"
      BY <2>3
    <3> QED BY <1>1, <3>1, CpusStay
  <2>7. TypeOK'
    <3>1. ready' \subseteq Slots /\ fault' \in {"none", "kill loops", "freevm", "null thread", "zombie thread"}
      BY <2>2, <2>3, Types
    <3> QED BY <1>1, <1>4, <1>6, <2>3, <3>1, Types, Typed
  <2> QED BY <2>5, <2>6, <2>7 DEF ProcInv
<1> QED BY <1>7, <1>8

-----------------------------------------------------------------------------
\* Slot x, which no process runs in, is allocated, published or freed.
SlotAt(x) ==
  /\ ~Started(proc[x]) /\ proc'[x] \in Procs /\ Alone(proc'[x], x)
  /\ proc'[x].state \in {"UNUSED", "EMBRYO", "RUNNABLE"} /\ pc'[x] = "user"
  /\ proc'[x].parent # NULL => /\ proc'[x].state = "RUNNABLE" /\ proc'[x].parent # x
                               /\ proc'[x].parent \in Slots /\ Started(proc'[proc'[x].parent])
  /\ proc'[x].pid < nextpid'
  /\ \A q \in Slots \ {x} : proc'[x].pid = proc[q].pid =>
       proc'[x].state = "UNUSED" \/ proc[q].state = "UNUSED"
ForkAt(q) ==
  pc'[q] = "fork" => /\ arg'[q] \in Slots /\ proc'[arg'[q]].state = "EMBRYO"
                     /\ \A r \in Slots : pc'[r] = "fork" /\ arg'[r] = arg'[q] => q = r

LEMMA SlotSteps ==
  ASSUME ProcAssumption, ProcInv, NEW x \in Slots, SlotAt(x), nextpid' \in Nat, nextpid <= nextpid', proc' \in Tables,
         \A q \in Slots \ {x} : MoveAt(q), \A q \in Slots : ForkAt(q)
  PROVE  TableInv'
<1>1. \A q \in Slots : proc[q] \in Procs /\ Alone(proc[q], q) /\ PlaceAt(q) /\ Parented(q)
  BY DEF ProcInv, TableInv, TypeOK, Procs
<1>2. \A q \in Slots \ {x} : /\ proc'[q].pid = proc[q].pid /\ (proc'[q].state = "UNUSED" <=> proc[q].state = "UNUSED")
                             /\ proc'[q].parent = proc[q].parent
                             /\ Started(proc[q]) <=> Started(proc'[q])
                             /\ proc'[q].state = "ZOMBIE" <=> proc[q].state = "ZOMBIE"
                             /\ proc'[q].state = "EMBRYO" <=> proc[q].state = "EMBRYO"
  BY DEF MoveAt, Kept, Started
<1>3. Numbered'
  <2>1. Numbered
    BY DEF ProcInv, TableInv
  <2>2. ASSUME NEW p \in Slots PROVE proc'[p].pid < nextpid'
    <3>1. CASE p = x
      BY <3>1 DEF SlotAt
    <3>2. CASE p # x
      <4>1. proc[p].pid \in Nat
        BY <1>1 DEF Procs
      <4>3. nextpid \in Nat
        <5>1. nextpid \in 2 .. MaxPid + 1 /\ MaxPid \in Nat
          BY Types DEF ProcAssumption
        <5> QED BY ONLY <5>1
      <4>2. proc[p].pid < nextpid /\ proc'[p].pid = proc[p].pid
        BY <1>2, <2>1, <3>2 DEF Numbered
      <4> QED BY <4>1, <4>2, <4>3
    <3> QED BY <3>1, <3>2
  <2>3. ASSUME NEW p \in Slots, NEW q \in Slots, proc'[p].pid = proc'[q].pid
        PROVE  p = q \/ proc'[p].state = "UNUSED" \/ proc'[q].state = "UNUSED"
    <3>1. CASE p # x /\ q # x
      BY <1>2, <2>1, <2>3, <3>1 DEF Numbered
    <3>2. CASE p = x /\ q # x
      BY <1>2, <2>3, <3>2 DEF SlotAt
    <3>3. CASE p # x /\ q = x
      BY <1>2, <2>3, <3>3 DEF SlotAt
    <3> QED BY <3>1, <3>2, <3>3
  <2> QED BY <2>2, <2>3 DEF Numbered
<1>4. Started(proc[initproc])' /\ proc'[initproc].pid = 1
  <2>1. Started(proc[initproc]) /\ proc[initproc].pid = 1 /\ initproc \in Slots
    BY Sizes DEF ProcInv, TableInv
  <2>2. initproc # x
    BY <2>1 DEF SlotAt
  <2> QED BY <1>2, <2>1, <2>2
<1>5. ASSUME NEW p \in Slots PROVE Alone(proc[p], p)'
  <2>1. CASE p = x
    BY <2>1 DEF SlotAt
  <2>2. CASE p # x
    <3>1. Alone(proc[p], p) /\ MoveAt(p)
      BY <1>1, <2>2
    <3>2. Alone(proc'[p], p)
      BY <3>1 DEF Alone, MoveAt, Kept, Counted, Started
    <3> QED BY <3>2
  <2> QED BY <2>1, <2>2
<1>6. ASSUME NEW p \in Slots PROVE Parented(p)'
  <2>1. CASE p = x
    <3>1. p # initproc
      BY <2>1 DEF SlotAt, ProcInv, TableInv
    <3> QED BY <2>1, <3>1 DEF SlotAt, Parented
  <2>2. CASE p # x
    <3>1. Parented(p) /\ proc'[p].parent = proc[p].parent
      BY <1>1, <1>2, <2>2
    <3>2. proc[p].parent # NULL => proc[p].parent \in Slots /\ proc[p].parent # x
      BY <1>1, <3>1 DEF Procs, Parented, SlotAt
    <3>3. proc[p].parent # NULL => Started(proc'[proc[p].parent])
      BY <1>2, <3>1, <3>2 DEF Parented
    <3>4. proc'[p].state \in {"UNUSED", "EMBRYO"} => proc[p].state \in {"UNUSED", "EMBRYO"}
      BY <1>2, <2>2
    <3> QED BY <3>1, <3>3, <3>4 DEF Parented
  <2> QED BY <2>1, <2>2
<1>7. ASSUME NEW p \in Slots PROVE PlaceAt(p)'
  <2>1. /\ pc'[p] \in Places
        /\ ~Started(proc'[p]) => pc'[p] = "user"
        /\ proc'[p].state = "SLEEPING" => \/ pc'[p] = "wait" /\ proc'[p].chan = p
                                          \/ pc'[p] \in {"asleep", "closing"} /\ proc'[p].chan = IO
        /\ pc'[p] \in {"exit", "closing"} => p # initproc
    <3>1. CASE p = x
      BY <3>1 DEF SlotAt, Places
    <3>2. CASE p # x
      BY <3>2 DEF MoveAt
    <3> QED BY <3>1, <3>2
  <2>2. ForkAt(p)
    OBVIOUS
  <2> QED BY <2>1, <2>2 DEF PlaceAt, ForkAt
<1>8. NoLostExit'
  <2> SUFFICES ASSUME NEW p \in Slots, proc'[p].state = "SLEEPING", pc'[p] = "wait"
               PROVE  Zombies(p)' = {} /\ ~proc'[p].killed
    BY DEF NoLostExit
  <2>1. p # x
    BY DEF SlotAt
  <2>2. Zombies(p)' \subseteq Zombies(p)
    BY <1>2 DEF Zombies, Kids, SlotAt
  <2>3. Zombies(p) = {} /\ ~proc'[p].killed
    BY <2>1 DEF ProcInv, TableInv, NoLostExit, MoveAt
  <2> QED BY <2>2, <2>3
<1> QED BY <1>3, <1>4, <1>5, <1>6, <1>7, <1>8 DEF TableInv

\* The forks under way keep their slots.
LEMMA ForksStay ==
  ASSUME ProcInv, NEW x \in Slots, \A q \in Slots \ {x} : StepAt(q), pc'[x] = "user",
         \A q \in Slots : pc'[q] = "fork" => pc[q] # "fork" \/ arg[q] # x
  PROVE  \A q \in Slots : ForkAt(q)
<1> SUFFICES ASSUME NEW q \in Slots, pc'[q] = "fork" PROVE ForkAt(q)
  BY DEF ForkAt
<1>1. q # x /\ pc[q] = "fork" /\ arg'[q] = arg[q] /\ PlaceAt(q)
  BY DEF StepAt, ProcInv, TableInv
<1>2. arg[q] \in Slots /\ proc[arg[q]].state = "EMBRYO" /\ arg[q] # x
  BY <1>1 DEF PlaceAt
<1>3. proc'[arg[q]].state = "EMBRYO"
  BY <1>2 DEF StepAt, MoveAt, Started
<1>4. ASSUME NEW r \in Slots, pc'[r] = "fork", arg'[r] = arg'[q] PROVE q = r
  <2>1. pc[r] = "fork" /\ arg'[r] = arg[r]
    BY <1>4 DEF StepAt
  <2> QED BY <1>1, <1>4, <2>1 DEF PlaceAt
<1> QED BY <1>1, <1>2, <1>3, <1>4 DEF ForkAt

LEMMA ForkAllocKeeps ==
  ASSUME ProcAssumption, ProcInv, NEW c \in CPUS, ForkAlloc(c)
  PROVE  ProcInv' /\ LifeStep
<1>1. PICK p \in Slots :
    /\ Calls(c, p, "fork") /\ nextpid <= MaxPid
    /\ \/ /\ Unused(proc) = {}
          /\ Become(p, "user")
          /\ UNCHANGED <<proc, arg, nextpid>>
       \/ \E np \in Slots :
            /\ Unused(proc) # {}
            /\ np = FirstOf(Unused(proc))
            /\ proc' = Allocproc(proc, np, nextpid)
            /\ nextpid' = nextpid + 1
            /\ pc' = [pc EXCEPT ![p] = "fork", ![np] = "user"]
            /\ arg' = [arg EXCEPT ![p] = np]
    /\ UNCHANGED <<cpu, ready, vm, signalled, fault>>
  BY DEF ForkAlloc
<1>2. cpu[c].proc = p /\ p # NULL
  BY <1>1, Sizes DEF Calls
<1>3. /\ proc[p].state = "RUNNING" /\ proc[p].runblenum = 0 /\ Ringed(proc) /\ proc \in Tables
      /\ Kept(proc[p], proc[p])
  BY <1>2, Runs, Table, Rest DEF Tables
<1>4. CASE Unused(proc) = {}
  <2>1. Become(cpu[c].proc, "user") /\ UNCHANGED <<proc, cpu, ready, nextpid, vm, arg, signalled, fault>>
    BY <1>1, <1>2, <1>4
  <2> QED BY <1>2, <2>1, BecomeKeeps DEF Places
<1>5. CASE Unused(proc) # {}
  <2>1. PICK np \in Slots :
            /\ np = FirstOf(Unused(proc))
            /\ proc' = Allocproc(proc, np, nextpid)
            /\ nextpid' = nextpid + 1
            /\ pc' = [pc EXCEPT ![p] = "fork", ![np] = "user"]
            /\ arg' = [arg EXCEPT ![p] = np]
    BY <1>1, <1>5
  <2>2. proc[np].state = "UNUSED"
    <3>1. Unused(proc) \subseteq Nat
      BY Sizes DEF Unused
    <3>2. np \in Unused(proc)
      BY <1>5, <2>1, <3>1, FirstIn
    <3> QED BY <3>2 DEF Unused
  <2>3. np # p
    BY <1>3, <2>2
  <2>4. nextpid \in 1 .. MaxPid /\ nextpid' \in 2 .. MaxPid + 1
    <3>1. nextpid \in 2 .. MaxPid + 1 /\ nextpid <= MaxPid /\ nextpid' = nextpid + 1 /\ MaxPid \in Nat
      BY <1>1, <2>1, Types DEF ProcAssumption
    <3> QED BY ONLY <3>1
  <2>5. /\ proc' \in Tables /\ \A q \in Slots \ {np} : proc'[q] = proc[q]
        /\ Alone(proc'[np], np) /\ proc'[np].state = "EMBRYO" /\ proc'[np].pid = nextpid
        /\ proc'[np].parent = proc[np].parent
    BY <1>3, <2>1, <2>4, AllocAlone
  <2>6. /\ pc' \in [Slots -> PCs] /\ pc'[p] = "fork" /\ pc'[np] = "user"
        /\ \A q \in Slots \ {p, np} : pc'[q] = pc[q]
    BY <2>1, <2>3, Types DEF PCs
  <2>7. /\ arg' \in [Slots -> Slots \cup 1 .. MaxThid] /\ arg'[p] = np
        /\ \A q \in Slots \ {p} : arg'[q] = arg[q]
    BY <2>1, Types
  <2>8. SlotAt(np)
    <3>1. Parented(np) /\ Numbered
      BY DEF ProcInv, TableInv
    <3>2. ~Started(proc[np]) /\ proc'[np] \in Procs /\ proc'[np].parent = NULL
      BY <2>2, <2>5, <3>1 DEF Started, Tables, Parented
    <3>3. proc'[np].pid < nextpid'
      BY <2>1, <2>4, <2>5
    <3>4. ASSUME NEW q \in Slots, proc'[np].pid = proc[q].pid PROVE FALSE
      <4>1. proc[q].pid < nextpid /\ proc[q].pid = nextpid /\ nextpid \in Nat
        BY <2>4, <2>5, <3>1, <3>4 DEF Numbered
      <4> QED BY <4>1
    <3> QED BY <2>5, <2>6, <3>2, <3>3, <3>4 DEF SlotAt
  <2>9. ASSUME NEW q \in Slots \ {np} PROVE MoveAt(q)
    <3>1. PlaceAt(q) /\ Alone(proc[q], q) /\ Kept(proc[q], proc'[q])
      BY <1>3, <2>5, Rest DEF ProcInv, TableInv, Tables
    <3>2. CASE q = p
      BY <1>3, <2>5, <2>6, <3>1, <3>2 DEF MoveAt, Counted, Started, Places
    <3>3. CASE q # p
      BY <2>5, <2>6, <3>1, <3>3 DEF MoveAt, Counted, Alone, PlaceAt
    <3> QED BY <3>2, <3>3
  <2>10. ASSUME NEW q \in Slots PROVE ForkAt(q)
    <3>1. \A r \in Slots \ {p} : pc'[r] = "fork" => /\ pc[r] = "fork" /\ arg'[r] = arg[r] /\ arg[r] # np
                                                    /\ arg[r] \in Slots /\ proc[arg[r]].state = "EMBRYO"
                                                    /\ \A s \in Slots : pc[s] = "fork" /\ arg[s] = arg[r] => r = s
      BY <2>2, <2>6, <2>7 DEF ProcInv, TableInv, PlaceAt
    <3>2. CASE q = p
      BY <2>5, <2>7, <3>1, <3>2 DEF ForkAt
    <3>3. CASE q # p
      BY <2>5, <2>7, <3>1, <3>3 DEF ForkAt
    <3> QED BY <3>2, <3>3
  <2>11. TableInv'
    <3>1. nextpid' \in Nat /\ nextpid <= nextpid'
      BY <2>1, <2>4
    <3> QED BY <2>5, <2>8, <2>9, <2>10, <3>1, SlotSteps
  <2>12. OnCpus'
    <3>1. \A q \in Slots : proc'[q].state = "RUNNING" <=> proc[q].state = "RUNNING"
      BY <2>2, <2>5
    <3> QED BY <1>1, <3>1, CpusStay
  <2>13. TypeOK'
    BY <1>1, <2>4, <2>5, <2>6, <2>7, Types, Typed
  <2>14. LifeStep
    <3>1. \A q \in Slots \ {np} : Same(q)
      BY <2>5 DEF Same
    <3>2. Parented(np)
      BY DEF ProcInv, TableInv
    <3>3. AllocStep(np)
      BY <2>1, <2>2, <2>5, <3>2 DEF AllocStep, Parented
    <3> QED BY <3>1, <3>3 DEF LifeStep
  <2> QED BY <2>11, <2>12, <2>13, <2>14 DEF ProcInv
<1> QED BY <1>4, <1>5

\* The process forking on CPU c, and its child's slot.
LEMMA Forking ==
  ASSUME ProcAssumption, ProcInv, NEW c \in CPUS, cpu[c].proc # NULL, pc[cpu[c].proc] = "fork"
  PROVE  /\ cpu[c].proc \in Slots /\ arg[cpu[c].proc] \in Slots /\ arg[cpu[c].proc] # cpu[c].proc
         /\ proc[cpu[c].proc].state = "RUNNING" /\ proc[arg[cpu[c].proc]].state = "EMBRYO"
         /\ pc[arg[cpu[c].proc]] = "user" /\ proc[arg[cpu[c].proc]].parent = NULL
         /\ \A q \in Slots : pc[q] = "fork" /\ arg[q] = arg[cpu[c].proc] => q = cpu[c].proc
<1>1. cpu[c].proc \in Slots /\ proc[cpu[c].proc].state = "RUNNING"
  BY Runs
<1>2. PlaceAt(cpu[c].proc)
  BY <1>1 DEF ProcInv, TableInv
<1>3. arg[cpu[c].proc] \in Slots /\ proc[arg[cpu[c].proc]].state = "EMBRYO"
  BY <1>2 DEF PlaceAt
<1>4. PlaceAt(arg[cpu[c].proc]) /\ Parented(arg[cpu[c].proc])
  BY <1>3 DEF ProcInv, TableInv
<1>5. pc[arg[cpu[c].proc]] = "user" /\ proc[arg[cpu[c].proc]].parent = NULL
  BY <1>3, <1>4 DEF PlaceAt, Parented, Started
<1> QED BY <1>1, <1>2, <1>3, <1>5 DEF PlaceAt

\* The end of fork: p runs on and the slot np is published, or given back.
LEMMA ForkEnds ==
  ASSUME ProcAssumption, ProcInv, NEW c \in CPUS, cpu[c].proc # NULL, pc[cpu[c].proc] = "fork",
         Become(cpu[c].proc, "user"), UNCHANGED <<cpu, nextpid, arg>>, proc' \in Tables,
         NEW np, np = arg[cpu[c].proc],
         \A q \in Slots \ {np} : proc'[q] = proc[q],
         Alone(proc'[np], np), proc'[np].pid = proc[np].pid,
         \/ proc'[np].state = "RUNNABLE" /\ proc'[np].parent = cpu[c].proc
         \/ proc'[np].state = "UNUSED" /\ proc'[np].parent = NULL
  PROVE  TableInv' /\ LifeStep /\ OnCpus' /\ pc' \in [Slots -> PCs]
<1> DEFINE p == cpu[c].proc
<1>1. /\ p \in Slots /\ np \in Slots /\ np # p /\ proc[p].state = "RUNNING" /\ proc[np].state = "EMBRYO"
      /\ pc[np] = "user" /\ \A q \in Slots : pc[q] = "fork" /\ arg[q] = np => q = p
  BY Forking
<1>2. pc' = [pc EXCEPT ![p] = "user"]
  BY DEF Become
<1>3. \/ proc'[np].state = "RUNNABLE" /\ proc'[np].parent = p
      \/ proc'[np].state = "UNUSED" /\ proc'[np].parent = NULL
  OBVIOUS
<1> HIDE DEF p
<1>4. pc' \in [Slots -> PCs] /\ pc'[p] = "user" /\ \A q \in Slots \ {p} : pc'[q] = pc[q]
  BY <1>1, <1>2, Types DEF PCs
<1>5. SlotAt(np)
  <2>1. Numbered
    BY DEF ProcInv, TableInv
  <2>2. ~Started(proc[np]) /\ Started(proc[p]) /\ proc'[np] \in Procs
    BY <1>1 DEF Started, Tables
  <2>3. \A q \in Slots \ {np} : proc'[np].pid = proc[q].pid => proc[q].state = "UNUSED"
    <3>1. proc'[np].pid = proc[np].pid /\ proc[np].state # "UNUSED"
      BY <1>1
    <3>2. \A q \in Slots \ {np} : proc[np].pid = proc[q].pid => proc[q].state = "UNUSED"
      BY <1>1, <2>1, <3>1 DEF Numbered
    <3> QED BY ONLY <3>1, <3>2
  <2>4. proc'[np].pid < nextpid'
    <3>1. proc'[np].pid = proc[np].pid /\ nextpid' = nextpid
      OBVIOUS
    <3>2. proc[np].pid < nextpid
      BY <1>1, <2>1 DEF Numbered
    <3> QED BY ONLY <3>1, <3>2
  <2>5. proc'[np].parent # NULL => /\ proc'[np].state = "RUNNABLE" /\ proc'[np].parent # np
                                   /\ proc'[np].parent \in Slots /\ Started(proc'[proc'[np].parent])
    <3>1. CASE proc'[np].parent = NULL
      BY <3>1
    <3>2. CASE proc'[np].parent = p /\ proc'[np].state = "RUNNABLE"
      <4>1. Started(proc'[p])
        BY <1>1, <2>2
      <4> QED BY <1>1, <3>2, <4>1
    <3> QED BY <1>3, <3>1, <3>2
  <2> QED BY <1>1, <1>3, <1>4, <2>2, <2>3, <2>4, <2>5 DEF SlotAt
<1>6. ASSUME NEW q \in Slots \ {np} PROVE StepAt(q)
  <2>1. CASE q = p
    <3>1. Alone(proc[p], p) /\ Kept(proc[p], proc'[p])
      BY <1>1, Types, Rest DEF ProcInv, TableInv, Tables
    <3> QED BY <1>1, <1>4, <2>1, <3>1 DEF StepAt, MoveAt, Counted, Alone, Started, Places
  <2>2. CASE q # p
    BY <1>4, <2>2, Untouched
  <2> QED BY <2>1, <2>2
<1>7. \A q \in Slots : ForkAt(q)
  <2>1. \A q \in Slots : pc'[q] = "fork" => pc[q] # "fork" \/ arg[q] # np
    BY <1>1, <1>4
  <2>2. pc'[np] = "user"
    BY <1>1, <1>4
  <2> QED BY <1>1, <1>6, <2>1, <2>2, ForksStay
<1>8. TableInv'
  <2>1. nextpid' \in Nat /\ nextpid <= nextpid'
    <3>1. nextpid \in 2 .. MaxPid + 1 /\ MaxPid \in Nat /\ nextpid' = nextpid
      BY Types DEF ProcAssumption
    <3> QED BY ONLY <3>1
  <2>2. \A q \in Slots \ {np} : MoveAt(q)
    BY <1>6 DEF StepAt
  <2> QED BY <1>1, <1>5, <1>7, <2>1, <2>2, SlotSteps
<1>9. OnCpus'
  <2>1. \A q \in Slots : proc'[q].state = "RUNNING" <=> proc[q].state = "RUNNING"
    BY <1>1, <1>3
  <2> QED BY <2>1, CpusStay
<1>10. LifeStep
  <2>1. \A q \in Slots \ {np} : Same(q)
    BY DEF Same
  <2>2. PublishStep(np) \/ AbandonStep(np)
    BY <1>1, <1>3 DEF PublishStep, AbandonStep
  <2> QED BY <1>1, <2>1, <2>2 DEF LifeStep
<1> QED BY <1>4, <1>8, <1>9, <1>10

Born(t, np, dir, p) == [t EXCEPT ![np].pgdir = dir, ![np].parent = p]
GivenBack(t, np) == [t EXCEPT ![np].state = "UNUSED"]

LEMMA BornAlone ==
  ASSUME ProcAssumption, NEW t \in Tables, NEW np \in Slots, NEW p \in Slots, NEW dir \in PageTables
  PROVE  /\ Born(t, np, dir, p) \in Tables
         /\ \A q \in Slots \ {np} : Born(t, np, dir, p)[q] = t[q]
         /\ Passed(t[np], Born(t, np, dir, p)[np], p)
<1> DEFINE r == t[np]
           u == Born(t, np, dir, p)
           v == u[np]
<1>1. r \in Procs
  BY DEF Tables
<1>2. v = [r EXCEPT !.pgdir = dir, !.parent = p]
  BY DEF Tables, Born
<1>3. \A q \in Slots \ {np} : u[q] = t[q]
  BY DEF Tables, Born
<1>4. u = [q \in Slots |-> u[q]]
  BY DEF Tables, Born
<1> HIDE DEF u, r, v
<1>5. Passed(r, v, p)
  BY <1>1, <1>2 DEF Passed, Procs
<1>6. \A q \in Slots : u[q] \in Procs
  BY <1>3, <1>5 DEF Tables, v, Passed
<1>7. u \in Tables
  BY <1>4, <1>6 DEF Tables
<1> QED BY <1>3, <1>5, <1>7 DEF u, r, v

LEMMA GivenAlone ==
  ASSUME ProcAssumption, NEW t \in Tables, NEW np \in Slots
  PROVE  /\ GivenBack(t, np) \in Tables
         /\ \A q \in Slots \ {np} : GivenBack(t, np)[q] = t[q]
         /\ Kept(t[np], GivenBack(t, np)[np])
         /\ GivenBack(t, np)[np].state = "UNUSED"
         /\ GivenBack(t, np)[np].runblenum = t[np].runblenum
<1> DEFINE r == t[np]
           u == GivenBack(t, np)
           v == u[np]
<1>1. r \in Procs
  BY DEF Tables
<1>2. v = [r EXCEPT !.state = "UNUSED"]
  BY DEF Tables, GivenBack
<1>3. \A q \in Slots \ {np} : u[q] = t[q]
  BY DEF Tables, GivenBack
<1>4. u = [q \in Slots |-> u[q]]
  BY DEF Tables, GivenBack
<1> HIDE DEF u, r, v
<1>5. Kept(r, v) /\ v.state = "UNUSED" /\ v.runblenum = r.runblenum
  BY <1>1, <1>2 DEF Kept, Procs
<1>6. \A q \in Slots : u[q] \in Procs
  BY <1>3, <1>5 DEF Tables, v, Kept
<1>7. u \in Tables
  BY <1>4, <1>6 DEF Tables
<1> QED BY <1>3, <1>5, <1>7 DEF u, r, v

LEMMA ForkPublishKeeps ==
  ASSUME ProcAssumption, ProcInv, NEW c \in CPUS, ForkPublish(c)
  PROVE  ProcInv' /\ LifeStep
<1> DEFINE p == cpu[c].proc
           np == arg[p]
           pgdir == FirstOf(PageTables \ vm)
           child == Born(proc, np, pgdir, p)
<1>1. /\ p # NULL /\ pc[p] = "fork" /\ PageTables # vm /\ vm' = vm \cup {pgdir}
      /\ proc' = MakeRunnable(child, np) /\ ready' = ready \cup {child[np].idx} /\ Become(p, "user")
      /\ UNCHANGED <<cpu, nextpid, arg, signalled, fault>>
  BY DEF ForkPublish, Born
<1>2. /\ p \in Slots /\ np \in Slots /\ np # p /\ proc[np].state = "EMBRYO"
      /\ proc \in Tables /\ Ringed(proc)
  BY <1>1, Forking, Table
<1>3. pgdir \in PageTables
  <2>1. PageTables \ vm \subseteq Nat /\ PageTables \ vm # {}
    BY <1>1, Sizes, Types
  <2> QED BY <2>1, FirstIn
<1> HIDE DEF pgdir
<1>4. /\ child \in Tables /\ \A q \in Slots \ {np} : child[q] = proc[q]
      /\ Passed(proc[np], child[np], p)
  BY <1>2, <1>3, BornAlone
<1> HIDE DEF child
<1>5. /\ proc[np].mainth = np /\ proc[np].idx = np /\ proc[np].runblenum = 0 /\ Alone(proc[np], np)
  BY <1>2, Single DEF Ringed, Alone
<1>6. child[np].mainth = np /\ child[np].idx = np /\ child[np].runblenum = 0
  BY <1>4, <1>5 DEF Passed
<1>7. /\ proc' \in Tables /\ \A q \in Slots \ {np} : proc'[q] = child[q]
      /\ Kept(child[np], proc'[np]) /\ proc'[np].state = "RUNNABLE" /\ proc'[np].runblenum = 1
  BY <1>1, <1>2, <1>4, <1>6, MakeRunnableAlone
<1>8. \A q \in Slots \ {np} : proc'[q] = proc[q]
  BY <1>4, <1>7
<1>9. Alone(proc'[np], np) /\ proc'[np].pid = proc[np].pid /\ proc'[np].parent = p
  BY <1>2, <1>4, <1>5, <1>7 DEF Alone, Kept, Passed
<1>10. TableInv' /\ LifeStep /\ OnCpus' /\ pc' \in [Slots -> PCs]
  BY <1>1, <1>7, <1>8, <1>9, ForkEnds
<1>11. ready' \subseteq Slots /\ vm' \subseteq PageTables
  BY <1>1, <1>2, <1>3, <1>6, Types
<1>12. TypeOK'
  BY <1>1, <1>7, <1>10, <1>11, Types, Typed
<1> QED BY <1>10, <1>12 DEF ProcInv

LEMMA ForkFailKeeps ==
  ASSUME ProcAssumption, ProcInv, NEW c \in CPUS, ForkFail(c)
  PROVE  ProcInv' /\ LifeStep
<1> DEFINE p == cpu[c].proc
           np == arg[p]
<1>1. /\ p # NULL /\ pc[p] = "fork" /\ proc' = GivenBack(proc, np) /\ Become(p, "user")
      /\ UNCHANGED <<cpu, ready, nextpid, vm, arg, signalled, fault>>
  BY DEF ForkFail, GivenBack
<1>2. /\ p \in Slots /\ np \in Slots /\ np # p /\ proc[np].state = "EMBRYO" /\ proc[np].parent = NULL
      /\ proc \in Tables /\ Ringed(proc) /\ Alone(proc[np], np)
  BY <1>1, Forking, Table DEF Ringed
<1>3. /\ proc' \in Tables /\ \A q \in Slots \ {np} : proc'[q] = proc[q]
      /\ Kept(proc[np], proc'[np]) /\ proc'[np].state = "UNUSED" /\ proc'[np].runblenum = proc[np].runblenum
  BY <1>1, <1>2, GivenAlone
<1>4. Alone(proc'[np], np) /\ proc'[np].pid = proc[np].pid /\ proc'[np].parent = NULL
  BY <1>2, <1>3 DEF Alone, Kept
<1>5. TableInv' /\ LifeStep /\ OnCpus' /\ pc' \in [Slots -> PCs]
  BY <1>1, <1>3, <1>4, ForkEnds
<1>6. TypeOK'
  BY <1>1, <1>3, <1>5, Types, Typed
<1> QED BY <1>5, <1>6 DEF ProcInv

LEMMA WaitKeeps ==
  ASSUME ProcAssumption, ProcInv, NEW c \in CPUS, wait(c)
  PROVE  ProcInv' /\ LifeStep
<1>1. PICK p \in Slots :
    LET t == WithChan(proc, p, NULL)
        z == FirstOf(Zombies(p))
        pgdir == proc[proc[z].mainth].pgdir
    IN  /\ cpu[c].proc = p
        /\ \/ /\ Zombies(p) # {}
              /\ proc' = Reaped(t, z)
              /\ vm' = vm \ {pgdir}
              /\ fault' = IF pgdir \in vm THEN fault ELSE "freevm"
              /\ Become(p, "user")
              /\ UNCHANGED <<cpu, ready>>
           \/ /\ Zombies(p) = {}
              /\ Kids(p) = {} \/ proc[p].killed
              /\ proc' = t
              /\ Become(p, "user")
              /\ UNCHANGED <<cpu, ready, vm, fault>>
           \/ /\ Zombies(p) = {}
              /\ Kids(p) # {} /\ ~proc[p].killed
              /\ SleepOn(c, p, t, p, "wait")
              /\ UNCHANGED <<vm, fault>>
        /\ UNCHANGED <<nextpid, arg, signalled>>
  BY DEF wait, WithChan
<1> DEFINE t == WithChan(proc, p, NULL)
           z == FirstOf(Zombies(p))
<1>2. cpu[c].proc = p /\ p # NULL
  BY <1>1, Sizes
<1>3. /\ proc[p].state = "RUNNING" /\ proc[p].runblenum = 0 /\ Ringed(proc) /\ proc \in Tables
  BY <1>2, Runs, Table
<1>4. /\ t \in Tables /\ \A q \in Slots \ {p} : t[q] = proc[q]
      /\ t[p].state = "RUNNING" /\ t[p].runblenum = 0 /\ t[p].killed = proc[p].killed
  BY <1>3, ChanAlone
<1>5. Kept(proc[p], t[p])
  <2>1. NULL \in Slots \cup {NULL, IO}
    OBVIOUS
  <2> HIDE DEF t
  <2> QED BY <1>3, <2>1, ChanAlone DEF t
<1> HIDE DEF t, z
<1>6. CASE Zombies(p) = {} /\ SleepOn(c, p, t, p, "wait") /\ UNCHANGED <<vm, fault>> /\ ~proc[p].killed
  <2>1. /\ TableInv' /\ LifeStep /\ OnCpus' /\ proc' \in Tables /\ ready' \subseteq Slots /\ pc' \in [Slots -> PCs]
        /\ cpu' \in [CPUS -> [proc : Slots \cup {NULL}, mainth : Slots \cup {NULL}]]
    BY <1>1, <1>2, <1>4, <1>5, <1>6, Sleeps
  <2>2. TypeOK'
    BY <1>1, <1>6, <2>1, Types, Typed
  <2> QED BY <2>1, <2>2 DEF ProcInv
<1>7. CASE proc' = t /\ Become(p, "user") /\ UNCHANGED <<cpu, ready, vm, fault>>
  <2>1. pc' \in [Slots -> PCs] /\ pc'[p] = "user" /\ \A q \in Slots \ {p} : pc'[q] = pc[q]
    BY <1>7, Types DEF Become, PCs
  <2>2. StepAt(p)
    BY <1>3, <1>4, <1>5, <1>7, <2>1 DEF StepAt, MoveAt, Counted, Places
  <2>3. \A q \in Slots : StepAt(q)
    BY <1>1, <1>4, <1>7, <2>1, <2>2, Untouched
  <2>4. TableInv' /\ LifeStep
    BY <1>1, <1>4, <1>7, <2>3, Steps
  <2>5. OnCpus'
    <3>1. \A q \in Slots : proc'[q].state = "RUNNING" <=> proc[q].state = "RUNNING"
      BY <1>3, <1>4, <1>7
    <3> QED BY <1>7, <3>1, CpusStay
  <2>6. TypeOK'
    BY <1>1, <1>4, <1>7, <2>1, Types, Typed
  <2> QED BY <2>4, <2>5, <2>6 DEF ProcInv
<1>8. CASE /\ Zombies(p) # {} /\ proc' = Reaped(t, z) /\ Become(p, "user") /\ UNCHANGED <<cpu, ready>>
           /\ vm' \subseteq vm /\ fault' \in {fault, "freevm"}
  <2>1. z \in Slots /\ proc[z].state = "ZOMBIE" /\ proc[z].parent = p
    <3>1. Zombies(p) \subseteq Nat
      BY Sizes DEF Zombies, Kids
    <3>2. z \in Zombies(p)
      BY <1>8, <3>1, FirstIn DEF z
    <3> QED BY <3>2 DEF Zombies, Kids
  <2>2. z # p
    BY <1>3, <2>1
  <2>3. pc' \in [Slots -> PCs] /\ pc'[p] = "user" /\ \A q \in Slots \ {p} : pc'[q] = pc[q]
    <3>1. pc \in [Slots -> PCs] /\ "user" \in PCs /\ p \in Slots
      BY Types DEF PCs
    <3>2. pc' = [pc EXCEPT ![p] = "user"]
      BY <1>8 DEF Become
    <3> QED BY ONLY <3>1, <3>2
  <2>4. /\ proc' \in Tables /\ \A q \in Slots \ {z} : proc'[q] = t[q]
        /\ Alone(proc'[z], z) /\ proc'[z].state = "UNUSED" /\ proc'[z].pid = 0 /\ proc'[z].parent = NULL
    <3>1. proc' = Reaped(t, z)
      BY <1>8
    <3> QED BY <1>4, <2>1, <3>1, ReapAlone
  <2>5. SlotAt(z)
    <3>1. PlaceAt(z) /\ pc'[z] = pc[z] /\ ~Started(proc[z])
      BY <2>1, <2>2, <2>3 DEF ProcInv, TableInv, Started
    <3>2. 0 < nextpid'
      <4>1. nextpid \in 2 .. MaxPid + 1 /\ MaxPid \in Nat /\ nextpid' = nextpid
        BY <1>1, Types DEF ProcAssumption
      <4> QED BY ONLY <4>1
    <3>3. proc'[z] \in Procs
      BY <2>1, <2>4 DEF Tables
    <3> QED BY <2>4, <3>1, <3>2, <3>3 DEF SlotAt, PlaceAt
  <2>6. ASSUME NEW q \in Slots \ {z} PROVE StepAt(q)
    <3>1. CASE q = p
      BY <1>3, <1>4, <1>5, <2>3, <2>4, <3>1 DEF StepAt, MoveAt, Counted, Started, Places
    <3>2. CASE q # p
      BY <1>1, <1>4, <2>3, <2>4, <3>2, Untouched
    <3> QED BY <3>1, <3>2
  <2>7. \A q \in Slots : ForkAt(q)
    <3>1. pc'[z] = "user"
      BY <2>5 DEF SlotAt
    <3>2. \A q \in Slots : pc'[q] = "fork" => pc[q] # "fork" \/ arg[q] # z
      BY <2>1 DEF ProcInv, TableInv, PlaceAt
    <3> QED BY <2>1, <2>6, <3>1, <3>2, ForksStay
  <2>8. TableInv'
    <3>1. nextpid' \in Nat /\ nextpid <= nextpid'
      <4>1. nextpid \in 2 .. MaxPid + 1 /\ MaxPid \in Nat /\ nextpid' = nextpid
        BY <1>1, Types DEF ProcAssumption
      <4> QED BY ONLY <4>1
    <3>2. \A q \in Slots \ {z} : MoveAt(q)
      BY <2>6 DEF StepAt
    <3> QED BY <2>1, <2>4, <2>5, <2>7, <3>1, <3>2, SlotSteps
  <2>9. OnCpus'
    <3>1. \A q \in Slots : proc'[q].state = "RUNNING" <=> proc[q].state = "RUNNING"
      BY <1>3, <1>4, <2>1, <2>4
    <3> QED BY <1>8, <3>1, CpusStay
  <2>10. TypeOK'
    <3>1. vm' \subseteq PageTables /\ fault' \in {"none", "kill loops", "freevm", "null thread", "zombie thread"}
      BY <1>8, Types
    <3> QED BY <1>1, <1>8, <2>3, <2>4, <3>1, Types, Typed
  <2>11. LifeStep
    <3>0. PICK s \in Slots : s = z
      BY <2>1
    <3>1. \A q \in Slots \ {s} : Same(q)
      BY <1>3, <1>4, <1>5, <2>4, <3>0 DEF Same, Kept
    <3>2. ReapStep(s)
      BY <1>1, <1>3, <2>1, <2>4, <3>0 DEF ReapStep
    <3> QED BY <3>1, <3>2 DEF LifeStep
  <2> QED BY <2>8, <2>9, <2>10, <2>11 DEF ProcInv
<1> QED BY <1>1, <1>6, <1>7, <1>8 DEF t, z

Dead(t, p) == [t EXCEPT ![p].state = "ZOMBIE"]

LEMMA DeadAlone ==
  ASSUME ProcAssumption, NEW t \in Tables, NEW p \in Slots
  PROVE  /\ Dead(t, p) \in Tables
         /\ \A q \in Slots \ {p} : Dead(t, p)[q] = t[q]
         /\ Kept(t[p], Dead(t, p)[p])
         /\ Dead(t, p)[p].state = "ZOMBIE"
         /\ Dead(t, p)[p].runblenum = t[p].runblenum /\ Dead(t, p)[p].killed = t[p].killed
<1> DEFINE r == t[p]
           u == Dead(t, p)
           v == u[p]
<1>1. r \in Procs
  BY DEF Tables
<1>2. v = [r EXCEPT !.state = "ZOMBIE"]
  BY DEF Tables, Dead
<1>3. \A q \in Slots \ {p} : u[q] = t[q]
  BY DEF Tables, Dead
<1>4. u = [q \in Slots |-> u[q]]
  BY DEF Tables, Dead
<1> HIDE DEF u, r, v
<1>5. Kept(r, v) /\ v.state = "ZOMBIE" /\ v.runblenum = r.runblenum /\ v.killed = r.killed
  BY <1>1, <1>2 DEF Kept, Procs
<1>6. \A q \in Slots : u[q] \in Procs
  BY <1>3, <1>5 DEF Tables, v, Kept
<1>7. u \in Tables
  BY <1>4, <1>6 DEF Tables
<1> QED BY <1>3, <1>5, <1>7 DEF u, r, v

LEMMA Exits ==
  ASSUME ProcAssumption, ProcInv, NEW c \in CPUS, exit(c)
  PROVE  \E p, W : Exited(p, W)
<1> DEFINE p == cpu[c].proc
           alone == ClearThread(proc, p)
           W == SleepersOn(alone, alone[p].parent)
           told == WakeSet(alone, W)
           passed == Adopted(told, p)
           V == IF AdoptedZombie(told, p) THEN SleepersOn(passed, initproc) ELSE {}
           woken == WakeSet(passed, V)
           queue == ready \cup Queued(alone, W) \cup Queued(passed, V)
           pcs == [pc EXCEPT ![p] = "user"]
<1>0. p # initproc
  <2>1. p # NULL /\ pc[p] = "exit"
    BY DEF exit
  <2>2. PlaceAt(p)
    BY <2>1, Runs DEF ProcInv, TableInv
  <2> QED BY <2>1, <2>2 DEF PlaceAt
<1>1. /\ p # NULL /\ p # initproc /\ Sched(c, Dead(woken, p), pcs, queue)
      /\ UNCHANGED <<nextpid, vm, arg, signalled, fault>>
  BY <1>0 DEF exit, Dead
<1>2. /\ p \in Slots /\ proc[p].state = "RUNNING" /\ proc[p].runblenum = 0 /\ Ringed(proc) /\ proc \in Tables
  BY <1>1, Runs, Table
<1>3. alone = proc
  BY <1>2, ClearAlone
<1>4. W \subseteq Slots /\ \A q \in W : proc[q].state = "SLEEPING" /\ proc[q].chan = proc[p].parent
  BY <1>3 DEF SleepersOn
<1>5. \A q \in Slots : proc[q].state = "SLEEPING" /\ proc[q].chan = proc[p].parent => q \in W
  BY <1>3 DEF SleepersOn
<1> HIDE DEF p, W
<1>6. /\ told \in Tables /\ \A q \in Slots \ W : told[q] = proc[q]
      /\ \A q \in W : Woken(proc[q], told[q])
      /\ Queued(alone, W) \subseteq Slots /\ Ringed(told)
  BY <1>2, <1>3, <1>4, WakeAlone
<1> HIDE DEF alone, told
<1>7. \A q \in Slots : Passed(told[q], passed[q], IF q \in Orphans(told, p) THEN initproc ELSE told[q].parent)
  BY <1>2, <1>6, AdoptedAlone
<1>8. passed \in Tables /\ Ringed(passed)
  BY <1>2, <1>6, AdoptedAlone
<1> HIDE DEF passed
<1>9. V \subseteq Slots /\ \A q \in V : passed[q].state = "SLEEPING"
  BY DEF SleepersOn
<1>10. AdoptedZombie(told, p) /\ passed[initproc].state = "SLEEPING" /\ passed[initproc].chan = initproc => initproc \in V
  BY Sizes DEF SleepersOn
<1> HIDE DEF V
<1>11. /\ woken \in Tables /\ \A q \in Slots \ V : woken[q] = passed[q]
       /\ \A q \in V : Woken(passed[q], woken[q])
       /\ Queued(passed, V) \subseteq Slots
  BY <1>8, <1>9, WakeAlone
<1> HIDE DEF woken
\* What becomes of each slot.
<1>12. ASSUME NEW q \in Slots
       PROVE  /\ told[q].pid = proc[q].pid /\ told[q].parent = proc[q].parent /\ told[q].chan = proc[q].chan
              /\ told[q].killed = proc[q].killed /\ told[q].mainth = proc[q].mainth /\ told[q].idx = proc[q].idx
              /\ told[q].nextth = proc[q].nextth /\ told[q].recentth = proc[q].recentth
              /\ told[q].state = IF q \in W THEN "RUNNABLE" ELSE proc[q].state
  BY <1>4, <1>6 DEF Woken, Kept
<1>13. ASSUME NEW q \in Slots PROVE q \in Orphans(told, p) <=> proc[q].parent = p
  <2>1. Parented(q) /\ proc[q] \in Procs
    BY <1>2 DEF ProcInv, TableInv, Tables
  <2>2. CASE proc[q].parent = NULL
    BY <1>1, <1>12, <2>2 DEF Orphans
  <2>3. CASE proc[q].parent # NULL
    <3>1. proc[q].parent \in Slots /\ Started(proc[proc[q].parent])
      BY <2>1, <2>3 DEF Parented, Procs
    <3>2. proc[proc[q].parent].pid = proc[p].pid => proc[q].parent = p
      BY <1>2, <3>1 DEF ProcInv, TableInv, Numbered, Started
    <3>3. told[proc[q].parent].pid = proc[proc[q].parent].pid /\ told[p].pid = proc[p].pid
      BY <1>2, <1>12, <3>1
    <3>4. told[q].parent = proc[q].parent
      BY <1>12
    <3> QED BY <2>3, <3>2, <3>3, <3>4 DEF Orphans
  <2> QED BY <2>2, <2>3
<1>14. ASSUME NEW q \in Slots
       PROVE  /\ woken[q].pid = proc[q].pid /\ woken[q].chan = proc[q].chan
              /\ woken[q].killed = proc[q].killed /\ woken[q].mainth = proc[q].mainth /\ woken[q].idx = proc[q].idx
              /\ woken[q].nextth = proc[q].nextth /\ woken[q].recentth = proc[q].recentth
              /\ woken[q].parent = IF proc[q].parent = p THEN initproc ELSE proc[q].parent
              /\ woken[q].state = IF q \in W \cup V THEN "RUNNABLE" ELSE proc[q].state
              /\ woken[q].runblenum = IF q \in W \cup V THEN 1 ELSE proc[q].runblenum
  <2>1. /\ passed[q].pid = proc[q].pid /\ passed[q].chan = proc[q].chan
        /\ passed[q].killed = proc[q].killed /\ passed[q].mainth = proc[q].mainth /\ passed[q].idx = proc[q].idx
        /\ passed[q].nextth = proc[q].nextth /\ passed[q].recentth = proc[q].recentth
        /\ passed[q].parent = IF proc[q].parent = p THEN initproc ELSE proc[q].parent
        /\ passed[q].state = IF q \in W THEN "RUNNABLE" ELSE proc[q].state
        /\ passed[q].runblenum = IF q \in W THEN 1 ELSE proc[q].runblenum
    <3>1. Passed(told[q], passed[q], IF q \in Orphans(told, p) THEN initproc ELSE told[q].parent)
      BY <1>7
    <3>2. told[q].runblenum = IF q \in W THEN 1 ELSE proc[q].runblenum
      BY <1>6 DEF Woken
    <3> QED BY <1>12, <1>13, <3>1, <3>2 DEF Passed
  <2>2. CASE q \in V
    BY <1>11, <2>1, <2>2 DEF Woken, Kept
  <2>3. CASE q \notin V
    BY <1>11, <2>1, <2>3
  <2> QED BY <2>2, <2>3
<1>15. p \notin W /\ p \notin V /\ \A q \in W \cup V : proc[q].state = "SLEEPING"
  <2>1. \A q \in V : proc[q].state = "SLEEPING"
    <3> SUFFICES ASSUME NEW q \in V PROVE proc[q].state = "SLEEPING"
      OBVIOUS
    <3>1. q \in Slots /\ passed[q].state = "SLEEPING"
      BY <1>9
    <3>2. told[q].state = "SLEEPING"
      BY <1>7, <3>1 DEF Passed
    <3> QED BY <1>12, <3>1, <3>2
  <2> QED BY <1>2, <1>4, <2>1
<1>16. /\ Dead(woken, p) \in Tables /\ \A q \in Slots \ {p} : Dead(woken, p)[q] = woken[q]
       /\ Kept(woken[p], Dead(woken, p)[p]) /\ Dead(woken, p)[p].state = "ZOMBIE"
       /\ Dead(woken, p)[p].runblenum = woken[p].runblenum /\ Dead(woken, p)[p].killed = woken[p].killed
  BY <1>2, <1>11, DeadAlone
<1> DEFINE u == Dead(woken, p)
<1> HIDE DEF u
<1>17. /\ proc' = u /\ pc' = pcs /\ OnCpus' /\ ready' \subseteq Slots
       /\ cpu' \in [CPUS -> [proc : Slots \cup {NULL}, mainth : Slots \cup {NULL}]]
  <2>1. queue \subseteq Slots
    BY <1>6, <1>11, Types
  <2>2. u \in Tables /\ u[cpu[c].proc].state # "RUNNING"
    BY <1>16 DEF u, p
  <2>3. \A q \in Slots \ {cpu[c].proc} : u[q].state = "RUNNING" <=> proc[q].state = "RUNNING"
    BY <1>14, <1>15, <1>16 DEF u, p
  <2>4. Sched(c, u, pcs, queue) /\ cpu[c].proc # NULL
    BY <1>1 DEF u, p
  <2> HIDE DEF queue, pcs
  <2> QED BY <2>1, <2>2, <2>3, <2>4, Leaves
<1>18. pc' \in [Slots -> PCs] /\ pc'[p] = "user" /\ \A q \in Slots \ {p} : pc'[q] = pc[q]
  BY <1>2, <1>17, Types DEF PCs
<1>19. \A q \in Slots : ExitedAt(p, W \cup V, q)
  <2> SUFFICES ASSUME NEW q \in Slots PROVE ExitedAt(p, W \cup V, q)
    OBVIOUS
  <2>1. CASE q = p
    BY <1>2, <1>14, <1>15, <1>16, <1>17, <2>1 DEF u, Kept, ExitedAt
  <2>2. CASE q # p
    BY <1>14, <1>16, <1>17, <2>2 DEF u, ExitedAt
  <2> QED BY <2>1, <2>2
<1>20. ASSUME NEW z \in Slots, proc[z].parent = p, proc[z].state = "ZOMBIE",
              proc[initproc].state = "SLEEPING", proc[initproc].chan = initproc, initproc \notin W
       PROVE  initproc \in V
  <2>1. z \in Orphans(told, p) /\ told[z].state = "ZOMBIE"
    BY <1>4, <1>12, <1>13, <1>20
  <2>2. AdoptedZombie(told, p)
    BY <2>1 DEF AdoptedZombie
  <2>3. passed[initproc].state = "SLEEPING" /\ passed[initproc].chan = initproc
    BY <1>7, <1>12, <1>20, Sizes DEF Passed
  <2> QED BY <1>10, <2>2, <2>3
<1>21. proc' \in Tables
  BY <1>16, <1>17 DEF u
<1>22. /\ W \cup V \subseteq Slots /\ p \notin W \cup V /\ \A q \in W \cup V : proc[q].state = "SLEEPING"
       /\ \A q \in Slots : proc[q].state = "SLEEPING" /\ proc[q].chan = proc[p].parent => q \in W \cup V
       /\ \A z \in Slots : /\ proc[z].parent = p /\ proc[z].state = "ZOMBIE"
                          /\ proc[initproc].state = "SLEEPING" /\ proc[initproc].chan = initproc
                          => initproc \in W \cup V
  BY <1>4, <1>5, <1>9, <1>15, <1>20
<1> HIDE DEF pcs, queue
<1>23. Exited(p, W \cup V)
  BY <1>1, <1>2, <1>17, <1>18, <1>19, <1>21, <1>22 DEF Exited
<1> QED BY <1>23

LEMMA ExitKeeps ==
  ASSUME ProcAssumption, ProcInv, NEW c \in CPUS, exit(c)
  PROVE  ProcInv' /\ LifeStep
<1>1. PICK p, W : Exited(p, W)
  BY Exits
<1>2. /\ p \in Slots \ {initproc} /\ proc[p].state = "RUNNING" /\ p \notin W
      /\ W \subseteq Slots /\ \A q \in W : proc[q].state = "SLEEPING"
      /\ nextpid' = nextpid /\ arg' = arg /\ Ringed(proc) /\ proc \in Tables
  BY <1>1, Table DEF Exited
<1>3. pc'[p] = "user" /\ \A q \in Slots \ {p} : pc'[q] = pc[q]
  BY <1>1 DEF Exited
<1>4. ASSUME NEW q \in Slots PROVE ExitedAt(p, W, q)
  BY <1>1 DEF Exited
<1>20. Numbered'
  <2>1. Numbered /\ nextpid' = nextpid
    BY <1>2 DEF ProcInv, TableInv
  <2>2. \A q \in Slots : proc'[q].pid = proc[q].pid /\ (proc'[q].state = "UNUSED" <=> proc[q].state = "UNUSED")
    BY <1>2, <1>4 DEF ExitedAt
  <2> QED BY <2>1, <2>2 DEF Numbered
<1>21. Started(proc[initproc])' /\ proc'[initproc].pid = 1
  BY <1>2, <1>4, Sizes DEF ExitedAt, ProcInv, TableInv, Started
<1>22. ASSUME NEW q \in Slots PROVE Alone(proc[q], q)'
  <2>1. Alone(proc[q], q)
    BY <1>2 DEF Ringed
  <2>2. Alone(proc'[q], q)
    <3>1. CASE q = p
      BY <1>2, <1>4, <2>1, <3>1 DEF ExitedAt, Alone
    <3>2. CASE q # p /\ q \in W
      BY <1>2, <1>4, <2>1, <3>2 DEF ExitedAt, Alone
    <3>3. CASE q # p /\ q \notin W
      BY <1>4, <2>1, <3>3 DEF ExitedAt, Alone
    <3> QED BY <3>1, <3>2, <3>3
  <2> QED BY <2>2
<1>23. ASSUME NEW q \in Slots PROVE Parented(q)'
  <2>1. Parented(q) /\ proc[q] \in Procs
    BY <1>2 DEF ProcInv, TableInv, Tables
  <2>2. \A r \in Slots \ {p} : Started(proc[r]) => Started(proc'[r])
    BY <1>4 DEF ExitedAt, Started
  <2>3. CASE proc[q].parent = p
    <3>1. proc'[q].parent = initproc /\ q # initproc /\ initproc \in Slots /\ initproc # p /\ Started(proc[initproc])
      BY <1>2, <1>4, <2>1, <2>3, Sizes DEF ExitedAt, Parented, ProcInv, TableInv
    <3>2. Started(proc'[initproc])
      BY <2>2, <3>1
    <3>3. proc[q].state \notin {"UNUSED", "EMBRYO"}
      BY <1>2, <2>1, <2>3, Sizes DEF Parented
    <3>4. proc'[q].state \notin {"UNUSED", "EMBRYO"}
      BY <1>4, <3>3 DEF ExitedAt
    <3> QED BY <3>1, <3>2, <3>4 DEF Parented
  <2>4. CASE proc[q].parent # p
    <3>1. proc'[q].parent = proc[q].parent
      BY <1>4, <2>4 DEF ExitedAt
    <3>2. proc[q].parent # NULL => proc[q].parent # q /\ Started(proc'[proc[q].parent])
      BY <2>1, <2>2, <2>4 DEF Parented, Procs
    <3>3. proc'[q].state \in {"UNUSED", "EMBRYO"} => proc[q].state \in {"UNUSED", "EMBRYO"}
      BY <1>4 DEF ExitedAt
    <3> QED BY <2>1, <3>1, <3>2, <3>3 DEF Parented
  <2> QED BY <2>3, <2>4
<1>24. ASSUME NEW q \in Slots PROVE PlaceAt(q)'
  <2>1. PlaceAt(q)
    BY DEF ProcInv, TableInv
  <2>2. CASE q = p
    BY <1>3, <1>4, <2>2 DEF ExitedAt, PlaceAt, Places
  <2>3. CASE q # p
    <3>1. /\ pc'[q] \in Places
          /\ ~Started(proc'[q]) => pc'[q] = "user"
          /\ proc'[q].state = "SLEEPING" => \/ pc'[q] = "wait" /\ proc'[q].chan = q
                                            \/ pc'[q] \in {"asleep", "closing"} /\ proc'[q].chan = IO
          /\ pc'[q] \in {"exit", "closing"} => q # initproc
      BY <1>3, <1>4, <2>1, <2>3 DEF ExitedAt, PlaceAt, Started
    <3>2. ASSUME pc'[q] = "fork"
          PROVE  /\ arg'[q] \in Slots /\ proc'[arg'[q]].state = "EMBRYO"
                 /\ \A r \in Slots : pc'[r] = "fork" /\ arg'[r] = arg'[q] => q = r
      <4>1. pc[q] = "fork" /\ arg' = arg
        BY <1>2, <1>3, <2>3, <3>2
      <4>2. arg[q] \in Slots /\ proc[arg[q]].state = "EMBRYO"
        BY <2>1, <4>1 DEF PlaceAt
      <4>3. proc'[arg[q]].state = "EMBRYO"
        BY <1>2, <1>4, <4>2 DEF ExitedAt
      <4>4. ASSUME NEW r \in Slots, pc'[r] = "fork", arg'[r] = arg'[q] PROVE q = r
        <5>1. pc[r] = "fork"
          BY <1>3, <4>4
        <5> QED BY <2>1, <4>1, <4>4, <5>1 DEF PlaceAt
      <4> QED BY <4>1, <4>2, <4>3, <4>4
    <3> QED BY <3>1, <3>2 DEF PlaceAt
  <2> QED BY <2>2, <2>3
<1>25. NoLostExit'
  <2> SUFFICES ASSUME NEW q \in Slots, proc'[q].state = "SLEEPING", pc'[q] = "wait"
               PROVE  Zombies(q)' = {} /\ ~proc'[q].killed
    BY DEF NoLostExit
  <2>1. q # p /\ q \notin W /\ proc[q].state = "SLEEPING" /\ pc[q] = "wait"
    BY <1>3, <1>4 DEF ExitedAt
  <2>2. proc[q].chan = q /\ Zombies(q) = {} /\ ~proc[q].killed
    BY <2>1 DEF ProcInv, TableInv, PlaceAt, NoLostExit
  <2>3. ASSUME NEW z \in Slots, proc'[z].parent = q, proc'[z].state = "ZOMBIE" PROVE FALSE
    <3>1. CASE z = p
      <4>1. Parented(p)
        BY <1>2 DEF ProcInv, TableInv
      <4>2. proc[p].parent # p
        BY <1>2, <4>1, Sizes DEF Parented
      <4>3. proc[p].parent = q
        BY <1>4, <2>3, <3>1, <4>2 DEF ExitedAt
      <4>4. q \in W
        BY <1>1, <2>1, <2>2, <4>3 DEF Exited
      <4> QED BY <2>1, <4>4
    <3>2. CASE z # p /\ proc[z].parent = p
      <4>1. proc[z].state = "ZOMBIE" /\ q = initproc
        BY <1>4, <2>3, <3>2 DEF ExitedAt
      <4>2. q \in W
        BY <1>1, <2>1, <2>2, <3>2, <4>1 DEF Exited
      <4> QED BY <2>1, <4>2
    <3>3. CASE z # p /\ proc[z].parent # p
      <4>1. proc[z].state = "ZOMBIE" /\ proc[z].parent = q
        BY <1>4, <2>3, <3>3 DEF ExitedAt
      <4> QED BY <2>2, <4>1 DEF Zombies, Kids
    <3> QED BY <3>1, <3>2, <3>3
  <2>4. ~proc'[q].killed
    BY <1>4, <2>1, <2>2 DEF ExitedAt
  <2> QED BY <2>3, <2>4 DEF Zombies, Kids
<1>26. proc' \in Tables /\ OnCpus'
  BY <1>1 DEF Exited
<1>27. TableInv'
  BY <1>20, <1>21, <1>22, <1>23, <1>24, <1>25 DEF TableInv
<1>28. TypeOK'
  BY <1>1, Types, Typed DEF Exited
<1>29. LifeStep
  BY <1>1 DEF LifeStep
<1> QED BY <1>26, <1>27, <1>28, <1>29 DEF ProcInv

LEMMA NoThreads ==
  ASSUME ProcAssumption, Unthreaded, ProcInv, NEW c \in CPUS
  PROVE  ~Threads(c)
<1>1. \A p \in Slots, call \in {"thread_create", "thread_exit", "thread_join"} : ~Calls(c, p, call)
  BY DEF Calls, Unthreaded
<1>2. \A p \in Slots : pc[p] \in Places
  BY DEF ProcInv, TableInv, PlaceAt
<1>3. ~ThreadAlloc(c) /\ ~thread_exit(c)
  BY <1>1 DEF ThreadAlloc, thread_exit
<1>4. ~ThreadPublish(c) /\ ~ThreadFail(c) /\ ~ThreadNoStack(c)
  <2>1. cpu[c].proc # NULL => cpu[c].proc \in Slots
    BY Types
  <2> QED BY <1>2, <2>1 DEF ThreadPublish, ThreadFail, ThreadNoStack, Places
<1>5. ~thread_join(c)
  BY <1>1, <1>2 DEF thread_join, Places
<1> QED BY <1>3, <1>4, <1>5 DEF Threads

LEMMA StutterKeeps ==
  ASSUME ProcInv, UNCHANGED vars PROVE ProcInv'
<1>1. /\ proc' = proc /\ cpu' = cpu /\ ready' = ready /\ nextpid' = nextpid /\ vm' = vm /\ pc' = pc /\ arg' = arg
      /\ signalled' = signalled /\ fault' = fault
  BY DEF vars
<1>2. TypeOK'
  BY <1>1 DEF ProcInv, TypeOK
<1>3. OnCpus'
  BY <1>1, CpusStay
<1>4. TableInv'
  BY <1>1 DEF ProcInv, TableInv, Numbered, NoLostExit, Zombies, Kids, PlaceAt, Parented
<1> QED BY <1>2, <1>3, <1>4 DEF ProcInv

LEMMA NextKeeps ==
  ASSUME ProcAssumption, Unthreaded, ProcInv, Next
  PROVE  ProcInv' /\ LifeStep
<1>1. CASE wakeup(IO)
  BY <1>1, WakeKeeps
<1>2. CASE \E c \in CPUS : \/ \E idx \in Slots : Dispatch(c, idx)
                           \/ Enter(c) \/ Classic(c) \/ Reading(c) \/ Threads(c)
  <2>1. PICK c \in CPUS : \/ \E idx \in Slots : Dispatch(c, idx)
                          \/ Enter(c) \/ Classic(c) \/ Reading(c) \/ Threads(c)
    BY <1>2
  <2>2. CASE \E idx \in Slots : Dispatch(c, idx)
    BY <2>2, DispatchKeeps
  <2>3. CASE Enter(c)
    BY <2>3, MovesKeep, YieldKeeps, ThreadYieldKeeps DEF Enter
  <2>4. CASE Classic(c)
    BY <2>4, ForkAllocKeeps, ForkPublishKeeps, ForkFailKeeps, MovesKeep, ExitSleepKeeps, ExitKeeps, WaitKeeps, ExecKeeps, KillKeeps DEF Classic
  <2>5. CASE Reading(c)
    BY <2>5, MovesKeep, ReadSleepKeeps DEF Reading
  <2> QED BY <2>1, <2>2, <2>3, <2>4, <2>5, NoThreads
<1>3. CASE UNCHANGED vars
  <2>1. nextpid' = nextpid /\ \A q \in Slots : Same(q)
    BY <1>3 DEF vars, Same
  <2> QED BY <1>3, <2>1, StutterKeeps DEF LifeStep
<1> QED BY <1>1, <1>2, <1>3 DEF Next

LEMMA ZeroTable ==
  ASSUME ProcAssumption
  PROVE  ZeroProc \in Procs /\ [q \in Slots |-> ZeroProc] \in Tables
<1>1. 0 \in 0 .. MaxThid /\ 0 \in 0 .. NPROC /\ 0 \in 0 .. MaxPid /\ 0 \in Slots /\ FALSE \in BOOLEAN
  BY DEF ProcAssumption, Slots
<1>2. ZeroProc \in Procs
  BY <1>1 DEF ZeroProc, Procs
<1> QED BY <1>2 DEF Tables

LEMMA InitHolds == ProcAssumption /\ Init => ProcInv
<1> SUFFICES ASSUME ProcAssumption, Init PROVE ProcInv
  OBVIOUS
<1> DEFINE zero == [q \in Slots |-> ZeroProc]
           r == Allocproc(zero, initproc, 1)[initproc]
           s == proc[initproc]
<1>1. zero \in Tables /\ ZeroProc \in Procs /\ initproc \in Slots /\ 1 \in 1 .. MaxPid
  BY ZeroTable, Sizes DEF ProcAssumption
<1>2. /\ r \in Procs /\ Alone(r, initproc) /\ r.state = "EMBRYO" /\ r.pid = 1
      /\ r.parent = NULL
  <2>1. zero[initproc].parent = NULL
    BY <1>1 DEF ZeroProc
  <2> HIDE DEF zero
  <2> QED BY <1>1, <2>1, AllocAlone DEF Tables
<1>3. s = [r EXCEPT !.state = "RUNNABLE", !.runblenum = 1, !.pgdir = 1]
  BY <1>1 DEF Init
<1>4. \A p \in Slots \ {initproc} : proc[p] = ZeroProc
  BY DEF Init
<1>5. proc = [p \in Slots |-> proc[p]]
  BY DEF Init
<1> HIDE DEF zero, r, s
<1>6. 1 \in 0 .. NPROC /\ 1 \in PageTables
  BY DEF ProcAssumption, PageTables
<1>7. /\ s \in Procs /\ s.state = "RUNNABLE" /\ s.pid = 1 /\ s.parent = NULL /\ s.runblenum = 1
      /\ s.mainth = initproc /\ s.nextth = initproc /\ s.recentth = initproc /\ s.idx = initproc
  <2>1. r.mainth = initproc /\ r.nextth = initproc /\ r.recentth = initproc /\ r.idx = initproc
    BY <1>2 DEF Alone
  <2>2. s \in Procs
    <3>1. r \in Procs /\ 1 \in 0 .. NPROC /\ 1 \in PageTables \cup {0}
      BY <1>2, <1>6
    <3> QED BY ONLY <3>1, <1>3 DEF Procs
  <2> QED BY <1>2, <1>3, <2>1, <2>2 DEF Procs
<1>8. proc \in Tables
  BY <1>1, <1>4, <1>5, <1>7 DEF Tables, s
<1>9. \A p \in Slots : proc[p].pid = IF p = initproc THEN 1 ELSE 0
  BY <1>4, <1>7 DEF s, ZeroProc
<1>10. \A p \in Slots : proc[p].state = IF p = initproc THEN "RUNNABLE" ELSE "UNUSED"
  BY <1>4, <1>7 DEF s, ZeroProc
<1>11. \A p \in Slots : proc[p].parent = NULL
  BY <1>4, <1>7 DEF s, ZeroProc
<1>12. TypeOK
  <2>1. cpu \in [CPUS -> [proc : Slots \cup {NULL}, mainth : Slots \cup {NULL}]]
    BY DEF Init, Idle
  <2>2. ready \subseteq Slots /\ vm \subseteq PageTables /\ signalled \subseteq Pids /\ fault = "none"
    BY <1>1, <1>6 DEF Init
  <2>3. nextpid \in 2 .. MaxPid + 1
    <3>1. nextpid = 2 /\ MaxPid \in Nat \ {0}
      BY DEF Init, ProcAssumption
    <3> QED BY ONLY <3>1
  <2>4. pc \in [Slots -> PCs]
    BY DEF Init, PCs
  <2>5. arg \in [Slots -> Slots \cup 1 .. MaxThid]
    <3>1. 0 \in Slots
      BY <1>1 DEF initproc
    <3> QED BY <3>1 DEF Init
  <2> QED BY <1>8, <2>1, <2>2, <2>3, <2>4, <2>5 DEF TypeOK, Tables, Procs
<1>13. OnCpus
  <2>1. \A c \in CPUS : cpu[c].proc = NULL
    BY DEF Init, Idle
  <2>2. \A p \in Slots : proc[p].state # "RUNNING" /\ p # NULL
    BY <1>10, Sizes
  <2> QED BY <2>1, <2>2 DEF OnCpus, OneCpu, OnCpu
<1>14. Numbered
  <2>1. nextpid = 2
    BY DEF Init
  <2>2. \A p, q \in Slots : proc[p].pid = proc[q].pid => p = q \/ proc[p].state = "UNUSED"
    BY <1>9, <1>10
  <2> QED BY <1>9, <2>1, <2>2 DEF Numbered
<1>15. Started(proc[initproc]) /\ proc[initproc].pid = 1
  BY <1>1, <1>9, <1>10 DEF Started
<1>16. NoLostExit
  BY <1>10 DEF NoLostExit
<1>17. ASSUME NEW p \in Slots PROVE Alone(proc[p], p)
  <2>1. CASE p = initproc
    BY <1>7, <2>1 DEF Alone, s
  <2>2. CASE p # initproc
    BY <1>4, <2>2 DEF Alone, ZeroProc
  <2> QED BY <2>1, <2>2
<1>18. ASSUME NEW p \in Slots PROVE PlaceAt(p) /\ Parented(p)
  <2>1. pc[p] = "user"
    BY DEF Init
  <2>2. proc[p].state # "SLEEPING" /\ proc[p].parent = NULL
    BY <1>10, <1>11
  <2> QED BY <2>1, <2>2 DEF PlaceAt, Parented, Places
<1> QED BY <1>12, <1>13, <1>14, <1>15, <1>16, <1>17, <1>18 DEF ProcInv, TableInv

LEMMA Invariant == Unthreaded /\ Spec => []ProcInv
<1>1. Init => ProcInv
  BY InitHolds, ProcAssumption
<1>2. Unthreaded /\ ProcInv /\ [Next]_vars => ProcInv'
  BY NextKeeps, StutterKeeps, ProcAssumption
<1>3. Unthreaded => Unthreaded'
  BY DEF Unthreaded
<1> QED BY <1>1, <1>2, <1>3, PTL DEF Spec

-----------------------------------------------------------------------------
\* The table of processes is sound: fields hold what they may, a process runs
\* on one CPU at most and is RUNNING just when it is on one, and every parent
\* is a process that is alive to wait for its children (proc.c, exit passes
\* them to init).
THEOREM TableAlwaysSound == Unthreaded /\ Spec => []TableSound
<1>1. ProcInv => TableSound
  <2> SUFFICES ASSUME ProcInv, NEW p \in Slots, proc[p].parent # NULL PROVE Live(proc[p].parent)
    BY DEF TableSound, ProcInv, OnCpus, ParentLive
  <2> QED BY DEF ProcInv, TableInv, Parented, Started, Live
<1> QED BY <1>1, Invariant, PTL

\* No lost wakeup: nobody sleeps in wait() over an exited child or a kill.
THEOREM ExitsNeverLost == Unthreaded /\ Spec => []NoLostExit
<1>1. ProcInv => NoLostExit
  BY DEF ProcInv, TableInv
<1> QED BY <1>1, Invariant, PTL

-----------------------------------------------------------------------------
(* Kills, among programs that neither wait for a device nor run out of memory. *)
LEMMA Signal ==
  ASSUME NEW q \in Slots, SignalledAt(q), signalled \subseteq signalled',
         Kept(proc[q], proc'[q]), proc'[q].killed = proc[q].killed,
         proc'[q].state = "UNUSED" => proc[q].state = "UNUSED",
         proc'[q].state = "SLEEPING" => \/ proc[q].state = "SLEEPING" /\ pc'[q] = pc[q]
                                        \/ ~proc[q].killed \/ pc'[q] = "closing",
         pc'[q] \notin {"poll", "nap", "asleep"}
  PROVE  SignalledAt(q)'
  BY DEF SignalledAt, Kept

LEMMA SignalStays ==
  ASSUME NEW q \in Slots, SignalledAt(q), signalled \subseteq signalled', proc'[q] = proc[q],
         proc[q].state = "RUNNING" \/ pc'[q] = pc[q], pc'[q] \notin {"poll", "nap", "asleep"}
  PROVE  SignalledAt(q)'
  BY DEF SignalledAt

LEMMA DispatchSignals ==
  ASSUME ProcAssumption, ProcInv, KillsInv, NEW c \in CPUS, NEW i \in Slots, Dispatch(c, i)
  PROVE  KillsInv'
<1> USE DEF Dispatch
<1>1. proc \in Tables /\ Ringed(proc) /\ signalled' = signalled
  BY Table
<1>2. \A q \in Slots : SignalledAt(q) /\ pc[q] \notin {"poll", "nap", "asleep"}
  BY DEF KillsInv, SignalledAt
<1>3. CASE ThreadPick(proc, i) = NULL
  BY <1>1, <1>2, <1>3, SignalStays DEF KillsInv
<1>4. CASE ThreadPick(proc, i) # NULL
  <2>1. proc[i].runblenum # 0 /\ proc[i].recentth # NULL /\ ThreadPick(proc, i) = NextRunnable(proc, proc[i].recentth)
    BY <1>4 DEF ThreadPick
  <2>2. proc[i].state = "RUNNABLE"
    BY <1>1, <2>1 DEF Ringed, Alone
  <2>3. proc[i].nextth = i /\ proc[i].recentth = i /\ proc[i].idx = i
    BY <1>1, <2>2, Single
  <2>4. ThreadPick(proc, i) = i
    BY <2>1, <2>2, <2>3, RingAlone
  <2>5. proc' = Tidy(Running(proc, i, i), i) /\ pc' = Resumes(pc, i)
    BY <1>4, <2>3, <2>4
  <2>6. /\ \A q \in Slots \ {i} : proc'[q] = proc[q]
        /\ Kept(proc[i], proc'[i]) /\ proc'[i].state = "RUNNING" /\ proc'[i].killed = proc[i].killed
    BY <1>1, <2>2, <2>5, TakesCpu
  <2>7. /\ pc'[i] \notin {"poll", "nap", "asleep"}
        /\ \A q \in Slots \ {i} : pc'[q] = pc[q]
    BY <1>2, <2>5, Types DEF Resumes
  <2>8. SignalledAt(i)'
    BY <1>1, <1>2, <2>6, <2>7, Signal
  <2>9. \A q \in Slots \ {i} : SignalledAt(q)'
    BY <1>1, <1>2, <2>6, <2>7, SignalStays
  <2> QED BY <2>8, <2>9 DEF KillsInv
<1> QED BY <1>3, <1>4

LEMMA YieldSignals ==
  ASSUME ProcAssumption, ProcInv, KillsInv, NEW c \in CPUS, yield(c) \/ thread_yield(c)
  PROVE  KillsInv'
<1>1. cpu[c].proc # NULL /\ signalled' = signalled /\ proc \in Tables /\ Ringed(proc)
  BY Table DEF yield, thread_yield
<1> PICK p \in Slots : p = cpu[c].proc
  BY <1>1, Runs
<1> DEFINE t == MakeRunnable(proc, p)
           u == Tidy(Running(t, p, p), p)
<1>0. (Sched(c, t, pc, ready) \/ ThreadSched(c, p, t, pc, ready)) /\ Interruptible(p)
  BY DEF yield, thread_yield
<1>2. /\ proc[p].state = "RUNNING" /\ proc[p].runblenum = 0
      /\ proc[p].mainth = p /\ proc[p].nextth = p
  BY <1>1, Runs, Single
<1>3. \A q \in Slots : SignalledAt(q) /\ pc[q] \notin {"poll", "nap", "asleep"}
  BY DEF KillsInv, SignalledAt
<1>4. /\ t \in Tables /\ \A q \in Slots \ {p} : t[q] = proc[q]
      /\ Kept(proc[p], t[p]) /\ t[p].state = "RUNNABLE" /\ t[p].runblenum = 1 /\ t[p].killed = proc[p].killed
  BY <1>1, <1>2, MakeRunnableAlone
<1>5. t[p].mainth = p /\ t[p].nextth = p
  BY <1>2, <1>4 DEF Kept
<1> HIDE DEF t
<1>6. NextRunnable(t, p) = p
  BY <1>2, <1>4, <1>5, RingAlone
<1>7. Ringed(t)
  BY <1>1, <1>2, <1>4 DEF Ringed, Alone, Kept
<1>8. /\ u \in Tables /\ \A q \in Slots \ {p} : u[q] = t[q]
      /\ Kept(t[p], u[p]) /\ u[p].state = "RUNNING" /\ u[p].killed = t[p].killed
  BY <1>2, <1>4, <1>7, TakesCpu
<1>9. \/ proc' = t /\ pc' = pc
      \/ proc' = u /\ pc' = Resumes(pc, p)
  BY <1>0, <1>2, <1>4, <1>5, <1>6, Sizes DEF Sched, ThreadSched
<1> HIDE DEF u
<1>10. pc' = pc
  BY <1>0, <1>2, <1>3, <1>9 DEF Resumes, Interruptible
<1>11. /\ \A q \in Slots \ {p} : proc'[q] = proc[q]
       /\ Kept(proc[p], proc'[p]) /\ proc'[p].state \in {"RUNNABLE", "RUNNING"} /\ proc'[p].killed = proc[p].killed
  BY <1>4, <1>8, <1>9 DEF Kept
<1>12. SignalledAt(p)'
  BY <1>1, <1>2, <1>3, <1>10, <1>11, Signal
<1>13. \A q \in Slots \ {p} : SignalledAt(q)'
  BY <1>1, <1>3, <1>10, <1>11, SignalStays
<1> QED BY <1>12, <1>13 DEF KillsInv

\* p moves on without a change to the table.
LEMMA BecomeSignals ==
  ASSUME ProcInv, KillsInv, NEW p \in Slots, NEW label, label \notin {"poll", "nap", "asleep"},
         proc[p].state = "RUNNING", Become(p, label), proc' = proc, signalled' = signalled
  PROVE  KillsInv'
<1>1. \A q \in Slots : /\ SignalledAt(q) /\ pc'[q] \notin {"poll", "nap", "asleep"}
                       /\ proc[q].state = "RUNNING" \/ pc'[q] = pc[q]
  BY Types DEF KillsInv, SignalledAt, Become
<1> QED BY <1>1, SignalStays DEF KillsInv

LEMMA ForkSignals ==
  ASSUME ProcAssumption, ProcInv, KillsInv, NEW c \in CPUS, ForkAlloc(c)
  PROVE  KillsInv'
<1>1. PICK p \in Slots :
    /\ nextpid <= MaxPid
    /\ cpu[c].proc = p
    /\ \/ /\ Unused(proc) = {}
          /\ Become(p, "user")
          /\ UNCHANGED <<proc, arg, nextpid>>
       \/ \E np \in Slots :
            /\ Unused(proc) # {}
            /\ np = FirstOf(Unused(proc))
            /\ proc' = Allocproc(proc, np, nextpid)
            /\ nextpid' = nextpid + 1
            /\ pc' = [pc EXCEPT ![p] = "fork", ![np] = "user"]
            /\ arg' = [arg EXCEPT ![p] = np]
    /\ signalled' = signalled
  BY DEF ForkAlloc, Calls
<1>0. proc[p].state = "RUNNING"
  BY <1>1, Runs, Sizes
<1>2. \A q \in Slots : SignalledAt(q) /\ pc[q] \notin {"poll", "nap", "asleep"}
  BY DEF KillsInv, SignalledAt
<1>3. CASE Unused(proc) = {}
  <2>1. Become(p, "user") /\ proc' = proc /\ signalled' = signalled
    BY <1>1, <1>3
  <2> QED BY <1>0, <2>1, BecomeSignals
<1>4. CASE Unused(proc) # {}
  <2>1. PICK np \in Slots :
            /\ np = FirstOf(Unused(proc))
            /\ proc' = Allocproc(proc, np, nextpid)
            /\ pc' = [pc EXCEPT ![p] = "fork", ![np] = "user"]
    BY <1>1, <1>4
  <2>2. proc[np].state = "UNUSED"
    <3>1. Unused(proc) \subseteq Nat
      BY Sizes DEF Unused
    <3>2. np \in Unused(proc)
      BY <1>4, <2>1, <3>1, FirstIn
    <3> QED BY <3>2 DEF Unused
  <2>3. nextpid \in 1 .. MaxPid
    <3>1. nextpid \in 2 .. MaxPid + 1 /\ nextpid <= MaxPid /\ MaxPid \in Nat
      BY <1>1, Types DEF ProcAssumption
    <3> QED BY ONLY <3>1
  <2>4. /\ \A q \in Slots \ {np} : proc'[q] = proc[q]
        /\ proc'[np].state = "EMBRYO" /\ proc'[np].killed = proc[np].killed
    <3>1. proc \in Tables
      BY Types
    <3> QED BY <2>1, <2>3, <3>1, AllocAlone
  <2>5. \A q \in Slots : pc'[q] \notin {"poll", "nap", "asleep"}
    BY <1>2, <2>1, Types
  <2>6. SignalledAt(np)'
    <3>1. 0 \notin signalled
      <4>1. signalled \subseteq Pids
        BY Types
      <4> QED BY ONLY <4>1 DEF Pids
    <3>2. ~proc[np].killed
      BY <1>2, <2>2, <3>1 DEF SignalledAt
    <3> QED BY <2>4, <2>5, <3>2 DEF SignalledAt
  <2>8. \A q \in Slots \ {np} : proc[q].state = "RUNNING" \/ pc'[q] = pc[q]
    BY <1>0, <2>1, Types
  <2>7. \A q \in Slots \ {np} : SignalledAt(q)'
    BY <1>1, <1>2, <2>4, <2>5, <2>8, SignalStays
  <2> QED BY <2>6, <2>7 DEF KillsInv
<1> QED BY <1>3, <1>4

LEMMA PublishSignals ==
  ASSUME ProcAssumption, ProcInv, KillsInv, NEW c \in CPUS, ForkPublish(c)
  PROVE  KillsInv'
<1> DEFINE pgdir == FirstOf(PageTables \ vm)
<1>0. cpu[c].proc # NULL /\ pc[cpu[c].proc] = "fork"
  BY DEF ForkPublish
<1> PICK p \in Slots : p = cpu[c].proc
  BY <1>0, Forking
<1> PICK np \in Slots : np = arg[p]
  BY <1>0, Forking
<1> DEFINE child == Born(proc, np, pgdir, p)
<1>1. /\ pc[p] = "fork" /\ PageTables # vm
      /\ proc' = MakeRunnable(child, np) /\ Become(p, "user") /\ signalled' = signalled
  BY DEF ForkPublish, Born
<1>2. /\ proc[np].state = "EMBRYO"
      /\ proc \in Tables /\ Ringed(proc)
  BY <1>0, Forking, Table
<1>3. pgdir \in PageTables
  <2>1. PageTables \ vm \subseteq Nat /\ PageTables \ vm # {}
    <3>1. vm \subseteq PageTables /\ PageTables \subseteq Nat
      BY Sizes, Types
    <3> QED BY <1>1, <3>1
  <2> QED BY <2>1, FirstIn
<1>4. \A q \in Slots : SignalledAt(q) /\ pc'[q] \notin {"poll", "nap", "asleep"}
  <2>1. \A q \in Slots : SignalledAt(q)
    BY DEF KillsInv
  <2>2. pc \in [Slots -> PCs] /\ pc' = [pc EXCEPT ![p] = "user"]
    BY <1>1, Types DEF Become
  <2> QED BY <2>1, <2>2 DEF SignalledAt
<1> HIDE DEF pgdir
<1>5. /\ child \in Tables /\ \A q \in Slots \ {np} : child[q] = proc[q]
      /\ Passed(proc[np], child[np], p)
  BY <1>2, <1>3, BornAlone
<1> HIDE DEF child
<1>6. child[np].mainth = np /\ child[np].runblenum = 0
  BY <1>2, <1>5, Single DEF Passed, Ringed, Alone
<1>7. /\ \A q \in Slots \ {np} : proc'[q] = child[q]
      /\ Kept(child[np], proc'[np]) /\ proc'[np].state = "RUNNABLE" /\ proc'[np].killed = child[np].killed
  BY <1>1, <1>2, <1>5, <1>6, MakeRunnableAlone
<1>8. proc'[np].pid = proc[np].pid /\ proc'[np].killed = proc[np].killed
  BY <1>5, <1>7 DEF Kept, Passed
<1>9. SignalledAt(np)'
  BY <1>1, <1>2, <1>4, <1>7, <1>8 DEF SignalledAt
<1>10. ASSUME NEW q \in Slots \ {np} PROVE SignalledAt(q)'
  <2>1. proc'[q] = proc[q] /\ signalled \subseteq signalled'
    BY <1>1, <1>5, <1>7
  <2>2. proc[q].state = "RUNNING" \/ pc'[q] = pc[q]
    BY <1>0, <1>1, Runs, Types DEF Become
  <2> QED BY <1>4, <2>1, <2>2, SignalStays
<1> QED BY <1>9, <1>10 DEF KillsInv

LEMMA ExecSignals ==
  ASSUME ProcAssumption, ProcInv, KillsInv, NEW c \in CPUS, exec(c)
  PROVE  KillsInv'
<1> DEFINE new == FirstOf(PageTables \ vm)
<1>1. PICK p \in Slots : /\ Calls(c, p, "exec") /\ PageTables # vm
                         /\ proc' = PrepareExec(proc, p, new)
                         /\ Become(p, "user") /\ signalled' = signalled
  BY DEF exec
<1>2. cpu[c].proc = p /\ p # NULL
  BY <1>1, Sizes DEF Calls
<1>3. proc[p].state = "RUNNING" /\ Ringed(proc)
  BY <1>2, Runs, Table
<1>4. new \in PageTables
  <2>1. PageTables \ vm \subseteq Nat /\ PageTables \ vm # {}
    BY <1>1, Sizes, Types
  <2> QED BY <2>1, FirstIn
<1> HIDE DEF new
<1>5. /\ \A q \in Slots \ {p} : proc'[q] = proc[q]
      /\ Kept(proc[p], proc'[p]) /\ proc'[p].state = "RUNNING" /\ proc'[p].killed = proc[p].killed
  BY <1>1, <1>3, <1>4, ExecAlone
<1>6. \A q \in Slots : /\ SignalledAt(q) /\ pc'[q] \notin {"poll", "nap", "asleep"}
                       /\ q # p => pc'[q] = pc[q]
  BY <1>1, Types DEF KillsInv, SignalledAt, Become
<1>7. SignalledAt(p)'
  BY <1>1, <1>3, <1>5, <1>6, Signal
<1>8. \A q \in Slots \ {p} : SignalledAt(q)'
  BY <1>1, <1>5, <1>6, SignalStays
<1> QED BY <1>7, <1>8 DEF KillsInv

LEMMA ExitSignals ==
  ASSUME ProcAssumption, ProcInv, KillsInv, NEW c \in CPUS, exit(c)
  PROVE  KillsInv'
<1>1. PICK p, W : Exited(p, W)
  BY Exits
<1>2. /\ p \in Slots /\ W \subseteq Slots /\ p \notin W /\ \A q \in W : proc[q].state = "SLEEPING"
      /\ signalled' = signalled /\ proc[p].state = "RUNNING"
      /\ pc'[p] = "user" /\ \A q \in Slots \ {p} : pc'[q] = pc[q]
  BY <1>1 DEF Exited
<1>3. ASSUME NEW q \in Slots PROVE SignalledAt(q)'
  <2>1. SignalledAt(q) /\ ExitedAt(p, W, q)
    BY <1>1 DEF Exited, KillsInv
  <2>2. CASE q = p
    BY <1>2, <2>1, <2>2 DEF SignalledAt, ExitedAt
  <2>3. CASE q # p
    <3>1. proc'[q].pid = proc[q].pid /\ proc'[q].killed = proc[q].killed /\ pc'[q] = pc[q]
      BY <1>2, <2>1, <2>3 DEF ExitedAt
    <3>2. proc'[q].state = proc[q].state \/ (proc'[q].state = "RUNNABLE" /\ proc[q].state = "SLEEPING")
      BY <1>2, <2>1, <2>3 DEF ExitedAt
    <3> QED BY <1>2, <2>1, <3>1, <3>2 DEF SignalledAt
  <2> QED BY <2>2, <2>3
<1> QED BY <1>3 DEF KillsInv

LEMMA WaitSignals ==
  ASSUME ProcAssumption, ProcInv, KillsInv, NEW c \in CPUS, wait(c)
  PROVE  KillsInv'
<1>1. PICK p \in Slots :
    LET t == WithChan(proc, p, NULL)
        z == FirstOf(Zombies(p))
    IN  /\ cpu[c].proc = p
        /\ \/ Zombies(p) # {} /\ proc' = Reaped(t, z) /\ Become(p, "user")
           \/ proc' = t /\ Become(p, "user")
           \/ ~proc[p].killed /\ SleepOn(c, p, t, p, "wait")
        /\ signalled' = signalled
  BY DEF wait, WithChan
<1> DEFINE t == WithChan(proc, p, NULL)
           z == FirstOf(Zombies(p))
<1>2. cpu[c].proc = p /\ p # NULL
  BY <1>1, Sizes
<1>3. /\ proc[p].state = "RUNNING" /\ proc[p].runblenum = 0 /\ proc[p].mainth = p
      /\ proc \in Tables
  BY <1>2, Runs, Table, Single
<1>4. /\ t \in Tables /\ \A q \in Slots \ {p} : t[q] = proc[q]
      /\ t[p].state = "RUNNING" /\ t[p].runblenum = 0 /\ t[p].killed = proc[p].killed
  BY <1>3, ChanAlone
<1>5. Kept(proc[p], t[p])
  <2>1. NULL \in Slots \cup {NULL, IO}
    OBVIOUS
  <2> HIDE DEF t
  <2> QED BY <1>3, <2>1, ChanAlone DEF t
<1>6. \A q \in Slots : SignalledAt(q) /\ pc[q] \notin {"poll", "nap", "asleep"}
  BY DEF KillsInv, SignalledAt
<1> HIDE DEF t, z
<1>7. CASE proc' = t /\ Become(p, "user")
  <2>1. \A q \in Slots : pc'[q] \notin {"poll", "nap", "asleep"} /\ (q # p => pc'[q] = pc[q])
    BY <1>6, <1>7, Types DEF Become
  <2>2. SignalledAt(p)'
    BY <1>1, <1>3, <1>4, <1>5, <1>6, <1>7, <2>1, Signal
  <2>3. \A q \in Slots \ {p} : SignalledAt(q)'
    BY <1>1, <1>4, <1>6, <1>7, <2>1, SignalStays
  <2> QED BY <2>2, <2>3 DEF KillsInv
<1>8. CASE ~proc[p].killed /\ SleepOn(c, p, t, p, "wait")
  <2> DEFINE u == Asleep(t, p, p)
  <2>1. t[p].mainth = p
    BY <1>3, <1>5 DEF Kept
  <2>2. Sched(c, u, [pc EXCEPT ![p] = "wait"], ready)
    BY <1>4, <1>8, <2>1 DEF SleepOn, Asleep
  <2>3. /\ u \in Tables /\ \A q \in Slots \ {p} : u[q] = t[q]
        /\ Kept(t[p], u[p]) /\ u[p].state = "SLEEPING" /\ u[p].killed = t[p].killed
    BY <1>4, SleepAlone
  <2> HIDE DEF u
  <2>4. proc' = u /\ pc' = [pc EXCEPT ![p] = "wait"]
    BY <2>2 DEF Sched
  <2>5. \A q \in Slots : pc'[q] \notin {"poll", "nap", "asleep"} /\ (q # p => pc'[q] = pc[q])
    BY <1>6, <2>4, Types
  <2>6. SignalledAt(p)'
    BY <1>4, <1>8, <2>3, <2>4, <2>5 DEF SignalledAt
  <2>7. \A q \in Slots \ {p} : SignalledAt(q)'
    BY <1>1, <1>4, <1>6, <2>3, <2>4, <2>5, SignalStays
  <2> QED BY <2>6, <2>7 DEF KillsInv
<1>9. CASE Zombies(p) # {} /\ proc' = Reaped(t, z) /\ Become(p, "user")
  <2>0. PICK s \in Slots : s = z /\ proc[s].state = "ZOMBIE"
    <3>1. Zombies(p) \subseteq Nat
      BY Sizes DEF Zombies, Kids
    <3>2. z \in Zombies(p)
      BY <1>9, <3>1, FirstIn DEF z
    <3> QED BY <3>2 DEF Zombies, Kids
  <2>2. \A q \in Slots : pc'[q] \notin {"poll", "nap", "asleep"} /\ (q # p => pc'[q] = pc[q])
    BY <1>6, <1>9, Types DEF Become
  <2>3. /\ \A q \in Slots \ {s} : proc'[q] = t[q]
        /\ proc'[s].state = "UNUSED" /\ proc'[s].pid = 0 /\ proc'[s].killed = FALSE
    BY <1>4, <1>9, <2>0, ReapAlone
  <2>4. SignalledAt(s)'
    BY <2>0, <2>2, <2>3 DEF SignalledAt
  <2>5. SignalledAt(p)'
    <3>1. proc'[p] = t[p]
      BY <1>3, <2>0, <2>3
    <3> QED BY <1>1, <1>3, <1>4, <1>5, <1>6, <2>2, <3>1, Signal
  <2>6. \A q \in Slots \ {p, s} : SignalledAt(q)'
    BY <1>1, <1>4, <1>6, <2>2, <2>3, SignalStays
  <2> QED BY <2>4, <2>5, <2>6 DEF KillsInv
<1> QED BY <1>1, <1>7, <1>8, <1>9 DEF t, z

LEMMA KillSignals ==
  ASSUME ProcAssumption, ProcInv, KillsInv, NEW c \in CPUS, NEW pid \in Killable, kill(c, pid)
  PROVE  KillsInv'
<1> DEFINE V == {q \in Slots : proc[q].pid = pid}
           v == FirstOf(V)
<1>1. PICK p \in Slots :
        /\ \/ V = {} /\ proc' = proc
           \/ V # {} /\ proc' = Killed(proc, v)
        /\ Become(p, "user") /\ signalled' = signalled \cup {pid} /\ cpu[c].proc = p
  BY DEF kill, Calls
<1>0. proc[p].state = "RUNNING"
  BY <1>1, Runs, Sizes
<1>2. Ringed(proc) /\ proc \in Tables /\ pid # 0
  BY Table DEF ProcAssumption
<1>3. \A q \in Slots : /\ SignalledAt(q) /\ pc'[q] \notin {"poll", "nap", "asleep"}
                       /\ proc[q].state = "RUNNING" \/ pc'[q] = pc[q]
  BY <1>0, <1>1, Types DEF KillsInv, SignalledAt, Become
<1>4. CASE V = {} /\ proc' = proc
  BY <1>1, <1>3, <1>4, SignalStays DEF KillsInv
<1>5. CASE V # {} /\ proc' = Killed(proc, v)
  <2>1. PICK w \in Slots : w = v /\ proc[w].pid = pid
    <3>1. V \subseteq Nat
      BY Sizes
    <3>2. v \in V
      BY <1>5, <3>1, FirstIn
    <3> QED BY <3>2
  <2> HIDE DEF v, V
  <2>2. /\ \A q \in Slots \ {w} : proc'[q] = proc[q]
        /\ Kept(proc[w], proc'[w])
        /\ proc'[w].state = IF proc[w].state = "SLEEPING" THEN "RUNNABLE" ELSE proc[w].state
    BY <1>2, <1>5, <2>1, KilledAlone
  <2>3. SignalledAt(w)'
    <3>1. proc'[w].pid = pid /\ pid \in signalled'
      BY <1>1, <2>1, <2>2 DEF Kept
    <3>2. proc'[w].state # "SLEEPING" /\ proc'[w].state # "UNUSED"
      BY <1>2, <1>3, <2>1, <2>2 DEF SignalledAt
    <3> QED BY <1>3, <2>1, <3>1, <3>2 DEF SignalledAt
  <2>4. \A q \in Slots \ {w} : SignalledAt(q)'
    BY <1>1, <1>3, <2>2, SignalStays
  <2> QED BY <2>3, <2>4 DEF KillsInv
<1> QED BY <1>1, <1>4, <1>5

\* With plain programs nobody waits for a device.
LEMMA NoReaders ==
  ASSUME ProcAssumption, Plain, ProcInv, KillsInv
  PROVE  \A c \in CPUS : ~Reading(c) /\ ~ForkFail(c)
<1>1. \A p \in Slots : pc[p] \notin {"poll", "nap", "asleep"}
  BY DEF KillsInv, SignalledAt
<1>2. ASSUME NEW c \in CPUS PROVE ~Reading(c) /\ ~ForkFail(c)
  <2>1. ~ReadEnter(c) /\ ~ForkFail(c)
    BY DEF ReadEnter, ForkFail, Calls, Plain
  <2>2. cpu[c].proc # NULL => cpu[c].proc \in Slots
    BY Types
  <2>3. ~ReadPoll(c) /\ ~ReadSleep(c)
    BY <1>1, <2>2 DEF ReadPoll, ReadSleep
  <2> QED BY <2>1, <2>3 DEF Reading
<1> QED BY <1>2

\* A process sleeps while it closes its files; those that slept are woken.
LEMMA ExitSleepSignals ==
  ASSUME ProcAssumption, ProcInv, KillsInv, NEW c \in CPUS, ExitSleep(c)
  PROVE  KillsInv'
<1>1. cpu[c].proc # NULL /\ SleepOn(c, cpu[c].proc, proc, IO, "closing") /\ signalled' = signalled
  BY DEF ExitSleep
<1> PICK p \in Slots : p = cpu[c].proc
  BY <1>1, Runs
<1>2. /\ proc[p].state = "RUNNING" /\ proc[p].runblenum = 0 /\ proc[p].mainth = p /\ proc \in Tables
  BY <1>1, Runs, Table, Single
<1> DEFINE u == Asleep(proc, p, IO)
<1>3. Sched(c, u, [pc EXCEPT ![p] = "closing"], ready)
  BY <1>1, <1>2 DEF SleepOn, Asleep
<1>4. /\ u \in Tables /\ \A q \in Slots \ {p} : u[q] = proc[q]
      /\ Kept(proc[p], u[p]) /\ u[p].state = "SLEEPING" /\ u[p].killed = proc[p].killed
  BY <1>2, SleepAlone
<1> HIDE DEF u
<1>5. proc' = u /\ pc' = [pc EXCEPT ![p] = "closing"]
  BY <1>3 DEF Sched
<1>6. \A q \in Slots : SignalledAt(q) /\ pc[q] \notin {"poll", "nap", "asleep"}
  BY DEF KillsInv, SignalledAt
<1>7. pc'[p] = "closing" /\ \A q \in Slots \ {p} : pc'[q] = pc[q]
  BY <1>5, Types
<1>8. SignalledAt(p)'
  BY <1>1, <1>4, <1>5, <1>6, <1>7, Signal
<1>9. \A q \in Slots \ {p} : SignalledAt(q)'
  BY <1>1, <1>4, <1>5, <1>6, <1>7, SignalStays
<1> QED BY <1>8, <1>9 DEF KillsInv

LEMMA WakeSignals ==
  ASSUME ProcAssumption, ProcInv, KillsInv, wakeup(IO)
  PROVE  KillsInv'
<1> DEFINE W == SleepersOn(proc, IO)
<1>1. proc' = WakeSet(proc, W) /\ pc' = pc /\ signalled' = signalled
  BY DEF wakeup
<1>2. W \subseteq Slots /\ \A q \in W : proc[q].state = "SLEEPING"
  BY DEF SleepersOn
<1> HIDE DEF W
<1>3. /\ \A p \in Slots \ W : proc'[p] = proc[p]
      /\ \A p \in W : Woken(proc[p], proc'[p])
  BY <1>1, <1>2, Table, WakeAlone
<1>4. \A q \in Slots : SignalledAt(q) /\ pc[q] \notin {"poll", "nap", "asleep"}
  BY DEF KillsInv, SignalledAt
<1>5. \A p \in Slots \ W : SignalledAt(p)'
  BY <1>1, <1>3, <1>4, SignalStays
<1>6. ASSUME NEW p \in W PROVE SignalledAt(p)'
  <2>1. /\ Kept(proc[p], proc'[p]) /\ proc'[p].killed = proc[p].killed /\ proc'[p].state = "RUNNABLE"
        /\ p \in Slots
    BY <1>2, <1>3 DEF Woken
  <2> QED BY <1>1, <1>4, <2>1, Signal
<1> QED BY <1>5, <1>6 DEF KillsInv

LEMMA NextSignals ==
  ASSUME ProcAssumption, Plain, ProcInv, KillsInv, Next
  PROVE  KillsInv'
<1>6. CASE wakeup(IO)
  BY <1>6, WakeSignals
<1>7. CASE UNCHANGED vars
  BY <1>7 DEF KillsInv, SignalledAt, vars
<1> SUFFICES ASSUME ~wakeup(IO), ~UNCHANGED vars PROVE KillsInv'
  BY <1>6, <1>7
<1>1. PICK c \in CPUS : (\E idx \in Slots : Dispatch(c, idx)) \/ Enter(c) \/ Classic(c) \/ Threads(c)
  BY NoReaders DEF Next
<1>2. CASE \E idx \in Slots : Dispatch(c, idx)
  BY <1>2, DispatchSignals
<1>3. CASE Enter(c)
  <2>1. CASE Syscall(c)
    <3>1. PICK p \in Slots : Become(p, "sys") /\ proc' = proc /\ signalled' = signalled /\ proc[p].state = "RUNNING"
      BY <2>1, Runs DEF Syscall
    <3> QED BY <3>1, BecomeSignals
  <2> QED BY <1>3, <2>1, YieldSignals DEF Enter
<1>8. CASE Exiting(c)
  <2>1. PICK p \in Slots : Become(p, "exit") /\ proc' = proc /\ signalled' = signalled /\ proc[p].state = "RUNNING"
    BY <1>8, Runs DEF Exiting
  <2> QED BY <2>1, BecomeSignals
<1>4. CASE Classic(c)
  BY <1>4, <1>8, NoReaders, ExitSleepSignals, ForkSignals, PublishSignals, ExitSignals, WaitSignals, ExecSignals, KillSignals DEF Classic
<1>5. Unthreaded
  BY DEF Plain, Unthreaded
<1> QED BY <1>1, <1>2, <1>3, <1>4, <1>5, NoThreads

LEMMA InitSignals == ProcAssumption /\ Init => KillsInv
<1> SUFFICES ASSUME ProcAssumption, Init, NEW p \in Slots PROVE SignalledAt(p)
  BY DEF KillsInv
<1>1. pc[p] = "user"
  BY DEF Init
<1>2. CASE p # initproc
  BY <1>1, <1>2 DEF Init, ZeroProc, SignalledAt
<1>3. CASE p = initproc
  <2> DEFINE zero == [q \in Slots |-> ZeroProc]
             r == Allocproc(zero, initproc, 1)[initproc]
  <2>1. zero \in Tables /\ initproc \in Slots /\ 1 \in 1 .. MaxPid
    BY ZeroTable, Sizes DEF ProcAssumption
  <2>2. zero[initproc].killed = FALSE
    BY <2>1 DEF ZeroProc
  <2> HIDE DEF zero
  <2>3. r \in Procs /\ r.killed = FALSE
    BY <2>1, <2>2, AllocAlone DEF Tables
  <2>4. proc[p] = [r EXCEPT !.state = "RUNNABLE", !.runblenum = 1, !.pgdir = 1]
    BY <1>3 DEF Init, zero
  <2> HIDE DEF r
  <2>5. proc[p].state = "RUNNABLE" /\ proc[p].killed = FALSE
    BY <2>3, <2>4 DEF Procs
  <2> QED BY <1>1, <2>5 DEF SignalledAt
<1> QED BY <1>2, <1>3

\* A killed process was named in a kill(), and none sleeps on, but for one that closes
\* its files on the way out: kill wakes it, and wait() does not go to sleep once killed
\* is set (proc.c, kill and wait).  Neither
\* holds for all programs, which is why Plain excludes two: a reader tests killed
\* before it takes ptable.lock to sleep (MayKillReader), and a fork that fails leaves
\* the pid in its slot, for a kill to mark (MayKillFailed).
THEOREM KillsAlwaysArrive == Plain /\ Spec => []KillsArrive
<1>1. Init => ProcInv /\ KillsInv
  BY InitHolds, InitSignals, ProcAssumption
<1>2. Plain => Unthreaded
  BY DEF Plain, Unthreaded
<1>3. Plain /\ ProcInv /\ KillsInv /\ [Next]_vars => (ProcInv /\ KillsInv)'
  <2> SUFFICES ASSUME Plain, ProcInv, KillsInv, [Next]_vars PROVE (ProcInv /\ KillsInv)'
    OBVIOUS
  <2>1. CASE Next
    BY <1>2, <2>1, NextKeeps, NextSignals, ProcAssumption
  <2>2. CASE UNCHANGED vars
    <3>1. ProcInv'
      BY <2>2, StutterKeeps
    <3>2. KillsInv'
      BY <2>2 DEF KillsInv, SignalledAt, vars
    <3> QED BY <3>1, <3>2
  <2> QED BY <2>1, <2>2
<1>4. KillsInv => KillsArrive
  <2> SUFFICES ASSUME KillsInv PROVE KillsArrive
    OBVIOUS
  <2>1. \A p \in Slots : SignalledAt(p)
    BY DEF KillsInv
  <2> QED BY <2>1 DEF SignalledAt, KillsArrive, KilledWasSignalled, NoKilledSleeper
<1>5. Plain => Plain'
  BY DEF Plain
<1> QED BY <1>1, <1>3, <1>4, <1>5, PTL DEF Spec

-----------------------------------------------------------------------------
(* The life of each pid. *)
Phase(s) == IF s = "ZOMBIE" THEN "exited" ELSE IF s = "EMBRYO" THEN "none" ELSE "alive"
Owns(p, n) == proc[p].pid = n /\ proc[p].state # "UNUSED"
Known(n) ==
  /\ \A p \in Slots : Owns(p, n) =>
       /\ StatusOf(n) = Phase(proc[p].state)
       /\ ParentOf(n) = IF proc[p].parent = NULL THEN 0 ELSE proc[proc[p].parent].pid
  /\ (\A p \in Slots : ~Owns(p, n)) =>
       StatusOf(n) = (IF n < nextpid THEN "reaped" ELSE "none") /\ ParentOf(n) = 0
AllKnown == \A n \in Pids : Known(n)

LEMMA Knowing == ProcInv => AllKnown
<1> SUFFICES ASSUME ProcInv, NEW n \in Pids PROVE Known(n)
  BY DEF AllKnown
<1>1. Numbered /\ proc \in Tables
  BY Table DEF ProcInv, TableInv
<1>2. ASSUME NEW p \in Slots, Owns(p, n)
      PROVE  /\ StatusOf(n) = Phase(proc[p].state)
             /\ ParentOf(n) = IF proc[p].parent = NULL THEN 0 ELSE proc[proc[p].parent].pid
  <2>1. Named(n) = {p}
    BY <1>1, <1>2 DEF Named, Owns, Numbered
  <2>2. StatusOf(n) = Phase(proc[p].state)
    <3>1. {proc[q].state : q \in Named(n)} = {proc[p].state}
      BY <2>1
    <3> QED BY <3>1 DEF StatusOf, Phase
  <2>3. ParentOf(n) = IF proc[p].parent = NULL THEN 0 ELSE proc[proc[p].parent].pid
    <3>1. {proc[q].parent : q \in Named(n)} = {proc[p].parent}
      BY <2>1
    <3>2. CASE proc[p].parent = NULL
      BY <3>1, <3>2 DEF ParentOf
    <3>3. CASE proc[p].parent # NULL
      <4>1. {proc[q].parent : q \in Named(n)} \ {NULL} = {proc[p].parent}
        BY <3>1, <3>3
      <4>2. FirstOf({proc[p].parent}) = proc[p].parent
        <5>1. proc[p].parent \in Nat
          BY <1>1, <3>3, Sizes, ProcAssumption DEF Tables, Procs
        <5>2. FirstOf({proc[p].parent}) \in {proc[p].parent}
          BY <5>1, FirstIn
        <5> QED BY <5>2
      <4> QED BY <3>3, <4>1, <4>2 DEF ParentOf
    <3> QED BY <3>2, <3>3
  <2> QED BY <2>2, <2>3
<1>3. ASSUME \A p \in Slots : ~Owns(p, n)
      PROVE  StatusOf(n) = (IF n < nextpid THEN "reaped" ELSE "none") /\ ParentOf(n) = 0
  <2>1. Named(n) = {}
    BY <1>3 DEF Named, Owns
  <2> QED BY <2>1 DEF StatusOf, ParentOf
<1> QED BY <1>2, <1>3 DEF Known

LEMMA KnowingNext == ProcInv' => AllKnown'
  BY Knowing, PTL

\* The pids of which no slot in X is a process see nothing of a step that changes
\* only the slots of X.
LEMMA OthersLive ==
  ASSUME ProcInv, AllKnown, AllKnown', NEW X, \A q \in Slots \ X : Same(q),
         \A q \in Slots \ X : proc[q].parent \notin X,
         NEW n \in Pids, \A x \in X : ~Owns(x, n) /\ ~Owns(x, n)', n < nextpid' <=> n < nextpid
  PROVE  StatusOf(n)' = StatusOf(n) /\ ParentOf(n)' = ParentOf(n)
<1>1. Known(n) /\ Known(n)'
  BY DEF AllKnown
<1>2. CASE \E p \in Slots : Owns(p, n)
  <2>1. PICK p \in Slots : Owns(p, n)
    BY <1>2
  <2>2. p \notin X /\ Same(p) /\ proc[p] \in Procs
    BY <2>1, Types DEF Tables
  <2>3. Owns(p, n)' /\ Phase(proc'[p].state) = Phase(proc[p].state)
    BY <2>1, <2>2 DEF Owns, Same, Started, Phase
  <2>4. proc[p].parent # NULL => proc'[proc[p].parent].pid = proc[proc[p].parent].pid
    BY <2>2 DEF Procs, Same
  <2>5. /\ StatusOf(n) = Phase(proc[p].state)
        /\ ParentOf(n) = IF proc[p].parent = NULL THEN 0 ELSE proc[proc[p].parent].pid
    BY <1>1, <2>1 DEF Known
  <2>6. /\ StatusOf(n)' = Phase(proc'[p].state)
        /\ ParentOf(n)' = IF proc'[p].parent = NULL THEN 0 ELSE proc'[proc'[p].parent].pid
    BY <1>1, <2>3 DEF Known
  <2>7. proc'[p].parent = proc[p].parent
    BY <2>2 DEF Same
  <2> QED BY <2>3, <2>4, <2>5, <2>6, <2>7
<1>3. CASE \A p \in Slots : ~Owns(p, n)
  <2>1. \A p \in Slots : ~Owns(p, n)'
    BY <1>3 DEF Owns, Same, Started
  <2>2. StatusOf(n) = (IF n < nextpid THEN "reaped" ELSE "none") /\ ParentOf(n) = 0
    BY <1>1, <1>3 DEF Known
  <2>3. StatusOf(n)' = (IF n < nextpid' THEN "reaped" ELSE "none") /\ ParentOf(n)' = 0
    BY <1>1, <2>1 DEF Known
  <2> QED BY <2>2, <2>3
<1> QED BY <1>2, <1>3

Silent == \A n \in Pids : StatusOf(n)' = StatusOf(n) /\ ParentOf(n)' = ParentOf(n)
\* Only pid n is in another state and has another parent.
Changes(n, s, par) ==
  /\ StatusOf(n)' = s /\ ParentOf(n)' = par
  /\ \A m \in Pids \ {n} : StatusOf(m)' = StatusOf(m) /\ ParentOf(m)' = ParentOf(m)
ForkLife(p, n) == StatusOf(p) = "alive" /\ StatusOf(n) = "none" /\ Changes(n, "alive", p)
AbandonLife(n) == StatusOf(n) = "none" /\ Changes(n, "reaped", ParentOf(n))
ReapLife(n) ==
  /\ ParentOf(n) \in Pids /\ StatusOf(n) = "exited" /\ StatusOf(ParentOf(n)) = "alive"
  /\ Changes(n, "reaped", 0)
ExitLife(n) ==
  /\ n # 1 /\ StatusOf(n) = "alive" /\ StatusOf(n)' = "exited"
  /\ \A m \in Pids \ {n} : StatusOf(m)' = StatusOf(m)
  /\ \A m \in Pids : ParentOf(m)' = IF ParentOf(m) = n THEN 1 ELSE ParentOf(m)

\* A process has a pid of its own.
LEMMA Owners ==
  ASSUME ProcAssumption, ProcInv, NEW p \in Slots, proc[p].state # "UNUSED"
  PROVE  /\ proc[p].pid \in Pids /\ proc[p].pid \in Nat /\ proc[p].pid < nextpid /\ Owns(p, proc[p].pid)
         /\ \A q \in Slots : Owns(q, proc[p].pid) => q = p
<1>1. Alone(proc[p], p) /\ Numbered /\ proc[p] \in Procs
  BY Types DEF ProcInv, TableInv, Tables
<1>2. proc[p].pid # 0 /\ proc[p].pid \in 0 .. MaxPid /\ MaxPid \in Nat
  BY <1>1 DEF Alone, Procs, ProcAssumption
<1>3. proc[p].pid \in Pids /\ proc[p].pid \in Nat
  BY ONLY <1>2 DEF Pids
<1> QED BY <1>1, <1>3 DEF Numbered, Owns

\* A slot nobody runs in has no children.
LEMMA Childless ==
  ASSUME ProcInv, NEW x \in Slots, ~Started(proc[x])
  PROVE  \A q \in Slots : proc[q].parent # x
  BY Sizes, ProcAssumption DEF ProcInv, TableInv, Parented

LEMMA AllocLives ==
  ASSUME ProcAssumption, ProcInv, ProcInv', NEW x \in Slots, \A q \in Slots \ {x} : Same(q), AllocStep(x)
  PROVE  Silent
<1>1. AllKnown /\ AllKnown'
  BY Knowing, KnowingNext
<1>2. /\ proc[x].state = "UNUSED" /\ proc'[x].state = "EMBRYO" /\ proc'[x].parent = NULL
      /\ proc'[x].pid = nextpid /\ nextpid' = nextpid + 1
  BY DEF AllocStep
<1>3. \A q \in Slots \ {x} : proc[q].parent \notin {x}
  BY <1>2, Childless DEF Started
<1>4. nextpid \in Nat /\ Pids \subseteq Nat
  <2>1. nextpid \in 2 .. MaxPid + 1 /\ MaxPid \in Nat
    BY Types DEF ProcAssumption
  <2> QED BY ONLY <2>1 DEF Pids
<1> SUFFICES ASSUME NEW n \in Pids PROVE StatusOf(n)' = StatusOf(n) /\ ParentOf(n)' = ParentOf(n)
  BY DEF Silent
<1>5. CASE n = nextpid
  <2>1. Known(n) /\ Known(n)' /\ Numbered
    BY <1>1 DEF AllKnown, ProcInv, TableInv
  <2>2. \A p \in Slots : ~Owns(p, n)
    <3> SUFFICES ASSUME NEW p \in Slots, proc[p].pid = n PROVE FALSE
      BY DEF Owns
    <3>1. proc[p].pid < nextpid
      BY <2>1 DEF Numbered
    <3> QED BY <1>4, <1>5, <3>1
  <2>3. ~(n < nextpid)
    BY <1>4, <1>5
  <2>4. StatusOf(n) = "none" /\ ParentOf(n) = 0
    BY <2>1, <2>2, <2>3 DEF Known
  <2>5. Owns(x, n)'
    BY <1>2, <1>5 DEF Owns
  <2>6. StatusOf(n)' = Phase(proc'[x].state) /\ ParentOf(n)' = 0
    BY <1>2, <2>1, <2>5 DEF Known
  <2> QED BY <1>2, <2>4, <2>6 DEF Phase
<1>6. CASE n # nextpid
  <2>1. n < nextpid' <=> n < nextpid
    BY <1>2, <1>4, <1>6
  <2>2. ~Owns(x, n) /\ ~Owns(x, n)'
    BY <1>2, <1>6 DEF Owns
  <2>3. \A q \in Slots \ {x} : Same(q)
    OBVIOUS
  <2> QED BY <1>1, <1>3, <2>1, <2>2, <2>3, OthersLive
<1> QED BY <1>5, <1>6

\* Slot x keeps its pid, or loses it, and the others stay.
LEMMA OneLives ==
  ASSUME ProcAssumption, ProcInv, ProcInv', NEW x \in Slots, \A q \in Slots \ {x} : Same(q),
         ~Started(proc[x]), proc[x].state # "UNUSED", nextpid' = nextpid,
         proc'[x].state # "UNUSED" => proc'[x].pid = proc[x].pid,
         NEW n \in Pids, n # proc[x].pid
  PROVE  StatusOf(n)' = StatusOf(n) /\ ParentOf(n)' = ParentOf(n)
<1>1. AllKnown /\ AllKnown'
  BY Knowing, KnowingNext
<1>2. \A q \in Slots \ {x} : proc[q].parent \notin {x}
  BY Childless
<1>3. ~Owns(x, n) /\ ~Owns(x, n)'
  BY DEF Owns
<1> QED BY <1>1, <1>2, <1>3, OthersLive

LEMMA PublishLives ==
  ASSUME ProcAssumption, ProcInv, ProcInv', NEW x \in Slots, \A q \in Slots \ {x} : Same(q), PublishStep(x)
  PROVE  \E p, n \in Pids : ForkLife(p, n)
<1>1. PICK p \in Slots \ {x} : proc[p].state = "RUNNING" /\ proc'[x].parent = p
  BY DEF PublishStep
<1>2. /\ proc[x].state = "EMBRYO" /\ proc'[x].state = "RUNNABLE" /\ proc'[x].pid = proc[x].pid
      /\ nextpid' = nextpid
  BY DEF PublishStep
<1>3. PICK n \in Pids : n = proc[x].pid /\ Owns(x, n)
  BY <1>2, Owners
<1>4. PICK m \in Pids : m = proc[p].pid /\ Owns(p, m)
  BY <1>1, Owners
<1>5. Known(n) /\ Known(n)' /\ Known(m)
  BY Knowing, KnowingNext DEF AllKnown
<1>6. StatusOf(n) = "none" /\ StatusOf(m) = "alive"
  BY <1>1, <1>2, <1>3, <1>4, <1>5 DEF Known, Phase
<1>7. Owns(x, n)' /\ p # NULL
  BY <1>1, <1>2, <1>3, Sizes DEF Owns
<1>8. proc'[p].pid = m
  BY <1>1, <1>4 DEF Same
<1>9. StatusOf(n)' = "alive" /\ ParentOf(n)' = m
  BY <1>1, <1>2, <1>5, <1>7, <1>8 DEF Known, Phase
<1>10. \A k \in Pids \ {n} : StatusOf(k)' = StatusOf(k) /\ ParentOf(k)' = ParentOf(k)
  BY <1>2, <1>3, OneLives DEF Started
<1> QED BY <1>6, <1>9, <1>10 DEF ForkLife, Changes

LEMMA AbandonLives ==
  ASSUME ProcAssumption, ProcInv, ProcInv', NEW x \in Slots, \A q \in Slots \ {x} : Same(q), AbandonStep(x)
  PROVE  \E n \in Pids : AbandonLife(n)
<1>1. /\ proc[x].state = "EMBRYO" /\ proc'[x].state = "UNUSED" /\ proc'[x].pid = proc[x].pid
      /\ nextpid' = nextpid
  BY DEF AbandonStep
<1>2. PICK n \in Pids : n = proc[x].pid /\ Owns(x, n) /\ n < nextpid /\ \A q \in Slots : Owns(q, n) => q = x
  BY <1>1, Owners
<1>3. Known(n) /\ Known(n)' /\ Parented(x)
  BY Knowing, KnowingNext DEF AllKnown, ProcInv, TableInv
<1>4. StatusOf(n) = "none" /\ ParentOf(n) = 0
  BY <1>1, <1>2, <1>3 DEF Known, Phase, Parented
<1>5. \A q \in Slots : ~Owns(q, n)'
  BY <1>1, <1>2 DEF Owns, Same, Started
<1>6. StatusOf(n)' = "reaped" /\ ParentOf(n)' = 0
  BY <1>1, <1>2, <1>3, <1>5 DEF Known
<1>7. \A k \in Pids \ {n} : StatusOf(k)' = StatusOf(k) /\ ParentOf(k)' = ParentOf(k)
  BY <1>1, <1>2, OneLives DEF Started
<1> QED BY <1>4, <1>6, <1>7 DEF AbandonLife, Changes

LEMMA ReapLives ==
  ASSUME ProcAssumption, ProcInv, ProcInv', NEW x \in Slots, \A q \in Slots \ {x} : Same(q), ReapStep(x)
  PROVE  \E n \in Pids : ReapLife(n)
<1>1. PICK p \in Slots : proc[p].state = "RUNNING" /\ proc[x].parent = p
  BY DEF ReapStep
<1>2. proc[x].state = "ZOMBIE" /\ proc'[x].state = "UNUSED" /\ nextpid' = nextpid
  BY DEF ReapStep
<1>3. PICK n \in Pids : n = proc[x].pid /\ Owns(x, n) /\ n < nextpid /\ \A q \in Slots : Owns(q, n) => q = x
  BY <1>2, Owners
<1>4. PICK m \in Pids : m = proc[p].pid /\ Owns(p, m)
  BY <1>1, Owners
<1>5. Known(n) /\ Known(n)' /\ Known(m)
  BY Knowing, KnowingNext DEF AllKnown
<1>6. StatusOf(n) = "exited" /\ ParentOf(n) = m /\ StatusOf(m) = "alive"
  BY <1>1, <1>2, <1>3, <1>4, <1>5, Sizes DEF Known, Phase
<1>7. \A q \in Slots : ~Owns(q, n)'
  BY <1>2, <1>3 DEF Owns, Same, Started
<1>8. StatusOf(n)' = "reaped" /\ ParentOf(n)' = 0
  BY <1>2, <1>3, <1>5, <1>7 DEF Known
<1>9. \A k \in Pids \ {n} : StatusOf(k)' = StatusOf(k) /\ ParentOf(k)' = ParentOf(k)
  BY <1>2, <1>3, OneLives DEF Started
<1> QED BY <1>6, <1>8, <1>9 DEF ReapLife, Changes

LEMMA ExitLives ==
  ASSUME ProcAssumption, ProcInv, ProcInv', NEW p, NEW W, Exited(p, W)
  PROVE  \E n \in Pids : ExitLife(n)
<1>1. /\ p \in Slots /\ p # initproc /\ initproc \in Slots /\ proc[p].state = "RUNNING" /\ nextpid' = nextpid
      /\ p \notin W /\ \A q \in W : proc[q].state = "SLEEPING"
      /\ \A q \in Slots : ExitedAt(p, W, q)
  BY Sizes DEF Exited
<1>2. proc[initproc].pid = 1 /\ proc[initproc].state # "UNUSED" /\ initproc # NULL /\ p # NULL
  BY <1>1, Sizes DEF ProcInv, TableInv, Started
<1>3. PICK n \in Pids : n = proc[p].pid /\ Owns(p, n) /\ \A q \in Slots : Owns(q, n) => q = p
  BY <1>1, Owners
<1>4. n # 1
  BY <1>1, <1>2, <1>3 DEF Owns
<1>5. AllKnown /\ AllKnown'
  BY Knowing, KnowingNext
<1>6. ASSUME NEW m \in Pids
      PROVE  /\ m = n => StatusOf(m) = "alive" /\ StatusOf(m)' = "exited"
             /\ m # n => StatusOf(m)' = StatusOf(m)
             /\ ParentOf(m)' = IF ParentOf(m) = n THEN 1 ELSE ParentOf(m)
  <2>1. Known(m) /\ Known(m)'
    BY <1>5 DEF AllKnown
  <2>2. CASE \E q \in Slots : Owns(q, m)
    <3>1. PICK q \in Slots : Owns(q, m)
      BY <2>2
    <3>2. ExitedAt(p, W, q) /\ Parented(q) /\ proc[q] \in Procs
      BY <1>1, Types DEF ProcInv, TableInv, Tables
    <3>3. q # p => \/ proc'[q].state = proc[q].state
                   \/ proc'[q].state = "RUNNABLE" /\ proc[q].state = "SLEEPING"
      BY <1>1, <3>2 DEF ExitedAt
    <3>4. Owns(q, m)'
      BY <3>1, <3>2, <3>3 DEF ExitedAt, Owns
    <3>5. /\ StatusOf(m) = Phase(proc[q].state) /\ StatusOf(m)' = Phase(proc'[q].state)
          /\ ParentOf(m) = IF proc[q].parent = NULL THEN 0 ELSE proc[proc[q].parent].pid
          /\ ParentOf(m)' = IF proc'[q].parent = NULL THEN 0 ELSE proc'[proc'[q].parent].pid
      BY <2>1, <3>1, <3>4 DEF Known
    <3>6. m = n <=> q = p
      BY <1>3, <3>1 DEF Owns
    <3>7. q = p => proc'[q].state = "ZOMBIE"
      BY <3>2 DEF ExitedAt
    <3>8. /\ m = n => StatusOf(m) = "alive" /\ StatusOf(m)' = "exited"
          /\ m # n => StatusOf(m)' = StatusOf(m)
      BY <1>1, <3>3, <3>5, <3>6, <3>7 DEF Phase
    <3>9. proc'[q].parent = IF proc[q].parent = p THEN initproc ELSE proc[q].parent
      BY <3>2 DEF ExitedAt
    <3>10. \A r \in Slots : proc'[r].pid = proc[r].pid
      BY <1>1 DEF ExitedAt
    <3>11. CASE proc[q].parent = NULL
      <4>1. n # 0
        BY DEF Pids
      <4> QED BY <1>2, <3>5, <3>8, <3>9, <3>11, <4>1
    <3>12. CASE proc[q].parent # NULL
      <4>1. PICK r \in Slots : r = proc[q].parent /\ Started(proc[r])
        BY <3>2, <3>12 DEF Parented, Procs
      <4>2. proc[r].pid = n <=> r = p
        BY <1>3, <4>1 DEF Owns, Started
      <4>3. ParentOf(m) = proc[r].pid
        BY <3>5, <3>12, <4>1
      <4>4. ParentOf(m)' = IF r = p THEN 1 ELSE proc[r].pid
        BY <1>1, <1>2, <3>5, <3>9, <3>10, <3>12, <4>1
      <4> QED BY <3>8, <4>2, <4>3, <4>4
    <3> QED BY <3>11, <3>12
  <2>3. CASE \A q \in Slots : ~Owns(q, m)
    <3>1. \A q \in Slots : ~Owns(q, m)'
      BY <1>1, <2>3 DEF ExitedAt, Owns
    <3>2. m # n /\ n # 0
      BY <1>1, <1>3, <2>3 DEF Pids
    <3>3. StatusOf(m) = (IF m < nextpid THEN "reaped" ELSE "none") /\ ParentOf(m) = 0
      BY <2>1, <2>3 DEF Known
    <3>4. StatusOf(m)' = (IF m < nextpid' THEN "reaped" ELSE "none") /\ ParentOf(m)' = 0
      BY <2>1, <3>1 DEF Known
    <3> QED BY <1>1, <3>2, <3>3, <3>4
  <2> QED BY <2>2, <2>3
<1> QED BY <1>4, <1>6 DEF ExitLife

LEMMA Lives ==
  ASSUME ProcAssumption, ProcInv, ProcInv', LifeStep
  PROVE  \/ Silent
         \/ \E n \in Pids : AbandonLife(n) \/ ReapLife(n) \/ ExitLife(n) \/ \E p \in Pids : ForkLife(p, n)
<1>1. CASE nextpid' = nextpid /\ \A q \in Slots : Same(q)
  <2>1. AllKnown /\ AllKnown'
    BY Knowing, KnowingNext
  <2>2. ASSUME NEW n \in Pids PROVE StatusOf(n)' = StatusOf(n) /\ ParentOf(n)' = ParentOf(n)
    <3> DEFINE X == {}
    <3>1. \A q \in Slots \ X : Same(q)
      BY <1>1
    <3>2. \A q \in Slots \ X : proc[q].parent \notin X
      OBVIOUS
    <3>3. \A x \in X : ~Owns(x, n) /\ ~Owns(x, n)'
      OBVIOUS
    <3>4. n < nextpid' <=> n < nextpid
      BY <1>1
    <3> HIDE DEF X
    <3> QED BY <2>1, <3>1, <3>2, <3>3, <3>4, OthersLive
  <2> QED BY <2>2 DEF Silent
<1>2. CASE \E x \in Slots : /\ \A q \in Slots \ {x} : Same(q)
                            /\ AllocStep(x) \/ PublishStep(x) \/ AbandonStep(x) \/ ReapStep(x)
  BY <1>2, AllocLives, PublishLives, AbandonLives, ReapLives
<1>3. CASE \E p, W : Exited(p, W)
  BY <1>3, ExitLives
<1> QED BY <1>1, <1>2, <1>3 DEF LifeStep

LEMMA LifeBegins ==
  ASSUME ProcAssumption, Init
  PROVE  Life!Init
<1>1. ProcInv
  BY InitHolds
<1>2. AllKnown /\ nextpid = 2
  BY <1>1, Knowing DEF Init
<1>3. /\ proc[initproc].pid = 1 /\ Started(proc[initproc]) /\ initproc \in Slots
      /\ Owns(initproc, 1)
  BY <1>1, Sizes DEF ProcInv, TableInv, Owns, Started
<1>4. \A q \in Slots \ {initproc} : proc[q].state = "UNUSED"
  BY DEF Init, ZeroProc
<1>5. proc[initproc].parent = NULL
  BY <1>1, <1>3 DEF ProcInv, TableInv, Parented
<1>6. ASSUME NEW n \in Pids
      PROVE  StatusOf(n) = (IF n = 1 THEN "alive" ELSE "none") /\ ParentOf(n) = 0
  <2>1. Known(n)
    BY <1>2 DEF AllKnown
  <2>2. CASE n = 1
    BY <1>3, <1>5, <2>1, <2>2 DEF Known, Phase, Started
  <2>3. CASE n # 1
    <3>1. \A q \in Slots : ~Owns(q, n)
      BY <1>3, <1>4, <2>3 DEF Owns
    <3>2. ~(n < nextpid)
      <4>1. n \in 1 .. MaxPid /\ MaxPid \in Nat
        BY DEF Pids, ProcAssumption
      <4> QED BY ONLY <1>2, <2>3, <4>1
    <3> QED BY <2>1, <2>3, <3>1, <3>2 DEF Known
  <2> QED BY <2>2, <2>3
<1> QED BY <1>6 DEF Life!Init, Life!Nobody

\* Each step of the kernel is a step of the life of one pid, or none.
LEMMA LifeGoesOn ==
  ASSUME ProcAssumption, ProcInv, ProcInv', LifeStep
  PROVE  [Life!Next]_(Life!vars)
<1> DEFINE st == [n \in Pids |-> StatusOf(n)]
           pa == [n \in Pids |-> ParentOf(n)]
<1>1. CASE Silent
  BY <1>1 DEF Silent, Life!vars
<1>2. ASSUME NEW n \in Pids, AbandonLife(n) PROVE Life!Abandon(n)
  BY <1>2 DEF AbandonLife, Changes, Life!Abandon
<1>3. ASSUME NEW n \in Pids, ReapLife(n) PROVE Life!Reap(n)
  BY <1>3 DEF ReapLife, Changes, Life!Reap, Life!Nobody
<1>4. ASSUME NEW n \in Pids, ExitLife(n) PROVE Life!Exit(n)
  BY <1>4 DEF ExitLife, Life!Exit
<1>5. ASSUME NEW n \in Pids, NEW p \in Pids, ForkLife(p, n) PROVE Life!Fork(p, n)
  BY <1>5 DEF ForkLife, Changes, Life!Fork
<1> QED BY <1>1, <1>2, <1>3, <1>4, <1>5, Lives DEF Life!Next

\* fork, exit and wait keep what they promise to programs (proc.c): a process is
\* born once, exits once and is reaped once, by a parent that is alive, and the
\* children of a process that exits are those of pid 1.
THEOREM LifecycleRefinement == Unthreaded /\ Spec => ImplementsLifecycle
<1>1. Init => Life!Init
  BY LifeBegins, ProcAssumption
<1>2. Unthreaded /\ ProcInv /\ ProcInv' /\ [Next]_vars => [Life!Next]_(Life!vars)
  <2> SUFFICES ASSUME Unthreaded, ProcInv, ProcInv', [Next]_vars PROVE [Life!Next]_(Life!vars)
    OBVIOUS
  <2>1. CASE Next
    BY <2>1, NextKeeps, LifeGoesOn, ProcAssumption
  <2>2. CASE UNCHANGED vars
    <3>1. Silent
      BY <2>2 DEF vars, Silent, StatusOf, ParentOf, Named
    <3> QED BY <3>1 DEF Silent, Life!vars
  <2> QED BY <2>1, <2>2
<1>3. Unthreaded /\ Spec => []ProcInv
  BY Invariant
<1>4. Unthreaded => Unthreaded'
  BY DEF Unthreaded
<1> QED BY <1>1, <1>2, <1>3, <1>4, PTL DEF Spec, ImplementsLifecycle, Life!Spec
=============================================================================
