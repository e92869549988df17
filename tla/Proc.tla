--------------------------------- MODULE Proc ---------------------------------
(***************************************************************************)
(* Processes, threads and the CPUs that run them (proc.c, exec.c, trap.c). *)
(* A critical section of ptable.lock is one step.  Code outside it is cut  *)
(* where another CPU or an interrupt can matter: between a trap's test of  *)
(* killed and the call it makes, between allocating a slot and publishing  *)
(* it, between a sleeper's test of killed and its sleep().  The levels,    *)
(* ticks and tickets that choose among the queued groups are left out: any *)
(* queued group may be picked.                                             *)
(***************************************************************************)
EXTENDS Integers, FiniteSets

(***************************************************************************)
(* struct proc, the table ptable.proc, and what the functions of proc.c    *)
(* that run under ptable.lock do to it.  A pointer to a struct proc is its *)
(* slot, or NULL; t is a table, p a slot.  A process is its main thread    *)
(* together with the threads linked to it in a ring by nextth and prevth.  *)
(***************************************************************************)
CONSTANT NPROC      \* slots of ptable.proc

Slots == 0 .. NPROC - 1
NULL == -1
initproc == 0       \* userinit runs first, so initproc is slot 0
FirstOf(S) == CHOOSE x \in S : \A y \in S : x <= y

\* The table is a static array: all zero.
ZeroProc ==
  [state |-> "UNUSED", pid |-> 0, idx |-> 0, parent |-> NULL, join |-> NULL,
   chan |-> NULL, killed |-> FALSE, pgdir |-> 0, thid |-> 0, nextid |-> 0,
   mainth |-> NULL, nextth |-> NULL, prevth |-> NULL, recentth |-> NULL,
   runblenum |-> 0]

Unused(t) == {p \in Slots : t[p].state = "UNUSED"}

\* Slot p becomes a new single-threaded process.  parent, chan, killed and
\* pgdir keep what the last user of the slot left.
Allocproc(t, p, pid) ==
  [t EXCEPT ![p] = [@ EXCEPT !.state = "EMBRYO", !.pid = pid, !.idx = p,
      !.thid = 0, !.nextid = 0, !.mainth = p, !.nextth = p, !.prevth = p,
      !.recentth = p, !.runblenum = 0]]

\* Slot p becomes a thread of cur's process, last in the ring.
ThreadAllocproc(t, p, cur) ==
  LET m == t[cur].mainth
      last == t[m].prevth
      new == [t[p] EXCEPT !.state = "EMBRYO", !.pid = t[m].pid, !.idx = p,
                !.parent = t[m].parent, !.join = cur, !.pgdir = t[m].pgdir,
                !.thid = t[m].nextid + 1, !.mainth = m, !.nextth = m,
                !.prevth = last]
      linked == [t EXCEPT ![p] = new, ![m].nextid = @ + 1]
  IN  [linked EXCEPT ![last].nextth = p, ![m].prevth = p]

------------------------------------------------------------------------------
\* for(q = p->nextth; q != p; q = q->nextth): the slots in the order met.  The
\* walk that is not back at p after NPROC steps never is.
Walk(t, p) ==
  LET walk[k \in 0 .. NPROC] ==
        IF k = 0 THEN p
        ELSE LET q == walk[k - 1]
             IN  IF q = NULL \/ (k > 1 /\ q = p) THEN q ELSE t[q].nextth
  IN  walk
Closes(t, p) == Walk(t, p)[NPROC] = p
Siblings(t, p) == {Walk(t, p)[k] : k \in 1 .. NPROC} \ {p, NULL}

\* The thread after p in the ring that can run, p itself last; or NULL.
NextRunnable(t, p) ==
  LET K == {k \in 1 .. NPROC : Walk(t, p)[k] # NULL
                               /\ t[Walk(t, p)[k]].state = "RUNNABLE"}
  IN  IF K = {} THEN NULL ELSE Walk(t, p)[FirstOf(K)]

\* The choice of thread_pick for the group whose queued index is idx.
ThreadPick(t, idx) ==
  IF t[idx].runblenum = 0 \/ t[idx].recentth = NULL
  THEN NULL
  ELSE NextRunnable(t, t[idx].recentth)

\* Thread q takes the CPU: its group has one runnable thread less.
Running(t, q, recent) ==
  [p \in Slots |->
     [t[p] EXCEPT !.state = IF p = q THEN "RUNNING" ELSE @,
                  !.recentth = IF p = recent THEN q ELSE @,
                  !.runblenum = IF p = recent THEN @ - 1 ELSE @]]

MakeRunnable(t, p) ==
  [[t EXCEPT ![p].state = "RUNNABLE"] EXCEPT ![t[p].mainth].runblenum = @ + 1]

------------------------------------------------------------------------------
\* The sleepers W become RUNNABLE.  Only an increment that takes runblenum to
\* exactly 1 queues the group.
Grown(t, W, m) == t[m].runblenum + Cardinality({q \in W : t[q].mainth = m})
WakeSet(t, W) ==
  [p \in Slots |->
     [t[p] EXCEPT !.state = IF p \in W THEN "RUNNABLE" ELSE @,
        !.runblenum = Grown(t, W, p)]]
\* Mutant: the group is queued when a second thread wakes up.
QueuedLate(t, W) ==
  {t[m].idx : m \in {m \in {t[q].mainth : q \in W} :
                       t[m].runblenum < 2 /\ Grown(t, W, m) >= 2}}
Queued(t, W) ==
  {t[m].idx : m \in {m \in {t[q].mainth : q \in W} :
                       t[m].runblenum < 1 /\ Grown(t, W, m) >= 1}}
SleepersOn(t, chan) == {p \in Slots : t[p].state = "SLEEPING" /\ t[p].chan = chan}

\* kill: every thread of the ring is marked, the sleeping ones wake up.
KillSet(t, p) == {p} \cup Siblings(t, p)
\* Mutant: kill wakes the other threads only.
KillSleepersSiblings(t, p) == {q \in Siblings(t, p) : t[q].state = "SLEEPING"}
KillSleepers(t, p) == {q \in KillSet(t, p) : t[q].state = "SLEEPING"}
Killed(t, p) ==
  LET woken == WakeSet(t, KillSleepers(t, p))
  IN  [q \in Slots |-> [woken[q] EXCEPT !.killed = @ \/ q \in KillSet(t, p)]]

------------------------------------------------------------------------------
Cleared(r) == [r EXCEPT !.pid = 0, !.parent = NULL, !.killed = FALSE, !.idx = 0,
                        !.state = "UNUSED", !.join = NULL]

\* clear_thread: cur takes over the identity of its main thread and the slots
\* of its siblings are freed, whatever they were doing.
ClearThread(t, cur) ==
  LET main == t[t[cur].mainth]
      sib == Siblings(t, cur)
  IN  [p \in Slots |->
         IF p \in sib THEN [Cleared(t[p]) EXCEPT !.recentth = NULL]
         ELSE IF p = cur THEN [t[p] EXCEPT !.pgdir = main.pgdir, !.pid = main.pid,
                                 !.runblenum = main.runblenum - Cardinality(sib)]
         ELSE t[p]]

\* prepare_exec: the same for exec, and cur becomes its own main thread.
PrepareExec(t, cur, pgdir) ==
  LET main == t[t[cur].mainth]
      sib == Siblings(t, cur)
  IN  [p \in Slots |->
         IF p \in sib THEN [Cleared(t[p]) EXCEPT !.thid = 0]
         ELSE IF p = cur THEN [t[p] EXCEPT !.pgdir = pgdir, !.pid = main.pid,
                                 !.parent = main.parent, !.killed = main.killed,
                                 !.thid = 0, !.nextid = 0, !.mainth = cur,
                                 !.nextth = cur, !.prevth = cur, !.recentth = cur,
                                 !.runblenum = 0]
         ELSE t[p]]

Orphans(t, cur) ==
  {p \in Slots : \/ t[p].parent = cur
                 \/ t[p].parent # NULL /\ t[t[p].parent].pid = t[cur].pid}
\* Mutant: the children go to the parent of the exiting process.
AdoptedByGrandparent(t, cur) ==
  [p \in Slots |-> IF p \in Orphans(t, cur)
                   THEN [t[p] EXCEPT !.parent = t[cur].parent] ELSE t[p]]
\* Mutant: a zombie passed to init is not announced.
AdoptedZombieNever(t, cur) == FALSE
AdoptedZombie(t, cur) == \E q \in Orphans(t, cur) : t[q].state = "ZOMBIE"
\* exit passes the children to init.
Adopted(t, cur) ==
  [p \in Slots |-> IF p \in Orphans(t, cur)
                   THEN [t[p] EXCEPT !.parent = initproc] ELSE t[p]]

\* wait frees the slot of the exited child z.
Reaped(t, z) ==
  [t EXCEPT ![z] = [Cleared(@) EXCEPT !.thid = 0, !.mainth = NULL,
      !.nextth = NULL, !.prevth = NULL, !.recentth = NULL, !.runblenum = 0]]

\* Mutant: the predecessor in the ring still leads to the freed slot.
UnlinkedOneWay(t, z) ==
  [[t EXCEPT ![t[z].nextth].prevth = t[z].prevth]
     EXCEPT ![z] = [@ EXCEPT !.pid = 0, !.idx = 0, !.parent = NULL,
         !.state = "UNUSED", !.join = NULL, !.thid = 0, !.mainth = NULL,
         !.nextth = NULL, !.prevth = NULL]]
\* A thread's slot is taken out of the ring and freed (thread_join leaves
\* killed as it is).
Unlinked(t, z) ==
  LET a == t[z].prevth
      b == t[z].nextth
      ring == [[t EXCEPT ![b].prevth = a] EXCEPT ![a].nextth = b]
  IN  [ring EXCEPT ![z] = [@ EXCEPT !.pid = 0, !.idx = 0, !.parent = NULL,
         !.state = "UNUSED", !.join = NULL, !.thid = 0, !.mainth = NULL,
         !.nextth = NULL, !.prevth = NULL]]

\* thread_create gives up on th: the ring is closed at th's predecessor, as
\* if th were still the last thread.
CutOff(t, th) ==
  LET m == t[th].mainth
      a == t[th].prevth
      ring == [[t EXCEPT ![m].prevth = a] EXCEPT ![a].nextth = m]
  IN  [ring EXCEPT ![th] = [@ EXCEPT !.pid = 0, !.parent = NULL,
         !.state = "UNUSED", !.join = NULL, !.thid = 0, !.mainth = NULL,
         !.nextth = NULL, !.prevth = NULL, !.pgdir = 0]]

-----------------------------------------------------------------------------
CONSTANTS CPUS,
          MaxPid,     \* bound: fork stops once nextpid exceeds it
          MaxThid,    \* bound: thread_create stops at this thread id
          May,        \* the workload: pairs <<call, role of the caller>>
          Killable    \* the workload: the pids given to kill (1 panics init)
ASSUME ProcAssumption ==
  NPROC \in Nat \ {0} /\ MaxPid \in Nat \ {0} /\ MaxThid \in Nat /\ Killable \subseteq 1 .. MaxPid

VARIABLES proc,       \* ptable.proc
          cpu,        \* per CPU: c->proc, and scheduler()'s local mainth
          ready,      \* the indexes in the MLFQ levels and the stride heap
          nextpid,
          vm,         \* the page tables that are allocated
          pc,         \* slot -> what its kernel thread is doing
          arg,        \* slot -> the new slot or thread id of the call under way
          signalled,  \* history: the pids kill() was called with
          fault       \* the way the kernel broke down, or "none"
vars == <<proc, cpu, ready, nextpid, vm, pc, arg, signalled, fault>>

Idle == [proc |-> NULL, mainth |-> NULL]
Pids == 1 .. MaxPid
PageTables == 1 .. NPROC + 1
IO == NPROC           \* a channel of some device or pipe
PCs == {"user", "sys", "fork", "new", "poll", "nap", "asleep", "wait", "join",
        "exit", "closing"}

Init ==
  /\ proc = [p \in Slots |->
       IF p = initproc
       THEN [Allocproc([q \in Slots |-> ZeroProc], p, 1)[p]
               EXCEPT !.state = "RUNNABLE", !.runblenum = 1, !.pgdir = 1]
       ELSE ZeroProc]
  /\ cpu = [c \in CPUS |-> Idle]
  /\ ready = {initproc}
  /\ nextpid = 2
  /\ vm = {1}
  /\ pc = [p \in Slots |-> "user"]
  /\ arg = [p \in Slots |-> 0]
  /\ signalled = {}
  /\ fault = "none"

------------------------------------------------------------------------------
\* A process resumed in the loop of wait or thread_join still holds
\* ptable.lock, which the CPU's scheduler had taken.
HoldsLock(p) == pc[p] \in {"wait", "join"}
LockFree == /\ fault = "none"
            /\ \A c \in CPUS : cpu[c].proc # NULL => ~HoldsLock(cpu[c].proc)

Role(p) == IF p = initproc THEN "init"
           ELSE IF proc[p].mainth = p THEN "main" ELSE "thread"

\* cpu c runs p, whose system call has got as far as call.
Calls(c, p, call) == /\ cpu[c].proc = p
                     /\ pc[p] = "sys"
                     /\ <<call, Role(p)>> \in May

Become(p, label) == pc' = [pc EXCEPT ![p] = label]

\* What sleep() still does for the process that gets the CPU.
Tidy(t, q) == IF pc[q] \in {"asleep", "closing"} THEN [t EXCEPT ![q].chan = NULL] ELSE t
Resumes(pcs, q) == CASE pcs[q] = "asleep" -> [pcs EXCEPT ![q] = "poll"]
                     [] pcs[q] = "closing" -> [pcs EXCEPT ![q] = "exit"]
                     [] OTHER -> pcs

\* Mutant: the scheduler wants two runnable threads.
RequeuedIfTwo(t, m) == IF t[m].runblenum > 1 THEN {t[m].idx} ELSE {}
\* scheduler(), after the switch back to it.
Requeued(t, m) == IF t[m].runblenum > 0 THEN {t[m].idx} ELSE {}

\* Mutant: c->proc is not reset.
SchedKeepsProc(c, t, pcs, queue) ==
  /\ proc' = t
  /\ ready' = queue \cup Requeued(t, cpu[c].mainth)
  /\ pc' = pcs
  /\ UNCHANGED cpu
\* swtch to the scheduler of c, which queues the group it had dispatched if
\* that group has a runnable thread.
Sched(c, t, pcs, queue) ==
  /\ proc' = t
  /\ cpu' = [cpu EXCEPT ![c] = Idle]
  /\ ready' = queue \cup Requeued(t, cpu[c].mainth)
  /\ pc' = pcs

\* thread_sched: the next runnable thread of p's process gets the CPU, and
\* the scheduler only when there is none.  A ring with no runnable thread
\* although runblenum counts one returns to p.
ThreadSched(c, p, t, pcs, queue) ==
  LET q == NextRunnable(t, p)
      m == t[q].mainth
  IN  \/ /\ t[t[p].mainth].runblenum = 0
         /\ Sched(c, t, pcs, queue)
      \/ /\ t[t[p].mainth].runblenum # 0
         /\ q # NULL
         /\ proc' = Tidy(Running(t, q, m), q)
         /\ cpu' = [cpu EXCEPT ![c].proc = q]
         /\ pc' = Resumes(pcs, q)
         /\ ready' = queue
      \/ /\ t[t[p].mainth].runblenum # 0
         /\ q = NULL
         /\ proc' = t
         /\ pc' = pcs
         /\ ready' = queue
         /\ UNCHANGED cpu

\* sleep(chan) with ptable.lock held.
SleepOn(c, p, t, chan, label) ==
  LET asleep == [t EXCEPT ![p].chan = chan, ![p].state = "SLEEPING"]
      pcs == [pc EXCEPT ![p] = label]
  IN  IF t[t[p].mainth].runblenum > 0
      THEN ThreadSched(c, p, asleep, pcs, ready)
      ELSE Sched(c, asleep, pcs, ready)

------------------------------------------------------------------------------
\* scheduler() takes a queued group and runs the thread thread_pick gives.
Dispatch(c, idx) ==
  LET q == ThreadPick(proc, idx)
      r == proc[q].idx
  IN  /\ LockFree
      /\ cpu[c].proc = NULL
      /\ idx \in ready
      /\ ready' = ready \ {idx}
      /\ \/ /\ q = NULL
            /\ UNCHANGED <<proc, cpu, pc>>
         \/ /\ q # NULL
            /\ proc' = Tidy(Running(proc, r, idx), r)
            /\ cpu' = [cpu EXCEPT ![c] = [proc |-> r, mainth |-> idx]]
            /\ pc' = Resumes(pc, r)
      /\ UNCHANGED <<nextpid, vm, arg, signalled, fault>>

\* A timer interrupt, or sys_yield, gives the CPU up ...
Interruptible(p) == /\ pc[p] \in {"user", "sys", "fork", "new", "exit"}
                    /\ pc[p] = "user" => ~proc[p].killed
yield(c) ==
  LET p == cpu[c].proc
  IN  /\ LockFree
      /\ p # NULL
      /\ Interruptible(p)
      /\ Sched(c, MakeRunnable(proc, p), pc, ready)
      /\ UNCHANGED <<nextpid, vm, arg, signalled, fault>>

\* ... or passes it to the next thread of the process.
thread_yield(c) ==
  LET p == cpu[c].proc
  IN  /\ LockFree
      /\ p # NULL
      /\ Interruptible(p)
      /\ ThreadSched(c, p, MakeRunnable(proc, p), pc, ready)
      /\ UNCHANGED <<nextpid, vm, arg, signalled, fault>>

\* trap(): a process that is not killed enters a system call.
Syscall(c) ==
  LET p == cpu[c].proc
  IN  /\ p # NULL
      /\ pc[p] = "user"
      /\ ~proc[p].killed
      /\ \E call \in May : call[2] = Role(p)
      /\ Become(p, "sys")
      /\ UNCHANGED <<proc, cpu, ready, nextpid, vm, arg, signalled, fault>>

------------------------------------------------------------------------------
\* fork: allocproc, under the lock.  No free slot: -1.
ForkAlloc(c) ==
  \E p \in Slots :
    /\ Calls(c, p, "fork")
    /\ LockFree
    /\ nextpid <= MaxPid
    /\ \/ /\ Unused(proc) = {}
          /\ Become(p, "user")
          /\ UNCHANGED <<proc, arg, nextpid>>
       \/ \E np \in Slots :
            /\ Unused(proc) # {}
            /\ np = FirstOf(Unused(proc))
            /\ proc' = Allocproc(proc, np, nextpid)
            /\ nextpid' = nextpid + 1
            /\ pc' = [pc EXCEPT ![p] = "fork", ![np] = "user"]
            /\ arg' = [arg EXCEPT ![p] = np]
    /\ UNCHANGED <<cpu, ready, vm, signalled, fault>>

\* fork: copyuvm, the parent link, then RUNNABLE under the lock.
ForkPublish(c) ==
  LET p == cpu[c].proc
      np == arg[p]
      pgdir == FirstOf(PageTables \ vm)
      child == [proc EXCEPT ![np].pgdir = pgdir, ![np].parent = p]
  IN  /\ LockFree
      /\ p # NULL
      /\ pc[p] = "fork"
      /\ PageTables # vm
      /\ vm' = vm \cup {pgdir}
      /\ proc' = MakeRunnable(child, np)
      /\ ready' = ready \cup {child[np].idx}
      /\ Become(p, "user")
      /\ UNCHANGED <<cpu, nextpid, arg, signalled, fault>>

\* allocproc finds no page for the kernel stack, or copyuvm none: the slot is given back,
\* with its pid.
ForkFail(c) ==
  LET p == cpu[c].proc
  IN  /\ p # NULL
      /\ pc[p] = "fork"
      /\ <<"nomem", Role(p)>> \in May
      /\ proc' = [proc EXCEPT ![arg[p]].state = "UNUSED"]
      /\ Become(p, "user")
      /\ UNCHANGED <<cpu, ready, nextpid, vm, arg, signalled, fault>>

\* exit, by the program or by a trap that finds the process killed: it closes its files
\* and those of its other threads, which may have to wait for the log, a pipe or an inode,
Exiting(c) ==
  LET p == cpu[c].proc
  IN  /\ p # NULL
      /\ p # initproc
      /\ Calls(c, p, "exit") \/ (pc[p] = "user" /\ proc[p].killed)
      /\ Become(p, "exit")
      /\ UNCHANGED <<proc, cpu, ready, nextpid, vm, arg, signalled, fault>>
ExitSleep(c) ==
  LET p == cpu[c].proc
  IN  /\ LockFree
      /\ p # NULL
      /\ pc[p] = "exit"
      /\ SleepOn(c, p, proc, IO, "closing")
      /\ UNCHANGED <<nextpid, vm, arg, signalled, fault>>

\* and then leaves.
exit(c) ==
  LET p == cpu[c].proc
      alone == ClearThread(proc, p)
      parent == SleepersOn(alone, alone[p].parent)
      told == WakeSet(alone, parent)
      passed == Adopted(told, p)
      init == IF AdoptedZombie(told, p) THEN SleepersOn(passed, initproc) ELSE {}
      woken == WakeSet(passed, init)
  IN  /\ LockFree
      /\ p # NULL
      /\ pc[p] = "exit"
      /\ Sched(c, [woken EXCEPT ![p].state = "ZOMBIE"],
               [pc EXCEPT ![p] = "user"],
               ready \cup Queued(alone, parent) \cup Queued(passed, init))
      /\ UNCHANGED <<nextpid, vm, arg, signalled, fault>>

\* The children a wait() finds, threads of a child among them.
Kids(p) == {q \in Slots : proc[q].parent = p}
Zombies(p) == {q \in Kids(p) : proc[q].state = "ZOMBIE"}

\* One scan of wait()'s loop: reap a zombie, give up, or go to sleep.  A
\* resumed process scans with the lock its scheduler left it.
wait(c) ==
  \E p \in Slots :
    LET t == [proc EXCEPT ![p].chan = NULL]
        z == FirstOf(Zombies(p))
        pgdir == proc[proc[z].mainth].pgdir
    IN  /\ cpu[c].proc = p
        /\ (LockFree /\ Calls(c, p, "wait")) \/ pc[p] = "wait"
        /\ \/ /\ Zombies(p) # {}
              /\ proc' = Reaped(t, z)
              /\ vm' = vm \ {pgdir}
              /\ fault' = IF pgdir \in vm THEN fault ELSE "freevm"
              /\ Become(p, "user")
              /\ UNCHANGED <<cpu, ready>>
           \/ /\ Zombies(p) = {}
              /\ Kids(p) = {} \/ proc[p].killed
              /\ proc' = t
              /\ Become(p, "user")
              /\ UNCHANGED <<cpu, ready, vm, fault>>
           \/ /\ Zombies(p) = {}
              /\ Kids(p) # {} /\ ~proc[p].killed
              /\ SleepOn(c, p, t, p, "wait")
              /\ UNCHANGED <<vm, fault>>
        /\ UNCHANGED <<nextpid, arg, signalled>>

\* kill takes the first slot with the pid; its walk of the ring need not end.
kill(c, pid) ==
  \E p \in Slots :
    LET V == {q \in Slots : proc[q].pid = pid}
        v == FirstOf(V)
    IN  /\ LockFree
        /\ Calls(c, p, "kill")
        /\ \/ /\ V = {}
              /\ UNCHANGED <<proc, ready, fault>>
           \/ /\ V # {}
              /\ proc' = Killed(proc, v)
              /\ ready' = ready \cup Queued(proc, KillSleepers(proc, v))
              /\ fault' = IF Closes(proc, v) THEN fault ELSE "kill loops"
        /\ Become(p, "user")
        /\ signalled' = signalled \cup {pid}
        /\ UNCHANGED <<cpu, nextpid, vm, arg>>

------------------------------------------------------------------------------
\* A read of a pipe or of the console: it tests killed under the lock of the
\* device, sleeps, and tests again.
ReadEnter(c) ==
  \E p \in Slots :
    /\ Calls(c, p, "read")
    /\ Become(p, "poll")
    /\ UNCHANGED <<proc, cpu, ready, nextpid, vm, arg, signalled, fault>>

ReadPoll(c) ==
  LET p == cpu[c].proc
  IN  /\ p # NULL
      /\ pc[p] = "poll"
      /\ Become(p, "user") \/ (~proc[p].killed /\ Become(p, "nap"))
      /\ UNCHANGED <<proc, cpu, ready, nextpid, vm, arg, signalled, fault>>

ReadSleep(c) ==
  LET p == cpu[c].proc
  IN  /\ LockFree
      /\ p # NULL
      /\ pc[p] = "nap"
      /\ SleepOn(c, p, proc, IO, "asleep")
      /\ UNCHANGED <<nextpid, vm, arg, signalled, fault>>

\* The other end of the pipe, or the device's interrupt.
wakeup(chan) ==
  LET W == SleepersOn(proc, chan)
  IN  /\ LockFree
      /\ W # {}
      /\ proc' = WakeSet(proc, W)
      /\ ready' = ready \cup Queued(proc, W)
      /\ UNCHANGED <<cpu, nextpid, vm, pc, arg, signalled, fault>>

------------------------------------------------------------------------------
\* thread_allocproc.  With no free slot thread_create uses a null pointer.
ThreadAlloc(c) ==
  \E p \in Slots :
    /\ LockFree
    /\ Calls(c, p, "thread_create")
    /\ proc[proc[p].mainth].nextid < MaxThid
    /\ \/ /\ Unused(proc) = {}
          /\ fault' = "null thread"
          /\ UNCHANGED <<proc, pc, arg>>
       \/ \E th \in Unused(proc) :
            /\ th = FirstOf(Unused(proc))
            /\ proc' = ThreadAllocproc(proc, th, p)
            /\ pc' = [pc EXCEPT ![p] = "new", ![th] = "user"]
            /\ arg' = [arg EXCEPT ![p] = th]
            /\ UNCHANGED fault
    /\ UNCHANGED <<cpu, ready, nextpid, vm, signalled>>

\* The rest of thread_create; it does not queue the group, which is running.
ThreadPublish(c) ==
  LET p == cpu[c].proc
  IN  /\ LockFree
      /\ p # NULL
      /\ pc[p] = "new"
      /\ proc' = MakeRunnable(proc, arg[p])
      /\ Become(p, "user")
      /\ UNCHANGED <<cpu, ready, nextpid, vm, arg, signalled, fault>>

\* No page for its kernel stack: the slot is given back but stays in the ring, and
\* thread_create uses a null pointer.
ThreadNoStack(c) ==
  LET p == cpu[c].proc
  IN  /\ p # NULL
      /\ pc[p] = "new"
      /\ <<"nomem", Role(p)>> \in May
      /\ proc' = [proc EXCEPT ![arg[p]].state = "UNUSED"]
      /\ fault' = "null thread"
      /\ UNCHANGED <<cpu, ready, nextpid, vm, pc, arg, signalled>>

\* No memory for the thread's stack.
ThreadFail(c) ==
  LET p == cpu[c].proc
  IN  /\ LockFree
      /\ p # NULL
      /\ pc[p] = "new"
      /\ <<"nomem", Role(p)>> \in May
      /\ proc' = CutOff(proc, arg[p])
      /\ Become(p, "user")
      /\ UNCHANGED <<cpu, ready, nextpid, vm, arg, signalled, fault>>

\* thread_exit: wake the thread that may be joining, stay a zombie.
thread_exit(c) ==
  \E p \in Slots :
    LET W == SleepersOn(proc, proc[p].join) \cap {proc[p].join}
                \cap Siblings(proc, p)
        t == WakeSet([proc EXCEPT ![p].state = "ZOMBIE"], W)
        stuck == /\ t[t[p].mainth].runblenum # 0
                 /\ NextRunnable(t, p) = NULL
    IN  /\ LockFree
        /\ Calls(c, p, "thread_exit")
        /\ ThreadSched(c, p, t, [pc EXCEPT ![p] = "user"], ready)
        /\ fault' = IF stuck THEN "zombie thread" ELSE fault
        /\ UNCHANGED <<nextpid, vm, arg, signalled>>

\* One scan of thread_join's loop for the thread with id arg[p].
Joinable(p, thid) == {q \in Siblings(proc, p) :
                        proc[q].thid = thid /\ proc[q].join = p}
JoinScan(c, p, thid) ==
  LET Z == {q \in Joinable(p, thid) : proc[q].state = "ZOMBIE"}
      t == [proc EXCEPT ![p].chan = NULL]
  IN  /\ \/ /\ Z # {}
            /\ proc' = Unlinked(t, FirstOf(Z))
            /\ Become(p, "user")
            /\ UNCHANGED <<cpu, ready>>
         \/ /\ Joinable(p, thid) = {}
            /\ proc' = t
            /\ Become(p, "user")
            /\ UNCHANGED <<cpu, ready>>
         \/ /\ Joinable(p, thid) # {}
            /\ Z = {}
            /\ SleepOn(c, p, t, p, "join")
      /\ arg' = [arg EXCEPT ![p] = thid]
      /\ UNCHANGED <<nextpid, vm, signalled, fault>>
thread_join(c) ==
  \E p \in Slots :
    \/ /\ LockFree
       /\ Calls(c, p, "thread_join")
       /\ \E thid \in 1 .. proc[proc[p].mainth].nextid : JoinScan(c, p, thid)
    \/ /\ cpu[c].proc = p
       /\ pc[p] = "join"
       /\ JoinScan(c, p, arg[p])

\* exec commits: the old page table goes, and every other thread with it.
exec(c) ==
  \E p \in Slots :
    LET new == FirstOf(PageTables \ vm)
        old == proc[proc[p].mainth].pgdir
    IN  /\ LockFree
        /\ Calls(c, p, "exec")
        /\ PageTables # vm
        /\ proc' = PrepareExec(proc, p, new)
        /\ vm' = (vm \cup {new}) \ {old}
        /\ fault' = IF old \in vm THEN fault ELSE "freevm"
        /\ Become(p, "user")
        /\ UNCHANGED <<cpu, ready, nextpid, arg, signalled>>

------------------------------------------------------------------------------
Enter(c) == Syscall(c) \/ yield(c) \/ thread_yield(c)
Classic(c) == \/ ForkAlloc(c) \/ ForkPublish(c) \/ ForkFail(c)
              \/ Exiting(c) \/ ExitSleep(c) \/ exit(c)
              \/ wait(c) \/ exec(c) \/ \E pid \in Killable : kill(c, pid)
Reading(c) == ReadEnter(c) \/ ReadPoll(c) \/ ReadSleep(c)
Threads(c) == \/ ThreadAlloc(c) \/ ThreadPublish(c) \/ ThreadNoStack(c) \/ ThreadFail(c)
              \/ thread_exit(c) \/ thread_join(c)
Next ==
  \/ \E c \in CPUS : \/ \E idx \in Slots : Dispatch(c, idx)
                     \/ Enter(c) \/ Classic(c) \/ Reading(c) \/ Threads(c)
  \/ wakeup(IO)
  \/ fault # "none" /\ UNCHANGED vars    \* the kernel has stopped

Spec == Init /\ [][Next]_vars
------------------------------------------------------------------------------
OnCpu(p) == \E c \in CPUS : cpu[c].proc = p
Live(p) == proc[p].state \notin {"UNUSED", "ZOMBIE"}
Group(m) == {p \in Slots : proc[p].mainth = m /\ proc[p].state # "UNUSED"}

TypeOK ==
  /\ proc \in [Slots ->
       [state : {"UNUSED", "EMBRYO", "SLEEPING", "RUNNABLE", "RUNNING", "ZOMBIE"},
        pid : 0 .. MaxPid, idx : Slots, parent : Slots \cup {NULL},
        join : Slots \cup {NULL}, chan : Slots \cup {NULL, IO},
        killed : BOOLEAN, pgdir : PageTables \cup {0}, thid : 0 .. MaxThid,
        nextid : 0 .. MaxThid, mainth : Slots \cup {NULL},
        nextth : Slots \cup {NULL}, prevth : Slots \cup {NULL},
        recentth : Slots \cup {NULL}, runblenum : 0 .. NPROC]]
  /\ cpu \in [CPUS -> [proc : Slots \cup {NULL}, mainth : Slots \cup {NULL}]]
  /\ ready \subseteq Slots
  /\ nextpid \in 2 .. MaxPid + 1
  /\ vm \subseteq PageTables
  /\ pc \in [Slots -> PCs]
  /\ arg \in [Slots -> Slots \cup 1 .. MaxThid]
  /\ signalled \subseteq Pids
  /\ fault \in {"none", "kill loops", "freevm", "null thread", "zombie thread"}

\* No process runs on two CPUs, and RUNNING means on a CPU.
OneCpu ==
  /\ \A c, d \in CPUS : c # d /\ cpu[c].proc = cpu[d].proc => cpu[c].proc = NULL
  /\ \A p \in Slots : (proc[p].state = "RUNNING") <=> OnCpu(p)

\* A runnable thread is never forgotten: its group is queued, or a CPU runs
\* the group and its scheduler will queue it again.
NoLostRunnable ==
  \A p \in Slots : proc[p].state = "RUNNABLE" =>
    \/ proc[proc[p].mainth].idx \in ready
    \/ \E c \in CPUS : cpu[c].mainth = proc[p].mainth

\* runblenum, on which every scheduling decision rests, counts the RUNNABLE
\* threads of a live process.
RunnableCount ==
  \A m \in Slots : Live(m) /\ proc[m].mainth = m =>
    proc[m].runblenum = Cardinality({p \in Group(m) : proc[p].state = "RUNNABLE"})

\* No lost wakeup: nobody sleeps in wait() over an exited child or a kill.
NoLostExit ==
  \A p \in Slots : proc[p].state = "SLEEPING" /\ pc[p] = "wait" =>
    Zombies(p) = {} /\ ~proc[p].killed

\* exit's "Pass abandoned children to init": a parent is a process that can
\* still call wait().
ParentLive ==
  \A p \in Slots : proc[p].parent # NULL => Live(proc[p].parent)

\* A process that can run has its page table, and shares it with no other.
PageTableOwned ==
  \A p, q \in Slots :
    /\ Live(p) /\ proc[p].state # "EMBRYO" => proc[proc[p].mainth].pgdir \in vm
    /\ {proc[p].state, proc[q].state} \cap {"UNUSED", "EMBRYO"} = {}
       /\ proc[p].mainth # proc[q].mainth
       => proc[proc[p].mainth].pgdir # proc[proc[q].mainth].pgdir

\* Only a process whose pid was given to kill() is killed.
KilledWasSignalled ==
  \A p \in Slots : Live(p) /\ proc[p].killed => proc[p].pid \in signalled

\* kill wakes a sleeper ("Wake process from sleep if necessary"): no sleeper
\* is left killed, but for one that closes its files on the way out.
NoKilledSleeper ==
  \A p \in Slots : proc[p].state = "SLEEPING" /\ proc[p].killed => pc[p] = "closing"

\* The kernel does not break down, unless thread_create got no memory for a kernel stack.
NoBreakdown == fault \in {"none", "null thread"}

\* kill returns: its walk of the victim's ring comes back to the victim.
KillEnds == fault # "kill loops"

\* The ring of a live process closes, and links its threads and no others.
RingIntact ==
  \A p \in Slots : Live(p) /\ fault = "none" =>
    /\ Closes(proc, p)
    /\ {p} \cup Siblings(proc, p) = Group(proc[p].mainth)

------------------------------------------------------------------------------
\* Processes and the pids they are known by, for single-threaded programs.  A
\* process exists for others once it is published.
Named(n) == {p \in Slots : proc[p].pid = n /\ proc[p].state # "UNUSED"}
StatusOf(n) ==
  LET S == {proc[p].state : p \in Named(n)}
  IN  IF S = {} THEN IF n < nextpid THEN "reaped" ELSE "none"
      ELSE IF S = {"ZOMBIE"} THEN "exited"
      ELSE IF S = {"EMBRYO"} THEN "none" ELSE "alive"
ParentOf(n) ==
  LET P == {proc[p].parent : p \in Named(n)} \ {NULL}
  IN  IF P = {} THEN 0 ELSE proc[FirstOf(P)].pid

\* fork, exit and wait keep what they promise to programs.
Life == INSTANCE Lifecycle WITH status <- [n \in Pids |-> StatusOf(n)],
                                parent <- [n \in Pids |-> ParentOf(n)]
ImplementsLifecycle == Life!Spec

\* The scheduler serves every queued group (NoStarvation of Mlfq), clock ticks
\* end every time slice, and a process that gets the CPU again and again gets
\* on with its call.
Progress(p) ==
  \E c \in CPUS :
    /\ cpu[c].proc = p
    /\ \/ ForkPublish(c) \/ ReadPoll(c) \/ ReadSleep(c) \/ ThreadPublish(c)
       \/ Exiting(c) \/ exit(c) \/ wait(c) \/ thread_exit(c) \/ thread_join(c)
       \/ ForkAlloc(c) \/ exec(c) \/ ReadEnter(c)
       \/ \E pid \in Killable : kill(c, pid)
Fairness ==
  /\ \A idx \in Slots : SF_vars(\E c \in CPUS : Dispatch(c, idx))
  /\ \A c \in CPUS : WF_vars(yield(c))
  /\ WF_vars(wakeup(IO))
  /\ \A p \in Slots : SF_vars(Progress(p))
FairSpec == Spec /\ Fairness

\* A killed process dies, even one that was asleep in wait().
KilledDies ==
  \A p \in Slots \ {initproc} :
    (Live(p) /\ proc[p].killed) ~> ~(Live(p) /\ proc[p].killed)
=============================================================================
