------------------------------ MODULE Spinlocks ------------------------------
(***************************************************************************)
(* Spinlocks and the interrupt flag (spinlock.c), as the paths through the *)
(* scheduler, the traps and the device drivers use them: which locks each  *)
(* takes and gives back, and where it switches to another kernel thread.   *)
(* A device stands for any driver whose interrupt handler wakes a process. *)
(***************************************************************************)
EXTENDS Naturals, Sequences
CONSTANTS CPUs, Tasks, FREE,
          FIRST    \* the CPU that counts the ticks
VARIABLES
  lock,   \* spinlock -> the CPU that has it, or FREE
  cpu,    \* struct cpu and the interrupt flag: on is the kernel thread it runs
  todo,   \* kernel thread -> what is left of the path it is on
  kept,   \* kernel thread -> sched's local intena
  panic
spinvars == <<lock, cpu, todo, kept, panic>>

\* A CPU without a process runs its scheduler(), which is called by its CPU's name.
Acquire(l) == <<"acquire", l>>
Release(l) == <<"release", l>>
Do(what) == <<what, "">>
Locks == {"ptable", "ticks", "device"}

-----------------------------------------------------------------------------
\* The paths.
wakeup == <<Acquire("ptable"), Release("ptable")>>
sched == <<Do("swtch"), Do("restore")>>
yield == <<Acquire("ptable")>> \o sched \o <<Release("ptable")>>
thread_yield == <<Acquire("ptable"), Do("swtch thread"), Do("restore"), Release("ptable")>>
forkret == <<Release("ptable"), Do("sti")>>   \* and trapret
\* Mutant: the lock is not given up before the switch.
sleep_holding(l) == <<Acquire("ptable")>> \o sched \o <<Release("ptable"), Release(l), Acquire(l)>>
sleep(l) == <<Acquire("ptable"), Release(l)>> \o sched \o <<Release("ptable"), Acquire(l)>>
sys_uptime == <<Acquire("ticks"), Release("ticks")>>
sys_sleep == <<Acquire("ticks")>> \o sleep("ticks") \o <<Release("ticks")>>
iderw_path == <<Acquire("device")>> \o sleep("device") \o <<Release("device")>>
ideintr_path == <<Acquire("device")>> \o wakeup \o <<Release("device"), Do("iret")>>
Tick(c) == IF c = FIRST THEN <<Acquire("ticks")>> \o wakeup \o <<Release("ticks")>> ELSE <<>>
\* The tick is counted, and taken back when the quantum is used up.
addtick == <<Acquire("ptable"), Release("ptable")>>
Passed(c) == IF cpu[c].on \in Tasks THEN {addtick \o addtick \o yield, addtick \o thread_yield}
             ELSE {<<>>}
timer(c) == {Tick(c) \o y \o <<Do("iret")>> : y \in Passed(c)}
\* A process of the MLFQ, one on its last tick of the middle level (passti is counted
\* under tickslock too), and one of the stride scheduler.  Only the MLFQ reads the ticks
\* again when its process has run: "uptime" forgets which of them it was.
picking == <<Do("pick"), Do("uptime"), Release("ptable")>>
scheduler == <<Do("sti"), Acquire("ptable")>> \o sys_uptime \o picking
scheduler_last == <<Do("sti"), Acquire("ptable")>> \o sys_uptime \o sys_uptime \o picking
scheduler_stride == <<Do("sti"), Acquire("ptable")>> \o picking
scheduler_idle == <<Do("sti"), Acquire("ptable"), Release("ptable")>>

SpinInit ==
  /\ lock = [l \in Locks |-> FREE]
  /\ cpu = [c \in CPUs |-> [on |-> c, ncli |-> 0, intena |-> FALSE, interruptible |-> FALSE]]
  /\ todo = [t \in Tasks \cup CPUs |-> IF t \in Tasks THEN forkret ELSE <<>>]
  /\ kept = [t \in Tasks |-> FALSE]
  /\ panic = FALSE

-----------------------------------------------------------------------------
Cur(c) == cpu[c].on
Next1(c) == IF todo[Cur(c)] = <<>> THEN <<"start", "">> ELSE Head(todo[Cur(c)])
Rest(c) == Tail(todo[Cur(c)])
Advance(c) == todo' = [todo EXCEPT ![Cur(c)] = Tail(@)]
Panic == panic' = TRUE /\ UNCHANGED <<lock, cpu, todo, kept>>

\* pushcli.  Mutant: interrupts stay as they are.
pushcli_on(u) == [u EXCEPT !.intena = IF u.ncli = 0 THEN u.interruptible ELSE @, !.ncli = @ + 1]
pushcli(u) == [u EXCEPT !.intena = IF u.ncli = 0 THEN u.interruptible ELSE @,
                        !.ncli = @ + 1, !.interruptible = FALSE]
\* popcli.  Mutant: the first release lets interrupts in.
popcli_first(u) == [u EXCEPT !.ncli = @ - 1, !.interruptible = u.intena]
popcli(u) == [u EXCEPT !.ncli = @ - 1, !.interruptible = u.ncli = 1 /\ u.intena]
acquire(c) ==
  LET l == Next1(c)[2]
  IN  /\ Next1(c)[1] = "acquire"
      /\ IF lock[l] = c THEN Panic
         ELSE /\ cpu' = [cpu EXCEPT ![c] = pushcli(@)]
              /\ todo' = [todo EXCEPT ![Cur(c)] = <<<<"xchg", l>>>> \o Tail(@)]
              /\ UNCHANGED <<lock, kept, panic>>
xchg(c) ==
  LET l == Next1(c)[2]
  IN  /\ Next1(c)[1] = "xchg" /\ lock[l] = FREE
      /\ lock' = [lock EXCEPT ![l] = c]
      /\ Advance(c) /\ UNCHANGED <<cpu, kept, panic>>
release(c) ==
  LET l == Next1(c)[2]
  IN  /\ Next1(c)[1] = "release"
      /\ IF lock[l] # c \/ cpu[c].interruptible \/ cpu[c].ncli = 0 THEN Panic
         ELSE /\ lock' = [lock EXCEPT ![l] = FREE]
              /\ cpu' = [cpu EXCEPT ![c] = popcli(@)]
              /\ Advance(c) /\ UNCHANGED <<kept, panic>>
\* sti in scheduler(), and iret, which goes back to where interrupts were enabled.
Enable(c) ==
  /\ Next1(c)[1] \in {"sti", "iret"}
  /\ cpu' = [cpu EXCEPT ![c].interruptible = TRUE]
  /\ Advance(c) /\ UNCHANGED <<lock, kept, panic>>

\* swtch to the scheduler, and directly to another thread of the process.
Ready(t) == t \in Tasks /\ \A c \in CPUs : Cur(c) # t
Switch(c, t) == cpu' = [cpu EXCEPT ![c].on = t]
swtch(c) ==
  /\ Next1(c)[1] \in {"swtch", "swtch thread"}
  /\ IF lock["ptable"] # c \/ cpu[c].ncli # 1 \/ cpu[c].interruptible THEN Panic
     ELSE /\ IF Next1(c)[1] = "swtch" THEN Switch(c, c)
             ELSE Switch(c, Cur(c)) \/ \E t \in Tasks : Ready(t) /\ Switch(c, t)
          /\ kept' = [kept EXCEPT ![Cur(c)] = cpu[c].intena]
          /\ Advance(c) /\ UNCHANGED <<lock, panic>>
restore(c) ==
  /\ Next1(c)[1] = "restore"
  /\ cpu' = [cpu EXCEPT ![c].intena = kept[Cur(c)]]
  /\ Advance(c) /\ UNCHANGED <<lock, kept, panic>>
pick(c) ==
  /\ Next1(c)[1] = "pick"
  /\ IF \E t \in Tasks : Ready(t) THEN \E t \in Tasks : Ready(t) /\ Switch(c, t)
     ELSE UNCHANGED cpu
  /\ Advance(c) /\ UNCHANGED <<lock, kept, panic>>

uptime(c) ==
  /\ Next1(c)[1] = "uptime"
  /\ \/ Advance(c)
     \/ todo' = [todo EXCEPT ![Cur(c)] = sys_uptime \o Tail(@)]
  /\ UNCHANGED <<lock, cpu, kept, panic>>

\* A process in user mode makes a system call, and scheduler() goes round.
Start(c) ==
  /\ todo[Cur(c)] = <<>>
  /\ \E path \in IF Cur(c) \in Tasks THEN {sys_sleep, iderw_path}
                 ELSE {scheduler, scheduler_last, scheduler_stride, scheduler_idle} :
       todo' = [todo EXCEPT ![Cur(c)] = path]
  /\ UNCHANGED <<lock, cpu, kept, panic>>
Interrupt(c) ==
  /\ cpu[c].interruptible
  /\ \E handler \in timer(c) \cup {ideintr_path} : todo' = [todo EXCEPT ![Cur(c)] = handler \o @]
  /\ cpu' = [cpu EXCEPT ![c].interruptible = FALSE]
  /\ UNCHANGED <<lock, kept, panic>>

SpinNext ==
  \E c \in CPUs : \/ acquire(c) \/ xchg(c) \/ release(c) \/ Enable(c) \/ swtch(c)
                  \/ restore(c) \/ pick(c) \/ uptime(c) \/ Start(c) \/ Interrupt(c)
SpinSpec == SpinInit /\ [][SpinNext]_spinvars
-----------------------------------------------------------------------------
Held(c) == {l \in Locks : lock[l] = c}
Spins(c, l) == Next1(c) = <<"xchg", l>>

\* Interrupts are off while a CPU has or wants a spinlock and in a handler, also
\* after the kernel thread was switched out and in, perhaps on another CPU.
InterruptsOff ==
  \A c \in CPUs : cpu[c].interruptible =>
    /\ Held(c) = {} /\ cpu[c].ncli = 0
    /\ \A i \in DOMAIN todo[Cur(c)] : todo[Cur(c)][i] # Do("iret")

\* And none of the tests in acquire, release, sched and popcli fails.
LocksUsedRight == InterruptsOff /\ ~panic

\* No two CPUs spin for each other's locks.
NoSpinCycle ==
  \A c, d \in CPUs : ~\E l \in Held(d), k \in Held(c) : c # d /\ Spins(c, l) /\ Spins(d, k)
=============================================================================
