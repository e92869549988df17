-------------------------------- MODULE Pipe --------------------------------
(***************************************************************************)
(* A pipe of xv6 (pipe.c) between processes that write and processes that  *)
(* read.  Everything between two sleeps runs with the pipe's lock held and *)
(* is one step, except that kill, which takes ptable.lock only, can come   *)
(* between the test of killed and the sleep.  The counters wrap.           *)
(***************************************************************************)
EXTENDS Integers, Sequences, FiniteSets
CONSTANTS Writers, Readers, PIPESIZE,
          UINT,     \* counters are modulo this
          LENGTHS,  \* how many bytes a call writes or asks for
          WCALLS,   \* how many calls a writer makes before it closes ...
          RCALLS    \* ... and a reader
VARIABLES
  data, nread, nwrite, readopen, writeopen,
  files,   \* how many processes still have each end open (struct file)
  killed,
  pc,      \* where each process is, and what is left of its call
  flight   \* for the properties: the bytes written and not read yet
vars == <<data, nread, nwrite, readopen, writeopen, files, killed, pc, flight>>

\* UINT is a multiple of PIPESIZE, and more than it.

Procs == Writers \cup Readers
Bytes == {0, 1}
\* The bytes of a call alternate, so that one that is lost or repeated shows.
Byte(i) == i % 2
Size == (nwrite - nread) % UINT
Full == nwrite = (nread + PIPESIZE) % UINT
Empty == nread = nwrite

Init ==
  /\ data = [i \in 0 .. PIPESIZE - 1 |-> 0]
  /\ nread \in {0, UINT - PIPESIZE} /\ nwrite = nread
  /\ readopen = TRUE /\ writeopen = TRUE
  /\ files = [r |-> Cardinality(Readers), w |-> Cardinality(Writers)]
  /\ killed = [p \in Procs |-> FALSE]
  /\ pc = [p \in Procs |-> [at |-> "idle", left |-> 0, calls |-> 0]]
  /\ flight = <<>>

Sleeping(p) == pc[p].at = "asleep"
\* wakeup of those that sleep in who, while p goes on to r.
Wake(who, p, r) ==
  pc' = [q \in Procs |-> IF q = p THEN r
                         ELSE IF q \in who /\ Sleeping(q) THEN [pc[q] EXCEPT !.at = "run"]
                         ELSE pc[q]]
Set(p, r) == pc' = [pc EXCEPT ![p] = r]
Return(r) == [r EXCEPT !.at = "idle", !.left = 0]

Call(p) ==
  /\ pc[p].at = "idle" /\ pc[p].calls < (IF p \in Writers THEN WCALLS ELSE RCALLS)
  /\ \E n \in LENGTHS : Set(p, [at |-> "run", left |-> n, calls |-> pc[p].calls + 1])
  /\ UNCHANGED <<data, nread, nwrite, readopen, writeopen, files, killed, flight>>

\* pipewrite from one sleep to the next: k bytes fit.
Fits(n) == IF n <= PIPESIZE - Size THEN n ELSE PIPESIZE - Size
\* Mutant: a full pipe is one that has PIPESIZE + 1 bytes.
Written_over(r) ==
  LET k == IF r.left <= PIPESIZE + 1 - Size THEN r.left ELSE PIPESIZE + 1 - Size
      at(j) == (nwrite + j) % PIPESIZE
  IN  /\ data' = [i \in DOMAIN data |->
                    IF \E j \in 0 .. k - 1 : at(j) = i
                    THEN Byte(r.left - CHOOSE j \in 0 .. k - 1 : at(j) = i) ELSE data[i]]
      /\ nwrite' = (nwrite + k) % UINT
      /\ flight' = flight \o [j \in 1 .. k |-> Byte(r.left - (j - 1))]
Written(r) ==
  LET k == Fits(r.left)
      at(j) == (nwrite + j) % PIPESIZE
  IN  /\ data' = [i \in DOMAIN data |->
                    IF \E j \in 0 .. k - 1 : at(j) = i
                    THEN Byte(r.left - CHOOSE j \in 0 .. k - 1 : at(j) = i) ELSE data[i]]
      /\ nwrite' = (nwrite + k) % UINT
      /\ flight' = flight \o [j \in 1 .. k |-> Byte(r.left - (j - 1))]
\* The readers are woken when it returns and when it goes to sleep.
pipewrite(p) ==
  LET r == pc[p]
      left == r.left - Fits(r.left)
      now == IF left = 0 THEN Return(r)
             ELSE IF ~readopen \/ killed[p] THEN Return(r)
             ELSE [r EXCEPT !.at = "sleep", !.left = left]
  IN  /\ p \in Writers /\ r.at = "run"
      /\ Written(r)
      /\ IF left # 0 /\ now.at = "idle" THEN Set(p, now) ELSE Wake(Readers, p, now)
      /\ UNCHANGED <<nread, readopen, writeopen, files, killed>>
\* piperead takes what there is.  Mutant: the writers are not woken.
piperead_silent(p) ==
  LET r == pc[p]
      k == IF r.left < Size THEN r.left ELSE Size
  IN  /\ p \in Readers /\ r.at = "run"
      /\ IF Empty /\ writeopen
         THEN Set(p, IF killed[p] THEN Return(r) ELSE [r EXCEPT !.at = "sleep"])
         ELSE Set(p, Return(r))
      /\ nread' = IF Empty THEN nread ELSE (nread + k) % UINT
      /\ flight' = IF Empty THEN flight ELSE SubSeq(flight, k + 1, Len(flight))
      /\ UNCHANGED <<data, nwrite, readopen, writeopen, files, killed>>
piperead(p) ==
  LET r == pc[p]
      k == IF r.left < Size THEN r.left ELSE Size
  IN  /\ p \in Readers /\ r.at = "run"
      /\ IF Empty /\ writeopen
         THEN Set(p, IF killed[p] THEN Return(r) ELSE [r EXCEPT !.at = "sleep"])
         ELSE Wake(Writers, p, Return(r))
      /\ nread' = IF Empty THEN nread ELSE (nread + k) % UINT
      /\ flight' = IF Empty THEN flight ELSE SubSeq(flight, k + 1, Len(flight))
      /\ UNCHANGED <<data, nwrite, readopen, writeopen, files, killed>>
\* sleep: ptable.lock is taken before the pipe's lock is given up, so only a kill
\* has come in between; the processes that want the lock wait for it.
Fall(p) ==
  /\ pc[p].at = "sleep"
  /\ Set(p, [pc[p] EXCEPT !.at = "asleep"])
  /\ UNCHANGED <<data, nread, nwrite, readopen, writeopen, files, killed, flight>>
Locked == \E q \in Procs : pc[q].at = "sleep"

\* fileclose, and pipeclose for the last one that has the end open; the pipe is
\* freed with its second end.
pipeclose(p) ==
  LET end == IF p \in Writers THEN "w" ELSE "r"
  IN  /\ pc[p].at = "idle"
      /\ files' = [files EXCEPT ![end] = @ - 1]
      /\ writeopen' = (writeopen /\ ~(end = "w" /\ files.w = 1))
      /\ readopen' = (readopen /\ ~(end = "r" /\ files.r = 1))
      /\ Wake(IF files[end] > 1 THEN {} ELSE IF end = "w" THEN Readers ELSE Writers,
              p, [pc[p] EXCEPT !.at = "closed"])
      /\ UNCHANGED <<data, nread, nwrite, killed, flight>>
\* kill, from another process.
kill(p) ==
  /\ ~killed[p] /\ pc[p].at # "closed"
  /\ killed' = [killed EXCEPT ![p] = TRUE]
  /\ Set(p, IF Sleeping(p) THEN [pc[p] EXCEPT !.at = "run"] ELSE pc[p])
  /\ UNCHANGED <<data, nread, nwrite, readopen, writeopen, files, flight>>

Run(p) == \/ Call(p) \/ Fall(p)
          \/ ~Locked /\ pipewrite(p)
          \/ ~Locked /\ piperead(p)
          \/ ~Locked /\ pipeclose(p)
Next == \E p \in Procs : Run(p) \/ kill(p)
Fairness == \A p \in Procs : WF_vars(Run(p))
Spec == Init /\ [][Next]_vars /\ Fairness

-----------------------------------------------------------------------------
\* The pipe holds the bytes written and not read, in order, also where the
\* counters wrap around, and never more than PIPESIZE of them.
PipeExact ==
  /\ Size = Len(flight) /\ Size <= PIPESIZE
  /\ \A k \in 1 .. Size : data[(nread + k - 1) % PIPESIZE] = flight[k]

\* Who sleeps has a reason to: a reader an empty pipe somebody may still write to,
\* a writer a full one somebody may still read.  A writer that was killed returns
\* without a wakeup although it may have filled the pipe: after a kill a reader may
\* sleep on bytes until somebody else writes or closes.
SleepersWaitForOthers ==
  /\ \A p \in Readers :
       Sleeping(p) => (Empty \/ \E w \in Writers : killed[w]) /\ writeopen
  /\ \A p \in Writers : Sleeping(p) => Full /\ readopen

\* Everybody gets to close, whatever the others do: a reader sees the end when the
\* writers are gone and a writer fails when the readers are.
EveryoneReturns == <>(\A p \in Procs : pc[p].at = "closed")
=============================================================================
