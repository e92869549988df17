---------------------------- MODULE Descriptors ----------------------------
(***************************************************************************)
(* Open files and file descriptors of xv6 (file.c, sysfile.c) under        *)
(* processes and threads that open, dup, close, make pipes, fork, create   *)
(* threads and exit.  What runs with ftable.lock held is one step, and so  *)
(* is what touches a table of descriptors in between.                      *)
(***************************************************************************)
EXTENDS Naturals, Sequences, SequencesExt
CONSTANTS Threads, First,   \* slots of the process table; First is init
          NOFILE, NFILE,
          Pages,            \* what kalloc can give to pipes
          CALLS             \* how many calls there are
VARIABLES
  file,    \* ftable: reference count, type, pipe and which end of it
  pipe,    \* the ends of each pipe that are open; none when its page is free
  iref,    \* references to the inode that is opened
  th,      \* thread -> state, main thread, descriptors and what is left of its call
  calls, panicked,
  raced    \* for the properties: see Races and Leaks
vars == <<file, pipe, iref, th, calls, panicked, raced>>

Files == 1 .. NFILE
Fds == 0 .. NOFILE - 1
NoFile == [ref |-> 0, type |-> "none", page |-> 0, end |-> "r"]
NoThread == [state |-> "unused", main |-> 0, fd |-> [i \in Fds |-> 0], do |-> <<>>]
Running == [NoThread EXCEPT !.state = "run", !.main = First]
\* init alone, with no files, or with a pipe.
Init ==
  /\ iref = 0 /\ calls = 0
  /\ \/ /\ file = [f \in Files |-> NoFile]
        /\ pipe = [g \in Pages |-> {}]
        /\ th = [t \in Threads |-> IF t = First THEN Running ELSE NoThread]
     \/ \E g \in Pages :
          /\ file = [f \in Files |-> IF f > 2 THEN NoFile
               ELSE [ref |-> 1, type |-> "pipe", page |-> g, end |-> IF f = 1 THEN "r" ELSE "w"]]
          /\ pipe = [h \in Pages |-> IF g = h THEN {"r", "w"} ELSE {}]
          /\ th = [t \in Threads |-> IF t # First THEN NoThread
               ELSE [Running EXCEPT !.fd = [i \in Fds |-> IF i < 2 THEN i + 1 ELSE 0]]]
  /\ panicked = FALSE /\ raced = FALSE

\* A call is a sequence of steps; a step names what it does and to what.
Step(t, what) == th[t].do # <<>> /\ Head(th[t].do)[1] = what
Arg(t) == Head(th[t].do)
Then(t, steps) == [th EXCEPT ![t].do = steps \o Tail(@)]
Idle(t) == th[t].state = "run" /\ th[t].do = <<>> /\ calls < CALLS
Begin(t, steps) == th' = [th EXCEPT ![t].do = steps]
FreeFiles == {f \in Files : file[f].ref = 0}
FreeFds(t) == {i \in Fds : th[t].fd[i] = 0}
Lowest(s) == CHOOSE i \in s : \A j \in s : i <= j

-----------------------------------------------------------------------------
\* filealloc, and what the caller does with the file, or without one.
filealloc(t, steps, without) ==
  IF FreeFiles = {} THEN file' = file /\ th' = Then(t, without)
  ELSE LET f == Lowest(FreeFiles)
       IN  file' = [file EXCEPT ![f].ref = 1] /\ th' = Then(t, steps[f])
fdalloc(t, f) == [th[t].fd EXCEPT ![Lowest(FreeFds(t))] = f]

filedup(t) ==
  /\ Step(t, "filedup")
  /\ LET f == Arg(t)[2]
     IN  /\ panicked' = (panicked \/ file[f].ref < 1)
         /\ file' = [file EXCEPT ![f].ref = @ + 1]
  /\ th' = Then(t, <<>>)
  /\ UNCHANGED <<pipe, iref>>
Closed(f) == [file EXCEPT ![f] = NoFile]
\* fileclose up to the release; what is left is done with a copy of the file.
fileclose(f) ==
  /\ panicked' = (panicked \/ file[f].ref < 1)
  /\ file' = IF file[f].ref > 1 THEN [file EXCEPT ![f].ref = @ - 1] ELSE Closed(f)
Rest(f) ==
  CASE file[f].ref > 1 \/ file[f].type = "none" -> <<>>
    [] file[f].ref <= 1 /\ file[f].type = "pipe" -> <<<<"pipeclose", file[f].page, file[f].end>>>>
    [] OTHER -> <<<<"iput">>>>
Close(t) ==
  /\ Step(t, "fileclose")
  /\ fileclose(Arg(t)[2]) /\ th' = Then(t, Rest(Arg(t)[2]))
  /\ UNCHANGED <<pipe, iref>>
pipeclose(t) ==
  /\ Step(t, "pipeclose")
  /\ pipe' = [pipe EXCEPT ![Arg(t)[2]] = @ \ {Arg(t)[3]}]
  /\ th' = Then(t, <<>>)
  /\ UNCHANGED <<file, iref, panicked>>
iput(t) ==
  /\ Step(t, "iput")
  /\ iref' = iref - 1 /\ th' = Then(t, <<>>)
  /\ UNCHANGED <<file, pipe, panicked>>

-----------------------------------------------------------------------------
\* Mutant: dup does not count the new descriptor.
sys_dup_uncounted(t) ==
  /\ Idle(t) /\ FreeFds(t) # {}
  /\ \E i \in Fds \ FreeFds(t) : th' = [th EXCEPT ![t].fd = fdalloc(t, th[t].fd[i])]
  /\ UNCHANGED <<file, pipe, iref, panicked>>
sys_dup(t) ==
  /\ Idle(t) /\ FreeFds(t) # {}
  /\ \E i \in Fds \ FreeFds(t) :
       th' = [th EXCEPT ![t].fd = fdalloc(t, th[t].fd[i]), ![t].do = <<<<"filedup", th[t].fd[i]>>>>]
  /\ UNCHANGED <<file, pipe, iref, panicked>>
sys_close(t) ==
  /\ Idle(t)
  /\ \E i \in Fds \ FreeFds(t) :
       th' = [th EXCEPT ![t].fd[i] = 0, ![t].do = <<<<"fileclose", th[t].fd[i]>>>>]
  /\ UNCHANGED <<file, pipe, iref, panicked>>

\* sys_open: the inode is found, then a file and a descriptor, then f is filled in.
sys_open(t) ==
  /\ Idle(t) /\ iref < NFILE
  /\ iref' = iref + 1
  /\ Begin(t, <<<<"open file">>>>)
  /\ UNCHANGED <<file, pipe, panicked>>
OpenFile(t) ==
  /\ Step(t, "open file")
  /\ filealloc(t, [f \in Files |-> <<<<"open fd", f>>>>], <<<<"iput">>>>)
  /\ UNCHANGED <<pipe, iref, panicked>>
OpenFd(t) ==
  /\ Step(t, "open fd")
  /\ LET f == Arg(t)[2]
     IN  th' = IF FreeFds(t) = {} THEN Then(t, <<<<"fileclose", f>>, <<"iput">>>>)
               ELSE [Then(t, <<<<"opened", f>>>>) EXCEPT ![t].fd = fdalloc(t, f)]
  /\ UNCHANGED <<file, pipe, iref, panicked>>
Opened(t) ==
  /\ Step(t, "opened")
  /\ file' = [file EXCEPT ![Arg(t)[2]].type = "inode"]
  /\ th' = Then(t, <<>>)
  /\ UNCHANGED <<pipe, iref, panicked>>

\* sys_pipe: two files and a page in pipealloc, then two descriptors.
sys_pipe(t) ==
  /\ Idle(t)
  /\ Begin(t, <<<<"read end">>>>)
  /\ UNCHANGED <<file, pipe, iref, panicked>>
ReadEnd(t) ==
  /\ Step(t, "read end")
  /\ filealloc(t, [f \in Files |-> <<<<"write end", f>>>>], <<>>)
  /\ UNCHANGED <<pipe, iref, panicked>>
WriteEnd(t) ==
  /\ Step(t, "write end")
  /\ LET rf == Arg(t)[2]
     IN  filealloc(t, [f \in Files |-> <<<<"pipe", rf, f>>>>], <<<<"fileclose", rf>>>>)
  /\ UNCHANGED <<pipe, iref, panicked>>
PipeFds(t, rf, wf) ==
  LET rfd == Lowest(FreeFds(t))
      close == <<<<"fileclose", rf>>, <<"fileclose", wf>>>>
  IN  IF Cardinality(FreeFds(t)) < 2 THEN Then(t, close)
      ELSE [Then(t, <<>>) EXCEPT ![t].fd[rfd] = rf, ![t].fd[Lowest(FreeFds(t) \ {rfd})] = wf]
pipealloc(t) ==
  /\ Step(t, "pipe")
  /\ LET rf == Arg(t)[2]
         wf == Arg(t)[3]
         free == {g \in Pages : pipe[g] = {}}
     IN  \/ /\ th' = Then(t, <<<<"fileclose", rf>>, <<"fileclose", wf>>>>)   \* kalloc fails
            /\ UNCHANGED <<file, pipe>>
         \/ \E g \in free :
              /\ file' = [file EXCEPT ![rf] = [@ EXCEPT !.type = "pipe", !.page = g, !.end = "r"],
                                      ![wf] = [@ EXCEPT !.type = "pipe", !.page = g, !.end = "w"]]
              /\ pipe' = [pipe EXCEPT ![g] = {"r", "w"}]
              /\ th' = PipeFds(t, rf, wf)
  /\ UNCHANGED <<iref, panicked>>

-----------------------------------------------------------------------------
\* fork and thread_create: the new one gets each file that src has open.
Create(t, src, main) ==
  \E c \in Threads :
    /\ Idle(t) /\ th[c].state = "unused"
    /\ th' = [th EXCEPT ![c].state = "embryo", ![c].main = IF main = 0 THEN c ELSE main,
                        ![t].do = [i \in 1 .. NOFILE |-> <<"copy", c, i - 1, src>>] \o <<<<"start", c>>>>]
    /\ UNCHANGED <<file, pipe, iref, panicked>>
fork(t) == Create(t, t, 0)
\* init has one thread.
thread_create(t) == th[t].main # First /\ Create(t, th[t].main, th[t].main)
Copy(t) ==
  /\ Step(t, "copy")
  /\ LET f == th[Arg(t)[4]].fd[Arg(t)[3]]
     IN  IF f = 0 THEN th' = Then(t, <<>>) /\ UNCHANGED <<file, panicked>>
         ELSE /\ th' = [Then(t, <<>>) EXCEPT ![Arg(t)[2]].fd[Arg(t)[3]] = f]
              /\ panicked' = (panicked \/ file[f].ref < 1)
              /\ file' = [file EXCEPT ![f].ref = @ + 1]
  /\ UNCHANGED <<pipe, iref>>
\* thread_create fails when there is no room for the stack: the slot is given up
\* with its descriptors in it.
Start(t) ==
  /\ Step(t, "start")
  /\ \/ th' = [Then(t, <<>>) EXCEPT ![Arg(t)[2]].state = "run"]
     \/ /\ th[Arg(t)[2]].main # Arg(t)[2]
        /\ th' = [Then(t, <<>>) EXCEPT ![Arg(t)[2]].state = "unused"]
  /\ UNCHANGED <<file, pipe, iref, panicked>>

\* exit closes the files of the other threads of the process too, and then frees
\* them wherever they are; thread_exit closes its own.
Siblings(t) == {p \in Threads \ {t} : th[p].main = th[t].main /\ th[p].state = "run"}
All(p) == [i \in 1 .. NOFILE |-> <<"close", p, i - 1>>]
thread_exit(t) ==
  /\ Idle(t) /\ th[t].main # t
  /\ Begin(t, All(t) \o <<<<"zombie">>>>)
  /\ UNCHANGED <<file, pipe, iref, panicked>>
exit(t) ==
  /\ Idle(t) /\ t # First
  /\ LET all == Append(SetToSeq(Siblings(t)), t)
     IN  Begin(t, FlattenSeq([k \in DOMAIN all |-> All(all[k])]) \o <<<<"exited">>>>)
  /\ UNCHANGED <<file, pipe, iref, panicked>>
CloseFd(t) ==
  /\ Step(t, "close")
  /\ LET p == Arg(t)[2]
         f == th[p].fd[Arg(t)[3]]
     IN  IF f = 0 THEN th' = Then(t, <<>>) /\ UNCHANGED <<file, panicked>>
         ELSE fileclose(f) /\ th' = Then(t, Rest(f) \o <<<<"clear", p, Arg(t)[3]>>>>)
  /\ UNCHANGED <<pipe, iref>>
Clear(t) ==
  /\ Step(t, "clear")
  /\ LET p == Arg(t)[2]
     IN  th' = [Then(t, <<>>) EXCEPT ![p].fd[Arg(t)[3]] = 0]
  /\ UNCHANGED <<file, pipe, iref, panicked>>
Zombie(t) ==
  /\ Step(t, "zombie") \/ Step(t, "exited")
  /\ LET gone == IF Step(t, "zombie") THEN {} ELSE Siblings(t)
     IN  th' = [p \in Threads |-> IF p \in gone THEN NoThread
                                  ELSE IF p = t THEN [th[t] EXCEPT !.state = "zombie", !.do = <<>>] ELSE th[p]]
  /\ UNCHANGED <<file, pipe, iref, panicked>>
\* wait and thread_join.
Reap(t) ==
  /\ th[t].state = "zombie"
  /\ th' = [th EXCEPT ![t].state = "unused", ![t].main = 0]
  /\ UNCHANGED <<file, pipe, iref, panicked>>

Call(t) == sys_dup(t) \/ sys_close(t) \/ sys_open(t) \/ sys_pipe(t) \/ fork(t) \/ thread_create(t)
           \/ thread_exit(t) \/ exit(t)
GoOn(t) == filedup(t) \/ Close(t) \/ pipeclose(t) \/ iput(t) \/ OpenFile(t) \/ OpenFd(t) \/ Opened(t)
           \/ ReadEnd(t) \/ WriteEnd(t) \/ pipealloc(t) \/ Copy(t) \/ Start(t) \/ CloseFd(t)
           \/ Clear(t) \/ Zombie(t)
\* Somebody exits the process, or copies a table, while the thread it is about is in
\* a call; or a slot is given up with open descriptors.
Touches(t, p) == \E i \in DOMAIN th[t].do :
  LET step == th[t].do[i]
  IN  \/ step[1] \in {"close", "clear"} /\ step[2] = p
      \/ step[1] = "copy" /\ step[4] = p
      \/ step[1] = "exited" /\ p \in Siblings(t)
Races == \E t, p \in Threads : t # p /\ th[p].do # <<>> /\ Touches(t, p)
Leaks == \E p \in Threads : th[p].state = "unused" /\ \E i \in Fds : th[p].fd[i] # 0
Next == /\ \E t \in Threads : \/ Call(t) /\ calls' = calls + 1
                              \/ (Reap(t) \/ GoOn(t)) /\ UNCHANGED calls
        /\ ~panicked
        /\ raced' = (raced \/ Races' \/ Leaks')
Spec == Init /\ [][Next]_vars

-----------------------------------------------------------------------------
Pending(t, what) == {i \in DOMAIN th[t].do : th[t].do[i][1] \in what}
Sum(Of(_)) == FoldLeft(LAMBDA n, t : n + Of(t), 0, SetToSeq(Threads))
\* What t accounts for of the references to f: its descriptors, but not one that is
\* counted in the next step or was given up in the last.
References(t, f) ==
  LET do == th[t].do
  IN  Cardinality({i \in Fds : th[t].fd[i] = f})
      + Cardinality({i \in Pending(t, {"fileclose", "open fd", "write end", "pipe"}) : do[i][2] = f})
      + Cardinality({i \in Pending(t, {"pipe"}) : do[i][3] = f})
      - Cardinality({i \in Pending(t, {"filedup"}) : do[i][2] = f})
      - Cardinality({i \in Pending(t, {"clear"}) : th[do[i][2]].fd[do[i][3]] = f})

\* As long as nobody changes, copies or frees the table of a thread in a call (as
\* exit, exec and thread_create may): every file has as many references as there
\* are descriptors and calls that use it, and no panic is reached.
RefsExact ==
  ~raced => /\ ~panicked
            /\ \A f \in Files : file[f].ref = Sum(LAMBDA t : References(t, f))

\* An end of a pipe is open while a file stands for it or its last close is under
\* way, and only one file does; so is the inode referenced.  Nothing is closed twice
\* and a failed pipe or open gives everything back.
EndsExact ==
  LET Typed(type) == {f \in Files : file[f].type = type}
      Ends(g, end) == Cardinality({f \in Typed("pipe") : file[f].page = g /\ file[f].end = end})
                      + Sum(LAMBDA t : Cardinality({i \in Pending(t, {"pipeclose"}) : th[t].do[i] = <<"pipeclose", g, end>>}))
  IN  ~raced => /\ \A g \in Pages, end \in {"r", "w"} : Ends(g, end) = IF end \in pipe[g] THEN 1 ELSE 0
                /\ iref = Cardinality(Typed("inode"))
                           + Sum(LAMBDA t : Cardinality(Pending(t, {"iput", "open file", "open fd", "opened"})))
=============================================================================
