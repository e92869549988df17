-------------------------------- MODULE Shell ---------------------------------
(***************************************************************************)
(* The shell (sh.c): parsecmd makes a tree of a line, runcmd runs the tree *)
(* with a process for each part.  A line is a sequence of tokens, of which *)
(* "+" is >>; a word is any other token.  The kernel's calls are modelled  *)
(* by what the shell sees of them, forks that fail and panics after the    *)
(* parser are left out, and programs are three: echo writes, cat reads and *)
(* writes up to the end of its input, true does neither.                   *)
(***************************************************************************)
EXTENDS Integers, Sequences, SequencesExt, FiniteSets
CONSTANTS MAXARGS,
          Commands,      \* the lines it may be given
          UNITS,         \* what echo writes; a pipe holds one unit
          CONSOLE
VARIABLES procs,         \* the processes by number; 1 is the shell
          pipes,         \* units in each pipe, in the order they were made
          line           \* what the shell was given
svars == <<procs, pipes, line>>

EXEC(argv) == [type |-> "EXEC", argv |-> argv]
REDIR(cmd, file, fd) == [type |-> "REDIR", cmd |-> cmd, file |-> file, fd |-> fd]
PIPE(left, right) == [type |-> "PIPE", left |-> left, right |-> right]
LIST(left, right) == [type |-> "LIST", left |-> left, right |-> right]
BACK(cmd) == [type |-> "BACK", cmd |-> cmd]

\* ";" and "&" end a command, "(" and ")" enclose one, "|" joins two.
Symbols == {"<", "|", ">", "+", "&", ";", "(", ")"}
panic == [cmd |-> EXEC(<<>>), s |-> <<"panic">>]
Panicked(r) == r.s = <<"panic">>
peek(s, toks) == s # <<>> /\ Head(s) \in toks
Result(cmd, s) == [cmd |-> cmd, s |-> s]
RECURSIVE parseline(_), parsepipe(_), parseredirs(_), parsewords(_, _)
parseredirs(r) ==
  IF ~peek(r.s, {"<", ">", "+"}) THEN r
  ELSE IF Len(r.s) = 1 \/ r.s[2] \in Symbols THEN panic
  ELSE parseredirs(Result(REDIR(r.cmd, r.s[2], IF Head(r.s) = "<" THEN 0 ELSE 1), SubSeq(r.s, 3, Len(r.s))))
parseblock(s) ==
  LET inside == parseline(Tail(s))
  IN  IF Panicked(inside) \/ ~peek(inside.s, {")"}) THEN panic ELSE parseredirs(Result(inside.cmd, Tail(inside.s)))
\* An argument goes to the command inside the redirections made so far.
RECURSIVE AddArg(_, _)
AddArg(cmd, word) ==
  IF cmd.type = "EXEC" THEN EXEC(Append(cmd.argv, word)) ELSE [cmd EXCEPT !.cmd = AddArg(@, word)]
parsewords(r, argc) ==
  IF Panicked(r) \/ r.s = <<>> \/ peek(r.s, {"|", ")", "&", ";"}) THEN r
  ELSE IF Head(r.s) \in Symbols \/ argc + 1 >= MAXARGS THEN panic
  ELSE parsewords(parseredirs(Result(AddArg(r.cmd, Head(r.s)), Tail(r.s))), argc + 1)
parseexec(s) == IF peek(s, {"("}) THEN parseblock(s) ELSE parsewords(parseredirs(Result(EXEC(<<>>), s)), 0)
parsepipe(s) ==
  LET left == parseexec(s)
      right == parsepipe(Tail(left.s))
  IN  IF Panicked(left) \/ ~peek(left.s, {"|"}) THEN left
      ELSE IF Panicked(right) THEN panic ELSE Result(PIPE(left.cmd, right.cmd), right.s)
RECURSIVE parseback(_)
parseback(r) == IF peek(r.s, {"&"}) THEN parseback(Result(BACK(r.cmd), Tail(r.s))) ELSE r
parseline(s) ==
  LET left == parseback(parsepipe(s))
      right == parseline(Tail(left.s))
  IN  IF Panicked(left) \/ ~peek(left.s, {";"}) THEN left
      ELSE IF Panicked(right) THEN panic ELSE Result(LIST(left.cmd, right.cmd), right.s)
\* The tree of a line, or a panic if something is left over.
parsecmd(s) == LET r == parseline(s) IN IF r.s = <<>> THEN r ELSE panic

-----------------------------------------------------------------------------
\* A process: what it does next, its command, the descriptors 0 and 1, ends of pipes on others.
Process(parent, cmd, in, out, extra, back) ==
  [parent |-> parent, pc |-> "runcmd", cmd |-> cmd, in |-> in, out |-> out, extra |-> extra, waits |-> 0, back |-> back]
End(end, k) == [end |-> end, pipe |-> k]
Ends(p) == {procs[p].in, procs[p].out} \cup procs[p].extra
Held(end) == \E p \in DOMAIN procs : procs[p].pc # "zombie" /\ end \in Ends(p)
NewPid == CHOOSE n \in 1 .. Cardinality(DOMAIN procs) + 1 : n \notin DOMAIN procs
With(p, change) == [procs EXCEPT ![p] = change]
Forked(p, change, child) == [q \in (DOMAIN procs) \cup {NewPid} |-> IF q = NewPid THEN child ELSE IF q = p THEN change ELSE procs[q]]
\* exit: the ends are closed; children go to init, which waits for the dead ones.
Exit(p) ==
  LET gone == {q \in DOMAIN procs : procs[q].parent = p /\ procs[q].pc = "zombie"} \cup (IF procs[p].parent = 0 THEN {p} ELSE {})
  IN  procs' = [q \in (DOMAIN procs) \ gone |->
                 IF q = p THEN [procs[p] EXCEPT !.pc = "zombie", !.in = CONSOLE, !.out = CONSOLE, !.extra = {}]
                 ELSE IF procs[q].parent = p THEN [procs[q] EXCEPT !.parent = 0] ELSE procs[q]]
Wait(p, change) ==
  \E q \in DOMAIN procs : /\ procs[q].parent = p /\ procs[q].pc = "zombie"
                          /\ procs' = [r \in (DOMAIN procs) \ {q} |-> IF r = p THEN change ELSE procs[r]]
Running(p, type) == procs[p].pc = "runcmd" /\ procs[p].cmd.type = type
Child(p, cmd) == Process(p, cmd, procs[p].in, procs[p].out, procs[p].extra, procs[p].back)

RunExec(p) ==
  /\ Running(p, "EXEC") /\ UNCHANGED pipes
  /\ IF procs[p].cmd.argv \in {<<>>, <<"true">>} THEN Exit(p)
     ELSE procs' = With(p, [procs[p] EXCEPT !.pc = Head(procs[p].cmd.argv), !.waits = IF Head(procs[p].cmd.argv) = "echo" THEN UNITS ELSE 0])
\* The file may not open.
RunRedir(p) ==
  LET cmd == procs[p].cmd
  IN  /\ Running(p, "REDIR") /\ UNCHANGED pipes
      /\ \/ procs' = With(p, IF cmd.fd = 0 THEN [procs[p] EXCEPT !.in = CONSOLE, !.cmd = cmd.cmd]
                             ELSE [procs[p] EXCEPT !.out = CONSOLE, !.cmd = cmd.cmd])
         \/ Exit(p)
RunList(p) ==
  /\ UNCHANGED pipes
  /\ \/ Running(p, "LIST") /\ procs' = Forked(p, [procs[p] EXCEPT !.pc = "list"], Child(p, procs[p].cmd.left))
     \/ procs[p].pc = "list" /\ Wait(p, [procs[p] EXCEPT !.pc = "runcmd", !.cmd = @.right])
RunBack(p) ==
  /\ Running(p, "BACK") /\ UNCHANGED pipes
  /\ procs' = Forked(p, [procs[p] EXCEPT !.pc = "exit"], [Child(p, procs[p].cmd.cmd) EXCEPT !.back = TRUE])
\* Mutant: the process of a pipe keeps its ends open while it waits.
Unpiped_parent(proc, k) == IF proc.pc = "close" THEN proc.extra ELSE proc.extra \ {End("r", k), End("w", k)}
\* What is left of a process's other descriptors when it has closed the ends of pipe k.
Unpiped(proc, k) == proc.extra \ {End("r", k), End("w", k)}
\* Until it closes the pipe, waits is the pipe's number.
RunPipe(p) ==
  LET proc == procs[p]
      k == IF Running(p, "PIPE") THEN Len(pipes) + 1 ELSE proc.waits
      child(cmd) == [Child(p, cmd) EXCEPT !.extra = Unpiped(proc, k)]
  IN  \/ /\ Running(p, "PIPE") /\ pipes' = Append(pipes, 0)
         /\ procs' = With(p, [proc EXCEPT !.pc = "left", !.waits = k, !.extra = @ \cup {End("r", k), End("w", k)}])
      \/ /\ proc.pc = "left" /\ UNCHANGED pipes
         /\ procs' = Forked(p, [proc EXCEPT !.pc = "right"], [child(proc.cmd.left) EXCEPT !.out = End("w", k)])
      \/ /\ proc.pc = "right" /\ UNCHANGED pipes
         /\ procs' = Forked(p, [proc EXCEPT !.pc = "close"], [child(proc.cmd.right) EXCEPT !.in = End("r", k)])
      \/ proc.pc = "close" /\ procs' = With(p, [proc EXCEPT !.pc = "wait", !.waits = 2, !.extra = Unpiped(proc, k)]) /\ UNCHANGED pipes
      \/ /\ proc.pc = "wait" /\ UNCHANGED pipes
         /\ Wait(p, [proc EXCEPT !.waits = @ - 1, !.pc = IF proc.waits = 1 THEN "exit" ELSE "wait"])
Finish(p) == procs[p].pc = "exit" /\ Exit(p) /\ UNCHANGED pipes

\* A write to a pipe that nobody can read ends the program; one to a full pipe waits.
Write(p) ==
  LET out == procs[p].out
      wrote == procs' = With(p, [procs[p] EXCEPT !.waits = @ - 1])
  IN  /\ procs[p].pc \in {"echo", "cat"} /\ procs[p].waits > 0
      /\ IF out = CONSOLE THEN wrote /\ UNCHANGED pipes
         ELSE IF ~Held(End("r", out.pipe)) THEN Exit(p) /\ UNCHANGED pipes
         ELSE pipes[out.pipe] = 0 /\ wrote /\ pipes' = [pipes EXCEPT ![out.pipe] = 1]
\* A read ends at the end of the file, and of a pipe that is empty and nobody can write.
Read(p) ==
  LET in == procs[p].in
  IN  /\ procs[p].pc = "cat" /\ procs[p].waits = 0
      /\ IF in = CONSOLE THEN Exit(p) /\ UNCHANGED pipes
         ELSE IF pipes[in.pipe] > 0
         THEN procs' = With(p, [procs[p] EXCEPT !.waits = 1]) /\ pipes' = [pipes EXCEPT ![in.pipe] = 0]
         ELSE ~Held(End("w", in.pipe)) /\ Exit(p) /\ UNCHANGED pipes
EchoDone(p) == procs[p].pc = "echo" /\ procs[p].waits = 0 /\ Exit(p) /\ UNCHANGED pipes

\* The shell itself: a process for the line, which parses it, and back to the prompt.
Prompt(tokens) ==
  LET parsed == parsecmd(tokens)
      child == Process(1, parsed.cmd, CONSOLE, CONSOLE, {}, FALSE)
  IN  /\ procs[1].pc = "prompt" /\ line = <<>> /\ line' = <<tokens>> /\ UNCHANGED pipes
      /\ procs' = Forked(1, [procs[1] EXCEPT !.pc = "shell"], IF Panicked(parsed) THEN [child EXCEPT !.pc = "exit"] ELSE child)
Again == procs[1].pc = "shell" /\ Wait(1, [procs[1] EXCEPT !.pc = "prompt"]) /\ UNCHANGED <<pipes, line>>
Init ==
  /\ procs = [p \in {1} |-> [Process(0, EXEC(<<>>), CONSOLE, CONSOLE, {}, FALSE) EXCEPT !.pc = "prompt"]]
  /\ pipes = <<>> /\ line = <<>>
Step(p) == \/ RunExec(p) \/ RunRedir(p) \/ RunList(p) \/ RunBack(p) \/ RunPipe(p) \/ Finish(p)
           \/ Write(p) \/ Read(p) \/ EchoDone(p)
Next ==
  \/ \E tokens \in Commands : Prompt(tokens)
  \/ \E p \in DOMAIN procs : Step(p) /\ UNCHANGED line
  \/ Again
Spec == Init /\ [][Next]_svars

-----------------------------------------------------------------------------
AtPrompt == procs[1].pc = "prompt" /\ line # <<>>
\* When the shell asks again, all that is left of the line runs behind an "&".
ForegroundDone == AtPrompt => \A p \in (DOMAIN procs) \ {1} : procs[p].back
\* A process that waits for a pipe or for a child waits for one that goes on: who waits for a
\* pipe is not kept from going on by processes that only wait for their children.
Blocked(p) ==
  LET proc == procs[p]
  IN  CASE proc.pc = "cat" /\ proc.waits = 0 -> proc.in # CONSOLE /\ pipes[proc.in.pipe] = 0 /\ Held(End("w", proc.in.pipe))
        [] proc.pc \in {"echo", "cat"} /\ proc.waits > 0 -> proc.out # CONSOLE /\ pipes[proc.out.pipe] = 1 /\ Held(End("r", proc.out.pipe))
        [] proc.pc \in {"wait", "list", "shell"} -> ~\E q \in DOMAIN procs : procs[q].parent = p /\ procs[q].pc = "zombie"
        [] proc.pc \in {"zombie", "prompt"} -> TRUE
        [] OTHER -> FALSE
NobodyHangs == (\A p \in DOMAIN procs : Blocked(p)) => DOMAIN procs = {1} /\ procs[1].pc = "prompt"

-----------------------------------------------------------------------------
(***************************************************************************)
(* Lines of up to three commands, and some that are not lines at all.      *)
(***************************************************************************)
Exec == {EXEC(<<>>), EXEC(<<"echo", "x">>), EXEC(<<"cat">>)}
Pairs(A, B) == {PIPE(a, b) : a \in A, b \in B} \cup {LIST(a, b) : a \in A, b \in B}
Around(A) == {BACK(a) : a \in A} \cup {REDIR(a, "f", fd) : a \in A, fd \in {0, 1}}
Small == Around(Exec) \cup Pairs(Exec, Exec)
Trees == Small \cup Around(Small) \cup Pairs(Small, {EXEC(<<"cat">>)}) \cup Pairs({EXEC(<<"echo">>)}, Small)
\* Lines with no more brackets than they need: 0 any line, 1 no list, 2 no pipe and no "&".
Rank(cmd) == CASE cmd.type = "LIST" -> 0 [] cmd.type \in {"BACK"} -> 1 [] cmd.type = "PIPE" -> 2 [] OTHER -> 3
RECURSIVE Written(_, _), Base(_), Redirs(_)
Base(cmd) == IF cmd.type = "REDIR" THEN Base(cmd.cmd) ELSE cmd
Redirs(cmd) == IF cmd.type = "REDIR" THEN Redirs(cmd.cmd) \o <<IF cmd.fd = 0 THEN "<" ELSE ">", cmd.file>> ELSE <<>>
Plain(cmd) ==
  CASE cmd.type = "EXEC" -> cmd.argv
    [] cmd.type = "REDIR" -> (IF Base(cmd).type = "EXEC" THEN Base(cmd).argv ELSE <<"(">> \o Written(Base(cmd), 0) \o <<")">>) \o Redirs(cmd)
    [] cmd.type = "PIPE" -> Written(cmd.left, 3) \o <<"|">> \o Written(cmd.right, 2)
    [] cmd.type = "LIST" -> Written(cmd.left, 1) \o <<";">> \o Written(cmd.right, 0)
    [] OTHER -> Written(cmd.cmd, 1) \o <<"&">>
Written(cmd, rank) == IF Rank(cmd) < rank THEN <<"(">> \o Plain(cmd) \o <<")">> ELSE Plain(cmd)
Line(cmd) == Written(cmd, 0)
Wrong == {<<"(", "cat">>, <<"cat", "<">>, <<"cat", "&", "cat">>, <<"cat", ")">>, <<"a", "b", "c", "d">>}
Lines == {Line(cmd) : cmd \in Trees} \cup Wrong
\* The tree of a line is the one the line was written from, and no line is a wrong one.
ParsesBack == line = <<>> => /\ \A cmd \in Trees : parsecmd(Line(cmd)) = Result(cmd, <<>>)
                             /\ \A s \in Wrong : Panicked(parsecmd(s))
=============================================================================
