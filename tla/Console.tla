------------------------------ MODULE Console ------------------------------
(***************************************************************************)
(* Console input of xv6 (console.c): the interrupt handler edits a line in *)
(* a ring and commits it, processes read what is committed.  Both run with *)
(* cons.lock held, from one sleep of the reader to the next.               *)
(***************************************************************************)
EXTENDS Integers, Sequences, SequencesExt
CONSTANTS Readers, INPUT_BUF,
          UINT,    \* the indexes are modulo this
          COUNTS,  \* how many bytes a read asks for
          TYPED    \* how many keys are pressed
VARIABLES
  buf, r, w, e,
  keys,       \* how many have been pressed
  killed,
  pc,         \* reader -> where it is, n and target of its read
  committed,  \* for the properties: what was committed and not read yet,
  line        \* and what is being edited
vars == <<buf, r, w, e, keys, killed, pc, committed, line>>

Chars == {"a", "\n", "^D"}
Init ==
  /\ buf = [i \in 0 .. INPUT_BUF - 1 |-> "a"]
  /\ r \in {0, UINT - INPUT_BUF + 1} /\ w = r /\ e = r
  /\ keys = 0
  /\ killed = [p \in Readers |-> FALSE]
  /\ pc = [p \in Readers |-> [at |-> "out", n |-> 0, target |-> 0]]
  /\ committed = <<>> /\ line = <<>>

Minus(a, b) == (a - b) % UINT
Before(x) == buf[Minus(x, 1) % INPUT_BUF]
\* wakeup(&input.r)
Woken == [p \in Readers |-> IF pc[p].at = "asleep" THEN [pc[p] EXCEPT !.at = "run"] ELSE pc[p]]

-----------------------------------------------------------------------------
\* consoleintr for one key.  ^U goes back to the start of the line.
KillLineTo == CHOOSE k \in 0 .. Minus(e, w) :
  /\ \A j \in 0 .. k - 1 : Before(Minus(e, j)) # "\n"
  /\ k = Minus(e, w) \/ Before(Minus(e, k)) = "\n"
KillLine == /\ e' = Minus(e, KillLineTo)
            /\ line' = <<>>
            /\ UNCHANGED <<buf, w, pc, committed>>
\* Mutant: what the reader has not taken yet can be deleted.
Backspace_committed ==
  /\ e' = IF e # r THEN Minus(e, 1) ELSE e
  /\ line' = IF line = <<>> THEN line ELSE Front(line)
  /\ UNCHANGED <<buf, w, pc, committed>>
Backspace == /\ e' = IF e # w THEN Minus(e, 1) ELSE e
             /\ line' = IF line = <<>> THEN line ELSE Front(line)
             /\ UNCHANGED <<buf, w, pc, committed>>
Commits(c, to) == c \in {"\n", "^D"} \/ to = (r + INPUT_BUF) % UINT
Char(c) ==
  IF Minus(e, r) >= INPUT_BUF THEN UNCHANGED <<buf, w, e, pc, committed, line>>
  ELSE /\ buf' = [buf EXCEPT ![e % INPUT_BUF] = c]
       /\ e' = (e + 1) % UINT
       /\ IF Commits(c, e')
          THEN w' = e' /\ pc' = Woken /\ line' = <<>> /\ committed' = committed \o line \o <<c>>
          ELSE line' = Append(line, c) /\ UNCHANGED <<w, pc, committed>>
consoleintr ==
  /\ keys < TYPED
  /\ keys' = keys + 1
  /\ KillLine \/ Backspace \/ \E c \in Chars : Char(c)
  /\ UNCHANGED <<r, killed>>

-----------------------------------------------------------------------------
\* consoleread, from a test of r = w to the next one that is true: it has taken k
\* bytes, and stops at a newline, at ^D or with all it was asked for.
Avail == Minus(w, r)
At(k) == buf[(r + k) % INPUT_BUF]
Full(k, n) == k = n \/ (k > 0 /\ At(k - 1) = "\n")
Eof(k) == k < Avail /\ At(k) = "^D"
Stops(k, n) == Full(k, n) \/ Eof(k)
Taken(n) == CHOOSE k \in 0 .. Avail :
  (\A j \in 0 .. k - 1 : ~Stops(j, n)) /\ (k = Avail \/ Stops(k, n))
Eaten(k, n, first) == k + IF ~Full(k, n) /\ Eof(k) /\ first THEN 1 ELSE 0
Call(p) ==
  /\ pc[p].at = "out"
  /\ \E n \in COUNTS : pc' = [pc EXCEPT ![p] = [at |-> "run", n |-> n, target |-> n]]
  /\ UNCHANGED <<buf, r, w, e, keys, killed, committed, line>>
consoleread(p) ==
  LET n == pc[p].n
      k == Taken(n)
      took == Eaten(k, n, k = 0 /\ n = pc[p].target)
      to == IF Stops(k, n) \/ killed[p] THEN "out" ELSE "asleep"
  IN  /\ pc[p].at = "run"
      /\ r' = (r + took) % UINT
      /\ committed' = SubSeq(committed, took + 1, Len(committed))
      /\ pc' = [pc EXCEPT ![p] = [@ EXCEPT !.at = to, !.n = @ - k]]
      /\ UNCHANGED <<buf, w, e, keys, killed, line>>
kill(p) ==
  /\ ~killed[p]
  /\ killed' = [killed EXCEPT ![p] = TRUE]
  /\ pc' = [pc EXCEPT ![p].at = IF @ = "asleep" THEN "run" ELSE @]
  /\ UNCHANGED <<buf, r, w, e, keys, committed, line>>

Next == consoleintr \/ \E p \in Readers : Call(p) \/ consoleread(p) \/ kill(p)
Spec == Init /\ [][Next]_vars
-----------------------------------------------------------------------------
\* The ring holds the committed bytes and then the line, whatever is deleted, and
\* wherever the indexes wrap around.
RingExact ==
  /\ Minus(w, r) = Len(committed) /\ Minus(e, w) = Len(line)
  /\ Len(committed) + Len(line) <= INPUT_BUF
  /\ \A i \in DOMAIN committed : At(i - 1) = committed[i]
  /\ \A i \in DOMAIN line : buf[(w + i - 1) % INPUT_BUF] = line[i]

\* Nobody sleeps on bytes that are committed, and a line that fills the ring is.
NoStall ==
  /\ \A p \in Readers : pc[p].at = "asleep" => r = w
  /\ Len(line) < INPUT_BUF

\* A reader that has bytes leaves the ^D after them for the next read, which ends
\* with nothing: no end of file is swallowed.
EofLeft ==
  \A p \in Readers : pc[p].at = "run" /\ pc'[p].at # "run"
    => ((\E i \in 1 .. Len(committed) - Len(committed') : committed[i] = "^D")
        => pc'[p].at = "out" /\ pc'[p].n = pc'[p].target)
EofReported == [][EofLeft]_vars
=============================================================================
