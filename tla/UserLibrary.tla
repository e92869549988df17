---------------------------- MODULE UserLibrary -----------------------------
(***************************************************************************)
(* Strings, names and numbers of xv6: string.c, the path elements and      *)
(* names of fs.c, and printint and atoi of the user library; below them    *)
(* its malloc, and grep.  A string is an array of characters up to the     *)
(* first NUL; "/" is SLASH.                                                *)
(***************************************************************************)
EXTENDS Integers, Sequences, SequencesExt, FiniteSetsExt, TLC
CONSTANTS Letters, DIRSIZ,
          UINT       \* 2^32 in the code: how many unsigned numbers there are
NUL == 0
SLASH == 1
MINUS == -1

Str(s) == Append(s, NUL)
strlen(a) == SelectInSeq(a, LAMBDA c : c = NUL) - 1
\* The first place where p ends or differs from q.
strncmp(p, q, n) ==
  LET stops == {i \in 1 .. n : i <= Len(p) /\ (p[i] = NUL \/ p[i] # q[i])}
  IN  IF stops = {} THEN 0 ELSE p[Min(stops)] - q[Min(stops)]
strncpy(s, t, n) ==
  [i \in DOMAIN s |-> IF i > n THEN s[i] ELSE IF i <= Len(t) /\ \A j \in 1 .. i : t[j] # NUL THEN t[i] ELSE NUL]
\* The NUL goes where the loop stopped, which is after the one it copied.
safestrcpy(s, t, n) ==
  LET copied == Min({n - 1, strlen(t) + 1})
  IN  IF n <= 0 THEN s
      ELSE [i \in DOMAIN s |-> IF i <= copied THEN t[i] ELSE IF i = copied + 1 THEN NUL ELSE s[i]]
Move(mem, d, s, order) == FoldLeft(LAMBDA m, i : [m EXCEPT ![d + i] = m[s + i]], mem, order)
Forward(n) == [i \in 1 .. n |-> i - 1]
memmove(mem, d, s, n) == Move(mem, d, s, IF s < d /\ s + n > d THEN Reverse(Forward(n)) ELSE Forward(n))
umemmove(mem, d, s, n) == Move(mem, d, s, Forward(n))

-----------------------------------------------------------------------------
RECURSIVE Skip(_)
Skip(path) == IF path # <<>> /\ Head(path) = SLASH THEN Skip(Tail(path)) ELSE path
\* What is left of the path, and the array name, which keeps what was in it before.
skipelem(path, name) ==
  LET s == Skip(path)
      end == SelectInSeq(s, LAMBDA c : c = SLASH)
      len == IF end = 0 THEN Len(s) ELSE end - 1
      kept == Min({len, DIRSIZ})
  IN  [path |-> Skip(SubSeq(s, len + 1, Len(s))),
       name |-> [i \in 1 .. DIRSIZ |-> IF i <= kept THEN s[i] ELSE IF i = kept + 1 THEN NUL ELSE name[i]]]
RECURSIVE Names(_, _)
\* The arrays that namex sees.
Names(path, name) ==
  IF Skip(path) = <<>> THEN <<>>
  ELSE LET r == skipelem(path, name) IN <<r.name>> \o Names(r.path, r.name)
namecmp(s, t) == strncmp(s, t, DIRSIZ)
Stored(name) == strncpy([i \in 1 .. DIRSIZ |-> SLASH], name, DIRSIZ)

-----------------------------------------------------------------------------
Unsigned(x) == x % UINT
RECURSIVE Digits(_, _)
Digits(x, base) == (IF x < base THEN <<>> ELSE Digits(x \div base, base)) \o <<x % base>>
printint(xx, base, sgn) == IF sgn /\ xx < 0 THEN <<MINUS>> \o Digits(Unsigned(-xx), base) ELSE Digits(Unsigned(xx), base)
atoi(s) ==
  LET end == SelectInSeq(s, LAMBDA c : c \notin 0 .. 9)
  IN  FoldLeft(LAMBDA n, c : n * 10 + c, 0, IF end = 0 THEN s ELSE SubSeq(s, 1, end - 1))

-----------------------------------------------------------------------------
(***************************************************************************)
(* A text that grows by a character or by the last name again, and a       *)
(* number that is counted up.                                              *)
(***************************************************************************)
CONSTANT MAXLEN
VARIABLES text, number
xvars == <<text, number>>
XInit == text = <<>> /\ number = -(UINT \div 2)
Type == number = -(UINT \div 2) /\ Len(text) < MAXLEN /\ \E c \in Letters \cup {SLASH} : text' = Append(text, c) /\ UNCHANGED number
Count == text = <<>> /\ number < UINT \div 2 - 1 /\ number' = number + 1 /\ UNCHANGED text
XNext == Type \/ Count
XSpec == XInit /\ [][XNext]_xvars

RECURSIVE Elements(_)
\* The elements of a path, as its writer sees them.
Elements(path) ==
  LET end == SelectInSeq(path, LAMBDA c : c = SLASH)
  IN  IF path = <<>> THEN <<>> ELSE IF end = 1 THEN Elements(Tail(path)) ELSE IF end = 0 THEN <<path>>
      ELSE <<SubSeq(path, 1, end - 1)>> \o Elements(SubSeq(path, end, Len(path)))
Cut(name) == SubSeq(name, 1, Min({Len(name), DIRSIZ}))
\* An element of a path finds the entries that were made under a name with the same
\* first DIRSIZ characters, and no others, whatever the array held before.
PathExact ==
  LET elements == Elements(text)
      names == Names(text, [i \in 1 .. DIRSIZ |-> SLASH])
  IN  /\ Len(names) = Len(elements)
      /\ \A i, j \in DOMAIN names : (namecmp(names[i], Stored(names[j])) = 0) = (Cut(elements[i]) = Cut(elements[j]))
      /\ \A i, j \in DOMAIN elements : (namecmp(Str(elements[i]), Stored(Str(elements[j]))) = 0) = (Cut(elements[i]) = Cut(elements[j]))
\* A copy is the source as it was, also where the two overlap; the user's memmove is
\* one too, unless it runs into what it has yet to copy.  safestrcpy leaves a string
\* that is a prefix, within its n characters.
CopyExact ==
  /\ \A n \in 0 .. Len(text) : \A d, s \in 1 .. Len(text) - n + 1 :
       LET copied == [i \in DOMAIN text |-> IF i \in d .. d + n - 1 THEN text[s + i - d] ELSE text[i]]
       IN  memmove(text, d, s, n) = copied /\ (d <= s \/ s + n <= d => umemmove(text, d, s, n) = copied)
  /\ \A n \in 0 .. Len(text) + 2 :
       LET to == [i \in 1 .. Len(text) + 3 |-> SLASH]
           copy == safestrcpy(to, Str(text), n)
       IN  /\ \A i \in n + 1 .. Len(to) : copy[i] = to[i]
           /\ n > 0 => strlen(copy) = Min({n - 1, Len(text)}) /\ SubSeq(copy, 1, strlen(copy)) = SubSeq(text, 1, strlen(copy))
\* The digits that are printed are those of the number, the least one too, and atoi
\* reads back what has no sign.
NumbersExact ==
  LET Value(digits, base) == FoldLeft(LAMBDA n, c : n * base + c, 0, digits)
      signed == printint(number, 10, TRUE)
  IN  /\ number >= 0 => Value(signed, 10) = number /\ atoi(signed) = number
      /\ number < 0 => Head(signed) = MINUS /\ Value(Tail(signed), 10) = -number
      /\ Value(printint(number, 16, FALSE), 16) = number % UINT

-----------------------------------------------------------------------------
(***************************************************************************)
(* malloc and free of the user programs of xv6 (umalloc.c).  Addresses     *)
(* count headers: base, the block of size 0, is at 0 and the heap begins    *)
(* at 1, with the break at brk.  Free blocks are in a circular list ptr     *)
(* with their sizes; a block in use keeps its size in its header.          *)
(***************************************************************************)
CONSTANTS NALLOC,  \* units that morecore asks for at least
          LIMIT    \* where sbrk fails

BASE == 0
Fresh == [ptr |-> <<>>, size |-> <<>>, freep |-> -1, brk |-> 1]
Put(f, a, v) == (a :> v) @@ f
\* A word that is no header any more, because its block was joined or handed out.
Without(f, a) == [b \in DOMAIN f \ {a} |-> f[b]]
\* Where free stops looking: at the block before bp in the list.
After(h, p, bp) ==
  \/ bp > p /\ bp < h.ptr[p]
  \/ p >= h.ptr[p] /\ (bp > p \/ bp < h.ptr[p])
RECURSIVE Before(_, _, _)
Before(h, p, bp) == IF After(h, p, bp) THEN p ELSE Before(h, h.ptr[p], bp)
\* bp joins the block behind it, then the one before it.
Up(h, bp, next) ==
  IF bp + h.size[bp] = next
  THEN [h EXCEPT !.size = Without([@ EXCEPT ![bp] = @ + h.size[next]], next),
                 !.ptr = Without(Put(@, bp, h.ptr[next]), next)]
  ELSE [h EXCEPT !.ptr = Put(@, bp, next)]
free(h, bp) ==
  LET p == Before(h, h.freep, bp)
      up == Up(h, bp, h.ptr[p])
  IN  IF p + up.size[p] = bp
      THEN [up EXCEPT !.size = Without([@ EXCEPT ![p] = @ + up.size[bp]], bp),
                      !.ptr = Without([@ EXCEPT ![p] = up.ptr[bp]], bp), !.freep = p]
      ELSE [up EXCEPT !.ptr[p] = bp, !.freep = p]
\* 0 in the place of a block is the null pointer.
morecore(h, nu) ==
  LET n == IF nu < NALLOC THEN NALLOC ELSE nu
  IN  IF h.brk + n > LIMIT THEN [h |-> h, p |-> 0, ok |-> FALSE]
      ELSE LET new == free([h EXCEPT !.size = Put(@, h.brk, n), !.brk = @ + n], h.brk)
           IN  [h |-> new, p |-> new.freep, ok |-> TRUE]
\* From a block of at least nunits: all of it, or its tail.
Taken(h, prevp, p, nunits) ==
  LET rest == h.size[p] - nunits
  IN  IF rest = 0
      THEN [h |-> [h EXCEPT !.ptr = Without([@ EXCEPT ![prevp] = h.ptr[p]], p), !.freep = prevp], at |-> p]
      ELSE [h |-> [h EXCEPT !.size = Put([@ EXCEPT ![p] = rest], p + rest, nunits), !.freep = prevp],
            at |-> p + rest]
RECURSIVE FirstFit(_, _, _, _)
FirstFit(h, prevp, p, nunits) ==
  LET more == morecore(h, nunits)
  IN  IF h.size[p] >= nunits THEN Taken(h, prevp, p, nunits)
      ELSE IF p # h.freep THEN FirstFit(h, p, h.ptr[p], nunits)
      ELSE IF more.ok THEN FirstFit(more.h, more.p, more.h.ptr[more.p], nunits)
      ELSE [h |-> h, at |-> 0]
malloc(h, nunits) ==
  LET g == IF h.freep = -1 THEN [h EXCEPT !.ptr = BASE :> BASE, !.size = BASE :> 0, !.freep = BASE] ELSE h
  IN  FirstFit(g, g.freep, g.ptr[g.freep], nunits)

\* The free list, from a block on around to it.
RECURSIVE Listed(_, _, _)
Listed(h, p, first) == IF h.ptr[p] = first THEN <<p>> ELSE <<p>> \o Listed(h, h.ptr[p], first)

-----------------------------------------------------------------------------
(***************************************************************************)
(* A program that allocates and frees, and calls sbrk itself in between;    *)
(* used has the blocks it holds, with the units it asked for.              *)
(***************************************************************************)
CONSTANT UNITS    \* sizes it asks for, with the header
VARIABLES h, used
AInit == h = Fresh /\ used = <<>>
Alloc(n) ==
  LET r == malloc(h, n)
  IN  h' = r.h /\ used' = IF r.at = 0 THEN used ELSE Put(used, r.at, n)
Free(a) == h' = free(h, a) /\ used' = [b \in DOMAIN used \ {a} |-> used[b]]
\* Memory the program takes by itself lies between blocks for ever.
Sbrk ==
  /\ h.brk < LIMIT /\ \A a \in DOMAIN used : used[a] # 1
  /\ h' = [h EXCEPT !.brk = @ + 1] /\ used' = Put(used, h.brk, 1)
ANext ==
  \/ \E n \in UNITS : Alloc(n)
  \/ \E a \in DOMAIN used : used[a] # 1 /\ Free(a)
  \/ Sbrk
ASpec == AInit /\ [][ANext]_<<h, used>>
FreeBlocks == IF h.freep = -1 THEN {} ELSE {Listed(h, BASE, BASE)[i] : i \in DOMAIN Listed(h, BASE, BASE)} \ {BASE}
Units(a, n) == a .. a + n - 1
-----------------------------------------------------------------------------
\* Blocks in use have the units asked for and no two blocks, in use or free, have a
\* unit in common; all units up to the break are in one of them.
HeapPartitioned ==
  LET blocks == {<<a, used[a]>> : a \in DOMAIN used} \cup {<<a, h.size[a]>> : a \in FreeBlocks}
  IN  /\ \A b, c \in blocks : b[1] = c[1] \/ b[1] + b[2] <= c[1] \/ c[1] + c[2] <= b[1]
      /\ UNION {Units(b[1], b[2]) : b \in blocks} = 1 .. h.brk - 1
\* Free blocks that touch were joined, so that a program that frees all it has can
\* have it again in one piece.
Joined == \A a, b \in FreeBlocks : a + h.size[a] # b
-----------------------------------------------------------------------------
(***************************************************************************)
(* grep (grep.c): lines are taken out of a buffer that is filled read by   *)
(* read, and matched against a pattern of ^ . * $ and characters.          *)
(***************************************************************************)
CONSTANT BUFSIZE
VARIABLES pattern, input, kind, rest, buf, out, ended
gvars == <<pattern, input, kind, rest, buf, out, ended>>

Starts(s, c) == s # <<>> /\ Head(s) = c
RECURSIVE matchhere(_, _), matchstar(_, _, _)
Fits(c, txt) == txt # <<>> /\ c \in {".", Head(txt)}
matchstar(c, re, txt) == matchhere(re, txt) \/ (Fits(c, txt) /\ matchstar(c, re, Tail(txt)))
matchhere(re, txt) ==
  IF re = <<>> THEN TRUE
  ELSE IF Starts(Tail(re), "*") THEN matchstar(re[1], Tail(Tail(re)), txt)
  ELSE IF re = <<"$">> THEN txt = <<>>
  ELSE Fits(re[1], txt) /\ matchhere(Tail(re), Tail(txt))
match(re, txt) ==
  IF Starts(re, "^") THEN matchhere(Tail(re), txt)
  ELSE \E i \in 1 .. Len(txt) + 1 : matchhere(re, SubSeq(txt, i, Len(txt)))

Newlines(s) == {i \in DOMAIN s : s[i] = "\n"}
RECURSIVE Printed(_, _)
\* The whole lines at the start of s that match.
Printed(s, re) ==
  IF Newlines(s) = {} THEN <<>>
  ELSE LET q == SelectInSeq(s, LAMBDA c : c = "\n")
           line == SubSeq(s, 1, q - 1)
       IN  (IF match(re, line) THEN <<line>> ELSE <<>>) \o Printed(SubSeq(s, q + 1, Len(s)), re)
\* What is kept for the next read: a line without an end is thrown away if it stands
\* at the start of the buffer.
Kept(s) ==
  IF Newlines(s) = {} THEN <<>>
  ELSE SubSeq(s, Max(Newlines(s)) + 1, Len(s))
\* A file gives as much as there is room for, the console no more than a line.
Given(room) ==
  LET n == IF Len(rest) < room THEN Len(rest) ELSE room
      line == SelectInSeq(rest, LAMBDA c : c = "\n")
  IN  IF kind = "console" /\ line \in 1 .. n THEN line ELSE n
\* Short patterns and inputs of up to three lines.
Chars == {"a", "b", ".", "*", "^", "$"}
Upto(S, n) == UNION {[1 .. k -> S] : k \in 0 .. n}
PatternSet == Upto(Chars, 2) \cup {<<"^", "a", "*", "$">>, <<"a", ".", "*", "b">>, <<"b", "*", "a">>, <<"^", ".", "*", "b", "$">>}
InputSet == Upto({"a", "b", "\n"}, 5)
Init ==
  /\ pattern \in PatternSet /\ input \in InputSet /\ kind \in {"file", "console"}
  /\ rest = input /\ buf = <<>> /\ out = <<>> /\ ended = FALSE
Read ==
  /\ ~ended
  /\ LET n == Given(BUFSIZE - Len(buf) - 1)
         now == buf \o SubSeq(rest, 1, n)
     IN  IF n = 0 THEN ended' = TRUE /\ UNCHANGED <<rest, buf, out>>
         ELSE /\ rest' = SubSeq(rest, n + 1, Len(rest))
              /\ out' = out \o Printed(now, pattern)
              /\ buf' = Kept(now)
              /\ UNCHANGED ended
  /\ UNCHANGED <<pattern, input, kind>>
Next == Read
Spec == Init /\ [][Next]_gvars

-----------------------------------------------------------------------------
\* A pattern is a list of characters, some of them starred; ReachedBy is the positions
\* of the text that can be reached by an item, from the positions from.
Meets(c, txt, i) == c = "." \/ c = txt[i]
ReachedBy(c, star, txt, from) ==
  IF star THEN {q \in 0 .. Len(txt) : \E p \in from : p <= q /\ \A i \in p + 1 .. q : Meets(c, txt, i)}
  ELSE {p + 1 : p \in {q \in from : q < Len(txt) /\ Meets(c, txt, q + 1)}}
RECURSIVE Reached(_, _, _)
Reached(re, txt, from) ==
  CASE re = <<>> -> from
    [] re = <<"$">> -> from \cap {Len(txt)}
    [] OTHER -> IF Len(re) > 1 /\ re[2] = "*" THEN Reached(SubSeq(re, 3, Len(re)), txt, ReachedBy(re[1], TRUE, txt, from))
                ELSE Reached(Tail(re), txt, ReachedBy(re[1], FALSE, txt, from))
Matches(re, txt) ==
  IF re # <<>> /\ re[1] = "^" THEN Reached(Tail(re), txt, {0}) # {}
  ELSE Reached(re, txt, 0 .. Len(txt)) # {}
\* The lines that have an end, in order.
LinesOf ==
  LET last == SetToSortSeq(Newlines(input), <)
  IN  [i \in DOMAIN last |-> SubSeq(input, 1 + (IF i = 1 THEN 0 ELSE last[i - 1]), last[i] - 1)]
\* grep prints the lines that match, whole and in order, however they lie in the
\* buffer, if a line and its end fit in.
GrepExact ==
  ended /\ (\A i \in DOMAIN LinesOf : Len(LinesOf[i]) + 1 < BUFSIZE)
    => out = SelectSeq(LinesOf, LAMBDA line : Matches(pattern, line))
=============================================================================
