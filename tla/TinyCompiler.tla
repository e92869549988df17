--------------------------- MODULE TinyCompiler -----------------------------
(***************************************************************************)
(* The directory 1_Scanner.  First its scanner of C-minus (scan.c):         *)
(* getToken, an automaton over the characters that getNextChar takes from  *)
(* lines read in pieces, with one character pushed back; and the lex       *)
(* specification of the same tokens (cminus.l), from which the other       *)
(* scanner is made.  A character is a one-letter string; a token is its    *)
(* kind and its text.                                                      *)
(***************************************************************************)
EXTENDS Integers, Sequences, SequencesExt, FiniteSetsExt
CONSTANTS Letters, Digits, BUFLEN,      \* a piece has at most BUFLEN - 2 characters
          Reserved                      \* the words with a token of their own

Blanks == {" ", "\n"}
Singles == {"+", "-", "*", "(", ")", "[", "]", "{", "}", ";", ","}
Doubles == {"=", "!", "<", ">"}
\* lineBuf and the text not yet read from the file.
Source(text) == [text |-> text, buf |-> <<>>, pos |-> 1, eof |-> FALSE]
\* fgets: up to the end of the line, or as much as the buffer holds.
Piece(text) ==
  LET eol == SelectInSeq(text, LAMBDA c : c = "\n")
      room == Min({BUFLEN - 2, Len(text)})
  IN  IF eol = 0 THEN room ELSE Min({eol, room})
getNextChar(in) ==
  IF in.pos <= Len(in.buf) THEN [c |-> in.buf[in.pos], in |-> [in EXCEPT !.pos = @ + 1]]
  ELSE IF in.text = <<>> THEN [c |-> "EOF", in |-> [in EXCEPT !.eof = TRUE]]
  ELSE LET n == Piece(in.text)
       IN  [c |-> in.text[1], in |-> [text |-> SubSeq(in.text, n + 1, Len(in.text)), buf |-> SubSeq(in.text, 1, n), pos |-> 2, eof |-> FALSE]]
ungetNextChar(in) == IF in.eof THEN in ELSE [in EXCEPT !.pos = @ - 1]
reservedLookup(word) == IF word \in Reserved THEN "reserved" ELSE "ID"

\* A step of the automaton: the next state, whether the character is kept and whether it is
\* pushed back, and the token when the state is DONE.
Go(state) == [state |-> state, save |-> TRUE, unget |-> FALSE, token |-> ""]
Skip(state) == [Go(state) EXCEPT !.save = FALSE]
Done(token) == [Go("DONE") EXCEPT !.token = token]
Back(token) == [Done(token) EXCEPT !.save = FALSE, !.unget = TRUE]
Ended == [Done("ENDFILE") EXCEPT !.save = FALSE]
FromStart(c) ==
  CASE c \in Digits -> Go("INNUM")
    [] c \in Letters -> Go("INID")
    [] c \in Doubles -> Go(c)
    [] c = "/" -> Go("INOVER")
    [] c \in Blanks -> Skip("START")
    [] c = "EOF" -> Ended
    [] c \in Singles -> Done(c)
    [] OTHER -> Done("ERROR")
InDouble(state, c) ==
  CASE c = "=" -> Done(state \o "=")
    [] c # "=" /\ state = "!" -> Back("ERROR")
    [] OTHER -> Back(state)
InComment(state, c) ==
  CASE state = "INCOMMENT_" -> Skip(IF c = "/" THEN "START" ELSE IF c = "*" THEN "INCOMMENT_" ELSE "INCOMMENT")
    [] state = "INCOMMENT" /\ c = "EOF" -> Ended
    [] OTHER -> Skip(IF c = "*" THEN "INCOMMENT_" ELSE "INCOMMENT")
Step(state, c) ==
  CASE state = "START" -> FromStart(c)
    [] state = "INOVER" -> IF c = "*" THEN Skip("INCOMMENT") ELSE Back("/")
    [] state \in {"INCOMMENT", "INCOMMENT_"} -> InComment(state, c)
    [] state \in Doubles -> InDouble(state, c)
    [] state = "INNUM" -> IF c \in Digits THEN Go("INNUM") ELSE Back("NUM")
    [] OTHER -> IF c \in Letters \cup Digits THEN Go("INID") ELSE Back("ID")
\* getToken from a state on; a comment forgets what it began with.
RECURSIVE getToken(_, _, _)
getToken(in, state, word) ==
  LET next == getNextChar(in)
      step == Step(state, next.c)
      rest == IF step.unget THEN ungetNextChar(next.in) ELSE next.in
      kept == IF state = "INCOMMENT_" /\ step.state = "START" THEN <<>>
              ELSE IF step.save THEN Append(word, next.c) ELSE word
  IN  IF step.state = "DONE"
      THEN [token |-> IF step.token = "ID" THEN reservedLookup(kept) ELSE step.token, word |-> kept, in |-> rest]
      ELSE getToken(rest, step.state, kept)
RECURSIVE AllTokens(_)
\* The calls of the parser, up to the end of the file.
AllTokens(in) ==
  LET t == getToken(in, "START", <<>>)
  IN  IF t.token = "ENDFILE" THEN <<>> ELSE <<[token |-> t.token, word |-> t.word]>> \o AllTokens(t.in)
scan(text) == AllTokens(Source(text))

-----------------------------------------------------------------------------
\* The rules of cminus.l: the longest prefix that a rule takes, the first of equal rules.
Word(text, chars) ==
  LET other == SelectInSeq(text, LAMBDA c : c \notin chars) IN IF other = 0 THEN Len(text) ELSE other - 1
identifier(text) == IF Head(text) \in Letters THEN Word(text, Letters \cup Digits) ELSE 0
number(text) == Word(text, Digits)
operator(text) ==
  IF Head(text) \in Doubles /\ Len(text) > 1 /\ text[2] = "=" THEN 2
  ELSE IF Head(text) \in (Singles \cup Doubles \cup {"/"}) \ {"!"} THEN 1 ELSE 0
\* The length of a comment: through the first end of one after its two first characters.
comment(text) ==
  LET ends == {i \in 4 .. Len(text) : text[i - 1] = "*" /\ text[i] = "/"}
  IN  IF Len(text) < 2 \/ SubSeq(text, 1, 2) # <<"/", "*">> THEN 0
      ELSE IF ends = {} THEN Len(text) ELSE Min(ends)
lexeme(text, n) ==
  LET word == SubSeq(text, 1, n)
  IN  [token |-> IF number(text) = n THEN "NUM"
                 ELSE IF identifier(text) = n THEN reservedLookup(word)
                 ELSE IF operator(text) = n THEN FoldLeft(LAMBDA a, c : a \o c, "", word) ELSE "ERROR",
       word |-> word]
RECURSIVE lex(_)
lex(text) ==
  LET n == Max({1, identifier(text), number(text), operator(text)})
  IN  IF text = <<>> THEN <<>>
      ELSE IF comment(text) > 0 THEN lex(SubSeq(text, comment(text) + 1, Len(text)))
      ELSE IF Head(text) \in Blanks THEN lex(Tail(text))
      ELSE <<lexeme(text, n)>> \o lex(SubSeq(text, n + 1, Len(text)))

-----------------------------------------------------------------------------
(***************************************************************************)
(* Texts of a few pieces: characters, and the ends of comments.            *)
(***************************************************************************)
CONSTANTS PIECES
VARIABLES text, pieces
Pieces == {<<c>> : c \in Letters \cup Digits \cup Blanks \cup {"/", "*", "=", "!", "@"}}
          \cup {<<"/", "*">>, <<"*", "/">>}
XInit == text = <<>> /\ pieces = 0
XNext == pieces < PIECES /\ pieces' = pieces + 1 /\ \E c \in Pieces : text' = text \o c
-----------------------------------------------------------------------------
\* The scanner returns the longest tokens of the text, with their lines, and skips
\* what is in comments, as the definition of the language has it.
ScanExact == scan(text) = lex(text)

-----------------------------------------------------------------------------
(***************************************************************************)
(* Then the compiler of TINY from its syntax trees on (analyze.c,          *)
(* symtab.c, cgen.c, code.c), which is kept beside the scanner, and the    *)
(* machine its code runs on (tm.c).  A child is a list of siblings; attr   *)
(* is a node's name, number or operator.  Line numbers, comments and       *)
(* traces are left out.                                                    *)
(***************************************************************************)
CONSTANTS IADDR_SIZE, DADDR_SIZE

Node(kind, attr, children) == [kind |-> kind, attr |-> attr, child |-> children]
RECURSIVE Preorder(_)
\* The nodes in the order of traverse().
Preorder(list) ==
  IF list = <<>> THEN <<>>
  ELSE <<Head(list)>> \o Preorder(FlattenSeq(Head(list).child)) \o Preorder(Tail(list))

\* The table lists the names; a name's place is its location in memory.
st_lookup(table, name) == SelectInSeq(table, LAMBDA n : n = name) - 1
HasName(t) == t.kind \in {"AssignK", "ReadK", "IdK"}
insertNode(table, t) == IF st_lookup(table, t.attr) = -1 THEN Append(table, t.attr) ELSE table
buildSymtab(tree) == FoldLeft(insertNode, <<>>, SelectSeq(Preorder(tree), HasName))

\* The type a node has when its parent is checked.
Type(list) == IF list[1].kind = "OpK" /\ list[1].attr \in {"=", "<"} THEN "Boolean" ELSE "Integer"
checkNode(t) ==
  CASE t.kind = "OpK" -> Type(t.child[1]) = "Integer" /\ Type(t.child[2]) = "Integer"
    [] t.kind = "IfK" -> Type(t.child[1]) # "Integer"
    [] t.kind \in {"AssignK", "WriteK"} -> Type(t.child[1]) = "Integer"
    [] t.kind = "RepeatK" -> Type(t.child[2]) # "Integer"
    [] OTHER -> TRUE
typeCheck(tree) == \A t \in ToSet(Preorder(tree)) : checkNode(t)

-----------------------------------------------------------------------------
ac == 0
ac1 == 1
gp == 5
mp == 6
pc == 7
I(op, r, s, t) == [op |-> op, r |-> r, s |-> s, t |-> t]
NoCode == [lines |-> <<>>, emitLoc |-> 0, highEmitLoc |-> 0, tmpOffset |-> 0]
Higher(a, b) == IF a < b THEN b ELSE a
emitSkip(e, howMany) ==
  [e EXCEPT !.emitLoc = @ + howMany, !.highEmitLoc = Higher(@, e.emitLoc + howMany)]
\* emitRO and emitRM: the next instructions.
emitAll(e, list) ==
  [emitSkip(e, Len(list)) EXCEPT !.lines = @ \o [k \in DOMAIN list |-> [loc |-> e.emitLoc + k - 1, i |-> list[k]]]]
emit(e, i) == emitAll(e, <<i>>)
emitBackup(e, loc) == [e EXCEPT !.emitLoc = loc]
emitRestore(e) == [e EXCEPT !.emitLoc = e.highEmitLoc]
emitRM_Abs(e, op, r, a) == emit(e, I(op, r, a - (e.emitLoc + 1), pc))
\* A jump from a place that was skipped to where the code is now.
Patched(e, loc, op, r) == emitRestore(emitRM_Abs(emitBackup(e, loc), op, r, e.emitLoc))

Compared(jump) == <<I("SUB", ac, ac1, ac), I(jump, ac, 2, pc), I("LDC", ac, 0, ac), I("LDA", pc, 1, pc), I("LDC", ac, 1, ac)>>
CodeOf(op) ==
  CASE op = "+" -> <<I("ADD", ac, ac1, ac)>>
    [] op = "-" -> <<I("SUB", ac, ac1, ac)>>
    [] op = "*" -> <<I("MUL", ac, ac1, ac)>>
    [] op = "/" -> <<I("DIV", ac, ac1, ac)>>
    [] op = "<" -> Compared("JLT")
    [] op = "=" -> Compared("JEQ")
\* Left into a temporary, right into ac, and left back into ac1.
Pushed(e) == [emit(e, I("ST", ac, e.tmpOffset, mp)) EXCEPT !.tmpOffset = @ - 1]
Popped(e) == [emit(e, I("LD", ac1, e.tmpOffset + 1, mp)) EXCEPT !.tmpOffset = @ + 1]

RECURSIVE cGen(_, _, _)
genExp(e, t, table) ==
  CASE t.kind = "ConstK" -> emit(e, I("LDC", ac, t.attr, 0))
    [] t.kind = "IdK" -> emit(e, I("LD", ac, st_lookup(table, t.attr), gp))
    [] OTHER -> emitAll(Popped(cGen(Pushed(cGen(e, t.child[1], table)), t.child[2], table)), CodeOf(t.attr))
genIf(e, t, table) ==
  LET test == cGen(e, t.child[1], table)
      yes == cGen(emitSkip(test, 1), t.child[2], table)
      no == cGen(Patched(emitSkip(yes, 1), test.emitLoc, "JEQ", ac), t.child[3], table)
  IN  Patched(no, yes.emitLoc, "LDA", pc)
genStmt(e, t, table) ==
  LET store == I("ST", ac, st_lookup(table, t.attr), gp)
  IN  CASE t.kind = "IfK" -> genIf(e, t, table)
        [] t.kind = "RepeatK" -> emitRM_Abs(cGen(cGen(e, t.child[1], table), t.child[2], table), "JEQ", ac, e.emitLoc)
        [] t.kind = "AssignK" -> emit(cGen(e, t.child[1], table), store)
        [] t.kind = "ReadK" -> emitAll(e, <<I("IN", ac, 0, 0), store>>)
        [] OTHER -> emit(cGen(e, t.child[1], table), I("OUT", ac, 0, 0))
IsExp(t) == t.kind \in {"ConstK", "IdK", "OpK"}
genNode(e, t, table) == IF IsExp(t) THEN genExp(e, t, table) ELSE genStmt(e, t, table)
cGen(e, list, table) == IF list = <<>> THEN e ELSE cGen(genNode(e, Head(list), table), Tail(list), table)
Prelude == <<I("LD", mp, 0, ac), I("ST", ac, 0, ac)>>
codeGen(tree, table) == emit(cGen(emitAll(NoCode, Prelude), tree, table), I("HALT", 0, 0, 0)).lines

-----------------------------------------------------------------------------
Halt == I("HALT", 0, 0, 0)
\* readInstructions: the lines in any order, a later one instead of an earlier one.
readInstructions(lines) ==
  [a \in 0 .. IADDR_SIZE - 1 |->
     LET last == SelectLastInSeq(lines, LAMBDA l : l.loc = a) IN IF last = 0 THEN Halt ELSE lines[last].i]
\* main() of the compiler makes no code of a tree with an error.
Compiled(tree) == IF typeCheck(tree) THEN readInstructions(codeGen(tree, buildSymtab(tree))) ELSE <<>>
Cleared(m) == [m EXCEPT !.reg = [r \in 0 .. 7 |-> 0],
                        !.dMem = [a \in 0 .. DADDR_SIZE - 1 |-> IF a = 0 THEN DADDR_SIZE - 1 ELSE 0]]
Started(in) == Cleared([reg |-> <<>>, dMem |-> <<>>, in |-> in, out |-> <<>>, result |-> "OKAY"])

\* Division of C.
Quotient(a, b) ==
  LET Abs(n) == IF n < 0 THEN -n ELSE n
      q == Abs(a) \div Abs(b)
  IN  IF (a < 0) = (b < 0) THEN q ELSE -q
Stopped(m, why) == [m EXCEPT !.result = why]
Load(m, r, v) == [m EXCEPT !.reg[r] = v]
JumpTo(m, taken, a) == IF taken THEN [m EXCEPT !.reg[pc] = a] ELSE m
\* The pc is at the next instruction already; s and t of one that goes to memory are
\* its displacement and its base.
Execute(m, i) ==
  LET r == m.reg[i.r]
      a == i.s + m.reg[i.t]
      s == m.reg[i.s]
      t == m.reg[i.t]
  IN  CASE i.op = "HALT" -> Stopped(m, "HALT")
        [] i.op = "IN" -> [Load(m, i.r, Head(m.in)) EXCEPT !.in = Tail(@)]
        [] i.op = "OUT" -> [m EXCEPT !.out = Append(@, r)]
        [] i.op = "ADD" -> Load(m, i.r, s + t)
        [] i.op = "SUB" -> Load(m, i.r, s - t)
        [] i.op = "MUL" -> Load(m, i.r, s * t)
        [] i.op = "DIV" -> IF t = 0 THEN Stopped(m, "ZERODIVIDE") ELSE Load(m, i.r, Quotient(s, t))
        [] i.op \in {"LD", "ST"} -> IF a < 0 \/ a > DADDR_SIZE THEN Stopped(m, "DMEM_ERR")
                                    ELSE IF i.op = "LD" THEN Load(m, i.r, m.dMem[a]) ELSE [m EXCEPT !.dMem[a] = r]
        [] i.op = "LDA" -> Load(m, i.r, a)
        [] i.op = "LDC" -> Load(m, i.r, i.s)
        [] i.op = "JLT" -> JumpTo(m, r < 0, a)
        [] i.op = "JLE" -> JumpTo(m, r <= 0, a)
        [] i.op = "JGT" -> JumpTo(m, r > 0, a)
        [] i.op = "JGE" -> JumpTo(m, r >= 0, a)
        [] i.op = "JEQ" -> JumpTo(m, r = 0, a)
        [] i.op = "JNE" -> JumpTo(m, r # 0, a)
stepTM(m, iMem) ==
  LET at == m.reg[pc]
  IN  IF at < 0 \/ at > IADDR_SIZE THEN Stopped(m, "IMEM_ERR") ELSE Execute(Load(m, pc, at + 1), iMem[at])
RECURSIVE Run(_, _, _)
\* count instructions, or as many as there are until it stops.
Run(m, iMem, count) ==
  IF m.result # "OKAY" \/ count = 0 THEN m ELSE Run(stepTM(m, iMem), iMem, count - 1)

-----------------------------------------------------------------------------
(***************************************************************************)
(* Expressions of up to two operators, two statements under an if or a     *)
(* repeat, and the program of sample.tny.                                  *)
(***************************************************************************)
Id(name) == <<Node("IdK", name, <<>>)>>
Num(n) == <<Node("ConstK", n, <<>>)>>
Op(op, left, right) == <<Node("OpK", op, <<left, right>>)>>
Read(name) == <<Node("ReadK", name, <<>>)>>
Write(e) == <<Node("WriteK", "", <<e>>)>>
Assign(name, e) == <<Node("AssignK", name, <<e>>)>>
If(test, yes, no) == <<Node("IfK", "", <<test, yes, no>>)>>
Repeat(body, test) == <<Node("RepeatK", "", <<body, test>>)>>

x == Id("x")
Atoms == {x, Num(2)}
Terms == Atoms \cup {Op(op, a, b) : op \in {"-", "/", "<"}, a \in Atoms, b \in Atoms}
Exps == {Op(op, a, b) : op \in {"-", "/", "="}, a \in Terms, b \in Terms}
        \cup {Op(op, a, b) : op \in {"+", "*"}, a \in Atoms, b \in Atoms}
Tests == {Op("<", x, Num(2)), Op("=", Num(2), x)}
Simple == {Read("x"), Write(x), Assign("y", Op("-", x, Id("y"))), Assign("x", Op("-", Num(1), x))}
Bodies == Simple \cup {a \o b : a \in Simple, b \in Simple}
Nested == {If(t, a, b) : t \in Tests, a \in Simple, b \in Simple \cup {<<>>}}
          \cup {Repeat(a, t) : t \in Tests, a \in Bodies}
          \cup {Repeat(If(t, a, b), u) : t \in Tests, u \in Tests, a \in Simple, b \in Simple}
          \cup {If(t, a, Repeat(b, u)) : t \in Tests, u \in Tests, a \in Simple, b \in Bodies}
Factorial ==
  Read("x") \o
  If(Op("<", Num(0), x),
     Assign("y", Num(1)) \o
     Repeat(Assign("y", Op("*", Id("y"), x)) \o Assign("x", Op("-", x, Num(1))), Op("=", x, Num(0))) \o
     Write(Id("y")), <<>>)
Programs == {Read("x") \o Write(e) : e \in Exps} \cup {Read("x") \o s \o Write(Id("y")) : s \in Nested} \cup {Factorial}

-----------------------------------------------------------------------------
(***************************************************************************)
(* A program is compiled and run by the commands s and c of the machine; g *)
(* is as many s as it takes.  Who clears it types the same numbers again;  *)
(* no command follows once it has stopped, but c.                          *)
(***************************************************************************)
CONSTANTS COUNTS,      \* the numbers of instructions of s commands
          Typed        \* the numbers that are typed
VARIABLES source, given, iMem, tm
tvars == <<source, given, iMem, tm>>

\* What the source means: a number, or none when something is divided by zero.
RECURSIVE Value(_, _)
Value(vars, e) ==
  CASE e.kind = "ConstK" -> {e.attr}
    [] e.kind = "IdK" -> {vars[e.attr]}
    [] OTHER -> {CASE e.attr = "+" -> p[1] + p[2] [] e.attr = "-" -> p[1] - p[2] [] e.attr = "*" -> p[1] * p[2]
                   [] e.attr = "/" -> Quotient(p[1], p[2]) [] e.attr = "<" -> p[1] < p[2] [] OTHER -> p[1] = p[2] :
                 p \in {q \in Value(vars, e.child[1][1]) \X Value(vars, e.child[2][1]) : e.attr = "/" => q[2] # 0}}
WithValue(s, e, Then(_)) ==
  LET v == Value(s.vars, e) IN IF v = {} THEN [s EXCEPT !.end = "zero"] ELSE Then(CHOOSE n \in v : TRUE)
RECURSIVE Do(_, _), DoAll(_, _)
Until(s, t) ==
  IF s.end # "on" THEN s
  ELSE WithValue(s, t.child[2][1], LAMBDA v : IF v THEN s ELSE IF s.fuel = 0 THEN [s EXCEPT !.end = "long"]
                                              ELSE Do([s EXCEPT !.fuel = @ - 1], t))
Do(s, t) ==
  IF s.end # "on" THEN s
  ELSE CASE t.kind = "IfK" -> WithValue(s, t.child[1][1], LAMBDA v : DoAll(s, IF v THEN t.child[2] ELSE t.child[3]))
         [] t.kind = "RepeatK" -> Until(DoAll(s, t.child[1]), t)
         [] t.kind = "AssignK" -> WithValue(s, t.child[1][1], LAMBDA v : [s EXCEPT !.vars[t.attr] = v])
         [] t.kind = "WriteK" -> WithValue(s, t.child[1][1], LAMBDA v : [s EXCEPT !.out = Append(@, v)])
         [] OTHER -> IF s.in = <<>> THEN [s EXCEPT !.end = "long"]
                     ELSE [s EXCEPT !.vars[t.attr] = Head(s.in), !.in = Tail(@)]
DoAll(s, list) == IF list = <<>> THEN s ELSE DoAll(Do(s, Head(list)), Tail(list))
Names == {"x", "y"}
Meaning(tree, in) == DoAll([vars |-> [n \in Names |-> 0], in |-> in, out |-> <<>>, end |-> "on", fuel |-> 4], tree)

RECURSIVE Number(_)
Number(e) ==
  e.kind # "OpK" \/ (e.attr \in {"+", "-", "*", "/"} /\ Number(e.child[1][1]) /\ Number(e.child[2][1]))
Test(e) == e.kind = "OpK" /\ e.attr \in {"<", "="} /\ Number(e.child[1][1]) /\ Number(e.child[2][1])
RECURSIVE WellTyped(_)
WellTyped(list) ==
  \A i \in DOMAIN list :
    LET t == list[i]
    IN  CASE t.kind = "IfK" -> Test(t.child[1][1]) /\ WellTyped(t.child[2]) /\ WellTyped(t.child[3])
          [] t.kind = "RepeatK" -> WellTyped(t.child[1]) /\ Test(t.child[2][1])
          [] t.kind \in {"AssignK", "WriteK"} -> Number(t.child[1][1])
          [] OTHER -> TRUE

\* Programs that end by themselves.
TInit ==
  /\ source \in Programs /\ given \in Typed
  /\ WellTyped(source) => Meaning(source, given).end # "long"
  /\ iMem = Compiled(source)
  /\ tm = Started(given)
HasCode == iMem # <<>>
Step_s == HasCode /\ tm.result = "OKAY" /\ \E count \in COUNTS : tm' = Run(tm, iMem, count)
Clear == tm.result # "OKAY" /\ tm' = [Cleared(tm) EXCEPT !.in = given, !.out = <<>>, !.result = "OKAY"]
doCommand == (Step_s \/ Clear) /\ UNCHANGED <<source, given, iMem>>
TNext == doCommand
TSpec == TInit /\ [][TNext]_tvars

\* A program is compiled if it is well typed, and then the machine prints what the
\* program writes, as far as it comes, and stops where the program stops.
TinyExact ==
  /\ HasCode = WellTyped(source)
  /\ HasCode => LET m == Meaning(source, given)
                 IN  /\ IsPrefix(tm.out, m.out)
                     /\ tm.result # "OKAY" => /\ tm.result = IF m.end = "zero" THEN "ZERODIVIDE" ELSE "HALT"
                                              /\ tm.out = m.out
=============================================================================
