-------------------------------- MODULE CMinus --------------------------------
(***************************************************************************)
(* The grammar of C-minus and the syntax trees its actions build           *)
(* (3_Semantic/cminus.y), as the parser that yacc makes of it: declared    *)
(* precedences shift an else.  A child is a list of siblings.  A token is  *)
(* a string; line numbers are left out.                                    *)
(***************************************************************************)
EXTENDS Naturals, Sequences, SequencesExt
CONSTANTS Ids, Nums

Bad == <<"error">>                 \* no rule goes on from here
Ahead(s) == IF s = <<>> THEN "$" ELSE Head(s)
After(s) == IF s \in {<<>>, Bad} THEN Bad ELSE Tail(s)
Eat(token, s) == IF Ahead(s) = token THEN After(s) ELSE Bad
EatOne(tokens, s) == IF Ahead(s) \in tokens THEN After(s) ELSE Bad
Node(kind, name, type, children) == [kind |-> kind, name |-> name, type |-> type, scope |-> 0, child |-> children]
Exp(kind, name, children) == Node(kind, name, "Void", children)
Stmt(kind, children) == Node(kind, "", "", children)
Parsed(list, s) == [t |-> list, s |-> s]

\* The left-associative levels, term and additive_exp, over factor, level 0.
Ops == <<{"*", "/"}, {"+", "-"}>>
RECURSIVE level(_, _), Rest(_, _)
Binary(left, right) == Parsed(<<Exp("OpK", Ahead(left.s), <<left.t, right.t>>)>>, right.s)
Rest(left, n) ==
  IF Ahead(left.s) \notin Ops[n] THEN left ELSE Rest(Binary(left, level(After(left.s), n - 1)), n)
Closed(token, p) == Parsed(p.t, Eat(token, p.s))

RECURSIVE exp(_), arg_list(_, _)
Indexed(name, index) == Parsed(<<Exp("VarAccessK", name, <<index.t>>)>>, Eat("]", index.s))
var(s) ==
  IF Ahead(s) \notin Ids THEN Parsed(<<>>, Bad)
  ELSE IF Ahead(After(s)) # "[" THEN Parsed(<<Exp("VarAccessK", Head(s), <<<<>>>>)>>, After(s))
  ELSE Indexed(Head(s), exp(After(After(s))))
MoreArgs(list, e) ==
  IF Ahead(e.s) = "," THEN arg_list(list \o e.t, After(e.s)) ELSE Parsed(list \o e.t, e.s)
arg_list(list, s) == MoreArgs(list, exp(s))
Called(name, args) == Parsed(<<Exp("CallK", name, <<args.t>>)>>, Eat(")", args.s))
call(s) ==
  LET args == After(After(s))
  IN  Called(Head(s), IF Ahead(args) = ")" THEN Parsed(<<>>, args) ELSE arg_list(<<>>, args))
factor(s) ==
  CASE Ahead(s) = "(" -> Closed(")", exp(After(s)))
    [] Ahead(s) \in Nums -> Parsed(<<Node("ConstK", Head(s), "Integer", <<>>)>>, After(s))
    [] Ahead(s) \in Ids -> IF Ahead(After(s)) = "(" THEN call(s) ELSE var(s)
    [] OTHER -> Parsed(<<>>, Bad)
level(s, n) == IF n = 0 THEN factor(s) ELSE Rest(level(s, n - 1), n)
additive_exp(s) == level(s, 2)
Compared(left) ==
  IF Ahead(left.s) \notin {"==", "!=", "<", "<=", ">", ">="} THEN left
  ELSE Binary(left, additive_exp(After(left.s)))
simple_exp(s) == Compared(additive_exp(s))
Assigned(v, e) == Parsed(<<Exp("AssignK", "", <<v.t, e.t>>)>>, e.s)
ExpAfter(v, s) == IF Ahead(v.s) = "=" THEN Assigned(v, exp(After(v.s))) ELSE simple_exp(s)
exp(s) == ExpAfter(var(s), s)

-----------------------------------------------------------------------------
Types == {"int", "void"}
TypeOf(token) == IF token = "int" THEN "Integer" ELSE "Void"
Arr(token) == IF token = "int" THEN "IntegerArr" ELSE "Void"
\* s is at the type.
var_decl(s) ==
  LET type == Ahead(s)
      name == Ahead(After(s))
      s1 == EatOne(Ids, EatOne(Types, s))
      size == EatOne(Nums, After(s1))
  IN  IF Ahead(s1) = "[" THEN Parsed(<<Node("VarK", name, Arr(type), <<<<Node("ConstK", Ahead(After(s1)), "Integer", <<>>)>>>>)>>,
                                     Eat(";", Eat("]", size)))
      ELSE Parsed(<<Node("VarK", name, TypeOf(type), <<<<>>>>)>>, Eat(";", s1))
param(s) ==
  LET type == Ahead(s)
      name == Ahead(After(s))
      s1 == EatOne(Ids, EatOne(Types, s))
  IN  IF Ahead(s1) = "[" THEN Parsed(<<Node("ParamK", name, Arr(type), <<>>)>>, Eat("]", After(s1)))
      ELSE Parsed(<<Node("ParamK", name, TypeOf(type), <<>>)>>, s1)
RECURSIVE params_list(_, _)
MoreParams(list, p) ==
  IF Ahead(p.s) = "," THEN params_list(list \o p.t, After(p.s)) ELSE Parsed(list \o p.t, p.s)
params_list(list, s) == MoreParams(list, param(s))
params(s) == IF Ahead(s) = "void" /\ Ahead(After(s)) = ")" THEN Parsed(<<Node("ParamVoidK", "", "Void", <<>>)>>, After(s))
             ELSE params_list(<<>>, s)

RECURSIVE stmt(_), stmt_list(_, _), locl_decl(_, _)
MoreDecls(list, d) == locl_decl(list \o d.t, d.s)
locl_decl(list, s) == IF Ahead(s) \in Types THEN MoreDecls(list, var_decl(s)) ELSE Parsed(list, s)
MoreStmts(list, x) == stmt_list(list \o x.t, x.s)
stmt_list(list, s) ==
  IF Ahead(s) \in {"}", "$", "error"} THEN Parsed(list, s) ELSE MoreStmts(list, stmt(s))
BlockOf(decls, stmts) == Parsed(<<Stmt("CompK", <<decls.t, stmts.t>>)>>, Eat("}", stmts.s))
BlockAfter(decls) == BlockOf(decls, stmt_list(<<>>, decls.s))
comp_stmt(s) == BlockAfter(locl_decl(<<>>, Eat("{", s)))
\* if and while: the condition and the first statement.
IfElse(cond, yes, no) == Parsed(<<Stmt("IfElseK", <<cond.t, yes.t, no.t>>)>>, no.s)
Select(token, cond, yes) ==
  IF token = "while" THEN Parsed(<<Stmt("WhileK", <<cond.t, yes.t>>)>>, yes.s)
  ELSE IF Ahead(yes.s) = "else" THEN IfElse(cond, yes, stmt(After(yes.s)))
  ELSE Parsed(<<Stmt("IfK", <<cond.t, yes.t>>)>>, yes.s)
SelectAfter(token, cond) == Select(token, cond, stmt(Eat(")", cond.s)))
selec_stmt(s) == SelectAfter(Head(s), exp(Eat("(", After(s))))
Returned(e) == Parsed(<<Stmt("ReturnK", <<e.t>>)>>, Eat(";", e.s))
return_stmt(s) ==
  IF Ahead(After(s)) = ";" THEN Parsed(<<Stmt("ReturnNonK", <<<<>>>>)>>, After(After(s)))
  ELSE Returned(exp(After(s)))
stmt(s) ==
  CASE Ahead(s) = "{" -> comp_stmt(s)
    [] Ahead(s) \in {"if", "while"} -> selec_stmt(s)
    [] Ahead(s) = "return" -> return_stmt(s)
    [] Ahead(s) = ";" -> Parsed(<<>>, After(s))
    [] OTHER -> Closed(";", exp(s))

FuncOf(s, ps, body) ==
  Parsed(<<Node("FuncK", Ahead(After(s)), TypeOf(Ahead(s)), <<ps.t, body.t>>)>>, body.s)
FuncAfter(s, ps) == FuncOf(s, ps, comp_stmt(Eat(")", ps.s)))
func_decl(s) == FuncAfter(s, params(After(EatOne(Ids, EatOne(Types, s)))))
RECURSIVE decl_list(_, _)
DeclsAfter(list, d) ==
  IF d.s = <<>> THEN Parsed(list \o d.t, <<>>)
  ELSE IF Head(d.s) = "error" THEN Parsed(<<>>, Bad)
  ELSE decl_list(list \o d.t, d.s)
decl_list(list, s) ==
  DeclsAfter(list, IF Len(s) > 2 /\ s[3] = "(" THEN func_decl(s) ELSE var_decl(s))
\* parse: a tree, or none and Error.
parse(s) == decl_list(<<>>, s)

-----------------------------------------------------------------------------
(***************************************************************************)
(* The semantic analyser of the C-minus compiler: buildSymtab makes the    *)
(* symbol tables in one walk of the tree, typeCheck checks in another      *)
(* (3_Semantic/analyze.c, symtab.c).  A table is one function's scope, or  *)
(* one block's; table 1 is global and has the functions, whose paramNum is *)
(* the number of their parameters.  Memory, places of variables and line   *)
(* numbers are left out, and a NULL pointer that is followed is crashed.   *)
(***************************************************************************)
NOPARAMS == -1     \* VARIABLE of globals.h
IsVariable(rec) == rec.paramNum = NOPARAMS

FirstRec(recs, Test(_)) == LET i == SelectInSeq(recs, Test) IN IF i = 0 THEN <<>> ELSE <<recs[i]>>
\* The record of a name as a variable or a function: one, or none.
st_lookup_target_table(st, tab, name, variable) ==
  FirstRec(st.tabs[tab].recs, LAMBDA r : r.name = name /\ IsVariable(r) = variable)
RECURSIVE st_lookup(_, _, _)
st_lookup(st, tab, name) ==
  LET here == st_lookup_target_table(st, tab, name, TRUE)
  IN  IF here # <<>> \/ st.tabs[tab].parent = 0 THEN here ELSE st_lookup(st, st.tabs[tab].parent, name)
\* Only the name tells whether a record is there already.
Put(recs, rec) == IF \E i \in DOMAIN recs : recs[i].name = rec.name THEN recs ELSE Append(recs, rec)
st_insert(st, tab, t, paramNum) ==
  [st EXCEPT !.tabs[IF paramNum = NOPARAMS THEN tab ELSE 1].recs =
     Put(@, [name |-> t.name, type |-> t.type, scope |-> tab, paramNum |-> paramNum])]
st_build(st) == [st EXCEPT !.tabs = Append(@, [parent |-> Head(st.stack), recs |-> <<>>])]
pushSymStack(st, tab) == [st EXCEPT !.stack = <<tab>> \o @]
popSymStack(st) == [st EXCEPT !.stack = Tail(@)]
peekSymStack(st) == Head(st.stack)

Error(st, code) == [st EXCEPT !.errors = @ \cup {code}]
Declare(st, t) ==
  IF st_lookup_target_table(st, peekSymStack(st), t.name, TRUE) = <<>>
  THEN st_insert(st, peekSymStack(st), t, NOPARAMS) ELSE Error(st, "redefined")
\* The block of a function has the table with its parameters.
DeclareFunc(st, t) ==
  LET formals == t.child[1]
      built == st_build([st EXCEPT !.alreadyCreated = TRUE, !.funcName = t.name])
      tab == Len(built.tabs)
  IN  IF st_lookup_target_table(st, peekSymStack(st), t.name, FALSE) # <<>> THEN Error(st, "redefined")
      ELSE pushSymStack(st_insert(built, tab, t, IF formals[1].kind = "ParamVoidK" THEN 0 ELSE Len(formals)), tab)
Use(st, t) ==
  LET rec == IF t.kind = "VarAccessK" THEN st_lookup(st, peekSymStack(st), t.name)
             ELSE st_lookup_target_table(st, 1, t.name, FALSE)
  IN  [t EXCEPT !.scope = peekSymStack(st), !.type = IF rec = <<>> THEN "Undeclared" ELSE @]
\* The state after a node and the node, marked.
insertNode(st, t) ==
  CASE t.kind \in {"VarK", "ParamK"} -> [st |-> Declare(st, t), t |-> t]
    [] t.kind = "FuncK" -> [st |-> DeclareFunc(st, t), t |-> t]
    [] t.kind = "CompK" ->
       [st |-> [(IF st.alreadyCreated THEN st ELSE pushSymStack(st_build(st), Len(st.tabs) + 1))
                EXCEPT !.alreadyCreated = FALSE], t |-> t]
    [] t.kind \in {"ReturnK", "ReturnNonK"} -> [st |-> st, t |-> [t EXCEPT !.name = st.funcName]]
    [] t.kind \in {"VarAccessK", "CallK"} -> [st |-> st, t |-> Use(st, t)]
    [] OTHER -> [st |-> st, t |-> t]
scopeEnd(st, t) ==
  CASE t.kind = "FuncK" -> [st EXCEPT !.funcName = "NULL"]
    [] t.kind = "CompK" -> popSymStack(st)
    [] OTHER -> st
RECURSIVE traverse(_, _)
Joined(a, w) == [st |-> w.st, child |-> Append(a.child, w.list)]
Visited(this) ==
  LET kids == FoldLeft(LAMBDA a, l : Joined(a, traverse(a.st, l)), [st |-> this.st, child |-> <<>>], this.t.child)
  IN  [st |-> scopeEnd(kids.st, this.t), t |-> [this.t EXCEPT !.child = kids.child]]
Siblings(node, others) == [st |-> others.st, list |-> <<node.t>> \o others.list]
VisitRest(node, list) == Siblings(node, traverse(node.st, list))
traverse(st, list) ==
  IF list = <<>> THEN [st |-> st, list |-> <<>>]
  ELSE VisitRest(Visited(insertNode(st, Head(list))), Tail(list))
\* The functions every program may call: table 2 is of input, table 3 of output.
Builtin ==
  [tabs |-> << [parent |-> 0, recs |-> <<[name |-> "input", type |-> "Integer", scope |-> 2, paramNum |-> 0],
                                         [name |-> "output", type |-> "Void", scope |-> 3, paramNum |-> 1]>>],
               [parent |-> 1, recs |-> <<>>],
               [parent |-> 1, recs |-> <<[name |-> "value", type |-> "Integer", scope |-> 3, paramNum |-> NOPARAMS]>>] >>,
   stack |-> <<1>>, alreadyCreated |-> FALSE, funcName |-> "NULL", errors |-> {}, hasReturn |-> FALSE, crashed |-> FALSE]
buildSymtab(list) == traverse(Builtin, list)

-----------------------------------------------------------------------------
\* What a check returns: the state and the type the node gets.
Typed(st, type) == [st |-> st, type |-> type]
Check(ok, st, code, type) == Typed(IF ok THEN st ELSE Error(st, code), type)
\* kids has the types of the children, a list for each.
CheckAccess(st, t, kids) ==
  LET rec == st_lookup(st, t.scope, t.name)[1]
  IN  IF t.type = "Undeclared" THEN Typed(Error(st, "undeclared variable"), t.type)
      ELSE IF kids[1] = <<>> THEN Typed(st, rec.type)
      ELSE Check(rec.type = "IntegerArr" /\ kids[1][1] = "Integer", st, "indexing", "Integer")
\* The formal parameters are the first records of the function's table.
CheckCall(st, t, args) ==
  LET rec == st_lookup_target_table(st, 1, t.name, FALSE)[1]
      formals == st.tabs[rec.scope].recs
  IN  IF t.type = "Undeclared" THEN Typed(Error(st, "undeclared function"), t.type)
      ELSE IF Len(args) # rec.paramNum THEN Typed(Error(st, "call"), rec.type)
      ELSE IF Len(args) > Len(formals) THEN Typed([st EXCEPT !.crashed = TRUE], rec.type)
      ELSE Check(\A i \in DOMAIN args : formals[i].type = args[i], st, "call", rec.type)
\* A return outside any function the table has follows NULL.
CheckReturn(st, t, type) ==
  LET rec == st_lookup_target_table(st, 1, t.name, FALSE)
  IN  IF t.name = "NULL" \/ rec = <<>> THEN Typed([st EXCEPT !.crashed = TRUE], t.type)
      ELSE Check(rec[1].type = type, [st EXCEPT !.hasReturn = TRUE], "return", t.type)
\* Mutant: an operator whose operands do not fit is an integer all the same.
CheckOp_index(st, t, kids) == Check(kids[1][1] = "Integer", st, "operation", "Integer")
CheckOp(st, t, kids) ==
  LET fits == kids[1][1] = "Integer" /\ kids[2][1] = "Integer"
  IN  Check(fits, st, "operation", IF fits THEN "Integer" ELSE t.type)
checkNode(st, t, kids) ==
  CASE t.kind = "VarK" -> Check(t.type # "Void", st, "void variable", t.type)
    [] t.kind = "ParamK" -> Check(t.type # "Void", st, "void variable", t.type)
    [] t.kind = "FuncK" -> Check(t.type = "Integer" => st.hasReturn, st, "return", t.type)
    [] t.kind \in {"IfK", "IfElseK", "WhileK"} -> Check(kids[1][1] = "Integer", st, "condition", t.type)
    [] t.kind = "ReturnK" -> CheckReturn(st, t, kids[1][1])
    [] t.kind = "ReturnNonK" -> CheckReturn(st, t, "Void")
    [] t.kind = "VarAccessK" -> CheckAccess(st, t, kids)
    [] t.kind = "CallK" -> CheckCall(st, t, kids[1])
    [] t.kind = "AssignK" ->
       LET same == kids[1][1] = kids[2][1] IN Check(same, st, "assignment", IF same THEN kids[1][1] ELSE t.type)
    [] t.kind = "OpK" -> CheckOp(st, t, kids)
    [] OTHER -> Typed(st, t.type)
returnCheck(st, t) == IF t.kind = "FuncK" THEN [st EXCEPT !.hasReturn = FALSE] ELSE st
\* The second walk: the state, and the types of the list.
RECURSIVE Checked(_, _)
Gathered(a, w) == [st |-> w.st, types |-> Append(a.types, w.types)]
CheckKids(st, t) ==
  FoldLeft(LAMBDA a, l : Gathered(a, Checked(a.st, l)), [st |-> returnCheck(st, t), types |-> <<>>], t.child)
CheckAfter(t, kids) ==
  IF kids.st.crashed THEN Typed(kids.st, t.type) ELSE checkNode(kids.st, t, kids.types)
TypesOf(this, others) == [st |-> others.st, types |-> <<this.type>> \o others.types]
CheckRest(this, list) == TypesOf(this, Checked(this.st, list))
Checked(st, list) ==
  IF list = <<>> \/ st.crashed THEN [st |-> st, types |-> <<>>]
  ELSE CheckRest(CheckAfter(Head(list), CheckKids(st, Head(list))), Tail(list))
\* What the compiler finds in a program: errors, or a crash.
AfterSymtab(built) == Checked(built.st, built.list).st
typeCheck(list) == AfterSymtab(buildSymtab(list))

-----------------------------------------------------------------------------
(***************************************************************************)
(* Programs for the C-minus compiler: some declarations and a function f   *)
(* whose body grows by a statement, or by something put around its last    *)
(* one.  Unparse writes a tree with no more brackets than it needs;        *)
(* WellTyped is the language's typing, by environments.                    *)
(***************************************************************************)
CONSTANTS MOVES, DEEP       \* bounds: moves, in any program and in a few
VARIABLES decls, func, body, moves
pvars == <<decls, func, body, moves>>

Var(name) == Exp("VarAccessK", name, <<<<>>>>)
At(name, e) == Exp("VarAccessK", name, <<<<e>>>>)
Num(n) == Node("ConstK", n, "Integer", <<>>)
Op(o, a, b) == Exp("OpK", o, <<<<a>>, <<b>>>>)
Set(v, e) == Exp("AssignK", "", <<<<v>>, <<e>>>>)
Call(f, args) == Exp("CallK", f, <<args>>)
DeclVar(name, type) == Node("VarK", name, type, <<IF type = "IntegerArr" THEN <<Num("2")>> ELSE <<>>>>)
Param(name, type) == Node("ParamK", name, type, <<>>)
NoParams == <<Node("ParamVoidK", "", "Void", <<>>)>>
Func(name, type, ps, block) == Node("FuncK", name, type, <<ps, <<block>>>>)
Block(locals, stmts) == Stmt("CompK", <<locals, stmts>>)
Program == Append(decls, [func EXCEPT !.child[2][1].child[2] = body])

G == Func("g", "Integer", <<Param("p", "Integer"), Param("q", "IntegerArr")>>, Block(<<>>, <<Stmt("ReturnK", <<<<Var("p")>>>>)>>))
Headers == { <<DeclVar("a", "IntegerArr"), G>>, <<DeclVar("x", "Integer"), DeclVar("x", "IntegerArr"), G>>, <<G, G>>,
             <<DeclVar("g", "Integer"), G>>, <<DeclVar("f", "Integer")>>, <<Func("g", "Void", <<Param("p", "Integer"), Param("p", "Integer")>>, Block(<<>>, <<>>))>> }
Params == { NoParams, <<Param("x", "Integer")>>, <<Param("x", "IntegerArr"), Param("y", "Void")>> }
Locals == { <<>>, <<DeclVar("x", "Integer")>>, <<DeclVar("y", "IntegerArr"), DeclVar("g", "Integer")>> }
PInit ==
  /\ decls \in Headers /\ body = <<>> /\ moves = 0
  /\ \E type \in {"Integer", "Void"}, ps \in Params, ls \in Locals : func = Func("f", type, ps, Block(ls, <<>>))

Simple == {Num("1"), Var("x"), Var("a"), At("y", Num("1"))}
Calls == { Call("g", <<Num("1"), Var("a")>>), Call("g", <<Var("x"), Var("x")>>), Call("f", <<>>), Call("f", <<Var("x")>>),
           Call("output", <<Num("1")>>), Call("input", <<>>) }
Bodies == Simple \cup Calls \cup {Stmt("ReturnNonK", <<<<>>>>), Block(<<DeclVar("x", "IntegerArr")>>, <<At("x", Num("0"))>>)}
More(e) ==
  {Op(o, e, Num("1")) : o \in {"+", "-", "*", "<"}} \cup {Op(o, Var("x"), e) : o \in {"+", "/", "=="}} \cup
  {Set(Var("x"), e), At("a", e), Call("output", <<e>>), Call("g", <<e, Var("a")>>), Stmt("ReturnK", <<<<e>>>>),
   Stmt("IfK", <<<<e>>, <<>>>>), Stmt("WhileK", <<<<e>>, <<Num("1")>>>>)}
RECURSIVE OpenIf(_)
\* A statement that would take an else.
OpenIf(list) ==
  \E i \in {Len(list)} \ {0} :
    \/ list[i].kind = "IfK"
    \/ list[i].kind \in {"WhileK", "IfElseK"} /\ OpenIf(list[i].child[Len(list[i].child)])
Around(s) ==
  {Stmt("IfK", <<<<Var("x")>>, <<s>>>>), Stmt("WhileK", <<<<Num("1")>>, <<s>>>>), Block(<<>>, <<s>>),
   Stmt("IfElseK", <<<<Num("1")>>, <<>>, <<s>>>>)} \cup
  (IF OpenIf(<<s>>) THEN {} ELSE {Stmt("IfElseK", <<<<Num("1")>>, <<s>>, <<>>>>)})
IsExp(t) == t.kind \in {"OpK", "AssignK", "VarAccessK", "CallK", "ConstK"}
Most ==
  IF decls[1].type = "IntegerArr" /\ func.type = "Integer" /\ Len(func.child[1]) = 2 /\ Len(func.child[2][1].child[1]) = 1
  THEN DEEP ELSE MOVES
AddStatement == \E s \in Bodies : body' = Append(body, s)
Grow ==
  /\ body # <<>>
  /\ \E s \in Around(Last(body)) \cup (IF IsExp(Last(body)) THEN More(Last(body)) ELSE {}) : body' = Append(Front(body), s)
PNext == moves < Most /\ (AddStatement \/ Grow) /\ moves' = moves + 1 /\ UNCHANGED <<decls, func>>
PSpec == PInit /\ [][PNext]_pvars
-----------------------------------------------------------------------------
TypeToken(type) == IF type = "Void" THEN "void" ELSE "int"
Commas(lists) == IF lists = <<>> THEN <<>> ELSE FoldLeft(LAMBDA a, l : a \o <<",">> \o l, Head(lists), Tail(lists))
Rank(e) ==
  CASE e.kind = "AssignK" -> 0
    [] e.kind = "OpK" /\ e.name \in {"+", "-"} -> 2
    [] e.kind = "OpK" /\ e.name \in {"*", "/"} -> 3
    [] e.kind = "OpK" /\ e.name \notin {"+", "-", "*", "/"} -> 1
    [] OTHER -> 4
RECURSIVE Written(_, _), Unparse(_)
WrittenPlain(e) ==
  LET r == Rank(e)
  IN  CASE e.kind = "ConstK" -> <<e.name>>
        [] e.kind = "VarAccessK" -> <<e.name>> \o (IF e.child[1] = <<>> THEN <<>> ELSE <<"[">> \o Written(e.child[1][1], 0) \o <<"]">>)
        [] e.kind = "CallK" -> <<e.name, "(">> \o Commas([i \in DOMAIN e.child[1] |-> Written(e.child[1][i], 0)]) \o <<")">>
        [] e.kind = "AssignK" -> Written(e.child[1][1], 4) \o <<"=">> \o Written(e.child[2][1], 0)
        [] OTHER -> Written(e.child[1][1], IF r = 1 THEN 2 ELSE r) \o <<e.name>> \o Written(e.child[2][1], r + 1)
Written(e, rank) == IF Rank(e) < rank THEN <<"(">> \o WrittenPlain(e) \o <<")">> ELSE WrittenPlain(e)
OneStmt(list) == IF list = <<>> THEN <<";">> ELSE Unparse(list)
UnparseOne(t) ==
  CASE t.kind = "VarK" -> <<TypeToken(t.type), t.name>> \o (IF t.type = "IntegerArr" THEN <<"[", "2", "]">> ELSE <<>>) \o <<";">>
    [] t.kind = "ParamVoidK" -> <<"void">>
    [] t.kind = "ParamK" -> <<TypeToken(t.type), t.name>> \o (IF t.type = "IntegerArr" THEN <<"[", "]">> ELSE <<>>)
    [] t.kind = "FuncK" -> <<TypeToken(t.type), t.name, "(">> \o Commas([i \in DOMAIN t.child[1] |-> Unparse(<<t.child[1][i]>>)])
                           \o <<")">> \o Unparse(t.child[2])
    [] t.kind = "CompK" -> <<"{">> \o Unparse(t.child[1]) \o Unparse(t.child[2]) \o <<"}">>
    [] t.kind \in {"IfK", "WhileK"} -> <<IF t.kind = "IfK" THEN "if" ELSE "while", "(">> \o Written(t.child[1][1], 0) \o <<")">> \o OneStmt(t.child[2])
    [] t.kind = "IfElseK" -> <<"if", "(">> \o Written(t.child[1][1], 0) \o <<")">> \o OneStmt(t.child[2]) \o <<"else">> \o OneStmt(t.child[3])
    [] t.kind = "ReturnNonK" -> <<"return", ";">>
    [] t.kind = "ReturnK" -> <<"return">> \o Written(t.child[1][1], 0) \o <<";">>
    [] OTHER -> Written(t, 0) \o <<";">>
Unparse(list) == FoldLeft(LAMBDA a, t : a \o UnparseOne(t), <<>>, list)
-----------------------------------------------------------------------------
\* The language: env.vars and env.funcs are functions of the names in sight.
Distinct(list) == \A i, j \in DOMAIN list : list[i].name = list[j].name => i = j
Extend(f, g) == [n \in DOMAIN f \cup DOMAIN g |-> IF n \in DOMAIN g THEN g[n] ELSE f[n]]
VarsOf(list) == [n \in {list[i].name : i \in DOMAIN list} |-> LET i == CHOOSE i \in DOMAIN list : list[i].name = n IN list[i].type]
Formals(f) == SelectSeq(f.child[1], LAMBDA p : p.kind = "ParamK")
RECURSIVE TypeIn(_, _), Fits(_, _, _)
TypeIn(env, e) ==
  LET type(i, j) == TypeIn(env, e.child[i][j])
  IN  CASE e.kind = "ConstK" -> "Integer"
        [] e.kind = "VarAccessK" ->
             IF e.name \notin DOMAIN env.vars THEN "wrong"
             ELSE IF e.child[1] = <<>> THEN env.vars[e.name]
             ELSE IF env.vars[e.name] = "IntegerArr" /\ type(1, 1) = "Integer" THEN "Integer" ELSE "wrong"
        [] e.kind = "AssignK" -> IF type(1, 1) = type(2, 1) THEN type(1, 1) ELSE "wrong"
        [] e.kind = "OpK" -> IF type(1, 1) = "Integer" /\ type(2, 1) = "Integer" THEN "Integer" ELSE "wrong"
        [] OTHER -> IF e.name \in DOMAIN env.funcs /\ env.funcs[e.name].params = [j \in DOMAIN e.child[1] |-> type(1, j)]
                    THEN env.funcs[e.name].type ELSE "wrong"
\* A list of statements is well typed in a function of this type.
Fits(env, list, result) ==
  \A i \in DOMAIN list :
    LET t == list[i]
        inner == [env EXCEPT !.vars = Extend(@, VarsOf(t.child[1]))]
    IN  CASE t.kind = "CompK" -> Distinct(t.child[1]) /\ (\A j \in DOMAIN t.child[1] : t.child[1][j].type # "Void")
                                 /\ Fits(inner, t.child[2], result)
          [] t.kind \in {"IfK", "IfElseK", "WhileK"} ->
               TypeIn(env, t.child[1][1]) = "Integer" /\ \A j \in 2 .. Len(t.child) : Fits(env, t.child[j], result)
          [] t.kind = "ReturnNonK" -> result = "Void"
          [] t.kind = "ReturnK" -> TypeIn(env, t.child[1][1]) = result
          [] OTHER -> TypeIn(env, t) # "wrong"
RECURSIVE Returns(_)
Returns(list) ==
  \E i \in DOMAIN list : \/ list[i].kind \in {"ReturnK", "ReturnNonK"}
                         \/ list[i].kind \in {"CompK", "IfK", "IfElseK", "WhileK"} /\ \E j \in 2 .. Len(list[i].child) : Returns(list[i].child[j])
Signature(f) == [type |-> f.type, params |-> [i \in DOMAIN Formals(f) |-> Formals(f)[i].type]]
Known == [n \in {"input", "output"} |-> IF n = "input" THEN [type |-> "Integer", params |-> <<>>] ELSE [type |-> "Void", params |-> <<"Integer">>]]
Functions(p) == SelectSeq(p, LAMBDA d : d.kind = "FuncK")
Variables(p) == SelectSeq(p, LAMBDA d : d.kind = "VarK")
FuncsOf(fs) == [n \in {fs[i].name : i \in DOMAIN fs} |-> LET i == CHOOSE i \in DOMAIN fs : fs[i].name = n IN Signature(fs[i])]
\* A function sees what is declared up to it, and itself.
FuncOK(p, i) ==
  LET above == SubSeq(p, 1, i)
      scope == Formals(p[i]) \o p[i].child[2][1].child[1]
      env == [vars |-> Extend(VarsOf(Variables(above)), VarsOf(scope)), funcs |-> Extend(Known, FuncsOf(Functions(above)))]
  IN  /\ Distinct(scope) /\ \A j \in DOMAIN scope : scope[j].type # "Void"
      /\ Fits(env, p[i].child[2][1].child[2], p[i].type)
      /\ p[i].type = "Integer" => Returns(p[i].child[2][1].child[2])
NamedOnce(p) == Distinct(Variables(p)) /\ Distinct(Functions(p)) /\ \A i \in DOMAIN Functions(p) : Functions(p)[i].name \notin DOMAIN Known
WellTyped(p) == /\ NamedOnce(p) /\ \A i \in DOMAIN p : IF p[i].kind = "FuncK" THEN FuncOK(p, i) ELSE p[i].type # "Void"
\* A variable and a function of one name, which the language allows.
Shared(p) == \E i, j \in DOMAIN p : p[i].kind = "VarK" /\ p[j].kind = "FuncK" /\ p[i].name = p[j].name

\* The tree of a program is the one it was written from: operators bind and associate as
\* the language has it, and an else belongs to the nearest if.
SyntaxExact == parse(Unparse(Program)) = Parsed(Program, <<>>)
\* The analyser finds an error in exactly the programs that are not well typed, and it ends,
\* unless a function shares its name with a variable or another function.
Verdict(found) ==
  /\ ~Shared(Program) => (found.errors # {} \/ found.crashed <=> ~WellTyped(Program))
  /\ found.crashed => Shared(Program) \/ ~NamedOnce(Program) \/ \E i \in DOMAIN Program : Program[i].kind = "FuncK" /\ ~Distinct(Formals(Program[i]))
AnalyzerExact == Verdict(typeCheck(Program))
=============================================================================
