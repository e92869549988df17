----------------------------- MODULE PageStore -----------------------------
(***************************************************************************)
(* What the B+ tree of the database relies on: pages that keep what was    *)
(* written last, and a stack of free ones.  The state is one record: the    *)
(* root, the contents of pages, the free pages, and how many there are. *)
(***************************************************************************)
EXTENDS Integers, Sequences
CONSTANTS Values, GROW, MAXPAGE
VARIABLE store

Pages == 1 .. MAXPAGE
Used(s, n) == n < s.num /\ \A i \in DOMAIN s.free : s.free[i] # n

\* How the record may change from s to t.
Read(s, t) == t = s
WriteRoot(s, t) == t.root \in Values /\ t = [s EXCEPT !.root = t.root]
WritePage(s, t) ==
  \E n \in DOMAIN t.body :
    /\ Used(s, n) /\ t.body[n] \in Values
    /\ t = [s EXCEPT !.body = [i \in DOMAIN s.body \cup {n} |-> IF i = n THEN t.body[n] ELSE s.body[i]]]
\* A page that has just been allocated has no contents yet.
Alloc(s, t) ==
  IF s.free # <<>> THEN t = [s EXCEPT !.free = Tail(@)]
  ELSE t = [s EXCEPT !.num = @ + GROW, !.free = [i \in 1 .. GROW - 1 |-> s.num + i]]
Free(s, t) ==
  \E n \in Pages :
    /\ Used(s, n)
    /\ t = [s EXCEPT !.free = <<n>> \o @, !.body = [i \in DOMAIN s.body \ {n} |-> s.body[i]]]

Init == store = [root |-> 0, body |-> <<>>, free |-> <<>>, num |-> 1]
Next == \E s \in {store}, t \in {store'} :
          Read(s, t) \/ WriteRoot(s, t) \/ WritePage(s, t) \/ Alloc(s, t) \/ Free(s, t)
Spec == Init /\ [][Next]_store
=============================================================================
