------------------------------ MODULE MCDatabase ------------------------------
(***************************************************************************)
(* The database under its tables, in two parts: the buffer pool over the   *)
(* data file, and the transactions with their record locks.                *)
(***************************************************************************)
EXTENDS BufferPool, Trx, TLC
VARIABLE part

\* The two pages of the records are alike: that of record 1 is page 1.
DInit == /\ part \in {"pool", "trx"}
         /\ PoolInit /\ Init
         /\ leaf[1] = 1
         /\ part = "pool" => leaf = [k \in Keys |-> 1]
PoolStep == part = "pool" /\ PoolNext /\ UNCHANGED <<part, vars>>
TrxStep == part = "trx" /\ Next /\ UNCHANGED <<part, pvars>>
DNext == PoolStep \/ TrxStep
DSpec == DInit /\ [][DNext]_<<part, pvars, vars>>

Shape == IF part = "pool" THEN <<part, View>> ELSE <<part, vars>>
Sym == Permutations(Trx)
-----------------------------------------------------------------------------
\* The pages that callers see are those of PageStore, and a pinned one stays; frames
\* hold different pages, the list runs through all of them and back, and the free list
\* in the buffer is the one in the file, whatever is evicted.  (The properties of the
\* transactions are those of Trx.)
PagesKept ==
  /\ part = "pool" => Store!Init
  /\ [][part = "pool" => PinnedStep /\ Store!Next]_pvars
  /\ [](part = "pool" => PoolTypeOK /\ ListWhole /\ FreeListsAgree)
===============================================================================
