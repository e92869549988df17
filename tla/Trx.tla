-------------------------------- MODULE Trx --------------------------------
(***************************************************************************)
(* Transactions of the database (project5): record locks (lock_manager.cc), *)
(* the transaction table (trx_manager.cc), and db_find and db_update        *)
(* (bpt.cc), with one thread per transaction.  The mutexes are held across  *)
(* steps wherever another one is taken inside; a critical section that      *)
(* takes no other mutex is one step.                                        *)
(***************************************************************************)
EXTENDS Naturals, Sequences, SequencesExt, FiniteSetsExt
CONSTANTS Trx, Keys, Leaves, NONE,
          CALLS      \* how many calls of db_find and db_update each makes
ASSUME TrxAssumption ==   \* no transaction and no lock is the null pointer
  NONE \notin Trx \cup [trx : Trx, mode : {"EXCLUSIVE"}] /\ CALLS \in Nat
VARIABLES
  leaf,              \* the page each record is on
  page,              \* the values on each page, by key
  table,             \* the locks of each record, in the order they were asked for
  wait_lock_of,      \* trx_wait_lock: the record a transaction waits for, or NONE
  history,           \* the updates of each transaction, to be undone
  latch,             \* buffer_page_mutex of each page: its holder or NONE
  trx_table_mutex, lock_table_mutex,
  pc,                \* where each thread is, and in which call
  copy,              \* leaf_page of each thread
  latest             \* for the properties: the value each record should have
vars == <<leaf, page, table, wait_lock_of, history, latch, trx_table_mutex,
          lock_table_mutex, pc, copy, latest>>

S == "SHARED"
X == "EXCLUSIVE"
\* wait is the lock this one waits behind (wait_lock); next_locks is its inverse.
Lock(t, mode, state, wait) == [trx |-> t, mode |-> mode, state |-> state, wait |-> wait]
At(where, t, key, mode) ==
  pc' = [pc EXCEPT ![t].at = where, ![t].key = key, ![t].mode = mode]
Goto(t, where) == pc' = [pc EXCEPT ![t].at = where]
K(t) == pc[t].key
Free(mutex) == mutex = NONE

-----------------------------------------------------------------------------
\* What lock_record finds out in its loop over the list.
Places(list, t, mode) == {i \in DOMAIN list : list[i].trx = t /\ list[i].mode = mode}
OthersX(list, t) == {i \in DOMAIN list : list[i].trx # t /\ list[i].mode = X}
LastX(list, t) == list[Max(OthersX(list, t))]
Has(list, t, mode) == Places(list, t, mode) # {}
Mine(list, t, mode) == Max(Places(list, t, mode))

\* Which part of lock_record a request gets to.
Sole(list) == Len(list) = 1
Request(list, t, mode) ==
  LET s == Has(list, t, S)
      x == Has(list, t, X)
  IN  IF list = <<>> THEN "first"
      ELSE IF mode = S /\ x THEN "covered"
      ELSE IF mode = X /\ s
      THEN IF x THEN "retry upgrade"
           ELSE IF OthersX(list, t) # {} THEN "deadlock"
           ELSE IF Sole(list) THEN "first" ELSE "upgrade"
      ELSE IF s \/ x THEN "retry" ELSE "new"

\* The lock that a new request adds.
NewLock(list, t, mode) ==
  IF list = <<>> THEN Lock(t, mode, "RUN", NONE)
  ELSE IF Has(list, t, S) THEN Lock(t, X, IF Sole(list) THEN "RUN" ELSE "WAIT", NONE)
  ELSE IF mode = X THEN Lock(t, X, "WAIT", NONE)
  ELSE IF OthersX(list, t) = {} THEN Lock(t, S, "RUN", NONE)
  ELSE Lock(t, S, "WAIT", [trx |-> LastX(list, t).trx, mode |-> X])

\* A retry runs when nothing is before it, or no exclusive lock for a reader.
\* Mutant: an upgrade runs behind another reader too.
Granted_anywhere(list, i) == IF list[i].mode = S THEN list[i].wait = NONE ELSE TRUE
Granted(list, i) ==
  IF list[i].mode = S THEN list[i].wait = NONE
  ELSE IF Has(list, list[i].trx, S) THEN Mine(list, list[i].trx, S) = 1 /\ i = 2
  ELSE i = 1
Retried(list, i) == IF Granted(list, i) THEN [list EXCEPT ![i].state = "RUN"] ELSE list

\* detect_deadlock: 1 is never found, for the requester has no other lock there;
\* where the owner of a lock waits on another page the function calls itself with
\* trx_table_mutex held, and never returns.  For an upgrade it looks at the last
\* lock only (the if of line 310 has no body).
Elsewhere(k, l) == wait_lock_of[l.trx] # NONE /\ leaf[wait_lock_of[l.trx]] # leaf[k]
detect_deadlock_hangs(list, k, upgrade) ==
  IF upgrade THEN Elsewhere(k, Last(list)) ELSE \E l \in ToSet(list) : Elsewhere(k, l)

-----------------------------------------------------------------------------
Init ==
  /\ leaf \in [Keys -> Leaves]
  /\ page = [p \in Leaves |-> [k \in {j \in Keys : leaf[j] = p} |-> NONE]]
  /\ table = [k \in Keys |-> <<>>] /\ wait_lock_of = [t \in Trx |-> NONE]
  /\ history = [t \in Trx |-> <<>>] /\ copy = [t \in Trx |-> NONE]
  /\ latch = [p \in Leaves |-> NONE] /\ latest = [k \in Keys |-> NONE]
  /\ trx_table_mutex = NONE /\ lock_table_mutex = NONE
  /\ pc = [t \in Trx |-> [at |-> "idle", key |-> NONE, mode |-> NONE, calls |-> 0, got |-> NONE]]

\* db_find and db_update: the transaction is in the table.
Call(t, k, mode) ==
  /\ pc[t].at = "idle" /\ pc[t].calls < CALLS /\ Free(trx_table_mutex)
  /\ pc' = [pc EXCEPT ![t].at = "loop", ![t].key = k, ![t].mode = mode, ![t].calls = @ + 1]
  /\ UNCHANGED <<leaf, page, table, wait_lock_of, history, latch, trx_table_mutex,
                 lock_table_mutex, copy, latest>>

\* find_leaf, buffer_read_page and the trylock, under buffer_pool_mutex.  The pin of
\* buffer_read_page, which a failed trylock repeats, is db_find of BufferPool: nobody
\* takes it back, so the page stays in its frame, whose mutex is the latch.
\* Mutant: the page is copied whether the latch was got or not.
ReadPage_unlatched(t) ==
  /\ pc[t].at = "loop"
  /\ copy' = [copy EXCEPT ![t] = page[leaf[K(t)]]]
  /\ latch' = [latch EXCEPT ![leaf[K(t)]] = IF Free(@) THEN t ELSE @]
  /\ Goto(t, "want")
  /\ UNCHANGED <<leaf, page, table, wait_lock_of, history, trx_table_mutex,
                 lock_table_mutex, latest>>
ReadPage(t) ==
  /\ pc[t].at = "loop" /\ Free(latch[leaf[K(t)]])
  /\ latch' = [latch EXCEPT ![leaf[K(t)]] = t]
  /\ copy' = [copy EXCEPT ![t] = page[leaf[K(t)]]]
  /\ Goto(t, "want")
  /\ UNCHANGED <<leaf, page, table, wait_lock_of, history, trx_table_mutex,
                 lock_table_mutex, latest>>

\* lock_record, in up to three steps.
TakeTable(t) ==
  /\ pc[t].at = "want" /\ Free(lock_table_mutex)
  /\ lock_table_mutex' = t
  /\ pc' = [pc EXCEPT ![t].at = Request(table[K(t)], t, pc[t].mode)]
  /\ UNCHANGED <<leaf, page, table, wait_lock_of, history, latch, trx_table_mutex, copy, latest>>
Got(t, result) == pc' = [pc EXCEPT ![t].at = "got", ![t].got = result]
\* The requests that are answered from the list as it is.
Answer(t) ==
  LET list == table[K(t)]
      i == Mine(list, t, IF pc[t].at = "covered" THEN X ELSE pc[t].mode)
      new == IF pc[t].at \in {"retry", "retry upgrade"} THEN Retried(list, i) ELSE list
  IN  /\ pc[t].at \in {"covered", "deadlock", "retry", "retry upgrade"}
      /\ lock_table_mutex' = NONE
      /\ table' = [table EXCEPT ![K(t)] = new]
      /\ Got(t, IF pc[t].at = "deadlock" THEN "DEADLOCK" ELSE new[i].state)
      /\ UNCHANGED <<leaf, page, wait_lock_of, history, latch, trx_table_mutex, copy, latest>>
Detect(t) ==
  /\ pc[t].at \in {"upgrade", "new"} /\ Free(trx_table_mutex)
  /\ IF detect_deadlock_hangs(table[K(t)], K(t), pc[t].at = "upgrade")
     THEN Goto(t, "hung") /\ trx_table_mutex' = t
     ELSE Goto(t, "first") /\ UNCHANGED trx_table_mutex
  /\ UNCHANGED <<leaf, page, table, wait_lock_of, history, latch, lock_table_mutex, copy, latest>>
AddLock(t) ==
  LET new == NewLock(table[K(t)], t, pc[t].mode)
  IN  /\ pc[t].at = "first" /\ Free(trx_table_mutex)
      /\ table' = [table EXCEPT ![K(t)] = Append(@, new)]
      /\ wait_lock_of' = [wait_lock_of EXCEPT ![t] = IF new.state = "WAIT" THEN K(t) ELSE NONE]
      /\ lock_table_mutex' = NONE
      /\ Got(t, new.state)
      /\ UNCHANGED <<leaf, page, history, latch, trx_table_mutex, copy, latest>>

\* Back in db_find or db_update, under trx_table_mutex.  pthread_cond_wait gives
\* the mutex up; on DEADLOCK abort_trx asks for it a second time.
Answered(t) ==
  /\ pc[t].at = "got" /\ Free(trx_table_mutex)
  /\ \/ /\ pc[t].got = "RUN"
        /\ Goto(t, "work")
        /\ wait_lock_of' = [wait_lock_of EXCEPT ![t] = NONE]
        /\ UNCHANGED <<latch, trx_table_mutex, copy>>
     \/ /\ pc[t].got = "WAIT"
        /\ Goto(t, "asleep")
        /\ latch' = [latch EXCEPT ![leaf[K(t)]] = NONE]
        /\ copy' = [copy EXCEPT ![t] = NONE]
        /\ UNCHANGED <<wait_lock_of, trx_table_mutex>>
     \/ /\ pc[t].got = "DEADLOCK"
        /\ Goto(t, "hung")
        /\ trx_table_mutex' = t
        /\ UNCHANGED <<wait_lock_of, latch, copy>>
  /\ UNCHANGED <<leaf, page, table, history, lock_table_mutex, latest>>
Woken(t) ==
  /\ pc[t].at = "signalled" /\ Free(trx_table_mutex)
  /\ Goto(t, "loop")
  /\ UNCHANGED <<leaf, page, table, wait_lock_of, history, latch, trx_table_mutex,
                 lock_table_mutex, copy, latest>>

Unlatch(t) == latch' = [latch EXCEPT ![leaf[K(t)]] = NONE] /\ copy' = [copy EXCEPT ![t] = NONE]
Find(t) ==
  /\ pc[t].at = "work" /\ pc[t].mode = S
  /\ Unlatch(t) /\ At("idle", t, NONE, NONE)
  /\ UNCHANGED <<leaf, page, table, wait_lock_of, history, trx_table_mutex, lock_table_mutex, latest>>
\* The whole page is written back, under buffer_pool_mutex.
Update(t) ==
  /\ pc[t].at = "work" /\ pc[t].mode = X
  /\ page' = [page EXCEPT ![leaf[K(t)]] = [copy[t] EXCEPT ![K(t)] = t]]
  /\ latest' = [latest EXCEPT ![K(t)] = t]
  /\ Goto(t, "log")
  /\ UNCHANGED <<leaf, table, wait_lock_of, history, latch, trx_table_mutex, lock_table_mutex, copy>>
\* The old value comes from the copy as it was read.
Log(t) ==
  /\ pc[t].at = "log" /\ Free(trx_table_mutex)
  /\ history' = [history EXCEPT ![t] = Append(@, [key |-> K(t), old_value |-> copy[t][K(t)]])]
  /\ Unlatch(t) /\ At("idle", t, NONE, NONE)
  /\ UNCHANGED <<leaf, page, table, wait_lock_of, trx_table_mutex, lock_table_mutex, latest>>

-----------------------------------------------------------------------------
\* unlock_record: the lock at i leaves the list, and who waited behind it no longer does.
unlock_record(list, i) ==
  LET left == RemoveAt(list, i)
      gone == [trx |-> list[i].trx, mode |-> list[i].mode]
  IN  [j \in DOMAIN left |-> IF left[j].wait = gone THEN [left[j] EXCEPT !.wait = NONE] ELSE left[j]]
\* Then the owners of the locks up to the first exclusive one are signalled.
UpToX(list) ==
  {list[i].trx : i \in {j \in DOMAIN list : \A h \in 1 .. j - 1 : list[h].mode = S}}

\* A transaction has at most two locks of a record, the shared one first: end_trx
\* releases them in this order, and the list is scanned after each of them is gone.
Owned(list, t) == {i \in DOMAIN list : list[i].trx = t}
Released(list, t) ==
  IF Owned(list, t) = {} THEN list ELSE unlock_record(list, Min(Owned(list, t)))
Unlocked(list, t) == Released(Released(list, t), t)
Signalled(list, t) ==
  UNION {UpToX(Released(l, t)) : l \in {m \in {list, Released(list, t)} : Owned(m, t) # {}}}

EndBegin(t) ==
  /\ pc[t].at = "idle" /\ Free(trx_table_mutex)
  /\ trx_table_mutex' = t
  /\ Goto(t, "end")
  /\ UNCHANGED <<leaf, page, table, wait_lock_of, history, latch, lock_table_mutex, copy, latest>>
end_trx(t) ==
  LET signalled == UNION {Signalled(table[k], t) : k \in Keys}
  IN  /\ pc[t].at = "end" /\ Free(lock_table_mutex)
      /\ table' = [k \in Keys |-> Unlocked(table[k], t)]
      /\ pc' = [u \in Trx |->
                  IF u = t THEN [pc[u] EXCEPT !.at = "done"]
                  ELSE IF u \in signalled /\ pc[u].at = "asleep"
                  THEN [pc[u] EXCEPT !.at = "signalled"] ELSE pc[u]]
      /\ UNCHANGED <<leaf, page, wait_lock_of, history, latch, trx_table_mutex,
                     lock_table_mutex, copy, latest>>
\* With lock_table_mutex free, its history and its place in trx_table go.
Erase(t) ==
  /\ pc[t].at = "done" /\ trx_table_mutex = t
  /\ history' = [history EXCEPT ![t] = <<>>]
  /\ trx_table_mutex' = NONE
  /\ UNCHANGED <<leaf, page, table, wait_lock_of, latch, lock_table_mutex, pc, copy, latest>>

\* abort_trx called by the program.  It counts j down, not i: the last update is
\* undone again and again, with trx_table_mutex held.
AbortBegin(t) ==
  /\ pc[t].at = "idle" /\ Free(trx_table_mutex)
  /\ IF history[t] = <<>> THEN Goto(t, "aborted") /\ UNCHANGED trx_table_mutex
     ELSE Goto(t, "undo") /\ trx_table_mutex' = t
  /\ UNCHANGED <<leaf, page, table, wait_lock_of, history, latch, lock_table_mutex, copy, latest>>
Undo(t) ==
  LET u == Last(history[t])
  IN  /\ pc[t].at = "undo" /\ Free(latch[leaf[u.key]])
      /\ page' = [page EXCEPT ![leaf[u.key]][u.key] = u.old_value]
      /\ latest' = [latest EXCEPT ![u.key] = u.old_value]
      /\ UNCHANGED <<leaf, table, wait_lock_of, history, latch, trx_table_mutex,
                     lock_table_mutex, pc, copy>>
AbortEnd(t) ==
  /\ pc[t].at = "aborted" /\ Free(trx_table_mutex)
  /\ trx_table_mutex' = t
  /\ Goto(t, "end")
  /\ UNCHANGED <<leaf, page, table, wait_lock_of, history, latch, lock_table_mutex, copy, latest>>

Step(t) ==
  \/ \E k \in Keys : Call(t, k, S) \/ Call(t, k, X)
  \/ ReadPage(t) \/ TakeTable(t) \/ Answer(t) \/ Detect(t) \/ AddLock(t)
  \/ Answered(t) \/ Woken(t) \/ Find(t) \/ Update(t) \/ Log(t)
  \/ EndBegin(t) \/ end_trx(t) \/ Erase(t) \/ AbortBegin(t) \/ Undo(t) \/ AbortEnd(t)
Next == \E t \in Trx : Step(t)
Spec == Init /\ [][Next]_vars

-----------------------------------------------------------------------------
Writers == Trx \cup {NONE}
Finished(v) == v = NONE \/ pc[v].at = "done"
Conflict(l, m) == l.trx # m.trx /\ X \in {l.mode, m.mode}

\* Type correctness; a mutex that is free is not in the middle of its section.
TrxTypeOK ==
  /\ \A p \in Leaves : page[p] \in [{k \in Keys : leaf[k] = p} -> Writers]
  /\ \A k \in Keys : \A l \in ToSet(table[k]) :
       l.trx \in Trx /\ l.mode \in {S, X} /\ l.state \in {"RUN", "WAIT"}
  /\ lock_table_mutex \in Trx \cup {NONE} /\ trx_table_mutex \in Trx \cup {NONE}
  /\ \A t \in Trx :
       pc[t].at \in {"covered", "deadlock", "retry", "retry upgrade", "upgrade", "new", "first"}
         => lock_table_mutex = t

\* Two transactions never hold locks of one record unless both read: whatever
\* way the locks were got (at once, by waiting, as an upgrade, by a retry).
ConflictFree ==
  \A k \in Keys : \A i, j \in DOMAIN table[k] :
    Conflict(table[k][i], table[k][j]) => "WAIT" \in {table[k][i].state, table[k][j].state}

\* Locks of a record are granted in the order of the list: no lock is held by a
\* request that came after one that still waits and that conflicts with it.
NoOvertaking ==
  \A k \in Keys : \A i, j \in DOMAIN table[k] :
    i < j /\ Conflict(table[k][i], table[k][j]) /\ table[k][i].state = "WAIT"
      => table[k][j].state = "WAIT"

\* A reader that waits points to an exclusive lock that is in the list before it:
\* end_trx frees no lock that another one still refers to.
WaitsForALock ==
  \A k \in Keys : \A j \in DOMAIN table[k] :
    table[k][j].wait # NONE
      => \E i \in 1 .. j - 1 : table[k][i].trx = table[k][j].wait.trx /\ table[k][i].mode = X

\* No update is lost: db_update writes a whole page from a copy it made before it
\* had the lock of the record, and yet every record has its latest value.
NoLostUpdate == \A k \in Keys : page[leaf[k]][k] = latest[k]

\* Who works on a record sees its latest value, and that value is its own or one
\* of a transaction that has ended (strict two-phase locking).
CleanRead ==
  \A t \in Trx : pc[t].at = "work" =>
    copy[t][K(t)] = latest[K(t)] /\ (copy[t][K(t)] = t \/ Finished(copy[t][K(t)]))

\* What abort_trx would restore last for a record is what was there before the
\* transaction: the value of another one that has ended.
UndoExact ==
  \A t \in Trx : ~Finished(t) => \A k \in Keys :
    LET mine == {i \in DOMAIN history[t] : history[t][i].key = k}
        logging == pc[t].at = "log" /\ K(t) = k
    IN  /\ latest[k] = t => mine # {} \/ logging
        /\ mine # {} => LET v == history[t][Min(mine)].old_value IN v # t /\ Finished(v)

\* What the run checks of the locks and of the records: locks are held by those that
\* may hold them together, nobody overtakes a waiter, and who waits does so for a lock
\* that is there (lock_manager.cc);
LocksGranted == TrxTypeOK /\ ConflictFree /\ NoOvertaking /\ WaitsForALock
\* and no update is lost, no uncommitted one is read, and undoing brings back exactly
\* what was there, although pages are written back whole from copies (bpt.cc).
RecordsKept == NoLostUpdate /\ CleanRead /\ UndoExact
=============================================================================
