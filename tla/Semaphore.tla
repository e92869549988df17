------------------------------ MODULE Semaphore ------------------------------
(***************************************************************************)
(* What a binary semaphore promises: one permit, handed on in the order    *)
(* in which the waiters came.  A request by one of Unheard may be missed:   *)
(* then that thread waits for ever, and the permit it was to have is gone. *)
(***************************************************************************)
EXTENDS Naturals, Sequences

CONSTANTS Threads,
          Unheard    \* those whose request may not be heard

VARIABLES permits,   \* 1 or 0
          waiters,   \* the blocked threads, first come first
          inside,    \* the threads that have been let through
          lost       \* the threads whose request was not heard: they wait for ever
vars == <<permits, waiters, inside, lost>>

Init == permits = 1 /\ waiters = <<>> /\ inside = {} /\ lost = {}

Queued(p) == \E i \in DOMAIN waiters : waiters[i] = p

Pass(p) ==
  /\ permits > 0
  /\ permits' = permits - 1
  /\ inside' = inside \cup {p}
  /\ UNCHANGED <<waiters, lost>>

Block(p) ==
  /\ permits = 0
  /\ waiters' = Append(waiters, p)
  /\ UNCHANGED <<permits, inside, lost>>

\* A request that is counted and not heard.
Lose(p) ==
  /\ permits = 0
  /\ p \in Unheard
  /\ lost' = lost \cup {p}
  /\ UNCHANGED <<permits, waiters, inside>>

Wait(p) ==
  /\ p \notin inside \cup lost
  /\ ~Queued(p)
  /\ Pass(p) \/ Block(p) \/ Lose(p)

\* The permit goes to the first waiter.  If there is none it is free again, unless a
\* request that was not heard has used it up.
Signal(p) ==
  /\ p \in inside
  /\ \/ /\ waiters = <<>>
        /\ permits' = IF lost = {} THEN permits + 1 ELSE permits
        /\ inside' = inside \ {p}
        /\ UNCHANGED waiters
     \/ /\ waiters # <<>>
        /\ waiters' = Tail(waiters)
        /\ inside' = (inside \ {p}) \cup {Head(waiters)}
        /\ UNCHANGED permits
  /\ UNCHANGED lost

Next == \E p \in Threads : Wait(p) \/ Signal(p)
Spec == Init /\ [][Next]_vars
==============================================================================
