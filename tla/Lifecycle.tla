------------------------------ MODULE Lifecycle ------------------------------
(***************************************************************************)
(* What fork, exit and wait promise to programs, pid by pid.  A process    *)
(* that has exited is reaped once, while its parent lives; when the parent *)
(* exits first, pid 1 is the parent.                                       *)
(***************************************************************************)
EXTENDS Naturals

CONSTANT Pids
Nobody == 0

VARIABLES status, parent
vars == <<status, parent>>

Init ==
  /\ status = [n \in Pids |-> IF n = 1 THEN "alive" ELSE "none"]
  /\ parent = [n \in Pids |-> Nobody]

Fork(p, n) ==
  /\ status[p] = "alive"
  /\ status[n] = "none"
  /\ status' = [status EXCEPT ![n] = "alive"]
  /\ parent' = [parent EXCEPT ![n] = p]

Exit(n) ==
  /\ n # 1
  /\ status[n] = "alive"
  /\ status' = [status EXCEPT ![n] = "exited"]
  /\ parent' = [m \in Pids |-> IF parent[m] = n THEN 1 ELSE parent[m]]

Reap(n) ==
  /\ status[n] = "exited"
  /\ status[parent[n]] = "alive"
  /\ status' = [status EXCEPT ![n] = "reaped"]
  /\ parent' = [parent EXCEPT ![n] = Nobody]

\* A fork that fails uses its pid up.
Abandon(n) ==
  /\ status[n] = "none"
  /\ status' = [status EXCEPT ![n] = "reaped"]
  /\ UNCHANGED parent

Next == \E n \in Pids : \/ Exit(n) \/ Reap(n) \/ Abandon(n)
                        \/ \E p \in Pids : Fork(p, n)
Spec == Init /\ [][Next]_vars
==============================================================================
