------------------------------ MODULE AtomicDisk ------------------------------
(***************************************************************************)
(* What the log promises to the file system: the blocks as its operations  *)
(* see them, and a stable copy that is taken only between operations.  A   *)
(* crash goes back to the stable copy, so no operation survives by half.   *)
(***************************************************************************)
CONSTANTS Ops, Blocks, Values

VARIABLES stable,    \* what a crash leaves
          current,   \* what a read returns
          active     \* the operations under way
vars == <<stable, current, active>>

Init ==
  /\ stable \in [Blocks -> Values]
  /\ current = stable
  /\ active = {}

Begin(p) == /\ active' = active \cup {p}
            /\ UNCHANGED <<stable, current>>
End(p) == /\ active' = active \ {p}
          /\ UNCHANGED <<stable, current>>
Write(p, b, v) == /\ p \in active
                  /\ current' = [current EXCEPT ![b] = v]
                  /\ UNCHANGED <<stable, active>>
Commit == /\ active = {}
          /\ stable' = current
          /\ UNCHANGED <<current, active>>
Crash == /\ current' = stable
         /\ active' = {}
         /\ UNCHANGED stable

Next ==
  \/ \E p \in Ops : \/ Begin(p) \/ End(p)
                    \/ \E b \in Blocks, v \in Values : Write(p, b, v)
  \/ Commit \/ Crash
Spec == Init /\ [][Next]_vars
==============================================================================
