--------------------------- MODULE SharedExclusive ---------------------------
(***************************************************************************)
(* What a reader/writer lock promises: readers share, a writer is alone.   *)
(***************************************************************************)
CONSTANT Threads
VARIABLES readers, writers
vars == <<readers, writers>>

Init == readers = {} /\ writers = {}

StartRead(p) == /\ writers = {}
                /\ readers' = readers \cup {p}
                /\ UNCHANGED writers
EndRead(p) == /\ p \in readers
              /\ readers' = readers \ {p}
              /\ UNCHANGED writers
StartWrite(p) == /\ readers = {} /\ writers = {}
                 /\ writers' = {p}
                 /\ UNCHANGED readers
EndWrite(p) == /\ p \in writers
               /\ writers' = writers \ {p}
               /\ UNCHANGED readers

Next == \E p \in Threads : \/ StartRead(p) \/ EndRead(p)
                           \/ StartWrite(p) \/ EndWrite(p)
Spec == Init /\ [][Next]_vars
==============================================================================
