----------------------------- MODULE LineTracer -----------------------------
(***************************************************************************)
(* The line tracer's two runs (HYU-Embedded-System-Design/main.c): the     *)
(* first explores a course by the left-hand rule and lists what it does at *)
(* each branch, run_lsrb takes the dead ends out of the list, the second   *)
(* drives by the result.  The course is a tree of lines that unfolds as it *)
(* is driven.  A place is the list of exits that lead to it; an exit is a  *)
(* side of the place, clockwise from the one the line from the start comes *)
(* in by: back 0, left 1, straight 2, right 3.  The sensors see the lines  *)
(* of the place, and branches lie more than five readings apart.  Keeping  *)
(* to the line, motors, lights and delays are left out.                    *)
(***************************************************************************)
EXTENDS Integers, Sequences, SequencesExt, FiniteSets
CONSTANTS SIZE,          \* entries of branch_list and of optimal_route
          DEPTH, PLACES  \* bounds of the course
VARIABLES course,        \* the exits of the places seen so far; none at a dead end
          goal,          \* the place with the end mark, once it was seen
          at, from,      \* the car is at this place and came in by this side
          mode, phase,   \* phase 3: both runs are over
          branch_list, optimal_route, now
world == <<course, goal>>
lvars == <<course, goal, at, from, mode, phase, branch_list, optimal_route, now>>

Side == [back |-> 0, left |-> 1, straight |-> 2, right |-> 3]
AtStart == at = <<>> /\ from = Side.back
Init ==
  /\ course = [p \in {} |-> {}] /\ goal = {} /\ AtStart
  /\ mode = "start" /\ phase = 1 /\ branch_list = <<>> /\ optimal_route = <<>> /\ now = 1

\* Somewhere on the course is an end mark.
Unseen == {<<p, e>> \in (DOMAIN course) \X (1 .. 3) : e \in course[p] /\ Append(p, e) \notin DOMAIN course}
Unfold ==
  /\ at \notin (DOMAIN course) \cup {<<Side.back>>}
  /\ \E exits \in SUBSET (1 .. 3) :
       /\ Len(at) >= DEPTH \/ Cardinality(DOMAIN course) + Cardinality(Unseen) >= PLACES => exits = {}
       /\ course' = [p \in (DOMAIN course) \cup {at} |-> IF p = at THEN exits ELSE course[p]]
       /\ goal' \in IF exits # {} \/ goal # {} THEN {goal} ELSE IF Cardinality(Unseen) > 1 THEN {{}, {at}} ELSE {{at}}
  /\ UNCHANGED <<at, from, mode, phase, branch_list, optimal_route, now>>
\* What read_sensor shows: the start mark, where the car comes back to, is as the end mark.
EndMark == at \in goal \cup {<<Side.back>>}
Reads == ~EndMark /\ at \in DOMAIN course
Line(dir) == (from + Side[dir]) % 4 \in course[at] \cup {Side.back}
\* Along a line: to a place beyond, or back to the one before.
Drive(dir) ==
  LET side == (from + Side[dir]) % 4
  IN  IF side # Side.back THEN at' = Append(at, side) /\ from' = Side.back
      ELSE IF at = <<>> THEN at' = <<Side.back>> /\ from' = Side.back
      ELSE at' = Front(at) /\ from' = Last(at)

-----------------------------------------------------------------------------
\* The stack of directions, the last one first.
push_optimal(route, dir) == IF Len(route) = SIZE THEN route ELSE <<dir>> \o route
pop_optimal(route) == IF route = <<>> THEN route ELSE Tail(route)
peek_optimal(route) == IF route = <<>> THEN "none" ELSE Head(route)
\* A turn, a dead end and another turn at one branch make one turn, or a dead end.
Instead ==
  [left |-> [left |-> "straight", straight |-> "right", right |-> "back", back |-> "none"],
   straight |-> [left |-> "right", straight |-> "back", right |-> "none", back |-> "none"],
   right |-> [left |-> "back", straight |-> "none", right |-> "none", back |-> "none"]]
\* Mutant: after two turns that make a dead end the way back is forgotten.
Reduce_once(r, dir) ==
  LET is_back == r.is_back \/ dir = "back"
      turn == IF r.route = <<>> THEN "none" ELSE Instead[peek_optimal(r.route)][dir]
  IN  IF ~is_back THEN [r EXCEPT !.route = push_optimal(@, dir)]
      ELSE IF turn = "none" THEN [r EXCEPT !.is_back = TRUE]
      ELSE IF turn = "back" THEN [is_back |-> FALSE, route |-> pop_optimal(r.route)]
      ELSE [is_back |-> FALSE, route |-> push_optimal(pop_optimal(r.route), turn)]
Reduce(r, dir) ==
  LET is_back == r.is_back \/ dir = "back"
      turn == IF r.route = <<>> THEN "none" ELSE Instead[peek_optimal(r.route)][dir]
  IN  IF ~is_back THEN [r EXCEPT !.route = push_optimal(@, dir)]
      ELSE IF turn = "none" THEN [r EXCEPT !.is_back = TRUE]
      ELSE IF turn = "back" THEN [is_back |-> TRUE, route |-> pop_optimal(r.route)]
      ELSE [is_back |-> FALSE, route |-> push_optimal(pop_optimal(r.route), turn)]
run_lsrb(list) == Reverse(FoldLeft(Reduce, [is_back |-> FALSE, route |-> <<>>], list).route)

-----------------------------------------------------------------------------
Start == mode = "start" /\ AtStart /\ now = 1 /\ mode' = "straight" /\ UNCHANGED <<world, at, from, phase, branch_list, optimal_route, now>>
\* Lines to the left or right: left before straight before right, by the route in phase 2.
Turn == IF Line("left") THEN "left" ELSE IF Line("straight") THEN "straight" ELSE "right"
IsBranch == Cardinality({dir \in {"left", "straight", "right"} : Line(dir)}) > 1
\* What branch_list becomes in the first run.  The code does not see when it is full and
\* writes on into what lies behind it: from there on nothing is said.
Listed(dir) == Len(branch_list) < SIZE /\ branch_list' = Append(branch_list, dir)
\* Past the end of optimal_route there are zeros, which is start.
Routed == IF now > Len(optimal_route) THEN "start" ELSE optimal_route[now]
AtLines ==
  /\ mode = "straight" /\ Reads /\ (Line("left") \/ Line("right"))
  /\ mode' = IF IsBranch /\ phase = 2 THEN Routed ELSE Turn
  /\ IF IsBranch /\ phase = 1 THEN Listed(mode') ELSE UNCHANGED branch_list
  /\ now' = IF IsBranch /\ phase = 2 THEN now + 1 ELSE now
  /\ IF mode' = "straight" THEN Drive("straight") ELSE UNCHANGED <<at, from>>
  /\ UNCHANGED <<world, phase, optimal_route>>
StraightOn ==
  /\ mode = "straight" /\ Reads /\ ~Line("left") /\ ~Line("right") /\ Line("straight")
  /\ Drive("straight") /\ UNCHANGED <<world, mode, phase, branch_list, optimal_route, now>>
AtDeadEnd ==
  /\ mode = "straight" /\ Reads /\ course[at] = {} /\ phase = 1
  /\ mode' = "back" /\ Listed("back")
  /\ UNCHANGED <<world, at, from, phase, optimal_route, now>>
\* Turning until the next line is under the car.
Turned ==
  /\ mode \in {"left", "right", "back"} /\ Drive(mode) /\ mode' = "straight"
  /\ UNCHANGED <<world, phase, branch_list, optimal_route, now>>
AtEnd == mode = "straight" /\ EndMark /\ mode' = "end" /\ UNCHANGED <<world, at, from, phase, branch_list, optimal_route, now>>
\* The car is carried to the start and the switch pressed, once.
NextPhase ==
  /\ mode = "end" /\ phase < 3 /\ phase' = phase + 1
  /\ IF phase = 1 THEN /\ optimal_route' = run_lsrb(branch_list)
                       /\ mode' = "start" /\ at' = <<>> /\ from' = Side.back
     ELSE UNCHANGED <<mode, at, from, optimal_route>>
  /\ UNCHANGED <<world, branch_list, now>>
Next == Unfold \/ Start \/ AtLines \/ StraightOn \/ AtDeadEnd \/ Turned \/ AtEnd \/ NextPhase
Spec == Init /\ [][Next]_lvars

\* The places on the way from the start to the end mark.
TheGoal == CHOOSE g \in goal : TRUE
OnTheWay == {SubSeq(TheGoal, 1, n) : n \in 0 .. Len(TheGoal)}
\* The route is the exits to the end mark at the branches on the way, no more: run_lsrb takes
\* all dead ends out, whatever the tour of the first run.
Branches == SelectSeq([n \in 1 .. Len(TheGoal) |-> n], LAMBDA n : Cardinality(course[SubSeq(TheGoal, 1, n - 1)]) > 1)
RouteShortest == phase > 1 => [n \in DOMAIN optimal_route |-> Side[optimal_route[n]]] = [n \in DOMAIN Branches |-> TheGoal[Branches[n]]]
\* The second run stays on the way to the end mark and ends there; the first ends there as well.
OnRoute == /\ phase = 2 => at \in OnTheWay /\ (mode = "start" => AtStart)
           /\ mode = "end" \/ phase = 3 => at \in goal
=============================================================================
