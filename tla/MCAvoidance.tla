------------------------------ MODULE MCAvoidance ------------------------------
(* One waypoint on a ring of five bearings of which the LiDAR sees three.   *)
EXTENDS Avoidance

O(at, dist) == [at |-> at, dist |-> dist, pad |-> 0]
Walker(at, dist) == [at |-> at, dist |-> dist, pad |-> 1]
MCSafety == [d \in 1..VfhRange |-> 0]
MCScenes == {{},                          \* nothing
             {O(0, 4)},                   \* far ahead, to be steered round
             {Walker(0, 2), O(0, 3)},     \* closing in
             {O(b, 2) : b \in Window}}    \* a wall: no way round, a dead end up close
===============================================================================
