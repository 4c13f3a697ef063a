-------------------------- MODULE MCPriorityQueue --------------------------
(* TLC instance: 6 slots is the smallest heap in which removing from the   *)
(* middle moves the replacement up (it comes from the other subtree).      *)
EXTENDS PriorityQueue, TLC

CONSTANTS x1, x2, x3, y1, y2, y3

MCItem == {x1, x2, x3, y1, y2, y3}
MCPrio == [x \in MCItem |-> IF x \in {x1, x2, x3} THEN 1 ELSE 2]
Symmetry == Permutations({x1, x2, x3}) \cup Permutations({y1, y2, y3})
=============================================================================
