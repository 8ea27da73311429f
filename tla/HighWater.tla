----------------------------- MODULE HighWater -----------------------------
(* observe_high_water: current = max(current, candidate).  Every candidate *)
(* is consumed, so the order and the number of times they come is nothing  *)
(* to it: the level is the greatest one so far.                            *)
EXTENDS Integers

CONSTANTS Objects, Level, None

VARIABLE level

max(m, n) == IF m < n THEN n ELSE m

Begin(o, l)   == level[o] = None /\ level' = [level EXCEPT ![o] = l]
Observe(o, l) == level[o] # None /\ level' = [level EXCEPT ![o] = max(@, l)]

Init == level = [o \in Objects |-> None]
Next == \E o \in Objects, l \in Level : Begin(o, l) \/ Observe(o, l)
Spec == Init /\ [][Next]_level
=============================================================================
