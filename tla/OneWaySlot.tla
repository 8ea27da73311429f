----------------------------- MODULE OneWaySlot -----------------------------
(* What set_once promises of each of its objects: a slot goes from unset   *)
(* to set at most once in its life, and nothing but a move out of the      *)
(* object changes what is in a slot that is set.                           *)
CONSTANTS Objects, Values, Absent, Unset, MovedFrom

VARIABLE slot

Set == Values \cup {MovedFrom}

Put(o, c) == slot' = [slot EXCEPT ![o] = c]

BeginLife(o) == slot[o] = Absent /\ Put(o, Unset)
EndLife(o)   == slot[o] # Absent /\ Put(o, Absent)
SetSlot(o)   == slot[o] = Unset /\ \E c \in Set : Put(o, c)
Copy(o, p)   == slot[o] = Absent /\ slot[p] # Absent /\ Put(o, slot[p])
\* A failed move may have emptied its source and made no object.
Move(o, p) ==
  /\ slot[o] = Absent /\ slot[p] \in Set
  /\ \E c \in {slot[p], Absent} : slot' = [slot EXCEPT ![o] = c, ![p] = MovedFrom]

Init == slot = [o \in Objects |-> Absent]
Next ==
  \/ \E o \in Objects : BeginLife(o) \/ EndLife(o) \/ SetSlot(o)
  \/ \E o, p \in Objects : Copy(o, p) \/ Move(o, p)
Spec == Init /\ [][Next]_slot
=============================================================================
