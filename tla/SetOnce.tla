------------------------------- MODULE SetOnce -------------------------------
(***************************************************************************)
(* set_once<T>: objects with one-way slots, used by a client whose T has   *)
(* constructors that may throw, and that may call set_once themselves      *)
(* while they run.  A call that finds its slot unset pushes a frame for    *)
(* the construction of T in the slot's storage; the frame is popped when   *)
(* the constructor returns or throws.                                      *)
(*                                                                         *)
(* std::optional<stored_value> is external: emplace() on a disengaged      *)
(* optional runs the constructor in the storage, engages the optional when *)
(* it returns, and touches the flag no further when it throws.             *)
(*                                                                         *)
(* A definition Mutant_x is x with a fault, and is used by no other one.   *)
(***************************************************************************)
EXTENDS Naturals, Sequences, SequencesExt

CONSTANTS
  Objects,    \* the client's set_once objects
  Values,     \* values of T
  Absent, Unset, MovedFrom,
  MaxDepth,   \* bound: constructions in progress at a time
  Reentrant   \* may a constructor of T call the object it is being built in?

ASSUME ConstantsAssumption ==
  /\ {Absent, Unset, MovedFrom} \cap Values = {}
  /\ Absent # Unset /\ Absent # MovedFrom /\ Unset # MovedFrom
  /\ MaxDepth \in Nat
  /\ Reentrant \in BOOLEAN

VARIABLES
  slot,      \* each object: absent, unset, or what its optional contains
  arg,       \* the client's T variables, one per value: "intact" or "moved"
  frames,    \* the constructions in progress, innermost last
  installs   \* history: constructions of T that an object's life has seen

vars == <<slot, arg, frames, installs>>

Set == Values \cup {MovedFrom}
has_value(o) == slot[o] \in Set
Alive(o) == slot[o] # Absent

Forward == {"lvalue", "rvalue"}
Frame == [target : Objects, forward : Forward, value : Values]
Constructing(o) == \E i \in DOMAIN frames : frames[i].target = o
Bound(v) == \E i \in DOMAIN frames : frames[i].value = v

-----------------------------------------------------------------------------
(* The client: lives of objects and of its own variables.                  *)

Construct(o) ==
  /\ ~Alive(o)
  /\ slot' = [slot EXCEPT ![o] = Unset]
  /\ installs' = [installs EXCEPT ![o] = 0]
  /\ UNCHANGED <<arg, frames>>

Destroy(o) ==
  /\ Alive(o)
  /\ ~Constructing(o)
  /\ slot' = [slot EXCEPT ![o] = Absent]
  /\ installs' = [installs EXCEPT ![o] = 0]
  /\ UNCHANGED <<arg, frames>>

Renew(v) ==
  /\ ~Bound(v)
  /\ arg' = [arg EXCEPT ![v] = "intact"]
  /\ UNCHANGED <<slot, frames, installs>>

-----------------------------------------------------------------------------
(* try_emplace(args...), and try_set(value), which is a call of it.        *)

Callable(o, v) ==
  /\ Alive(o)
  /\ arg[v] = "intact" /\ ~Bound(v)
  /\ Len(frames) < MaxDepth
  /\ Reentrant \/ ~Constructing(o)

Enter(o, forward, v) ==
  frames' = Append(frames, [target |-> o, forward |-> forward, value |-> v])

\* Does not look whether the slot is set.
Mutant_try_emplace(o, forward, v) ==
  Callable(o, v) /\ Enter(o, forward, v) /\ UNCHANGED <<slot, arg, installs>>

try_emplace(o, forward, v) ==
  /\ Callable(o, v)
  /\ \/ has_value(o) /\ UNCHANGED frames            \* returns false
     \/ ~has_value(o) /\ Enter(o, forward, v)       \* emplace()
  /\ UNCHANGED <<slot, arg, installs>>

try_set_copy(o, v) == try_emplace(o, "lvalue", v)

\* Takes its parameter by value.
Mutant_try_set_move(o, v) ==
  /\ Callable(o, v)
  /\ arg' = [arg EXCEPT ![v] = "moved"]
  /\ \/ has_value(o) /\ UNCHANGED frames
     \/ ~has_value(o) /\ Enter(o, "lvalue", v)
  /\ UNCHANGED <<slot, installs>>

try_set_move(o, v) == try_emplace(o, "rvalue", v)

Moved(f) == IF f.forward = "rvalue" THEN [arg EXCEPT ![f.value] = "moved"] ELSE arg

\* The innermost constructor returns; emplace() engages the optional, and the
\* call returns true.  Had a nested call engaged it already, two constructors
\* have written one storage, and either may have had the last word.
ConstructorReturns ==
  /\ frames # << >>
  /\ LET f == Last(frames)
         contents == IF has_value(f.target) THEN {slot[f.target], f.value} ELSE {f.value}
     IN  /\ \E c \in contents : slot' = [slot EXCEPT ![f.target] = c]
         /\ installs' = [installs EXCEPT ![f.target] = @ + 1]
         /\ arg' = Moved(f)
  /\ frames' = Front(frames)

\* Has engaged the optional before the construction.
Mutant_ConstructorThrows ==
  /\ frames # << >>
  /\ slot' = [slot EXCEPT ![Last(frames).target] = Last(frames).value]
  /\ frames' = Front(frames)
  /\ UNCHANGED <<arg, installs>>

\* It throws instead, before or after it has moved from its argument.
ConstructorThrows ==
  /\ frames # << >>
  /\ arg' \in {arg, Moved(Last(frames))}
  /\ frames' = Front(frames)
  /\ UNCHANGED <<slot, installs>>

-----------------------------------------------------------------------------
(* Copy and move construction of the whole object, defaulted: those of the *)
(* optional, which construct a T exactly when the source contains one.     *)

CopyConstruct(o, p) ==
  /\ ~Alive(o) /\ Alive(p)
  /\ slot' = [slot EXCEPT ![o] = slot[p]]
  /\ installs' = [installs EXCEPT ![o] = IF has_value(p) THEN 1 ELSE 0]
  /\ UNCHANGED <<arg, frames>>

\* Leaves its source unset.
Mutant_MoveConstruct(o, p) ==
  /\ ~Alive(o) /\ has_value(p)
  /\ slot' = [slot EXCEPT ![o] = slot[p], ![p] = Unset]
  /\ installs' = [installs EXCEPT ![o] = 1]
  /\ UNCHANGED <<arg, frames>>

MoveConstruct(o, p) ==
  /\ ~Alive(o) /\ has_value(p)
  /\ slot' = [slot EXCEPT ![o] = slot[p], ![p] = MovedFrom]
  /\ installs' = [installs EXCEPT ![o] = 1]
  /\ UNCHANGED <<arg, frames>>

\* T's move constructor throws: no object o, and a source that may be hollow.
MoveConstructThrows(o, p) ==
  /\ ~Alive(o) /\ has_value(p)
  /\ slot' = [slot EXCEPT ![p] = MovedFrom]
  /\ UNCHANGED <<arg, frames, installs>>

-----------------------------------------------------------------------------
Init ==
  /\ slot = [o \in Objects |-> Absent]
  /\ arg = [v \in Values |-> "intact"]
  /\ frames = << >>
  /\ installs = [o \in Objects |-> 0]

Next ==
  \/ \E o \in Objects : Construct(o) \/ Destroy(o)
  \/ \E v \in Values : Renew(v)
  \/ \E o \in Objects, v \in Values : try_set_copy(o, v) \/ try_set_move(o, v)
  \/ ConstructorReturns
  \/ ConstructorThrows
  \/ \E o, p \in Objects : 
       CopyConstruct(o, p) \/ MoveConstruct(o, p) \/ MoveConstructThrows(o, p)

Spec == Init /\ [][Next]_vars

-----------------------------------------------------------------------------
(* Properties.                                                             *)

TypeOK ==
  /\ slot \in [Objects -> {Absent, Unset} \cup Set]
  /\ arg \in [Values -> {"intact", "moved"}]
  /\ frames \in Seq(Frame)
  /\ Len(frames) <= MaxDepth
  /\ installs \in [Objects -> 0 .. MaxDepth + 1]

\* "A non-thread-safe value holder whose slot can transition from unset to set
\* at most once": no life of an object sees a second T put into its slot.
SetAtMostOnce == \A o \in Objects : installs[o] <= 1

\* "If construction throws, the exception propagates and the slot remains
\* unset": whatever else ran while the constructor did.
Throwing == Len(frames') < Len(frames) /\ installs' = installs
FailureLeavesUnset == [][Throwing => slot'[Last(frames).target] = Unset]_vars

\* "Returns false without moving from value": an argument is moved from by the
\* innermost construction only, on behalf of the call that it was given to.
MovedByConstruction ==
  [][\A v \in Values : arg[v] = "intact" /\ arg'[v] = "moved" =>
       /\ Len(frames') < Len(frames)
       /\ Last(frames).forward = "rvalue" /\ Last(frames).value = v]_vars

\* Every object, through copies, moves, failures and nested calls, is a slot
\* of the abstract kind.
Abstract == INSTANCE OneWaySlot
RefinesOneWaySlot == Abstract!Spec

=============================================================================
