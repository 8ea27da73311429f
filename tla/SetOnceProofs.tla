---------------------------- MODULE SetOnceProofs ----------------------------
(***************************************************************************)
(* Proofs about SetOnce for any objects and values and any depth of nested *)
(* constructions, for a T that does not call the object it is being built  *)
(* in.  What has to be added to the invariants is that the history agrees  *)
(* with the flag (SetBecauseInstalled), and what a frame relies on while   *)
(* the constructor runs: its slot is still unset, and no other frame has   *)
(* the same one (Framed).  Reentrancy breaks exactly this.                 *)
(***************************************************************************)
EXTENDS SetOnce, TLAPS

SetBecauseInstalled == \A o \in Objects : has_value(o) <=> installs[o] > 0

Framed ==
  /\ \A i \in DOMAIN frames : slot[frames[i].target] = Unset
  /\ \A i, j \in DOMAIN frames : i # j => frames[i].target # frames[j].target

IInv == TypeOK /\ SetAtMostOnce /\ SetBecauseInstalled /\ Framed

LEMMA Distinct ==
  /\ Absent \notin Set /\ Unset \notin Set /\ Absent # Unset
  /\ MovedFrom \in Set /\ Values \subseteq Set
BY ConstantsAssumption DEF Set

\* Popping a frame leaves the others where they were.
LEMMA PopFrame ==
  ASSUME NEW fs \in Seq(Frame), fs # << >>
  PROVE  /\ Len(fs) \in Nat \ {0} /\ Len(fs) \in DOMAIN fs
         /\ Last(fs) = fs[Len(fs)] /\ Last(fs) \in Frame
         /\ Front(fs) \in Seq(Frame)
         /\ Len(Front(fs)) = Len(fs) - 1
         /\ DOMAIN Front(fs) = 1 .. Len(fs) - 1
         /\ \A i \in 1 .. Len(fs) - 1 : Front(fs)[i] = fs[i] /\ i \in DOMAIN fs
<1> DEFINE n == Len(fs)
<1>1. n \in Nat /\ DOMAIN fs = 1 .. n /\ \A i \in 1 .. n : fs[i] \in Frame
  OBVIOUS
<1>2. n # 0
  BY <1>1
<1>3. Last(fs) = fs[n]
  BY DEF Last
<1>4. Front(fs) = SubSeq(fs, 1, n - 1)
  BY DEF Front
<1>5. /\ Front(fs) \in Seq(Frame) /\ Len(Front(fs)) = n - 1
      /\ \A i \in 1 .. n - 1 : Front(fs)[i] = fs[i]
  BY <1>1, <1>2, <1>4
<1>6. DOMAIN Front(fs) = 1 .. n - 1
  BY <1>5
<1> QED
  BY <1>1, <1>2, <1>3, <1>5, <1>6

LEMMA InitIInv == Init => IInv
BY ConstantsAssumption
DEF Init, IInv, TypeOK, SetAtMostOnce, SetBecauseInstalled, Framed, has_value, Set

\* A step that changes no frame and no slot under construction, and keeps the
\* flag and the history of every other slot together.
LEMMA SlotStepKeeps ==
  ASSUME IInv, UNCHANGED frames, arg' \in [Values -> {"intact", "moved"}],
         slot' \in [Objects -> {Absent, Unset} \cup Set],
         installs' \in [Objects -> 0 .. 1],
         \A o \in Objects : slot'[o] \in Set <=> installs'[o] > 0,
         \A o \in Objects : Constructing(o) => slot'[o] = slot[o]
  PROVE  IInv'
<1>1. TypeOK'
  BY ConstantsAssumption DEF IInv, TypeOK
<1>2. SetAtMostOnce' /\ SetBecauseInstalled'
  BY DEF SetAtMostOnce, SetBecauseInstalled, has_value
<1>3. Framed'
  <2>1. \A i \in DOMAIN frames : frames[i].target \in Objects /\ Constructing(frames[i].target)
    <3>1. \A i \in DOMAIN frames : frames[i] \in Frame
      BY DEF IInv, TypeOK
    <3> QED
      BY <3>1 DEF Constructing, Frame
  <2>2. \A i \in DOMAIN frames : slot'[frames[i].target] = slot[frames[i].target]
    BY <2>1
  <2> QED
    BY <2>2 DEF IInv, Framed
<1> QED
  BY <1>1, <1>2, <1>3 DEF IInv

LEMMA ObjectStepsKeep ==
  ASSUME IInv, NEW o \in Objects, NEW p \in Objects,
         \/ Construct(o) \/ Destroy(o)
         \/ CopyConstruct(o, p) \/ MoveConstruct(o, p) \/ MoveConstructThrows(o, p)
  PROVE  IInv'
<1>1. /\ slot \in [Objects -> {Absent, Unset} \cup Set]
      /\ installs \in [Objects -> 0 .. 1]
      /\ arg \in [Values -> {"intact", "moved"}]
      /\ \A q \in Objects : slot[q] \in Set <=> installs[q] > 0
      /\ \A q \in Objects : Constructing(q) => slot[q] = Unset
  BY DEF IInv, TypeOK, SetAtMostOnce, SetBecauseInstalled, Framed, Constructing, has_value
<1>2. CASE Construct(o)
  BY <1>1, <1>2, Distinct, SlotStepKeeps DEF Construct, Alive
<1>3. CASE Destroy(o)
  BY <1>1, <1>3, Distinct, SlotStepKeeps DEF Destroy, Alive
<1>4. CASE CopyConstruct(o, p)
  BY <1>1, <1>4, Distinct, SlotStepKeeps DEF CopyConstruct, Alive, has_value
<1>5. CASE MoveConstruct(o, p)
  BY <1>1, <1>5, Distinct, SlotStepKeeps DEF MoveConstruct, Alive, has_value
<1>6. CASE MoveConstructThrows(o, p)
  BY <1>1, <1>6, Distinct, SlotStepKeeps DEF MoveConstructThrows, Alive, has_value
<1> QED
  BY <1>2, <1>3, <1>4, <1>5, <1>6

LEMMA TryEmplaceKeeps ==
  ASSUME IInv, ~Reentrant, NEW o \in Objects, NEW forward \in Forward, NEW v \in Values,
         try_emplace(o, forward, v)
  PROVE  IInv'
<1> DEFINE f == [target |-> o, forward |-> forward, value |-> v]
<1>1. UNCHANGED <<slot, arg, installs>> /\ ~Constructing(o) /\ Alive(o)
  BY DEF try_emplace, Callable
<1>2. CASE has_value(o) /\ UNCHANGED frames
  BY <1>1, <1>2
  DEF IInv, TypeOK, SetAtMostOnce, SetBecauseInstalled, Framed, has_value
<1>3. CASE ~has_value(o) /\ frames' = Append(frames, f)
  <2>1. frames \in Seq(Frame) /\ f \in Frame /\ Len(frames) < MaxDepth
    BY DEF IInv, TypeOK, Frame, try_emplace, Callable
  <2>2. /\ frames' \in Seq(Frame) /\ Len(frames') = Len(frames) + 1
        /\ DOMAIN frames = 1 .. Len(frames) /\ Len(frames) \in Nat
        /\ DOMAIN frames' = 1 .. Len(frames) + 1
        /\ \A i \in DOMAIN frames : frames'[i] = frames[i]
        /\ frames'[Len(frames) + 1] = f
    BY <1>3, <2>1
  <2>3. slot[o] = Unset
    BY <1>1, <1>3 DEF IInv, TypeOK, has_value, Alive
  <2>4. TypeOK'
    BY <1>1, <2>1, <2>2, ConstantsAssumption DEF IInv, TypeOK
  <2>5. Framed'
    <3>1. \A i \in DOMAIN frames : frames[i].target # o
      BY <1>1 DEF Constructing
    <3>2. f.target = o
      OBVIOUS
    <3>3. \A i \in DOMAIN frames' : i \in DOMAIN frames \/ i = Len(frames) + 1
      BY <2>2
    <3> HIDE DEF f
    <3> QED
      BY <1>1, <2>2, <2>3, <3>1, <3>2, <3>3 DEF IInv, Framed
  <2> QED
    BY <1>1, <2>4, <2>5 DEF IInv, SetAtMostOnce, SetBecauseInstalled, has_value
<1> QED
  BY <1>2, <1>3 DEF try_emplace, Enter

LEMMA ConstructorReturnsKeeps ==
  ASSUME IInv, ConstructorReturns
  PROVE  IInv'
<1> DEFINE f == Last(frames)
           o == f.target
           n == Len(frames)
<1>1. frames \in Seq(Frame) /\ frames # << >> /\ frames' = Front(frames)
  BY DEF IInv, TypeOK, ConstructorReturns
<1>2. /\ n \in Nat \ {0} /\ n \in DOMAIN frames
      /\ f = frames[n] /\ f \in Frame
      /\ frames' \in Seq(Frame) /\ Len(frames') = n - 1
      /\ DOMAIN frames' = 1 .. n - 1
      /\ \A i \in DOMAIN frames' : frames'[i] = frames[i] /\ i \in DOMAIN frames
  BY <1>1, PopFrame
<1>3. o \in Objects /\ f.value \in Values /\ slot[o] = Unset
  BY <1>2 DEF IInv, Framed, Frame
<1>4. /\ slot' = [slot EXCEPT ![o] = f.value]
      /\ installs' = [installs EXCEPT ![o] = @ + 1]
      /\ arg' = Moved(f)
  BY <1>3, Distinct DEF ConstructorReturns, has_value
<1> HIDE DEF f, o
<1>5. installs[o] = 0
  BY <1>3, Distinct DEF IInv, TypeOK, SetBecauseInstalled, has_value
<1>6. arg' \in [Values -> {"intact", "moved"}]
  BY <1>4 DEF IInv, TypeOK, Moved
<1>7. TypeOK'
  BY <1>2, <1>3, <1>4, <1>5, <1>6, Distinct, ConstantsAssumption DEF IInv, TypeOK
<1>8. SetAtMostOnce' /\ SetBecauseInstalled'
  BY <1>3, <1>4, <1>5, Distinct
  DEF IInv, TypeOK, SetAtMostOnce, SetBecauseInstalled, has_value
<1>9. Framed'
  <2>1. \A i \in DOMAIN frames' : i # n /\ frames'[i].target # o
    BY <1>2 DEF IInv, Framed, o
  <2> QED
    BY <1>2, <1>4, <2>1 DEF IInv, TypeOK, Framed, Frame
<1> QED
  BY <1>7, <1>8, <1>9 DEF IInv

LEMMA ConstructorThrowsKeeps ==
  ASSUME IInv, ConstructorThrows
  PROVE  IInv'
<1>1. /\ frames \in Seq(Frame) /\ frames # << >> /\ frames' = Front(frames)
      /\ UNCHANGED <<slot, installs>>
  BY DEF IInv, TypeOK, ConstructorThrows
<1>2. /\ frames' \in Seq(Frame) /\ Len(frames') = Len(frames) - 1
      /\ Len(frames) \in Nat
      /\ \A i \in DOMAIN frames' : frames'[i] = frames[i] /\ i \in DOMAIN frames
  BY <1>1, PopFrame
<1>3. arg' \in [Values -> {"intact", "moved"}]
  BY DEF ConstructorThrows, IInv, TypeOK, Moved
<1>4. TypeOK'
  BY <1>1, <1>2, <1>3, ConstantsAssumption DEF IInv, TypeOK
<1>5. Framed'
  BY <1>1, <1>2 DEF IInv, Framed
<1> QED
  BY <1>1, <1>4, <1>5 DEF IInv, SetAtMostOnce, SetBecauseInstalled, has_value

LEMMA NextIInv == ~Reentrant /\ IInv /\ [Next]_vars => IInv'
<1> SUFFICES ASSUME ~Reentrant, IInv, [Next]_vars PROVE IInv'
  OBVIOUS
<1>1. ASSUME NEW v \in Values, Renew(v)
      PROVE  IInv'
  BY <1>1 DEF Renew, IInv, TypeOK, SetAtMostOnce, SetBecauseInstalled, Framed, has_value
<1>2. ASSUME NEW o \in Objects, NEW v \in Values, try_set_copy(o, v) \/ try_set_move(o, v)
      PROVE  IInv'
  BY <1>2, TryEmplaceKeeps DEF try_set_copy, try_set_move, Forward
<1>3. CASE UNCHANGED vars
  BY <1>3 DEF vars, IInv, TypeOK, SetAtMostOnce, SetBecauseInstalled, Framed, has_value
<1> QED
  BY <1>1, <1>2, <1>3, ObjectStepsKeep, ConstructorReturnsKeeps, ConstructorThrowsKeeps
  DEF Next

LEMMA SpecIInv == ~Reentrant => (Spec => []IInv)
<1>1. CASE Reentrant
  BY <1>1
<1>2. CASE ~Reentrant
  <2>1. IInv /\ [Next]_vars => IInv'
    BY <1>2, NextIInv
  <2> QED
    BY <2>1, InitIInv, PTL DEF Spec
<1> QED
  BY <1>1, <1>2

-----------------------------------------------------------------------------
\* The slots, the frames and the history keep their types.
THEOREM TypeCorrect == ~Reentrant => (Spec => []TypeOK)
<1>1. IInv => TypeOK
  BY DEF IInv
<1> QED
  BY <1>1, SpecIInv, PTL

\* No life of an object sees a second T, as long as no constructor of T calls
\* the object it is being built in.
THEOREM AtMostOnce == ~Reentrant => (Spec => []SetAtMostOnce)
<1>1. IInv => SetAtMostOnce
  BY DEF IInv
<1> QED
  BY <1>1, SpecIInv, PTL

\* Every step of the objects is a step or a stutter of one-way slots: the step
\* at which a constructor returns is the abstract setting of an unset slot.
LEMMA StepOfSlots ==
  ASSUME IInv, [Next]_vars
  PROVE  [Abstract!Next]_slot
<1>1. ASSUME NEW o \in Objects, Construct(o) \/ Destroy(o)
      PROVE  Abstract!BeginLife(o) \/ Abstract!EndLife(o)
  BY <1>1
  DEF Construct, Destroy, Alive, Abstract!BeginLife, Abstract!EndLife, Abstract!Put
<1>2. ASSUME NEW v \in Values, Renew(v)
      PROVE  slot' = slot
  BY <1>2 DEF Renew
<1>3. ASSUME NEW o \in Objects, NEW v \in Values, try_set_copy(o, v) \/ try_set_move(o, v)
      PROVE  slot' = slot
  BY <1>3 DEF try_set_copy, try_set_move, try_emplace
<1>4. ASSUME ConstructorReturns
      PROVE  \E o \in Objects : Abstract!SetSlot(o)
  <2> DEFINE f == Last(frames)
  <2>1. frames \in Seq(Frame) /\ frames # << >>
    BY <1>4 DEF IInv, TypeOK, ConstructorReturns
  <2>2. f \in Frame /\ slot[f.target] = Unset
    BY <2>1, PopFrame DEF IInv, Framed
  <2>3. ~has_value(f.target)
    BY <2>2, Distinct DEF has_value
  <2>4. slot' = [slot EXCEPT ![f.target] = f.value]
    BY <1>4, <2>3 DEF ConstructorReturns
  <2>5. f.target \in Objects /\ f.value \in Abstract!Set
    BY <2>2 DEF Frame, Abstract!Set
  <2> QED
    BY <2>2, <2>4, <2>5 DEF Abstract!SetSlot, Abstract!Put
<1>5. ASSUME ConstructorThrows
      PROVE  slot' = slot
  BY <1>5 DEF ConstructorThrows
<1>6. ASSUME NEW o \in Objects, NEW p \in Objects, CopyConstruct(o, p)
      PROVE  Abstract!Copy(o, p)
  BY <1>6 DEF CopyConstruct, Alive, Abstract!Copy, Abstract!Put
<1>7. ASSUME NEW o \in Objects, NEW p \in Objects,
             MoveConstruct(o, p) \/ MoveConstructThrows(o, p)
      PROVE  Abstract!Move(o, p)
  <2>1. slot[o] = Absent /\ slot[p] \in Abstract!Set
    BY <1>7 DEF MoveConstruct, MoveConstructThrows, Alive, has_value, Set, Abstract!Set
  <2>2. CASE MoveConstruct(o, p)
    BY <2>1, <2>2 DEF MoveConstruct, Abstract!Move
  <2>3. CASE MoveConstructThrows(o, p)
    <3>1. slot' = [slot EXCEPT ![p] = MovedFrom]
      BY <2>3 DEF MoveConstructThrows
    <3>2. slot' = [slot EXCEPT ![o] = Absent, ![p] = MovedFrom]
      BY <2>1, <3>1 DEF IInv, TypeOK
    <3> QED
      BY <2>1, <3>2 DEF Abstract!Move
  <2> QED
    BY <1>7, <2>2, <2>3
<1>8. CASE UNCHANGED vars
  BY <1>8 DEF vars
<1> QED
  BY <1>1, <1>2, <1>3, <1>4, <1>5, <1>6, <1>7, <1>8 DEF Next, Abstract!Next

\* set_once implements the one-way slot that its documentation promises, for
\* every T that does not call the object it is being built in.
THEOREM ImplementsOneWaySlot == ~Reentrant => (Spec => RefinesOneWaySlot)
<1>1. Init => Abstract!Init
  BY DEF Init, Abstract!Init
<1>2. IInv /\ [Next]_vars => [Abstract!Next]_slot
  BY StepOfSlots
<1> QED
  BY <1>1, <1>2, SpecIInv, PTL DEF Spec, RefinesOneWaySlot, Abstract!Spec

\* A call whose construction throws leaves its slot unset, whatever other
\* calls were made while it ran.
THEOREM FailuresLeaveUnset == ~Reentrant => (Spec => FailureLeavesUnset)
<1>1. ASSUME IInv, [Next]_vars, Throwing
      PROVE  slot'[Last(frames).target] = Unset
  <2>1. frames \in Seq(Frame)
    BY <1>1 DEF IInv, TypeOK
  <2>2. Len(frames') < Len(frames) /\ installs' = installs
    BY <1>1 DEF Throwing
  <2>3. frames' # frames
    BY <2>1, <2>2
  <2>4. ConstructorReturns \/ ConstructorThrows
    <3>1. ASSUME NEW o \in Objects, NEW v \in Values, NEW forward \in Forward,
                 try_emplace(o, forward, v)
          PROVE  FALSE
      <4>1. frames' = Append(frames, [target |-> o, forward |-> forward, value |-> v])
        BY <2>3, <3>1 DEF try_emplace, Enter
      <4>2. [target |-> o, forward |-> forward, value |-> v] \in Frame
        BY DEF Frame
      <4>3. Len(frames') = Len(frames) + 1 /\ Len(frames) \in Nat
        BY <2>1, <4>1, <4>2
      <4> QED
        BY <2>2, <4>3
    <3>2. ASSUME NEW o \in Objects, NEW v \in Values
          PROVE  ~try_set_copy(o, v) /\ ~try_set_move(o, v)
      BY <3>1 DEF try_set_copy, try_set_move, Forward
    <3>3. ~UNCHANGED vars
      BY <2>3 DEF vars
    <3>4. ASSUME NEW o \in Objects, NEW p \in Objects
          PROVE  /\ ~Construct(o) /\ ~Destroy(o) /\ ~CopyConstruct(o, p)
                 /\ ~MoveConstruct(o, p) /\ ~MoveConstructThrows(o, p)
      BY <2>3 DEF Construct, Destroy, CopyConstruct, MoveConstruct, MoveConstructThrows
    <3>5. ASSUME NEW v \in Values
          PROVE  ~Renew(v)
      BY <2>3 DEF Renew
    <3> QED
      BY <1>1, <3>2, <3>3, <3>4, <3>5 DEF Next
  <2>5. frames # << >>
    BY <2>4 DEF ConstructorReturns, ConstructorThrows
  <2>6. Last(frames) \in Frame /\ slot[Last(frames).target] = Unset
    BY <1>1, <2>1, <2>5, PopFrame DEF IInv, Framed
  <2>7. CASE ConstructorReturns
    <3>1. installs' = [installs EXCEPT ![Last(frames).target] = @ + 1]
      BY <2>7 DEF ConstructorReturns
    <3>2. installs'[Last(frames).target] = installs[Last(frames).target] + 1
      BY <1>1, <2>6, <3>1 DEF IInv, TypeOK, Frame
    <3>3. installs[Last(frames).target] \in Int
      BY <1>1, <2>6, ConstantsAssumption DEF IInv, TypeOK, Frame
    <3> QED
      BY <2>2, <3>2, <3>3
  <2>8. CASE ConstructorThrows
    BY <2>6, <2>8 DEF ConstructorThrows
  <2> QED
    BY <2>4, <2>7, <2>8
<1>2. IInv /\ [Next]_vars => [Throwing => slot'[Last(frames).target] = Unset]_vars
  BY <1>1
<1> QED
  BY <1>2, SpecIInv, PTL DEF Spec, FailureLeavesUnset

-----------------------------------------------------------------------------
(* What holds for every T, also for one whose constructor calls the object *)
(* it is being built in: the frames and the arguments keep their types.    *)

CallsOK == frames \in Seq(Frame) /\ arg \in [Values -> {"intact", "moved"}]

LEMMA CallsInv == Spec => []CallsOK
<1>1. Init => CallsOK
  BY DEF Init, CallsOK
<1>2. ASSUME CallsOK, [Next]_vars PROVE CallsOK'
  <2>0. frames \in Seq(Frame) /\ arg \in [Values -> {"intact", "moved"}]
    BY <1>2 DEF CallsOK
  <2>1. ASSUME NEW o \in Objects, NEW v \in Values, NEW forward \in Forward,
               try_emplace(o, forward, v)
        PROVE  CallsOK'
    <3>1. [target |-> o, forward |-> forward, value |-> v] \in Frame
      BY DEF Frame
    <3> QED
      BY <2>0, <2>1, <3>1 DEF try_emplace, Enter, CallsOK
  <2>2. ASSUME NEW o \in Objects, NEW v \in Values, try_set_copy(o, v) \/ try_set_move(o, v)
        PROVE  CallsOK'
    BY <2>1, <2>2 DEF try_set_copy, try_set_move, Forward
  <2>3. CASE ConstructorReturns \/ ConstructorThrows
    <3>1. frames' \in Seq(Frame)
      BY <2>0, <2>3, PopFrame DEF ConstructorReturns, ConstructorThrows
    <3>2. arg' \in {arg, Moved(Last(frames))}
      BY <2>3 DEF ConstructorReturns, ConstructorThrows
    <3> QED
      BY <2>0, <3>1, <3>2 DEF CallsOK, Moved
  <2>4. ASSUME NEW o \in Objects, NEW p \in Objects,
               \/ Construct(o) \/ Destroy(o)
               \/ CopyConstruct(o, p) \/ MoveConstruct(o, p) \/ MoveConstructThrows(o, p)
        PROVE  CallsOK'
    BY <2>0, <2>4
    DEF Construct, Destroy, CopyConstruct, MoveConstruct, MoveConstructThrows, CallsOK
  <2>5. ASSUME NEW v \in Values, Renew(v) PROVE CallsOK'
    BY <2>0, <2>5 DEF Renew, CallsOK
  <2>6. CASE UNCHANGED vars
    BY <2>0, <2>6 DEF vars, CallsOK
  <2> QED
    BY <1>2, <2>2, <2>3, <2>4, <2>5, <2>6 DEF Next
<1> QED
  BY <1>1, <1>2, PTL DEF Spec

\* try_set(T&&) moves from its argument only when its own construction, the
\* innermost one, ends: never in a call that returns false, nor on behalf of
\* another call, also when constructors of T call set_once, their own included.
THEOREM MovesAreByConstruction == Spec => MovedByConstruction
<1> DEFINE Moves(v) == arg[v] = "intact" /\ arg'[v] = "moved"
           ByConstruction(v) == /\ Len(frames') < Len(frames)
                                /\ Last(frames).forward = "rvalue" /\ Last(frames).value = v
<1>1. ASSUME CallsOK, [Next]_vars, NEW v \in Values, Moves(v)
      PROVE  ByConstruction(v)
  <2>0. frames \in Seq(Frame) /\ arg \in [Values -> {"intact", "moved"}]
    BY <1>1 DEF CallsOK
  <2>1. arg'[v] # arg[v]
    BY <1>1
  <2>2. ASSUME NEW w \in Values PROVE ~Renew(w)
    BY <1>1, <2>0 DEF Renew
  <2>3. ASSUME NEW o \in Objects, NEW w \in Values
        PROVE  ~try_set_copy(o, w) /\ ~try_set_move(o, w)
    BY <2>1 DEF try_set_copy, try_set_move, try_emplace
  <2>4. ASSUME NEW o \in Objects, NEW p \in Objects
        PROVE  /\ ~Construct(o) /\ ~Destroy(o) /\ ~CopyConstruct(o, p)
               /\ ~MoveConstruct(o, p) /\ ~MoveConstructThrows(o, p)
    BY <2>1 DEF Construct, Destroy, CopyConstruct, MoveConstruct, MoveConstructThrows
  <2>5. ConstructorReturns \/ ConstructorThrows
    BY <1>1, <2>1, <2>2, <2>3, <2>4 DEF Next, vars
  <2>6. frames # << >> /\ frames' = Front(frames) /\ arg' \in {arg, Moved(Last(frames))}
    BY <2>5 DEF ConstructorReturns, ConstructorThrows
  <2>7. Len(frames') = Len(frames) - 1 /\ Len(frames) \in Nat
    BY <2>0, <2>6, PopFrame
  <2>8. Last(frames).forward = "rvalue"
        /\ arg' = [arg EXCEPT ![Last(frames).value] = "moved"]
    BY <2>1, <2>6 DEF Moved
  <2>9. Last(frames).value = v
    BY <2>1, <2>8
  <2> QED
    BY <2>7, <2>8, <2>9
<1>2. CallsOK /\ [Next]_vars =>
        [\A v \in Values : Moves(v) => ByConstruction(v)]_vars
  BY <1>1
<1> QED
  BY <1>2, CallsInv, PTL DEF Spec, MovedByConstruction

=============================================================================
