---------------------------- MODULE PointerProofs ----------------------------
(***************************************************************************)
(* Proofs about Pointer, for any surfaces and buttons: the pointer that    *)
(* honey keeps to the active constraint never dangles, exactly one client  *)
(* obeys a constraint, grabs and drags hide the pointer from clients, and  *)
(* no client is left with a button it believes held.                       *)
(***************************************************************************)
EXTENDS Pointer, TLAPS

(* The constraints part of the invariant, of any record of them.           *)
Records ==
    [object : [Surfaces -> Kinds \cup {None}], active : Surfaces \cup {None},
     listening : Surfaces \cup {None}, obeyed : SUBSET Surfaces]

Consistent(c) ==
    /\ c \in Records
    /\ c.active # None => c.object[c.active] # None
    /\ c.listening = c.active
    /\ c.obeyed = IF c.active = None THEN {} ELSE {c.active}

(* A surface that lost the pointer is told nothing of buttons.             *)
Silent == pointer = None => told = {}

Inv ==
    /\ TypeOK
    /\ Consistent(Constraints)
    /\ GrabHidesPointer
    /\ NoStuckButtons
    /\ Silent

-----------------------------------------------------------------------------
(* The constraints *)

LEMMA DestroyedConsistent ==
    ASSUME NEW c, Consistent(c), NEW s \in Surfaces
    PROVE  Consistent(Destroyed(c, s)) /\ (Destroyed(c, s).active \in {c.active, None})
<1> DEFINE d == Destroyed(c, s)
<1>1. c \in Records /\ c.listening = c.active
  BY DEF Consistent
<1>2. /\ d \in Records
      /\ d.object = [c.object EXCEPT ![s] = None]
      /\ d.obeyed = c.obeyed \ {s}
      /\ d.active = IF c.listening = s THEN None ELSE c.active
      /\ d.listening = IF c.listening = s THEN None ELSE c.listening
  BY <1>1 DEF Destroyed, Records
<1> HIDE DEF d
<1>3. Consistent(d)
  <2>1. CASE c.active = s
    BY <1>1, <1>2, <2>1, PointerAssumption DEF Consistent
  <2>2. CASE c.active # s
    BY <1>1, <1>2, <2>2 DEF Consistent, Records
  <2> QED
    BY <2>1, <2>2
<1>4. d.active \in {c.active, None}
  BY <1>2
<1> QED
  BY <1>3, <1>4 DEF d

\* Once let go, nothing is listened to and nobody told, and the constraint
\* that comes next still exists.
LEMMA ReleasedNobody ==
    ASSUME NEW c, Consistent(c)
    PROVE  /\ Released(c) \in Records
           /\ Released(c).obeyed = {}
           /\ Released(c).listening = None
           /\ \A s \in Surfaces \ {c.active} :
                 Released(c).object[s] = c.object[s]
<1>1. CASE c.active = None
  BY <1>1 DEF Released, Consistent
<1>2. CASE c.active # None
  <2> DEFINE d == Deactivated(c, c.active)
  <2>1. c.active \in Surfaces /\ c.obeyed = {c.active} /\ c \in Records
    BY <1>2 DEF Consistent, Records
  <2>2. /\ d \in Records
        /\ d.obeyed = {}
        /\ \A s \in Surfaces \ {c.active} : d.object[s] = c.object[s]
    <3>1. CASE c.object[c.active] = "oneshot"
      BY <2>1, <3>1 DEF Deactivated, Destroyed, Records
    <3>2. CASE c.object[c.active] # "oneshot"
      BY <2>1, <3>2 DEF Deactivated, Records
    <3> QED
      BY <3>1, <3>2
  <2>3. Released(c) = [d EXCEPT !.listening = None]
    BY <1>2 DEF Released
  <2> HIDE DEF d
  <2> QED
    BY <2>2, <2>3 DEF Records
<1> QED
  BY <1>1, <1>2

LEMMA CheckedConsistent ==
    ASSUME NEW c, Consistent(c), NEW s \in Surfaces \cup {None}
    PROVE  Consistent(Checked(c, s))
<1> DEFINE wanted == IF s # None /\ c.object[s] # None THEN s ELSE None
           r == Released(c)
<1> USE PointerAssumption
<1>1. CASE wanted = c.active
  BY <1>1 DEF Checked
<1>2. CASE wanted # c.active
  <2>1. /\ r \in Records /\ r.obeyed = {} /\ r.listening = None
        /\ \A t \in Surfaces \ {c.active} : r.object[t] = c.object[t]
    BY ReleasedNobody
  <2>2. CASE wanted = None
    <3>1. Checked(c, s) = [r EXCEPT !.active = None]
      BY <1>2, <2>2 DEF Checked
    <3> HIDE DEF r
    <3> QED
      BY <2>1, <3>1 DEF Consistent, Records
  <2>3. CASE wanted # None
    <3>1. wanted = s /\ s # None /\ s \in Surfaces \ {c.active} /\ c.object[s] # None
      BY <1>2, <2>3
    <3> DEFINE after == [r EXCEPT !.active = s]
    <3>2. Checked(c, s) = [after EXCEPT !.listening = s, !.obeyed = @ \cup {s}]
      BY <1>2, <2>3, <3>1 DEF Checked
    <3> HIDE DEF r
    <3>3. /\ after \in Records /\ after.active = s /\ after.obeyed = {}
          /\ after.object[s] # None
      BY <2>1, <3>1 DEF Records
    <3> HIDE DEF after
    <3> DEFINE d == [after EXCEPT !.listening = s, !.obeyed = @ \cup {s}]
    <3>4. /\ d \in Records
          /\ d.active = s /\ d.listening = s /\ d.obeyed = {s}
          /\ d.object[s] # None
      BY <3>1, <3>3 DEF Records
    <3> HIDE DEF d
    <3>5. Consistent(d)
      BY <3>1, <3>4 DEF Consistent
    <3> QED
      BY <3>2, <3>5 DEF d
  <2> QED
    BY <2>2, <2>3
<1> QED
  BY <1>1, <1>2

LEMMA SetConsistent ==
    ASSUME NEW c, Consistent(c), SetConstraints(c)
    PROVE  /\ Consistent(Constraints)'
           /\ constraint' \in [Surfaces -> Kinds \cup {None}]
           /\ active' \in Surfaces \cup {None}
           /\ listening' \in Surfaces \cup {None}
           /\ obeyed' \subseteq Surfaces
<1>1. c \in Records /\ c = [object |-> c.object, active |-> c.active,
                            listening |-> c.listening, obeyed |-> c.obeyed]
  BY DEF Consistent, Records
<1>2. Constraints' = c
  BY <1>1 DEF SetConstraints, Constraints
<1>3. Consistent(Constraints)'
  BY <1>2 DEF Consistent, Records
<1> QED
  BY <1>1, <1>3 DEF SetConstraints, Records

LEMMA SameConstraints ==
    ASSUME Inv, UNCHANGED constraintVars
    PROVE  /\ Consistent(Constraints)'
           /\ constraint' \in [Surfaces -> Kinds \cup {None}]
           /\ active' \in Surfaces \cup {None}
           /\ listening' \in Surfaces \cup {None}
           /\ obeyed' \subseteq Surfaces
BY DEF Inv, TypeOK, constraintVars, Constraints, Consistent, Records

-----------------------------------------------------------------------------
(* The steps *)

\* What is left to show of a step that keeps the constraints consistent.
LEMMA InvFrom ==
    ASSUME /\ Consistent(Constraints)'
           /\ constraint' \in [Surfaces -> Kinds \cup {None}]
           /\ active' \in Surfaces \cup {None}
           /\ listening' \in Surfaces \cup {None}
           /\ obeyed' \subseteq Surfaces,
           under' \in Places, pointer' \in Surfaces \cup {None},
           held' \subseteq Buttons, seatButtons' \subseteq Buttons,
           told' \subseteq held', pressed' \in Surfaces \cup {None},
           op' \in Surfaces \cup {None}, dragging' \in BOOLEAN,
           pointer' = None => told' = {},
           op' # None \/ dragging' => pointer' = None
    PROVE  Inv'
BY DEF Inv, TypeOK, GrabHidesPointer, NoStuckButtons, Silent

LEMMA ConstraintInv ==
    ASSUME Inv, NEW s \in Surfaces,
           DropConstraint(s) \/ \E kind \in Kinds : NewConstraint(s, kind)
    PROVE  Inv'
<1>1. \A kind \in Kinds :
         /\ constraint[s] = None
         => Consistent([Constraints EXCEPT !.object[s] = kind])
  <2> SUFFICES ASSUME NEW kind \in Kinds, constraint[s] = None
               PROVE  Consistent([Constraints EXCEPT !.object[s] = kind])
    OBVIOUS
  <2> DEFINE made == [Constraints EXCEPT !.object[s] = kind]
  <2>1. /\ made \in Records /\ made.active = active
        /\ made.listening = listening /\ made.obeyed = obeyed
        /\ made.object = [constraint EXCEPT ![s] = kind]
    BY DEF Inv, TypeOK, Constraints, Records
  <2> HIDE DEF made
  <2>2. /\ listening = active
        /\ active # None => constraint[active] # None
        /\ obeyed = IF active = None THEN {} ELSE {active}
        /\ constraint \in [Surfaces -> Kinds \cup {None}]
    BY DEF Inv, TypeOK, Consistent, Constraints
  <2>3. Consistent(made)
    BY <2>1, <2>2, PointerAssumption DEF Consistent, Records
  <2> QED
    BY <2>3 DEF made
<1>2. \E c : Consistent(c) /\ SetConstraints(c)
  <2>1. CASE DropConstraint(s)
    BY <2>1, DestroyedConsistent DEF DropConstraint, Inv
  <2>2. ASSUME NEW kind \in Kinds, NewConstraint(s, kind)
        PROVE  \E c : Consistent(c) /\ SetConstraints(c)
    <3> DEFINE made == [Constraints EXCEPT !.object[s] = kind]
    <3>1. Consistent(made)
      BY <1>1, <2>2 DEF NewConstraint
    <3>2. SetConstraints(IF pointer = s THEN Checked(made, s) ELSE made)
      BY <2>2 DEF NewConstraint
    <3> HIDE DEF made
    <3> QED
      BY <3>1, <3>2, CheckedConsistent
  <2> QED
    BY <2>1, <2>2
<1>3. UNCHANGED <<under, pointer, held, seatButtons, told, pressed, op, dragging>>
  BY DEF DropConstraint, NewConstraint, buttonVars
<1> QED
  BY <1>2, <1>3, SetConsistent, InvFrom
  DEF Inv, TypeOK, GrabHidesPointer, NoStuckButtons, Silent

LEMMA MoveInv ==
    ASSUME Inv, NEW t \in Places, Move(t)
    PROVE  Inv'
<1>1. SurfaceAt(t) \in Surfaces \cup {None}
  BY DEF SurfaceAt, Places
<1>2. CASE op # None
  BY <1>2, SameConstraints, InvFrom
  DEF Move, constraintVars, Inv, TypeOK, GrabHidesPointer, NoStuckButtons,
      Silent
<1>3. CASE op = None
  <2> DEFINE s == SurfaceAt(t)
  <2>1. /\ IF dragging THEN UNCHANGED <<pointer, told>> ELSE Enter(s)
        /\ SetConstraints(Checked(Constraints, s))
    BY <1>3 DEF Move, PointerFocus
  <2>2. UNCHANGED <<held, seatButtons, pressed, op, dragging>> /\ under' = t
    BY DEF Move
  <2> HIDE DEF s
  <2>3. Consistent(Checked(Constraints, s))
    BY <1>1, CheckedConsistent DEF Inv, s
  <2>4. /\ pointer' \in Surfaces \cup {None}
        /\ told' \subseteq held'
        /\ pointer' = None => told' = {}
        /\ dragging => pointer' = None
    BY <1>1, <2>1, <2>2
    DEF Enter, Inv, TypeOK, GrabHidesPointer, NoStuckButtons, Silent, s
  <2> QED
    BY <1>3, <2>1, <2>2, <2>3, <2>4, SetConsistent, InvFrom DEF Inv, TypeOK
<1> QED
  BY <1>2, <1>3

LEMMA SceneChangesInv ==
    ASSUME Inv, NEW t \in Places, SceneChanges(t)
    PROVE  Inv'
BY SameConstraints, InvFrom
DEF SceneChanges, constraintVars, buttonVars, Inv, TypeOK, GrabHidesPointer,
    NoStuckButtons, Silent

LEMMA DestroySurfaceInv ==
    ASSUME Inv, NEW s \in Surfaces, DestroySurface(s)
    PROVE  Inv'
<1>1. \E c : Consistent(c) /\ SetConstraints(c)
  BY DestroyedConsistent DEF DestroySurface, Inv
<1>2. under' \in Places
  BY DEF DestroySurface, Places, Inv, TypeOK
<1>3. /\ pointer' = IF pointer = s THEN None ELSE pointer
      /\ told' = IF pointer = s THEN {} ELSE told
      /\ pressed' = IF pressed = s THEN None ELSE pressed
      /\ op' = IF op = s THEN None ELSE op
      /\ UNCHANGED <<held, seatButtons, dragging>>
  BY DEF DestroySurface
<1> QED
  BY <1>1, <1>2, <1>3, SetConsistent, InvFrom
  DEF Inv, TypeOK, GrabHidesPointer, NoStuckButtons, Silent

LEMMA PressInv ==
    ASSUME Inv, NEW b \in Buttons, Press(b)
    PROVE  Inv'
<1>1. UNCHANGED <<under, constraintVars, dragging>> /\ held' = held \cup {b}
  BY DEF Press
<1>2. \/ under # None /\ BeginOp(under[1])
      \/ UNCHANGED <<op, pointer, seatButtons, told, pressed>>
      \/ NotifyPress(b)
  BY DEF Press, AsksGrab
<1>3. CASE under # None /\ BeginOp(under[1])
  <2>1. under[1] \in Surfaces
    BY <1>3 DEF Inv, TypeOK, Places
  <2> QED
    BY <1>1, <1>3, <2>1, SameConstraints, InvFrom
    DEF BeginOp, Enter, Inv, TypeOK, NoStuckButtons, Silent
<1>4. CASE UNCHANGED <<op, pointer, seatButtons, told, pressed>>
  BY <1>1, <1>4, SameConstraints, InvFrom
  DEF Inv, TypeOK, GrabHidesPointer, NoStuckButtons, Silent
<1>5. CASE NotifyPress(b)
  BY <1>1, <1>5, SameConstraints, InvFrom
  DEF NotifyPress, Inv, TypeOK, GrabHidesPointer, NoStuckButtons, Silent
<1> QED
  BY <1>2, <1>3, <1>4, <1>5

\* A grab keeps the release, but no client has the pointer in a grab.
LEMMA ReleaseInv ==
    ASSUME Inv, NEW b \in Buttons, Release(b)
    PROVE  Inv'
<1>1. UNCHANGED <<under, pointer, pressed, constraintVars>> /\ held' = held \ {b}
  BY DEF Release
<1>2. CASE op # None
  <2>1. op' = None /\ UNCHANGED <<seatButtons, told, dragging>>
    BY <1>2 DEF Release
  <2>2. told' = {} /\ pointer' = None
    BY <1>1, <1>2, <2>1 DEF Inv, GrabHidesPointer, Silent
  <2> QED
    BY <1>1, <2>1, <2>2, SameConstraints, InvFrom DEF Inv, TypeOK
<1>3. CASE op = None
  <2>1. /\ seatButtons' = seatButtons \ {b} /\ told' = told \ {b}
        /\ dragging' = FALSE \/ dragging' = dragging
        /\ op' = op
    BY <1>3 DEF Release, NotifyRelease
  <2>2. dragging' \in BOOLEAN /\ (dragging' => pointer' = None)
    <3>1. dragging \in BOOLEAN /\ (dragging => pointer = None)
      BY DEF Inv, TypeOK, GrabHidesPointer
    <3>2. pointer' = pointer
      BY <1>1
    <3>3. CASE dragging' = FALSE
      BY <3>3
    <3>4. CASE dragging' = dragging
      BY <3>1, <3>2, <3>4
    <3> QED
      BY <2>1, <3>3, <3>4
  <2>3. told' \subseteq held' /\ (pointer' = None => told' = {})
    BY <1>1, <2>1 DEF Inv, NoStuckButtons, Silent
  <2> QED
    BY <1>1, <1>3, <2>1, <2>2, <2>3, SameConstraints, InvFrom
    DEF Inv, TypeOK
<1> QED
  BY <1>2, <1>3

LEMMA DragInv ==
    ASSUME Inv, CancelDrag \/ \E s \in Surfaces : StartDrag(s)
    PROVE  Inv'
<1>1. CASE CancelDrag
  BY <1>1, SameConstraints, InvFrom
  DEF CancelDrag, buttonVars, Inv, TypeOK, GrabHidesPointer, NoStuckButtons,
      Silent
<1>2. ASSUME NEW s \in Surfaces, StartDrag(s)
      PROVE  Inv'
  BY <1>2, SameConstraints, InvFrom
  DEF StartDrag, Enter, Inv, TypeOK, NoStuckButtons, Silent
<1> QED
  BY <1>1, <1>2

-----------------------------------------------------------------------------

LEMMA InitInv == Init => Inv
<1> SUFFICES ASSUME Init PROVE Inv
  OBVIOUS
<1>1. TypeOK
  BY DEF Init, TypeOK, Places
<1>2. Consistent(Constraints)
  BY <1>1 DEF Init, Consistent, Constraints, Records
<1> QED
  BY <1>1, <1>2 DEF Init, Inv, GrabHidesPointer, NoStuckButtons, Silent

LEMMA NextInv == Inv /\ [Next]_vars => Inv'
<1> SUFFICES ASSUME Inv, [Next]_vars PROVE Inv'
  OBVIOUS
<1>1. CASE UNCHANGED vars
  BY <1>1, SameConstraints, InvFrom
  DEF vars, buttonVars, constraintVars, Inv, TypeOK, GrabHidesPointer,
      NoStuckButtons, Silent
<1>2. ASSUME NEW t \in Places, Motion(t) \/ MotionAbsolute(t)
      PROVE  Inv'
  BY <1>2, MoveInv DEF Motion, MotionAbsolute
<1>3. ASSUME NEW s \in Surfaces, NEW kind \in Kinds, NewConstraint(s, kind)
      PROVE  Inv'
  BY <1>3, ConstraintInv
<1>4. ASSUME NEW s \in Surfaces, DropConstraint(s)
      PROVE  Inv'
  BY <1>4, ConstraintInv
<1>5. ASSUME CancelDrag \/ \E s \in Surfaces : StartDrag(s)
      PROVE  Inv'
  BY <1>5, DragInv
<1> QED
  BY <1>1, <1>2, <1>3, <1>4, <1>5, SceneChangesInv, PressInv, ReleaseInv,
     DestroySurfaceInv DEF Next

(* Every variable keeps its type, for any surfaces and buttons.            *)
THEOREM TypeCorrect == Spec => []TypeOK
<1>1. Inv => TypeOK
  BY DEF Inv
<1> QED
  BY <1>1, InitInv, NextInv, PTL DEF Spec

(* server->active_constraint never dangles (honey_constraint_check,        *)
(* constraint_destroy).                                                    *)
THEOREM NoDanglingConstraint == Spec => []ActiveIsAlive
<1>1. Inv => ActiveIsAlive
  BY DEF Inv, Consistent, Constraints, ActiveIsAlive
<1> QED
  BY <1>1, InitInv, NextInv, PTL DEF Spec

(* At most one client obeys a constraint, and it is the active one.        *)
THEOREM OneObeys == Spec => []OneIsTold
<1>1. Inv => OneIsTold
  BY DEF Inv, Consistent, Constraints, OneIsTold
<1> QED
  BY <1>1, InitInv, NextInv, PTL DEF Spec

(* Grabs and drags hide the pointer from clients (op_begin, op_motion).    *)
THEOREM GrabsHidden == Spec => []GrabHidesPointer
<1>1. Inv => GrabHidesPointer
  BY DEF Inv
<1> QED
  BY <1>1, InitInv, NextInv, PTL DEF Spec

(* No client is left with a button down (cursor_button, op_end).           *)
THEOREM ButtonsComeUp == Spec => []NoStuckButtons
<1>1. Inv => NoStuckButtons
  BY DEF Inv
<1> QED
  BY <1>1, InitInv, NextInv, PTL DEF Spec
=============================================================================
