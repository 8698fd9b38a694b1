------------------------------- MODULE Pointer -------------------------------
(***************************************************************************)
(* The pointer (seat.c, handlers.c): which surface has it, the interactive *)
(* grabs that take it from clients, the constraints by which a client (a   *)
(* game, a virtual machine) keeps it, and drag-and-drop.                   *)
(*                                                                         *)
(* Positions are abstracted to what lies under the cursor.  It changes     *)
(* with the cursor, and without it when windows are shown, hidden or       *)
(* moved: the code looks again only at the next motion.  wlroots' part is  *)
(* the seat's pointer focus and its buttons, drags, and the constraint     *)
(* objects.                                                                *)
(***************************************************************************)
EXTENDS FiniteSets

CONSTANTS
    Surfaces,  \* the surfaces of windows, each with a border around it
    Buttons,
    Left,      \* BTN_LEFT moves with Super held, and resizes on a border
    Right,     \* BTN_RIGHT resizes with Super held
    None

Kinds  == {"confined", "locked", "oneshot"}  \* a oneshot one is a lock too
Places == (Surfaces \X {"surface", "border"}) \cup {None}

ASSUME PointerAssumption ==
    /\ {Left, Right} \subseteq Buttons
    /\ Left # Right
    /\ None \notin Surfaces \cup Kinds \cup (Surfaces \X {"surface", "border"})

VARIABLES
    under,       \* what is under the cursor
    pointer,     \* the seat's pointer focus
    held,        \* buttons held down
    seatButtons, \* those the seat counts
    told,        \* those the surface with the pointer believes held
    pressed,     \* the surface that was sent the seat's grab serial
    op,          \* the window of the interactive grab: server->op_window
    constraint,  \* the constraint object of each surface
    active,      \* server->active_constraint, by its surface
    listening,   \* the constraint whose destroy signal is listened to
    obeyed,      \* surfaces that were told their constraint is active
    dragging     \* server->dragging: a client's drag has the pointer

buttonVars == <<held, seatButtons, told, pressed>>
constraintVars == <<constraint, active, listening, obeyed>>
vars == <<under, pointer, buttonVars, op, constraintVars, dragging>>

TypeOK ==
    /\ under \in Places
    /\ pointer \in Surfaces \cup {None}
    /\ held \subseteq Buttons
    /\ seatButtons \subseteq Buttons
    /\ told \subseteq Buttons
    /\ pressed \in Surfaces \cup {None}
    /\ op \in Surfaces \cup {None}
    /\ constraint \in [Surfaces -> Kinds \cup {None}]
    /\ active \in Surfaces \cup {None}
    /\ listening \in Surfaces \cup {None}
    /\ obeyed \subseteq Surfaces
    /\ dragging \in BOOLEAN

SurfaceAt(t) == IF t # None /\ t[2] = "surface" THEN t[1] ELSE None

-----------------------------------------------------------------------------
(* Constraints.  Their record is threaded through the calls of one handler.*)

Constraints ==
    [object |-> constraint, active |-> active, listening |-> listening,
     obeyed |-> obeyed]

SetConstraints(c) ==
    /\ constraint' = c.object
    /\ active' = c.active
    /\ listening' = c.listening
    /\ obeyed' = c.obeyed

\* wlroots destroys the object and signals it: constraint_destroy runs only
\* if it listens there.
Destroyed(c, s) ==
    [c EXCEPT !.object[s] = None, !.obeyed = @ \ {s},
              !.active = IF c.listening = s THEN None ELSE @,
              !.listening = IF @ = s THEN None ELSE @]

\* wlr_pointer_constraint_v1_send_deactivated: a oneshot one ends with it,
\* before the call returns.
Deactivated(c, s) ==
    IF c.object[s] = "oneshot" THEN Destroyed(c, s)
    ELSE [c EXCEPT !.obeyed = @ \ {s}]

\* The active constraint is let go.  With mutants: the listener stays, or
\* the client is not told.
ReleasedOnly(c) == IF c.active = None THEN c ELSE Deactivated(c, c.active)
ReleasedSilently(c) == [c EXCEPT !.listening = None]
Released(c) ==
    IF c.active = None THEN c
    ELSE [Deactivated(c, c.active) EXCEPT !.listening = None]

\* honey_constraint_check of the surface s, or of none.  With a mutant that
\* activates whatever it found.
CheckedBlindly(c, s) ==
    LET wanted == IF s # None /\ c.object[s] # None THEN s ELSE None
    IN  IF wanted = c.active THEN c
        ELSE [Released(c) EXCEPT !.active = wanted, !.listening = wanted,
                                 !.obeyed = @ \cup {wanted}]
Checked(c, s) ==
    LET wanted == IF s # None /\ c.object[s] # None THEN s ELSE None
        after == [Released(c) EXCEPT !.active = wanted]
    IN  IF wanted = c.active THEN c
        ELSE IF wanted = None THEN after
        ELSE [after EXCEPT !.listening = wanted, !.obeyed = @ \cup {wanted}]

\* handle_new_constraint
NewConstraint(s, kind) ==
    LET made == [Constraints EXCEPT !.object[s] = kind] IN
    /\ constraint[s] = None
    /\ SetConstraints(IF pointer = s THEN Checked(made, s) ELSE made)
    /\ UNCHANGED <<under, pointer, buttonVars, op, dragging>>

\* The client drops its constraint.
DropConstraint(s) ==
    /\ constraint[s] # None
    /\ SetConstraints(Destroyed(Constraints, s))
    /\ UNCHANGED <<under, pointer, buttonVars, op, dragging>>

-----------------------------------------------------------------------------
(* Motion *)

\* The seat's pointer focus moves to s, or to none; what a client was told
\* of buttons ends with its focus.
Enter(s) ==
    /\ pointer' = s
    /\ told' = IF s = pointer THEN told ELSE {}

\* pointer_focus.  A drag keeps the pointer: the surface is only a target.
PointerFocus(s) ==
    /\ IF dragging THEN UNCHANGED <<pointer, told>> ELSE Enter(s)
    /\ SetConstraints(Checked(Constraints, s))

\* The cursor is now over t; a grab (op_motion) hides that from clients.
Move(t) ==
    /\ under' = t
    /\ IF op # None
       THEN UNCHANGED <<pointer, told, constraintVars>>
       ELSE PointerFocus(SurfaceAt(t))
    /\ UNCHANGED <<held, seatButtons, pressed, op, dragging>>

\* cursor_motion: a lock pins the cursor, only relative motion is sent.
Pinned == active # None /\ constraint[active] # "confined"
Motion(t) == ~Pinned /\ Move(t)

\* cursor_motion_absolute (a tablet, a remote desktop): never pinned.
MotionAbsolute(t) == Move(t)

\* Windows are shown, hidden, raised or moved under the cursor.
SceneChanges(t) ==
    /\ under' = t
    /\ UNCHANGED <<pointer, buttonVars, op, constraintVars, dragging>>

\* A window goes: its grab ends (honey_window_handle_unmap), its surface is
\* destroyed and with it its constraint.  It may come again.
DestroySurface(s) ==
    /\ under' = IF under # None /\ under[1] = s THEN None ELSE under
    /\ pointer' = IF pointer = s THEN None ELSE pointer
    /\ told' = IF pointer = s THEN {} ELSE told
    /\ pressed' = IF pressed = s THEN None ELSE pressed
    /\ op' = IF op = s THEN None ELSE op
    /\ SetConstraints(IF constraint[s] = None THEN Constraints
                      ELSE Destroyed(Constraints, s))
    /\ UNCHANGED <<held, seatButtons, dragging>>

-----------------------------------------------------------------------------
(* Buttons *)

\* wlr_seat_pointer_notify_button, a press: the first of several gives the
\* serial that may start a drag.
NotifyPress(b) ==
    /\ seatButtons' = seatButtons \cup {b}
    /\ told' = IF pointer = None THEN told ELSE told \cup {b}
    /\ pressed' = IF Cardinality(seatButtons') = 1 /\ pointer # None
                  THEN pointer ELSE pressed
    /\ UNCHANGED <<pointer, op>>

\* op_begin: clients lose the pointer.  The constraints are not looked at.
\* With a mutant that leaves them the pointer.
BeginOpOnly(w) ==
    /\ op' = w
    /\ UNCHANGED <<pointer, told, seatButtons, pressed>>
BeginOp(w) ==
    /\ op' = w
    /\ Enter(None)
    /\ UNCHANGED <<seatButtons, pressed>>

\* What asks for a grab: Super with a button over a window, or the left
\* button on its border if resize-on-border is set.
AsksGrab(b, super, onBorder) ==
    /\ under # None
    /\ \/ super /\ b \in {Left, Right}
       \/ onBorder /\ b = Left /\ under[2] = "border"

\* cursor_button, a press.  The grab of a window that covers its workspace
\* is refused, and the press is lost.
Press(b) ==
    /\ b \notin held
    /\ held' = held \cup {b}
    /\ \E super, onBorder \in BOOLEAN :
          IF AsksGrab(b, super, onBorder)
          THEN \/ BeginOp(under[1])
               \/ UNCHANGED <<op, pointer, seatButtons, told, pressed>>
          ELSE NotifyPress(b)
    /\ UNCHANGED <<under, constraintVars, dragging>>

\* wlr_seat_pointer_notify_button, a release: a drag ends with the last
\* button the seat counts, or with the one that started it.  With a mutant
\* for a binding that keeps the release.
NotifyReleaseQuietly(b) ==
    /\ UNCHANGED <<told, seatButtons, dragging>>
NotifyRelease(b) ==
    /\ seatButtons' = seatButtons \ {b}
    /\ told' = told \ {b}
    /\ \/ dragging' = FALSE
       \/ dragging' = dragging /\ (seatButtons' # {} \/ ~dragging)

\* cursor_button, a release: in a grab, whichever button comes up ends it
\* (op_end) and is not passed on.
Release(b) ==
    /\ b \in held
    /\ held' = held \ {b}
    /\ IF op # None
       THEN op' = None /\ UNCHANGED <<seatButtons, told, dragging>>
       ELSE NotifyRelease(b) /\ UNCHANGED op
    /\ UNCHANGED <<under, pointer, pressed, constraintVars>>

-----------------------------------------------------------------------------
(* Drag and drop *)

\* request_start_drag of the client of s with the serial it was sent, if
\* wlr_seat_validate_pointer_grab_serial; then handle_start_drag.
ValidSerial(s) ==
    /\ pressed = s
    /\ pointer = s
    /\ Cardinality(seatButtons) = 1
StartDrag(s) ==
    /\ ~dragging
    /\ ValidSerial(s)
    /\ dragging' = TRUE
    /\ Enter(None)
    /\ UNCHANGED <<under, held, seatButtons, pressed, op, constraintVars>>

\* The drag's source goes away: drag_destroy.
CancelDrag ==
    /\ dragging
    /\ dragging' = FALSE
    /\ UNCHANGED <<under, pointer, buttonVars, op, constraintVars>>

-----------------------------------------------------------------------------

Init ==
    /\ under = None /\ pointer = None
    /\ held = {} /\ seatButtons = {} /\ told = {} /\ pressed = None
    /\ op = None
    /\ constraint = [s \in Surfaces |-> None]
    /\ active = None /\ listening = None /\ obeyed = {}
    /\ dragging = FALSE

Next ==
    \/ \E t \in Places : Motion(t) \/ MotionAbsolute(t) \/ SceneChanges(t)
    \/ \E b \in Buttons : Press(b) \/ Release(b)
    \/ \E s \in Surfaces :
          \/ \E kind \in Kinds : NewConstraint(s, kind)
          \/ DropConstraint(s) \/ DestroySurface(s) \/ StartDrag(s)
    \/ CancelDrag

Spec == Init /\ [][Next]_vars

-----------------------------------------------------------------------------
(* Properties *)

(* The active constraint exists and is the one whose destruction is        *)
(* listened to, so that active_constraint never dangles, though a client   *)
(* may drop it at any moment and a oneshot one ends inside the call that   *)
(* deactivates it (handlers.c:145).                                        *)
ActiveIsAlive ==
    /\ active # None => constraint[active] # None
    /\ listening = active

(* Exactly the surface whose constraint is active was told so: no client   *)
(* goes on reading relative motion after another took the pointer.         *)
OneIsTold == obeyed = IF active = None THEN {} ELSE {active}

(* While a window is moved or resized with the mouse, and while a drag     *)
(* lasts, no client has the pointer: none sees the motion or the buttons.  *)
GrabHidesPointer == op # None \/ dragging => pointer = None

(* No stuck button: the client that has the pointer believes a button is   *)
(* held only while it is, though op_end keeps releases and pointer focus   *)
(* moves with buttons down (seat.c:478).                                   *)
NoStuckButtons == told \subseteq held

-----------------------------------------------------------------------------
(* What the repository says and the code does not keep.                    *)

(* handlers.c:132 "Activate the constraint matching the pointer-focused    *)
(* surface (if any), deactivating the previous one".                       *)
ConstraintFollowsPointer == active # None /\ ~dragging => pointer = active
=============================================================================
