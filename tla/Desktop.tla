------------------------------- MODULE Desktop -------------------------------
(***************************************************************************)
(* What the window manager promises about places, without saying how: an   *)
(* open window is on one workspace of a monitor that is plugged in; only   *)
(* one window is sent elsewhere at a time; switching the workspace of a    *)
(* monitor moves no window; and the windows of a monitor that goes away    *)
(* stay together, on a workspace that is in view on a remaining monitor.   *)
(***************************************************************************)
CONSTANTS Windows, Outputs, Numbers, Null

VARIABLES
    current,  \* the workspace in view on each monitor that is plugged in
    place     \* the workspace of each open window; Null if it is not open

vars == <<current, place>>

Plugged == DOMAIN current
Places  == Plugged \X Numbers

Init ==
    /\ \E o \in Outputs : current = [p \in {o} |-> 1]
    /\ place = [w \in Windows |-> Null]

\* A window opens on any workspace, or an open one is sent to another.
Put(w) ==
    /\ \E ws \in Places : place' = [place EXCEPT ![w] = ws]
    /\ UNCHANGED current

Close(w) ==
    /\ place' = [place EXCEPT ![w] = Null]
    /\ UNCHANGED current

Switch(o) ==
    /\ \E n \in Numbers : current' = [current EXCEPT ![o] = n]
    /\ UNCHANGED place

Plug(o) ==
    /\ current' = [p \in Plugged \cup {o} |-> IF p = o THEN 1 ELSE current[p]]
    /\ UNCHANGED place

\* The windows of the monitor that goes away all move to one heir.
Unplug(o, heir) ==
    /\ current' = [p \in Plugged \ {o} |-> current[p]]
    /\ place' = [w \in Windows |->
                    IF place[w] # Null /\ place[w][1] = o
                    THEN <<heir, current[heir]>>
                    ELSE place[w]]

Next ==
    \/ \E w \in Windows : Put(w) \/ Close(w)
    \/ \E o \in Plugged : Switch(o)
    \/ \E o \in Outputs \ Plugged : Plug(o)
    \/ \E o \in Plugged : \E heir \in Plugged \ {o} : Unplug(o, heir)

Spec == Init /\ [][Next]_vars
=============================================================================
