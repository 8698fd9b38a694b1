-------------------------- MODULE ServerProperties --------------------------
(***************************************************************************)
(* What the core promises: invariants and action properties of             *)
(* HoneyServer, and, in the last section, what the repository's documents  *)
(* and comments say that the code does not keep.                           *)
(***************************************************************************)
EXTENDS HoneyServer

IsLive(ws) ==
    /\ ws \in Workspace
    /\ ws[1] \in Connected
    /\ ws[2] \in spaces[ws[1]]

(* The intrusive list of windows holds each window once, every mapped      *)
(* window, and none that was freed: wl_list_insert and wl_list_remove are  *)
(* called in eight handlers and each must keep placed, mapped and the list *)
(* in step (window.c, seat.c).                                             *)
ListOK ==
    /\ NoDuplicates(windows)
    /\ mapped \subseteq Listed
    /\ Listed \subseteq alive \cap (X11 \cup configured)
    /\ Listed \ mapped \subseteq configured

(* Outputs: each is listed once, its active workspace exists, and some     *)
(* output is focused exactly while there is one.                           *)
OutputsOK ==
    /\ NoDuplicates(outputs)
    /\ \A o \in Connected : active[o] \in spaces[o]
    /\ focus.output \in Connected \cup {Null}
    /\ focus.output = Null => outputs = <<>>

(* No listed window points at a freed workspace: unplugging an output      *)
(* frees all of its workspaces (output.c).                                 *)
HomesLive == \A w \in Listed : home[w] = Null \/ IsLive(home[w])

(* The focused window is mapped and on a live workspace, so that the many  *)
(* reads of server->focused->workspace->output are safe.                   *)
FocusLive ==
    focus.window # Null =>
        /\ focus.window \in mapped
        /\ IsLive(home[focus.window])

(* The focused window is the one told it is active and drawn as active,    *)
(* and unless a launcher holds the keyboard it is the one that gets keys.  *)
FocusCoherent ==
    /\ focus.window # Null =>
           focus.window \in focus.activated \cap focus.highlighted
    /\ focus.layer # Null => focus.layer \in layerMapped
    /\ focus.layer = Null /\ focus.window # Null =>
           focus.keyboard = focus.window

(* The scene shows the listed windows of the active workspaces, except     *)
(* those still choosing their size, and no other (layout.c:295).           *)
ShownExactly == \A w \in Listed : w \in shown <=> Visible(w)

(* workspace-back always goes somewhere else, and to a workspace that was  *)
(* visited unless none was (action.c:98).                                  *)
BackElsewhere ==
    \A o \in Connected :
        /\ previous[o] # active[o]
        /\ previous[o] \in spaces[o] \cup {0}

(* With a monitor that is never unplugged no listed window is without a    *)
(* workspace, and the program never dereferences a missing one.            *)
NoOrphans ==
    Builtin # Null =>
        /\ \A w \in Listed : home[w] # Null
        /\ crash \notin {"orphan", "no output"}

OnActive(w) == home[w] # Null /\ active[home[w][1]] = home[w][2]

(* No handler hides the focused window and leaves it the focus: whatever   *)
(* takes a focused window off the active workspaces moves the focus too.   *)
NeverHidesFocus ==
    [][focus.window # Null /\ focus'.window = focus.window
         /\ OnActive(focus.window) => OnActive(focus.window)']_vars

(* While a launcher holds the keyboard no window takes the focus or the    *)
(* keyboard, whatever maps, switches, moves or is unplugged.               *)
LayerKeepsKeyboard ==
    [][focus.layer # Null /\ focus'.layer = focus.layer =>
         /\ focus'.window \in {focus.window, Null}
         /\ focus'.keyboard \in {focus.keyboard, Null}]_vars

(* A window changes workspace only if the user moved it (it is focused or  *)
(* grabbed) or its output went away: nothing else drags windows along.     *)
WindowsStayPut ==
    [][\A w \in mapped \cap mapped' :
          home'[w] # home[w] =>
              \/ w \in {focus.window, op.window}
              \/ home[w] # Null /\ home[w][1] \notin Connected']_vars

(* With a monitor that stays, the core implements Desktop: a listed window *)
(* is open at its workspace, reserved slots included.                      *)
Places == INSTANCE Desktop WITH
              current <- [o \in Connected |-> active[o]],
              place <- [w \in Windows |-> IF w \in Listed THEN home[w]
                                          ELSE Null]
ImplementsDesktop == Places!Spec

(* Clients answer: one that was asked for its size commits it.             *)
FairSpec ==
    Spec /\ \A w \in Windows : WF_vars(crash = "none" /\ CommitSize(w))

(* A floating window that is hidden until it commits its own size is shown *)
(* in the end if its client answers and it keeps floating, whatever else   *)
(* happens to it meanwhile (window.c:691, layout.c:302).                   *)
FloatsSettle ==
    \A w \in Windows :
        w \in mapped /\ state[w].pending /\ state[w].floating
            ~> \/ w \notin mapped \/ crash # "none"
               \/ ~state[w].pending \/ ~state[w].floating

-----------------------------------------------------------------------------
(* What the repository says and the code does not keep: each is violated.  *)

(* README.md:297 "border-color-active ... focused window border", and 298  *)
(* "border-color-inactive ... unfocused window border".                    *)
OnlyFocusedHighlighted ==
    focus.highlighted \cap shown \cap mapped \subseteq {focus.window}

(* workspace.c:3 "a window carries a workspace pointer": every mapped      *)
(* window has one whenever there is an output to have it on.               *)
EveryWindowHasHome ==
    outputs # <<>> => \A w \in mapped : home[w] # Null

(* layout.c:302 "stays hidden until it commits it (window_commit clears    *)
(* the flag)": whether it floats on or not, if its client answers.         *)
PendingSettles ==
    \A w \in Windows :
        w \in mapped /\ state[w].pending
            ~> w \notin mapped \/ ~state[w].pending \/ crash # "none"

(* layer.c:5 "Keyboard-interactive surfaces (launchers) take keyboard      *)
(* focus while mapped".                                                    *)
LauncherHasKeyboard ==
    LET launchers == layerMapped \cap Interactive IN
    launchers # {} => focus.keyboard \in launchers

=============================================================================
