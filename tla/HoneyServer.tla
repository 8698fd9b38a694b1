----------------------------- MODULE HoneyServer -----------------------------
(***************************************************************************)
(* The compositor's core (struct honey_server): windows and the list that  *)
(* is the tiling order, outputs and their workspaces, keyboard focus       *)
(* (windows and layer surfaces), the pointer grab, and which windows the   *)
(* scene shows.  The program is one thread around one event loop: every    *)
(* handler runs to its end before the next one starts, so every action     *)
(* below is one whole handler.  Geometry is abstracted; where the code     *)
(* picks by position (the window under the cursor, the output to the       *)
(* left) the action picks any candidate.                                   *)
(*                                                                         *)
(* A dereference of a pointer that is NULL, freed or unlinked ends the     *)
(* program: it sets `crash` to its cause and nothing happens after it.     *)
(***************************************************************************)
EXTENDS WindowList, WindowState

CONSTANTS
    Windows,     \* the windows clients may create
    X11,         \* those that are XWayland windows; the others are XDG
    Dialogs,     \* those that may want to float when they map
    Outputs,     \* the monitors that may be plugged in
    Builtin,     \* a monitor that is there from the start to the end, or Null
    Layers,      \* layer surfaces (bars, launchers)
    Interactive, \* those that ask for the keyboard
    Numbers,     \* workspace numbers in use
    Configs,     \* settings the user may switch between
    Rules,       \* combinations of rules that may match a new window
    Requests,    \* what clients ask for: "fullscreen", "maximize"
    Commands,    \* the actions that are bound to a key or sent over IPC
    Null

Workspace == Outputs \X Numbers

\* The configuration keys that steer the handlers below.
Config ==
    [master : BOOLEAN,            \* new-window-master
     focusNew : BOOLEAN,          \* focus-new
     exitFullscreen : BOOLEAN,    \* exit-fullscreen-on-new
     appSize : BOOLEAN,           \* float-app-size
     drop : BOOLEAN]              \* drop-at-cursor

\* The rules that match one window: at most one workspace rule, which comes
\* before at most two others, and whether a no-focus rule is among them.
Rule ==
    [target : Workspace \cup {Null}, first : RuleKinds, second : RuleKinds,
     noFocus : BOOLEAN]

ASSUME ServerAssumption ==
    /\ X11 \subseteq Windows
    /\ Dialogs \subseteq Windows
    /\ Builtin \in Outputs \cup {Null}
    /\ Interactive \subseteq Layers
    /\ Numbers \subseteq Int
    /\ {0, 1} \subseteq Numbers
    /\ Configs \subseteq Config
    /\ Rules \subseteq Rule
    /\ Windows \cap Layers = {}
    /\ Null \notin Windows \cup Outputs \cup Layers \cup Workspace

VARIABLES
    alive,       \* windows whose struct honey_window exists
    configured,  \* XDG windows whose initial commit was answered
    mapped,      \* window->mapped
    windows,     \* server->windows, in tiling order (window->placed)
    home,        \* window->workspace
    state,       \* the flags of the window (WindowState)
    shown,       \* windows whose border tree the scene has enabled
    op,          \* the pointer grab: server->op, op_window, op_was_tiled
    outputs,     \* server->outputs, the newest first
    active,      \* output->active
    spaces,      \* output->workspaces
    previous,    \* output->previous_number
    layerOutput, \* layer->output of the layer surfaces that exist
    layerMapped, \* the mapped layer surfaces
    focus,       \* who has the focus
    crash        \* why the program ended, or "none"

windowVars == <<alive, configured, mapped, windows, home, state>>
outputVars == <<outputs, active, spaces, previous>>
layerVars  == <<layerOutput, layerMapped>>
vars == <<windowVars, shown, op, outputVars, layerVars, focus, crash>>

Freed == "freed"  \* a pointer to an output that was destroyed

Grabs ==
    [kind : {"none", "move", "resize"}, window : Windows \cup {Null},
     tiled : BOOLEAN]

Focuses ==
    [window : Windows \cup {Null},                \* server->focused
     output : Outputs \cup {Null},                \* server->focused_output
     layer : Layers \cup {Null},                  \* server->focused_layer
     keyboard : Windows \cup Layers \cup {Null},  \* the seat's focus
     activated : SUBSET Windows,                 \* told they are active
     highlighted : SUBSET Windows]               \* drawn as active

TypeOK ==
    /\ alive \subseteq Windows
    /\ configured \subseteq Windows
    /\ mapped \subseteq Windows
    /\ windows \in Seq(Windows)
    /\ home \in [Windows -> Workspace \cup {Null}]
    /\ state \in [Windows -> WindowStates]
    /\ shown \subseteq Windows
    /\ op \in Grabs
    /\ outputs \in Seq(Outputs)
    /\ active \in [Outputs -> Numbers]
    /\ spaces \in [Outputs -> SUBSET Numbers]
    /\ previous \in [Outputs -> Numbers]
    /\ layerOutput \in [Layers -> Outputs \cup {Null, Freed}]
    /\ layerMapped \subseteq Layers
    /\ focus \in Focuses
    /\ crash \in {"none", "orphan", "no output", "freed output",
                  "freed window", "unlinked window"}

-----------------------------------------------------------------------------
(* Helpers *)

Listed    == ToSet(windows)
Connected == ToSet(outputs)
ActiveOf(o) == <<o, active[o]>>

\* The first element of s in the set S, or Null.
FirstOf(s, S) ==
    LET IsFirst(i) == s[i] \in S /\ \A j \in 1 .. i - 1 : s[j] \notin S
    IN  IF \E i \in DOMAIN s : IsFirst(i)
        THEN s[CHOOSE i \in DOMAIN s : IsFirst(i)]
        ELSE Null

MappedOn(ws) == {w \in mapped : home[w] = ws}

\* The element of S that follows w in the circular list, in either direction.
Neighbour(w, S, direction) ==
    LET Distance(v) ==
            ((IndexOf(windows, v) - IndexOf(windows, w)) * direction)
                % Len(windows)
        IsNext(v) == \A u \in S : Distance(v) <= Distance(u)
    IN  IF \E v \in S : IsNext(v) THEN CHOOSE v \in S : IsNext(v) ELSE Null

\* The focus f goes to window w on output o.
GiveFocus(f, w, o) ==
    IF f.window = w THEN [f EXCEPT !.output = o]
    ELSE [f EXCEPT !.output = o, !.window = w, !.keyboard = w,
                   !.activated = (@ \ {f.window}) \cup {w},
                   !.highlighted = (@ \ {f.window}) \cup {w}]

\* honey_focus_window(w), w mapped on output o.
FocusWindow(f, w, o) == IF f.layer # Null THEN f ELSE GiveFocus(f, w, o)

\* A mutant of the next one: the focused window is not focused again.
FocusOutputLazily(f, o, first) ==
    IF first # Null
    THEN FocusWindow([f EXCEPT !.output = o], first, o)
    ELSE [f EXCEPT !.output = o, !.window = Null, !.keyboard = Null,
                   !.activated = @ \ {f.window}]

\* honey_focus_output_active(o) where `first` is the first window mapped on
\* its active workspace.
FocusOutputActive(f, o, first) ==
    IF first # Null
    THEN FocusWindow([f EXCEPT !.output = o, !.window = Null], first, o)
    ELSE [f EXCEPT !.output = o, !.window = Null, !.keyboard = Null,
                   !.activated = @ \ {f.window}]

\* The same, once the handler has changed windows and workspaces.
FocusActive(f, o) ==
    FocusOutputActive(f, o,
        FirstOf(windows', {w \in mapped' : home'[w] = <<o, active'[o]>>}))

\* honey_arrange: the scene shows exactly the listed windows it computes as
\* visible; the nodes of a window that is not in the list keep what they had.
Visible(w) ==
    /\ w \in mapped
    /\ ~state[w].pending
    /\ home[w] # Null
    /\ active[home[w][1]] = home[w][2]
Arranged == (shown \ Listed') \cup {w \in Listed' : Visible(w)'}
Arrange == shown' = Arranged

Crash(cause) ==
    /\ crash' = cause
    /\ UNCHANGED <<windowVars, shown, op, outputVars, layerVars, focus>>

Opened(ws) == [spaces EXCEPT ![ws[1]] = @ \cup {ws[2]}]

-----------------------------------------------------------------------------
(* Window lifecycle *)

\* new_xdg_toplevel, managed_show: the border rectangles are visible at once.
CreateWindow(w) ==
    /\ w \notin alive
    /\ alive' = alive \cup {w}
    /\ home' = [home EXCEPT ![w] = Null]
    /\ state' = [state EXCEPT ![w] = NewState]
    /\ shown' = shown \cup {w}
    /\ UNCHANGED <<configured, mapped, windows, op, outputVars, layerVars,
                   focus, crash>>

\* The list with w at its head or its tail; once only.
Listing(w, c) == IF c.master THEN <<w>> \o windows ELSE Append(windows, w)
Placed(w, c) == IF w \in Listed THEN windows ELSE Listing(w, c)

\* window_commit, initial commit: a window that will tile reserves its slot.
ReserveWindow(w) ==
    /\ focus.output # Null
    /\ home' = [home EXCEPT ![w] = ActiveOf(focus.output)]
    /\ \E c \in Configs : windows' = Listing(w, c)
    /\ UNCHANGED <<mapped, state, active>>
    /\ Arrange
InitialCommit(w) ==
    /\ w \in alive \ (X11 \cup configured)
    /\ configured' = configured \cup {w}
    /\ \/ ReserveWindow(w)
       \/ /\ w \in Dialogs \/ focus.output = Null
          /\ UNCHANGED <<mapped, windows, home, state, active, shown>>
    /\ UNCHANGED <<alive, op, outputs, spaces, previous, layerVars, focus,
                   crash>>

\* honey_window_handle_map
MapOn(w, ws, states, c, focusing) ==
    /\ mapped' = mapped \cup {w}
    /\ windows' = Placed(w, c)
    /\ home' = [home EXCEPT ![w] = ws]
    /\ state' = states
    /\ spaces' = IF ws = Null THEN spaces ELSE Opened(ws)
    /\ focus' = IF focusing /\ ws # Null THEN FocusWindow(focus, w, ws[1])
                ELSE focus
    /\ UNCHANGED active
    /\ Arrange
    /\ UNCHANGED <<alive, configured, op, outputs, previous, layerVars, crash>>

MapWindow(w) ==
    \E dialog \in {FALSE} \cup {w \in Dialogs}, r \in Rules, c \in Configs :
    LET xdg == w \notin X11
        here == IF w \in Listed THEN home[w] ELSE ActiveOf(focus.output)
        ws == IF r.target # Null /\ r.target[1] \in Connected THEN r.target
              ELSE here
        floated == IF ~dialog THEN state[w]
                   ELSE IF xdg /\ w \in Listed THEN Natural(Dialog(state[w]))
                   ELSE Dialog(state[w])
        ruled == Ruled(Ruled(floated, r.first, xdg), r.second, xdg)
        states == [state EXCEPT ![w] = ruled]
        covering == {v \in Listed : /\ v \in mapped \cup {w}
                                    /\ (IF v = w THEN ws ELSE home[v]) = ws
                                    /\ IsCovering(states[v])}
        focusing == /\ c.focusNew /\ ~r.noFocus
                    /\ c.exitFullscreen \/ covering = {}
    IN
    /\ w \in alive \ mapped
    /\ w \in X11 \cup configured
    /\ IF w \notin Listed /\ focus.output = Null THEN Crash("no output")
       ELSE IF \/ here = Null /\ dialog
               \/ ws = Null /\ (RuleFloats(r.first) \/ RuleFloats(r.second))
               \/ ws = Null /\ focusing /\ focus.layer = Null
       THEN Crash("orphan")
       ELSE MapOn(w, ws,
                  IF c.exitFullscreen
                  THEN [v \in Windows |-> IF v \in covering
                                          THEN Cleared(states[v])
                                          ELSE states[v]]
                  ELSE states,
                  c, focusing)

\* honey_window_handle_unmap: the grab ends with its window, and the focus
\* moves to the window's output.
UnmapWindow(w) ==
    LET o == IF home[w] # Null THEN home[w][1] ELSE focus.output
        f == IF focus.window = w THEN [focus EXCEPT !.window = Null] ELSE focus
    IN
    /\ w \in mapped
    /\ mapped' = mapped \ {w}
    /\ configured' = configured \ {w}
    /\ windows' = Without(windows, w)
    /\ op' = IF op.window = w THEN [op EXCEPT !.kind = "none", !.window = Null]
             ELSE op
    /\ UNCHANGED <<alive, home, state, active>>
    /\ Arrange
    /\ focus' = IF o = Null THEN f ELSE FocusActive(f, o)
    /\ UNCHANGED <<outputs, spaces, previous, layerVars, crash>>

\* window_destroy, handle_dissociate
DestroyWindow(w) ==
    /\ w \in alive \ mapped
    /\ alive' = alive \ {w}
    /\ configured' = configured \ {w}
    /\ windows' = IF w \in Listed THEN Without(windows, w) ELSE windows
    /\ home' = [home EXCEPT ![w] = Null]
    /\ state' = [state EXCEPT ![w] = NewState]
    /\ UNCHANGED <<mapped, active>>
    /\ shown' = (IF w \in Listed THEN Arranged ELSE shown) \ {w}
    /\ focus' = [focus EXCEPT !.activated = @ \ {w}, !.highlighted = @ \ {w},
                              !.keyboard = IF @ = w THEN Null ELSE @]
    /\ UNCHANGED <<op, outputs, spaces, previous, layerVars, crash>>

\* A mutant of SetState: the arrange is forgotten.
SetStateOnly(w, s) ==
    /\ state' = [state EXCEPT ![w] = s]
    /\ UNCHANGED <<alive, configured, mapped, windows, home, shown, op,
                   outputVars, layerVars, focus, crash>>

\* honey_window_apply_state: the arrange that follows new flags shows or
\* hides the window.
SetState(w, s) ==
    /\ state' = [state EXCEPT ![w] = s]
    /\ UNCHANGED <<alive, configured, mapped, windows, home, op, outputVars,
                   layerVars, focus, crash>>
    /\ Arrange

\* window_commit of a mapped floating window that is not resizing: the size
\* it was asked to choose is adopted, or its own resize is followed.
CommitSize(w) ==
    /\ w \in mapped \ X11
    /\ state[w].floating
    /\ state[w].pending \/ state[w].centred
    /\ IF home[w] = Null THEN Crash("orphan")
       ELSE state[w].pending /\ SetState(w, Adopted(state[w]))

\* window_parent_changed
ParentChanged(w) ==
    /\ w \in Dialogs \cap (mapped \ X11)
    /\ IsTiled(state[w])
    /\ IF home[w] = Null THEN Crash("orphan")
       ELSE SetState(w, Natural(Dialog(state[w])))

\* honey_window_handle_request_fullscreen, ..._maximize
RequestFullscreen(w) ==
    /\ "fullscreen" \in Requests
    /\ w \in mapped
    /\ \E wanted \in BOOLEAN : SetState(w, RequestedFullscreen(state[w], wanted))
RequestMaximize(w) ==
    /\ "maximize" \in Requests
    /\ w \in mapped
    /\ HonorsMaximize(state[w])
    /\ \E wanted \in BOOLEAN : SetState(w, RequestedMaximize(state[w], wanted))

-----------------------------------------------------------------------------
(* Focus *)

SetFocus(f) ==
    /\ focus' = f
    /\ UNCHANGED <<windowVars, shown, op, outputVars, layerVars, crash>>

\* honey_focus_window(w) and nothing else: a click, the pointer over the
\* window, a taskbar's activate request, an activation token.
ActivateWindow(w) ==
    /\ w \in mapped
    /\ IF home[w] = Null
       THEN focus.layer = Null /\ Crash("orphan")
       ELSE SetFocus(FocusWindow(focus, w, home[w][1]))

\* pointer_focus over an output and no window: only the focused output moves.
PointerOverOutput(o) ==
    /\ "follow-mouse" \in Commands
    /\ o \in Connected
    /\ SetFocus([focus EXCEPT !.output = o])

FocusOnOutput(o) ==
    /\ UNCHANGED <<windowVars, outputVars>>
    /\ focus' = FocusActive(focus, o)
    /\ UNCHANGED <<shown, op, layerVars, crash>>

\* action_run, focus-output
FocusOutput(o) ==
    /\ "focus-output" \in Commands
    /\ o \in Connected
    /\ FocusOnOutput(o)

\* honey_action_focus
FocusNext(direction) ==
    LET w == focus.window
        next == Neighbour(w, MappedOn(home[w]) \ {w}, direction)
    IN
    /\ "focus-next" \in Commands
    /\ w # Null
    /\ next # Null
    /\ SetFocus(FocusWindow(focus, next, home[next][1]))

\* honey_action_focus_dir: the search reads the workspace of every mapped
\* window; with no window that way, the adjacent output.
FocusDirection ==
    LET others == mapped \ {focus.window} IN
    /\ "focus-dir" \in Commands
    /\ focus.output # Null
    /\ IF \E w \in others : home[w] = Null THEN Crash("orphan")
       ELSE \/ \E w \in others :
                  /\ active[home[w][1]] = home[w][2]
                  /\ SetFocus(FocusWindow(focus, w, home[w][1]))
            \/ \E o \in Connected \ {focus.output} : FocusOnOutput(o)

-----------------------------------------------------------------------------
(* Workspaces *)

\* honey_switch_workspace: nothing happens if n is already active.
ShowWorkspace(o, n) ==
    /\ spaces' = Opened(<<o, n>>)
    /\ previous' = [previous EXCEPT ![o] = active[o]]
    /\ active' = [active EXCEPT ![o] = n]
    /\ UNCHANGED <<windowVars, op, outputs, layerVars, crash>>
    /\ Arrange
    /\ focus' = FocusActive(focus, o)
SwitchWorkspace(o, n) == active[o] # n /\ ShowWorkspace(o, n)

\* honey_action_workspace (any number is taken), honey_action_workspace_back
WorkspaceCommand(n) ==
    /\ "workspace" \in Commands
    /\ focus.output # Null
    /\ SwitchWorkspace(focus.output, n)
WorkspaceBack ==
    /\ "workspace-back" \in Commands
    /\ focus.output # Null
    /\ SwitchWorkspace(focus.output, previous[focus.output])

\* A mutant of the next one: it does not wrap.
WorkspaceAdvance(direction) ==
    /\ "workspace-next" \in Commands
    /\ focus.output # Null
    /\ SwitchWorkspace(focus.output, active[focus.output] + direction)

\* honey_action_workspace_cycle: the next existing number, wrapping.
WorkspaceCycle(direction) ==
    LET o == focus.output
        beyond == {n \in spaces[o] : (n - active[o]) * direction > 0}
        candidates == IF beyond = {} THEN spaces[o] \ {active[o]} ELSE beyond
    IN
    /\ "workspace-next" \in Commands
    /\ o # Null
    /\ \E n \in candidates :
          /\ \A m \in candidates : (m - n) * direction >= 0
          /\ SwitchWorkspace(o, n)

\* ext-workspace handle_commit: a bar activates a workspace of any output.
ExtActivate(o, n) ==
    /\ "ext-workspace" \in Commands
    /\ o \in Connected
    /\ n \in spaces[o]
    /\ SwitchWorkspace(o, n)

\* The IPC commands set-ws and workspace-name create the workspace they name.
SetWorkspace(o, n) ==
    /\ "set-ws" \in Commands
    /\ o \in Connected
    /\ n >= 1
    /\ spaces' = Opened(<<o, n>>)
    /\ UNCHANGED <<windowVars, op, outputs, active, previous, layerVars, focus,
                   crash>>
    /\ Arrange

SendWindow(w, ws) ==
    /\ home' = [home EXCEPT ![w] = ws]
    /\ spaces' = Opened(ws)
    /\ UNCHANGED <<alive, configured, mapped, windows, state, op, outputs,
                   active, previous, layerVars, crash>>
    /\ Arrange

\* A mutant of the next one: the focus stays with the window that left.
SendFocused(n) ==
    /\ "move-to-workspace" \in Commands
    /\ focus.window # Null
    /\ SendWindow(focus.window, <<home[focus.window][1], n>>)
    /\ UNCHANGED focus

\* honey_action_move_to_workspace: the window stays on its output.
MoveToWorkspace(n) ==
    LET w == focus.window
        o == home[w][1]
    IN
    /\ "move-to-workspace" \in Commands
    /\ w # Null
    /\ SendWindow(w, <<o, n>>)
    /\ focus' = FocusActive(focus, o)

\* honey_action_move_to_output
MoveToOutput(o) ==
    LET w == focus.window IN
    /\ "move-to-output" \in Commands
    /\ w # Null
    /\ o \in Connected \ {home[w][1]}
    /\ SendWindow(w, ActiveOf(o))
    /\ focus' = FocusWindow([focus EXCEPT !.output = o], w, o)

-----------------------------------------------------------------------------
(* Tiling order and window states *)

SetOrder(order) ==
    /\ windows' = order
    /\ UNCHANGED <<alive, configured, mapped, home, state, op, outputVars,
                   layerVars, focus, crash>>
    /\ Arrange

TiledOn(ws) == {w \in MappedOn(ws) : IsTiled(state[w])}

\* honey_action_swap
SwapNext(direction) ==
    LET w == focus.window
        other == Neighbour(w, TiledOn(home[w]) \ {w}, direction)
    IN
    /\ "swap-next" \in Commands
    /\ w # Null
    /\ IsTiled(state[w])
    /\ other # Null
    /\ SetOrder(Swapped(windows, w, other))

\* honey_action_swap_master: with the first tiled window, or if that is the
\* focused one with the tiled window after it.
SwapMaster ==
    LET w == focus.window
        first == FirstOf(windows, TiledOn(home[w]))
        other == IF first # w THEN first
                 ELSE Neighbour(w, TiledOn(home[w]) \ {w}, 1)
    IN
    /\ "swap-master" \in Commands
    /\ w # Null
    /\ IsTiled(state[w])
    /\ other # Null
    /\ SetOrder(Swapped(windows, w, other))

\* honey_action_swap_dir
SwapDirection ==
    LET w == focus.window IN
    /\ "swap-dir" \in Commands
    /\ w # Null
    /\ IsTiled(state[w])
    /\ \E other \in TiledOn(home[w]) \ {w} :
          SetOrder(Swapped(windows, w, other))

\* honey_action_toggle_float, _fullscreen, _maximize, _fake_fullscreen
Toggle ==
    LET w == focus.window IN
    /\ w # Null
    /\ \/ /\ "toggle-float" \in Commands
          /\ \E c \in Configs :
                SetState(w, ToggleFloat(state[w], w \notin X11, c.appSize))
       \/ "fullscreen" \in Commands /\ SetState(w, ToggleFullscreen(state[w]))
       \/ "maximize" \in Commands /\ SetState(w, ToggleMaximize(state[w]))
       \/ "fake-fullscreen" \in Commands /\ SetState(w, ToggleFake(state[w]))

-----------------------------------------------------------------------------
(* The pointer grab: move and resize with the mouse *)

\* cursor_button, op_begin: any window under the cursor, its border included,
\* even if the grab of another one has not ended.
BeginGrab(w, kind) ==
    /\ kind \in Commands
    /\ w \in shown
    /\ ~IsCovering(state[w])
    /\ state' = [state EXCEPT ![w] = Grabbed(@)]
    /\ op' = [kind |-> kind, window |-> w, tiled |-> IsTiled(state[w])]
    /\ focus' = IF w \in mapped THEN FocusWindow(focus, w, home[w][1])
                ELSE focus
    /\ UNCHANGED <<alive, configured, mapped, windows, home, shown, outputVars,
                   layerVars, crash>>

\* op_motion only moves the grabbed window's geometry.
GrabMotion ==
    /\ op.kind # "none"
    /\ op.window \notin alive
    /\ Crash("freed window")

\* drop_at_cursor: the window joins the output under the cursor and is put
\* back in the tiling order before or after the tile under the cursor.
DropAtCursor(w) ==
    \E ws \in {home[w]} \cup {ActiveOf(o) : o \in Connected} :
    LET rest == Without(windows, w)
        targets == {v \in mapped \ {w} : home[v] = ws /\ IsTiled(state[v])}
    IN
    /\ home' = [home EXCEPT ![w] = ws]
    /\ state' = [state EXCEPT ![w] = Dropped(@)]
    /\ \/ windows' = Append(rest, w)
       \/ \E v \in targets, after \in {0, 1} : windows' = Beside(rest, v, after, w)

\* op_end
EndGrab ==
    LET w == op.window IN
    /\ op.kind # "none"
    /\ \E c \in Configs :
       IF op.kind = "move" /\ op.tiled /\ c.drop /\ w \notin alive
       THEN Crash("freed window")
       ELSE IF op.kind = "move" /\ op.tiled /\ c.drop /\ w \notin Listed
       THEN Crash("unlinked window")
       ELSE /\ op' = [op EXCEPT !.kind = "none", !.window = Null]
            /\ IF op.kind = "move" /\ op.tiled /\ c.drop
               THEN DropAtCursor(w)
               ELSE UNCHANGED <<windows, home, state>>
            /\ UNCHANGED <<alive, configured, mapped, outputVars, layerVars,
                           focus, crash>>
            /\ Arrange

-----------------------------------------------------------------------------
(* Outputs *)

AddOutput(o) ==
    /\ outputs' = <<o>> \o outputs
    /\ active' = [active EXCEPT ![o] = 1]
    /\ spaces' = [spaces EXCEPT ![o] = {1}]
    /\ previous' = [previous EXCEPT ![o] = 0]
    /\ UNCHANGED <<windowVars, op, layerVars, crash>>
    /\ Arrange

\* A mutant of the next one: the first output does not get the focus.
NewOutputUnfocused(o) ==
    /\ o \notin Connected
    /\ AddOutput(o)
    /\ UNCHANGED focus

\* handle_new_output
NewOutput(o) ==
    /\ o \notin Connected
    /\ AddOutput(o)
    /\ focus' = [focus EXCEPT !.output = IF @ = Null THEN o ELSE @]

\* output_destroy: the newest other output inherits the windows of o, on
\* its active workspace.  With mutants: a search that stops at the first
\* output; windows sent to workspace 1; reserved windows, or the output of
\* every window, overlooked; the focus kept.
FirstOutput(o) == IF outputs[1] = o THEN Null ELSE outputs[1]
Fallback(o) == FirstOf(outputs, Connected \ {o})
HeirOne(o) == IF Fallback(o) = Null THEN Null ELSE <<Fallback(o), 1>>
Heir(o) == IF Fallback(o) = Null THEN Null ELSE ActiveOf(Fallback(o))
MappedThere(o) == {w \in mapped : home[w] # Null /\ home[w][1] = o}
AllThere(o) == Listed
There(o) == {w \in Listed : home[w] # Null /\ home[w][1] = o}
KeptFocus(f, fallback) == IF fallback # Null THEN FocusActive(f, fallback)
                          ELSE f
LeftFocus(f, fallback) == IF fallback # Null THEN FocusActive(f, fallback)
                          ELSE [f EXCEPT !.window = Null]

\* output_destroy, and the arrange that the layout's change event brings.
UnplugOutput(o) ==
    LET fallback == Fallback(o)
        f == IF focus.output = o THEN [focus EXCEPT !.output = fallback]
             ELSE focus
    IN
    /\ o \in Connected \ {Builtin}
    /\ outputs' = Without(outputs, o)
    /\ home' = [w \in Windows |-> IF w \in There(o) THEN Heir(o) ELSE home[w]]
    /\ active' = [active EXCEPT ![o] = 1]
    /\ spaces' = [spaces EXCEPT ![o] = {}]
    /\ previous' = [previous EXCEPT ![o] = 0]
    /\ layerOutput' = [l \in Layers |-> IF layerOutput[l] = o THEN Freed
                                        ELSE layerOutput[l]]
    /\ UNCHANGED <<alive, configured, mapped, windows, state, op,
                   layerMapped, crash>>
    /\ Arrange
    /\ focus' = LeftFocus(f, fallback)

-----------------------------------------------------------------------------
(* Layer surfaces *)

\* new_layer_surface: on the output the client names, or the focused one.
NewLayer(l, o) ==
    /\ layerOutput[l] = Null
    /\ o \in Connected
    /\ layerOutput' = [layerOutput EXCEPT ![l] = o]
    /\ UNCHANGED <<windowVars, shown, op, outputVars, layerMapped, focus, crash>>

\* layer_map: rearranged, then an interactive one takes the keyboard.
MapLayer(l) ==
    /\ layerOutput[l] # Null
    /\ l \notin layerMapped
    /\ IF layerOutput[l] = Freed THEN Crash("freed output")
       ELSE /\ layerMapped' = layerMapped \cup {l}
            /\ focus' = IF l \in Interactive
                        THEN [focus EXCEPT !.layer = l, !.keyboard = l]
                        ELSE focus
            /\ UNCHANGED <<windowVars, op, outputVars, layerOutput, crash>>
            /\ Arrange

\* layer_commit: only a rearrange.
CommitLayer(l) ==
    /\ layerOutput[l] = Freed
    /\ Crash("freed output")

\* layer_unmap: the focused one gives the focus back to the focused output.
UnmapLayer(l) ==
    /\ l \in layerMapped
    /\ IF layerOutput[l] = Freed THEN Crash("freed output")
       ELSE /\ layerMapped' = layerMapped \ {l}
            /\ UNCHANGED <<windowVars, op, outputVars, layerOutput, crash>>
            /\ focus' = IF focus.layer # l THEN focus
                        ELSE IF focus.output = Null
                        THEN [focus EXCEPT !.layer = Null]
                        ELSE FocusActive([focus EXCEPT !.layer = Null],
                                         focus.output)
            /\ Arrange

\* layer_destroy
DestroyLayer(l) ==
    /\ layerOutput[l] # Null
    /\ l \notin layerMapped
    /\ IF layerOutput[l] = Freed THEN Crash("freed output")
       ELSE /\ layerOutput' = [layerOutput EXCEPT ![l] = Null]
            /\ focus' = [focus EXCEPT !.keyboard = IF @ = l THEN Null ELSE @]
            /\ UNCHANGED <<windowVars, op, outputVars, layerMapped, crash>>
            /\ Arrange

-----------------------------------------------------------------------------
(* The server starts with the monitors it finds. *)

Init ==
    /\ alive = {} /\ configured = {} /\ mapped = {} /\ shown = {}
    /\ windows = <<>>
    /\ home = [w \in Windows |-> Null]
    /\ state = [w \in Windows |-> NewState]
    /\ op = [kind |-> "none", window |-> Null, tiled |-> FALSE]
    /\ outputs = IF Builtin = Null THEN <<>> ELSE <<Builtin>>
    /\ active = [o \in Outputs |-> 1]
    /\ spaces = [o \in Outputs |-> IF o = Builtin THEN {1} ELSE {}]
    /\ previous = [o \in Outputs |-> 0]
    /\ layerOutput = [l \in Layers |-> Null]
    /\ layerMapped = {}
    /\ focus = [window |-> Null, output |-> Builtin, layer |-> Null,
                keyboard |-> Null, activated |-> {}, highlighted |-> {}]
    /\ crash = "none"

WindowStep(w) ==
    \/ CreateWindow(w) \/ InitialCommit(w) \/ MapWindow(w) \/ UnmapWindow(w)
    \/ DestroyWindow(w) \/ CommitSize(w) \/ ParentChanged(w)
    \/ RequestFullscreen(w) \/ RequestMaximize(w) \/ ActivateWindow(w)
    \/ BeginGrab(w, "move") \/ BeginGrab(w, "resize")

OutputStep(o) ==
    \/ NewOutput(o) \/ UnplugOutput(o) \/ PointerOverOutput(o)
    \/ FocusOutput(o) \/ MoveToOutput(o)
    \/ \E n \in Numbers : ExtActivate(o, n) \/ SetWorkspace(o, n)

LayerStep(l) ==
    \/ \E o \in Outputs : NewLayer(l, o)
    \/ MapLayer(l) \/ CommitLayer(l) \/ UnmapLayer(l) \/ DestroyLayer(l)

CommandStep ==
    \/ \E d \in {1, -1} : FocusNext(d) \/ SwapNext(d) \/ WorkspaceCycle(d)
    \/ \E n \in Numbers : WorkspaceCommand(n) \/ MoveToWorkspace(n)
    \/ WorkspaceBack \/ FocusDirection \/ SwapMaster \/ SwapDirection \/ Toggle
    \/ GrabMotion \/ EndGrab

Next ==
    /\ crash = "none"
    /\ \/ \E w \in Windows : WindowStep(w)
       \/ \E o \in Outputs : OutputStep(o)
       \/ \E l \in Layers : LayerStep(l)
       \/ CommandStep

Spec == Init /\ [][Next]_vars
=============================================================================
