----------------------------- MODULE StatusStream -----------------------------
(***************************************************************************)
(* The status stream (status.c) that bars read over the control socket     *)
(* (ipc.c): a snapshot when a client subscribes, then, whenever a handler  *)
(* broadcasts, the lines that differ from the last broadcast ones.  There  *)
(* are two about each output, on its workspaces and on the window it       *)
(* shows: the focused window on the focused output, the first window of    *)
(* its workspace on the others.  Both tell whether the output is focused.  *)
(* Not every handler that changes a line broadcasts after the change.      *)
(***************************************************************************)
EXTENDS Integers

CONSTANTS
    Clients,   \* programs that use the control socket (honeyctl, bars)
    Residents, \* the bars that subscribed at startup, stay, and keep reading
    Outputs,
    Spaces,    \* what may be said of an output's workspaces
    Titles,    \* what may be said of a window: app_id and title, or nothing
    Texts,     \* the workspaces and the first window an output may have
    None

VARIABLES
    text,     \* each output's workspaces and the first window of the active
              \* one, as the lines have them; None if it is unplugged
    focused,  \* server->focused_output
    window,   \* what is said of server->focused, None if there is none
    launcher, \* server->focused_layer is set
    gamma,    \* server->gamma_temperature, server->gamma_brightness
    sent,     \* output->status_workspaces, output->status_window
    client,   \* the connections (struct honey_ipc_client)
    view,     \* the last line each client got about each output
    level     \* the last line each client got about the night light

vars == <<text, focused, window, launcher, gamma, sent, client, view, level>>

Topics == Outputs \X {"workspaces", "window"}
Lines == (Spaces \cup Titles) \X {"focused", "unfocused"}
NoView == [p \in Topics |-> None]
Plugged == {o \in Outputs : text[o] # None}

\* Whole Kelvin, 0 if it is off, and whole percents.
Levels == [temperature : {0} \cup 1000 .. 10000, brightness : 0 .. 100]

ASSUME StreamAssumption ==
    /\ Residents \subseteq Clients
    /\ Texts \subseteq [spaces : Spaces, first : Titles]
    /\ None \notin Outputs \cup Titles
    /\ None \notin Texts /\ None \notin Lines /\ None \notin Levels

\* What may be said of a set of outputs.
TextsOf(S) ==
    {t \in [Outputs -> Texts \cup {None}] : {o \in Outputs : t[o] # None} = S}

\* "deaf": a subscriber that does not read: its socket is or was full, send()
\* does not block and its result is ignored, so any line may be lost.  Nothing
\* is promised to it, so what it gets is not followed.
TypeOK ==
    /\ text \in [Outputs -> Texts \cup {None}]
    /\ focused \in IF Plugged = {} THEN {None} ELSE Plugged
    /\ window \in Titles \cup {None}
    /\ launcher \in BOOLEAN
    /\ gamma \in Levels
    /\ sent \in [Topics -> Lines \cup {None}]
    /\ client \in [Clients -> {"away", "connected", "subscriber", "deaf"}]
    /\ view \in [Clients -> [Topics -> Lines \cup {None}]]
    /\ level \in [Clients -> Levels \cup {None}]
    /\ \A p \in Topics : p[1] \notin Plugged => sent[p] = None
    /\ \A c \in Clients, p \in Topics :
          view[c][p] # None <=> client[c] = "subscriber" /\ p[1] \in Plugged

-----------------------------------------------------------------------------
(* Lines and broadcasts *)

\* format_workspaces, format_window: the lines if the outputs had the texts t,
\* f had the focus, and w was said of the focused window, wherever it is.
LinesOf(t, f, w) ==
    [p \in Topics |->
        IF t[p[1]] = None THEN None
        ELSE <<IF p[2] = "workspaces" THEN t[p[1]].spaces
               ELSE IF p[1] = f /\ w # None THEN w ELSE t[p[1]].first,
               IF p[1] = f THEN "focused" ELSE "unfocused">>]

Snapshot == LinesOf(text, focused, window)

Subscribers == {c \in Clients : client[c] \in {"subscriber", "deaf"}}

\* send_to_subscribers; the lines about an output that is gone mean nothing.
SendLines(lines, changed) ==
    view' = [c \in Clients |-> [p \in Topics |->
                IF lines[p] = None THEN None
                ELSE IF client[c] = "subscriber" /\ p \in changed THEN lines[p]
                ELSE view[c][p]]]

\* honey_status_broadcast; the cached lines of an output end with it.
Broadcast(lines) ==
    /\ sent' = [p \in Topics |->
                   IF Subscribers # {} \/ lines[p] = None THEN lines[p]
                   ELSE sent[p]]
    /\ SendLines(lines, {p \in Topics : sent[p] # lines[p]})

-----------------------------------------------------------------------------
(* Handlers *)

\* A mutant of the next one: honey_focus_window does not broadcast.
ChangeUnlessFocus(t, f, w, l) ==
    /\ text' = t /\ focused' = f /\ window' = w /\ launcher' = l
    /\ IF t = text /\ l = launcher THEN UNCHANGED <<sent, view>>
       ELSE Broadcast(LinesOf(t, f, w))
    /\ UNCHANGED <<gamma, client, level>>

\* A handler that arranges, focuses, renames or retitles, then broadcasts; it
\* may be the one that gives the keyboard to a launcher or takes it away.
Change(t, f, w, l) ==
    /\ text' = t /\ focused' = f /\ window' = w /\ launcher' = l
    /\ Broadcast(LinesOf(t, f, w))
    /\ UNCHANGED <<gamma, client, level>>

\* honey_switch_workspace, honey_action_move_to_workspace and
\* honey_window_handle_unmap under a launcher: arrange, then
\* honey_focus_output_active, which forgets the focused window, and
\* honey_focus_window, which returns before it broadcasts.
SwitchUnderLauncher(t, g, v, f) ==
    /\ launcher
    /\ g \in {focused, f} /\ v \in {window, None}
    /\ text' = t /\ focused' = f /\ window' = None
    /\ Broadcast(LinesOf(t, g, v))
    /\ UNCHANGED <<launcher, gamma, client, level>>

\* pointer_focus over no window; honey_focus_window on the focused window;
\* focus-output under a launcher.
FocusSilently(f, w) ==
    /\ w = window \/ (launcher /\ w = None)
    /\ focused' = f /\ window' = w
    /\ UNCHANGED <<text, launcher, gamma, sent, client, view, level>>

\* handle_new_output: the layout's change event arranges while the output has
\* no workspace and maybe no focus; what it gets afterwards is not broadcast.
Plug(o, said, t) ==
    /\ o \notin Plugged
    /\ text' = [text EXCEPT ![o] = t]
    /\ focused' = IF focused = None THEN o ELSE focused
    /\ Broadcast(LinesOf([text EXCEPT ![o] = said], focused, window))
    /\ UNCHANGED <<window, launcher, gamma, client, level>>

\* output_destroy: the windows are arranged on the outputs that are left, then
\* the first of these is focused: heard, or unheard under a launcher.
Unplug(o, t, g, v, f, w) ==
    /\ o \in Plugged
    /\ \/ g = f /\ v = w
       \/ launcher /\ g \in {focused, f} \ {o} /\ v = window /\ w = None
    /\ text' = t /\ focused' = f /\ window' = w
    /\ Broadcast(LinesOf(t, g, v))
    /\ UNCHANGED <<launcher, gamma, client, level>>

\* A mutant of the next one: subscribers are not told.
SetGammaOnly(l) ==
    /\ gamma' = l
    /\ UNCHANGED <<text, focused, window, launcher, sent, client, view, level>>

\* honey_gamma_set
SetGamma(l) ==
    /\ gamma' = l
    /\ level' = [c \in Clients |-> IF client[c] = "subscriber" THEN l
                                   ELSE level[c]]
    /\ UNCHANGED <<text, focused, window, launcher, sent, client, view>>

-----------------------------------------------------------------------------
(* Connections *)

\* handle_listen
Connect(c) ==
    /\ client[c] = "away"
    /\ client' = [client EXCEPT ![c] = "connected"]
    /\ UNCHANGED <<text, focused, window, launcher, gamma, sent, view, level>>

\* Mutants of the next one: no snapshot; a snapshot that counts as a broadcast.
SubscribeOnly(c) ==
    /\ client[c] \in {"connected", "subscriber"}
    /\ client' = [client EXCEPT ![c] = "subscriber"]
    /\ UNCHANGED <<text, focused, window, launcher, gamma, sent, view, level>>
SubscribeAsBroadcast(c) ==
    /\ client[c] \in {"connected", "subscriber"}
    /\ client' = [client EXCEPT ![c] = "subscriber"]
    /\ view' = [view EXCEPT ![c] = Snapshot]
    /\ level' = [level EXCEPT ![c] = gamma]
    /\ sent' = Snapshot
    /\ UNCHANGED <<text, focused, window, launcher, gamma>>

\* handle_client, subscribe: also by a client that is subscribed.
Subscribe(c) ==
    /\ client[c] \in {"connected", "subscriber"}
    /\ client' = [client EXCEPT ![c] = "subscriber"]
    /\ view' = [view EXCEPT ![c] = Snapshot]
    /\ level' = [level EXCEPT ![c] = gamma]
    /\ UNCHANGED <<text, focused, window, launcher, gamma, sent>>

\* A client that is not or no longer followed as a subscriber.
Lose(c, state) ==
    /\ client' = [client EXCEPT ![c] = state]
    /\ view' = [view EXCEPT ![c] = NoView]
    /\ level' = [level EXCEPT ![c] = None]
    /\ UNCHANGED <<text, focused, window, launcher, gamma, sent>>

\* client_drop: after any other command was answered, or at the end of file.
Drop(c) == client[c] # "away" /\ Lose(c, "away")

FillUp(c) == client[c] = "subscriber" /\ Lose(c, "deaf")

-----------------------------------------------------------------------------
Init ==
    /\ \E S \in SUBSET Outputs :
          /\ text \in TextsOf(S)
          /\ focused \in IF S = {} THEN {None} ELSE S
    /\ window \in Titles \cup {None}
    /\ launcher = FALSE
    /\ gamma = [temperature |-> 0, brightness |-> 100]
    /\ sent = NoView
    /\ client = [c \in Clients |-> IF c \in Residents THEN "subscriber"
                                   ELSE "away"]
    /\ view = [c \in Clients |-> IF c \in Residents THEN Snapshot ELSE NoView]
    /\ level = [c \in Clients |-> IF c \in Residents THEN gamma ELSE None]

Focusable == Titles \cup {None}

ChangeStep ==
    \E t \in TextsOf(Plugged), f \in Plugged, w \in Focusable, l \in BOOLEAN :
        Change(t, f, w, l)
FocusStep ==
    \E f \in Plugged :
        \/ \E w \in Focusable : FocusSilently(f, w)
        \/ \E t \in TextsOf(Plugged), g \in Plugged, v \in Focusable :
               SwitchUnderLauncher(t, g, v, f)
PlugStep(o) == \E said, t \in Texts : Plug(o, said, t)
UnplugStep(o) ==
    LET rest == Plugged \ {o}
        foci == IF rest = {} THEN {None} ELSE rest
    IN  \E t \in TextsOf(rest), g, f \in foci, v, w \in Focusable :
            Unplug(o, t, g, v, f, w)
ClientStep ==
    \E c \in Clients \ Residents :
        Connect(c) \/ Subscribe(c) \/ Drop(c) \/ FillUp(c)

Next ==
    \/ ChangeStep \/ FocusStep \/ ClientStep
    \/ \E o \in Outputs : PlugStep(o) \/ UnplugStep(o)
    \/ \E l \in Levels : SetGamma(l)

Spec == Init /\ [][Next]_vars

-----------------------------------------------------------------------------
(* Properties *)

\* Something other than which output is focused changed behind the lines; under
\* a launcher, which keeps honey_focus_window from broadcasting, something
\* other than which window is focused, too.
Changed == text' # text \/ (window' # window /\ ~launcher')

\* The lines that must be right after that: those of all outputs but, under a
\* launcher, the ones that lose or get the focus.
Announced ==
    {p \in Topics : /\ p[1] \in Plugged
                    /\ launcher' => p[1] \notin {focused, focused'}}

(* When an output's workspaces or windows change or another window gets    *)
(* the focus, every subscriber that keeps reading has all lines as they    *)
(* now are, or the last broadcast said what the line says (status.c:165).  *)
(* These lines depend on the focused output, which pointer_focus moves     *)
(* without a broadcast (seat.c:395): what it left untold is told here.     *)
ChangesArrive ==
    [][Changed =>
          \A c \in Clients, p \in Announced :
              client[c] = "subscriber" =>
                  view'[c][p] = Snapshot'[p] \/ sent[p] = Snapshot'[p]]_vars

(* A bar that subscribed at startup is right about all outputs after every *)
(* such change, whoever subscribes and leaves meanwhile, whatever was      *)
(* plugged in or out before, and though it was wrong about two outputs     *)
(* since the pointer wandered from one to the other.                       *)
ResidentsInStep ==
    [][Changed =>
          \A c \in Residents, p \in Announced :
              view'[c][p] = Snapshot'[p]]_vars

(* Subscribers that keep reading always know the night light (gamma.c:104  *)
(* "any gamma change ... flows through here, so subscribers stay in sync   *)
(* however it was driven").                                                *)
GammaInStep ==
    \A c \in Clients : client[c] = "subscriber" => level[c] = gamma

-----------------------------------------------------------------------------
(* What the repository says and the code does not keep: each is violated.  *)

(* README.md:561-563: a subscriber gets "a snapshot on connect, then a     *)
(* line whenever something changes"; once a change of the state has been   *)
(* broadcast, a subscriber that keeps reading is right about every output. *)
SubscribersInStep ==
    [][text' # text =>
          \A c \in Clients, p \in Topics :
              client[c] = "subscriber" => view'[c][p] = Snapshot'[p]]_vars

(* status.c:3-6: a line is "emitted on connect and whenever that output's  *)
(* slice changes".  Where the focused output moves and nothing else        *)
(* changes, no launcher about, a bar that stays knows of both outputs.     *)
FocusMovesTold ==
    [][/\ focused' # focused /\ UNCHANGED <<text, window>> /\ ~launcher
       => \A c \in Residents : view'[c] = Snapshot']_vars
=============================================================================
