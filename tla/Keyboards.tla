------------------------------ MODULE Keyboards ------------------------------
(***************************************************************************)
(* The keyboards of the seat (seat.c), who they type to, and what that     *)
(* client believes is held down.  Keyboards come and go: a USB keyboard, a *)
(* program that types through the virtual-keyboard protocol, and all of    *)
(* them when the session switches VT.  Windows are taken as mapped: which  *)
(* of them gets the focus, and when, is HoneyServer's business; here any   *)
(* may.                                                                    *)
(*                                                                         *)
(* The seat itself is wlroots' wlr_seat: `seat` records the keyboard it is *)
(* set to, the surface it entered, and the keys and the Logo modifier that *)
(* surface was told of.                                                    *)
(***************************************************************************)
EXTENDS FiniteSets

CONSTANTS
    Devices,   \* the keyboards
    Virtual,   \* those made through the virtual-keyboard protocol
    Keys,
    Super,     \* the Logo key
    Switches,  \* keys that switch VT (XF86Switch_VT_n)
    Bindings,  \* what may be bound: whether Logo is held, and a key
    Defaults,  \* what is bound if there is no init script
    Windows,
    Launcher,  \* a layer surface that asks for the keyboard
    None

ASSUME KeyboardsAssumption ==
    /\ Virtual \subseteq Devices
    /\ Super \in Keys
    /\ Switches \subseteq Keys
    /\ Bindings \subseteq BOOLEAN \X Keys
    /\ Defaults \subseteq Bindings
    /\ Launcher \notin Windows
    /\ None \notin Devices \cup Windows \cup {Launcher}

VARIABLES
    keyboards,  \* server->keyboards
    down,       \* wlr_keyboard->keycodes
    logo,       \* whether wlr_keyboard->modifiers has Logo
    capable,    \* the seat advertises a keyboard
    seat,       \* the wlr_seat's keyboard state
    focused,    \* server->focused
    layer,      \* server->focused_layer
    inhibitors, \* windows with a shortcuts inhibitor
    bound       \* server->keybinds

vars == <<keyboards, down, logo, capable, seat, focused, layer, inhibitors,
          bound>>

Surfaces == Windows \cup {Launcher}

Seats ==
    [keyboard : Devices \cup {None}, surface : Surfaces \cup {None},
     keys : SUBSET Keys, logo : BOOLEAN]

TypeOK ==
    /\ keyboards \subseteq Devices
    /\ down \in [Devices -> SUBSET Keys]
    /\ logo \in [Devices -> BOOLEAN]
    /\ capable \in BOOLEAN
    /\ seat \in Seats
    /\ focused \in Windows \cup {None}
    /\ layer \in {Launcher, None}
    /\ inhibitors \subseteq Windows
    /\ bound \subseteq Bindings

-----------------------------------------------------------------------------
(* The seat, as wlroots keeps it.  Only a client that was offered a        *)
(* keyboard hears anything.                                                *)

\* wlr_seat_set_keyboard: another keyboard's modifiers are sent.
SetKeyboard(s, k) ==
    IF s.keyboard = k THEN s
    ELSE [s EXCEPT !.keyboard = k,
                   !.logo = IF s.surface # None THEN logo[k] ELSE @]

\* wlr_seat_keyboard_notify_enter: nothing if the surface was entered before.
Enter(s, x, keys) ==
    IF s.surface = x THEN s
    ELSE [s EXCEPT !.surface = x, !.keys = IF capable THEN keys ELSE {},
                   !.logo = logo[s.keyboard]]

\* wlr_seat_keyboard_notify_clear_focus
Leave(s) == [s EXCEPT !.surface = None, !.keys = {}, !.logo = FALSE]

\* wlr_seat_keyboard_notify_key
NotifyPress(s, key) ==
    IF s.surface # None /\ capable THEN [s EXCEPT !.keys = @ \cup {key}] ELSE s
NotifyRelease(s, key) == [s EXCEPT !.keys = @ \ {key}]

\* wlr_seat_keyboard_notify_modifiers
NotifyLogo(s, held) == IF s.surface # None THEN [s EXCEPT !.logo = held] ELSE s

-----------------------------------------------------------------------------
(* Focus *)

\* A surface is entered only while the seat has a keyboard.
EnterIfKeyboard(s, x, keys) ==
    IF s.keyboard = None THEN s ELSE Enter(s, x, keys[s.keyboard])

\* What the focus becomes, as the record of who has it: honey_focus_window,
\* and honey_focus_output_active with and without a window to give it to
\* (with a mutant that does not force the focused window to be entered).
FocusWindow(f, w, keys) ==
    IF f.layer # None \/ f.focused = w THEN f
    ELSE [f EXCEPT !.focused = w, !.seat = EnterIfKeyboard(@, w, keys)]
FocusActiveLazily(f, w, keys) ==
    IF w = None THEN [f EXCEPT !.focused = None, !.seat = Leave(@)]
    ELSE FocusWindow(f, w, keys)
FocusActive(f, w, keys) ==
    IF w = None THEN [f EXCEPT !.focused = None, !.seat = Leave(@)]
    ELSE FocusWindow([f EXCEPT !.focused = None], w, keys)

\* The two, for any window: what a click, a window that maps or unmaps, or a
\* command makes of it.
Refocused(f, keys) ==
    {f} \cup {FocusWindow(f, w, keys) : w \in Windows}
        \cup {FocusActive(f, w, keys) : w \in Windows \cup {None}}

Current == [focused |-> focused, layer |-> layer, seat |-> seat]

SetFocus(f) ==
    /\ focused' = f.focused
    /\ layer' = f.layer
    /\ seat' = f.seat

ChangeFocus ==
    /\ \E f \in Refocused(Current, down) : SetFocus(f)
    /\ UNCHANGED <<keyboards, down, logo, capable, inhibitors, bound>>

\* A mutant of the next one: the launcher is taken for a focused window.
MapLauncherFocused ==
    /\ layer = None
    /\ SetFocus([focused |-> Launcher, layer |-> Launcher,
                 seat |-> EnterIfKeyboard(seat, Launcher, down)])
    /\ UNCHANGED <<keyboards, down, logo, capable, inhibitors, bound>>

\* layer_focus, layer_unfocus: the launcher takes the keyboard and gives it
\* back to a window of the focused output.
MapLauncher ==
    /\ layer = None
    /\ SetFocus([focused |-> focused, layer |-> Launcher,
                 seat |-> EnterIfKeyboard(seat, Launcher, down)])
    /\ UNCHANGED <<keyboards, down, logo, capable, inhibitors, bound>>
UnmapLauncher ==
    /\ layer = Launcher
    /\ \E w \in Windows \cup {None} :
          SetFocus(FocusActive([Current EXCEPT !.layer = None], w, down))
    /\ UNCHANGED <<keyboards, down, logo, capable, inhibitors, bound>>

\* handle_new_shortcuts_inhibitor, shortcuts_inhibitor_destroy
Inhibit(w) ==
    /\ inhibitors' = IF w \in inhibitors THEN inhibitors \ {w}
                     ELSE inhibitors \cup {w}
    /\ UNCHANGED <<keyboards, down, logo, capable, seat, focused, layer, bound>>

-----------------------------------------------------------------------------
(* Bindings *)

\* What a command makes of the table, which has one entry for each
\* combination: `map`, `unmap`, and `reload` without an init script.
Added(b) == bound \cup {b}
Removed(b) == bound \ {b}
Rebound ==
    {Added(b) : b \in Bindings} \cup {Removed(b) : b \in Bindings}
        \cup {bound \cup Defaults}

\* The commands, over the control socket.
MapCommand ==
    /\ bound' \in Rebound
    /\ UNCHANGED <<keyboards, down, logo, capable, seat, focused, layer,
                   inhibitors>>

-----------------------------------------------------------------------------
(* Keys *)

\* honey_shortcuts_inhibited
Inhibited == focused # None /\ focused \in inhibitors

\* A mutant of the next one: the modifiers are those of the seat's keyboard.
HandledBySeat(k, key) ==
    \/ key \in Switches
    \/ ~Inhibited /\ seat.keyboard # None
                  /\ <<logo[seat.keyboard], key>> \in bound

\* A press that honey keeps: a VT switch, or a binding that no inhibitor
\* overrides (honey_binding_run).
Handled(k, key) ==
    \/ key \in Switches
    \/ ~Inhibited /\ <<logo[k], key>> \in bound

\* The key goes to the client: the end of keyboard_key.  With a mutant: the
\* release of a key whose press would be kept is kept.
ForwardPress(k, key) == NotifyPress(SetKeyboard(seat, k), key)
ReleaseUnlessHandled(k, key) ==
    IF Handled(k, key) THEN seat ELSE NotifyRelease(SetKeyboard(seat, k), key)
ForwardRelease(k, key) == NotifyRelease(SetKeyboard(seat, k), key)

\* The modifiers of k change after its key event: keyboard_modifiers.  With
\* a mutant that only sets the keyboard.
ModifiedQuietly(s, k, key, held) == IF key = Super THEN SetKeyboard(s, k) ELSE s
Modified(s, k, key, held) ==
    IF key = Super THEN NotifyLogo(SetKeyboard(s, k), held) ELSE s

\* keyboard_key, a press.  A binding runs its command at once, which may
\* change the focus: the window entered is told of the keys already down,
\* this one included.  The command may instead be a `map` or an `unmap`.
Press(k, key) ==
    LET keys == [down EXCEPT ![k] = @ \cup {key}]
        results == IF key \in Switches THEN {Current}
                   ELSE IF Handled(k, key) THEN Refocused(Current, keys)
                   ELSE {[Current EXCEPT !.seat = ForwardPress(k, key)]}
    IN
    /\ k \in keyboards
    /\ key \notin down[k]
    /\ down' = keys
    /\ logo' = [logo EXCEPT ![k] = @ \/ key = Super]
    /\ \E f \in results :
          /\ SetFocus([f EXCEPT !.seat = Modified(@, k, key, TRUE)])
          /\ \/ bound' = bound
             \/ /\ f = Current /\ key \notin Switches /\ Handled(k, key)
                /\ bound' \in Rebound
    /\ UNCHANGED <<keyboards, capable, inhibitors>>

\* keyboard_key, a release: always forwarded.
Release(k, key) ==
    /\ k \in keyboards
    /\ key \in down[k]
    /\ down' = [down EXCEPT ![k] = @ \ {key}]
    /\ logo' = [logo EXCEPT ![k] = @ /\ key # Super]
    /\ seat' = Modified(ForwardRelease(k, key), k, key, FALSE)
    /\ UNCHANGED <<keyboards, capable, focused, layer, inhibitors, bound>>

-----------------------------------------------------------------------------
(* Keyboards come and go *)

\* wlr_seat_set_capabilities: a client that binds the keyboard it is now
\* offered is told of what is down on it.
Offered(s) ==
    IF s.surface = None \/ s.keyboard = None THEN s
    ELSE [s EXCEPT !.keys = down[s.keyboard], !.logo = logo[s.keyboard]]

\* update_capabilities: any keyboard in the list counts, also a virtual one.
UpdateCapabilities(s) ==
    /\ capable' = (keyboards' # {})
    /\ seat' = IF ~capable' THEN [s EXCEPT !.keys = {}]
               ELSE IF capable THEN s ELSE Offered(s)

\* honey_seat_new_keyboard
AddKeyboard(k) ==
    /\ k \notin keyboards
    /\ keyboards' = keyboards \cup {k}
    /\ UNCHANGED <<down, logo, focused, layer, inhibitors, bound>>

\* A mutant of the next one: update_capabilities is forgotten.
NewKeyboardUnoffered(k) ==
    /\ k \notin Virtual
    /\ AddKeyboard(k)
    /\ seat' = SetKeyboard(seat, k)
    /\ UNCHANGED capable

\* new_input, for a keyboard, and for a pointer or any other device.
NewKeyboard(k) ==
    /\ k \notin Virtual
    /\ AddKeyboard(k)
    /\ UpdateCapabilities(SetKeyboard(seat, k))
NewDevice ==
    /\ UNCHANGED <<keyboards, down, logo, focused, layer, inhibitors, bound>>
    /\ UpdateCapabilities(seat)

\* handle_new_virtual_keyboard: the capabilities are left as they are.
NewVirtualKeyboard(k) ==
    /\ k \in Virtual
    /\ AddKeyboard(k)
    /\ seat' = SetKeyboard(seat, k)
    /\ UNCHANGED capable

\* wlroots releases what a keyboard that goes away holds, then tells of its
\* end: keyboard_destroy updates the capabilities, the seat forgets it.
Emptied(k) ==
    IF down[k] = {} THEN seat
    ELSE [SetKeyboard(seat, k) EXCEPT !.keys = @ \ down[k]]
Forgotten(s, k) == IF s.keyboard = k THEN [s EXCEPT !.keyboard = None] ELSE s
RemoveKeyboard(k) ==
    /\ k \in keyboards
    /\ keyboards' = keyboards \ {k}
    /\ down' = [down EXCEPT ![k] = {}]
    /\ logo' = [logo EXCEPT ![k] = FALSE]
    /\ UpdateCapabilities(Forgotten(Emptied(k), k))
    /\ UNCHANGED <<focused, layer, inhibitors, bound>>

-----------------------------------------------------------------------------

Init ==
    /\ keyboards = {}
    /\ down = [k \in Devices |-> {}]
    /\ logo = [k \in Devices |-> FALSE]
    /\ capable = FALSE
    /\ seat = [keyboard |-> None, surface |-> None, keys |-> {}, logo |-> FALSE]
    /\ focused = None
    /\ layer = None
    /\ inhibitors = {}
    /\ bound \in {{}, Defaults}

Next ==
    \/ \E k \in Devices :
          \/ NewKeyboard(k) \/ NewVirtualKeyboard(k) \/ RemoveKeyboard(k)
          \/ \E key \in Keys : Press(k, key) \/ Release(k, key)
    \/ NewDevice \/ ChangeFocus \/ MapLauncher \/ UnmapLauncher
    \/ \E w \in Windows : Inhibit(w)
    \/ MapCommand

Spec == Init /\ [][Next]_vars

-----------------------------------------------------------------------------
(* Properties *)

HeldOn(k) == IF k \in keyboards THEN down[k] ELSE {}

(* No stuck key: a client believes a key is held only while some keyboard  *)
(* holds it, though presses may be kept by a binding, windows entered with *)
(* keys down, keyboards unplugged and the focus moved between any two key  *)
(* events (keyboard_key keeps presses only, seat.c:126).                    *)
NoStuckKeys == seat.keys \subseteq UNION {HeldOn(k) : k \in Devices}

(* A keyboard that clients were offered is not withdrawn while any is left *)
(* in the list, the last one to go withdraws it, and a physical one is     *)
(* always offered.  Nothing is said of virtual ones that come while none   *)
(* is offered: they are only when another device comes or goes             *)
(* (seat.c:135, handlers.c:49).                                            *)
Advertised ==
    [][/\ keyboards' = {} => ~capable'
       /\ capable /\ keyboards' # {} => capable'
       /\ keyboards' \ Virtual # {} => capable']_vars

(* The client that has the keyboard sees the Logo key as the keyboard that *)
(* types to it has it, through changes of keyboard and of focus: it never  *)
(* takes a shortcut for text or text for a shortcut (seat.c:68).           *)
LogoInStep ==
    seat.surface # None /\ seat.keyboard # None =>
        seat.logo = logo[seat.keyboard]

(* Who types: with a keyboard on the seat, every change of focus or of     *)
(* launcher takes the keyboard to the launcher, or with none to the        *)
(* focused window, whatever was missed before while there was no keyboard. *)
(* A launcher that has it loses it only to nobody (window.c:335,           *)
(* layer.c:64).                                                            *)
FocusFollowed ==
    [][seat.keyboard # None /\ <<focused, layer>>' # <<focused, layer>> =>
          \/ layer' = None /\ seat.surface' = focused'
          \/ layer' # None /\ layer = None /\ seat.surface' = layer'
          \/ layer' # None /\ seat.surface' \in {seat.surface, None}]_vars

(* A bound key is for honey alone: the client that has the keyboard is not *)
(* told of its press unless its window inhibits shortcuts, from whichever  *)
(* keyboard it comes and whichever the seat is set to (seat.c:106).        *)
ShortcutsKept ==
    [][\A k \in keyboards : \A key \in down'[k] \ down[k] :
          /\ ~(focused \in inhibitors) \/ key \in Switches
          /\ key \in Switches \/ <<logo[k], key>> \in bound
          /\ seat.surface' = seat.surface
          => seat.keys' \subseteq seat.keys]_vars

-----------------------------------------------------------------------------
(* What the repository says and the code does not keep: each is violated.  *)

(* seat.c:212 "Held Logo modifier on any keyboard of the seat": a Logo key *)
(* held on any keyboard turns a button press into a grab (super_held).     *)
SuperHeld == seat.keyboard # None /\ logo[seat.keyboard]
SuperOnAnyKeyboard == (\E k \in keyboards : logo[k]) => SuperHeld

(* handlers.c:4 "virtual keyboard/pointer: injected input (wtype, ydotool, *)
(* wayvnc)": what a virtual keyboard types can be heard, so clients are    *)
(* offered a keyboard while there is one, virtual or not.                  *)
KeyboardsOffered == keyboards # {} => capable

(* README.md:321 "focus newly opened windows" and 429 "focuses the window  *)
(* under the cursor": with a keyboard plugged in and no launcher, what is  *)
(* typed goes to the focused window.                                       *)
TypingReachesFocus ==
    capable /\ layer = None /\ focused # None => seat.surface = focused
=============================================================================
