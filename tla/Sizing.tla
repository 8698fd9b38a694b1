-------------------------------- MODULE Sizing --------------------------------
(***************************************************************************)
(* Who decides how big a window is: honey_window_configure asks the client *)
(* for a content size, the client acknowledges and commits in its own      *)
(* time, and window_commit takes a commit either as the answer or as the   *)
(* client's own wish, which a floating window gets (window.c, action.c).   *)
(* X11 windows have no acknowledgements; their wishes arrive as configure  *)
(* requests (xwayland.c).  One mapped window that is in view, in one       *)
(* dimension; its border lies inside the box that the layout gives it.     *)
(***************************************************************************)
EXTENDS Integers, Sequences

CONSTANTS
    Border,     \* border-size
    Tiles,      \* sizes the layout may give the window
    Screen,     \* the size of the output
    Seed,       \* float-width of the output
    Drags,      \* sizes the user may drag the window to
    Naturals,   \* sizes the client may want
    MaxChanges  \* how often the user, the layout or the client changes its mind

ASSUME SizingAssumption ==
    /\ Border \in Nat
    /\ MaxChanges \in Nat
    /\ \A size \in Tiles \cup Drags \cup {Screen, Seed} :
          size \in Nat /\ size > 2 * Border
    /\ Naturals \subseteq Nat \ {0}

VARIABLES
    x11,        \* window->type == HONEY_WINDOW_X11
    rigid,      \* the client keeps its own size whatever it is asked for
    floating, full,  \* window->floating, window->fullscreen
    pending,    \* window->float_pending_app_size
    tile,       \* the size of the window's tile
    float,      \* window->float_geom
    requested,  \* window->requested, the content size last asked for
    gate,       \* window->resize_serial
    next,       \* the serial of the newest configure
    due,        \* that configure is scheduled and not sent yet (wlroots)
    wanted,     \* the size in the newest configure; 0: the client's choice
    sent,       \* the configures the client has not acknowledged
    answered,   \* the one it acknowledged last
    geometry,   \* the size of its last commit
    natural,    \* the size the client wants
    changes     \* how many changes of mind there were

modes == <<floating, full, pending, tile, float>>
wire  == <<gate, next, due, wanted>>
client == <<sent, answered, geometry, natural>>
vars == <<x11, rigid, modes, requested, wire, client, changes>>

\* Sizes are int in the code, too: nothing keeps a border from eating a window.
Configures == [serial : Nat, size : Int]

\* What the client has been sent and has acknowledged, in order.
Ordered(s, a) ==
    /\ s \in Seq(Configures)
    /\ a \in Configures
    /\ a.serial \leq next
    /\ \A i \in DOMAIN s : a.serial < s[i].serial /\ s[i].serial \leq next
    /\ \A i, j \in DOMAIN s : i < j => s[i].serial < s[j].serial
    /\ due => a.serial < next /\ \A i \in DOMAIN s : s[i].serial < next

TypeOK ==
    /\ x11 \in BOOLEAN /\ rigid \in BOOLEAN
    /\ floating \in BOOLEAN /\ full \in BOOLEAN /\ pending \in BOOLEAN
    /\ tile \in Tiles
    /\ float \in Int /\ requested \in Int
    /\ next \in Nat /\ gate \in 0 .. next
    /\ due \in BOOLEAN /\ wanted \in Int
    /\ geometry \in Int /\ natural \in Int
    /\ changes \in 0 .. MaxChanges
    /\ x11 => ~pending
    /\ Ordered(sent, answered)

-----------------------------------------------------------------------------
(* The end of every handler: honey_arrange places the window. *)

\* place_untiled, or the layout; place_window takes the border off.
Content(f, full_, box, t) ==
    IF full_ THEN Screen ELSE (IF f THEN box ELSE t) - 2 * Border

\* A scheduled configure that was not sent takes later changes in.
Serial == IF due THEN next ELSE next + 1

Schedule(size) ==
    /\ due' = TRUE
    /\ next' = Serial
    /\ wanted' = size

\* honey_window_configure for XDG: a client that is to choose is asked to,
\* each time; a size is asked for once.  `informs`: new states were sent too.
Ask(size, gate0, informs) ==
    IF pending' THEN Schedule(0) /\ gate' = gate0
    ELSE IF size # requested THEN Schedule(size) /\ gate' = Serial
    ELSE /\ gate' = gate0
         /\ IF informs THEN Schedule(wanted) ELSE UNCHANGED <<next, due, wanted>>

\* What follows the assignment of new modes, in a handler that leaves the
\* client's last commit at `committed`.
Arrange(gate0, informs, committed) ==
    LET size == Content(floating', full', float', tile') IN
    /\ requested' = size
    /\ IF x11
       THEN /\ geometry' = IF size # requested THEN size ELSE committed
            /\ UNCHANGED wire
       ELSE /\ geometry' = committed
            /\ Ask(size, gate0, informs)

-----------------------------------------------------------------------------
(* Handlers of the server *)

Change ==
    /\ changes < MaxChanges
    /\ changes' = changes + 1
    /\ UNCHANGED <<x11, rigid>>

ServerChange == Change /\ UNCHANGED <<sent, answered, natural>>

\* Another window opens or closes: honey_arrange gives this one another tile.
Retile(t) ==
    /\ ServerChange
    /\ t # tile
    /\ tile' = t
    /\ UNCHANGED <<floating, full, pending, float>>
    /\ Arrange(gate, FALSE, geometry)

\* Only an XDG client is asked for its own size: an X11 window tells.  With a
\* mutant that asks both.
AnyChooses(app) == app
Chooses(app) == app /\ ~x11

\* honey_action_toggle_float, honey_float_seed; `app` is float-app-size.
ToggleFloat(app) ==
    /\ ServerChange
    /\ floating' = ~floating
    /\ full' = FALSE
    /\ IF floating THEN UNCHANGED <<pending, float>>
       ELSE /\ float' = IF app /\ x11 THEN geometry ELSE Seed
            /\ pending' = (pending \/ Chooses(app))
    /\ UNCHANGED tile
    /\ Arrange(gate, TRUE, geometry)

\* window_parent_changed, xdg_float_natural: a tiled window turns out to be a
\* dialog, and is asked for its own size.
ParentChanged ==
    /\ ServerChange
    /\ ~x11
    /\ ~floating /\ ~full
    /\ floating' = TRUE
    /\ float' = geometry
    /\ pending' = TRUE
    /\ UNCHANGED <<full, tile>>
    /\ Arrange(0, TRUE, geometry)

\* honey_window_handle_request_fullscreen: the window floats as before.
RequestFullscreen ==
    /\ ServerChange
    /\ full' = ~full
    /\ UNCHANGED <<floating, pending, tile, float>>
    /\ Arrange(gate, TRUE, geometry)

\* op_begin and op_motion of a resize: a tiled window floats in place first.
Drag(size) ==
    /\ ServerChange
    /\ ~full
    /\ floating' = TRUE
    /\ float' = size
    /\ UNCHANGED <<full, pending, tile>>
    /\ Arrange(gate, FALSE, geometry)

\* xwayland.c handle_request_configure: the wish of an X11 client.
RequestConfigure(size) ==
    /\ ServerChange
    /\ x11
    /\ float' = IF floating THEN size ELSE float
    /\ UNCHANGED <<floating, full, pending, tile>>
    /\ Arrange(gate, FALSE, geometry)

\* wlroots sends what was scheduled once the handlers have run.
SendConfigure ==
    /\ due
    /\ due' = FALSE
    /\ sent' = Append(sent, [serial |-> next, size |-> wanted])
    /\ UNCHANGED <<x11, rigid, modes, requested, gate, next, wanted, answered,
                   geometry, natural, changes>>

-----------------------------------------------------------------------------
(* window_commit, with the serial the commit acknowledges and its size *)

Keep(size) ==
    /\ geometry' = size
    /\ UNCHANGED <<modes, requested, next, due, wanted>>

\* A mutant of the next one: any commit is taken for an answer.
TakenAtOnce(serial) == TRUE

\* While a resize is in flight, commits carry the geometry of before.
Answers(serial) == gate = 0 \/ serial >= gate

\* The size the client was asked to choose, or its own resize.
Adopt(size) ==
    /\ pending' = FALSE
    /\ float' = IF pending THEN size ELSE size + 2 * Border
    /\ UNCHANGED <<floating, full, tile>>
    /\ Arrange(0, FALSE, size)

\* A mutant of the next one: a resize of the client is not followed.
CommittedOnce(serial, size) ==
    IF ~floating \/ ~Answers(serial) THEN Keep(size) /\ UNCHANGED gate
    ELSE IF pending THEN Adopt(size)
    ELSE Keep(size) /\ gate' = 0

Committed(serial, size) ==
    IF ~floating \/ ~Answers(serial) THEN Keep(size) /\ UNCHANGED gate
    ELSE IF pending \/ float # size + 2 * Border THEN Adopt(size)
    ELSE Keep(size) /\ gate' = 0

\* The client acknowledges the n-th configure it was sent and commits; asked
\* for 0, or if it insists, the size is its own.
Acknowledge(n) ==
    LET size == IF sent[n].size = 0 \/ rigid THEN natural ELSE sent[n].size IN
    /\ ~x11
    /\ sent' = SubSeq(sent, n + 1, Len(sent))
    /\ answered' = sent[n]
    /\ Committed(sent[n].serial, size)
    /\ UNCHANGED <<x11, rigid, natural, changes>>

\* It draws the next frame.
Redraw ==
    /\ ~x11
    /\ Committed(answered.serial, geometry)
    /\ UNCHANGED <<x11, rigid, sent, answered, natural, changes>>

\* It resizes itself, and acknowledges nothing.
ResizeItself(size) ==
    /\ ~x11
    /\ Change
    /\ natural' = size
    /\ Committed(answered.serial, size)
    /\ UNCHANGED <<sent, answered>>

-----------------------------------------------------------------------------
\* The window was mapped into its tile and the client has answered.
Init ==
    /\ x11 \in BOOLEAN /\ rigid \in BOOLEAN
    /\ floating = FALSE /\ full = FALSE /\ pending = FALSE
    /\ tile \in Tiles
    /\ float = 0
    /\ requested = tile - 2 * Border
    /\ gate = IF x11 THEN 0 ELSE 1
    /\ next = 1
    /\ due = FALSE
    /\ wanted = requested
    /\ sent = <<>>
    /\ answered = [serial |-> 1, size |-> requested]
    /\ natural \in Naturals
    /\ geometry = IF rigid /\ ~x11 THEN natural ELSE requested
    /\ changes = 0

ServerStep ==
    \/ \E t \in Tiles : Retile(t)
    \/ \E app \in BOOLEAN : ToggleFloat(app)
    \/ \E size \in Drags : Drag(size)
    \/ \E size \in Naturals : RequestConfigure(size)
    \/ ParentChanged \/ RequestFullscreen \/ SendConfigure

ClientStep ==
    \/ \E n \in DOMAIN sent : Acknowledge(n)
    \/ \E size \in Naturals : ResizeItself(size)
    \/ Redraw

Next == ServerStep \/ ClientStep

\* wlroots sends, and the client answers the newest configure and draws.
FairSpec ==
    /\ Init /\ [][Next]_vars
    /\ WF_vars(SendConfigure)
    /\ WF_vars(sent # <<>> /\ Acknowledge(Len(sent)))
    /\ WF_vars(Redraw)

-----------------------------------------------------------------------------
(* Properties *)

(* No commit from before a resize undoes it: the size of a floating window *)
(* follows its client only after that has acknowledged the newest size it  *)
(* was asked for, unless it was asked to choose (window.c:718).            *)
ResizeNotFought ==
    [][ClientStep /\ float' # float /\ ~pending =>
          wanted \in {0, answered'.size}]_vars

(* Once everybody has made up their minds, a client that answers and draws *)
(* is shown, and the border of a floating window frames it, whatever       *)
(* happened in whatever order before (window.c:732).                       *)
BorderFits ==
    <>[](floating /\ ~full => ~pending /\ requested = geometry)

(* window.c:732 "Track a client that resizes itself ... so the border      *)
(* keeps framing the actual window": a floating size follows the client    *)
(* when it resizes itself, and otherwise stays what it was.                *)
OnlyOwnResizesFollowed ==
    [][\A n \in DOMAIN sent :
          Acknowledge(n) /\ ~pending /\ ~rigid => float' = float]_vars

(* window.c:512 "float at the client's own size"; layout.c:302 "stays      *)
(* hidden until it commits it": what is adopted is what the client chose.  *)
OwnSizeAdopted ==
    [][pending /\ ~pending' => geometry' = natural']_vars

(* xwayland.c:382 "a mapped floating window gets its request".             *)
RequestGranted ==
    [][\A size \in Naturals :
          RequestConfigure(size) /\ floating /\ ~full => geometry' = size]_vars
=============================================================================
