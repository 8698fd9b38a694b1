# honey-wm in TLA+

honey is a dynamic tiling Wayland compositor written in C on wlroots
(`src/src/*.c`, one header `honey.h`, and the control client `honeyctl.c`).
This directory holds its formal model: TLA+ modules translated from the
source, TLC configurations that check them on small instances, and proofs that
TLAPS checks for every value of the constants. `PROJECT.json` maps every
definition to the lines of C it stands for.

Paths below are relative to `src/src/` unless they start with `README`.

## 1. The system

The program is one thread around one `wl_event_loop`. Clients, the kernel and
wlroots raise events; a handler runs to its end before the next starts. So
nothing races inside a handler, but everything can happen *between* two of
them: a window is created, configured, mapped, moved, unmapped and destroyed
in separate events, and a monitor, a launcher, a mouse button or a command may
come in at every point of that life. The state is a set of intrusive lists and
raw pointers shared by all handlers (`struct honey_server`), so the hard
questions are about order, staleness and lifetime:

- a handler frees an output and its workspaces while windows, layer surfaces
  and the focus point at them;
- a flag set in one handler (`float_pending_app_size`, `placed`, `op_window`)
  must be cleared in another one, which may never run;
- a dozen handlers hand out focus, and each must leave five things in step:
  `focused`, `focused_output`, the seat's keyboard focus, the activated flag
  and the border colour;
- every handler that changes a flag, a workspace or the list must arrange,
  or the scene and the mirrors (bars, taskbars) show what no longer is.

### Components

| Component | Source | State | Operations | What makes it correct | Modelled in |
|---|---|---|---|---|---|
| Window core | `window.c` | `server->windows` (tiling order), `mapped`, `placed`, `workspace`, flags, `focused` | create, initial commit, map, unmap, destroy, client requests, rules, focus, activate | the list links each window once; flags and scene agree; one focused window, live and told so | HoneyServer, WindowState, WindowList (partly) |
| Workspaces | `workspace.c` | `output->workspaces`, `active`, `previous_number` | get or create, first window, addresses | the active one exists; windows point at live ones | HoneyServer, Desktop |
| Outputs | `output.c` | `server->outputs`, `focused_output` | plug in, unplug, frame | no pointer survives its output; its windows stay together in view | HoneyServer, Desktop (partly) |
| Actions | `action.c` | none of its own | focus, swap, workspaces, moves, toggles, master tweaks | no window lost or left focused out of view | HoneyServer, Tiling (partly) |
| Layer surfaces | `layer.c` | `layer->output`, `focused_layer`, `usable` | create, map, commit, unmap, destroy | a launcher keeps the keyboard while it is mapped | HoneyServer |
| Seat: grabs | `seat.c` | `op`, `op_window`, `op_was_tiled` | begin, motion, end, drop, click-to-focus | a drop moves only the grabbed window; a grab ends with its window | HoneyServer, Pointer (partly) |
| Seat: keyboards | `seat.c` | `keyboards`, the seat's keyboard, capabilities | plug in, unplug, keys, modifiers | no client is left with a key held; who types is who has the focus | Keyboards |
| Seat: pointer, drags | `seat.c` | `cursor`, `dragging` | motion, buttons, drags | no client sees a grab or is left with a button held | Pointer (partly) |
| Layouts and tiling | `layout.c`, `config.c` | settings, per-workspace overrides, `geom` | master, spiral, grid; arrange; scene; foreign outputs | tiles inside the usable area, apart, filling it | Layouts, Tiling (partly) |
| Float size handshake | `window.c`, `action.c` | `resize_serial`, `float_geom`, `requested`, `float_pending_app_size` | configure, ack, commit | no late commit undoes a resize; the border frames the window | Sizing (partly) |
| Status stream | `status.c` | cached lines, subscribers | snapshot, diffed broadcast | what a change says reaches every subscriber, with all that was left untold before | StatusStream |
| Night light | `gamma.c` | temperature, brightness, floor, ceiling, transforms | the command, per output update | every output has the transform of the current setting | NightLight |
| ext-workspace mirror | `ext-workspace.c` | handles and groups | sync after arrange, activate | equals the workspaces | Mirrors |
| Taskbars | `window.c`, `layout.c` | `foreign`, `foreign_output` | create, enter, leave | a taskbar lists what is in view | Mirrors (partly) |
| Key bindings | `binding.c` | the table of bindings | parse, add, remove, run | a bound key stays with honey | Keyboards (partly) |
| Extra protocols | `handlers.c`, `protocols.c` | inhibitors, constraints, tokens | activation, idle, pointer constraints, shortcuts | one constraint is active, alive, and its client knows | Pointer, Keyboards, HoneyServer (partly) |
| XWayland | `xwayland.c` | managed and override-redirect windows | associate, map, configure, scale | managed windows behave like XDG ones | HoneyServer, Sizing (partly) |
| IPC, configuration | `ipc.c`, `config.c`, `honeyctl.c` | settings, rules, connections | one command per connection, files at startup | a command does all or nothing and answers | the commands that change the state above |
| Output management | `output-mgmt.c` | wlroots' output states | apply, test, `output` command | a rejected configuration changes nothing | no |
| xdg-output, decorations, input devices, startup | `xdg-output.c`, `decoration.c`, `input.c`, `main.c` | resources, none, none, setup order | answer requests | I/O | no |

They interact by direct calls on the shared server: almost every operation ends
in `honey_arrange` (boxes, scene, suspended and foreign state, then
`honey_ext_workspace_sync` and `honey_status_broadcast`), and many go on to
`honey_focus_window` or `honey_focus_output_active`. Bars, taskbars and
`honeyctl` see the mirrors those calls keep.

## 2. The modules

```
WindowState ---+
WindowList ----+-- HoneyServer -- ServerProperties -- MCServer (TLC: windows
                                   |  Desktop (refined)   |  launchers monitors
                                   |                      |  homeless stuck)
                                   +-- ServerProofs -- ServerPromises (TLAPS)
                                   +-- Mirrors -- MCMirrors (TLC: mirrors)
                                          +------ MirrorsProofs (TLAPS, with ServerProofs)
Layouts -- Tiling -- MCTiling (TLC: tiling)     Tiling -- LayoutProofs (TLAPS)
StatusStream -- NightLight -- MCStream (TLC: stream)
                           +- StreamProofs (TLAPS)
Keyboards -- MCKeyboards (TLC: keyboards)      Keyboards -- KeyboardsProofs (TLAPS)
Pointer (TLC: pointer) -- PointerProofs (TLAPS)
Sizing (TLC: sizing stretched) -- SizingProofs (TLAPS)
```

**HoneyServer** is the core. Each action is one whole handler; its guard is the
handler's early returns, and what the code does last (arrange, focus the
output's first window) is part of it. State:

| Variable | In the code |
|---|---|
| `alive`, `configured`, `mapped` | the struct exists; XDG initial commit answered; `window->mapped` |
| `windows` | `server->windows` in order; membership is `placed` |
| `home` | `window->workspace`, as an `<<output, number>>` pair or `Null` |
| `state` | the flags, one record per window (**WindowState**, which holds what each handler does to them) |
| `shown` | windows whose nodes the scene has enabled |
| `op` | `op`, `op_window`, `op_was_tiled` |
| `outputs`, `active`, `spaces`, `previous` | `server->outputs` (newest first) and each output's workspaces |
| `layerOutput`, `layerMapped` | layer surfaces |
| `focus` | `focused`, `focused_output`, `focused_layer`, the seat's keyboard focus, who is activated, who has the active border |
| `crash` | the cause, once a handler dereferences a NULL, freed or unlinked pointer |

`WindowList` has the operations on the intrusive list as functions on
sequences. `Desktop` is the abstract specification: open windows have one place
on a plugged-in monitor, only one window is moved at a time, and the windows of
a monitor that goes away stay together in view. `ServerProperties` states what
the core promises, and the refinement mapping to `Desktop`.

Conventions of HoneyServer:

- A position is abstracted to a choice: the window under the cursor, the
  output to the left, the tile a drop lands on is any candidate the code could
  pick. Geometry itself is in `Tiling`.
- A window name that is created again stands for reused memory; nothing of the
  old window survives in the model that the code would not keep.
- One keyboard is always there. A workspace rule is applied before other rules
  of the same window; a window matches at most one of them.
- The settings that steer a handler are chosen from `Configs` at each step:
  the user may have changed them in between.
- A request object with several ext-workspace activations is several steps.
- A crash ends the behaviour. The properties say of each run which crashes it
  may contain; `NoOrphans` says which cannot happen.

**Layouts** has the layouts as pure operators on boxes (the spiral is a
recursive function, so that proofs can use the module); **Tiling** is the
state around them: global settings, one workspace's overrides, the usable area
and the number of windows that tile; each change runs `Arrange`. Fractions are
whole percents. The C code multiplies doubles and truncates, which may come out
one pixel smaller when the product is whole; the properties do not depend on
the share, only on the rest being taken from the same box.

**StatusStream** is the control socket as a bar sees it: connections,
`subscribe`, the snapshot, and the diff against the line last broadcast to
anybody. Each output has two lines (`Topics`), on its workspaces and on a window.
The second shows the focused window on the focused output and the first window of
the workspace on the others (`status.c:104`), and both carry `focused`. So the
lines follow from three things (`LinesOf`): what each output has (`text`),
`focused_output` (`focused`) and the focused window (`window`). The focused
output can move and nothing is broadcast (`FocusSilently`): the pointer reaches
another output over no window (`seat.c:395`), or the focused window is focused
where the focus is elsewhere (`window.c:303`). Then the lines of two outputs are
wrong, app_id and title included, and stay so until another handler broadcasts.
No property says otherwise; what they say starts at such a handler (`Changed`).
Outputs are plugged in and out; an output's first broadcast is made by the layout
change, before its workspace exists. While a launcher has the keyboard
`honey_focus_window` returns before the broadcast (`window.c:301`), so a switch
also leaves the lines of the output that gets or loses the focus as they were
before; `Announced` names the lines that a change must get right. A subscriber
that stops reading becomes `deaf`: its socket fills, `send` fails, and it may
miss any line.

**NightLight** extends it with `gamma.c`: the floor and the ceiling of the
brightness, each form of the `gamma` command, and the transform of every
output, set at plug-in and freed at unplug. It is a refinement of StatusStream:
`LightSpec => Spec` is proved.

**Mirrors** extends the core with what it tells bars: for each output the
workspaces that have a handle, the one marked active, the labels; for each
window `foreign_output` (`association`) and what its taskbar handle was told.
Each step is one handler of HoneyServer conjoined with what that handler does
to the mirror: `ArrangingStep` are the handlers that arrange, hence sync, the
others leave the mirror as it is. A bar acts back: it activates a workspace by
a handle it holds.

**Keyboards** is the keyboard half of the seat: `server->keyboards`, the keys
each holds, its Logo modifier, the advertised capability, `focused`,
`focused_layer`, shortcut inhibitors and the table of bindings; and the wlr_seat,
which is external and modelled by what the code relies on: setting a keyboard
sends its modifiers, entering a surface sends the keys, nothing is sent to a
surface entered already. `UpdateCapabilities` counts every keyboard in the list; it runs
when a keyboard goes and when any device but a virtual keyboard comes
(`NewDevice` is a pointer or the like). `Press` and `Release` are all of `keyboard_key`, the
modifiers event that follows included; a binding's command may move the focus or
change the bindings while its key goes down.

**Pointer** is the other half: what lies under the cursor, the pointer focus,
buttons as held, as counted by the seat and as the client believes, the grab,
the drag, and the pointer constraints (`active_constraint`, its destroy
listener, what clients were told). A oneshot constraint is destroyed by wlroots
inside the call that deactivates it, so `Checked` threads the record through
`honey_constraint_check` in the code's order.

**Sizing** is the handshake about the size of one mapped window, in one
dimension: `honey_window_configure` with `requested` and `resize_serial`
(`gate`), the commit handler with its cases (pending, gated, followed),
`toggle-float` both ways, drags, fullscreen, tiles that change, parents that
make it float, and X11 configure requests. The client acknowledges in order,
redraws whenever it likes and may insist on its size (`rigid`). wlroots is
external: it schedules a configure, merges the ones of one round, and sends.

## 3. What TLC checks

| Run | Instance | Properties | Distinct states |
|---|---|---|---|
| `windows` | 2 windows (XDG and XWayland), dialogs, rules, client requests, toggles, swaps, grabs, two settings; fairness | `ListOK`, `ShownExactly`, `FloatsSettle` | 356,548 |
| `launchers` | 2 windows, a launcher and a bar, 2 workspaces of a monitor that comes and goes | `TypeOK`, `FocusCoherent`, `BackElsewhere`, `OutputsOK`, `HomesLive`, `FocusLive`, `LayerKeepsKeyboard` | 2,362,176 |
| `monitors` | 2 monitors (one stays), 2 windows, workspace rules, moves, drags | `NoOrphans`, `ImplementsDesktop`, `NeverHidesFocus`, `WindowsStayPut` | 806,307 |
| `mirrors` | the core with 1 window, 2 monitors that come and go, 2 workspaces, a name, and a bar | `MirrorTrue`, `TaskbarNeverLies`, `ChangesReported` | 270,943 |
| `tiling` | up to 6 windows with room for 5, 2 usable areas, 3 layouts | `TypeOK`, `TilesApart`, `TilesInside`, `TilesFill` | 215,040 |
| `stream` | a resident bar and a tool, 2 outputs that come and go, 2 texts of an output and 2 titles of the focused window, a night light | `TypeOK`, `GammaInStep`, `OutputsLit`, `ChangesArrive`, `ResidentsInStep` | 125,664 |
| `keyboards` | a keyboard, 2 virtual ones and other devices, 3 keys (Logo, a bound one, a VT switch), 2 windows, a launcher | `TypeOK`, `NoStuckKeys`, `Advertised`, `LogoInStep`, `FocusFollowed`, `ShortcutsKept` | 1,663,560 |
| `pointer` | 2 surfaces with constraints of 3 kinds, 3 buttons | `TypeOK`, `ActiveIsAlive`, `OneIsTold`, `GrabHidesPointer`, `NoStuckButtons` | 166,080 |
| `sizing` | 2 tile sizes, 2 drags, 2 client sizes, up to 5 changes of mind; fairness | `TypeOK`, `ResizeNotFought`, `BorderFits` | 964,015 |
| `homeless`, `stuck`, `stretched` | smallest that shows it | one each, violated | |

What the passing runs show:

- *The list and the scene.* Through every order of commit, map, unmap, destroy,
  toggle, swap and drop, each window is linked once and the scene shows exactly
  the windows that the flags and workspaces say.
- *Settling.* A floating window that is hidden until it picks its size does not
  stay hidden while it floats (liveness, section 5).
- *Focus and lifetime.* While a launcher maps and unmaps over windows that come
  and go, the focused window is the one with the keyboard, the activated flag
  and the border; no window takes the keyboard from a launcher; `workspace-back`
  goes somewhere else; and though the only monitor comes and goes, no listed
  window and no focus points at a freed workspace.
- *Places.* With a monitor that stays, no window is lost, only the focused or
  the grabbed window changes workspace, none keeps the focus out of view, and
  the windows of a monitor that goes away land together in view.
- *Mirrors.* What a bar believes is true as far as it goes, over unplugged
  monitors too, where a stale handle would be a freed pointer; a change of the
  view mends what handlers that do not arrange left out.
- *Tiles.* Each layout tiles the area exactly, whatever the remainders.
- *The stream and the night light.* Whenever workspaces or windows change or
  another window is focused, a bar that subscribed at startup is right about all
  outputs, those included that a silent move of the focus had left wrong (under a
  launcher: all but the ones that lose or get the focus in that change); every
  subscriber gets the lines that differ from the last broadcast. Between such a
  move and the next change bars are wrong. The night light is known to all and is
  on every monitor, plugged in before or after.
- *Keys.* Whatever keyboards come and go and whichever presses a binding keeps,
  no client is left with a key held; a bound key is not typed; the client sees
  Logo as its keyboard has it; a physical keyboard is always offered to clients,
  and no offer is withdrawn while a keyboard is left; with a keyboard there, a change of focus takes the
  keyboard along even if an earlier one could not.
- *The pointer.* The active constraint is alive and its client alone knows of
  it; no client sees a grab or a drag; no button sticks.
- *Sizes.* No commit from before a resize undoes it; once all have made up their
  minds the border frames the window: server and client do not chase each other.

The violated ones are disagreements between the code and what the repository
says, each listed under `findings` with the quoted line:

- `homeless`: windows that survived the last monitor get no workspace when one
  is plugged in again (`output.c:91`).
- `stuck`: a window made fullscreen before it committed its own size is cleared
  by the next one that maps and stays hidden (`window.c:148`).
- `stretched`: a tiled client is asked to choose its floating size and draws one
  more frame before it acknowledges; the tile's size is adopted as its own
  (`window.c:725`).

### Bounds, and why they are enough

`Windows`, `Outputs`, `Layers`, `Numbers` are the bounds of the core. Two
windows are enough for what the code distinguishes: the window a handler is
about and another one (the covering one, the neighbour in the list, the one
that takes over the focus). Two monitors give a monitor that goes away and its
heir; `Builtin` names a monitor that stays, or `Null`. Workspaces 0 and 1
include 0, which `workspace-back` reaches before any switch. `Commands`,
`Requests`, `Rules` and `Configs` choose what each run exercises; together the
runs fire every action. The mirror is about one window at a time and two
monitors between which it moves; one name tells a named workspace from another.

In `Tiling`, `MaxWindows` (6) is one more than `MaxTiled` (5, which stands for
64), so the limit is crossed; up to five tiles give partial last rows, odd
remainders and three levels of the spiral; `MaxMasters` (2) caps the live
tweak, and the areas have sizes that no count divides.

In the stream, one reader never leaves and one comes, falls behind and goes; two
texts tell a changed line from one changed back, and with two titles the focused
window may be the first one of its output or not; nothing tells the two outputs
apart, so they are symmetric. One percentage and one
temperature besides the built-in 5, 100 and off give settings inside and outside
a floor and a ceiling. In `Keyboards` any two of three keyboards give one that types while the seat is set
to the other. A virtual one differs only in that its coming leaves the
capabilities alone; with two, one is left to be counted when the other goes. The
keys are one of each kind the handler tells apart. In `Pointer` two surfaces give the previous and the next owner of
a constraint; three buttons are the two that grab and one that does not. In
`Sizing` every mode can be entered, left and entered again within `MaxChanges`
(5) changes of mind; the sizes are distinct before and after the border is taken
off, so that a mix-up shows; configures under way are not bounded, since each
needs a change.

### Deadlock

`CHECK_DEADLOCK FALSE` is set in the runs of the core where the program may
stop: after a crash nothing happens any more.

## 4. What is proved

All proofs are checked by TLAPS, for any sets of windows, outputs, layers,
workspace numbers, rules and settings that satisfy the named assumptions
(`ServerAssumption`: the sets are of the right kind, numbers 0 and 1 are in
use, `Null` is none of the things it stands in for; `MirrorsAssumption`: `Freed` is
no output; `TilingAssumption`: a setting is offered only values it accepts).
Every safety property of the passing runs is a theorem; what is left to TLC is
at the end of the section.

*The core* (`ServerProofs`). The inductive invariant is

    Inv == TypeOK /\ ListOK /\ OutputsOK /\ HomesLive /\ FocusLive /\ ShownExactly

and none of its parts but the first is inductive alone: `FocusLive` needs
`ListOK` (a mapped window is listed, so unplugging moves it) and `HomesLive`
(its workspace is live); `HomesLive` needs `OutputsOK` (a window is sent to the
active workspace of a connected output, which exists); `ShownExactly` needs
`TypeOK` and `ListOK` (an arrange covers exactly the listed windows); `TypeOK`
needs `FocusLive` and `HomesLive` (a window is moved to its own output's
workspaces). There is one lemma per handler, and one for the focus helpers. The
theorems `TypeCorrect`, `WellLinked`, `OutputsSound`, `NoDanglingWorkspace`,
`FocusedIsSafe` and `SceneInStep` state the parts for `Spec`.
The module opens with the lemmas on the list: what `Without`, `Beside` and
`Swapped` keep.

*What the core promises* (`ServerPromises`), from `Inv` and, where it does not
suffice, an invariant of its own:

- `FocusIsCoherent` and `LaunchersKeepKeyboard`: one handler changes the focus
  several times, so the lemmas speak of focus records and not of the state.
  `Follows(g, f)` says what the focus g may owe to f in a handler of anything
  but a layer surface: if f was coherent so is g, no launcher gains or loses the
  keyboard, and while one has it no other window gets it. `FocusWindow` and
  `FocusActive` keep it of *any* record they are given, each handler is a chain
  of such calls, and the layer surfaces' own handlers are taken one by one.
- `BackGoesElsewhere`, `WindowsAreLeftAlone` and `FocusStaysInView` rest on
  `StepPlaces`: every step is one of `PlaceKinds`. Nothing changes place (`Stays`),
  one window is put somewhere or unlisted (`Puts(w)`, `Drops(w)`), an output
  switches its workspace, a monitor comes or goes. `Puts(w)` says more than
  that: a mapped window that is put elsewhere was the focused or the grabbed
  one, and keeps the focus only where it is seen. `BackElsewhere` is inductive
  next to `Inv`: a switch writes `previous` and `active` together.
- `NoWindowOrphaned`: `Sheltered` adds to `NoOrphans` that the built-in monitor is
  connected. Then some output is focused, a new window finds a workspace, and
  `UnplugOutput` always finds a fallback (`output.c:72`).
- `Implementation`: `Spec => ImplementsDesktop` assuming `Builtin # Null`. Each
  of the `PlaceKinds` is one action of `Desktop` under the mapping, or a stutter.
  It needs `Sheltered`. The assumption is the code's own precondition and not a
  convenience: without an output left, windows lose their workspace (run
  `homeless`).

*Tiling* (`LayoutProofs`). `TilesNeverOverlap`, `TilesOnScreen` and
`TilesLeaveNoHole` state `TilesApart`, `TilesInside` and `TilesFill` for every
screen, number of windows and setting, those out of range included, in the
states where every tile is larger than a gap on both axes (`Roomy`); TLC finds
every state of the run `tiling` roomy. That much is needed: on a screen so
crowded, or with a fraction so extreme, that a tile is no larger than a gap, the
master area can face nothing but the gap between two others, and `TilesFill`
is false. `TilingTypes` needs no such condition.

The argument is one for all layouts. `Covers(t, D, box, gap)` says that the tiles
of D are inside the box, a gap apart and each followed by another or at the far
edge, *and* that along the near edges no stretch longer than a gap is free. The
last part is the strengthening: it is what the tile on the other side of a
split needs of its neighbours. `SplitCovers`: a box split into two parts a gap apart
is covered by what covers the parts. `ChainCovers` applies it down a chain of
splits. A line is such a chain (`LineSplits`; the division's remainder is in
the last cell), the master layout a split of two lines in either order, the
grid a line of lines (`GridRows`: which windows the integer divisions put in
which row), the spiral a chain whose axis alternates (`RemainingIs`: its
recursion has a solution for every number of windows). `TilingInv` says that
the tiles are those of the settings now in effect: every action ends in
`Arrange`. Induction runs over the elements of a set of numbers (`Induction`,
from the well-foundedness of `<`), since the library's induction theorems take
an operator.

`LineTiles` and `MasterTiles` are about the same operators with a condition on the
input instead: as soon as the gaps fit, for any fraction between 0 and 100 %,
no tile is outside the area or closer than a gap to another, even where some
are empty.

*The stream* (`StreamProofs`). `TypeCorrect`, `GammaStaysInStep`,
`ResidentsStayInStep`, `ChangesAlwaysArrive`. The strengthening is `Follows`: what a
resident has seen is what was last broadcast, if anything was; so a line that is
not sent again is one it has. It holds while bars are wrong, too, for it does not
mention the state behind the lines. `ChangeIsSaid` is the lemma of the last two:
a step that changes more than the focused output broadcasts, and the announced
lines are then as the state it leaves has them. Both theorems are about such
steps (`Changed`) only: after a silent move nothing is promised until the next.
`LightImplementsStream` proves `LightSpec => Spec`: every step of
the night light is a step of the stream or a stutter, which needs the invariant
`LightInv` (floor, ceiling and setting in range, hence a level of the stream).
`EveryOutputLit` is `OutputsLit` for any outputs and values.

*Keyboards* (`KeyboardsProofs`). `TypeCorrect`, `KeysComeUp`, `LogoAgreed`,
`KeyboardOffered`, `FocusTakesKeyboard`, `BindingsAreKept`. `KeyboardOffered` is
about the steps: an offer is kept while a keyboard is left and ends with the last,
and a physical keyboard is offered. It says nothing of virtual keyboards that came
when none was offered; `Offer` is the invariant behind it. `Becomes` says what
updating the capabilities may make of the seat. The invariant has two
strengthenings besides. `Sound(s, held)` says
of any seat record, not only the current one, that it is set to a keyboard that
exists, that what its client holds is held by some keyboard and that Logo
agrees: one handler changes the seat several times, and each helper has a lemma
that it keeps `Sound`. `Quiet`: an absent keyboard holds nothing, without which a
key of an unplugged keyboard would excuse a stuck one. The two action properties
rest on `Moved`, which relates the seat before and after a helper: where its
keyboard went, and that the keys its client holds grew by nothing else.

*The pointer* (`PointerProofs`). `TypeCorrect`, `NoDanglingConstraint`,
`OneObeys`, `GrabsHidden`, `ButtonsComeUp`. The parts need each other:
`Consistent(c)`, stated of any constraint record because a handler passes it
through several calls, and `Silent`, that a client without the pointer believes
nothing held, which needs `GrabHidesPointer` where a grab begins.

*Sizes* (`SizingProofs`). `TypeCorrect`, `NoFight`. `Gated` says what
`resize_serial` is good for: of the configures the client may have seen, those
that pass the gate carry the size asked for last, unless it was left to the
client. `Ordered`, a part of `TypeOK`, is why: serials only grow, and a size
that is asked for gets one that the client has not seen.

*Mirrors* (`MirrorsProofs`). `BarsToldTheTruth`: `MirrorTrue` for `MirrorSpec`.
It is inductive next to `Tabled` (the workspaces are a table of sets, which only
grow while their output is there); the work is in showing, handler by handler,
that those which do not arrange leave outputs, active workspaces and the
existing workspaces as the bars know them. `TaskbarsToldTheTruth` and
`ChangesAreReported` need the core's `Inv` as well, which a step of `MirrorSpec`
keeps because it is a step of the core, and `InView`: a window a taskbar knows on an output
is mapped and in view there. A handler that changes what is in view arranges,
or ends in the unmapping of the one window it hides (`ViewKept`, `ViewTold`).

Only model-checked: the liveness properties `FloatsSettle` and `BorderFits`, and what
the violation runs are about (`PendingSettles` among it). Liveness under
fairness and ENABLED are out of TLAPS's reach. Nothing is claimed of what a
recursive function computes beyond the spiral's.

## 5. Fairness

`FairSpec` of the core (runs `windows`, `stuck`) assumes weak fairness of
`CommitSize(w)` for each window: a client that was asked to choose its size and
is still waiting commits in the end. That is what the xdg-shell protocol asks
of a client after a configure; the compositor has no timeout of its own.
Nothing is assumed about users, other clients or monitors.

`FairSpec` of `Sizing` (runs `sizing`, `stretched`) assumes that wlroots sends a
configure it has scheduled (an idle callback of the event loop), that the client
acknowledges the newest configure it has been sent, and that it goes on drawing.
`BorderFits` needs all three; it is about the end of a behaviour, when the
`MaxChanges` changes of mind are used up.

## 6. What is assumed of wlroots

The code outside this repository is modelled by how the code here uses it, and
marked `external` in the map: the seat (who is sent which enter, leave, key and
button), the constraint objects and their lifetimes, the scheduling of XDG
configures, the order of a keyboard's key and modifiers events and of its
destruction (keys are released first), and gamma: a commit of a transform is
taken to succeed (the code only logs when it does not).

## 7. Seen while modelling

These properties are stated in the modules, in a section of their own, with the
line they come from. No run checks them; to see one violated, name it in the
configuration of the run given here.

| Property | Says | Run | How it fails |
|---|---|---|---|
| `ServerProperties.OnlyFocusedHighlighted` | README.md:297-298 | `launchers` | switching to an empty workspace and back leaves two windows in view with the active border (`window.c:341` clears `focused` first) |
| `ServerProperties.LauncherHasKeyboard` | `layer.c:5` | `launchers` | a workspace switch takes the keyboard from a mapped launcher (`window.c:352`) |
| `StatusStream.SubscribersInStep` | README.md:561-563 | `stream` | a line cached while nobody listened is not sent again; a launcher keeps a change back; the first line of a monitor is made before its workspace |
| `StatusStream.FocusMovesTold` | `status.c:3-6` | `stream` | the pointer crosses to an empty part of another monitor: both outputs' lines change, app_id and title included, and nothing is sent (`seat.c:395`, `status.c:104`) |
| `NightLight.BrightnessClamped` | README.md:522 | `stream` | `gamma max 95`, then `gamma temperature`, keeps 100 % |
| `Mirrors.MirrorNeverDrifts` | `ext-workspace.c:6` | `mirrors` | after a monitor is plugged in, `workspace-name`, or a refused `set-ws`, until the next arrange |
| `Mirrors.TaskbarInSync` | `layout.c:324` | `mirrors` | `foreign_output` outlives the handle: mapped again on the same output, a window's new handle is told nothing |
| `Sizing.OnlyOwnResizesFollowed` | `window.c:732` | `sizing` | a late answer that passes the gate, or a floating window's answer to fullscreen, is taken for its own wish |
| `Sizing.RequestGranted` | `xwayland.c:382` | `sizing` | the request becomes the outer box, so the border is taken off it |
| `Pointer.ConstraintFollowsPointer` | `handlers.c:132` | `pointer` | with no surface under the pointer the constraint stays active |
| `Keyboards.SuperOnAnyKeyboard` | `seat.c:212` | `keyboards` | only the keyboard the seat is set to is asked |
| `Keyboards.KeyboardsOffered` | `handlers.c:4` | `keyboards` | a virtual keyboard alone is not offered to clients (`handlers.c:49`), until another device comes or goes (`seat.c:150`, `seat.c:569`) |
| `Keyboards.TypingReachesFocus` | README.md:321, 429 | `keyboards` | a window focused with no keyboard there is not entered when one is plugged in, until the focus changes |

Seen, and beyond the properties:

- `honey.h:314` calls the state flags mutually exclusive; a fullscreen request
  of a floating window leaves both set, and the order of tests in
  `place_untiled` decides.
- `workspace-back` before any switch creates workspace 0 (README.md:365).
- A second button pressed during a drag starts a second grab: `op_was_tiled` is
  then false and the window is not put back (README.md:425). The release that
  ends a grab is not passed on, so the seat goes on counting a button whose
  press it saw.
- A window grabbed by its borders before it maps can be freed under the grab
  (`window.c:649` ends the grab at unmap only).
- The border rectangles of a window are visible from creation until the first
  arrange that lists it (`workspace.c:3-4`).
- `layer->output` is not cleared when its output is destroyed; handlers of a
  layer surface that outlives it read freed memory.
- `set master-mfact` and `set-ws` take fractions outside 0.05 to 0.95
  (README.md:282), with which the master layout computes negative sizes.
- Beyond `MAX_TILED` windows on a workspace the rest keep their old boxes.
- A brightness set while the night light is off is announced to bars and not
  applied until it is on (`gamma.c:63`).
- For an X11 window that asks for another size while tiled, "re-asserting" the
  layout's geometry does nothing: the size asked for last is remembered and not
  sent again (`window.c:57-64`).

## 8. Not modelled, and what is left of the plan

Not modelled, with the reason:

- *IPC connections and parsing* (`ipc.c`, `config.c`, `honeyctl.c`): the commands
  that change the state are actions of the modules above; reading a socket,
  tokenising, the settings table and the listings are not. A model of one `recv`
  as one command (`ipc.c:662`) needs the bytes of a stream.
- *Output management* (`output-mgmt.c`): a request is handed to wlroots, which
  accepts or refuses all of it; what follows an accepted one is the layout
  change that HoneyServer's hot-plugging already covers.
- *XWayland*: override-redirect windows and the scaled coordinate space are
  geometry of their own; managed windows are in HoneyServer and Sizing.
- *Geometry of untiled windows*: `place_untiled`, `place_window`, the direction
  search, re-centring of dialogs, cursor warps and images.
- `input.c`, `xdg-output.c`, `decoration.c`, most of `protocols.c` and `main.c`
  pass requests to libinput or wlroots and keep no state that a property could be
  about; idle inhibition is whether a list is empty.

Left of the plan, in this order:

1. **IPC connections**: one command per connection, partial reads, the listing
   of windows without a workspace (`ipc.c:203`).
2. **Sizing in a desktop**: more than one window, re-centring, unmapping under a
   configure, and its composition with HoneyServer's `CommitSize`.
3. **XWayland coordinates** as pure operators over bounded inputs.
4. **Proofs**: types and invariants of what the first three add; that
   `MirrorSpec` and a desktop with sizes implement the core; the leads-to
   properties by hand, as far as their safety part goes.
