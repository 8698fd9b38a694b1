-------------------------------- MODULE Tiling --------------------------------
(***************************************************************************)
(* How the windows that tile on one workspace get their boxes: the global  *)
(* settings, the workspace's overrides of them, the output's usable area,  *)
(* and the driver that hands them to the layouts after each change         *)
(* (honey_arrange and arrange_output, layout.c).  The workspace is the     *)
(* active one of the focused output all along.                             *)
(***************************************************************************)
EXTENDS Layouts

CONSTANTS
    Choices,    \* for each setting, the values the user may give it
    Areas,      \* usable areas: the output less the bars' exclusive zones
    MaxWindows, \* bound on the windows that tile
    MaxMasters, \* bound on the live-tweaked number of masters
    MaxTiled,   \* MAX_TILED, 64 in the program
    Deltas,     \* steps of master-mfact, in percent
    Unset       \* the workspace follows the global setting

OverrideKeys == {"layout", "mfact", "nmaster", "orientation"}
Keys == OverrideKeys \cup {"gapsIn", "gapsOut", "smart", "ratio", "horizontal",
                           "columns"}

\* What a setting can hold: spiral-ratio is kept within 0.1 .. 0.9, the other
\* numbers are whatever the user typed.
Values(key) ==
    CASE key = "layout" -> {"master", "spiral", "grid"}
      [] key = "orientation" -> {"left", "right", "top", "bottom"}
      [] key \in {"smart", "horizontal"} -> BOOLEAN
      [] key = "ratio" -> 10 .. 90
      [] OTHER -> Int

\* honey_config_defaults
Default ==
    [layout |-> "master", mfact |-> 55, nmaster |-> 1, orientation |-> "left",
     gapsIn |-> 5, gapsOut |-> 8, smart |-> TRUE, ratio |-> 50,
     horizontal |-> TRUE, columns |-> 0]

\* enum honey_orientation: the master area's side
Orientations == <<"left", "right", "top", "bottom">>

ASSUME TilingAssumption ==
    /\ DOMAIN Choices = Keys
    /\ \A key \in Keys : Choices[key] \subseteq Values(key)
    /\ Areas \subseteq Boxes
    /\ MaxTiled \in Nat \ {0, 1}
    /\ MaxWindows \in Nat
    /\ Deltas \subseteq Int

VARIABLES
    settings, \* server->config
    override, \* the workspace's layout, mfact, nmaster, orientation
    usable,   \* output->usable
    count,    \* windows that tile on the workspace, mapped or reserved
    tiles     \* their boxes (geom), the first MaxTiled of them

vars == <<settings, override, usable, count, tiles>>

TypeOK ==
    /\ DOMAIN settings = Keys
    /\ \A key \in Keys : settings[key] \in Values(key)
    /\ DOMAIN override = OverrideKeys
    /\ \A key \in OverrideKeys : override[key] \in {Unset} \cup Values(key)
    /\ usable \in Areas
    /\ count \in 0 .. MaxWindows
    /\ tiles \in Seq(Boxes)
    /\ Len(tiles) = IF count > MaxTiled THEN MaxTiled ELSE count

-----------------------------------------------------------------------------

\* What the workspace uses: its own value, or the global one.
Effective(s, o, key) == IF o[key] = Unset THEN s[key] ELSE o[key]

\* smart-gaps: a window alone has no gaps.
GapIn(s, n) == IF s.smart /\ n = 1 THEN 0 ELSE s.gapsIn
GapOut(s, n) == IF s.smart /\ n = 1 THEN 0 ELSE s.gapsOut
AreaOf(s, u, n) ==
    [x |-> u.x + GapOut(s, n), y |-> u.y + GapOut(s, n),
     width |-> u.width - 2 * GapOut(s, n),
     height |-> u.height - 2 * GapOut(s, n)]

\* The windows collected for the layout; a mutant forgets the bound.
TiledAll(n) == n
Tiled(n) == IF n > MaxTiled THEN MaxTiled ELSE n

\* arrange_output, for settings s, overrides o, usable area u, n windows
Tiles(s, o, u, n) ==
    LET tiled == Tiled(n)
        area == AreaOf(s, u, tiled)
        gap == GapIn(s, tiled)
        layout == Effective(s, o, "layout")
    IN  IF n = 0 THEN <<>>
        ELSE IF layout = "master"
        THEN Master(area, tiled, gap, Effective(s, o, "nmaster"),
                    Effective(s, o, "mfact"), Effective(s, o, "orientation"))
        ELSE IF layout = "spiral"
        THEN Spiral(area, tiled, gap, s.ratio, s.horizontal)
        ELSE Grid(area, tiled, gap, s.columns)
Arrange == tiles' = Tiles(settings', override', usable', count')

Init ==
    /\ settings = Default
    /\ override = [key \in OverrideKeys |-> Unset]
    /\ usable \in Areas
    /\ count = 0
    /\ tiles = <<>>

\* A window starts or stops tiling: opened, closed, toggled, moved.
CountChanges(n) ==
    /\ n \in {count - 1, count + 1} \cap (0 .. MaxWindows)
    /\ count' = n
    /\ UNCHANGED <<settings, override, usable>>
    /\ Arrange

\* honey_layer_arrange: a bar maps or goes away.
UsableChanges(area) ==
    /\ usable' = area
    /\ UNCHANGED <<settings, override, count>>
    /\ Arrange

\* set <key> <value>
Set(key, value) ==
    /\ settings[key] # value
    /\ settings' = [settings EXCEPT ![key] = value]
    /\ UNCHANGED <<override, usable, count>>
    /\ Arrange

Override(key, value) ==
    /\ override' = [override EXCEPT ![key] = value]
    /\ UNCHANGED <<settings, usable, count>>
    /\ Arrange

\* set-ws <workspace> <key> <value>
SetWs(key, value) == Override(key, value)

\* master-mfact, master-nmaster, orientation-cycle: the live tweaks write
\* the override, starting from the value in effect.
TweakMfact(delta) ==
    LET value == Effective(settings, override, "mfact") + delta IN
    Override("mfact", IF value < 5 THEN 5 ELSE IF value > 95 THEN 95 ELSE value)
TweakNmaster(delta) ==
    LET value == Effective(settings, override, "nmaster") + delta IN
    /\ value <= MaxMasters
    /\ Override("nmaster", IF value < 1 THEN 1 ELSE value)
CycleOrientation ==
    LET current == CHOOSE i \in 1 .. 4 :
                      Orientations[i] = Effective(settings, override, "orientation")
    IN  Override("orientation", Orientations[(current % 4) + 1])

Next ==
    \/ \E n \in 0 .. MaxWindows : CountChanges(n)
    \/ \E area \in Areas : UsableChanges(area)
    \/ \E key \in Keys : \E value \in Choices[key] : Set(key, value)
    \/ \E key \in OverrideKeys : \E value \in Choices[key] : SetWs(key, value)
    \/ \E delta \in Deltas : TweakMfact(delta)
    \/ \E delta \in {1, -1} : TweakNmaster(delta)
    \/ CycleOrientation

Spec == Init /\ [][Next]_vars

-----------------------------------------------------------------------------
(* Properties *)

Gap == GapIn(settings, count)
Area == AreaOf(settings, usable, count)

(* No two tiles overlap, and gaps-in pixels at least separate them,        *)
(* whatever the layout, the overrides and the rounding (layout.c:70-191).  *)
TilesApart ==
    \A i, j \in DOMAIN tiles :
        LET a == tiles[i]
            b == tiles[j]
        IN  \/ i = j
            \/ a.x + a.width + Gap <= b.x \/ b.x + b.width + Gap <= a.x
            \/ a.y + a.height + Gap <= b.y \/ b.y + b.height + Gap <= a.y

(* Every tile has a size and stays inside the usable area less gaps-out:   *)
(* no window is placed under a bar or off the screen (layout.c:245-293).   *)
TilesInside ==
    \A i \in DOMAIN tiles :
        LET t == tiles[i] IN
        /\ t.width > 0 /\ t.height > 0
        /\ Area.x <= t.x /\ t.x + t.width <= Area.x + Area.width
        /\ Area.y <= t.y /\ t.y + t.height <= Area.y + Area.height

(* No pixel is lost: each tile reaches the far edge of the area or is      *)
(* followed, exactly one gap further, by another tile (layout.c:68 "the    *)
(* last window absorbs integer-division remainder", 171 "a partial last    *)
(* row stretches to fill the width").                                      *)
TilesFill ==
    \A i \in DOMAIN tiles :
        LET t == tiles[i] IN
        /\ \/ t.x + t.width = Area.x + Area.width
           \/ \E j \in DOMAIN tiles :
                 /\ tiles[j].x = t.x + t.width + Gap
                 /\ tiles[j].y < t.y + t.height
                 /\ t.y < tiles[j].y + tiles[j].height
        /\ \/ t.y + t.height = Area.y + Area.height
           \/ \E j \in DOMAIN tiles :
                 /\ tiles[j].y = t.y + t.height + Gap
                 /\ tiles[j].x < t.x + t.width
                 /\ t.x < tiles[j].x + tiles[j].width
=============================================================================
