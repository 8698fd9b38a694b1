--------------------------- MODULE ServerPromises ---------------------------
(***************************************************************************)
(* Proofs of what the core promises (ServerProperties) beyond its          *)
(* inductive invariant Inv: who has the focus and the keyboard, which      *)
(* windows change place and when, and that the core implements Desktop.    *)
(* Each part rests on one lemma that says what any step may do, proved     *)
(* handler by handler; the theorems follow from it.                        *)
(***************************************************************************)
EXTENDS ServerProofs

-----------------------------------------------------------------------------
(* Focus: what the handlers make of it *)

(* The focused window is told and drawn as active, and gets the keys       *)
(* unless a launcher has them.                                             *)
Coherent(f) ==
    /\ f.window # Null => f.window \in f.activated \cap f.highlighted
    /\ f.layer = Null /\ f.window # Null => f.keyboard = f.window

(* The focus g may follow the focus f in a handler of anything but a layer *)
(* surface: no launcher gains or loses the keyboard, and while one has it  *)
(* no window does.                                                         *)
Follows(g, f) ==
    /\ g \in Focuses
    /\ g.layer = f.layer
    /\ Coherent(f) => Coherent(g)
    /\ f.layer # Null => /\ g.window \in {f.window, Null}
                         /\ g.keyboard \in {f.keyboard, Null}

LEMMA FollowsTwice ==
    ASSUME NEW f, NEW g, NEW h, Follows(g, f), Follows(h, g)
    PROVE  Follows(h, f)
BY DEF Follows

(* The parts a handler changes by itself.                                  *)
LEMMA FollowsPart ==
    ASSUME NEW f \in Focuses, NEW o \in Outputs \cup {Null}
    PROVE  /\ Follows(f, f)
           /\ Follows([f EXCEPT !.output = o], f)
           /\ Follows([f EXCEPT !.window = Null], f)
BY DEF Follows, Coherent, Focuses

(* honey_focus_window: it does nothing while a launcher has the keyboard.  *)
LEMMA FollowsWindow ==
    ASSUME NEW f \in Focuses, NEW w \in Windows, NEW o \in Outputs
    PROVE  Follows(FocusWindow(f, w, o), f)
<1>1. FocusWindow(f, w, o) \in Focuses
  BY FocusWindowType
<1>2. CASE f.layer # Null
  BY <1>1, <1>2 DEF FocusWindow, Follows
<1>3. CASE f.layer = Null
  <2>1. FocusWindow(f, w, o) = GiveFocus(f, w, o)
    BY <1>3 DEF FocusWindow
  <2>2. Coherent(f) => Coherent(GiveFocus(f, w, o))
    BY DEF GiveFocus, Coherent, Focuses
  <2>3. GiveFocus(f, w, o).layer = f.layer
    BY DEF GiveFocus, Focuses
  <2> QED
    BY <1>1, <1>3, <2>1, <2>2, <2>3 DEF Follows
<1> QED
  BY <1>2, <1>3

(* honey_focus_output_active, once the handler has changed the windows.    *)
LEMMA FollowsActive ==
    ASSUME NEW f \in Focuses, NEW o \in Outputs, windows' \in Seq(Windows)
    PROVE  Follows(FocusActive(f, o), f)
<1> DEFINE first == FirstOf(windows', {w \in mapped' : home'[w] = <<o, active'[o]>>})
           g == [f EXCEPT !.output = o, !.window = Null]
<1>1. FocusActive(f, o) = FocusOutputActive(f, o, first)
  BY DEF FocusActive
<1>2. first \in Windows \cup {Null}
  <2>1. ToSet(windows') \subseteq Windows
    BY DEF ToSet
  <2> QED
    BY <2>1, FirstOfType, ServerAssumption
<1> HIDE DEF first
<1>3. CASE first = Null
  BY <1>1, <1>3 DEF FocusOutputActive, Follows, Coherent, Focuses
<1>4. CASE first # Null
  <2>1. Follows(g, f) /\ g \in Focuses
    BY DEF Follows, Coherent, Focuses
  <2>2. FocusActive(f, o) = FocusWindow(g, first, o)
    BY <1>1, <1>4 DEF FocusOutputActive
  <2> HIDE DEF g
  <2> QED
    BY <1>2, <1>4, <2>1, <2>2, FollowsWindow, FollowsTwice
<1> QED
  BY <1>3, <1>4

(* The focus of a step, and the layer surfaces it leaves mapped.           *)
FocusFollows == Follows(focus', focus) /\ UNCHANGED layerMapped

LEMMA FocusUnmoved ==
    ASSUME Inv, UNCHANGED <<focus, layerMapped>>
    PROVE  FocusFollows
BY FollowsPart DEF Inv, TypeOK, FocusFollows

LEMMA CrashFocus ==
    ASSUME Inv, NEW cause, Crash(cause)
    PROVE  FocusFollows
BY FocusUnmoved DEF Crash, layerVars

LEMMA MapWindowFocus ==
    ASSUME Inv, Inv', NEW w \in Windows, MapWindow(w)
    PROVE  FocusFollows
<1>1. CASE \E cause \in {"no output", "orphan"} : Crash(cause)
  BY <1>1, CrashFocus
<1>2. CASE \E ws, states, c, focusing : MapOn(w, ws, states, c, focusing)
  <2>1. PICK ws, states, c, focusing : MapOn(w, ws, states, c, focusing)
    BY <1>2
  <2>2. CASE focusing /\ ws # Null
    <3>1. ws = home'[w] /\ w \in Listed'
      BY <2>1 DEF Inv, TypeOK, ListOK, MapOn
    <3>2. ws[1] \in Outputs
      BY <2>2, <3>1, ListedType DEF Inv, HomesLive, IsLive, Workspace
    <3>3. focus' = FocusWindow(focus, w, ws[1]) /\ UNCHANGED layerMapped
      BY <2>1, <2>2 DEF MapOn, layerVars
    <3> QED
      BY <3>2, <3>3, FollowsWindow DEF Inv, TypeOK, FocusFollows
  <2>3. CASE ~(focusing /\ ws # Null)
    BY <2>1, <2>3, FocusUnmoved DEF MapOn, layerVars
  <2> QED
    BY <2>2, <2>3
<1>3. PICK dialog \in {FALSE} \cup {w \in Dialogs}, r \in Rules, c \in Configs :
        MapWindow(w)!(dialog, r, c)
  BY DEF MapWindow
<1> QED
  BY <1>1, <1>2, <1>3

LEMMA UnmapWindowFocus ==
    ASSUME Inv, Inv', NEW w \in Windows, UnmapWindow(w)
    PROVE  FocusFollows
<1> DEFINE o == IF home[w] # Null THEN home[w][1] ELSE focus.output
           f == IF focus.window = w THEN [focus EXCEPT !.window = Null]
                ELSE focus
<1>1. Follows(f, focus) /\ f \in Focuses /\ focus \in Focuses
  BY FollowsPart DEF Inv, TypeOK, Focuses
<1>2. o \in Outputs \cup {Null} /\ windows' \in Seq(Windows)
  BY DEF Inv, TypeOK, Focuses, Workspace
<1>3. focus' = (IF o = Null THEN f ELSE FocusActive(f, o))
  BY DEF UnmapWindow
<1>4. UNCHANGED layerMapped
  BY DEF UnmapWindow, layerVars
<1> HIDE DEF o, f
<1> QED
  BY <1>1, <1>2, <1>3, <1>4, FollowsActive, FollowsTwice DEF FocusFollows

LEMMA DestroyWindowFocus ==
    ASSUME Inv, Inv', NEW w \in Windows, DestroyWindow(w)
    PROVE  FocusFollows
<1>1. focus.window # w
  BY ServerAssumption DEF Inv, FocusLive, DestroyWindow
<1>2. focus' = [focus EXCEPT !.activated = @ \ {w}, !.highlighted = @ \ {w},
                             !.keyboard = IF @ = w THEN Null ELSE @]
  BY DEF DestroyWindow
<1>3. focus \in Focuses /\ focus' \in Focuses
  BY DEF Inv, TypeOK
<1>4. /\ focus'.window = focus.window
      /\ focus'.layer = focus.layer
      /\ focus'.keyboard = IF focus.keyboard = w THEN Null ELSE focus.keyboard
      /\ focus'.activated = focus.activated \ {w}
      /\ focus'.highlighted = focus.highlighted \ {w}
  BY <1>2, <1>3 DEF Focuses
<1>5. Follows(focus', focus)
  BY <1>1, <1>3, <1>4 DEF Follows, Coherent
<1> QED
  BY <1>5 DEF FocusFollows, DestroyWindow, layerVars

(* honey_focus_window of a mapped window that has a workspace.             *)
LEMMA MappedFocus ==
    ASSUME Inv, NEW w \in mapped, home[w] # Null
    PROVE  Follows(FocusWindow(focus, w, home[w][1]), focus)
<1>1. w \in Windows /\ w \in Listed
  BY DEF Inv, TypeOK, ListOK
<1>2. home[w][1] \in Outputs
  BY <1>1 DEF Inv, TypeOK, Workspace
<1> QED
  BY <1>1, <1>2, FollowsWindow DEF Inv, TypeOK

LEMMA WindowFocus ==
    ASSUME Inv, Inv', NEW w \in Windows, WindowStep(w)
    PROVE  FocusFollows
<1>1. ASSUME NEW s, SetState(w, s) PROVE FocusFollows
  BY <1>1, FocusUnmoved DEF SetState, layerVars
<1>2. CASE CreateWindow(w) \/ InitialCommit(w)
  BY <1>2, FocusUnmoved DEF CreateWindow, InitialCommit, layerVars
<1>3. CASE CommitSize(w) \/ ParentChanged(w)
  BY <1>1, <1>3, CrashFocus DEF CommitSize, ParentChanged
<1>4. CASE RequestFullscreen(w) \/ RequestMaximize(w)
  BY <1>1, <1>4 DEF RequestFullscreen, RequestMaximize
<1>5. CASE ActivateWindow(w)
  <2>1. CASE home[w] = Null
    BY <1>5, <2>1, CrashFocus DEF ActivateWindow
  <2>2. CASE home[w] # Null
    BY <1>5, <2>2, MappedFocus
       DEF ActivateWindow, SetFocus, FocusFollows, layerVars
  <2> QED
    BY <2>1, <2>2
<1>6. ASSUME NEW kind, BeginGrab(w, kind) PROVE FocusFollows
  <2>1. CASE w \in mapped
    <3>1. home[w] # Null
      BY <1>6, <2>1 DEF Inv, ListOK, ShownExactly, Visible, BeginGrab
    <3> QED
      BY <1>6, <2>1, <3>1, MappedFocus DEF BeginGrab, FocusFollows, layerVars
  <2>2. CASE w \notin mapped
    BY <1>6, <2>2, FocusUnmoved DEF BeginGrab, layerVars
  <2> QED
    BY <2>1, <2>2
<1> QED
  BY <1>2, <1>3, <1>4, <1>5, <1>6, MapWindowFocus, UnmapWindowFocus,
     DestroyWindowFocus
     DEF WindowStep

LEMMA OnOutputFocus ==
    ASSUME Inv, NEW o \in Connected, windows' \in Seq(Windows),
           focus' = FocusActive(focus, o), UNCHANGED layerMapped
    PROVE  FocusFollows
<1>1. o \in Outputs
  BY ListedType DEF Inv
<1> QED
  BY <1>1, FollowsActive DEF Inv, TypeOK, FocusFollows

LEMMA SwitchFocus ==
    ASSUME Inv, Inv', NEW o \in Connected, NEW n, SwitchWorkspace(o, n)
    PROVE  FocusFollows
BY OnOutputFocus DEF SwitchWorkspace, ShowWorkspace, layerVars, Inv, TypeOK

LEMMA FallbackType ==
    ASSUME Inv, NEW o
    PROVE  Fallback(o) \in Outputs \cup {Null}
<1>1. Fallback(o) \in Connected \cup {Null}
  BY FirstOfType, ServerAssumption DEF Inv, TypeOK, Fallback, Connected
<1> QED
  BY <1>1, ListedType DEF Inv

LEMMA OutputFocus ==
    ASSUME Inv, Inv', NEW o \in Outputs, OutputStep(o)
    PROVE  FocusFollows
<1>1. focus \in Focuses /\ windows' \in Seq(Windows)
  BY DEF Inv, TypeOK
<1>2. CASE NewOutput(o)
  <2>1. focus' = [focus EXCEPT !.output = IF @ = Null THEN o ELSE @]
    BY <1>2 DEF NewOutput
  <2>2. Follows(focus', focus)
    BY <1>1, <2>1 DEF Follows, Coherent, Focuses
  <2> QED
    BY <1>2, <2>2 DEF NewOutput, AddOutput, FocusFollows, layerVars
<1>3. CASE UnplugOutput(o)
  <2> DEFINE fallback == Fallback(o)
             f == IF focus.output = o THEN [focus EXCEPT !.output = fallback]
                  ELSE focus
  <2>1. fallback \in Outputs \cup {Null}
    BY FallbackType
  <2>2. Follows(f, focus) /\ f \in Focuses
    BY <1>1, <2>1, FollowsPart DEF Follows
  <2>3. focus' = (IF fallback # Null THEN FocusActive(f, fallback)
                  ELSE [f EXCEPT !.window = Null])
    BY <1>3 DEF UnplugOutput, LeftFocus
  <2>4. UNCHANGED layerMapped
    BY <1>3 DEF UnplugOutput
  <2> HIDE DEF fallback, f
  <2>5. CASE fallback # Null
    BY <1>1, <2>1, <2>2, <2>3, <2>4, <2>5, FollowsActive, FollowsTwice
       DEF FocusFollows
  <2>6. CASE fallback = Null
    BY <2>2, <2>3, <2>4, <2>6, FollowsPart, FollowsTwice DEF FocusFollows
  <2> QED
    BY <2>5, <2>6
<1>4. CASE PointerOverOutput(o)
  BY <1>1, <1>4, FollowsPart
     DEF PointerOverOutput, SetFocus, FocusFollows, layerVars
<1>5. CASE FocusOutput(o)
  BY <1>1, <1>5, OnOutputFocus DEF FocusOutput, FocusOnOutput, layerVars
<1>6. CASE MoveToOutput(o)
  <2> DEFINE f == [focus EXCEPT !.output = o]
  <2>1. focus' = FocusWindow(f, focus.window, o) /\ UNCHANGED layerMapped
    BY <1>6 DEF MoveToOutput, SendWindow, layerVars
  <2>2. Follows(f, focus) /\ f \in Focuses
    BY <1>1, FollowsPart DEF Follows
  <2>3. focus.window \in Windows
    BY <1>6, FocusedHome DEF MoveToOutput
  <2> HIDE DEF f
  <2> QED
    BY <2>1, <2>2, <2>3, FollowsWindow, FollowsTwice DEF FocusFollows
<1>7. ASSUME NEW n, ExtActivate(o, n) \/ SetWorkspace(o, n)
      PROVE  FocusFollows
  BY <1>7, SwitchFocus, FocusUnmoved DEF ExtActivate, SetWorkspace, layerVars
<1> QED
  BY <1>2, <1>3, <1>4, <1>5, <1>6, <1>7 DEF OutputStep

LEMMA CommandFocus ==
    ASSUME Inv, Inv', CommandStep
    PROVE  FocusFollows
<1>1. windows' \in Seq(Windows)
  BY DEF Inv, TypeOK
<1>2. ASSUME NEW order, SetOrder(order) PROVE FocusFollows
  BY <1>2, FocusUnmoved DEF SetOrder, layerVars
<1>3. ASSUME NEW w \in mapped, home[w] # Null,
             SetFocus(FocusWindow(focus, w, home[w][1]))
      PROVE  FocusFollows
  BY <1>3, MappedFocus DEF SetFocus, FocusFollows, layerVars
<1>4. ASSUME NEW d, FocusNext(d) PROVE FocusFollows
  <2> DEFINE next == Neighbour(focus.window,
                               MappedOn(home[focus.window]) \ {focus.window}, d)
  <2>1. next \in MappedOn(home[focus.window])
    BY <1>4 DEF FocusNext, Neighbour
  <2>2. next \in mapped /\ home[next] = home[focus.window]
    BY <2>1 DEF MappedOn
  <2>3. home[focus.window] # Null
    <3>1. IsLive(home[focus.window])
      BY <1>4, FocusedHome DEF FocusNext
    <3> QED
      BY <3>1, ServerAssumption DEF IsLive
  <2>4. SetFocus(FocusWindow(focus, next, home[next][1]))
    BY <1>4 DEF FocusNext
  <2> HIDE DEF next
  <2> QED
    BY <1>3, <2>2, <2>3, <2>4
<1>5. CASE FocusDirection
  <2>1. CASE \E w \in mapped \ {focus.window} : home[w] = Null
    BY <1>5, <2>1, CrashFocus DEF FocusDirection
  <2>2. ASSUME NEW o \in Connected, FocusOnOutput(o) PROVE FocusFollows
    BY <1>1, <2>2, OnOutputFocus DEF FocusOnOutput, layerVars
  <2> QED
    BY <1>3, <1>5, <2>1, <2>2 DEF FocusDirection
<1>6. ASSUME NEW n,
             WorkspaceCommand(n) \/ WorkspaceBack \/ WorkspaceCycle(n)
      PROVE  FocusFollows
  BY <1>6, SwitchFocus, FocusedOutput
     DEF WorkspaceCommand, WorkspaceBack, WorkspaceCycle
<1>7. ASSUME NEW n, MoveToWorkspace(n) PROVE FocusFollows
  <2>1. home[focus.window][1] \in Connected
    BY <1>7, FocusedHome DEF MoveToWorkspace
  <2> QED
    BY <1>1, <1>7, <2>1, OnOutputFocus
       DEF MoveToWorkspace, SendWindow, layerVars
<1>8. CASE (\E d : SwapNext(d)) \/ SwapMaster \/ SwapDirection
  BY <1>2, <1>8 DEF SwapNext, SwapMaster, SwapDirection
<1>9. CASE Toggle \/ GrabMotion \/ EndGrab
  BY <1>9, CrashFocus, FocusUnmoved
     DEF Toggle, SetState, GrabMotion, EndGrab, layerVars
<1> QED
  BY <1>4, <1>5, <1>6, <1>7, <1>8, <1>9 DEF CommandStep

(* No handler but those of layer surfaces lets a launcher gain or lose the *)
(* keyboard, or a window take it from one.                                 *)
LEMMA OthersFocus ==
    ASSUME Inv, Inv', [Next]_vars, ~ \E l \in Layers : LayerStep(l)
    PROVE  FocusFollows
<1>1. CASE UNCHANGED vars
  BY <1>1, FocusUnmoved DEF vars, layerVars
<1> QED
  BY <1>1, WindowFocus, OutputFocus, CommandFocus DEF Next

-----------------------------------------------------------------------------
(* Launchers and the keyboard *)

(* When the focused launcher goes and no output is left there is no        *)
(* focused window either (layer_unmap moves the focus only to an output).  *)
LEMMA NoOutputNoWindow ==
    ASSUME Inv, focus.output = Null
    PROVE  focus.window = Null
<1>1. Connected = {}
  BY DEF Inv, OutputsOK, Connected, ToSet
<1> QED
  BY <1>1 DEF Inv, FocusLive, IsLive

LEMMA LayerFocus ==
    ASSUME Inv, Inv', FocusCoherent, NEW l \in Layers, LayerStep(l)
    PROVE  /\ FocusCoherent'
           /\ focus.layer # Null /\ focus'.layer = focus.layer =>
                 /\ focus'.window \in {focus.window, Null}
                 /\ focus'.keyboard \in {focus.keyboard, Null}
<1>1. focus \in Focuses /\ focus' \in Focuses
  BY DEF Inv, TypeOK
<1>2. CASE UNCHANGED <<focus, layerMapped>>
  BY <1>2 DEF FocusCoherent
<1>3. CASE \E o \in Outputs : NewLayer(l, o)
  BY <1>2, <1>3 DEF NewLayer
<1>4. CASE \E cause \in {"freed output"} : Crash(cause)
  BY <1>2, <1>4 DEF Crash, layerVars
<1>5. CASE MapLayer(l)
  <2>1. focus.layer # l /\ l # Null
    BY <1>5, ServerAssumption DEF MapLayer, FocusCoherent
  <2>2. CASE layerOutput[l] = Freed \/ l \notin Interactive
    BY <1>4, <1>5, <2>2 DEF MapLayer, FocusCoherent
  <2>3. CASE layerOutput[l] # Freed /\ l \in Interactive
    <3>1. /\ focus' = [focus EXCEPT !.layer = l, !.keyboard = l]
          /\ layerMapped' = layerMapped \cup {l}
      BY <1>5, <2>3 DEF MapLayer
    <3> QED
      BY <1>1, <2>1, <3>1 DEF FocusCoherent, Focuses
  <2> QED
    BY <2>2, <2>3
<1>6. CASE CommitLayer(l)
  BY <1>4, <1>6 DEF CommitLayer
<1>7. CASE UnmapLayer(l)
  <2>1. CASE layerOutput[l] = Freed
    BY <1>4, <1>7, <2>1 DEF UnmapLayer
  <2>2. CASE layerOutput[l] # Freed
    <3> DEFINE f == [focus EXCEPT !.layer = Null]
               o == focus.output
    <3>1. layerMapped' = layerMapped \ {l} /\ windows' \in Seq(Windows)
      BY <1>7, <2>2 DEF UnmapLayer, Inv, TypeOK
    <3>2. /\ f \in Focuses
          /\ f.layer = Null
          /\ f.window = focus.window
          /\ f.activated = focus.activated
          /\ f.highlighted = focus.highlighted
      BY <1>1 DEF Focuses
    <3>3. CASE focus.layer # l
      BY <1>7, <2>2, <3>1, <3>3 DEF UnmapLayer, FocusCoherent
    <3>4. CASE focus.layer = l /\ o = Null
      <4>1. focus' = f /\ focus.window = Null
        BY <1>7, <2>2, <3>4, NoOutputNoWindow DEF UnmapLayer
      <4> HIDE DEF f
      <4> QED
        BY <3>2, <3>4, <4>1, ServerAssumption DEF FocusCoherent
    <3>5. CASE focus.layer = l /\ o # Null
      <4>1. focus' = FocusActive(f, o) /\ o \in Outputs
        BY <1>1, <1>7, <2>2, <3>5 DEF UnmapLayer, Focuses
      <4> HIDE DEF f, o
      <4>2. focus'.layer = Null
        BY <3>1, <3>2, <4>1, FocusActiveType
      <4>3. focus'.window # Null =>
               /\ focus'.window \in focus'.activated \cap focus'.highlighted
               /\ focus'.keyboard = focus'.window
        <5> DEFINE first == FirstOf(windows', {w \in mapped' :
                                                 home'[w] = <<o, active'[o]>>})
        <5>1. focus' = FocusOutputActive(f, o, first)
          BY <4>1 DEF FocusActive
        <5> HIDE DEF first
        <5>2. CASE first = Null
          BY <3>2, <5>1, <5>2 DEF FocusOutputActive, Focuses
        <5>3. CASE first # Null
          BY <3>2, <5>1, <5>3
             DEF FocusOutputActive, FocusWindow, GiveFocus, Focuses
        <5> QED
          BY <5>2, <5>3
      <4> QED
        BY <3>5, <4>2, <4>3, ServerAssumption DEF FocusCoherent
    <3> QED
      BY <3>3, <3>4, <3>5
  <2> QED
    BY <2>1, <2>2
<1>8. CASE DestroyLayer(l)
  <2>1. CASE layerOutput[l] = Freed
    BY <1>4, <1>8, <2>1 DEF DestroyLayer
  <2>2. CASE layerOutput[l] # Freed
    <3>1. /\ focus' = [focus EXCEPT !.keyboard = IF @ = l THEN Null ELSE @]
          /\ layerMapped' = layerMapped
      BY <1>8, <2>2 DEF DestroyLayer
    <3>2. /\ focus'.window = focus.window
          /\ focus'.layer = focus.layer
          /\ focus'.keyboard = IF focus.keyboard = l THEN Null
                               ELSE focus.keyboard
          /\ focus'.activated = focus.activated
          /\ focus'.highlighted = focus.highlighted
      BY <1>1, <3>1 DEF Focuses
    <3>3. focus.window # l
      BY <1>1, ServerAssumption DEF Focuses
    <3> QED
      BY <3>1, <3>2, <3>3 DEF FocusCoherent
  <2> QED
    BY <2>1, <2>2
<1> QED
  BY <1>3, <1>5, <1>6, <1>7, <1>8 DEF LayerStep

(* What FocusCoherent and LayerKeepsKeyboard come from, for any step.      *)
LEMMA FocusStep ==
    ASSUME Inv, Inv', FocusCoherent, [Next]_vars
    PROVE  /\ FocusCoherent'
           /\ focus.layer # Null /\ focus'.layer = focus.layer =>
                 /\ focus'.window \in {focus.window, Null}
                 /\ focus'.keyboard \in {focus.keyboard, Null}
<1>1. CASE \E l \in Layers : LayerStep(l)
  BY <1>1, LayerFocus
<1>2. CASE ~ \E l \in Layers : LayerStep(l)
  <2>1. FocusFollows
    BY <1>2, OthersFocus
  <2> QED
    BY <2>1 DEF FocusFollows, Follows, Coherent, FocusCoherent
<1> QED
  BY <1>1, <1>2

(* The focused window is the one that was told, that is drawn so, and that *)
(* gets the keys unless a mapped launcher has them: the seat's focus and   *)
(* server->focused never part (seat.c, layer.c, window.c).                 *)
THEOREM FocusIsCoherent == Spec => []FocusCoherent
<1>1. Init => FocusCoherent
  BY DEF Init, FocusCoherent
<1>2. Inv /\ Inv' /\ FocusCoherent /\ [Next]_vars => FocusCoherent'
  BY FocusStep
<1> QED
  BY <1>1, <1>2, Invariance, PTL DEF Spec

(* A launcher that has the keyboard keeps it whatever maps, switches,      *)
(* moves or is unplugged, until its own surface is unmapped (window.c:301). *)
THEOREM LaunchersKeepKeyboard == Spec => LayerKeepsKeyboard
<1>1. Inv /\ Inv' /\ FocusCoherent /\ [Next]_vars =>
         [focus.layer # Null /\ focus'.layer = focus.layer =>
            /\ focus'.window \in {focus.window, Null}
            /\ focus'.keyboard \in {focus.keyboard, Null}]_vars
  BY FocusStep
<1> QED
  BY <1>1, Invariance, FocusIsCoherent, PTL DEF Spec, LayerKeepsKeyboard

-----------------------------------------------------------------------------
(* Places: what any step does to the workspaces of the windows *)

(* No output comes, goes or switches; workspaces may be opened.            *)
OutputsKept ==
    /\ UNCHANGED <<outputs, active, previous>>
    /\ \A o \in Outputs : spaces[o] \subseteq spaces'[o]

(* No listed window changes place, and none is listed or unlisted.         *)
Stays ==
    /\ OutputsKept
    /\ Listed' = Listed
    /\ \A v \in Listed : home'[v] = home[v]

(* Only w is put anywhere.  If it was mapped already then it is the focused *)
(* or the grabbed window, and the focus stays with it only where it is seen *)
(* or where it was.  It finds a workspace if there is an output.           *)
Puts(w) ==
    /\ OutputsKept
    /\ Listed' = Listed \cup {w}
    /\ \A v \in Listed \ {w} : home'[v] = home[v]
    /\ w \in mapped =>
          /\ w \in {focus.window, op.window}
          /\ focus'.window = w =>
                \/ home'[w] = home[w]
                \/ \E o \in Outputs : home'[w] = <<o, active[o]>>
    /\ home'[w] = Null => \/ focus.output = Null
                          \/ w \in Listed /\ home[w] = Null

(* w is unlisted.                                                          *)
Drops(w) ==
    /\ OutputsKept
    /\ Listed' = Listed \ {w}
    /\ \A v \in Listed \ {w} : home'[v] = home[v]

(* An output switches its workspace; the other kinds of step.              *)
Switches ==
    \E o \in Connected, n \in Numbers : SwitchWorkspace(o, n)

PlaceKinds ==
    \/ Stays
    \/ \E w \in Windows : Puts(w) \/ Drops(w)
    \/ Switches
    \/ \E o \in Outputs : NewOutput(o) \/ UnplugOutput(o)

(* Most handlers leave the list, the workspaces and the outputs alone, or  *)
(* reorder the list.                                                       *)
LEMMA StaysUnchanged ==
    ASSUME Inv, UNCHANGED <<windows, home, outputVars>>
    PROVE  Stays
BY DEF Stays, OutputsKept, Listed, outputVars

LEMMA StaysCrashed ==
    ASSUME Inv, NEW cause, Crash(cause)
    PROVE  Stays
BY StaysUnchanged DEF Crash, windowVars

LEMMA StaysFocused ==
    ASSUME Inv, NEW f, SetFocus(f)
    PROVE  Stays
BY StaysUnchanged DEF SetFocus, windowVars

LEMMA StaysFlagged ==
    ASSUME Inv, NEW w, NEW s, SetState(w, s)
    PROVE  Stays
BY StaysUnchanged DEF SetState

LEMMA OpenedGrows ==
    ASSUME Inv, NEW ws, spaces' = Opened(ws)
    PROVE  \A o \in Outputs : spaces[o] \subseteq spaces'[o]
BY DEF Inv, TypeOK, Opened

LEMMA InitialCommitPlaces ==
    ASSUME Inv, Inv', NEW w \in Windows, InitialCommit(w)
    PROVE  Stays \/ Puts(w)
<1>1. w \notin Listed /\ w \notin mapped
  BY DEF Inv, ListOK, InitialCommit
<1>2. OutputsKept
  BY DEF OutputsKept, InitialCommit, ReserveWindow
<1>3. CASE ReserveWindow(w)
  <2>1. PICK c \in Configs : windows' = Placed(w, c)
    BY <1>1, <1>3, PlacedType DEF ReserveWindow
  <2>2. Listed' = Listed \cup {w}
    BY <2>1, PlacedType DEF Listed
  <2>3. home' = [home EXCEPT ![w] = ActiveOf(focus.output)]
    BY <1>3 DEF ReserveWindow
  <2>4. home'[w] # Null
    <3>1. focus.output \in Connected
      BY <1>3, FocusedOutput DEF ReserveWindow
    <3>2. ActiveOf(focus.output) \in Workspace
      BY <3>1, ActiveLive
    <3> QED
      BY <2>3, <3>2, ServerAssumption DEF Inv, TypeOK
  <2> QED
    BY <1>1, <1>2, <2>2, <2>3, <2>4, ListedType DEF Inv, TypeOK, Puts
<1>4. CASE UNCHANGED <<mapped, windows, home, state, active, shown>>
  BY <1>2, <1>4 DEF Stays, Listed
<1> QED
  BY <1>3, <1>4 DEF InitialCommit

LEMMA MapWindowPlaces ==
    ASSUME Inv, Inv', NEW w \in Windows, MapWindow(w)
    PROVE  Stays \/ Puts(w)
<1> DEFINE here == IF w \in Listed THEN home[w] ELSE ActiveOf(focus.output)
<1>1. CASE \E cause \in {"no output", "orphan"} : Crash(cause)
  BY <1>1, StaysCrashed
<1>2. ASSUME NEW ws, NEW states, NEW c \in Configs, NEW focusing,
             MapOn(w, ws, states, c, focusing), ws = Null => here = Null
      PROVE  Puts(w)
  <2>1. Listed' = Listed \cup {w}
    BY <1>2, PlacedType DEF MapOn, Listed
  <2>2. home' = [home EXCEPT ![w] = ws]
    BY <1>2 DEF MapOn
  <2>3. OutputsKept
    BY <1>2, OpenedGrows DEF MapOn, OutputsKept
  <2>4. ASSUME home'[w] = Null, focus.output # Null
        PROVE  w \in Listed /\ home[w] = Null
    <3>1. here = Null
      BY <1>2, <2>2, <2>4 DEF Inv, TypeOK
    <3>2. ActiveOf(focus.output) # Null
      BY <2>4, FocusedOutput, ActiveLive, ServerAssumption
    <3> QED
      BY <3>1, <3>2
  <2>5. w \notin mapped
    BY DEF MapWindow
  <2> QED
    BY <2>1, <2>2, <2>3, <2>4, <2>5, ListedType DEF Inv, TypeOK, Puts
<1>3. PICK dialog \in {FALSE} \cup {w \in Dialogs}, r \in Rules, c \in Configs :
        MapWindow(w)!(dialog, r, c)
  BY DEF MapWindow
<1> DEFINE ws == IF r.target # Null /\ r.target[1] \in Connected THEN r.target
                 ELSE here
<1>4. ws = Null => here = Null
  OBVIOUS
<1>5. \/ \E cause \in {"no output", "orphan"} : Crash(cause)
      \/ \E states, focusing : MapOn(w, ws, states, c, focusing)
  BY <1>3
<1> HIDE DEF ws, here
<1> QED
  BY <1>1, <1>2, <1>4, <1>5

LEMMA UnmapWindowPlaces ==
    ASSUME Inv, Inv', NEW w \in Windows, UnmapWindow(w) \/ DestroyWindow(w)
    PROVE  Drops(w)
<1>1. Listed' = Listed \ {w}
  <2>1. CASE w \in Listed
    <3>1. windows' = Without(windows, w)
      BY <2>1 DEF UnmapWindow, DestroyWindow
    <3> QED
      BY <2>1, <3>1, WithoutType DEF Inv, TypeOK, ListOK, Listed
  <2>2. CASE w \notin Listed
    <3>1. DestroyWindow(w)
      BY <2>2 DEF Inv, ListOK, UnmapWindow
    <3> QED
      BY <2>2, <3>1 DEF DestroyWindow, Listed
  <2> QED
    BY <2>1, <2>2
<1>2. \A v \in Windows \ {w} : home'[v] = home[v]
  BY DEF Inv, TypeOK, UnmapWindow, DestroyWindow
<1>3. OutputsKept
  BY DEF UnmapWindow, DestroyWindow, OutputsKept
<1> QED
  BY <1>1, <1>2, <1>3, ListedType DEF Inv, Drops

LEMMA WindowPlaces ==
    ASSUME Inv, Inv', NEW w \in Windows, WindowStep(w)
    PROVE  PlaceKinds
<1>1. CASE CreateWindow(w)
  <2>1. w \notin Listed
    BY <1>1 DEF Inv, ListOK, CreateWindow
  <2>2. \A v \in Windows \ {w} : home'[v] = home[v]
    BY <1>1 DEF Inv, TypeOK, CreateWindow
  <2>3. Stays
    BY <1>1, <2>1, <2>2, ListedType
       DEF Inv, CreateWindow, Stays, OutputsKept, Listed, outputVars
  <2> QED
    BY <2>3 DEF PlaceKinds
<1>2. CASE CommitSize(w) \/ ParentChanged(w)
  BY <1>2, StaysFlagged, StaysCrashed DEF CommitSize, ParentChanged, PlaceKinds
<1>3. CASE RequestFullscreen(w) \/ RequestMaximize(w)
  BY <1>3, StaysFlagged DEF RequestFullscreen, RequestMaximize, PlaceKinds
<1>4. CASE ActivateWindow(w)
  BY <1>4, StaysFocused, StaysCrashed DEF ActivateWindow, PlaceKinds
<1>5. CASE BeginGrab(w, "move") \/ BeginGrab(w, "resize")
  BY <1>5, StaysUnchanged DEF BeginGrab, PlaceKinds
<1> QED
  BY <1>1, <1>2, <1>3, <1>4, <1>5, InitialCommitPlaces, MapWindowPlaces,
     UnmapWindowPlaces
     DEF WindowStep, PlaceKinds

(* A mapped window w is sent to ws: the focused one, or the dropped one,   *)
(* which keeps the focus only where it is seen or where it was.            *)
LEMMA PutsSent ==
    ASSUME Inv, NEW w \in mapped, w \in {focus.window, op.window},
           OutputsKept, Listed' = Listed, NEW ws, home' = [home EXCEPT ![w] = ws],
           ws # Null \/ ws = home[w],
           focus'.window = w =>
               ws = home[w] \/ \E o \in Outputs : ws = <<o, active[o]>>
    PROVE  PlaceKinds
<1>1. w \in Windows /\ w \in Listed
  BY DEF Inv, TypeOK, ListOK
<1>2. home'[w] = ws /\ \A v \in Windows \ {w} : home'[v] = home[v]
  BY <1>1 DEF Inv, TypeOK
<1>3. Puts(w)
  BY <1>1, <1>2, ListedType DEF Inv, Puts
<1> QED
  BY <1>1, <1>3 DEF PlaceKinds

LEMMA MoveToWorkspacePlaces ==
    ASSUME Inv, Inv', NEW n \in Numbers, MoveToWorkspace(n)
    PROVE  PlaceKinds
<1> DEFINE w == focus.window
           o == home[w][1]
<1>1. w \in mapped /\ o \in Outputs
  BY FocusedHome DEF MoveToWorkspace
<1>2. SendWindow(w, <<o, n>>) /\ focus' = FocusActive(focus, o)
  BY DEF MoveToWorkspace
<1>3. w # Null /\ <<o, n>> # Null
  BY <1>1, ServerAssumption DEF MoveToWorkspace, Workspace
<1>4. OutputsKept /\ Listed' = Listed
  BY <1>2, OpenedGrows DEF SendWindow, OutputsKept, Listed
<1>5. home' = [home EXCEPT ![w] = <<o, n>>]
  BY <1>2 DEF SendWindow
<1>6. focus'.window # Null => home'[focus'.window] = <<o, active'[o]>>
  BY <1>1, <1>2, FocusActiveType DEF Inv, TypeOK
<1>7. focus'.window = w => <<o, n>> = <<o, active[o]>>
  BY <1>1, <1>3, <1>4, <1>5, <1>6 DEF Inv, TypeOK, OutputsKept
<1>8. w \in {focus.window, op.window}
  OBVIOUS
<1> HIDE DEF w, o
<1> QED
  BY <1>1, <1>3, <1>4, <1>5, <1>7, <1>8, PutsSent

LEMMA ActiveHome ==
    ASSUME Inv, NEW o \in Outputs
    PROVE  ActiveOf(o) \in Workspace /\ ActiveOf(o) # Null
<1>1. ActiveOf(o) \in Workspace
  BY DEF Inv, TypeOK, Workspace, ActiveOf
<1> QED
  BY <1>1, ServerAssumption

LEMMA MoveToOutputPlaces ==
    ASSUME Inv, NEW o \in Outputs, MoveToOutput(o)
    PROVE  PlaceKinds
<1> DEFINE w == focus.window
<1>1. w \in mapped
  BY FocusedHome DEF MoveToOutput
<1>2. SendWindow(w, ActiveOf(o))
  BY DEF MoveToOutput
<1>3. ActiveOf(o) # Null /\ ActiveOf(o) = <<o, active[o]>>
  BY ActiveHome DEF ActiveOf
<1>4. OutputsKept /\ Listed' = Listed
  BY <1>2, OpenedGrows DEF SendWindow, OutputsKept, Listed
<1>5. home' = [home EXCEPT ![w] = ActiveOf(o)]
  BY <1>2 DEF SendWindow
<1>6. w \in {focus.window, op.window}
  OBVIOUS
<1> HIDE DEF w
<1> QED
  BY <1>1, <1>3, <1>4, <1>5, <1>6, PutsSent

(* The dropped window is listed; it may be one that has yet to map.        *)
LEMMA EndGrabPlaces ==
    ASSUME Inv, EndGrab
    PROVE  PlaceKinds
<1> DEFINE w == op.window
<1>1. CASE \E cause \in {"freed window", "unlinked window"} : Crash(cause)
  BY <1>1, StaysCrashed DEF PlaceKinds
<1>2. CASE ~ \E cause \in {"freed window", "unlinked window"} : Crash(cause)
  <2>1. /\ UNCHANGED <<outputVars, focus>>
        /\ UNCHANGED <<windows, home>> \/ (w \in Listed /\ DropAtCursor(w))
    BY <1>2 DEF EndGrab
  <2>2. CASE UNCHANGED <<windows, home>>
    BY <2>1, <2>2, StaysUnchanged DEF PlaceKinds
  <2>3. CASE w \in Listed /\ DropAtCursor(w)
    <3>1. PICK ws \in {home[w]} \cup {ActiveOf(o) : o \in Connected} :
            home' = [home EXCEPT ![w] = ws]
      BY <2>3 DEF DropAtCursor
    <3>2. Listed' = Listed
      BY <2>3, DropOrder
    <3>3. OutputsKept
      BY <2>1 DEF OutputsKept, outputVars
    <3>4. ws = home[w] \/ \E o \in Outputs : ws = <<o, active[o]>>
      BY ListedType DEF Inv, ActiveOf
    <3>5. ws # Null \/ ws = home[w]
      BY <3>4, ActiveHome DEF ActiveOf
    <3>6. w \in {focus.window, op.window}
      OBVIOUS
    <3>7. CASE w \in mapped
      <4> HIDE DEF w
      <4> QED
        BY <3>1, <3>2, <3>3, <3>4, <3>5, <3>6, <3>7, PutsSent
    <3>8. CASE w \notin mapped
      <4>1. w \in Windows
        BY <2>3, ListedType DEF Inv
      <4>2. home'[w] = ws /\ \A v \in Windows \ {w} : home'[v] = home[v]
        BY <3>1, <4>1 DEF Inv, TypeOK
      <4> HIDE DEF w
      <4>3. Puts(w)
        BY <2>3, <3>2, <3>3, <3>5, <3>8, <4>2, ListedType DEF Inv, Puts
      <4> QED
        BY <4>1, <4>3 DEF PlaceKinds
    <3> QED
      BY <3>7, <3>8
  <2> QED
    BY <2>1, <2>2, <2>3
<1> QED
  BY <1>1, <1>2

LEMMA SwitchPlaces ==
    ASSUME Inv, NEW o \in Connected, NEW n \in Numbers, SwitchWorkspace(o, n)
    PROVE  PlaceKinds
BY DEF PlaceKinds, Switches

LEMMA OutputPlaces ==
    ASSUME Inv, Inv', NEW o \in Outputs, OutputStep(o)
    PROVE  PlaceKinds
<1>1. CASE NewOutput(o) \/ UnplugOutput(o)
  BY <1>1 DEF PlaceKinds
<1>2. CASE PointerOverOutput(o)
  BY <1>2, StaysFocused DEF PointerOverOutput, PlaceKinds
<1>3. CASE FocusOutput(o)
  BY <1>3, StaysUnchanged
     DEF FocusOutput, FocusOnOutput, PlaceKinds, windowVars
<1>4. CASE MoveToOutput(o)
  BY <1>4, MoveToOutputPlaces
<1>5. ASSUME NEW n \in Numbers, ExtActivate(o, n) PROVE PlaceKinds
  BY <1>5, SwitchPlaces DEF ExtActivate
<1>6. ASSUME NEW n \in Numbers, SetWorkspace(o, n) PROVE PlaceKinds
  <2>1. spaces' = Opened(<<o, n>>)
    BY <1>6 DEF SetWorkspace
  <2>2. UNCHANGED <<windows, home, outputs, active, previous>>
    BY <1>6 DEF SetWorkspace, windowVars
  <2> QED
    BY <2>1, <2>2, OpenedGrows DEF Stays, OutputsKept, Listed, PlaceKinds
<1> QED
  BY <1>1, <1>2, <1>3, <1>4, <1>5, <1>6 DEF OutputStep

LEMMA LayerPlaces ==
    ASSUME Inv, NEW l \in Layers, LayerStep(l)
    PROVE  PlaceKinds
<1>1. CASE \E cause \in {"freed output"} : Crash(cause)
  BY <1>1, StaysCrashed DEF PlaceKinds
<1>2. CASE UNCHANGED <<windowVars, outputVars>>
  BY <1>2, StaysUnchanged DEF PlaceKinds, windowVars
<1> QED
  BY <1>1, <1>2
     DEF LayerStep, NewLayer, MapLayer, CommitLayer, UnmapLayer, DestroyLayer

LEMMA CommandPlaces ==
    ASSUME Inv, Inv', CommandStep
    PROVE  PlaceKinds
<1>1. ASSUME NEW a \in mapped, NEW b \in mapped,
             SetOrder(Swapped(windows, a, b))
      PROVE  PlaceKinds
  <2>1. a \in ToSet(windows) /\ b \in ToSet(windows)
    BY DEF Inv, ListOK, Listed
  <2>2. ToSet(Swapped(windows, a, b)) = Listed
    <3>1. windows \in Seq(Windows)
      BY DEF Inv, TypeOK
    <3> QED
      BY <2>1, <3>1, SwappedType DEF Listed
  <2> QED
    BY <1>1, <2>2
       DEF SetOrder, Stays, OutputsKept, Listed, outputVars, PlaceKinds
<1>2. CASE (\E d \in {1, -1} : SwapNext(d)) \/ SwapMaster \/ SwapDirection
  BY <1>1, <1>2, SwapOther
<1>3. CASE \E d : FocusNext(d)
  BY <1>3, StaysFocused DEF FocusNext, PlaceKinds
<1>4. CASE FocusDirection
  <2>1. ASSUME NEW o, FocusOnOutput(o) PROVE PlaceKinds
    BY <2>1, StaysUnchanged DEF FocusOnOutput, PlaceKinds, windowVars
  <2> QED
    BY <1>4, <2>1, StaysFocused, StaysCrashed DEF FocusDirection, PlaceKinds
<1>5. CASE \/ \E n \in Numbers : WorkspaceCommand(n)
           \/ WorkspaceBack
           \/ \E d \in {1, -1} : WorkspaceCycle(d)
  BY <1>5, SwitchPlaces, SwitchedTo
<1>6. ASSUME NEW n \in Numbers, MoveToWorkspace(n) PROVE PlaceKinds
  BY <1>6, MoveToWorkspacePlaces
<1>7. CASE Toggle \/ GrabMotion
  BY <1>7, StaysFlagged, StaysCrashed DEF Toggle, GrabMotion, PlaceKinds
<1>8. CASE EndGrab
  BY <1>8, EndGrabPlaces
<1> QED
  BY <1>2, <1>3, <1>4, <1>5, <1>6, <1>7, <1>8 DEF CommandStep

(* Every step is of one of these kinds.                                    *)
LEMMA StepPlaces ==
    ASSUME Inv, Inv', [Next]_vars
    PROVE  PlaceKinds
<1>1. CASE UNCHANGED vars
  BY <1>1, StaysUnchanged DEF vars, windowVars, PlaceKinds
<1> QED
  BY <1>1, WindowPlaces, OutputPlaces, LayerPlaces, CommandPlaces DEF Next

-----------------------------------------------------------------------------
(* Workspace-back *)

LEMMA UnpluggedOne ==
    ASSUME Inv, NEW o, UnplugOutput(o)
    PROVE  Connected' = Connected \ {o}
<1>1. o \in ToSet(outputs) /\ outputs' = Without(outputs, o)
  BY DEF UnplugOutput, Connected
<1>2. outputs \in Seq(Outputs) /\ NoDuplicates(outputs)
  BY DEF Inv, TypeOK, OutputsOK
<1> QED
  BY <1>1, <1>2, WithoutType DEF Connected

LEMMA PluggedOne ==
    ASSUME Inv, NEW o \in Outputs, NewOutput(o)
    PROVE  Connected' = Connected \cup {o}
<1>1. outputs \in Seq(Outputs) /\ outputs' = <<o>> \o outputs
  BY DEF Inv, TypeOK, NewOutput, AddOutput
<1> QED
  BY <1>1, ConsType DEF Connected

LEMMA SwitchBack ==
    ASSUME Inv, BackElsewhere, NEW o \in Connected, NEW n \in Numbers,
           SwitchWorkspace(o, n)
    PROVE  BackElsewhere'
<1>1. o \in Outputs /\ Connected' = Connected /\ Connected \subseteq Outputs
  BY ListedType DEF Inv, SwitchWorkspace, ShowWorkspace, Connected
<1>2. /\ active'[o] = n /\ previous'[o] = active[o] /\ active[o] # n
      /\ \A p \in Outputs \ {o} :
            active'[p] = active[p] /\ previous'[p] = previous[p]
  BY <1>1 DEF Inv, TypeOK, SwitchWorkspace, ShowWorkspace
<1>3. \A p \in Outputs : spaces[p] \subseteq spaces'[p]
  BY OpenedGrows DEF SwitchWorkspace, ShowWorkspace
<1> QED
  BY <1>1, <1>2, <1>3 DEF Inv, OutputsOK, BackElsewhere

LEMMA PluggedBack ==
    ASSUME Inv, Inv', BackElsewhere, NEW o \in Outputs,
           NewOutput(o) \/ UnplugOutput(o)
    PROVE  BackElsewhere'
<1>1. CASE NewOutput(o)
  <2>1. Connected' = Connected \cup {o}
    BY <1>1, PluggedOne
  <2>2. /\ active'[o] = 1 /\ previous'[o] = 0
        /\ \A p \in Outputs \ {o} :
              /\ active'[p] = active[p]
              /\ previous'[p] = previous[p]
              /\ spaces'[p] = spaces[p]
    BY <1>1 DEF Inv, TypeOK, NewOutput, AddOutput
  <2>3. o \notin Connected /\ Connected \subseteq Outputs
    BY <1>1, ListedType DEF Inv, NewOutput
  <2> QED
    BY <2>1, <2>2, <2>3 DEF BackElsewhere
<1>2. CASE UnplugOutput(o)
  <2>1. Connected' = Connected \ {o}
    BY <1>2, UnpluggedOne
  <2>2. \A p \in Outputs \ {o} :
              /\ active'[p] = active[p]
              /\ previous'[p] = previous[p]
              /\ spaces'[p] = spaces[p]
    BY <1>2 DEF Inv, TypeOK, UnplugOutput
  <2>3. Connected \subseteq Outputs
    BY ListedType DEF Inv
  <2> QED
    BY <2>1, <2>2, <2>3 DEF BackElsewhere
<1> QED
  BY <1>1, <1>2

(* workspace-back goes somewhere else, to a workspace that exists unless   *)
(* none was left since the output came (action.c:98).                      *)
THEOREM BackGoesElsewhere == Spec => []BackElsewhere
<1>1. Init => BackElsewhere
  <2>1. Init => Connected \subseteq Outputs
    BY InitInv, ListedType DEF Inv
  <2> QED
    BY <2>1 DEF Init, BackElsewhere
<1>2. Inv /\ Inv' /\ BackElsewhere /\ [Next]_vars => BackElsewhere'
  <2> SUFFICES ASSUME Inv, Inv', BackElsewhere, [Next]_vars
               PROVE  BackElsewhere'
    OBVIOUS
  <2>1. CASE OutputsKept
    <3>1. Connected' = Connected /\ Connected \subseteq Outputs
      BY <2>1, ListedType DEF Inv, OutputsKept, Connected
    <3> QED
      BY <2>1, <3>1 DEF OutputsKept, BackElsewhere
  <2>2. CASE Switches
    BY <2>2, SwitchBack DEF Switches
  <2>3. CASE \E o \in Outputs : NewOutput(o) \/ UnplugOutput(o)
    BY <2>3, PluggedBack
  <2> QED
    BY <2>1, <2>2, <2>3, StepPlaces DEF PlaceKinds, Stays, Puts, Drops
<1> QED
  BY <1>1, <1>2, Invariance, PTL DEF Spec

-----------------------------------------------------------------------------
(* Windows that stay where they are, and stay in view *)

(* No handler takes a window along unless it is the focused one, the one   *)
(* dropped with the mouse, or its output went away (output.c, action.c).   *)
THEOREM WindowsAreLeftAlone == Spec => WindowsStayPut
<1>1. ASSUME Inv, Inv', [Next]_vars, NEW w \in mapped \cap mapped',
             home'[w] # home[w]
      PROVE  \/ w \in {focus.window, op.window}
             \/ home[w] # Null /\ home[w][1] \notin Connected'
  <2>1. w \in Listed /\ w \in Listed' /\ w \in Windows
    <3>1. mapped \subseteq Listed /\ (mapped \subseteq Listed)'
      BY <1>1 DEF Inv, ListOK
    <3> QED
      BY <1>1, <3>1, ListedType DEF Inv
  <2>2. CASE Stays
    BY <1>1, <2>1, <2>2 DEF Stays
  <2>3. CASE \E v \in Windows : Puts(v) \/ Drops(v)
    BY <1>1, <2>1, <2>3 DEF Puts, Drops
  <2>4. CASE Switches \/ \E o \in Outputs : NewOutput(o)
    BY <1>1, <2>4
       DEF Switches, SwitchWorkspace, ShowWorkspace, NewOutput, AddOutput,
           windowVars
  <2>5. ASSUME NEW o \in Outputs, UnplugOutput(o)
        PROVE  home[w] # Null /\ home[w][1] \notin Connected'
    <3>1. w \in There(o)
      BY <1>1, <2>1, <2>5 DEF UnplugOutput
    <3>2. Connected' = Connected \ {o}
      BY <1>1, <2>5, UnpluggedOne
    <3> QED
      BY <3>1, <3>2 DEF There
  <2> QED
    BY <1>1, <2>2, <2>3, <2>4, <2>5, StepPlaces DEF PlaceKinds
<1>2. Inv /\ Inv' /\ [Next]_vars =>
         [\A w \in mapped \cap mapped' :
             home'[w] # home[w] =>
                 \/ w \in {focus.window, op.window}
                 \/ home[w] # Null /\ home[w][1] \notin Connected']_vars
  BY <1>1
<1> QED
  BY <1>2, Invariance, PTL DEF Spec, WindowsStayPut

(* A window that keeps the focus stays in view if it was.                  *)
LEMMA FocusSeen ==
    ASSUME Inv, Inv', [Next]_vars, focus.window # Null,
           focus'.window = focus.window, OnActive(focus.window)
    PROVE  OnActive(focus.window)'
<1> DEFINE w == focus.window
<1>1. /\ w \in Windows /\ w \in mapped /\ w \in Listed
      /\ home[w][1] \in Connected /\ home[w][1] \in Outputs
      /\ w \in Listed'
  <2>1. focus'.window \in mapped'
    BY DEF Inv, FocusLive
  <2> QED
    BY <2>1, FocusedHome DEF Inv, ListOK
<1>2. CASE OutputsKept /\ home'[w] = home[w]
  BY <1>2 DEF OutputsKept, OnActive
<1>3. CASE Stays \/ \E v \in Windows : Drops(v)
  BY <1>1, <1>2, <1>3 DEF Stays, Drops
<1>4. ASSUME NEW v \in Windows, Puts(v) PROVE OnActive(focus.window)'
  <2>1. CASE v # w
    BY <1>1, <1>2, <1>4, <2>1 DEF Puts
  <2>2. CASE v = w
    <3>1. PICK o \in Outputs :
            home'[w] = home[w] \/ home'[w] = <<o, active[o]>>
      BY <1>1, <1>4, <2>2 DEF Puts
    <3>2. active' = active
      BY <1>4 DEF Puts, OutputsKept
    <3>3. home'[w] # Null
      BY <3>1, ActiveHome DEF ActiveOf, OnActive
    <3> QED
      BY <3>1, <3>2, <3>3 DEF OnActive
  <2> QED
    BY <2>1, <2>2
<1>5. ASSUME NEW o \in Outputs, focus'.window # Null =>
                home'[focus'.window] = <<o, active'[o]>>
      PROVE  OnActive(focus.window)'
  <2>1. home'[w] = <<o, active'[o]>>
    BY <1>5
  <2>2. <<o, active'[o]>> \in Workspace
    BY DEF Inv, TypeOK, Workspace
  <2> QED
    BY <2>1, <2>2, ServerAssumption DEF OnActive
<1>6. focus \in Focuses /\ windows' \in Seq(Windows)
  BY DEF Inv, TypeOK
<1>7. CASE Switches
  <2>1. PICK o \in Connected, n \in Numbers : SwitchWorkspace(o, n)
    BY <1>7 DEF Switches
  <2>2. o \in Outputs /\ focus' = FocusActive(focus, o)
    BY <2>1, ListedType DEF Inv, SwitchWorkspace, ShowWorkspace
  <2> QED
    BY <1>5, <1>6, <2>2, FocusActiveType
<1>8. ASSUME NEW o \in Outputs, NewOutput(o) PROVE OnActive(focus.window)'
  <2>1. home' = home /\ active'[home[w][1]] = active[home[w][1]]
    BY <1>1, <1>8 DEF Inv, TypeOK, NewOutput, AddOutput, windowVars
  <2> QED
    BY <2>1 DEF OnActive
<1>9. ASSUME NEW o \in Outputs, UnplugOutput(o) PROVE OnActive(focus.window)'
  <2> DEFINE fallback == Fallback(o)
             f == IF focus.output = o THEN [focus EXCEPT !.output = fallback]
                  ELSE focus
  <2>1. fallback \in Outputs \cup {Null}
    BY FallbackType
  <2>2. f \in Focuses
    BY <1>6, <2>1 DEF Focuses
  <2>3. focus' = (IF fallback # Null THEN FocusActive(f, fallback)
                  ELSE [f EXCEPT !.window = Null])
    BY <1>9 DEF UnplugOutput, LeftFocus
  <2> HIDE DEF fallback, f
  <2>4. fallback # Null
    BY <2>2, <2>3 DEF Focuses
  <2> QED
    BY <1>5, <1>6, <2>1, <2>2, <2>3, <2>4, FocusActiveType
<1> HIDE DEF w
<1> QED
  BY <1>3, <1>4, <1>7, <1>8, <1>9, StepPlaces DEF PlaceKinds

(* Whatever takes the focused window out of view, a switch, a move or an   *)
(* unplugged monitor, moves the focus as well (action.c, output.c).        *)
THEOREM FocusStaysInView == Spec => NeverHidesFocus
<1>1. Inv /\ Inv' /\ [Next]_vars =>
         [focus.window # Null /\ focus'.window = focus.window
            /\ OnActive(focus.window) => OnActive(focus.window)']_vars
  BY FocusSeen
<1> QED
  BY <1>1, Invariance, PTL DEF Spec, NeverHidesFocus

-----------------------------------------------------------------------------
(* With a monitor that stays *)

(* The strengthening of NoOrphans that is inductive: the monitor stays     *)
(* plugged, so that some output is focused and some output inherits.       *)
Sheltered == Builtin # Null => Builtin \in Connected /\ NoOrphans

(* What the handlers may rely on.                                          *)
LEMMA Shelter ==
    ASSUME Inv, Sheltered, Builtin # Null
    PROVE  /\ focus.output \in Connected /\ focus.output # Null
           /\ \A w \in Listed : home[w] # Null
           /\ \A w \in mapped : home[w] # Null
           /\ Builtin \in Connected
<1>1. focus.output # Null
  BY DEF Inv, OutputsOK, Sheltered, Connected, ToSet
<1> QED
  BY <1>1, FocusedOutput DEF Inv, ListOK, Sheltered, NoOrphans

(* The causes NoOrphans excludes.                                          *)
Homeless == {"orphan", "no output"}

LEMMA MapWindowHoused ==
    ASSUME Inv, Sheltered, Builtin # Null, crash = "none",
           NEW w \in Windows, MapWindow(w)
    PROVE  crash' \notin Homeless
<1>1. PICK dialog \in {FALSE} \cup {w \in Dialogs}, r \in Rules, c \in Configs :
        MapWindow(w)!(dialog, r, c)
  BY DEF MapWindow
<1> DEFINE here == IF w \in Listed THEN home[w] ELSE ActiveOf(focus.output)
           ws == IF r.target # Null /\ r.target[1] \in Connected THEN r.target
                 ELSE here
<1>2. here # Null
  BY Shelter, ActiveHome, ListedType DEF Inv
<1>3. ws # Null
  BY <1>2
<1>4. focus.output # Null
  BY Shelter
<1>5. \E states, focusing : MapOn(w, ws, states, c, focusing)
  BY <1>1, <1>2, <1>3, <1>4
<1> HIDE DEF ws
<1> QED
  BY <1>5 DEF MapOn, Homeless

LEMMA NoHomelessCrash ==
    ASSUME Inv, Sheltered, Builtin # Null, crash = "none", Next
    PROVE  crash' \notin Homeless
<1>1. CASE UNCHANGED crash
  BY <1>1 DEF Homeless
<1>2. ASSUME NEW cause \in {"freed output", "freed window", "unlinked window"},
             Crash(cause)
      PROVE  crash' \notin Homeless
  BY <1>2 DEF Crash, Homeless
<1>3. ASSUME NEW w \in Windows, WindowStep(w) PROVE crash' \notin Homeless
  <2>1. CASE \/ CreateWindow(w) \/ InitialCommit(w) \/ UnmapWindow(w)
             \/ DestroyWindow(w) \/ RequestFullscreen(w)
             \/ RequestMaximize(w) \/ BeginGrab(w, "move")
             \/ BeginGrab(w, "resize")
    BY <1>1, <2>1
       DEF CreateWindow, InitialCommit, UnmapWindow, DestroyWindow,
           RequestFullscreen, RequestMaximize, SetState, BeginGrab
  <2>2. CASE CommitSize(w) \/ ParentChanged(w) \/ ActivateWindow(w)
    <3>1. home[w] # Null
      BY <2>2, Shelter DEF CommitSize, ParentChanged, ActivateWindow
    <3> QED
      BY <1>1, <2>2, <3>1
         DEF CommitSize, ParentChanged, ActivateWindow, SetState, SetFocus
  <2> QED
    BY <1>3, <2>1, <2>2, MapWindowHoused DEF WindowStep
<1>4. ASSUME NEW o \in Outputs, OutputStep(o) PROVE crash' \notin Homeless
  BY <1>1, <1>4
     DEF OutputStep, NewOutput, AddOutput, UnplugOutput, PointerOverOutput,
         SetFocus, FocusOutput, FocusOnOutput, MoveToOutput, SendWindow,
         ExtActivate, SwitchWorkspace, ShowWorkspace, SetWorkspace, vars
<1>5. ASSUME NEW l \in Layers, LayerStep(l) PROVE crash' \notin Homeless
  BY <1>1, <1>2, <1>5
     DEF LayerStep, NewLayer, MapLayer, CommitLayer, UnmapLayer, DestroyLayer
<1>6. CASE CommandStep
  <2>1. CASE FocusDirection
    <3>1. ~ \E w \in mapped \ {focus.window} : home[w] = Null
      BY Shelter
    <3> QED
      BY <1>1, <2>1, <3>1 DEF FocusDirection, SetFocus, FocusOnOutput
  <2>2. CASE GrabMotion \/ EndGrab
    BY <1>1, <1>2, <2>2 DEF GrabMotion, EndGrab
  <2>3. CASE ~ (FocusDirection \/ GrabMotion \/ EndGrab)
    BY <1>1, <1>6, <2>3
       DEF CommandStep, FocusNext, SwapNext, WorkspaceCycle, WorkspaceCommand,
           MoveToWorkspace, WorkspaceBack, SwapMaster, SwapDirection, Toggle,
           SetFocus, SetOrder, SetState, SendWindow, SwitchWorkspace,
           ShowWorkspace
  <2> QED
    BY <2>1, <2>2, <2>3
<1> QED
  BY <1>3, <1>4, <1>5, <1>6 DEF Next

(* The windows of an unplugged output find an heir.                        *)
LEMMA HeirExists ==
    ASSUME Inv, NEW o \in Outputs, UnplugOutput(o), Builtin \in Connected
    PROVE  Fallback(o) \in Connected \ {o} /\ Heir(o) = ActiveOf(Fallback(o))
<1>1. Builtin \in (Connected \ {o}) \cap ToSet(outputs)
  BY DEF UnplugOutput, Connected
<1>2. Fallback(o) # Null /\ Fallback(o) \in Connected \ {o}
  <2>1. outputs \in Seq(Outputs) /\ Null \notin Outputs
    BY ServerAssumption DEF Inv, TypeOK
  <2> DEFINE S == Connected \ {o}
  <2>2. /\ FirstOf(outputs, S) \in (S \cap ToSet(outputs)) \cup {Null}
        /\ FirstOf(outputs, S) = Null => S \cap ToSet(outputs) = {}
    BY <2>1, FirstOfType
  <2> QED
    BY <1>1, <2>2 DEF Fallback
<1> QED
  BY <1>2 DEF Heir

LEMMA ShelterStep ==
    ASSUME Inv, Inv', Sheltered, [Next]_vars
    PROVE  Sheltered'
<1> SUFFICES ASSUME Builtin # Null
             PROVE  (Builtin \in Connected /\ NoOrphans)'
  BY DEF Sheltered
<1>1. Builtin \in Connected /\ \A w \in Listed : home[w] # Null
  BY Shelter
<1>2. crash' \notin Homeless
  <2>1. CASE UNCHANGED vars
    BY <2>1 DEF vars, Sheltered, NoOrphans, Homeless
  <2>2. CASE Next
    <3>1. crash = "none"
      BY <2>2 DEF Next
    <3> QED
      BY <2>2, <3>1, NoHomelessCrash
  <2> QED
    BY <2>1, <2>2
<1>3. Builtin \in Connected' /\ \A w \in Listed' : home'[w] # Null
  <2>1. CASE Stays \/ \E w \in Windows : Drops(w)
    BY <1>1, <2>1 DEF Stays, Drops, OutputsKept, Connected
  <2>2. ASSUME NEW w \in Windows, Puts(w)
        PROVE  Builtin \in Connected' /\ \A v \in Listed' : home'[v] # Null
    <3>1. home'[w] # Null
      BY <1>1, <2>2, Shelter DEF Puts
    <3> QED
      BY <1>1, <2>2, <3>1 DEF Puts, OutputsKept, Connected
  <2>3. CASE Switches
    BY <1>1, <2>3
       DEF Switches, SwitchWorkspace, ShowWorkspace, windowVars, Listed,
           Connected
  <2>4. ASSUME NEW o \in Outputs, NewOutput(o)
        PROVE  Builtin \in Connected' /\ \A v \in Listed' : home'[v] # Null
    <3>1. Connected' = Connected \cup {o}
      BY <2>4, PluggedOne
    <3> QED
      BY <1>1, <2>4, <3>1 DEF NewOutput, AddOutput, windowVars, Listed
  <2>5. ASSUME NEW o \in Outputs, UnplugOutput(o)
        PROVE  Builtin \in Connected' /\ \A v \in Listed' : home'[v] # Null
    <3>1. Builtin # o /\ Connected' = Connected \ {o} /\ Listed' = Listed
      BY <2>5, UnpluggedOne DEF UnplugOutput, Listed
    <3>2. Heir(o) # Null
      BY <1>1, <2>5, HeirExists, ActiveHome, ListedType DEF Inv
    <3> QED
      BY <1>1, <2>5, <3>1, <3>2, ListedType DEF Inv, UnplugOutput
  <2> QED
    BY <2>1, <2>2, <2>3, <2>4, <2>5, StepPlaces DEF PlaceKinds
<1> QED
  BY <1>2, <1>3 DEF NoOrphans, Homeless

LEMMA ShelterInvariance == Spec => []Sheltered
<1>1. Init => Sheltered
  BY DEF Init, Sheltered, NoOrphans, Listed, Connected, ToSet
<1>2. Inv /\ Inv' /\ Sheltered /\ [Next]_vars => Sheltered'
  BY ShelterStep
<1> QED
  BY <1>1, <1>2, Invariance, PTL DEF Spec

(* With a monitor that is never unplugged every listed window has a        *)
(* workspace, and no handler meets one without or misses an output         *)
(* (output.c:72, window.c, xwayland.c).                                    *)
THEOREM NoWindowOrphaned == Spec => []NoOrphans
<1>1. Sheltered => NoOrphans
  BY DEF Sheltered, NoOrphans
<1> QED
  BY <1>1, ShelterInvariance, PTL

-----------------------------------------------------------------------------
(* The core implements Desktop: step by step *)

Current == [o \in Connected |-> active[o]]
Place == [w \in Windows |-> IF w \in Listed THEN home[w] ELSE Null]

LEMMA SameCurrent ==
    ASSUME OutputsKept
    PROVE  Current' = Current
BY DEF OutputsKept, Current, Connected

(* No window and no output moves: a step Desktop does not see.             *)
LEMMA StaysUnseen ==
    ASSUME Inv, Stays
    PROVE  UNCHANGED Places!vars
<1>1. Current' = Current
  BY SameCurrent DEF Stays
<1>2. Place' = Place
  BY DEF Stays, Place
<1> QED
  BY <1>1, <1>2 DEF Places!vars, Current, Place

LEMMA PutsIsPut ==
    ASSUME Inv, Inv', Sheltered', Builtin # Null, NEW w \in Windows, Puts(w)
    PROVE  Places!Put(w)
<1>1. Current' = Current
  BY SameCurrent DEF Puts
<1>2. Place' = [Place EXCEPT ![w] = home'[w]]
  BY DEF Puts, Place
<1>3. w \in Listed' /\ home'[w] # Null
  BY DEF Puts, Sheltered, NoOrphans
<1>4. home'[w] \in Connected \X Numbers
  <2>1. home'[w] \in Workspace /\ home'[w][1] \in Connected'
    BY <1>3 DEF Inv, HomesLive, IsLive
  <2>2. Connected' = Connected
    BY DEF Puts, OutputsKept, Connected
  <2> QED
    BY <2>1, <2>2 DEF Workspace
<1>5. DOMAIN Current = Connected
  BY DEF Current
<1> QED
  BY <1>1, <1>2, <1>4, <1>5
     DEF Places!Put, Places!Places, Places!Plugged, Current, Place

LEMMA DropsIsClose ==
    ASSUME Inv, NEW w \in Windows, Drops(w)
    PROVE  Places!Close(w)
<1>1. Current' = Current
  BY SameCurrent DEF Drops
<1>2. Place' = [Place EXCEPT ![w] = Null]
  BY DEF Drops, Place
<1> QED
  BY <1>1, <1>2 DEF Places!Close, Current, Place

LEMMA SwitchIsSwitch ==
    ASSUME Inv, NEW o \in Connected, NEW n \in Numbers, SwitchWorkspace(o, n)
    PROVE  Places!Switch(o)
<1>1. Connected' = Connected /\ Connected \subseteq Outputs
  BY ListedType DEF Inv, SwitchWorkspace, ShowWorkspace, Connected
<1>2. active' = [active EXCEPT ![o] = n] /\ active \in [Outputs -> Numbers]
  BY DEF Inv, TypeOK, SwitchWorkspace, ShowWorkspace
<1>3. Current' = [Current EXCEPT ![o] = n]
  BY <1>1, <1>2 DEF Current
<1>4. Place' = Place
  BY DEF SwitchWorkspace, ShowWorkspace, windowVars, Place, Listed
<1> QED
  BY <1>3, <1>4 DEF Places!Switch, Current, Place

LEMMA NewOutputIsPlug ==
    ASSUME Inv, NEW o \in Outputs, NewOutput(o)
    PROVE  Places!Plug(o) /\ o \notin Connected
<1>1. Connected' = Connected \cup {o} /\ Connected \subseteq Outputs
  BY PluggedOne, ListedType DEF Inv
<1>2. active' = [active EXCEPT ![o] = 1] /\ active \in [Outputs -> Numbers]
  BY DEF Inv, TypeOK, NewOutput, AddOutput
<1>3. Current' = [p \in Connected \cup {o} |->
                     IF p = o THEN 1 ELSE Current[p]]
  BY <1>1, <1>2 DEF Current
<1>4. Place' = Place
  BY DEF NewOutput, AddOutput, windowVars, Place, Listed
<1>5. DOMAIN Current = Connected
  BY DEF Current
<1> QED
  BY <1>3, <1>4, <1>5
     DEF Places!Plug, Places!Plugged, Current, Place, NewOutput

LEMMA UnplugOutputIsUnplug ==
    ASSUME Inv, Sheltered, Builtin # Null, NEW o \in Outputs, UnplugOutput(o)
    PROVE  \E heir \in Connected \ {o} : Places!Unplug(o, heir)
<1>1. PICK heir \in Connected \ {o} : Heir(o) = ActiveOf(heir)
  BY HeirExists, Shelter
<1>2. Connected' = Connected \ {o} /\ Connected \subseteq Outputs
  BY UnpluggedOne, ListedType DEF Inv
<1>3. active' = [active EXCEPT ![o] = 1] /\ active \in [Outputs -> Numbers]
  BY DEF Inv, TypeOK, UnplugOutput
<1>4. Current' = [p \in Connected \ {o} |-> Current[p]]
  BY <1>2, <1>3 DEF Current
<1>5. Heir(o) = <<heir, Current[heir]>>
  BY <1>1 DEF ActiveOf, Current
<1>6. /\ Listed' = Listed
      /\ home' = [w \in Windows |-> IF w \in There(o) THEN Heir(o)
                                     ELSE home[w]]
  BY DEF UnplugOutput, Listed
<1>7. \A w \in Windows :
         w \in There(o) <=> Place[w] # Null /\ Place[w][1] = o
  BY DEF There, Place
<1>8. Place' = [w \in Windows |-> IF Place[w] # Null /\ Place[w][1] = o
                                  THEN <<heir, Current[heir]>>
                                  ELSE Place[w]]
  <2>1. ASSUME NEW w \in Windows
        PROVE  (IF w \in Listed' THEN home'[w] ELSE Null)
                  = IF w \in There(o) THEN <<heir, Current[heir]>>
                    ELSE Place[w]
    BY <1>5, <1>6 DEF There, Place
  <2> QED
    BY <1>7, <2>1 DEF Place
<1>9. DOMAIN Current = Connected
  BY DEF Current
<1>10. Places!Unplug(o, heir)
  BY <1>4, <1>8, <1>9 DEF Places!Unplug, Places!Plugged, Current, Place
<1> QED
  BY <1>10

LEMMA StepImplements ==
    ASSUME Inv, Inv', Sheltered, Sheltered', Builtin # Null, [Next]_vars
    PROVE  [Places!Next]_(Places!vars)
<1>1. Places!Plugged = Connected
  BY DEF Places!Plugged
<1>2. CASE Stays
  BY <1>2, StaysUnseen
<1>3. CASE \E w \in Windows : Puts(w) \/ Drops(w)
  BY <1>3, PutsIsPut, DropsIsClose DEF Places!Next
<1>4. CASE Switches
  BY <1>1, <1>4, SwitchIsSwitch DEF Switches, Places!Next
<1>5. ASSUME NEW o \in Outputs, NewOutput(o) PROVE Places!Next
  BY <1>1, <1>5, NewOutputIsPlug DEF Places!Next
<1>6. ASSUME NEW o \in Outputs, UnplugOutput(o) PROVE Places!Next
  <2>1. o \in Connected
    BY <1>6 DEF UnplugOutput
  <2> QED
    BY <1>1, <1>6, <2>1, UnplugOutputIsUnplug DEF Places!Next
<1> QED
  BY <1>2, <1>3, <1>4, <1>5, <1>6, StepPlaces DEF PlaceKinds

(* With a monitor that stays, every step of the core is a step of the      *)
(* abstract desktop or one it does not see, for any number of windows,     *)
(* monitors and workspaces: one window at a time changes place, and those  *)
(* of a monitor that goes away stay together, in view (output.c:72).       *)
THEOREM Implementation ==
    ASSUME Builtin # Null
    PROVE  Spec => ImplementsDesktop
<1>1. Init => Places!Init
  <2> SUFFICES ASSUME Init PROVE Places!Init
    OBVIOUS
  <2>1. Connected = {Builtin} /\ Listed = {} /\ Builtin \in Outputs
    BY ServerAssumption DEF Init, Connected, Listed, ToSet
  <2>2. [o \in Connected |-> active[o]] = [p \in {Builtin} |-> 1]
    BY <2>1 DEF Init
  <2> QED
    BY <2>1, <2>2 DEF Places!Init
<1>2. Inv /\ Inv' /\ Sheltered /\ Sheltered' /\ [Next]_vars =>
         [Places!Next]_(Places!vars)
  BY StepImplements
<1> QED
  BY <1>1, <1>2, Invariance, ShelterInvariance, PTL
     DEF Spec, ImplementsDesktop, Places!Spec
=============================================================================
