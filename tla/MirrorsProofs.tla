--------------------------- MODULE MirrorsProofs ---------------------------
(***************************************************************************)
(* What bars and taskbars are told, for every number of windows, outputs,  *)
(* workspaces and layer surfaces.  MirrorTrue is inductive as it stands,   *)
(* next to the fact that the outputs' sets of workspaces only grow while   *)
(* their output is there.  TaskbarNeverLies is not: it needs InView, that  *)
(* the compositor remembers where each mapped window was in view last, and *)
(* the invariant of the core.                                              *)
(***************************************************************************)
EXTENDS Mirrors, ServerProofs

Tabled == spaces = [o \in Outputs |-> spaces[o]]
MirrorInv == Tabled /\ MirrorTrue

\* What a step may do to the outputs without telling the bars: nothing.
Settled == UNCHANGED <<outputs, active, spaces>>

LEMMA ArrangeKeepsTable ==
    ASSUME Tabled, ArrangingStep, crash = "none"
    PROVE  /\ Tabled'
           /\ crash' # "none" => Settled /\ UNCHANGED windowVars
<1>1. ASSUME NEW w \in Windows,
             \/ InitialCommit(w) \/ DestroyWindow(w) \/ MapWindow(w)
             \/ UnmapWindow(w) \/ CommitSize(w) \/ ParentChanged(w)
             \/ RequestFullscreen(w) \/ RequestMaximize(w)
      PROVE  /\ Tabled'
             /\ crash' # "none" => Settled /\ UNCHANGED windowVars
  <2>1. CASE InitialCommit(w)
    BY <2>1 DEF InitialCommit, ReserveWindow, Tabled, Settled
  <2>2. CASE DestroyWindow(w)
    BY <2>2 DEF DestroyWindow, Tabled, Settled
  <2>3. CASE MapWindow(w)
    <3>1. PICK dialog \in {FALSE} \cup {w \in Dialogs}, r \in Rules,
               c \in Configs : MapWindow(w)!(dialog, r, c)
      BY <2>3 DEF MapWindow
    <3>2. CASE Crash("no output") \/ Crash("orphan")
      BY <3>2 DEF Crash, outputVars, Tabled, Settled
    <3>3. CASE \E ws, states, focusing : MapOn(w, ws, states, c, focusing)
      BY <3>3 DEF MapOn, Opened, Tabled
    <3> QED
      BY <3>1, <3>2, <3>3
  <2>4. CASE UnmapWindow(w)
    BY <2>4 DEF UnmapWindow, Tabled, Settled
  <2>5. CASE CommitSize(w)
    BY <2>5 DEF CommitSize, SetState, Crash, outputVars, Tabled, Settled
  <2>6. CASE ParentChanged(w)
    BY <2>6 DEF ParentChanged, SetState, Crash, outputVars, Tabled, Settled
  <2>7. CASE RequestFullscreen(w)
    BY <2>7 DEF RequestFullscreen, SetState, outputVars, Tabled, Settled
  <2>8. CASE RequestMaximize(w)
    BY <2>8 DEF RequestMaximize, SetState, outputVars, Tabled, Settled
  <2> QED
    BY <1>1, <2>1, <2>2, <2>3, <2>4, <2>5, <2>6, <2>7, <2>8
<1>2. ASSUME NEW o \in Outputs,
             MoveToOutput(o) \/ \E n \in Numbers : SetWorkspace(o, n)
      PROVE  Tabled' /\ crash' = crash
  BY <1>2 DEF MoveToOutput, SendWindow, SetWorkspace, Opened, Tabled
<1>3. ASSUME NEW l \in Layers,
             MapLayer(l) \/ CommitLayer(l) \/ UnmapLayer(l) \/ DestroyLayer(l)
      PROVE  Tabled' /\ Settled /\ UNCHANGED windowVars
  BY <1>3 DEF MapLayer, CommitLayer, UnmapLayer, DestroyLayer, Crash,
              outputVars, Tabled, Settled
<1>4. ASSUME NEW d \in {1, -1}, SwapNext(d) \/ WorkspaceCycle(d)
      PROVE  Tabled' /\ crash' = crash
  BY <1>4 DEF SwapNext, SetOrder, WorkspaceCycle, SwitchWorkspace,
              ShowWorkspace, Opened, outputVars, Tabled
<1>5. ASSUME NEW n \in Numbers, WorkspaceCommand(n) \/ MoveToWorkspace(n)
      PROVE  Tabled' /\ crash' = crash
  BY <1>5 DEF WorkspaceCommand, MoveToWorkspace, SendWindow, SwitchWorkspace,
              ShowWorkspace, Opened, Tabled
<1>6. CASE WorkspaceBack
  BY <1>6 DEF WorkspaceBack, SwitchWorkspace, ShowWorkspace, Opened, Tabled
<1>7. CASE SwapMaster \/ SwapDirection
  BY <1>7 DEF SwapMaster, SwapDirection, SetOrder, outputVars, Tabled, Settled
<1>8. CASE Toggle
  BY <1>8 DEF Toggle, SetState, outputVars, Tabled, Settled
<1>9. CASE EndGrab
  BY <1>9 DEF EndGrab, Crash, outputVars, Tabled, Settled
<1> QED
  BY <1>1, <1>2, <1>3, <1>4, <1>5, <1>6, <1>7, <1>8, <1>9 DEF ArrangingStep

LEMMA QuietKeepsOutputs ==
    ASSUME QuietStep
    PROVE  Settled /\ UNCHANGED <<handles, marked>>
<1>1. ASSUME NEW w \in Windows,
             \/ InitialCommit(w) \/ DestroyWindow(w) \/ CreateWindow(w)
             \/ ActivateWindow(w)
             \/ BeginGrab(w, "move") \/ BeginGrab(w, "resize")
      PROVE  Settled
  BY <1>1 DEF InitialCommit, ReserveWindow, DestroyWindow, CreateWindow,
              ActivateWindow, SetFocus, Crash, BeginGrab, outputVars, Settled
<1>2. ASSUME NEW o \in Outputs,
             \/ PointerOverOutput(o) \/ FocusOutput(o)
             \/ \E l \in Layers : NewLayer(l, o)
      PROVE  Settled
  BY <1>2 DEF PointerOverOutput, FocusOutput, FocusOnOutput, SetFocus,
              NewLayer, outputVars, Settled
<1>3. ASSUME NEW d \in {1, -1}, FocusNext(d) PROVE Settled
  BY <1>3 DEF FocusNext, SetFocus, outputVars, Settled
<1>4. ASSUME FocusDirection \/ GrabMotion PROVE Settled
  BY <1>4 DEF FocusDirection, FocusOnOutput, SetFocus, GrabMotion, Crash,
              outputVars, Settled
<1> QED
  BY <1>1, <1>2, <1>3, <1>4 DEF QuietStep

\* What honey_ext_workspace_sync tells is true, whichever outputs have their
\* workspaces by then.
LEMMA SyncTellsTheTruth ==
    ASSUME NEW S, SyncWorkspaces(S)
    PROVE  MirrorTrue'
BY DEF SyncWorkspaces, MirrorTrue

LEMMA GrowingKeepsTruth ==
    ASSUME MirrorInv, NEW ws, spaces' = Opened(ws),
           UNCHANGED <<outputs, active, handles, marked>>
    PROVE  MirrorInv'
BY DEF MirrorInv, MirrorTrue, Tabled, Opened, Connected

LEMMA MirrorStep == MirrorInv /\ [MirrorNext]_mirrorVars => MirrorInv'
<1> SUFFICES ASSUME MirrorInv, [MirrorNext]_mirrorVars PROVE MirrorInv'
  OBVIOUS
<1>1. CASE UNCHANGED mirrorVars
  BY <1>1 DEF mirrorVars, vars, outputVars, barVars, MirrorInv, MirrorTrue,
              Tabled, Connected
<1>2. ASSUME Settled, UNCHANGED <<handles, marked>> PROVE MirrorInv'
  BY <1>2 DEF Settled, MirrorInv, MirrorTrue, Tabled, Connected
<1>3. CASE ArrangingStep /\ crash = "none"
  <2>1. Tabled' /\ (crash' # "none" => Settled)
    BY <1>3, ArrangeKeepsTable DEF MirrorInv
  <2>2. CASE crash' = "none"
    BY <1>3, <2>1, <2>2, SyncTellsTheTruth DEF ArrangingStep, Sync, MirrorInv
  <2>3. CASE crash' # "none"
    BY <1>2, <1>3, <2>1, <2>3 DEF ArrangingStep, barVars
  <2> QED
    BY <2>2, <2>3
<1>4. CASE QuietStep
  BY <1>2, <1>4, QuietKeepsOutputs
<1>5. CASE ActivateHandle
  <2>1. Tabled' /\ Sync
    BY <1>5 DEF ActivateHandle, ExtActivate, SwitchWorkspace, ShowWorkspace,
                Opened, MirrorInv, Tabled
  <2> QED
    BY <2>1, SyncTellsTheTruth DEF Sync, MirrorInv
<1>6. CASE Rearrange
  BY <1>6, SyncTellsTheTruth DEF Rearrange, Sync, outputVars, MirrorInv,
                                 Tabled
<1>7. ASSUME NEW o \in Outputs, PlugOutput(o) PROVE MirrorInv'
  BY <1>7, SyncTellsTheTruth DEF PlugOutput, NewOutput, AddOutput,
                                 MirrorInv, Tabled
<1>8. ASSUME NEW o \in Outputs, RemoveOutput(o) PROVE MirrorInv'
  BY <1>8, SyncTellsTheTruth DEF RemoveOutput, UnplugOutput, MirrorInv,
                                 Tabled
<1>9. ASSUME NEW n \in Numbers, NEW called, NameWorkspace(n, called)
      PROVE  MirrorInv'
  BY <1>9, GrowingKeepsTruth DEF NameWorkspace, barVars
<1>10. ASSUME NEW o \in Outputs, NEW n \in Numbers, RefuseSetWorkspace(o, n)
       PROVE  MirrorInv'
  BY <1>10, GrowingKeepsTruth DEF RefuseSetWorkspace, barVars
<1> QED
  BY <1>1, <1>3, <1>4, <1>5, <1>6, <1>7, <1>8, <1>9, <1>10 DEF MirrorNext

(* For every instance: a bar only ever holds handles of workspaces that    *)
(* exist, and never shows another workspace as active than the one in      *)
(* view, through every order of plugging, unplugging, switching and        *)
(* sending (ext-workspace.c, output.c).                                    *)
THEOREM BarsToldTheTruth == MirrorSpec => []MirrorTrue
<1>1. MirrorInit => MirrorInv
  BY DEF MirrorInit, Init, MirrorInv, MirrorTrue, Tabled
<1>2. MirrorInv => MirrorTrue
  BY DEF MirrorInv
<1> QED
  BY <1>1, <1>2, MirrorStep, PTL DEF MirrorSpec

-----------------------------------------------------------------------------
(* Taskbars.  The core's invariant holds here too: the handlers this module *)
(* adds only make workspaces, or only arrange.                              *)

LEMMA OpeningStep ==
    ASSUME Inv, NEW o \in Connected, NEW n \in Numbers,
           spaces' = Opened(<<o, n>>),
           UNCHANGED <<windowVars, shown, op, outputs, active, previous,
                       layerVars, focus, crash>>
    PROVE  Inv'
<1>1. /\ spaces' \in [Outputs -> SUBSET Numbers]
      /\ \A p \in Outputs : spaces[p] \subseteq spaces'[p]
  BY DEF Inv, TypeOK, Opened
<1>2. Connected' = Connected /\ Connected \subseteq Outputs
  BY ListedType DEF Inv, Connected
<1>3. TypeOK'
  BY <1>1 DEF Inv, TypeOK, windowVars, layerVars
<1>4. ListOK' /\ OutputsOK' /\ ShownExactly'
  BY <1>1, <1>2
     DEF Inv, ListOK, OutputsOK, ShownExactly, Visible, Listed, windowVars
<1>5. HomesLive' /\ FocusLive'
  BY <1>1, <1>2 DEF Inv, HomesLive, FocusLive, IsLive, Listed, windowVars
<1> QED
  BY <1>3, <1>4, <1>5 DEF Inv

LEMMA RearrangeStep ==
    ASSUME Inv, Rearrange
    PROVE  Inv'
<1>1. ShownExactly' /\ shown' \subseteq Windows
  BY ArrangeShows DEF Inv, TypeOK, Rearrange, windowVars
<1>2. TypeOK'
  BY <1>1 DEF Inv, TypeOK, Rearrange, windowVars, outputVars, layerVars
<1>3. ListOK' /\ OutputsOK' /\ HomesLive' /\ FocusLive'
  BY DEF Inv, ListOK, OutputsOK, HomesLive, FocusLive, IsLive, Listed,
         Connected, Rearrange, windowVars, outputVars
<1> QED
  BY <1>1, <1>2, <1>3 DEF Inv

LEMMA MirrorNextInv == Inv /\ [MirrorNext]_mirrorVars => Inv'
<1> SUFFICES ASSUME Inv, [MirrorNext]_mirrorVars PROVE Inv'
  OBVIOUS
<1>1. CASE UNCHANGED mirrorVars
  BY <1>1, StutterStep DEF mirrorVars
<1>2. ASSUME ArrangingStep \/ QuietStep, crash = "none" PROVE Next
  BY <1>2 DEF ArrangingStep, QuietStep, Next, WindowStep, OutputStep,
              LayerStep, CommandStep
<1>3. ASSUME \E o \in Outputs : PlugOutput(o) \/ RemoveOutput(o),
             crash = "none"
      PROVE  Next
  BY <1>3 DEF PlugOutput, RemoveOutput, Next, OutputStep
<1>4. CASE ActivateHandle
  <2>1. PICK o \in Outputs : \E n \in handles[o] : ExtActivate(o, n)
    BY <1>4 DEF ActivateHandle
  <2>2. PICK n \in handles[o] : ExtActivate(o, n)
    BY <2>1
  <2>3. n \in Numbers
    BY <2>2 DEF ExtActivate, Inv, TypeOK
  <2> QED
    BY <2>2, <2>3, WorkspaceStep
<1>5. ASSUME NEW n \in Numbers, NEW called, NameWorkspace(n, called)
      PROVE  Inv'
  BY <1>5, FocusedOutput, OpeningStep DEF NameWorkspace
<1>6. ASSUME NEW o \in Outputs, NEW n \in Numbers, RefuseSetWorkspace(o, n)
      PROVE  Inv'
  BY <1>6, OpeningStep DEF RefuseSetWorkspace
<1> QED
  BY <1>1, <1>2, <1>3, <1>4, <1>5, <1>6, RearrangeStep, NextInv
     DEF MirrorNext

(* What the compositor remembers of where it last saw each mapped window   *)
(* is true, and its taskbar handle was told that or nothing.               *)
InView ==
    \A w \in Windows :
        IF w \in mapped
        THEN /\ association[w] = VisibleOn(w)
             /\ told[w] \in {Null, VisibleOn(w)}
        ELSE told[w] = Null

\* Handlers that arrange only if they change nothing that is in view.
ViewKept ==
    /\ mapped' = mapped
    /\ \A w \in mapped : VisibleOn(w)' = VisibleOn(w)
    /\ UNCHANGED active

(* A change of what is in view is told to the taskbar.                     *)
ViewTold ==
    \A w \in mapped \cap mapped' :
        VisibleOn(w)' # VisibleOn(w) => told'[w] = VisibleOn(w)'

LEMMA KeptInView ==
    ASSUME Inv, InView, ViewKept, told' = told,
           \A w \in mapped : association'[w] = association[w]
    PROVE  InView' /\ ViewTold
BY DEF Inv, TypeOK, InView, ViewKept, ViewTold

(* An association that names an output which is gone agrees with no        *)
(* window's place, so that the window is reported again.                   *)
LEMMA SyncedInView ==
    ASSUME Inv', InView, NEW on, SyncTaskbar(on),
           \A w \in Windows : on[w] \in {association[w], Freed}
    PROVE  InView' /\ ViewTold
<1>1. ASSUME NEW w \in Windows PROVE VisibleOn(w)' # Freed
  <2>1. Visible(w)' => home'[w][1] \in Outputs
    BY DEF Visible, Inv, TypeOK, Workspace
  <2> QED
    BY <2>1, MirrorsAssumption DEF VisibleOn
<1>2. mapped' \subseteq Windows
  BY DEF Inv, TypeOK
<1> QED
  BY <1>1, <1>2 DEF SyncTaskbar, Told, InView, ViewTold

LEMMA StillInView ==
    ASSUME UNCHANGED <<windowVars, active>>
    PROVE  ViewKept
BY DEF ViewKept, VisibleOn, Visible, windowVars

LEMMA QuietKeepsView ==
    ASSUME Inv, QuietStep
    PROVE  ViewKept
<1>1. mapped \subseteq alive /\ mapped \subseteq Windows
  BY DEF Inv, TypeOK, ListOK
<1>2. ASSUME NEW w \in Windows, CreateWindow(w) PROVE ViewKept
  BY <1>1, <1>2
     DEF CreateWindow, ViewKept, VisibleOn, Visible, Inv, TypeOK, outputVars
<1>3. ASSUME NEW w \in Windows, InitialCommit(w), w \notin Listed'
      PROVE  ViewKept
  <2>1. CASE ReserveWindow(w)
    <3>1. PICK c \in Configs : windows' = Listing(w, c)
      BY <2>1 DEF ReserveWindow
    <3>2. w \in Listed'
      BY <1>3, <3>1, PlacedType DEF Inv, ListOK, InitialCommit, Listed
    <3> QED
      BY <1>3, <3>2
  <2>2. CASE UNCHANGED <<mapped, windows, home, state, active, shown>>
    BY <2>2 DEF ViewKept, VisibleOn, Visible
  <2> QED
    BY <1>3, <2>1, <2>2 DEF InitialCommit
<1>4. ASSUME NEW w \in Windows, DestroyWindow(w) PROVE ViewKept
  BY <1>1, <1>4
     DEF DestroyWindow, ViewKept, VisibleOn, Visible, Inv, TypeOK
<1>5. ASSUME NEW w \in Windows, NEW kind, BeginGrab(w, kind) PROVE ViewKept
  <2>1. Grabbed(state[w]).pending = state[w].pending
    BY DEF Inv, TypeOK, WindowStates, Grabbed
  <2>2. \A v \in Windows : state'[v].pending = state[v].pending
    BY <1>5, <2>1 DEF Inv, TypeOK, BeginGrab
  <2> QED
    BY <1>1, <1>5, <2>2
       DEF BeginGrab, ViewKept, VisibleOn, Visible, outputVars
<1>6. ASSUME NEW f, SetFocus(f) PROVE ViewKept
  BY <1>6, StillInView DEF SetFocus, outputVars
<1>7. ASSUME NEW cause, Crash(cause) PROVE ViewKept
  BY <1>7, StillInView DEF Crash, outputVars
<1>8. ASSUME NEW o, FocusOnOutput(o) PROVE ViewKept
  BY <1>8, StillInView DEF FocusOnOutput, outputVars
<1>9. ASSUME NEW l, NEW o, NewLayer(l, o) PROVE ViewKept
  BY <1>9, StillInView DEF NewLayer, outputVars
<1>10. ASSUME NEW w \in Windows, ActivateWindow(w) PROVE ViewKept
  BY <1>6, <1>7, <1>10 DEF ActivateWindow
<1>11. ASSUME NEW o, PointerOverOutput(o) \/ FocusOutput(o) PROVE ViewKept
  BY <1>6, <1>8, <1>11 DEF PointerOverOutput, FocusOutput
<1>12. ASSUME NEW d, FocusNext(d) PROVE ViewKept
  BY <1>6, <1>12 DEF FocusNext
<1>13. ASSUME FocusDirection \/ GrabMotion PROVE ViewKept
  BY <1>6, <1>7, <1>8, <1>13 DEF FocusDirection, GrabMotion
<1> QED
  BY <1>2, <1>3, <1>4, <1>5, <1>9, <1>10, <1>11, <1>12, <1>13 DEF QuietStep

(* Every handler keeps the invariant and tells the changes it makes.       *)
LEMMA MirrorStepInView ==
    ASSUME Inv, Inv', MirrorInv, InView, [MirrorNext]_mirrorVars
    PROVE  InView' /\ ViewTold
<1>1. ASSUME SyncTaskbar(association) PROVE InView' /\ ViewTold
  BY <1>1, SyncedInView
<1>2. ASSUME UNCHANGED <<windowVars, active, told, association>>
      PROVE  InView' /\ ViewTold
  BY <1>2, StillInView, KeptInView
<1>3. CASE ArrangingStep /\ crash = "none"
  <2>1. CASE crash' = "none"
    BY <1>1, <1>3, <2>1 DEF ArrangingStep, Sync
  <2>2. CASE crash' # "none"
    <3>1. Settled /\ UNCHANGED windowVars
      BY <1>3, <2>2, ArrangeKeepsTable DEF MirrorInv
    <3> QED
      BY <1>2, <1>3, <2>2, <3>1 DEF ArrangingStep, Settled, barVars
  <2> QED
    BY <2>1, <2>2
<1>4. CASE QuietStep
  <2>1. ViewKept
    BY <1>4, QuietKeepsView
  <2>2. mapped \subseteq Windows /\ mapped \subseteq alive'
    BY <2>1 DEF Inv, TypeOK, ListOK, ViewKept
  <2> QED
    BY <1>4, <2>1, <2>2, KeptInView DEF QuietStep
<1>5. ASSUME NEW o \in Outputs, RemoveOutput(o) PROVE InView' /\ ViewTold
  BY <1>5, SyncedInView DEF RemoveOutput
<1> QED
  BY <1>1, <1>2, <1>3, <1>4, <1>5
     DEF MirrorNext, ActivateHandle, Rearrange, PlugOutput, NameWorkspace,
         RefuseSetWorkspace, Sync, mirrorVars, vars, outputVars, barVars

(* An output that switches has all of its workspaces mirrored.             *)
ActiveTold ==
    \A o \in Connected \cap Connected' :
        active'[o] # active[o] =>
            /\ handles'[o] = spaces'[o]
            /\ marked'[o] = active'[o]
            /\ \A n \in spaces'[o] : label'[<<o, n>>] = name'[<<o, n>>]

LEMMA MirrorStepActive ==
    ASSUME Inv, Inv', MirrorInv, [MirrorNext]_mirrorVars
    PROVE  ActiveTold
<1>1. ASSUME SyncWorkspaces(Connected') PROVE ActiveTold
  <2>1. outputs' \in Seq(Outputs) /\ spaces' \in [Outputs -> SUBSET Numbers]
    BY DEF Inv, TypeOK
  <2>2. Connected' \subseteq Outputs
    BY <2>1 DEF Connected, ToSet
  <2> QED
    BY <1>1, <2>1, <2>2 DEF SyncWorkspaces, ActiveTold, Workspace
<1>2. ASSUME UNCHANGED active PROVE ActiveTold
  BY <1>2 DEF ActiveTold
<1>3. ASSUME NEW o \in Outputs, PlugOutput(o) PROVE ActiveTold
  <2>1. Connected \subseteq Outputs \ {o}
    BY <1>3, ListedType DEF PlugOutput, NewOutput, Inv
  <2>2. \A p \in Connected : active'[p] = active[p]
    BY <1>3, <2>1 DEF PlugOutput, NewOutput, AddOutput, Inv, TypeOK
  <2> QED
    BY <2>2 DEF ActiveTold
<1>4. CASE ArrangingStep /\ crash = "none"
  <2>1. CASE crash' = "none"
    BY <1>1, <1>4, <2>1 DEF ArrangingStep, Sync
  <2>2. CASE crash' # "none"
    BY <1>2, <1>4, <2>2, ArrangeKeepsTable DEF MirrorInv, Settled
  <2> QED
    BY <2>1, <2>2
<1>5. CASE QuietStep
  BY <1>2, <1>5, QuietKeepsOutputs DEF Settled
<1> QED
  BY <1>1, <1>2, <1>3, <1>4, <1>5
     DEF MirrorNext, ActivateHandle, Rearrange, RemoveOutput, NameWorkspace,
         RefuseSetWorkspace, Sync, mirrorVars, vars, outputVars

MirrorInvariant == Inv /\ MirrorInv /\ InView

LEMMA MirrorInvariance == MirrorSpec => []MirrorInvariant
<1>1. MirrorInit => MirrorInvariant
  <2> SUFFICES ASSUME MirrorInit PROVE MirrorInvariant
    OBVIOUS
  <2>1. Inv
    BY InitInv DEF MirrorInit
  <2>2. MirrorInv
    BY DEF MirrorInit, Init, MirrorInv, MirrorTrue, Tabled
  <2>3. InView
    BY DEF MirrorInit, Init, InView
  <2> QED
    BY <2>1, <2>2, <2>3 DEF MirrorInvariant
<1>2. MirrorInvariant /\ [MirrorNext]_mirrorVars => MirrorInvariant'
  BY MirrorNextInv, MirrorStep, MirrorStepInView DEF MirrorInvariant
<1> QED
  BY <1>1, <1>2, PTL DEF MirrorSpec

(* For every instance: a taskbar is never told that a window is on an      *)
(* output where it is not in view, even after the output's memory was      *)
(* freed and plugged again, and never holds on to a window that unmapped   *)
(* (layout.c:324, window.c).                                               *)
THEOREM TaskbarsToldTheTruth == MirrorSpec => []TaskbarNeverLies
<1>1. MirrorInvariant => TaskbarNeverLies
  BY DEF MirrorInvariant, InView, TaskbarNeverLies
<1> QED
  BY <1>1, MirrorInvariance, PTL

(* For every instance: a handler that changes what is in view tells the    *)
(* bars before it returns, whatever they had missed before it: the end of  *)
(* honey_arrange compares against what was remembered, not against what    *)
(* the handler changed (layout.c:324, ext-workspace.c).                    *)
THEOREM ChangesAreReported == MirrorSpec => ChangesReported
<1>1. MirrorInvariant /\ MirrorInvariant' /\ [MirrorNext]_mirrorVars =>
        [ViewTold /\ ActiveTold]_mirrorVars
  BY MirrorStepInView, MirrorStepActive DEF MirrorInvariant
<1>2. [ViewTold /\ ActiveTold]_mirrorVars =>
        [/\ \A w \in mapped \cap mapped' :
              VisibleOn(w)' # VisibleOn(w) => told'[w] = VisibleOn(w)'
         /\ \A o \in Connected \cap Connected' :
              active'[o] # active[o] =>
                  /\ handles'[o] = spaces'[o]
                  /\ marked'[o] = active'[o]
                  /\ \A n \in spaces'[o] : label'[<<o, n>>] = name'[<<o, n>>]
        ]_mirrorVars
  BY DEF ViewTold, ActiveTold
<1> QED
  BY <1>1, <1>2, MirrorInvariance, PTL DEF MirrorSpec, ChangesReported
=============================================================================
