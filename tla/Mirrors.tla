------------------------------- MODULE Mirrors -------------------------------
(***************************************************************************)
(* What the core tells bars and taskbars about itself: the ext-workspace   *)
(* mirror (ext-workspace.c: a group for each output, a handle for each     *)
(* workspace, its label and whether it is active) and the output each      *)
(* foreign-toplevel handle reports (layout.c, window.c).  Both are brought *)
(* up to date at the end of honey_arrange and nowhere else, so they follow *)
(* the core exactly as far as its handlers arrange after a change.  A bar  *)
(* acts on the mirror: it activates a workspace by its handle.             *)
(***************************************************************************)
EXTENDS ServerProperties

CONSTANT Names  \* what workspace-name may call a workspace

ASSUME MirrorsAssumption ==
    /\ Null \notin Names
    /\ Freed \notin Outputs \cup {Null}

VARIABLES
    name,         \* workspace->name
    handles,      \* the numbers of the workspaces of an output with a handle
    marked,       \* the workspace of an output whose handle is active, or Null
    label,        \* the name a workspace's handle was last given
    told,         \* the output the taskbar handle of a window is on, or Null
    association   \* window->foreign_output

barVars == <<handles, marked, label, told, association>>
mirrorVars == <<vars, name, barVars>>

-----------------------------------------------------------------------------
(* The end of honey_arrange *)

\* The output a mapped window is to be reported on.
VisibleOn(w) == IF Visible(w) THEN home[w][1] ELSE Null

\* Mutants of the next one: the old output is not left; or a handle that has
\* been told nothing is left alone.
EnterOnly(w, on) ==
    IF VisibleOn(w)' \in {on, Null} THEN told[w] ELSE VisibleOn(w)'
LeaveFirst(w, on) ==
    IF VisibleOn(w)' = on \/ (on # Null /\ told[w] = Null) THEN told[w]
    ELSE VisibleOn(w)'

\* The window leaves the output it was associated with and enters the one it
\* is visible on, if they differ: a handle that was never told anything stays
\* that way while they agree.
Told(w, on) == IF VisibleOn(w)' = on THEN told[w] ELSE VisibleOn(w)'

SyncTaskbar(on) ==
    /\ told' = [w \in Windows |-> IF w \in mapped' THEN Told(w, on[w]) ELSE Null]
    /\ association' = [w \in Windows |->
                          IF w \in mapped' THEN VisibleOn(w)' ELSE on[w]]

\* honey_ext_workspace_sync, for the outputs in S whose workspaces are there.
SyncWorkspaces(S) ==
    /\ handles' = [o \in Outputs |-> IF o \in S THEN spaces'[o] ELSE {}]
    /\ marked' = [o \in Outputs |-> IF o \in S THEN active'[o] ELSE Null]
    /\ label' = [ws \in Workspace |->
                    IF ws[1] \in S /\ ws[2] \in spaces'[ws[1]] THEN name'[ws]
                    ELSE Null]

Sync ==
    /\ SyncWorkspaces(Connected')
    /\ SyncTaskbar(association)

-----------------------------------------------------------------------------
(* The handlers of the core, with what bars learn from each *)

\* The handlers that arrange; a reserved or a listed window tells them from
\* those below where a handler only arranges sometimes.
ArrangingStep ==
    /\ \/ \E w \in Windows :
             \/ InitialCommit(w) /\ w \in Listed'
             \/ DestroyWindow(w) /\ w \in Listed
             \/ MapWindow(w) \/ UnmapWindow(w) \/ CommitSize(w)
             \/ ParentChanged(w) \/ RequestFullscreen(w) \/ RequestMaximize(w)
       \/ \E o \in Outputs :
             \/ MoveToOutput(o)
             \/ \E n \in Numbers : SetWorkspace(o, n)
       \/ \E l \in Layers :
             MapLayer(l) \/ CommitLayer(l) \/ UnmapLayer(l) \/ DestroyLayer(l)
       \/ \E d \in {1, -1} : SwapNext(d) \/ WorkspaceCycle(d)
       \/ \E n \in Numbers : WorkspaceCommand(n) \/ MoveToWorkspace(n)
       \/ WorkspaceBack \/ SwapMaster \/ SwapDirection \/ Toggle \/ EndGrab
    /\ UNCHANGED name
    /\ IF crash' = "none" THEN Sync ELSE UNCHANGED barVars

\* The handlers that only create, focus or grab.
QuietStep ==
    /\ \/ \E w \in Windows :
             \/ InitialCommit(w) /\ w \notin Listed'
             \/ DestroyWindow(w) /\ w \notin Listed
             \/ CreateWindow(w) \/ ActivateWindow(w)
             \/ BeginGrab(w, "move") \/ BeginGrab(w, "resize")
       \/ \E o \in Outputs : PointerOverOutput(o) \/ FocusOutput(o)
       \/ \E l \in Layers, o \in Outputs : NewLayer(l, o)
       \/ \E d \in {1, -1} : FocusNext(d)
       \/ FocusDirection \/ GrabMotion
    /\ UNCHANGED <<name, handles, marked, label, told>>
    /\ association' = [w \in Windows |-> IF w \in alive' THEN association[w]
                                         ELSE Null]

\* ext-workspace handle_commit: a bar can only name the handles it was given.
ActivateHandle ==
    \E o \in Outputs : \E n \in handles[o] :
        /\ ExtActivate(o, n)
        /\ UNCHANGED name
        /\ Sync

\* handle_new_output: the layout's change event arranges before the output
\* has its first workspace, so that the bars see an empty group.
PlugOutput(o) ==
    /\ NewOutput(o)
    /\ UNCHANGED name
    /\ SyncWorkspaces(Connected)
    /\ SyncTaskbar(association)

\* A mutant of the next one: the handles of the workspaces outlive them.
RemoveOutputOnly(o) ==
    /\ UnplugOutput(o)
    /\ name' = [ws \in Workspace |-> IF ws[1] = o THEN Null ELSE name[ws]]
    /\ UNCHANGED <<handles, marked, label>>
    /\ SyncTaskbar([w \in Windows |-> IF association[w] = o THEN Freed
                                      ELSE association[w]])

\* output_destroy: the output's workspaces go with their names and handles.
RemoveOutput(o) ==
    /\ UnplugOutput(o)
    /\ name' = [ws \in Workspace |-> IF ws[1] = o THEN Null ELSE name[ws]]
    /\ SyncWorkspaces(Connected')
    /\ SyncTaskbar([w \in Windows |-> IF association[w] = o THEN Freed
                                      ELSE association[w]])

\* The IPC command workspace-name, on the focused output: no arrange.
NameWorkspace(n, called) ==
    LET ws == <<focus.output, n>> IN
    /\ focus.output # Null
    /\ n >= 1
    /\ spaces' = Opened(ws)
    /\ name' = [name EXCEPT ![ws] = called]
    /\ UNCHANGED <<windowVars, shown, op, outputs, active, previous, layerVars,
                   focus, crash, barVars>>

\* set-ws with a value it refuses, after the address made the workspace.
RefuseSetWorkspace(o, n) ==
    /\ "set-ws" \in Commands
    /\ o \in Connected
    /\ n >= 1
    /\ spaces' = Opened(<<o, n>>)
    /\ UNCHANGED <<windowVars, shown, op, outputs, active, previous, layerVars,
                   focus, crash, name, barVars>>

\* The handlers that only arrange: honey_config_reload, refresh_layout after
\* outputs were configured, the commit of a layer surface.
Rearrange ==
    /\ UNCHANGED <<windowVars, op, outputVars, layerVars, focus, crash, name>>
    /\ Arrange
    /\ Sync

-----------------------------------------------------------------------------
\* The first output's own workspace is not mirrored yet, either.
MirrorInit ==
    /\ Init
    /\ name = [ws \in Workspace |-> Null]
    /\ handles = [o \in Outputs |-> {}]
    /\ marked = [o \in Outputs |-> Null]
    /\ label = [ws \in Workspace |-> Null]
    /\ told = [w \in Windows |-> Null]
    /\ association = [w \in Windows |-> Null]

MirrorNext ==
    /\ crash = "none"
    /\ \/ ArrangingStep \/ QuietStep \/ ActivateHandle \/ Rearrange
       \/ \E o \in Outputs : PlugOutput(o) \/ RemoveOutput(o)
       \/ \E n \in Numbers, called \in Names \cup {Null} :
             NameWorkspace(n, called)
       \/ \E o \in Outputs, n \in Numbers : RefuseSetWorkspace(o, n)

MirrorSpec == MirrorInit /\ [][MirrorNext]_mirrorVars

-----------------------------------------------------------------------------
(* Properties *)

(* What a bar knows of the workspaces is true as far as it goes: a handle  *)
(* it can activate stands for a workspace that exists (handle_commit       *)
(* follows the pointer in it, ext-workspace.c:68, and output_destroy frees *)
(* workspaces), and the one shown as active is the one in view.            *)
MirrorTrue ==
    \A o \in Outputs :
        /\ handles[o] \subseteq spaces[o]
        /\ o \in Connected => marked[o] \in {active[o], Null}

(* A taskbar never lists a window on an output where it is not in view, so *)
(* that all-outputs:false filters nothing in (layout.c:324).               *)
TaskbarNeverLies ==
    \A w \in Windows :
        told[w] # Null => w \in mapped /\ told[w] = VisibleOn(w)

(* A change of the view reaches the bars in the same handler, and mends    *)
(* whatever they missed before: a window that comes into view or leaves it *)
(* is reported where it is, and an output that switches has all of its     *)
(* workspaces mirrored with their names.                                   *)
ChangesReported ==
    [][/\ \A w \in mapped \cap mapped' :
            VisibleOn(w)' # VisibleOn(w) => told'[w] = VisibleOn(w)'
       /\ \A o \in Connected \cap Connected' :
            active'[o] # active[o] =>
                /\ handles'[o] = spaces'[o]
                /\ marked'[o] = active'[o]
                /\ \A n \in spaces'[o] : label'[<<o, n>>] = name'[<<o, n>>]
      ]_mirrorVars

(* ext-workspace.c:6 "Sync runs after every arrange, creating handles      *)
(* lazily, so the mirror can never drift from the real state".             *)
MirrorNeverDrifts ==
    \A o \in Connected :
        /\ handles[o] = spaces[o]
        /\ marked[o] = active[o]
        /\ \A n \in spaces[o] : label[<<o, n>>] = name[<<o, n>>]

(* layout.c:324 "Keep the foreign-toplevel output association in sync with *)
(* actual visibility".                                                     *)
TaskbarInSync ==
    \A w \in mapped : told[w] = VisibleOn(w)
=============================================================================
