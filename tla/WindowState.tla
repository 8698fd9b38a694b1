----------------------------- MODULE WindowState -----------------------------
(***************************************************************************)
(* The state flags of one window (struct honey_window, honey.h) and what   *)
(* each handler and user action does to them.  Only operators: the server  *)
(* module keeps one such record per window and decides when they apply.    *)
(***************************************************************************)

WindowStates ==
    [floating   : BOOLEAN,   \* free position, above the tiles
     centred    : BOOLEAN,   \* auto_centered: re-centred as its size settles
     pending    : BOOLEAN,   \* float_pending_app_size: hidden until it commits
     fullscreen : BOOLEAN,
     maximized  : BOOLEAN,
     fake       : BOOLEAN,   \* fake_fullscreen: fills the output, not exclusive
     suppress   : BOOLEAN]   \* suppress_maximize: ignore the client's requests

\* calloc: a new struct honey_window has every flag off.
NewState ==
    [floating |-> FALSE, centred |-> FALSE, pending |-> FALSE,
     fullscreen |-> FALSE, maximized |-> FALSE, fake |-> FALSE,
     suppress |-> FALSE]

IsTiled(s) == ~(s.floating \/ s.fullscreen \/ s.maximized \/ s.fake)

\* Covers its workspace (fake fullscreen is not exclusive).
IsCovering(s) == s.fullscreen \/ s.maximized

\* honey_window_clear_states: float_pending_app_size is not one of them.
Cleared(s) ==
    [s EXCEPT !.floating = FALSE, !.fullscreen = FALSE, !.maximized = FALSE,
              !.fake = FALSE, !.centred = FALSE]

\* xdg_float_natural: ask the client for its own size.
Natural(s) == [s EXCEPT !.pending = TRUE]

\* A dialog floats, re-centred while it settles.
Dialog(s) == [s EXCEPT !.floating = TRUE, !.centred = TRUE]

\* honey_float_seed; `app` is the configuration's float-app-size.
FloatSeed(s, xdg, app) ==
    [s EXCEPT !.centred = FALSE, !.pending = @ \/ (xdg /\ app)]

\* The four toggles of the focused window: all states off, then one on.
ToggleFloat(s, xdg, app) ==
    IF s.floating THEN Cleared(s)
    ELSE FloatSeed([Cleared(s) EXCEPT !.floating = TRUE], xdg, app)
ToggleFullscreen(s) == [Cleared(s) EXCEPT !.fullscreen = ~s.fullscreen]
ToggleMaximize(s) == [Cleared(s) EXCEPT !.maximized = ~s.maximized]
ToggleFake(s) == [Cleared(s) EXCEPT !.fake = ~s.fake]

\* What the client asks for itself, once mapped.
RequestedFullscreen(s, wanted) ==
    [s EXCEPT !.fullscreen = wanted,
              !.maximized = @ /\ ~wanted,
              !.fake = @ /\ ~wanted]
HonorsMaximize(s) == s.floating /\ ~s.suppress
RequestedMaximize(s, wanted) == [s EXCEPT !.maximized = wanted]

\* The effect of one matching rule on the flags.
RuleKinds ==
    {"none",        \* no rule of this kind matches
     "default",     \* float at the app's own size
     "float",       \* float at the configured size
     "float-app",   \* the same with float-app-size set
     "sized",       \* float at the rule's size
     "tile", "suppress"}
RuleFloats(kind) == kind \in {"default", "float", "float-app", "sized"}
Ruled(s, kind, xdg) ==
    CASE kind = "none" -> s
      [] kind = "default" ->
            [s EXCEPT !.floating = TRUE, !.centred = TRUE, !.pending = @ \/ xdg]
      [] kind = "float" ->
            FloatSeed([s EXCEPT !.floating = TRUE], xdg, FALSE)
      [] kind = "float-app" ->
            FloatSeed([s EXCEPT !.floating = TRUE], xdg, TRUE)
      [] kind = "sized" ->
            [s EXCEPT !.floating = TRUE, !.centred = FALSE, !.pending = FALSE]
      [] kind = "tile" ->
            [s EXCEPT !.floating = FALSE, !.fullscreen = FALSE,
                      !.maximized = FALSE, !.fake = FALSE]
      [] kind = "suppress" ->
            [s EXCEPT !.suppress = TRUE, !.maximized = FALSE]

\* op_begin: a tiled window floats in place, and stops re-centring.
Grabbed(s) ==
    [s EXCEPT !.centred = FALSE, !.floating = @ \/ IsTiled(s)]
Dropped(s) == [s EXCEPT !.floating = FALSE]

\* window_commit: the client's own size is adopted; a mutant leaves the flag.
AdoptedOnly(s) == [s EXCEPT !.centred = FALSE]
Adopted(s) == [s EXCEPT !.pending = FALSE]
=============================================================================
