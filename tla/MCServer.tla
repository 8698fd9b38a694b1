------------------------------ MODULE MCServer ------------------------------
(***************************************************************************)
(* Instances of HoneyServer for TLC: the settings and the rules that the   *)
(* configuration files choose from.                                       *)
(***************************************************************************)
EXTENDS ServerProperties

\* The settings the program starts with (honey_config_defaults), and some
\* that differ where a handler looks.
Default == [master |-> FALSE, focusNew |-> TRUE, exitFullscreen |-> TRUE,
            appSize |-> FALSE, drop |-> TRUE]
DefaultConfig == {Default}
StateConfigs == {Default, [Default EXCEPT !.master = TRUE, !.drop = FALSE,
                              !.exitFullscreen = FALSE, !.appSize = TRUE]}
FocusConfigs == {Default, [Default EXCEPT !.focusNew = FALSE]}

\* No rule; one of a kind; one that sends the window to a workspace.
NoRule == [target |-> Null, first |-> "none", second |-> "none",
           noFocus |-> FALSE]
OnlyNoRule == {NoRule}
OneRule(kinds) == {[NoRule EXCEPT !.first = k] : k \in {"none"} \cup kinds}
StateRules == OneRule({"default", "sized", "suppress"})
                  \cup {[NoRule EXCEPT !.first = "float-app", !.second = "tile"]}
FloatRules == OneRule({"default", "float", "float-app", "sized"})
SendRules == {NoRule} \cup
                 {[NoRule EXCEPT !.target = <<o, 1>>] : o \in Outputs}
FocusRules == {NoRule, [NoRule EXCEPT !.noFocus = TRUE],
                   [NoRule EXCEPT !.first = "float"]}
=============================================================================
