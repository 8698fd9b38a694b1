------------------------------ MODULE MCStream ------------------------------
(***************************************************************************)
(* An instance of NightLight, hence of StatusStream, for TLC.              *)
(***************************************************************************)
EXTENDS NightLight, TLC

MCSpaces == {"one", "two"}
MCTitles == {"x", "y"}

\* Two states of an output that differ in both lines.  The window line alone
\* changes with the focused window, which also hides a change of the first.
MCTexts == {[spaces |-> "one", first |-> "x"], [spaces |-> "two", first |-> "y"]}

\* Nothing tells two outputs apart.
Symmetry == Permutations(Outputs)
=============================================================================
