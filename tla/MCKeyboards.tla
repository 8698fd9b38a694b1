----------------------------- MODULE MCKeyboards -----------------------------
(***************************************************************************)
(* An instance of Keyboards for TLC.                                       *)
(***************************************************************************)
EXTENDS Keyboards

\* One binding: every key but Logo, with Logo held.
SuperJ == {<<TRUE, key>> : key \in Keys \ ({Super} \cup Switches)}
=============================================================================
