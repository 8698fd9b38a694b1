------------------------------ MODULE MCTiling ------------------------------
(* Values of the constants of Tiling for TLC.                              *)
EXTENDS Tiling

Screen == {[x |-> 0, y |-> 0, width |-> 400, height |-> 251],
           [x |-> 3, y |-> 30, width |-> 397, height |-> 221]}

SomeChoices ==
    [layout |-> {"master", "spiral", "grid"}, mfact |-> {55},
     nmaster |-> {0}, orientation |-> {"left"},
     gapsIn |-> {5}, gapsOut |-> {8}, smart |-> {FALSE},
     ratio |-> {50}, horizontal |-> {FALSE}, columns |-> {2}]

Steps == {90, -90}
=============================================================================
