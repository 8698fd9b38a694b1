------------------------------ MODULE WindowList ------------------------------
(***************************************************************************)
(* The intrusive lists (wl_list) of the program as sequences of the        *)
(* elements they link: struct honey_window by `link` in server->windows,   *)
(* struct honey_output in server->outputs.                                 *)
(***************************************************************************)
EXTENDS Integers, Sequences, SequencesExt

IndexOf(s, e) == CHOOSE i \in DOMAIN s : s[i] = e

\* wl_list_remove
Without(s, e) == RemoveAt(s, IndexOf(s, e))

\* wl_list_insert before (0) or after (1) the element v
Beside(s, v, after, e) == InsertAt(s, IndexOf(s, v) + after, e)

\* list_swap
Swapped(s, a, b) ==
    [i \in DOMAIN s |-> IF s[i] = a THEN b ELSE IF s[i] = b THEN a ELSE s[i]]

\* No element is linked twice.
NoDuplicates(s) == \A i, j \in DOMAIN s : s[i] = s[j] => i = j
=============================================================================
