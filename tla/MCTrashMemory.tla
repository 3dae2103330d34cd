--------------------------- MODULE MCTrashMemory ---------------------------
(***************************************************************************)
(* A library root with kite and lion, which resemble each other, another   *)
(* root with the undecodable mist, and a trash folder for one file.        *)
(***************************************************************************)
EXTENDS TrashMemory

CONSTANTS l1, l2, o1, t1, kite, lion, mist

MCSimilar == {<<kite, lion>>, <<lion, kite>>}
MCDisk == [p \in Lib \cup Other |-> CASE p = l1 -> kite [] p = l2 -> lion [] p = o1 -> mist]
=============================================================================
