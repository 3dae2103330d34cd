----------------------------- MODULE MCRootScan -----------------------------
(***************************************************************************)
(* Two roots: r1 with a file at its top and one in its directory d, r2     *)
(* with one streamed file.  All three have the same name, both contents the  *)
(* same size, so that only the stamp tells a move from a replacement.      *)
(***************************************************************************)
EXTENDS RootScan, TLC

CONSTANTS r1, r2, d, p1, p2, p3, kite, lion, w1, w2

MCAbove == [e \in Dir |-> IF e = d THEN {d, r1} ELSE {e}]
MCOrder == [r \in Root |-> IF r = r1 THEN 1 ELSE 2]
MCDirOf == [p \in Path |-> CASE p = p1 -> r1 [] p = p2 -> d [] p = p3 -> r2]
MCName  == [p \in Path |-> 0]
MCSize  == [x \in Content |-> 1]
MCDisk  == [p \in Path |-> CASE p = p1 -> [content |-> kite, stamp |-> 1]
                             [] p = p2 -> [content |-> lion, stamp |-> 2]
                             [] OTHER  -> Nothing]
MCIndexed == <<kite, lion>>
\* The workers are alike.
MCSymmetry == Permutations(Worker)
=============================================================================
