--------------------------- MODULE MCDedupReview ---------------------------
(***************************************************************************)
(* TLC instances of DedupReview: two libraries of four files.              *)
(***************************************************************************)
EXTENDS DedupReview

FourFiles == 1..4

\* every stage has something: two copies of "a", "b" a recompression of it,
\* "c" an edit of it; files go missing or cannot be moved, nothing crashes
Mixed ==
    [assetOf |-> <<"a", "a", "b", "c">>, external |-> {}, preferInternal |-> FALSE,
     near |-> [s \in {2, 3} |-> IF s = 2 THEN {{"a", "b"}} ELSE {{"a", "c"}}],
     unlinkable |-> {2}, locked |-> {4},
     halts |-> 0, cancels |-> 0, errors |-> 0, vanish |-> 1]

\* three copies of "a", one of them in another root, "b" an edit of it; jobs
\* crash, fail and are cancelled
Copies3 ==
    [assetOf |-> <<"a", "a", "a", "b">>, external |-> {3}, preferInternal |-> FALSE,
     near |-> [s \in {2, 3} |-> IF s = 3 THEN {{"a", "b"}} ELSE {}],
     unlinkable |-> {}, locked |-> {},
     halts |-> 1, cancels |-> 1, errors |-> 1, vanish |-> 1]

BothLibraries == {Mixed, Copies3}

\* the first one with a crash
MixedCrash == {[Mixed EXCEPT !.unlinkable = {}, !.locked = {}, !.vanish = 0, !.halts = 1]}

\* the second one without
Copies3Calm == {[Copies3 EXCEPT !.halts = 0, !.cancels = 0, !.errors = 0]}

=============================================================================
