----------------------------- MODULE MCMergeRun -----------------------------
(***************************************************************************)
(* TLC instances of MergeRun: a merge that is interrupted and resumed, and *)
(* one whose files collide with each other and with the destination.       *)
(***************************************************************************)
EXTENDS MergeRun, TLC

NoMishaps == [k \in Mishaps |-> 0]

\* a crash and a cancel anywhere, a source file edited, a destination file
\* added or removed; the destination excludes path 2
Resumed ==
    [source |-> [s \in Sources |-> <<"a", "b", Nothing>>],
     dest |-> [n \in Names |-> Nothing],
     known |-> {}, ignored |-> {2}, edited |-> {1}, brings |-> {"a", "b"},
     limit |-> ("halts" :> 1 @@ "cancels" :> 1 @@ "edits" :> 1 @@ "moves" :> 1) @@ NoMishaps]

\* files 1 and 3 are twins; the name of file 1 is taken by other bytes, that
\* of file 2 by the same ones; an exception, and trash dropped in between
Collided ==
    [source |-> [s \in Sources |-> <<"a", "b", "a">>],
     dest |-> [n \in Names |-> CASE n = <<1, 0>> -> "c" [] n = <<2, 0>> -> "b"
                                 [] OTHER -> Nothing],
     known |-> {}, ignored |-> {}, edited |-> {}, brings |-> Contents,
     limit |-> ("faults" :> 1 @@ "drops" :> 1 @@ "cancels" :> 1) @@ NoMishaps]

BothSettings == {Resumed, Collided}

=============================================================================
