---------------------------- MODULE MCFrontDesk -----------------------------
(***************************************************************************)
(* FrontDesk with one command line beside the terminal interface.          *)
(***************************************************************************)
EXTENDS FrontDesk

CONSTANTS f1, f2

MCPlan == [s \in 1..3 |-> IF s = 1 THEN {f1} ELSE IF s = 2 THEN {f2} ELSE {}]

On(v, f, r) == [verb |-> v, flags |-> f, on |-> r]

MCCommands ==
    {On("scan", {"all"}, "library"),                  \* a root and --all
     On("scan", {}, "trash"),
     On("cleanup", {"perceptual", "detach"}, "library"),
     On("register", {}, "unknown"),
     On("dedup", {"confirm"}, "library"),
     On("cleanup", {"exact"}, "library"),
     On("cleanup", {"undecodable", "yes"}, "library")}

\* The command line alone moves the review on.
MCConfirms == {On("dedup", {"confirm"}, "library")}

MCMenu == {On("dedup", {}, "library"), On("refresh", {}, "trash")}

\* The option that asks for a report and the one that asks for the deletion.
MCDryCommands ==
    {On("dedup", {"dry"}, "library"), On("dedup", {"confirm", "dry"}, "library"),
     On("cleanup", {"perceptual"}, "library"), On("cleanup", {"confirm", "dry"}, "library"),
     On("merge", {"dry"}, "library")}
=============================================================================
