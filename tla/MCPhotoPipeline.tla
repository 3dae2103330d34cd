-------------------------- MODULE MCPhotoPipeline --------------------------
(***************************************************************************)
(* TLC instance of PhotoPipeline: files 1 and 2 have the same bytes, file  *)
(* 3 is larger than the budget.                                            *)
(***************************************************************************)
EXTENDS PhotoPipeline

ThreeSizes == [f \in Files |-> IF f <= 2 THEN 1 ELSE 3]
TwinContent == [f \in Files |-> IF f <= 2 THEN "a" ELSE "b"]

=============================================================================
