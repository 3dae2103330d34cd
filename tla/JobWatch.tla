------------------------------ MODULE JobWatch ------------------------------
(***************************************************************************)
(* What watching a job from the command line promises, without a word of   *)
(* how: the watcher reports the status the job really ended with and is    *)
(* not left waiting once it has ended.  Two things release it from that:   *)
(* it detaches, or the daemon goes away.  A command turns the report into  *)
(* its exit code, so a report made too early or taken from the wrong place *)
(* lets a script carry on after a job that failed.                         *)
(***************************************************************************)
CONSTANT Outcomes        \* the terminal statuses a job can end with

VARIABLES job,           \* "live" or the outcome
          watch,         \* "watching", "detached", "unknown" or the outcome reported
          host           \* "up" or, once the daemon was stopped or died, "gone"

vars == <<job, watch, host>>

Init == job = "live" /\ watch = "watching" /\ host = "up"

\* The job ends, watched or not.
End == /\ job = "live"
       /\ job' \in Outcomes
       /\ UNCHANGED <<watch, host>>

\* The watcher reports how the job ended.
Report == /\ watch = "watching"
          /\ job \in Outcomes
          /\ watch' = job
          /\ UNCHANGED <<job, host>>

\* The watcher turns away on its own account.
Detach == /\ watch = "watching"
          /\ watch' = "detached"
          /\ UNCHANGED <<job, host>>

\* The daemon is stopped or dies; whoever still watches may learn nothing.
Stop == /\ host = "up"
        /\ host' = "gone"
        /\ UNCHANGED <<job, watch>>

Lose == /\ watch = "watching"
        /\ host = "gone"
        /\ watch' = "unknown"
        /\ UNCHANGED <<job, host>>

Next == End \/ Report \/ Detach \/ Stop \/ Lose

Spec == Init /\ [][Next]_vars /\ WF_vars(Report)
=============================================================================
