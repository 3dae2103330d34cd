---------------------------- MODULE DedupReview ----------------------------
(***************************************************************************)
(* The staged dedup review of one library root (jobs/dedup.py, review.py,  *)
(* the rollback of jobs/reconcile.py): analyze opens a pending run and     *)
(* stages the first non-empty stage as a folder of shortcuts, the user     *)
(* edits the folder in Explorer, and each --confirm reads it back, moves   *)
(* the condemned files to the Recycle Bin, and stages the next stage.      *)
(*                                                                         *)
(* The database and the file system change in separate steps, and the      *)
(* daemon may be killed, a handler cancelled or fail, between any two.     *)
(* The queue's gate is JobQueue's subject; here one job runs at a time and *)
(* an analyze starts only while no run is pending.  A stage's files are    *)
(* taken in ascending order, the order of their rows.                      *)
(*                                                                         *)
(* Simplified: a shortcut stands for the file it was planned for; the      *)
(* perceptual clusters are given (matcher.py), cliques, one lead each, the *)
(* first; the user edits shortcuts between jobs.                           *)
(***************************************************************************)
EXTENDS Integers, FiniteSets

CONSTANTS Files,      \* file instances, numbered in row order
          Assets,     \* distinct contents
          Libraries,  \* the libraries reviewed, with what may go wrong in each
          MaxJobs     \* bound: jobs started

(***************************************************************************)
(* A library: the content of each file (assetOf), the files that live in   *)
(* another root (external), the look-alikes of stages 2 and 3 (near), the  *)
(* policy analyze stores (preferInternal), the files whose shortcut cannot *)
(* be written (unlinkable) or that cannot be moved to the bin (locked),    *)
(* and bounds on deaths of the daemon (halts), jobs cancelled or stopped   *)
(* (cancels), handlers that raise (errors) and files the user removes      *)
(* behind packrat (vanish).                                                *)
(***************************************************************************)
ASSUME DedupAssumption ==
    /\ Files \subseteq Nat \ {0} /\ IsFiniteSet(Files)
    /\ MaxJobs \in Nat
    /\ \A l \in Libraries :
          /\ l.assetOf \in [Files -> Assets]
          /\ l.external \subseteq Files /\ l.unlinkable \subseteq Files
          /\ l.locked \subseteq Files
          /\ l.near \in [{2, 3} -> SUBSET SUBSET Assets]
          /\ l.preferInternal \in BOOLEAN
          /\ {l.halts, l.cancels, l.errors, l.vanish} \subseteq Nat

Stages == 1..3   \* exact duplicates, recompressions, minor edits
None == 0

First(S) == CHOOSE f \in S : \A g \in S : f <= g

VARIABLES
    lib,       \* the library under review, which stays the same
    \* the database
    rows,      \* file_instances
    fate,      \* assets: "active", "trashed" (remembered), "forgotten" (deleted)
    run,       \* the root's latest review_runs row: status, stage, stage_phase
    count,     \* its deleted_count
    plan,      \* its review_actions: the files of each staged stage
    surv,      \* survivor_instance_id of an asset's stage-1 actions
    leads,     \* stage-2 actions whose shortcut name carries `_suggested`
    \* the file system
    live,      \* files that exist
    lnk,       \* shortcuts present in each stage folder
    dir,       \* stage folders that exist
    \* the job and its handler
    job,       \* mode of the running jobs row: "analyze", "confirm", "keep", "discard"
    pc, at,    \* where its handler is, and on which stage
    batch,     \* the plan being staged
    pick,      \* the survivor each of its assets would keep
    todo,      \* actions still to process
    staged,    \* actions whose shortcut was written
    group,     \* confirm: actions left of the asset being applied
    tally,     \* confirm: files recycled so far
    sweep, after,  \* remove_tree: folders left to remove, what comes next
    drained,   \* deleted_count taken for the result, not yet stored in it
    cancelled, \* the cancel event
    jobs, halts, cancels, errors, vanished,  \* bounded counters
    \* history, read by properties only
    unticked,  \* shortcuts of this run the user took away, by stage
    offered,   \* stages of this run that were staged to the end
    dropped,   \* stage folders the user deleted
    recycled,  \* the stage at which packrat recycled a file, or 0
    spent,     \* files recycled under this run
    reported,  \* sum of result_json.deleted over the finished jobs
    slipped    \* files that vanished since the last survivor was looked for

catalog == <<rows, fate>>
review == <<run, count, plan, surv, leads>>
disk == <<live, lnk, dir>>
handler == <<at, batch, pick, todo, staged, group, tally, sweep, after, drained>>
bounds == <<lib, jobs, halts, cancels, errors, vanished>>
history == <<unticked, offered, dropped, recycled, spent, reported, slipped>>
vars == <<catalog, review, disk, job, pc, handler, cancelled, bounds, history>>

-----------------------------------------------------------------------------
(* Planning: pure functions of the catalog.                                *)

Copies(a) == {f \in rows : lib.assetOf[f] = a}
Internal(a) == Copies(a) \ lib.external
Active(a) == fate[a] = "active"
Targets == {a \in Assets : Active(a) /\ Internal(a) # {}}

Survivor(a) ==
    IF Copies(a) \subseteq Internal(a) \/ lib.preferInternal
    THEN First(Internal(a)) ELSE First(Copies(a) \ Internal(a))

ExactPlan ==
    {f \in rows : /\ lib.assetOf[f] \in Targets
                  /\ f # Survivor(lib.assetOf[f])
                  /\ f \in lib.external => lib.preferInternal}

Members(c) == {a \in c : Active(a) /\ Copies(a) # {}}

Representative(a) == IF Internal(a) # {} THEN First(Internal(a)) ELSE First(Copies(a))

Clusters(s) == {c \in lib.near[s] : Cardinality(Members(c)) >= 2 /\ c \cap Targets # {}}

PlanOf(s) ==
    IF s = 1 THEN ExactPlan
    ELSE {Representative(a) : a \in UNION {Members(c) : c \in Clusters(s)}}

\* the stages from s on that have something to review
NonEmpty(s) == {t \in Stages : t >= s /\ PlanOf(t) # {}}

\* the group of near duplicates a stage-2 file was planned in
Group(f, S) == {g \in S : \E c \in lib.near[2] : lib.assetOf[f] \in c /\ lib.assetOf[g] \in c}

NoRow == [status |-> "none", stage |-> 1, phase |-> "staged"]
Nobody == [s \in Stages |-> {}]

-----------------------------------------------------------------------------
Init ==
    /\ lib \in Libraries
    /\ rows = Files /\ fate = [a \in Assets |-> "active"]
    /\ run = NoRow /\ count = 0 /\ plan = Nobody /\ leads = {}
    /\ surv = [a \in Assets |-> None]
    /\ live = Files /\ lnk = Nobody /\ dir = {}
    /\ job = "none" /\ pc = "idle"
    /\ at = 1 /\ batch = {} /\ pick = [a \in Assets |-> None]
    /\ todo = {} /\ staged = {} /\ group = {} /\ tally = 0
    /\ sweep = {} /\ after = "idle" /\ drained = 0 /\ cancelled = FALSE
    /\ jobs = 0 /\ halts = 0 /\ cancels = 0 /\ errors = 0 /\ vanished = 0
    /\ unticked = Nobody /\ offered = {} /\ dropped = {}
    /\ recycled = [f \in Files |-> 0] /\ spent = {} /\ reported = 0
    /\ slipped = {}

\* the handler's memory is gone
Forgotten ==
    /\ at' = 1 /\ batch' = {} /\ pick' = [a \in Assets |-> None]
    /\ todo' = {} /\ staged' = {} /\ group' = {} /\ tally' = 0
    /\ sweep' = {} /\ after' = "idle" /\ drained' = 0 /\ cancelled' = FALSE

-----------------------------------------------------------------------------
(* Jobs begin.                                                             *)

Begin(k) ==
    /\ pc = "idle"
    /\ jobs < MaxJobs
    /\ k = "analyze" => run.status # "pending"
    /\ jobs' = jobs + 1
    /\ job' = k
    /\ pc' = "begin"
    /\ UNCHANGED <<lib, catalog, review, disk, handler, cancelled, halts, cancels,
                   errors, vanished, history>>

\* stage s becomes the one to materialize
Load(s) ==
    /\ at' = s
    /\ batch' = PlanOf(s) /\ todo' = PlanOf(s) /\ staged' = {}
    /\ pick' = [a \in Assets |-> IF s = 1 /\ a \in Targets THEN Survivor(a) ELSE None]
    /\ pc' = "stat"

\* nothing to review: the folder is recorded as deduped
AnalyzeClean ==
    /\ pc = "begin" /\ job = "analyze"
    /\ NonEmpty(1) = {}
    /\ run' = [status |-> "completed", stage |-> 1, phase |-> "applied"]
    /\ count' = 0 /\ plan' = Nobody /\ leads' = {} /\ spent' = {}
    /\ pc' = "result"
    /\ UNCHANGED <<catalog, surv, disk, job, handler, cancelled, bounds, unticked,
                   offered, dropped, recycled, reported, slipped>>

\* the pending run is inserted at its first non-empty stage, marked `staged`
AnalyzeOpens ==
    /\ pc = "begin" /\ job = "analyze"
    /\ NonEmpty(1) # {}
    /\ LET s == First(NonEmpty(1)) IN
          /\ run' = [status |-> "pending", stage |-> s, phase |-> "staged"]
          /\ Load(s)
    /\ count' = 0 /\ plan' = Nobody /\ leads' = {} /\ surv' = [a \in Assets |-> None]
    /\ unticked' = Nobody /\ offered' = {} /\ dropped' = {} /\ spent' = {}
    /\ UNCHANGED <<catalog, disk, job, group, tally, sweep, after, drained, cancelled,
                   bounds, recycled, reported, slipped>>

-----------------------------------------------------------------------------
(* Staging (_materialize and _stage_and_pause).                            *)

\* the rows a lazy clean-up leaves: an active asset without files is forgotten
Lose(f) ==
    /\ rows' = rows \ {f}
    /\ fate' = [fate EXCEPT ![lib.assetOf[f]] =
           IF Copies(lib.assetOf[f]) \subseteq {f} /\ @ = "active" THEN "forgotten" ELSE @]

\* one target: vanished ones are lazily forgotten; in stage 1 a target whose
\* survivor vanished becomes the survivor, and the planned one loses its row
Stat ==
    /\ pc = "stat" /\ todo # {} /\ ~cancelled
    /\ LET f == First(todo)
           a == lib.assetOf[f]
       IN /\ todo' = todo \ {f}
          /\ \/ /\ f \notin live
                /\ Lose(f)
                /\ UNCHANGED <<pick, staged>>
             \/ /\ f \in live
                /\ at = 1 /\ pick[a] \notin live
                /\ rows' = rows \ ({pick[a]} \ batch)
                /\ pick' = [pick EXCEPT ![a] = f]
                /\ UNCHANGED <<fate, staged>>
             \/ /\ f \in live
                /\ at = 1 => pick[a] \in live
                /\ staged' = staged \cup {f}
                /\ UNCHANGED <<catalog, pick>>
    /\ UNCHANGED <<review, disk, job, pc, at, batch, group, tally, sweep, after, drained,
                   cancelled, bounds, history>>

MadeFolder == {at}

\* nothing resolved: back to _stage_and_pause, else the folder is made
StatDone ==
    /\ pc = "stat" /\ todo = {}
    /\ IF staged = {} THEN pc' = "cursor" /\ UNCHANGED dir
                      ELSE pc' = "link" /\ dir' = dir \cup MadeFolder
    /\ todo' = staged
    /\ UNCHANGED <<catalog, review, live, lnk, job, at, batch, pick, staged, group, tally,
                   sweep, after, drained, cancelled, bounds, history>>

Link ==
    /\ pc = "link" /\ todo # {}
    /\ LET f == First(todo) IN
          /\ todo' = todo \ {f}
          /\ IF f \in lib.unlinkable
             THEN staged' = staged \ {f} /\ UNCHANGED lnk
             ELSE lnk' = [lnk EXCEPT ![at] = @ \cup {f}] /\ UNCHANGED staged
    /\ UNCHANGED <<catalog, review, live, dir, job, pc, at, batch, pick, group, tally,
                   sweep, after, drained, cancelled, bounds, history>>

WithShortcut == staged

\* one transaction replaces the stage's review_actions
Persist ==
    /\ pc = "link" /\ todo = {}
    /\ plan' = [plan EXCEPT ![at] = WithShortcut]
    /\ surv' = IF at = 1 THEN pick ELSE surv
    /\ leads' = IF at = 2 THEN {f \in staged : f = First(Group(f, batch))} ELSE leads
    /\ pc' = "cursor"
    /\ UNCHANGED <<catalog, run, count, disk, job, handler, cancelled, bounds, history>>

NothingStaged == staged = {}

\* the cursor moves; the handler pauses for the user unless nothing was staged
Cursor ==
    /\ pc = "cursor"
    /\ run' = [run EXCEPT !.stage = at, !.phase = "staged"]
    /\ IF NothingStaged
       THEN pc' = "sweep" /\ sweep' = {at} /\ after' = "advance"
       ELSE pc' = "result" /\ UNCHANGED <<sweep, after>>
    /\ offered' = offered \cup {s \in {at} : staged # {}}
    /\ UNCHANGED <<catalog, count, plan, surv, leads, disk, job, at, batch, pick, todo,
                   staged, group, tally, drained, cancelled, bounds, unticked, dropped,
                   recycled, spent, reported, slipped>>

\* the next non-empty stage, or the end
AdvanceFrom(s) ==
    IF NonEmpty(s) # {}
    THEN Load(First(NonEmpty(s))) /\ UNCHANGED <<sweep, after>>
    ELSE /\ pc' = "sweep" /\ sweep' = Stages /\ after' = "complete"
         /\ UNCHANGED <<at, batch, pick, todo, staged>>

Advance ==
    /\ pc = "advance"
    /\ AdvanceFrom(at + 1)
    /\ UNCHANGED <<catalog, review, disk, job, group, tally, drained, cancelled, bounds, history>>

-----------------------------------------------------------------------------
(* Confirm.                                                                *)

Lead(f) == f \in leads
HasLead(f) == \E g \in Group(f, plan[2]) : Lead(g)

PresentMeansKeep(s) == plan[s] \ lnk[s]
PresentMeansDelete(s) == plan[s] \cap lnk[s]

\* what the user wants gone: stage 1 is default-delete, 2 and 3 default-keep,
\* and --keep-suggested ignores the folder
Intended(s) ==
    IF job = "keep" THEN {f \in plan[s] : HasLead(f) /\ ~Lead(f)}
    ELSE IF s = 1 THEN PresentMeansDelete(s) ELSE PresentMeansKeep(s)

FolderIgnored(s) == FALSE  \* mutant
FolderGone(s) == plan[s] # {} /\ s \notin dir

\* "nothing to confirm", --keep-suggested outside stage 2, "folder is missing"
Refused ==
    /\ pc = "begin"
    /\ job # "analyze"
    /\ \/ run.status # "pending"
       \/ job = "keep" /\ run.stage # 2
       \/ job \in {"confirm", "keep"} /\ run.phase = "staged" /\ FolderGone(run.stage)
    /\ job' = "none" /\ pc' = "idle" /\ Forgotten
    /\ UNCHANGED <<catalog, review, disk, bounds, history>>

\* a stage already applied is not applied again
ConfirmBegins ==
    /\ pc = "begin" /\ job \in {"confirm", "keep"}
    /\ run.status = "pending"
    /\ job = "keep" => run.stage = 2
    /\ at' = run.stage
    /\ IF run.phase = "applied"
       THEN pc' = "advance" /\ UNCHANGED todo
       ELSE /\ ~FolderGone(run.stage)
            /\ pc' = "apply"
            /\ todo' = Intended(run.stage)
    /\ UNCHANGED <<catalog, review, disk, job, batch, pick, staged, group, tally, sweep,
                   after, drained, cancelled, bounds, history>>

SurvivorKnown(a) == surv[a] # None  \* mutant: its file is not looked for
SurvivorLives(a) == surv[a] \in rows /\ surv[a] \in live

\* stage 1 takes all actions of one asset: a dead survivor loses its row and
\* the first live target is spared in its place; stages 2 and 3 take one file
TakeGroup ==
    /\ pc = "apply" /\ group = {} /\ todo # {} /\ ~cancelled
    /\ LET a == lib.assetOf[First(todo)]
           G == IF at = 1 THEN {f \in todo : lib.assetOf[f] = a} ELSE {First(todo)}
           spare == IF at = 1 /\ ~SurvivorLives(a) /\ G \cap live # {}
                    THEN {First(G \cap live)} ELSE {}
       IN /\ group' = G \ spare
          /\ todo' = todo \ G
          /\ rows' = IF at = 1 /\ ~SurvivorLives(a) THEN rows \ {surv[a]} ELSE rows
    /\ slipped' = {}
    /\ UNCHANGED <<fate, review, disk, job, pc, at, batch, pick, staged, tally, sweep,
                   after, drained, cancelled, bounds, unticked, offered, dropped,
                   recycled, spent, reported>>

AlreadyGone ==
    /\ pc = "apply" /\ group # {}
    /\ LET f == First(group) IN
          /\ f \notin live
          /\ Lose(f)
          /\ group' = group \ {f}
    /\ UNCHANGED <<review, disk, job, pc, at, batch, pick, todo, staged, tally, sweep,
                   after, drained, cancelled, bounds, history>>

\* the file goes first, its row in a transaction of its own after it
Recycle ==
    /\ pc = "apply" /\ group # {}
    /\ LET f == First(group) IN
          /\ f \in live \ lib.locked
          /\ live' = live \ {f}
          /\ recycled' = [recycled EXCEPT ![f] = at]
          /\ spent' = spent \cup {f}
    /\ pc' = "record"
    /\ UNCHANGED <<catalog, review, lnk, dir, job, handler, cancelled, bounds, unticked,
                   offered, dropped, reported, slipped>>

\* a file that cannot be moved is reported, and the loop goes on
RecycleFails ==
    /\ pc = "apply" /\ group # {}
    /\ First(group) \in live \cap lib.locked
    /\ group' = group \ {First(group)}
    /\ UNCHANGED <<catalog, review, disk, job, pc, at, batch, pick, todo, staged, tally,
                   sweep, after, drained, cancelled, bounds, history>>

RecordsNothing(a, f) == FALSE  \* mutant

\* a discarded look-alike with no copy left is remembered as trash
RecordsTrash(a, f) == at # 1 /\ Copies(a) \subseteq {f}

Record ==
    /\ pc = "record"
    /\ LET f == First(group)
           a == lib.assetOf[f]
       IN /\ rows' = rows \ {f}
          /\ fate' = [fate EXCEPT ![a] = IF RecordsTrash(a, f) THEN "trashed" ELSE @]
          /\ group' = group \ {f}
    /\ tally' = tally + 1
    /\ pc' = "apply"
    /\ UNCHANGED <<review, disk, job, at, batch, pick, todo, staged, sweep, after,
                   drained, cancelled, bounds, history>>

\* the folder goes before the marker that says the stage was applied
Applied ==
    /\ pc = "apply" /\ group = {} /\ todo = {}
    /\ pc' = "sweep" /\ sweep' = {at} /\ after' = "mark"
    /\ UNCHANGED <<catalog, review, disk, job, at, batch, pick, todo, staged, group,
                   tally, drained, cancelled, bounds, history>>

StageDeleted == tally

MarkApplied ==
    /\ pc = "mark"
    /\ run' = [run EXCEPT !.phase = "applied"]
    /\ count' = count + StageDeleted
    /\ tally' = 0
    /\ pc' = "advance"
    /\ UNCHANGED <<catalog, plan, surv, leads, disk, job, at, batch, pick, todo, staged,
                   group, sweep, after, drained, cancelled, bounds, history>>

-----------------------------------------------------------------------------
(* Ends.                                                                   *)

\* remove_tree: one entry at a time, then the folder
SweepEntry ==
    /\ pc = "sweep"
    /\ \E s \in sweep : \E f \in lnk[s] : lnk' = [lnk EXCEPT ![s] = @ \ {f}]
    /\ UNCHANGED <<catalog, review, live, dir, job, pc, handler, cancelled, bounds, history>>

SweepFolder ==
    /\ pc = "sweep"
    /\ \A s \in sweep : lnk[s] = {}
    /\ dir' = dir \ sweep
    /\ sweep' = {}
    /\ pc' = after
    /\ UNCHANGED <<catalog, review, live, lnk, job, at, batch, pick, todo, staged, group,
                   tally, after, drained, cancelled, bounds, history>>

Discard ==
    /\ pc = "begin" /\ job = "discard"
    /\ run.status = "pending"
    /\ pc' = "sweep" /\ sweep' = Stages /\ after' = "discarded"
    /\ UNCHANGED <<catalog, review, disk, job, at, batch, pick, todo, staged, group,
                   tally, drained, cancelled, bounds, history>>

Close ==
    /\ \/ pc = "complete" /\ run' = [run EXCEPT !.status = "completed"]
       \/ pc = "discarded" /\ run' = [run EXCEPT !.status = "cancelled"]
    /\ pc' = "result"
    /\ UNCHANGED <<catalog, count, plan, surv, leads, disk, job, handler, cancelled,
                   bounds, history>>

CountKept == count  \* mutant
CountLeft == 0

\* a confirm drains deleted_count into its result
Result ==
    /\ pc = "result"
    /\ IF job \in {"confirm", "keep"} THEN drained' = count /\ count' = CountLeft
                                      ELSE UNCHANGED <<drained, count>>
    /\ pc' = "land"
    /\ UNCHANGED <<catalog, run, plan, surv, leads, disk, job, at, batch, pick, todo,
                   staged, group, tally, sweep, after, cancelled, bounds, history>>

\* the queue's _finish stores the result with the job's status
Land ==
    /\ pc = "land"
    /\ reported' = reported + drained
    /\ job' = "none" /\ pc' = "idle" /\ Forgotten
    /\ UNCHANGED <<catalog, review, disk, bounds, unticked, offered, dropped, recycled, spent,
                   slipped>>

Running == pc \notin {"idle", "down", "reconcile", "rolled"} /\ after # "rolled"

\* check_cancelled: once per action while staging and while applying.  A user's
\* cancel and a clean stop end the handler alike; neither leaves a running row
SeesCancel ==
    /\ cancelled
    /\ todo # {}
    /\ pc = "stat" \/ (pc = "apply" /\ group = {})
    /\ job' = "none" /\ pc' = "idle" /\ Forgotten
    /\ UNCHANGED <<catalog, review, disk, bounds, history>>

\* any other exception: a full disk, a database error, a failed audit write
Raises ==
    /\ Running
    /\ errors < lib.errors
    /\ errors' = errors + 1
    /\ job' = "none" /\ pc' = "idle" /\ Forgotten
    /\ UNCHANGED <<lib, catalog, review, disk, jobs, halts, cancels, vanished, history>>

Worker ==
    \/ AnalyzeClean \/ AnalyzeOpens \/ Stat \/ StatDone \/ Link \/ Persist \/ Cursor
    \/ Advance \/ Refused \/ ConfirmBegins \/ TakeGroup \/ AlreadyGone \/ Recycle
    \/ RecycleFails \/ Record \/ Applied \/ MarkApplied \/ SweepEntry \/ SweepFolder
    \/ Discard \/ Close \/ Result \/ Land \/ SeesCancel

-----------------------------------------------------------------------------
(* Death and restart.                                                      *)

\* the running row survives; once a restart has flipped it, nothing tells the
\* next restart that there was an analyze to roll back
Halt ==
    /\ pc \notin {"idle", "down"}
    /\ halts < lib.halts
    /\ halts' = halts + 1
    /\ pc' = "down"
    /\ job' = IF Running THEN job ELSE "none"
    /\ Forgotten
    /\ UNCHANGED <<lib, catalog, review, disk, jobs, cancels, errors, vanished, history>>

Restart ==
    /\ pc = "down"
    /\ pc' = "reconcile"
    /\ UNCHANGED <<catalog, review, disk, job, handler, cancelled, bounds, history>>

FirstStage == run.status = "pending" /\ run.stage = 1 /\ run.phase # "applied"
RollsBackAnyJob == FirstStage  \* mutant

\* only a first-stage, never-confirmed analyze is rolled back
RollsBack == job = "analyze" /\ FirstStage

Reconcile ==
    /\ pc = "reconcile"
    /\ IF RollsBack
       THEN pc' = "sweep" /\ sweep' = Stages /\ after' = "rolled" /\ UNCHANGED job
       ELSE pc' = "idle" /\ job' = "none" /\ UNCHANGED <<sweep, after>>
    /\ UNCHANGED <<catalog, review, disk, at, batch, pick, todo, staged, group, tally,
                   drained, cancelled, bounds, history>>

Rollback ==
    /\ pc = "rolled"
    /\ run' = [run EXCEPT !.status = "cancelled"]
    /\ job' = "none" /\ pc' = "idle" /\ Forgotten
    /\ UNCHANGED <<catalog, count, plan, surv, leads, disk, bounds, history>>

-----------------------------------------------------------------------------
(* The user.                                                               *)

Cancel ==
    /\ Running
    /\ ~cancelled
    /\ cancels < lib.cancels
    /\ cancels' = cancels + 1
    /\ cancelled' = TRUE
    /\ UNCHANGED <<lib, catalog, review, disk, job, pc, handler, jobs, halts, errors,
                   vanished, history>>

\* reviewing is deleting shortcuts
Untick(f) ==
    /\ pc = "idle" /\ run.status = "pending"
    /\ f \in lnk[run.stage]
    /\ lnk' = [lnk EXCEPT ![run.stage] = @ \ {f}]
    /\ unticked' = [unticked EXCEPT ![run.stage] = @ \cup {f}]
    /\ UNCHANGED <<catalog, review, live, dir, job, pc, handler, cancelled, bounds, offered,
                   dropped, recycled, spent, reported, slipped>>

\* or, by mistake, the whole folder
DropFolder ==
    /\ pc = "idle" /\ run.status = "pending"
    /\ run.stage \in dir
    /\ dir' = dir \ {run.stage}
    /\ lnk' = [lnk EXCEPT ![run.stage] = {}]
    /\ dropped' = dropped \cup {run.stage}
    /\ UNCHANGED <<catalog, review, live, job, pc, handler, cancelled, bounds, unticked,
                   offered, recycled, spent, reported, slipped>>

\* or removing a file itself, at any step of any job
Vanish(f) ==
    /\ f \in live
    /\ vanished < lib.vanish
    /\ live' = live \ {f}
    /\ vanished' = vanished + 1
    /\ slipped' = slipped \cup {f}
    /\ UNCHANGED <<lib, catalog, review, lnk, dir, job, pc, handler, cancelled, jobs, halts,
                   cancels, errors, unticked, offered, dropped, recycled, spent, reported>>

Next ==
    \/ \E k \in {"analyze", "confirm", "keep", "discard"} : Begin(k)
    \/ Worker \/ Raises
    \/ Halt \/ Restart \/ Reconcile \/ Rollback
    \/ Cancel \/ DropFolder
    \/ \E f \in Files : Untick(f) \/ Vanish(f)

Spec == Init /\ [][Next]_vars

-----------------------------------------------------------------------------
(* Properties.                                                             *)

Recycled == {f \in Files : recycled[f] # 0}
NewlyRecycled == {f \in Files : recycled[f] = 0 /\ recycled'[f] # 0}

\* no daemon has died and no handler has raised; jobs may have been cancelled
Uninterrupted == halts + errors = 0

\* stage 1 deletes no file whose shortcut was taken away, stages 2 and 3 only
\* files whose shortcut was, or, under --keep-suggested, the non-leads
Condemned(f) ==
    IF at = 1 THEN f \notin unticked[1]
    ELSE \/ f \in unticked[at]
         \/ job = "keep" /\ f \notin leads

(* The user decides which files go, whatever could not be staged, vanished *)
(* or was cancelled, and a deleted folder condemns nobody                  *)
(* (dedup.py:868-899).                                                     *)
UserDecides == [][Uninterrupted => \A f \in NewlyRecycled : Condemned(f)]_vars

(* ... and always: never read "gone" as "delete all" (dedup.py:295,        *)
(* operation-dedup.md:304-316).  A crash while a folder is being removed   *)
(* breaks it.                                                              *)
UserAlwaysDecides == [][\A f \in NewlyRecycled : Condemned(f)]_vars

(* Stage 1 never takes the last copy of a content: when it moves a file to *)
(* the bin, a copy that is not condemned with it is on disk, or was when   *)
(* the survivor was looked for and vanished since (dedup.py:917-938),      *)
(* however often the confirm was interrupted.                              *)
StageOneSparesACopy ==
    [][\A f \in NewlyRecycled :
          at = 1 => \E g \in (live' \cup slipped) \ group :
                        lib.assetOf[g] = lib.assetOf[f]]_vars

(* ... and always: the survivor is verified for each file, at the moment   *)
(* of deletion, "guarantees an asset never loses its last copy"            *)
(* (operation-dedup.md:321-326).  The code looks for it once per asset.    *)
LastCopyAlwaysSpared ==
    [][\A f \in NewlyRecycled :
          at = 1 => \E g \in live' : lib.assetOf[g] = lib.assetOf[f]]_vars

(* The rollback closes a run only while it has deleted nothing             *)
(* (reconcile.py:86-89).                                                   *)
RollbackSparesCommitted ==
    [][pc = "rolled" /\ run'.status = "cancelled" => spent = {}]_vars

(* A content all of whose copies packrat itself recycled, the last one as  *)
(* an unwanted look-alike, is remembered as trash (dedup.py:982-989,       *)
(* operation-dedup.md:333-336), unless a crash or an exception came        *)
(* between the recycling and its record (see the README).                  *)
DiscardsAreRemembered ==
    pc = "idle" /\ Uninterrupted =>
        \A a \in Assets :
            LET F == {f \in Files : lib.assetOf[f] = a} IN
            /\ F \subseteq Recycled \ rows
            /\ \E f \in F : recycled[f] > 1
            => fate[a] = "trashed"

(* The lifetime-deduped metric never counts a file twice, though a run's   *)
(* tally is carried from one confirm to the next, and between jobs it      *)
(* misses none unless a job was cut short (dedup.py:125-132).              *)
DeletesCountedOnce ==
    /\ reported + drained + count + tally <= Cardinality(Recycled)
    /\ pc = "idle" /\ Uninterrupted /\ cancels = 0
          => reported + count = Cardinality(Recycled)

=============================================================================
