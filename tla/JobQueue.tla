------------------------------ MODULE JobQueue ------------------------------
(***************************************************************************)
(* The single-worker job queue of the packrat daemon: the durable `jobs`   *)
(* table, the in-memory worker slot, the runnable-first pump with its      *)
(* per-root ownership gate, user and shutdown cancellation, and the        *)
(* startup reconciliation that a crash or a clean stop leaves to the next  *)
(* daemon (jobs/queue.py, jobs/registry.py, jobs/reconcile.py,             *)
(* roots.root_holder).  Job handlers appear only through what they do to   *)
(* the rows that own a root: a pending review_runs row and an open         *)
(* merge_runs row.  DedupReview and MergeRun open those handlers up.       *)
(*                                                                         *)
(* Threads.  HTTP requests and the scheduler call submit, prioritize and   *)
(* cancel; the worker thread runs handlers.  submit and prioritize change  *)
(* the table under the queue's lock, let the lock go and only then call    *)
(* _pump, and a worker releases the slot before it pumps: `pumps` counts   *)
(* the threads that still have to make that call.  A daemon may die at any *)
(* step (Halt); what survives is the database.                             *)
(***************************************************************************)
EXTENDS Integers, FiniteSets

CONSTANTS Roots,      \* the registered library roots
          Kinds,      \* the kinds of job submitted (a subset of AllKinds)
          Retirable,  \* kinds whose job type an upgrade may remove
          MaxJobs,    \* bound: rows ever inserted in the jobs table
          MaxEpoch,   \* bound: daemon starts
          MaxPrio     \* bound: prioritize calls that still raise a priority

(***************************************************************************)
(* A kind is a job type together with the flags that queue and             *)
(* reconciliation look at: "scan" and "probe" of one root; "sweep", the    *)
(* jobs that own no root (scan --all, untrash, trash refresh, merge        *)
(* --dry-run); "analyze", a dedup or cleanup --trash-perceptual that opens *)
(* a review; "dryrun", dedup --dry-run; "preview" and "apply", cleanup's   *)
(* one-shot modes; "confirm" and "discard", --confirm and --cancel of a    *)
(* review; "merge".                                                        *)
(***************************************************************************)
AllKinds == {"scan", "probe", "sweep", "analyze", "dryrun", "preview",
             "apply", "confirm", "discard", "merge"}

ASSUME JobQueueAssumption ==
    /\ Roots # {}
    /\ Kinds \subseteq AllKinds
    /\ Retirable \subseteq Kinds
    /\ MaxJobs \in Nat
    /\ MaxEpoch \in Nat
    /\ MaxPrio \in Nat

JobIds == 1..MaxJobs
None == 0   \* no job: an empty slot, a root nobody opened a review on

Terminal == {"done", "error", "cancelled", "interrupted"}
Status == {"absent", "queued", "running"} \cup Terminal

VARIABLES
    \* the database
    count,      \* rows inserted so far; row ids are 1..count
    status, kind, root, prio,   \* the columns of the jobs table
    review,     \* pending review_runs row of a root: "none"; "first": stage 1,
                \*   never confirmed; "later": past stage 1 or stage_phase applied
    merging,    \* roots that are the dest of an open merge_runs row
    \* the process
    daemon,     \* "down", "reconcile", "up", "stopping"
    stale,      \* reconcile: interrupted jobs still to be examined for rollback
    retired,    \* kinds this build has no handler for
    slot,       \* _running_job_id
    cancelled,  \* _cancel_event is set
    pc,         \* the worker thread that holds the slot
    outcome,    \* how its handler ended
    pumps,      \* threads about to call _pump
    \* history, read by properties only
    epoch,      \* daemon starts so far
    born,       \* the epoch a row was inserted in
    opener      \* the job that opened a root's pending review

table == <<count, status, kind, root, prio, born>>
holders == <<review, merging, opener>>
process == <<daemon, stale, retired, epoch>>
worker == <<slot, cancelled, pc, outcome>>
vars == <<table, holders, process, worker, pumps>>

-----------------------------------------------------------------------------
(* Registry: which root a job owns, and who else may be holding it.        *)

\* JobSpec.owned_root of each handler: confirm and cancel act on the review
\* that already owns the root, dry runs and sweeps own nothing
OwnsRoot(k) == k \in {"scan", "probe", "analyze", "preview", "apply", "merge"}

\* a resuming merge is not held up by its own open row
IgnoresMerge(k) == k = "merge"

RootHeldByMergeOnly(r, ignoreMerge) == r \in merging /\ ~ignoreMerge  \* mutant

RootHeld(r, ignoreMerge) ==
    \/ review[r] # "none"
    \/ r \in merging /\ ~ignoreMerge

Runnable(j) == OwnsRoot(kind[j]) => ~RootHeld(root[j], IgnoresMerge(kind[j]))

Queued == {j \in JobIds : status[j] = "queued"}

\* ORDER BY priority DESC, enqueued_at, id
Before(i, j) == prio[i] > prio[j] \/ (prio[i] = prio[j] /\ i < j)

\* the delete-applies that must not run unattended
DestructiveApply(k) == k \in {"confirm", "apply"}

\* interrupted dedup and cleanup jobs whose review reconcile rolls back: the
\* filter lets a cleanup preview or apply through as well as an analyze
RollsBack(k) == k \in {"analyze", "preview", "apply"}

Accepting == daemon \in {"up", "stopping"}

-----------------------------------------------------------------------------
Init ==
    /\ count = 0
    /\ status = [j \in JobIds |-> "absent"]
    /\ kind = [j \in JobIds |-> "sweep"]
    /\ root = [j \in JobIds |-> CHOOSE r \in Roots : TRUE]
    /\ prio = [j \in JobIds |-> 0]
    /\ born = [j \in JobIds |-> 0]
    /\ review = [r \in Roots |-> "none"]
    /\ merging = {}
    /\ opener = [r \in Roots |-> None]
    /\ daemon = "down"
    /\ stale = {}
    /\ retired = {}
    /\ epoch = 0
    /\ slot = None /\ cancelled = FALSE /\ pc = "idle" /\ outcome = "none"
    /\ pumps = 0

-----------------------------------------------------------------------------
(* Clients: HTTP handlers, the CLI and TUI behind them, the scheduler.     *)

\* the queued probe of the same root that a new probe coalesces with
QueuedProbe(k, r) == k = "probe" /\ \E j \in Queued : kind[j] = "probe" /\ root[j] = r

\* a request for a type with no handler raises and leaves no row, and one that
\* meets a queued probe returns that probe's id without a pump
Submit(k, r) ==
    /\ Accepting
    /\ k \notin retired
    /\ ~QueuedProbe(k, r)
    /\ count < MaxJobs
    /\ count' = count + 1
    /\ status' = [status EXCEPT ![count + 1] = "queued"]
    /\ kind' = [kind EXCEPT ![count + 1] = k]
    /\ root' = [root EXCEPT ![count + 1] = r]
    /\ prio' = [prio EXCEPT ![count + 1] = 0]
    /\ born' = [born EXCEPT ![count + 1] = epoch]
    /\ pumps' = pumps + 1
    /\ UNCHANGED <<holders, process, worker>>

\* COALESCE(MAX(priority), 0) over the queued rows
IsTopPriority(p) ==
    /\ p \in {prio[i] : i \in Queued}
    /\ \A i \in Queued : prio[i] <= p

Prioritize(j) ==
    /\ Accepting
    /\ status[j] = "queued"
    /\ \E top \in 0..MaxPrio - 1 :
          /\ IsTopPriority(top)
          /\ prio' = [prio EXCEPT ![j] = top + 1]
    /\ pumps' = pumps + 1
    /\ UNCHANGED <<count, status, kind, root, born, holders, process, worker>>

\* cancel() of the job in the slot only raises its flag; it returns True
CancelRunning(j) ==
    /\ Accepting
    /\ slot = j
    /\ ~cancelled
    /\ cancelled' = TRUE
    /\ UNCHANGED <<table, holders, process, slot, pc, outcome, pumps>>

\* the status is read under the lock that the drop is written under
Droppable(j) == status[j] = "queued"

\* cancel() of a queued job lands it at once; any other job is left alone
CancelQueued(j) ==
    /\ Accepting
    /\ slot # j
    /\ Droppable(j)
    /\ status' = [status EXCEPT ![j] = "cancelled"]
    /\ UNCHANGED <<count, kind, root, prio, born, holders, process, worker, pumps>>

CancelAllQueued ==
    /\ Accepting
    /\ Queued # {}
    /\ status' = [j \in JobIds |-> IF j \in Queued THEN "cancelled" ELSE status[j]]
    /\ UNCHANGED <<count, kind, root, prio, born, holders, process, worker, pumps>>

\* shutdown(): _stopping first, then the shared cancel event of a running job
Shutdown ==
    /\ daemon = "up"
    /\ daemon' = "stopping"
    /\ cancelled' = (slot # None)
    /\ UNCHANGED <<table, holders, stale, retired, epoch, slot, pc, outcome, pumps>>

-----------------------------------------------------------------------------
(* The pump.                                                               *)

Candidates == {j \in Queued : kind[j] \notin retired /\ Runnable(j)}

\* the first candidate in dequeue order starts
Start(j) ==
    /\ j \in Candidates
    /\ \A i \in Candidates : i # j => Before(j, i)
    /\ slot' = j
    /\ pc' = "load"
    /\ cancelled' = FALSE
    /\ outcome' = "none"

FailRetiredNever(seen) == {}  \* mutant

\* rows of a removed type are failed as the scan of the backlog meets them
FailRetired(seen) == {i \in Queued : kind[i] \in retired /\ i \in seen}

PumpBody ==
    IF slot # None
    THEN UNCHANGED <<status, worker>>
    ELSE \/ \E j \in JobIds :
              /\ Start(j)
              /\ status' = [i \in JobIds |->
                     IF i = j THEN "running"
                     ELSE IF i \in FailRetired({h \in JobIds : Before(h, j)})
                          THEN "error" ELSE status[i]]
         \/ /\ Candidates = {}
            /\ status' = [i \in JobIds |->
                   IF i \in FailRetired(JobIds) THEN "error" ELSE status[i]]
            /\ UNCHANGED worker

\* while stopping, _pump returns at once
Pump ==
    /\ Accepting
    /\ pumps > 0
    /\ pumps' = pumps - 1
    /\ IF daemon = "stopping" THEN UNCHANGED <<status, worker>> ELSE PumpBody
    /\ UNCHANGED <<count, kind, root, prio, born, holders, process>>

-----------------------------------------------------------------------------
(* The worker thread.                                                      *)

EndsUnrecorded(o) == pc' = "ended" /\ UNCHANGED <<slot, cancelled, outcome>>  \* mutant

Ends(o) == pc' = "ended" /\ outcome' = o /\ UNCHANGED <<slot, cancelled>>

\* the per-job config snapshot; a parse error rejects the job
LoadConfig ==
    /\ pc = "load"
    /\ \/ pc' = "body" /\ UNCHANGED <<slot, cancelled, outcome>>
       \/ Ends("error")
    /\ UNCHANGED <<table, holders, process, pumps>>

\* handlers raise: a guard's ValueError at the start, or any exception later
HandlerFails ==
    /\ pc \in {"body", "mid"}
    /\ Ends("error")
    /\ UNCHANGED <<table, holders, process, pumps>>

\* the handlers that poll the flag; a discard and a preview never do
Checkpoints(k) == k \notin {"discard", "preview"}

HandlerSeesCancel ==
    /\ pc \in {"body", "mid"}
    /\ cancelled
    /\ Checkpoints(kind[slot])
    /\ Ends("cancelled")
    /\ UNCHANGED <<table, holders, process, pumps>>

\* a handler that touches no holder returns; an analyze that finds nothing to
\* review is one of them
HandlerReturns ==
    /\ \/ pc = "body" /\ kind[slot] \notin {"confirm", "discard", "merge"}
       \/ pc = "mid" /\ kind[slot] # "merge"
    /\ Ends("done")
    /\ UNCHANGED <<table, holders, process, pumps>>

\* analyze inserts the pending run at its first non-empty stage, then stages it
AnalyzeOpens ==
    /\ pc = "body"
    /\ kind[slot] = "analyze"
    /\ review[root[slot]] = "none"
    /\ \E s \in {"first", "later"} : review' = [review EXCEPT ![root[slot]] = s]
    /\ opener' = [opener EXCEPT ![root[slot]] = slot]
    /\ pc' = "mid"
    /\ UNCHANGED <<table, merging, process, slot, cancelled, outcome, pumps>>

\* confirm applies the current stage; the run is then past rollback
ConfirmApplies ==
    /\ pc = "body"
    /\ kind[slot] = "confirm"
    /\ review[root[slot]] # "none"
    /\ review' = [review EXCEPT ![root[slot]] = "later"]
    /\ pc' = "mid"
    /\ UNCHANGED <<table, merging, opener, process, slot, cancelled, outcome, pumps>>

\* confirm after the last non-empty stage, or --cancel, closes the run
ReviewCloses ==
    /\ \/ pc = "mid" /\ kind[slot] = "confirm"
       \/ pc = "body" /\ kind[slot] = "discard"
    /\ review[root[slot]] # "none"
    /\ review' = [review EXCEPT ![root[slot]] = "none"]
    /\ opener' = [opener EXCEPT ![root[slot]] = None]
    /\ Ends("done")
    /\ UNCHANGED <<table, merging, process, pumps>>

\* merge opens, or resumes, the run whose destination is its root
MergeOpens ==
    /\ pc = "body"
    /\ kind[slot] = "merge"
    /\ review[root[slot]] = "none"
    /\ merging' = merging \cup {root[slot]}
    /\ pc' = "mid"
    /\ UNCHANGED <<table, review, opener, process, slot, cancelled, outcome, pumps>>

MergeCloses ==
    /\ pc = "mid"
    /\ kind[slot] = "merge"
    /\ merging' = merging \ {root[slot]}
    /\ Ends("done")
    /\ UNCHANGED <<table, review, opener, process, pumps>>

\* the terminal status: a cancellation seen while stopping is an interruption
Landing == IF outcome = "cancelled" /\ daemon = "stopping" THEN "interrupted" ELSE outcome

Finish ==
    /\ pc = "ended"
    /\ status' = [status EXCEPT ![slot] = Landing]
    /\ pc' = "finished"
    /\ UNCHANGED <<count, kind, root, prio, born, holders, process,
                   slot, cancelled, outcome, pumps>>

ReleaseWithoutPump ==  \* mutant
    /\ pc = "finished"
    /\ slot' = None /\ cancelled' = FALSE /\ pc' = "idle" /\ outcome' = "none"
    /\ UNCHANGED <<table, holders, process, pumps>>

\* _release, after which this same thread goes on to pump
Release ==
    /\ pc = "finished"
    /\ slot' = None /\ cancelled' = FALSE /\ pc' = "idle" /\ outcome' = "none"
    /\ pumps' = pumps + 1
    /\ UNCHANGED <<table, holders, process>>

Handler ==
    \/ HandlerFails \/ HandlerSeesCancel \/ HandlerReturns
    \/ AnalyzeOpens \/ ConfirmApplies \/ ReviewCloses
    \/ MergeOpens \/ MergeCloses

Worker == LoadConfig \/ Handler \/ Finish \/ Release

-----------------------------------------------------------------------------
(* Death and restart.                                                      *)

\* a crash at any step, or the exit of a stop that has waited long enough:
\* memory is gone, a job in the slot keeps its `running` row
Halt ==
    /\ daemon # "down"
    /\ daemon' = "down"
    /\ slot' = None /\ cancelled' = FALSE /\ pc' = "idle" /\ outcome' = "none"
    /\ pumps' = 0
    /\ stale' = {}
    /\ UNCHANGED <<table, holders, retired, epoch>>

InterruptsRunning(j) == status[j] = "running"  \* mutant

\* rows a previous daemon left running, and the delete-applies it left queued
Interrupts(j) ==
    \/ status[j] = "running"
    \/ status[j] = "queued" /\ DestructiveApply(kind[j])

\* a new daemon, perhaps of a newer build, flips stale rows in one transaction
Boot ==
    /\ daemon = "down"
    /\ epoch < MaxEpoch
    /\ epoch' = epoch + 1
    /\ daemon' = "reconcile"
    /\ \E gone \in SUBSET Retirable : retired' = retired \cup gone
    /\ stale' = {j \in JobIds : status[j] = "running" /\ RollsBack(kind[j])}
    /\ status' = [j \in JobIds |-> IF Interrupts(j) THEN "interrupted" ELSE status[j]]
    /\ UNCHANGED <<count, kind, root, prio, born, holders, worker, pumps>>

\* the half-built first stage of an interrupted analyze is cancelled
Rollback(j) ==
    /\ daemon = "reconcile"
    /\ j \in stale
    /\ stale' = stale \ {j}
    /\ IF review[root[j]] = "first"
       THEN /\ review' = [review EXCEPT ![root[j]] = "none"]
            /\ opener' = [opener EXCEPT ![root[j]] = None]
       ELSE UNCHANGED <<review, opener>>
    /\ UNCHANGED <<table, merging, daemon, retired, epoch, worker, pumps>>

\* build_app pumps once before any request is served
Serve ==
    /\ daemon = "reconcile"
    /\ stale = {}
    /\ daemon' = "up"
    /\ PumpBody
    /\ UNCHANGED <<count, kind, root, prio, born, holders, stale, retired, epoch, pumps>>

-----------------------------------------------------------------------------
Client ==
    \/ \E k \in Kinds, r \in Roots : Submit(k, r)
    \/ \E j \in JobIds : Prioritize(j) \/ CancelRunning(j) \/ CancelQueued(j)
    \/ CancelAllQueued
    \/ Shutdown

Next ==
    \/ Client
    \/ Pump
    \/ Worker
    \/ Halt
    \/ Boot
    \/ \E j \in JobIds : Rollback(j)
    \/ Serve

Spec == Init /\ [][Next]_vars

\* threads keep running, handlers are finite, and a daemon that has started
\* finishes its startup; nobody has to submit, cancel, crash or restart
Fairness ==
    /\ WF_vars(Pump)
    /\ WF_vars(Worker)
    /\ WF_vars(Serve)
    /\ WF_vars(\E j \in JobIds : Rollback(j))

FairSpec == Spec /\ Fairness

-----------------------------------------------------------------------------
(* Properties.                                                             *)

TypeOK ==
    /\ count \in 0..MaxJobs
    /\ status \in [JobIds -> Status]
    /\ kind \in [JobIds -> AllKinds]
    /\ root \in [JobIds -> Roots]
    /\ prio \in [JobIds -> Nat]
    /\ born \in [JobIds -> Nat]
    /\ review \in [Roots -> {"none", "first", "later"}]
    /\ merging \in SUBSET Roots
    /\ opener \in [Roots -> JobIds \cup {None}]
    /\ daemon \in {"down", "reconcile", "up", "stopping"}
    /\ stale \in SUBSET JobIds
    /\ retired \in SUBSET Kinds
    /\ slot \in JobIds \cup {None}
    /\ cancelled \in BOOLEAN
    /\ pc \in {"idle", "load", "body", "mid", "ended", "finished"}
    /\ (slot = None) <=> (pc = "idle")
    /\ outcome \in {"none", "done", "error", "cancelled"}
    /\ pc = "ended" => outcome # "none"
    /\ pumps \in Nat
    /\ epoch \in Nat

(* At most one row says `running`, whatever crashed when, and while the    *)
(* daemon serves it is the row of the job in the worker slot               *)
(* (queue.py:75, reconcile.py:4-6).                                        *)
OneRunning ==
    /\ \A i, j \in JobIds : status[i] = "running" /\ status[j] = "running" => i = j
    /\ \A j \in JobIds : status[j] = "running" /\ daemon # "down" => slot = j

(* A job that owns a root runs on it only while no one else holds it: a    *)
(* pending review there was opened by this very job, and an open merge is  *)
(* met only by a merge (queue.py:196-203, registry.py:7-13).  The gate is  *)
(* asked once, when the job is dequeued; nothing asks again later.         *)
OwnerRunsAlone ==
    \A j \in JobIds :
        status[j] = "running" /\ OwnsRoot(kind[j]) =>
            /\ review[root[j]] # "none" => opener[root[j]] = j
            /\ root[j] \in merging => kind[j] = "merge"

(* A delete-apply only ever runs under the daemon it was submitted to: the *)
(* backlog a restart drains holds none (reconcile.py:15-19, queue.py:169). *)
ApplyIsAttended ==
    \A j \in JobIds :
        status[j] = "running" /\ DestructiveApply(kind[j]) /\ daemon # "down"
            => born[j] = epoch

(* No wakeup is lost: when the worker is idle and no thread is on its way  *)
(* to _pump, every queued job is one the gate holds back                   *)
(* (queue.py:164-165, 285-288).                                            *)
NoLostWakeup ==
    daemon = "up" /\ slot = None /\ pumps = 0 => Candidates = {}

(* At most one probe of a root waits in the backlog (queue.py:119-127).    *)
OneQueuedProbe ==
    \A i, j \in Queued :
        kind[i] = "probe" /\ kind[j] = "probe" /\ root[i] = root[j] => i = j

(* Startup never rolls back a review whose own analyze landed done, though *)
(* its filter also lets interrupted previews and applies through           *)
(* (reconcile.py:94-102).                                                  *)
RollbackSparesFinished ==
    [][\A r \in Roots :
          daemon = "reconcile" /\ review[r] # "none" /\ review'[r] = "none"
              => opener[r] # None /\ status[opener[r]] # "done"]_vars

(* A terminal row is history: no late finish, cancel, restart or pump      *)
(* writes its status again.  cancel() and the worker's _finish write the   *)
(* same rows and only the first of them takes the lock                     *)
(* (queue.py:298-306, 350-375).                                            *)
TerminalIsFinal ==
    [][\A j \in JobIds : status[j] \in Terminal => status'[j] = status[j]]_vars

(* The inductive strengthening of the invariants above.                    *)

\* memory and table agree: the slot is taken exactly while a worker is in a
\* job, and its row says `running` until that worker writes the outcome
Busy == {"load", "body", "mid", "ended"}

SlotInv ==
    /\ daemon \in {"down", "reconcile"} => slot = None /\ pumps = 0
    /\ pc \in Busy => status[slot] = "running"
    /\ \A j \in JobIds : status[j] = "running" /\ daemon # "down" => slot = j /\ pc \in Busy
    /\ \A j \in JobIds : j > count => status[j] = "absent"

\* an interrupted owner still to be examined is the only possible holder
StaleInv ==
    /\ daemon # "reconcile" => stale = {}
    /\ \A j \in stale :
          /\ status[j] = "interrupted"
          /\ review[root[j]] # "none" => opener[root[j]] = j

\* the backlog of a serving daemon holds none of an earlier one's applies
BacklogAttended ==
    \A j \in JobIds :
        status[j] \in {"queued", "running"} /\ DestructiveApply(kind[j]) /\ daemon # "down"
            => born[j] = epoch

IInv ==
    /\ TypeOK
    /\ SlotInv
    /\ OneRunning
    /\ OwnerRunsAlone
    /\ StaleInv
    /\ BacklogAttended
    /\ NoLostWakeup
    /\ OneQueuedProbe

(* Under a daemon that stays up, a queued job is started or dropped unless *)
(* its root is held at some later time: prioritized jobs, blocked jobs and *)
(* removed types ahead of it do not wedge the queue (queue.py:158-165).    *)
BacklogDrains ==
    \A j \in JobIds :
        status[j] = "queued" /\ daemon = "up"
            ~> status[j] # "queued" \/ daemon # "up" \/ ~Runnable(j)

(* cancel() returns True "if a job was actually cancelled/dropped"         *)
(* (queue.py:359); without a shutdown only cancel() sets the running job's *)
(* event, so such a job never lands done.                                  *)
CancelIsTruthful ==
    [][\A j \in JobIds :
          slot = j /\ status[j] = "running" /\ cancelled /\ daemon = "up"
              => status'[j] # "done"]_vars

=============================================================================
