# packrat: specification and verification

packrat keeps a catalog of a photo and video collection spread over several
library roots. A background daemon owns a SQLite database and one worker thread;
every change to files or catalog is a *job*, submitted from a command line, from
a terminal interface or by a scheduler. This directory holds TLA+ models of the
parts where the order of steps matters, the TLC configurations that check them,
and TLAPS proofs. Paths below are relative to `src/src/packrat/`, the notes are
in `src/notes/`.

    tlc -workers 2 -config MCMergeRun_merges.cfg MCMergeRun     # one run
    tlapm JobQueueProofs.tla                                    # the proofs of a module

## 1. The system

| Component | State | Operations | Meets |
|---|---|---|---|
| Job queue, `jobs/queue.py`, `jobs/registry.py` | `jobs` table; worker slot, cancel event, subscribers | submit, probe coalescing, `_pump`, `_start`, `_run_job`, `_finish`, cancel, prioritize, cancel_all, shutdown | HTTP threads, scheduler, worker thread; asks `roots.root_holder` |
| Reconciliation, `jobs/reconcile.py` | none of its own | at startup: running rows to interrupted, queued applies set aside, half-staged first stage rolled back | `jobs`, `review_runs`, staging folders |
| Job context, `jobs/context.py` | cancel event, counters | checkpoints, `set_result` | every handler |
| Dedup review, `jobs/dedup.py`, `review.py` | `review_runs`, `review_actions`, folders of shortcuts | analyze, stage, confirm, apply, advance, discard, finalize | the user in Explorer, the Recycle Bin, the metric |
| Matching and ranking, `matcher.py`, `jobs/dedup_rank.py`, `review_stats.py` | none | compare, band, cluster, rank, tally | dedup review, cleanup |
| Merge, `jobs/merge.py` | `merge_runs`, `merge_plan_items` | trash refresh, destination scan, hash, classify, copy, verify, register, resume, dry run | scan, trash refresh |
| Scan and probe, `jobs/scan.py`, `jobs/probe.py`, `ignore.py` | `file_instances`, `assets`, perceptual rows, counters of a root | enumerate, fast path, relink, photo pipeline, backfill, deletion detection, problem report; count what is new | its own threads, the user's disk, merge |
| Trash memory: `trash.py`, `jobs/trash_refresh.py`, `jobs/cleanup.py`, `jobs/untrash.py` | trashed assets, the trash folders, a cleanup review | absorb and empty; preview, one-shot, analyze, confirm, cancel; forget or reactivate | dedup review, scan, merge |
| Daemon lifecycle, `daemon/` | port, token file, state file | bind, build, serve, stop, exit; ensure, poll, force-kill | several processes, command lines, job queue |
| Event stream, `jobs/queue.py`, `daemon/server.py`, `cli/stream.py` | a bounded queue per subscriber | subscribe, broadcast, heartbeat re-check, end marker | job queue, command line, terminal interface |
| Front ends, `cli/main.py`, `tui/`, `queries.py` | what the user was shown; snapshot, cursors, pages | options, counts, questions, exit codes; polls, keys, questions | HTTP routes, event stream |
| Scheduler, `jobs/scheduler.py` | none | submit at intervals | job queue |
| Roots, `roots.py` | `roots` table | register, remove, `root_holder` | job queue |
| Database, `db/`, `jobs/_dbops.py` | connection, its lock | transactions, migrations, backups | all |
| Fingerprints, configuration, paths, fixtures | none the daemon relies on | native calls, parsing, drawing | all |

**What is hard.** The queue is entered by HTTP threads, the scheduler and the
worker, and lets its lock go between writing a row and pumping. The gate that
keeps two owners off one root is asked once, at dequeue. Every review and merge
spans several jobs and days, interleaved with a user who edits the folders, and
every file operation is a step apart from the row that records it, so a kill
between the two must be repairable. A scan looks at a disk that changes while it
looks, with readers and workers over shared queues and a byte budget. Several
daemon processes can exist while one takes over from another. What a front end
shows is older than what its answer acts on, by a typed word, a queue and other
people's jobs; and the stream it watches drops events when it is slow.

**What makes each part correct.** Queue: one job at a time, owners apart, no job
forgotten, a restart neither resumes a deletion nor destroys a review. Reviews:
only what the user condemned is deleted, never the last copy in stage 1 as far as
the look for a survivor can tell, each deletion is remembered and counted once.
Near duplicates: the groups are the connected components, the suggestion is the
best copy, the figures agree as far as every member got its shortcut. Merge:
every new content arrives once, the catalog says what is on disk, a run can
always be finished. Scan: one result per file, bounded memory, a catalog that
mirrors the disk once a pass was left alone, and no row lost for a file that
stayed. Trash memory: only what is trash, junk or offered is recycled, and what
was discarded stays known. Daemons: one at work, and clients that find it.
Stream: it ends, and the exit code is the job's. Front ends: the counted files
are the deleted ones, the stage shown is the stage decided on, the job named is
the job cancelled.

## 2. Modules

Each module's header says what it simplifies.

### JobQueue
One row per job; a *kind* is a job type with the flags the queue and the
reconciliation look at. `Submit` covers `submit`, `_dedup_probe` and the insert;
the caller's `_pump` is a separate step (`pumps` counts threads between the two,
queue.py:113-165). The worker goes through `load` (config read), `body`/`mid`
(the handler, in front of and behind its changes to the rows that own a root),
`ended` (outcome known) and `finished` (row written, slot not yet released).
`Halt` kills the process at any step; `Restart` and the reconciliation steps
start the next one, perhaps of a build without some job type.

### JobStream and JobWatch
What the worker of JobQueue broadcasts, from the subscriber's bounded queue
(`stream`) to the two clients. The row is written before the event and the event
before the end marker (`Finish`, `Tell`, `Close`), and any of them can be dropped
by a full queue (`Push`); `Heartbeat` is the re-check of the row that server.py
makes when nothing has come. `JobWatch` is the abstract specification: a watcher
reports the status the job ended with, and is not left waiting. JobStream
implements it under the refinement mapping `Promise`, checked as a property of
the run, liveness included.

### DaemonHandover
Several daemon processes over one port, one token file and one jobs table, each
with at most one handler at work, and clients that use, stop and restart them.
A stopping daemon closes its socket (`Close`) before its worker is signalled and
joined (`OnStop`), as uvicorn's shutdown hooks do. JobQueue looks at one of
these processes from inside; its `Halt` and restart are this module's `Crash`
and `Bind`.

### DedupReview and NearDup
DedupReview is one root's review through stages 1 to 3. The database (`rows`,
`fate`, `run`, `plan`, `surv`) and the file system (`live`, `lnk`, `dir`) change
in separate steps, in the order of `_stage_shortcuts`, `_confirm`,
`_apply_stage`, `_advance` and `_finalize`. The user's edits of a folder, files
vanishing, cancels, exceptions and kills are actions of their own. Where a
behaviour starts and what may go wrong in it is the record `lib`, chosen once.

NearDup fills in what DedupReview takes as given: the comparison of targets with
the pool row by row, the stage's band, the depth-first search of the clusters
(`StartComponent`, `Visit`, `EndComponent`), the lead with its reason, and the
figures, over a run whose thresholds can be edited between two of its stages.
`Stage` is `_stage_and_pause` with `_materialize`: `groups` are the groups
planned, `listed` the members that got a row. A member whose file has vanished is
forgotten, one whose shortcut cannot be written is dropped, a stage left without
rows is passed over (`NextStage`), and figures and `--keep-suggested` see the rows
only. `loaded` is the pool as the planning job read it, `present` the catalog as it
stands. Each content has one file, and no scan runs between two jobs of the run.

### MergeRun
One destination and its run. The handler's phases follow merge.py in order: trash
refresh, destination scan, open or resume the run, hash, classify, then per item
choose a name, copy, verify, `os.replace`, mark copied, register. The user edits
the source, drops trash and moves files in the destination meanwhile. `setting`
is chosen once, like `lib`.

### RootScan
A pass of `scan` or `probe` over one root or all, and the user's writes, renames,
copies and removals at any moment of it. `List` reads one directory and may fail
for all or for one entry (`walk.suppressed`); `Plan` is the fast path and
`Moves` the relinking of `plan_moves`; each worker then looks a file up and
persists it in two steps (scan.py:410-441), with the read in the first, so that
two workers can meet the same bytes and a file can be replaced under them;
deletion detection and the problem report follow. Row numbers are given as
SQLite gives them without AUTOINCREMENT. Dedup, merge and cleanup appear by what
they do to the catalog between two passes.

### PhotoPipeline
The threads of `_run_photo_pipeline`: readers take candidates, reserve bytes,
queue buffers; workers look the content up without a lock, decode, and write in
one transaction; the handler's thread drains one result per file and alone sees
a cancel. The timeout of `get` and the question whether anybody still reads are
two steps (scan.py:836-838). RootScan's workers are this pipeline without its
queues.

### TrashMemory
Trash refresh, cleanup and untrash over the same assets: `Absorb` records and
`Empty` deletes; `Recycle` and `Record` are the two halves of `_delete_one`; a
cleanup review keeps the exact matches chosen at analyze (`PersistExact`) and the
shortcuts offered beside them, while untrash, scans of either root and the user
go on.

### FrontDesk
The commands of cli/main.py and the verbs of the terminal interface: what is
refused, which job is submitted, what is counted and shown, what the answer
submits and with which exit code the command ends. A job acts in one step at its
end on `store`; the dispatch on its parameters (`DedupLeaf`, `CleanupLeaf`) is
that of the two handlers. `seen` and `fresh` record what the user was shown and
whether anybody's job has changed the catalog since it was read. The interface
acts on pages: `cards` is what the job rows said of their reviews when they were
fetched, `box` the root's detail, and any number of jobs may land before the next
`FetchCards` or `FetchBox`. A card keeps the row it was opened with, so opening it
and pressing a key are one step. A file of `Stuck` may fail to be recycled in a job
that lands done. The user removes no library file himself here.

### QueueScreen
The queue panel over the daemon's table: two fetching threads whose SELECTs are
separate steps (`ReadLive`), the history page, the cursor and the windows under a
resize, and the questions behind the keys. `left`, from `Plans`, says how often
each key may be pressed.

### Proof modules
JobQueueProofs, DaemonHandoverProofs, JobStreamProofs, PhotoPipelineProofs,
DedupReviewProofs, MergeRunProofs, RootScanProofs and TrashMemoryProofs hold the
theorems of section 4, each about the module it is named after and three of them
about a neighbour too: DedupReviewProofs about NearDup, JobStreamProofs about
QueueScreen, DaemonHandoverProofs about FrontDesk. A module that shares its proofs
has names of its own for what every module has (`NearInit`, `ScreenNext`,
`DeskSpec`).

**Composition.** Where modules meet, one takes the other's guarantee as its
assumption. DedupReview, MergeRun, RootScan and TrashMemory run one job at a time
because of `OwnerRunsAlone` and the invariant `OneRunning` behind it, and see no
foreign review or merge on their root for the same reason; both are proved of
JobQueue for one process, and `OneWorker`, proved too, says when they carry over
to several. MergeRun takes the destination scan as one step because RootScan
answers for what a pass leaves, TrashMemory likewise. FrontDesk takes a job as
one step because the others take jobs apart.

## 3. Runs

| Run | Instance, and why it is enough |
|---|---|
| `jobqueue` | One root, two jobs of six kinds, two daemon starts, one priority raise. Any two owners meet in either order, before and after a crash, one of a kind an upgrade removes. Larger sizes are covered by the proofs. |
| `dedup_reviews` | Two libraries of four files, four jobs (an analyze and a confirm per stage). `Mixed` has work in all three stages, a shortcut that fails, a file that cannot be recycled and one that vanishes. `Copies3` has three copies of one content, one in another root, and a look-alike; one kill, cancel, exception and vanished file, anywhere, also between the look for a survivor and the deletions. Three copies are the fewest where the planned survivor can vanish and a substitute be chosen. |
| `dedup_swept` | Expected violation, section 5. |
| `merges` | `Resumed`: two source files, one at an ignored path, a kill, a cancel, a source edit and a destination move; two files give every pair of progress states at the kill. `Collided`: three files, twins, names taken by other and by the same bytes, an exception, a cancel, trash arriving. `MaxSuffix = 3`: two collisions and a free name. |
| `handover_races` | Two clients, three processes, one kill, one stop or restart: the predecessor, its successor, and the loser of the race. |
| `pipeline_threads` | Two readers, two workers, three photos of which two are identical and one exceeds the budget; one failure and one cancel. Two threads of a kind are enough for each to overtake the other. |
| `scan_passes` | Two roots, one with a subdirectory, three files, one of them streamed, two contents of one size, one undecodable; two passes and two events (writes, renames, copies, failing reads, other jobs, kills). Two passes and two events are an earlier pass that left something wrong and a later one that must repair it. |
| `trash_memory` | Two files of the cleaned root that resemble each other, an undecodable one in another root, a trash folder for one; four jobs, three events, one kill: an analyze, an untrash or a scan behind it, the confirm and a last job that looks. |
| `stream` | Two jobs, the command that submitted one of them and a feed of the interface, queues of one event: the least at which progress, the outcome and the end marker can each find a queue full, and the feed can be overtaken by the next job. |
| `desk` | One command line with seven kinds of command, the interface, two files of which one may fail to be recycled, three jobs, one mishap. Three jobs are a preview, somebody's job behind it, and the apply. |
| `queue_screen` | Two jobs, five sessions of keys, a window of one row and one of two. |
| `near_duplicates` | Four photos on a line of hashes, three equal ones of every rank, side and preference, two videos of three frames; four photos in a chain of which one may have no file, up to two may vanish and up to two may get no shortcut; two configurations. Four points are the fewest where a component is not a neighbourhood of one member, and leave groups without a lead, of one side and of one member. |

Each passing run checks the properties listed for it in PROJECT.json, and every
one of them has a mutant there: a definition of the model changed the way a slip
in the code would change it, under which TLC finds the property violated by the
same configuration. The operators marked *mutant* in the modules serve only this.

**What they show.** Besides the type invariant of JobQueue:

- queue: `NoLostWakeup`, `OwnerRunsAlone`, `ApplyIsAttended`, and `BacklogDrains`
  for a daemon that stays up;
- reviews: `UserDecides`, `StageOneSparesACopy`, `RollbackSparesCommitted`,
  `DiscardsAreRemembered`, `DeletesCountedOnce`;
- near duplicates: `GroupsAreComponents`, `LeadIsMaster`, `FiguresAddUp`,
  `PairsShownOnce`;
- merges: `CatalogTruth`, `OneCopyEach`, `CopiesLandSafely`,
  `DoneMeansCatalogued`, and `RunCloses` for a user who runs merge again;
- daemons: `OneWorker`, `NoGhost`, `RestartReplaces`, `ClientsConverge`;
- pipeline: `OneResultEach`, `BudgetHeld`, `EndsUnlessDeserted`;
- scan: `CatchesUp`, `KeepsWhatStayed`, `ReportIsCurrent`;
- trash memory: `RecyclesOnlyCondemned`, `DiscardsRemembered`,
  `OrphansOnlyByUntrash`;
- stream: `StreamsEnd`, and the refinement `KeepsPromise`;
- front desk: `CountIsHonoured`, `StageIsHonoured`, `ExitTellsTruth`;
- queue panel: `LiveNeverTwice`, `CancelsTheNamed`, `LiveCatchesUp`.

Several of them carry an exception. It is always a case that breaks the stronger
statement in the code, and section 5 names it.

**Bounds.** `MaxJobs`, `MaxEpoch`, `MaxPrio`, `MaxFaults`, `MaxCommands`,
`MaxCrashes`, `MaxStops`, `MaxSuffix`, `MaxPasses`, `MaxEvents`, `MaxMishaps`,
`MaxProgress` and the counts in `Libraries`, `Settings` and `Plans` stop counters
in guards and have no counterpart in the code; `Feeds` and `Loads` bound how many
threads of the interface are alive together. `Cap` stands for the 1000 events of
a subscriber's queue. CHECK_DEADLOCK is off where such a bound, or the last job,
really ends the behaviour. The workers of `scan_passes` are symmetric; its
properties are safety properties.

**Fairness.** Only what threads and processes do by themselves is fair.
`BacklogDrains`: the threads that pump and the worker. `RunCloses`: the worker,
and strong fairness of starting a merge, since it is about a user who runs merge
again. `ClientsConverge`: processes proceed through start and shutdown and
clients through their commands, which nobody is forced to issue.
`EndsUnlessDeserted`: the operating system schedules every thread. `StreamsEnd`
and `KeepsPromise`: the worker, the server's loop (of which the heartbeat is a
timer) and the command; nobody has to poll, cancel or press Ctrl-C.
`LiveCatchesUp`: the poll timer and the threads it starts. Failures, kills,
cancels and keys are never fair.

## 4. What is proved

`JobQueueProofs` proves, for any set of roots and kinds and any number of jobs,
daemon starts and priority raises, from `JobQueueAssumption` alone:

- `TypeCorrect`: `TypeOK`;
- `Safety`: the inductive invariant `IInv`, and from it `OneRunningHolds`,
  `OwnerRunsAloneHolds`, `ApplyIsAttendedHolds`, `NoLostWakeupHolds`,
  `OneQueuedProbeHolds`;
- `TerminalIsFinalHolds` and `RollbackSparesFinishedHolds`, about steps.

The argument. `OneRunning` is not inductive: a pump may start a job as soon as
the slot is empty, so `SlotInv` ties the slot and the worker's place to the
table (a running row is the slot's, and its worker has not landed it).
`OwnerRunsAlone` must survive a review being opened by a handler at work, which
needs that nobody else is at work, and must hold for the rows the
reconciliation inspects, which is `StaleInv`: an interrupted owner still to be
examined is the only possible opener of what its root holds. `ApplyIsAttended`
follows from `BacklogAttended`, the same of queued rows: reconciliation sets
them aside before the first pump. Each action has its step in `NextType`,
`NextSlot`, `NextGate`, `NextProbe`, `NextAttended`, `NextWakeup`;
`HandlerFrame`, `PumpFrame` and `RowLife` say once what a handler, a pump and a
row's status can change. TLC agrees with `IInv` on the instance of `jobqueue`.

`DaemonHandoverProofs` proves, for any clients and jobs and any number of
processes, commands, kills and stops, from `HandoverAssumption` alone:
`TypeCorrect`, `OneWorkerHolds`, `NoGhostHolds`, `RefusedOnlyByAnotherHolds`,
`RestartReplacesHolds`. The argument has two parts.

- `WorkerInv`. The type invariant already says that the port is a lock from the
  bind to the close. Without an overlap it says more (`AloneInv`): only one
  process is past the bind at all, wind-down included, so its worker is the only
  one (`WorkInv`: no worker runs before the reconciliation), and the row it takes is the
  only running one (`RowInv`), because reconciliation cleared the others before.
- `SessionInv`. Processes only move forward (`Onward`): one that has served never
  takes the port again. Who answers has its token on file (`FileInv`), so a
  token read after the sighting is that of the daemon seen, or that daemon is
  off the port for good (`Seen`); and a daemon a restart stopped is off the port
  once the client's wait is over (`Shut`). `Bystander` carries both through the
  steps of everybody else.

Of FrontDesk it proves, for any shells, commands, menus, files and number of jobs
and mishaps, any file that fails to be recycled and pages of any age, from `DeskAssumption` alone: `ExitTellsTruthHolds`,
`CountIsHonouredHolds`, `StageIsHonouredHolds`. `DeskInv` says of every front end
and of every job what the answer was given on (`AskRight`, `JobRight`): while it is
fresh, the count that was shown is what matches now (`Announced`), and the stage
that was shown is the one pending (`Named`). A count is carried by the order to
apply it, a stage by no order, so the second rests on more: a card knows a run by
its number, so `KindOfRun` and `NewestRun` say that a number stands for one kind
of review and that what is pending is the newest run, and `CardsRight` and `BoxRight`
that a page on which nothing has landed since still tells what is pending. `Told` keeps a command's job
in the table and ended once its stream is over, up to a daemon that was stopped.
A change of the catalog either ages what was shown or leaves what it was computed
from alone (`AgedDesk`, `AgedJob`); `Landing` puts that together for a job that
ends and for a restart, and `OnlyFinishSucceeds` says that no other step ends a
job well.

`JobStreamProofs` proves, for any jobs and feeds, any queue length and any number
of progress events, from `StreamAssumption` alone: `TypeCorrect`, and
`Refinement`, that the stream's initial state is one of JobWatch and every step
a step of JobWatch or a stutter; what is left of `KeepsPromise` is its fairness.
The argument: a report made from the row could still be made too early, by a
command that stops watching a live job. So `IInv` says that what waits in the
command's queue is already true of the row (`View`, `Told`), because the worker
writes the row before it tells (`WorkerTruth`), and that the command stops only
after such an event, the end of its stream or a stop (`CliTruth`); a status once
terminal stays (`OutcomeKept`). A dropped event only makes the queue say less.
`CommandKept` carries this through the steps, `NextPromise` reads the abstract
step off it. TLC agrees with `IInv` for two jobs and queues of two events.

Of QueueScreen it proves, for any number of jobs, history threads, windows and
sessions of keys, from `ScreenAssumption` alone: `LiveNeverTwiceHolds` and
`CancelsTheNamedHolds`. What is on screen is only as good as what a thread was about
to apply, so `ScreenInv` follows a fetch from its first statement: a job it saw
running is still running or over (`Sound`), because a row never goes back to the
queue (`StatusMovesOn`), and hence is not among the rows the second statement lists
as queued (`BacklogIsQueued`). The order of the two statements carries it: a fetch
that read the backlog first would show a job that started in between twice. The
history threads share the table of threads and never touch the polls'
(`FetchingLeavesPolls`). `CancelsTheNamed` needs no invariant: only the answer
writes `cancelled`, and it names the job the question was opened for.

`PhotoPipelineProofs` proves, for any readers, workers, photos and sizes, from
`PipelineAssumption` alone: `TypeCorrect`, `OneResultEachHolds`,
`BudgetHeldHolds`, `NewOnceHolds`. The heart is `OnePlace`: each file is in
exactly one of the candidates, one thread's hands, one place of one queue, or the
results drained, and the cardinalities of these places add up to the total. So a
file's bytes are reserved once and given back once, which keeps `BudgetHeld`.
`NewInv` says that a content reported new is an asset by then: of workers that
looked it up before it had a row, the transaction lets one create it.

`DedupReviewProofs` proves, for any library, files and number of jobs, from
`DedupAssumption` alone: `UserDecidesHolds`, `StageOneSparesACopyHolds`,
`RollbackSparesCommittedHolds`, `DiscardsAreRememberedHolds`,
`DeletesCountedOnceHolds`. Its `IInv` has six parts: `Typed`; `Flow`, which run
status and stage each place of a job goes with; `Spares`, that the survivor of a
content is never among the files that stage 1 lets go, and that beside the files
of a content being recycled there is another that lives or vanished after it was
looked for (`slipped`); `Decided`, that the folder
and the plan agree as long as no daemon died, and what is to be recycled is what
the folder condemned; `Counts`, that every file recycled is reported, counted or
in hand; and `Discards`, that only the file in hand is recycled and still has a
row, and that a content recycled to its last row is trash memory.
`RollbackSparesCommitted` follows from `Flow`: an analyze at work has spent
nothing.

Of NearDup it proves, for any collections, thresholds and knobs, from
`VideoAssumption`, `CollectionAssumption` and `ThresholdAssumption`:
`GroupsAreComponentsHolds`, `LeadIsMasterHolds`, `FiguresAddUpHolds`,
`PairsShownOnceHolds`. `NearInv` says what the loops have done so far. `PairsRight`:
the pairs found are those of the targets compared, each at its distance, whichever
end found it. `Searched`: what the search has reached is inside every closed set
that holds its start, and what it left behind has all its neighbours reached; so a
component is closed and nothing smaller is (`Component`), and components are
disjoint. `ShownOnce` and `ShownAll`: each pair's stage is a function of its
distance and the run's thresholds, and of a pair of `Sound` files (they have a file
and get their shortcut) one has vanished if the stage did not show it. The lead is the greatest under an ordering
shown to be strict and total, and exists in a finite group (`Greatest`); the order
of the rows is any that `SortExists` allows. The figures follow by summing over the
groups: a group adds its other rows and, if the lead has a row, one lead; every
group has a target, so one in neither count of the make-up lost a member of the
root; and the thirds of a span cover it without overlap.

`MergeRunProofs` proves, for any source, destination and settings, from
`MergeAssumption` alone: `CatalogTruthHolds`, `OneCopyEachHolds`,
`CopiesLandSafelyHolds`, `DoneMeansCataloguedHolds`. `Course` says which
classes and progress an item can have at every place of the handler, across
kills; `Truth` that rows are what lies at their path, that the chosen name is
free and an item marked copied lies under its name; `Account` what has become of
each content of the plan; `Single` where the copies of a content still to be
copied can be: nowhere, or in hand. The attempt changed two
statements: `OneCopyEach` holds until the gap of section 5 opens (`GapClosed`),
which a second exception opens too, and `DoneMeansCatalogued` has one more
exception, given there.

`RootScanProofs` proves, for any roots, directory trees, files, contents, workers
and bounds, from `RootAssumption` alone: `KeepsWhatStayedHolds`,
`CatchesUpHolds`, `ReportIsCurrentHolds`. The invariant follows a file through a
pass. While directories are open, a file that stayed is found, or below an open
directory or one that could not be read (`Covered`, `Stays`), because below each
ancestor is the next one down (`NextDown`); in an undisturbed root the walk knows
exactly what is there (`Exact`). Then it is left for a worker, in a worker's
hands, or settled (`Caught`), and what is left for deletion detection was not
found (`Sorted`). That rows, prints and what workers hold are true of their
contents is `Truth`, up to a deception; `Holds` says that a worker's lookup can
only have been overtaken by a print that is complete. A root once finished
quietly stays mirrored until the report (`Quieted`). The first attempt failed
because `CatchesUp` was false: section 5 gives the relink TLC then found.

`TrashMemoryProofs` proves, for any files, contents and bounds, from
`TrashAssumption` alone: `OrphansOnlyByUntrashHolds`, `DiscardsRememberedHolds`,
`RecyclesOnlyCondemnedHolds`. `Truthful` says that a noted action names the row it
was read from until a row number is reused, `Sentenced` why each file about to be
recycled may be, and `Books` adds to `OrphansOnlyByUntrash` and the memory of what
was discarded the file recycled and not yet recorded.

What the assumptions ask of the constants is what the code ensures: finite sets,
types, `Nothing` apart from the rest, and for RootScan a directory tree in which
roots do not nest (roots.py:80-88).

TLC agrees with each `IInv` on an instance of its module.

Induction over finite sets, which FiniteSetTheorems offers for a predicate only, is
used here in the form the provers can cite: over a set `Good` of good subsets
(`SetInduction`), by the least counterexample that a well-founded ordering has
(`WFMin`).

Model-checked only: liveness (`BacklogDrains`, `RunCloses`, `ClientsConverge`,
`EndsUnlessDeserted`, `StreamsEnd`, `LiveCatchesUp`, and the fairness of
`KeepsPromise`; the prover has no rule for it). Every invariant and every action
property of a passing run is the statement of a theorem.

## 5. Where code and documentation disagree

One disagreement has a run, expected to be violated:

- `dedup_swept`, `UserAlwaysDecides` (dedup.py:310). The shortcuts of a
  default-KEEP stage are removed one by one before the stage is marked applied.
  Killed midway, the folder is still there, and the next confirm reads the
  shortcuts that are gone as the user's wish to delete. It recycles files the
  user kept.

The others have none; they were found by TLC on variants of the listed
configurations. Names in brackets are defined in the module and refuted as they
stand; an instance made for one of them is named with it.

Queue, daemon and stream:

- `[CancelIsTruthful]` (queue.py:359): a cancel that arrives after the handler's
  last checkpoint returns True, and the job lands done.
- `[RunningIsStale]` (server.py:670; architecture.md:104-105): a stopping daemon
  gives up its port before its worker; the next one finds the running row of a
  job that still runs and declares it interrupted. `OneWorker` and `NoGhost`
  assume that no daemon starts while its predecessor winds down.
- `[KillSparesHealthy]` (cli/main.py:121): a client reads the token before
  /health; a daemon that comes up in between refuses it and is killed as an
  orphan.
- `[OneFeed]` (app.py:307-313): asking for a stream and its thread setting the
  flag are apart, so one job can be followed twice.
- A command that watches its job while the daemon is being stopped gets the end
  marker, reads `running` from the row and exits with 0 (main.py:930-938); hence
  the release of JobWatch once the daemon is going. A client gone before the
  stream's first look at the row leaves its subscriber on the list
  (server.py:263-272).

Reviews:

- `[LastCopyAlwaysSpared]` (dedup.py:917-938; `Copies3Calm`): the survivor of a
  content is looked for once, then its condemned copies go one by one.
  operation-dedup.md:321-326 says that "for each file [...] at the moment of deletion"
  it is verified, which "guarantees an asset never loses its last copy". If the
  survivor vanishes in between, the last copy is recycled. `StageOneSparesACopy`
  counts a copy that vanished after the look as spared.
- `[SplitSumsToMixed]` (dedup.py:733-736, 766-770): the suggested copy may have
  vanished or get no shortcut, and a fresh mixed group is in neither count of the
  split. review_stats.py:203-205: "a mixed group always has a suggested lead and
  these two counts sum to `mixed`". Likewise a group can be left with external rows
  only, which review_stats.py:195-196 calls unreachable, or with one row.
- `[KeepFigureIsKept]` (dedup.py:892-896): `--keep-suggested` spares a group without
  a lead; review_stats.py:215 counts its rows: "--keep-suggested deletes every
  non-lead member". It does not look whether the lead still lives.
- `[HistogramComplete]` (dedup.py:487-508): the stages are planned with the
  thresholds of the day and the bins keep those of the run's start, and rows fall
  between the bins. dedup.py:220-223 says that stages and bins derive from the
  latter, "so a later config edit can't retroactively rewrite an old run's bands".
- A cancel or clean stop while an analyze stages its files leaves the pending run
  with half a folder: the row is not `running`, so no rollback looks at it
  (dedup.py:731, architecture.md:123-127).
- A crash while the first non-empty stage is 2 or 3 is not rolled back either:
  reconcile.py:154 takes a stage above 1 for a confirmed one.
- Killed after the folder is removed and before the stage is marked (dedup.py:310),
  every later confirm is refused for the missing folder.
- `DiscardsAreRemembered` with a kill or an exception (dedup.py:972): a file
  recycled before its row and trash memory are written is unknown to both.
- `DeletesCountedOnce` with a kill, an exception or a cancel (dedup.py:311): the
  tally of an interrupted confirm is lost. It never counts twice.
- A near pair of which one got no shortcut is not shown, and the run that ends marks
  the root as compared all the same (dedup.py:766-770, 1004-1020); the comment says
  it "re-surfaces on a later dedup run". `PairsShownOnce` excepts it.
- The bands of `_log_band` (dedup_rank.py:215-226) can part two values that are
  within the tie percentage of each other, when they lie at a band's edge.

Merge:

- `OneCopyEach` with a kill (merge.py:406-408): killed between the rename and the
  row that records it, after a name collision, the resume copies the file again
  under the next suffix; the notes say the gap is closed. An exception there, followed
  by a cancel or by a second exception (a destination scan that fails), does the
  same.
- `DoneMeansCatalogued` without its exception (scan.py:406-407): a content the
  library had when it was classified is skipped; if the user then removes its
  last file and a copy takes that name, the asset is forgotten, and the run closes
  with the content in no root.
- On a resume, classes decided before the crash are replayed (merge.py:160);
  trash that arrived since comes back in.
- A file the user adds under the chosen name during the copy is overwritten
  (merge.py:406).
- `[DoneCoversItsSource]` (merge.py:134): a merge of one folder resumes the open
  run of another and reports success.
- `[CancelDiscards]` (merge.py:318): queue.py:264 says a cancel discards the
  plan; it stays open and holds the root.

Scan:

- `[PipelineEnds]` (scan.py:838; comments at 801-803 and 837): the workers look
  for live readers after their timeout. The last file may be queued in between;
  if all workers leave, the scan waits for ever, also for a cancel.
  `EndsUnlessDeserted` excludes that loss.
- `[QuietPassMirrorsDisk]` (scan.py:514): the content is looked up outside the
  transaction that writes the row, so an asset forgotten in between, its number
  reused, takes the file; and a file replaced between its stat and its read, then
  put back, is on the fast path with the wrong content. The latter needs no
  putting back: if the first version lies as a copy in a place the walk did not
  see, and the file goes, `plan_moves` (scan.py:278) relinks the copy, by name,
  size and stamp, to the row of the second version's content. `CatchesUp` excepts
  the three.
- `[GreenMeansCompared]` (scan.py:433; tokens.py:176, dedup.py:213): the green dot
  does not say that everything in the root was compared: new content
  marks the root it is first found in, and a copy in another root, an exact
  duplicate by then, marks nothing, though that root never compared it.
- A scan's stop leaves a worker in a long decode at work beyond the ten seconds
  it is given (scan.py:869); it then writes after the pipeline has returned.
- The docstring of `enumerate_root` (scan.py:133-135) speaks of ignored folders;
  a file-level ignore drops the row of a file that is still there.

Trash memory:

- `[NoOrphan]` (cleanup.py:442; _dbops.py:4-5): an untrash during an open cleanup
  review leaves an active asset without a file after the confirm, and a merge then
  takes the content for one the library has.
- A kill between recycle and record, or a copy that vanishes by itself, leaves a
  condemned content unknown; a row number reused while the review is open sends
  `delete_instance` to another file's row.

Front ends:

- `[CardKnowsItsStage]` (queuemax.py:241-244, rootdetail.py:350-352; `MCConfirms`): a
  card holds the row as its page was fetched (queries.py:649-654, 690-692), which is
  fetched again only when the live jobs have changed at a poll (queuemax.py:106-112).
  It offers to confirm a stage that the command line has confirmed since, and the
  confirmation applies the next one. jobcard.py:53-55: "a stale analyze/confirm card
  never offers actions for a stage that was already confirmed or a run that
  finished". `StageIsHonoured` speaks of pages on which nothing has landed since.
- `[DryRunDeletesNothing]` (dedup.py:86, cleanup.py:88; help at cli/main.py:559,
  639; `MCDryCommands`): `--confirm --dry-run` deletes.
- The count a user approves is not what the apply deletes once another job ran
  between (queries.py:438-441); `CountIsHonoured` speaks of an undisturbed wait. A
  file that cannot be recycled is logged and stays, and the job lands done with
  fewer files than were counted (cleanup.py:628-631); `CountIsHonoured` allows for
  those.
  The interface counts also after a preview that was cancelled, failed or whose
  stream dropped (rootdetail.py:510-541), the command line does not.
- `[HistoryCatchesUp]` (queuemax.py:70-76): a job that passes from queued to ended
  between two fetches leaves the history page behind.
- app.py:270 "a slow stats poll never clobbers a fresher live fetch": it does, and
  the next poll repairs it (`LiveCatchesUp`).
- Under a question the list is not drawn anew; after "no", a priority raise can
  meet a job that is not shown. `cancel all` drops what is queued by then, not the
  number in the question, and a cancel that failed is toasted as submitted
  (app.py:569-572). The window of the backlog is not clamped when its header is
  (screens/queue.py:118-124).

## 6. Limits

The hash of a file is its content, so collisions are out. Network roots are out;
time stamps are distinct or equal, further apart than the fast path's tolerance.
Each review model has one root under review; several reviews at once meet only in
JobQueue and FrontDesk. The distance between two prints, which content matches
which, and which paths an ignore set covers are inputs. `dedup_reviews` leaves one
external copy. QueueScreen keeps the number of finished jobs and not their rows.

## 7. Not modelled

`media.py`: native decoders and hashes; a hash is its content and a print the
pixels it was made from. Configuration, paths, shortcuts, profiling: parsing, path
arithmetic, COM calls and timing, whose failures appear as failing steps. Of
`roots.py`, registering and removing roots: done by hand with nothing running, one
transaction each. Of `db/`: migration, backup and the connection lock, which makes
each transaction one step. The build stamp only reports. Of the front ends: the
listings and configuration commands, the smoke test, and the frames that only
draw. Log rotation, the state file and the read-only routes of the daemon.

## 8. Plan

Modelling is as complete as the components above allow, and every safety property
a run checks is proved. What is left is outside the reach of both tools as they
are used here: the liveness properties for every value of the constants, and the
hazards whose note in PROJECT.json says that no property covers them.
