---------------------------- MODULE TrashMemory -----------------------------
(***************************************************************************)
(* The trash memory: contents the user never wants to see again.  Trash    *)
(* refresh (trash.py) records what lies in a trash folder and empties it,  *)
(* cleanup (jobs/cleanup.py) finds the same or a similar content in a      *)
(* library root and recycles it, at once or after a review of shortcuts,   *)
(* and untrash (jobs/untrash.py) takes a content out of the memory again.  *)
(*                                                                         *)
(* Abstractions.  An asset is its content hash.  A scan is one step        *)
(* (RootScan looks inside); one job runs at a time and a pending review    *)
(* holds its root (JobQueue).  What the metric matches is the constant     *)
(* Similar.  Audit files, manifests and backups are left out.              *)
(***************************************************************************)
EXTENDS Naturals, FiniteSets, FiniteSetsExt, Sequences, SequencesExt

CONSTANTS
  Lib,       \* files of the library root that is cleaned
  Other,     \* files of another library root
  Bin,       \* files of the trash folder
  Content,
  Similar,   \* pairs of contents within t_photo_edit of each other
  Broken,    \* contents no decoder accepts
  Nothing,
  InitDisk,  \* [Lib \cup Other -> Content or Nothing], catalogued; the trash is empty
  MaxJobs, MaxEvents, MaxCrashes     \* bounds

\* Registered folders do not overlap (roots.py:75-90), and hold finitely many files.
ASSUME TrashAssumption ==
  /\ IsFiniteSet(Lib) /\ IsFiniteSet(Other)
  /\ Lib \cap Other = {} /\ (Lib \cup Other) \cap Bin = {}
  /\ Similar \subseteq Content \X Content /\ Broken \subseteq Content
  /\ InitDisk \in [Lib \cup Other -> Content \cup {Nothing}]
  /\ Nothing \notin Content \cup [id : Nat, content : Content]
  /\ Nothing \notin [path : Bin, content : Content]
  /\ Nothing \notin [kind : {"exact", "undecodable", "perceptual"}, path : Lib, id : Nat,
                       content : Content]
  /\ MaxJobs \in Nat /\ MaxEvents \in Nat /\ MaxCrashes \in Nat

VARIABLES
  disk,     \* [File -> Content or Nothing]
  row,      \* file_instances: [Lib \cup Other -> [id, content] or Nothing]
  asset,    \* [Content -> "none", "active" or "trashed"]
  run,      \* the root's last cleanup review: status and review_actions
  stage,    \* its staging folder: whether it is there, and the shortcuts in it
  job,      \* the job that holds the worker slot
  budget,
  ghost     \* for the properties only

vars == <<disk, row, asset, run, stage, job, budget, ghost>>

File  == Lib \cup Other \cup Bin
Paths == Lib \cup Other

RowsOf(rows, c)  == {p \in Paths : rows[p] # Nothing /\ rows[p].content = c}
Ids(rows)        == {rows[p].id : p \in {q \in Paths : rows[q] # Nothing}}
Pending          == run.status = "pending"
Idle             == job.kind = "none"

Action(kind, p) == [kind |-> kind, path |-> p, id |-> row[p].id, content |-> row[p].content]

\* delete_instance goes by rowid, whoever has it now.
WithoutId(rows, id) ==
  [p \in Paths |-> IF rows[p] # Nothing /\ rows[p].id = id THEN Nothing ELSE rows[p]]

\* (mutant) a file that is gone never takes its asset along
ForgetNever(as, rows, cs) == as

\* forget_if_orphaned
Forget(as, rows, cs) ==
  [c \in Content |->
     IF c \in cs /\ as[c] = "active" /\ RowsOf(rows, c) = {} THEN "none" ELSE as[c]]

(***************************************************************************)
(* What cleanup looks for in its root                                      *)
(***************************************************************************)
InLib(Wanted) == {p \in Lib : row[p] # Nothing /\ row[p].content \in Wanted}

ExactMatches ==
  {Action("exact", p) : p \in InLib({c \in Content : asset[c] = "trashed"})}

Undecodables ==
  {Action("undecodable", p) : p \in InLib({c \in Broken : asset[c] = "active"})}

Candidates ==
  LET Trash     == {t \in Content : asset[t] = "trashed"}
      Resembles == {c \in Content \ Broken : /\ asset[c] = "active"
                                             /\ \E t \in Trash : <<c, t>> \in Similar}
  IN {Action("perceptual", p) : p \in InLib(Resembles)}

\* An exact match is trash already; the other deletions make it so.
MarksTrash(a) == a.kind # "exact"

(***************************************************************************)
(* Initial state                                                           *)
(***************************************************************************)
NoJob   == [kind |-> "none", at |-> "idle", todo |-> {}, done |-> {}, exact |-> {},
            hold |-> Nothing]
NoRun   == [status |-> "none", actions |-> {}]
NoStage == [made |-> FALSE, links |-> {}]
NoGhost == [offered |-> {}, spared |-> {}, condemned |-> {}, lapsed |-> {},
            untrashed |-> {}, reused |-> FALSE]

\* Rows for the files of S, with ids after all those in use.
Numbered(rows, S) ==
  LET order == SetToSeq(S)
      Rank(p) == CHOOSE n \in DOMAIN order : order[n] = p
      top == Max({0} \cup Ids(rows))
  IN [p \in Paths |-> IF p \in S THEN [id |-> top + Rank(p), content |-> disk[p]] ELSE rows[p]]

Init ==
  /\ disk = [p \in File |-> IF p \in Bin THEN Nothing ELSE InitDisk[p]]
  /\ row = Numbered([p \in Paths |-> Nothing], {p \in Paths : disk[p] # Nothing})
  /\ asset = [c \in Content |-> IF RowsOf(row, c) = {} THEN "none" ELSE "active"]
  /\ run = NoRun /\ stage = NoStage /\ job = NoJob
  /\ budget = [jobs |-> 0, events |-> 0, crashes |-> 0]
  /\ ghost = NoGhost

(***************************************************************************)
(* The user                                                                *)
(***************************************************************************)
Event == budget.events < MaxEvents /\ budget' = [budget EXCEPT !.events = @ + 1]

Lapse(cs) == ghost' = [ghost EXCEPT !.lapsed = @ \cup cs]

Add(p, c) ==
  /\ disk[p] = Nothing
  /\ disk' = [disk EXCEPT ![p] = c]
  /\ UNCHANGED <<stage, ghost>>

Vanish(p) ==
  /\ disk[p] # Nothing
  /\ disk' = [disk EXCEPT ![p] = Nothing]
  /\ Lapse(IF p \in Paths /\ row[p] # Nothing THEN {row[p].content} ELSE {})
  /\ UNCHANGED stage

\* A confirm reads the folder when it starts.
Spare(ps) ==
  ghost' = IF job.kind = "confirm" THEN ghost ELSE [ghost EXCEPT !.spared = @ \cup ps]

Untick(p) ==
  /\ p \in stage.links
  /\ stage' = [stage EXCEPT !.links = @ \ {p}]
  /\ Spare({p})
  /\ UNCHANGED disk

DropFolder ==
  /\ stage.made
  /\ stage' = NoStage
  /\ Spare(stage.links)
  /\ UNCHANGED disk

User ==
  /\ \/ \E p \in File : Vanish(p) \/ \E c \in Content : Add(p, c)
     \/ DropFolder \/ \E p \in Lib : Untick(p)
  /\ Event
  /\ UNCHANGED <<row, asset, run, job>>

(***************************************************************************)
(* Scans, as one step                                                      *)
(***************************************************************************)
Scan(S) ==
  LET here   == {p \in S : disk[p] # Nothing}
      edited == [p \in Paths |-> IF p \in here /\ row[p] # Nothing
                                 THEN [row[p] EXCEPT !.content = disk[p]] ELSE row[p]]
      added  == Numbered(edited, {p \in here : row[p] = Nothing})
      rows   == [p \in Paths |-> IF p \in S \ here THEN Nothing ELSE added[p]]
      as     == [c \in Content |-> IF asset[c] = "none" /\ \E p \in here : disk[p] = c
                                   THEN "active" ELSE asset[c]]
  IN /\ Idle /\ (S = Lib => ~Pending)
     /\ budget.jobs < MaxJobs /\ budget' = [budget EXCEPT !.jobs = @ + 1]
     /\ row' = rows
     /\ asset' = Forget(as, rows, {row[p].content : p \in {q \in S : row[q] # Nothing}})
     \* a rowid that a staged action still names may go to another file
     /\ ghost' = [ghost EXCEPT !.reused = @ \/
          \E a \in run.actions, p \in Paths :
             Pending /\ rows[p] # Nothing /\ rows[p].id = a.id /\ p # a.path]
     /\ UNCHANGED <<disk, run, stage, job>>

(***************************************************************************)
(* Jobs                                                                    *)
(***************************************************************************)
Kinds == {"refresh", "preview", "exact", "undecodable", "analyze", "confirm", "cancel",
          "untrash"}

\* cleanup owns its root, except to end its own review; the others own none.
OwnsRoot(kind) == kind \in {"preview", "exact", "undecodable", "analyze"}

FirstStep(kind) ==
  CASE kind \in {"refresh", "preview", "analyze"} -> "absorb"
    [] kind \in {"exact", "undecodable"}          -> "list"
    [] kind = "untrash"                           -> "untrash"
    [] OTHER                                      -> "check"

\* A refresh walks the trash folders first; one that is offline is skipped.  An
\* untrash hashes the files it is shown.
Start(kind) ==
  /\ Idle /\ budget.jobs < MaxJobs
  /\ OwnsRoot(kind) => ~Pending
  /\ \E todo \in CASE FirstStep(kind) = "absorb" -> {{b \in Bin : disk[b] # Nothing}, {}}
                   [] kind = "untrash"           -> SUBSET Content \ {{}}
                   [] OTHER                      -> {{}} :
       job' = [NoJob EXCEPT !.kind = kind, !.at = FirstStep(kind), !.todo = todo]
  /\ budget' = [budget EXCEPT !.jobs = @ + 1]
  /\ UNCHANGED <<disk, row, asset, run, stage, ghost>>

Finish == job' = NoJob

(***************************************************************************)
(* refresh_trash: record, then delete, file by file                        *)
(***************************************************************************)
Absorb(b) ==
  /\ job.at = "absorb" /\ job.hold = Nothing /\ b \in job.todo
  /\ \/ /\ disk[b] # Nothing
        /\ asset' = [asset EXCEPT ![disk[b]] = "trashed"]
        /\ job' = [job EXCEPT !.hold = [path |-> b, content |-> disk[b]]]
        /\ UNCHANGED budget
     \/ /\ IF disk[b] = Nothing THEN UNCHANGED budget ELSE Event
        /\ job' = [job EXCEPT !.todo = @ \ {b}]
        /\ UNCHANGED asset
  /\ UNCHANGED <<disk, row, run, stage, ghost>>

Empty ==
  /\ job.at = "absorb" /\ job.hold # Nothing
  /\ LET b == job.hold.path IN
       /\ \/ /\ disk' = [disk EXCEPT ![b] = Nothing]
             /\ ghost' = IF disk[b] = job.hold.content
                         THEN [ghost EXCEPT !.condemned = @ \cup {disk[b]}] ELSE ghost
             /\ UNCHANGED budget
          \/ disk[b] # Nothing /\ Event /\ UNCHANGED <<disk, ghost>>
       /\ job' = [job EXCEPT !.hold = Nothing, !.todo = @ \ {b}]
  /\ UNCHANGED <<row, asset, run, stage>>

Absorbed ==
  /\ job.at = "absorb" /\ job.hold = Nothing /\ job.todo = {}
  /\ IF job.kind = "analyze" THEN job' = [job EXCEPT !.at = "open"] ELSE Finish
  /\ UNCHANGED <<disk, row, asset, run, stage, budget, ghost>>

(***************************************************************************)
(* _analyze_perceptual, _materialize                                       *)
(***************************************************************************)
Open ==
  /\ job.at = "open"
  /\ IF ExactMatches \cup Candidates = {}
     THEN Finish /\ UNCHANGED run
     ELSE /\ run' = [status |-> "pending", actions |-> {}]
          /\ job' = [job EXCEPT !.at = "stat", !.exact = ExactMatches, !.todo = Candidates]
  /\ UNCHANGED <<disk, row, asset, stage, budget, ghost>>

\* A candidate that has gone is not staged, and its row is dropped.
StatTarget(a) ==
  /\ job.at = "stat" /\ a \in job.todo
  /\ IF disk[a.path] = Nothing
     THEN LET rows == WithoutId(row, a.id)
          IN /\ row' = rows /\ asset' = Forget(asset, rows, {a.content})
             /\ job' = [job EXCEPT !.todo = @ \ {a}]
     ELSE job' = [job EXCEPT !.todo = @ \ {a}, !.done = @ \cup {a}] /\ UNCHANGED <<row, asset>>
  /\ UNCHANGED <<disk, run, stage, budget, ghost>>

MakeFolder ==
  /\ job.at = "stat" /\ job.todo = {}
  /\ IF job.done = {}
     THEN job' = [job EXCEPT !.at = "exact"] /\ UNCHANGED stage
     ELSE /\ job' = [job EXCEPT !.at = "link", !.todo = job.done, !.done = {}]
          /\ stage' = [stage EXCEPT !.made = TRUE]
  /\ UNCHANGED <<disk, row, asset, run, budget, ghost>>

\* A shortcut that cannot be written is not persisted.
Link(a) ==
  /\ job.at = "link" /\ a \in job.todo
  /\ \/ /\ stage.made
        /\ stage' = [stage EXCEPT !.links = @ \cup {a.path}]
        /\ job' = [job EXCEPT !.todo = @ \ {a}, !.done = @ \cup {a}]
        /\ UNCHANGED budget
     \/ /\ IF stage.made THEN Event ELSE UNCHANGED budget
        /\ job' = [job EXCEPT !.todo = @ \ {a}]
        /\ UNCHANGED stage
  /\ UNCHANGED <<disk, row, asset, run, ghost>>

PersistStaged ==
  /\ job.at = "link" /\ job.todo = {}
  /\ run' = [run EXCEPT !.actions = job.done]
  /\ ghost' = [ghost EXCEPT !.offered = {a.path : a \in job.done}, !.spared = @ \ stage.links]
  /\ job' = [job EXCEPT !.at = "exact"]
  /\ UNCHANGED <<disk, row, asset, stage, budget>>

PersistExact ==
  /\ job.at = "exact"
  /\ run' = [run EXCEPT !.actions = @ \cup job.exact]
  /\ Finish
  /\ UNCHANGED <<disk, row, asset, stage, budget, ghost>>

(***************************************************************************)
(* Deleting: the one-shot applies and the confirm of a review              *)
(***************************************************************************)
List ==
  /\ job.at = "list"
  /\ LET targets == IF job.kind = "exact" THEN ExactMatches ELSE Undecodables
     IN IF targets = {} THEN Finish
        ELSE job' = [job EXCEPT !.at = "delete", !.todo = targets]
  /\ UNCHANGED <<disk, row, asset, run, stage, budget, ghost>>

Staged(kind) == {a \in run.actions : a.kind = kind}

\* (mutant) what the user removed from the folder is deleted as well
ToDeleteUnread == run.actions

\* A shortcut still there means delete, one that was removed means spare.
ToDelete == Staged("exact") \cup {a \in Staged("perceptual") : a.path \in stage.links}

\* Without a pending review, or when a folder with shortcuts was removed, it fails.
Check ==
  /\ job.at = "check"
  /\ IF ~Pending THEN Finish
     ELSE IF job.kind = "cancel" THEN job' = [job EXCEPT !.at = "tidy"]
     ELSE IF Staged("perceptual") # {} /\ ~stage.made THEN Finish
     ELSE job' = [job EXCEPT !.at = "delete", !.todo = ToDelete]
  /\ UNCHANGED <<disk, row, asset, run, stage, budget, ghost>>

NextToDelete ==
  IF \E a \in job.todo : ~MarksTrash(a) THEN {a \in job.todo : ~MarksTrash(a)} ELSE job.todo

\* _delete_one up to the recycle: a file already gone only loses its row.
Recycle(a) ==
  /\ job.at = "delete" /\ job.hold = Nothing /\ a \in NextToDelete
  /\ \/ /\ disk[a.path] = Nothing
        /\ LET rows == WithoutId(row, a.id)
           IN /\ row' = rows
              /\ asset' = IF MarksTrash(a) THEN Forget(asset, rows, {a.content}) ELSE asset
        /\ job' = [job EXCEPT !.todo = @ \ {a}]
        /\ UNCHANGED <<disk, budget, ghost>>
     \/ /\ disk[a.path] # Nothing
        /\ disk' = [disk EXCEPT ![a.path] = Nothing]
        /\ job' = [job EXCEPT !.hold = a]
        /\ ghost' = [ghost EXCEPT !.condemned = @ \cup {a.content}]
        /\ UNCHANGED <<row, asset, budget>>
     \/ /\ disk[a.path] # Nothing /\ Event
        /\ job' = [job EXCEPT !.todo = @ \ {a}]
        /\ UNCHANGED <<disk, row, asset, ghost>>
  /\ UNCHANGED <<run, stage>>

\* (mutant) the row is counted before it is deleted
RememberBefore(as, rows, a) ==
  IF MarksTrash(a) /\ RowsOf(row, a.content) = {} THEN [as EXCEPT ![a.content] = "trashed"] ELSE as

\* _delete_one after the recycle: the last row gone, the asset becomes trash.
Remember(as, rows, a) ==
  IF MarksTrash(a) /\ RowsOf(rows, a.content) = {} THEN [as EXCEPT ![a.content] = "trashed"] ELSE as

Record ==
  /\ job.at = "delete" /\ job.hold # Nothing
  /\ LET rows == WithoutId(row, job.hold.id)
     IN row' = rows /\ asset' = Remember(asset, rows, job.hold)
  /\ job' = [job EXCEPT !.hold = Nothing, !.todo = @ \ {job.hold}]
  /\ UNCHANGED <<disk, run, stage, budget, ghost>>

Deleted ==
  /\ job.at = "delete" /\ job.hold = Nothing /\ job.todo = {}
  /\ IF job.kind = "confirm" THEN job' = [job EXCEPT !.at = "tidy"] ELSE Finish
  /\ UNCHANGED <<disk, row, asset, run, stage, budget, ghost>>

Tidy ==
  /\ job.at = "tidy"
  /\ stage' = NoStage
  /\ job' = [job EXCEPT !.at = "close"]
  /\ UNCHANGED <<disk, row, asset, run, budget, ghost>>

Close ==
  /\ job.at = "close"
  /\ run' = [run EXCEPT !.status = IF job.kind = "cancel" THEN "cancelled" ELSE "completed"]
  /\ Finish
  /\ UNCHANGED <<disk, row, asset, stage, budget, ghost>>

(***************************************************************************)
(* _untrash_one: back to active where it has files, else forgotten         *)
(***************************************************************************)
Untrash(c) ==
  /\ job.at = "untrash" /\ c \in job.todo
  /\ IF asset[c] # "trashed" THEN UNCHANGED <<asset, ghost>>
     ELSE /\ asset' = [asset EXCEPT ![c] = IF RowsOf(row, c) = {} THEN "none" ELSE "active"]
          /\ ghost' = [ghost EXCEPT !.condemned = @ \ {c}, !.untrashed = IF Pending THEN @ \cup {c} ELSE @]
  /\ IF job.todo = {c} THEN Finish ELSE job' = [job EXCEPT !.todo = @ \ {c}]
  /\ UNCHANGED <<disk, row, run, stage, budget>>

(***************************************************************************)
(* Ends: a cancel at a checkpoint, a failure, a kill and the next start    *)
(***************************************************************************)
\* check_cancelled comes before an item, never between its recycle and its record.
Cancelled ==
  /\ job.at \in {"absorb", "stat", "delete", "untrash"} /\ job.hold = Nothing
  /\ job.todo # {}
  /\ Finish
  /\ UNCHANGED <<disk, row, asset, run, stage, budget, ghost>>

\* reconcile_on_startup rolls a review back whose analyze was running.
Crash ==
  /\ ~Idle /\ budget.crashes < MaxCrashes
  /\ budget' = [budget EXCEPT !.crashes = @ + 1]
  /\ Finish
  /\ IF OwnsRoot(job.kind) /\ Pending
     THEN run' = [run EXCEPT !.status = "cancelled"] /\ stage' = NoStage
     ELSE UNCHANGED <<run, stage>>
  /\ Lapse(IF job.hold = Nothing THEN {} ELSE {job.hold.content})
  /\ UNCHANGED <<disk, row, asset>>

(***************************************************************************)
(* Specification                                                           *)
(***************************************************************************)
Refreshing == (\E b \in Bin : Absorb(b)) \/ Empty \/ Absorbed
Reviewing  == Open \/ (\E a \in job.todo : StatTarget(a) \/ Link(a)) \/ MakeFolder
              \/ PersistStaged \/ PersistExact
Deleting   == List \/ Check \/ (\E a \in job.todo : Recycle(a)) \/ Record \/ Deleted
              \/ Tidy \/ Close
Worker     == Refreshing \/ Reviewing \/ Deleting \/ \E c \in Content : Untrash(c)

Next ==
  \/ User \/ (\E kind \in Kinds : Start(kind)) \/ Scan(Lib) \/ Scan(Other)
  \/ Worker \/ Cancelled \/ Crash

Spec == Init /\ [][Next]_vars

(***************************************************************************)
(* Properties                                                              *)
(***************************************************************************)
\* cleanup recycles a file that still holds what it was chosen for only if that is
\* trash, or undecodable, or was offered in a review and not spared before the
\* confirm; never a file of another root.  Excepted is an exact match that was
\* untrashed while the review was pending.
RecyclesOnlyCondemned ==
  [][LET a == job'.hold
     IN job.at = "delete" /\ job.hold = Nothing /\ a # Nothing /\ disk[a.path] = a.content =>
          /\ a.path \in Lib
          /\ CASE a.kind = "exact" -> asset[a.content] = "trashed" \/ a.content \in ghost.untrashed
               [] a.kind = "undecodable" -> a.content \in Broken
               [] OTHER -> a.path \in ghost.offered \ ghost.spared]_vars

\* Between jobs, whatever cleanup recycled and whatever was emptied from a trash
\* folder is in the trash memory, or a library root still has a file of it.
\* Excepted: the kill came before the record, a copy vanished by itself, it was
\* untrashed, or a rowid was reused while the review was pending.
DiscardsRemembered ==
  Idle /\ ~ghost.reused =>
    \A c \in ghost.condemned \ (ghost.lapsed \cup ghost.untrashed) :
      asset[c] = "trashed" \/ RowsOf(row, c) # {}

\* An active asset has a file: merge counts what is active as already in the library.
NoOrphan == \A c \in Content : asset[c] = "active" => RowsOf(row, c) # {}

\* The same, except for what was untrashed while a review was pending, and for a
\* rowid reused meanwhile.
OrphansOnlyByUntrash ==
  ~ghost.reused =>
    \A c \in Content \ ghost.untrashed : asset[c] = "active" => RowsOf(row, c) # {}
=============================================================================
