------------------------------ MODULE MergeRun ------------------------------
(***************************************************************************)
(* merge: copy into a library root the source files whose content is new   *)
(* to the collection (jobs/merge.py, with the trash refresh and the dest   *)
(* scan it starts with).  The plan is kept in merge_runs and               *)
(* merge_plan_items so that a merge that was killed, cancelled or stopped  *)
(* is resumed by running it again.                                         *)
(*                                                                         *)
(* The handler runs interleaved with the user, who edits the source, drops *)
(* files into the trash folder and moves files in and out of the           *)
(* destination.  Only one job runs at a time (JobQueue), and while a run   *)
(* is open no scan or review touches the destination.                      *)
(*                                                                         *)
(* Simplified: a hash is the content it stands for; source files are       *)
(* numbered by modification time, oldest first, and a collision suffix     *)
(* never leads to another source file's name; perceptual rows are left out *)
(* but for their effect on needs_dedup; no file of the destination is      *)
(* edited in place behind an unchanged size and time.                      *)
(***************************************************************************)
EXTENDS Integers, FiniteSets

CONSTANTS Sources,     \* folders that may be merged from
          Rels,        \* paths relative to a source folder
          Contents,
          Settings,    \* where merges start, with what may go wrong there
          MaxSuffix    \* bound: names tried on a collision

Nothing == "nothing"
Names == Rels \X (0 .. MaxSuffix)   \* <<r, 0>> is r itself, <<r, n>> is "r (n)"

(***************************************************************************)
(* A setting: what each folder holds (source) and the destination (dest),  *)
(* the contents catalogued in other roots (known), the paths that the      *)
(* destination's ignore rules exclude (ignored), the paths the user        *)
(* changes under the merge (edited) and the contents at hand for it        *)
(* (brings), and bounds on what may happen (limit):                        *)
(* crashes, cancels, exceptions, contents dropped into the trash folder,   *)
(* source files edited, destination files added or removed.                *)
(***************************************************************************)
Mishaps == {"halts", "cancels", "faults", "drops", "edits", "moves"}

ASSUME MergeAssumption ==
    /\ Rels \subseteq Nat /\ IsFiniteSet(Rels)
    /\ Nothing \notin Contents
    /\ MaxSuffix \in Nat
    /\ \A g \in Settings :
          /\ g.source \in [Sources -> [Rels -> Contents \cup {Nothing}]]
          /\ g.dest \in [Names -> Contents \cup {Nothing}]
          /\ g.known \subseteq Contents /\ g.ignored \subseteq Rels /\ g.edited \subseteq Rels
          /\ g.brings \subseteq Contents
          /\ g.limit \in [Mishaps -> Nat]

First(S) == CHOOSE x \in S : \A y \in S : x <= y

VARIABLES
    setting,   \* where this behaviour started, which stays the same
    src, disk, inbox,  \* the sources, the destination, the trash folder
    fate,      \* assets: "unknown", "active" or "trashed"
    inst,      \* the destination's file_instances: the content of each path
    dirty,     \* roots.needs_dedup
    run,       \* status of the destination's latest merge_runs row
    from,      \* its source_path
    item,      \* its merge_plan_items
    pc,        \* where the handler is
    arg, dry,  \* the source and the --dry-run flag of its job
    todo,      \* files of the current loop still to come
    bin,       \* trash files the refresh still has to absorb
    cur, name, tmp,  \* the item in hand, its target, the copied bytes
    new, unindexed,  \* out["new"], out["unindexed"]
    cancelled, \* why the cancel event is set: "no", "user", "stop"
    landed,    \* status the latest merge job ended with
    used,      \* how often each bounded event has happened
    placed,    \* history: files merge brought into the destination
    touched    \* history: names the user added or removed

files == <<src, disk, inbox>>
catalog == <<fate, inst, dirty>>
plan == <<run, from, item>>
task == <<arg, dry, cancelled, landed>>
hand == <<cur, name, tmp>>
tally == <<new, unindexed>>
luck == <<setting, used>>
history == <<placed, touched>>
vars == <<files, catalog, plan, pc, task, todo, bin, hand, tally, luck, history>>

Spend(k) ==
    /\ used[k] < setting.limit[k]
    /\ used' = [used EXCEPT ![k] = @ + 1]
    /\ UNCHANGED setting

NoItem == [hash |-> Nothing, cls |-> "none", prog |-> "none", at |-> 0]
Open == run \in {"planning", "copying"}

Init ==
    /\ setting \in Settings
    /\ src = setting.source /\ disk = setting.dest /\ inbox = {}
    /\ fate = [c \in Contents |-> IF c \in setting.known THEN "active" ELSE "unknown"]
    /\ inst = [n \in Names |-> Nothing] /\ dirty = FALSE
    /\ run = "none" /\ from \in Sources /\ item = [r \in Rels |-> NoItem]
    /\ pc = "idle" /\ arg = from /\ dry = FALSE /\ todo = {} /\ bin = {}
    /\ cur = 0 /\ name = <<0, 0>> /\ tmp = Nothing /\ new = 0 /\ unindexed = 0
    /\ cancelled = "no" /\ landed = "none"
    /\ used = [k \in Mishaps |-> 0]
    /\ placed = {} /\ touched = {}

\* a job ends, or dies, with its handler's memory
Ends(status) ==
    /\ pc' = "idle" /\ landed' = status
    /\ arg' = from /\ dry' = FALSE /\ todo' = {} /\ bin' = {} /\ cur' = 0 /\ name' = <<0, 0>> /\ tmp' = Nothing
    /\ new' = 0 /\ unindexed' = 0 /\ cancelled' = "no"

-----------------------------------------------------------------------------
(* Phase 0: the trash refresh, for a dry run as well, then the run opens.  *)

BlockedByOwnRun == FALSE  \* mutant
PassesOwnRun == TRUE

\* a merge passes the gate although its own open run holds the root; the
\* source the job names must exist and hold something
Begin(s, preview) ==
    /\ pc = "idle"
    /\ ~Open \/ preview \/ PassesOwnRun
    /\ \E r \in Rels : src[s][r] # Nothing
    /\ arg' = s /\ dry' = preview
    /\ pc' = "refresh" /\ bin' = inbox
    /\ UNCHANGED <<files, catalog, plan, todo, hand, tally, cancelled, landed, luck,
                   history>>

\* record, then delete; a trash file that cannot be deleted stays
Absorb ==
    /\ pc = "refresh" /\ bin # {} /\ cancelled = "no"
    /\ \E c \in bin :
          /\ fate' = [fate EXCEPT ![c] = "trashed"]
          /\ bin' = bin \ {c}
          /\ inbox' \in {inbox, inbox \ {c}}
    /\ UNCHANGED <<src, disk, inst, dirty, plan, pc, task, todo, hand, tally, luck,
                   history>>

\* --dry-run: classify in memory, write nothing
Preview ==
    /\ pc = "refresh" /\ bin = {} /\ dry
    /\ Ends("done")
    /\ UNCHANGED <<files, catalog, plan, luck, history>>

\* an open run of this destination is resumed, else a fresh one is inserted
OpenRun ==
    /\ pc = "refresh" /\ bin = {} /\ ~dry
    /\ IF Open THEN UNCHANGED plan
               ELSE run' = "planning" /\ from' = arg /\ item' = [r \in Rels |-> NoItem]
    /\ IF run = "copying" THEN pc' = "items" /\ todo' = {r \in Rels : item[r].prog # "none"}
                              ELSE pc' = "scan" /\ UNCHANGED todo
    /\ UNCHANGED <<files, catalog, task, bin, hand, tally, luck, history>>

\* the files of the run's own source, whatever source the job names
Enumerated == {r \in Rels : src[from][r] # Nothing}

\* what a scan of the destination enumerates
Visible == {n \in Names : disk[n] # Nothing /\ n[1] \notin setting.ignored}

\* the assets once the rows are i: what lies in S is known, and an active asset
\* whose last row went is forgotten
FateAfter(i, S) ==
    [c \in Contents |->
        IF fate[c] = "unknown" /\ \E n \in S : i[n] = c THEN "active"
        ELSE IF /\ fate[c] = "active" /\ c \notin setting.known
                /\ \E n \in Names : inst[n] = c
                /\ \A n \in Names : i[n] # c
        THEN "unknown" ELSE fate[c]]

\* the fast-path scan catalogues the files S; only a scan that reaches its end
\* drops the rows of vanished files.  An exception, or a cancel seen inside, is
\* logged and the merge goes on
ScanDest ==
    /\ pc = "scan"
    /\ \E whole, backfills \in BOOLEAN, S \in SUBSET Visible :
          /\ IF whole THEN S = Visible /\ UNCHANGED luck
                      ELSE IF cancelled # "no" THEN UNCHANGED luck ELSE Spend("faults")
          /\ inst' = [n \in Names |-> IF n \in S THEN disk[n]
                                      ELSE IF whole THEN Nothing ELSE inst[n]]
          /\ fate' = FateAfter(inst', S)
          /\ LET fresh == IF backfills THEN {"unknown", "active"} ELSE {"unknown"}
             IN dirty' = (dirty \/ \E n \in S : fate[disk[n]] \in fresh)
    /\ pc' = "hash" /\ todo' = Enumerated
    /\ UNCHANGED <<files, plan, task, bin, hand, tally, history>>

-----------------------------------------------------------------------------
(* Phases 1 and 2: hash the source one row at a time, classify, freeze.    *)

Hashed(r) == item[r].hash # Nothing \/ item[r].prog = "error"

Hash ==
    /\ pc = "hash" /\ todo # {} /\ cancelled = "no"
    /\ LET r == First(todo) IN
          /\ todo' = todo \ {r}
          /\ item' = IF Hashed(r) THEN item
                     ELSE [item EXCEPT ![r] = [NoItem EXCEPT !.hash = src[from][r],
                               !.prog = IF src[from][r] = Nothing THEN "error" ELSE "pending"]]
    /\ UNCHANGED <<files, catalog, run, from, pc, task, bin, hand, tally, luck,
                   history>>

\* byte-identical files in the source: the oldest one stands for all
KeepsDuplicates(r) == TRUE  \* mutant
Represents(r) == \A q \in Rels : item[q].hash = item[r].hash => r <= q

Class(r) ==
    IF item[r].hash = Nothing THEN "none"
    ELSE IF ~Represents(r) THEN "dup-in-source"
    ELSE CASE fate[item[r].hash] = "unknown" -> "new"
           [] fate[item[r].hash] = "trashed" -> "trashed"
           [] fate[item[r].hash] = "active" -> "exact-known"

Frozen == "copying"

\* one transaction: every class, and the switch to `copying`
Freeze ==
    /\ pc = "hash" /\ todo = {}
    /\ item' = [r \in Rels |-> [item[r] EXCEPT !.cls = Class(r)]]
    /\ run' = Frozen
    /\ pc' = "items" /\ todo' = {r \in Rels : item[r].prog # "none"}
    /\ UNCHANGED <<files, catalog, from, task, bin, hand, tally, luck, history>>

-----------------------------------------------------------------------------
(* Phase 3: the items in order.                                            *)

Wanted(r) == item[r].cls = "new"

CopiedIsDone == {"registered", "copied-unindexed", "copied"}  \* mutant
Terminal == {"registered", "copied-unindexed"}

CountsAsNew(r) == Wanted(r)

\* nothing to copy, or an earlier session finished it
PassItem ==
    /\ pc = "items" /\ todo # {} /\ cancelled = "no"
    /\ LET r == First(todo) IN
          /\ ~Wanted(r) \/ item[r].prog \in Terminal
          /\ todo' = todo \ {r}
          /\ item' = IF Wanted(r) \/ item[r].hash = Nothing THEN item
                     ELSE [item EXCEPT ![r] = [@ EXCEPT !.prog = "skipped"]]
          /\ new' = IF CountsAsNew(r) THEN new + 1 ELSE new
          /\ unindexed' = IF item[r].prog = "copied-unindexed" THEN unindexed + 1 ELSE unindexed
    /\ UNCHANGED <<files, catalog, run, from, pc, task, bin, hand, luck, history>>

SameName(r) == <<r, 0>>  \* mutant
FreeName(r) == <<r, First({n \in 1 .. MaxSuffix : disk[<<r, n>>] = Nothing})>>

Identical(r) == disk[<<r, 0>>] = item[r].hash

\* crash between rename and register: finish it.  Otherwise choose the target:
\* the name itself, the identical file already there, or a free suffix
TakeItem ==
    /\ pc = "items" /\ todo # {} /\ cancelled = "no"
    /\ LET r == First(todo)
           base == <<r, 0>>
       IN /\ Wanted(r) /\ item[r].prog \notin Terminal
          /\ cur' = r
          /\ todo' = todo \ {r}
          /\ \/ /\ item[r].prog = "copied"
                /\ name' = <<r, item[r].at>> /\ pc' = "register"
             \/ /\ item[r].prog # "copied" /\ Identical(r)
                /\ name' = base /\ pc' = "mark"
             \/ /\ item[r].prog # "copied" /\ ~Identical(r)
                /\ \E n \in 0 .. MaxSuffix : disk[<<r, n>>] = Nothing
                /\ name' = IF disk[base] = Nothing THEN base ELSE FreeName(r)
                /\ pc' = "copy"
    /\ UNCHANGED <<files, catalog, plan, task, bin, tmp, tally, luck, history>>

\* to a temporary name; the source may have changed since it was hashed
CopyFile ==
    /\ pc = "copy"
    /\ src[from][cur] # Nothing
    /\ tmp' = src[from][cur]
    /\ pc' = "verify"
    /\ UNCHANGED <<files, catalog, plan, task, todo, bin, cur, name, tally, luck,
                   history>>

VerifiedAlways == TRUE  \* mutant
Verified == tmp = item[cur].hash

\* os.replace: the name was free when it was chosen
Replace ==
    /\ pc = "verify"
    /\ Verified
    /\ disk' = [disk EXCEPT ![name] = tmp]
    /\ placed' = placed \cup {name}
    /\ pc' = "mark"
    /\ UNCHANGED <<src, inbox, catalog, plan, task, todo, bin, hand, tally, luck,
                   touched>>

MarkCopied ==
    /\ pc = "mark"
    /\ item' = [item EXCEPT ![cur] = [@ EXCEPT !.prog = "copied", !.at = name[2]]]
    /\ pc' = "register"
    /\ UNCHANGED <<files, catalog, run, from, task, todo, bin, hand, tally, luck,
                   history>>

Unindexed == setting.ignored

\* one transaction: asset, instance and progress.  A file the destination's
\* rules exclude is left out of the catalog
Register ==
    /\ pc = "register"
    /\ LET c == item[cur].hash IN
       IF cur \in Unindexed
       THEN /\ item' = [item EXCEPT ![cur] = [@ EXCEPT !.prog = "copied-unindexed"]]
            /\ unindexed' = unindexed + 1
            /\ UNCHANGED <<fate, inst>>
       ELSE /\ item' = [item EXCEPT ![cur] = [@ EXCEPT !.prog = "registered"]]
            /\ inst' = [inst EXCEPT ![name] = c]
            /\ fate' = FateAfter(inst', {name})
            /\ UNCHANGED unindexed
    /\ new' = new + 1
    /\ pc' = "items"
    /\ UNCHANGED <<files, dirty, run, from, task, todo, bin, hand, luck, history>>

\* a hash mismatch, a source file that is gone, or any other exception: the
\* item is marked and the loop goes on
ItemFails ==
    /\ \/ pc = "verify" /\ ~Verified /\ UNCHANGED luck
       \/ pc = "copy" /\ src[from][cur] = Nothing /\ UNCHANGED luck
       \/ /\ pc \in {"copy", "verify", "mark", "register"}
          /\ Spend("faults")
    /\ item' = [item EXCEPT ![cur] = [@ EXCEPT !.prog = "error"]]
    /\ pc' = "items"
    /\ UNCHANGED <<files, catalog, run, from, task, todo, bin, hand, tally, history>>

Registered == new - unindexed > 0

Finish ==
    /\ pc = "items" /\ todo = {}
    /\ dirty' = (dirty \/ Registered)
    /\ run' = "done"
    /\ Ends("done")
    /\ UNCHANGED <<files, fate, inst, from, item, luck, history>>

-----------------------------------------------------------------------------
(* Interruptions.  The run stays open whatever ended the job.              *)

SeesCancel ==
    /\ cancelled # "no"
    /\ \/ pc \in {"hash", "items"} /\ todo # {}
       \/ pc = "refresh" /\ bin # {}
    /\ Ends(IF cancelled = "user" THEN "cancelled" ELSE "interrupted")
    /\ UNCHANGED <<files, catalog, plan, luck, history>>

\* an exception outside the item loop
Raises ==
    /\ pc \in {"refresh", "scan", "hash"}
    /\ Spend("faults")
    /\ Ends("error")
    /\ UNCHANGED <<files, catalog, plan, history>>

\* the restart only sets the jobs row to `interrupted`
Halt ==
    /\ pc # "idle"
    /\ Spend("halts")
    /\ Ends("interrupted")
    /\ UNCHANGED <<files, catalog, plan, history>>

Cancel ==
    /\ pc # "idle" /\ cancelled = "no"
    /\ Spend("cancels")
    /\ cancelled' \in {"user", "stop"}
    /\ UNCHANGED <<files, catalog, plan, pc, arg, dry, todo, bin, hand, tally, landed,
                   history>>

-----------------------------------------------------------------------------
(* The user, and the dedups run in between.                                *)

\* a dedup of the destination that ends clears the flag; it waits while a merge
\* is open
DedupRuns ==
    /\ pc = "idle" /\ ~Open /\ dirty
    /\ dirty' = FALSE
    /\ UNCHANGED <<files, fate, inst, plan, pc, task, todo, bin, hand, tally, luck, history>>

DropTrash(c) ==
    /\ Spend("drops")
    /\ inbox' = inbox \cup {c}
    /\ UNCHANGED <<src, disk, catalog, plan, pc, task, todo, bin, hand, tally,
                   history>>

EditSource(s, r, c) ==
    /\ Spend("edits")
    /\ src[s][r] # c
    /\ src' = [src EXCEPT ![s] = [@ EXCEPT ![r] = c]]
    /\ UNCHANGED <<disk, inbox, catalog, plan, pc, task, todo, bin, hand, tally,
                   history>>

EditDest(n, c) ==
    /\ Spend("moves")
    /\ disk[n] # c
    /\ disk' = [disk EXCEPT ![n] = c]
    /\ touched' = touched \cup {n}
    /\ UNCHANGED <<src, inbox, catalog, plan, pc, task, todo, bin, hand, tally,
                   placed>>

Worker ==
    \/ Absorb \/ Preview \/ OpenRun \/ ScanDest \/ Hash \/ Freeze \/ PassItem \/ TakeItem
    \/ CopyFile \/ Replace \/ MarkCopied \/ Register \/ ItemFails \/ Finish \/ SeesCancel

User ==
    \/ \E c \in setting.brings : DropTrash(c)
    \/ \E c \in setting.brings \cup {Nothing} :
          \/ \E s \in Sources, r \in setting.edited : EditSource(s, r, c)
          \/ \E n \in Names : n[1] \in setting.edited /\ EditDest(n, c)

Next ==
    \/ \E s \in Sources, p \in BOOLEAN : Begin(s, p)
    \/ Worker \/ Raises \/ Halt \/ Cancel \/ DedupRuns \/ User

Spec == Init /\ [][Next]_vars

\* the worker goes on, and the user runs an open merge again
FairSpec ==
    /\ Spec
    /\ WF_vars(Worker)
    /\ SF_vars(\E s \in Sources : Begin(s, FALSE))

-----------------------------------------------------------------------------
(* Properties.                                                             *)

(* What the catalog says of a file merge registered or scanned is what is  *)
(* on disk, whatever happened to the source between hash and copy, unless  *)
(* the user put something else there (merge.py:396-405).                   *)
CatalogTruth == \A n \in Names \ touched : inst[n] # Nothing => disk[n] = inst[n]

\* no kill, and at most one exception, which no cancel accompanies
GapClosed ==
    /\ used["halts"] = 0 /\ used["faults"] <= 1
    /\ used["faults"] = 1 => used["cancels"] = 0

(* Merge brings a content into the destination once, ignored paths, which  *)
(* no later merge knows of, left aside (operation-merge.md: step 8 and the *)
(* copied-to-registered gap of step 11).  A crash between the rename and   *)
(* the mark is another matter, and so is an exception there that a cancel  *)
(* or a second exception follows: see the README.                          *)
OneCopyEach == GapClosed =>
    \A m, n \in placed \ (touched \cup setting.ignored \X (0 .. MaxSuffix)) :
       disk[m] = disk[n] => m = n

(* A copy lands only on a name that is free, unless the user has put       *)
(* something there meanwhile, and a merge that goes through in one session *)
(* brings in nothing that is remembered as trash (merge.py:12-14,          *)
(* operation-merge.md:17-18, cli.md:208-209).                              *)
CopiesLandSafely ==
    [][placed' # placed =>
          /\ name \notin touched => disk[name] = Nothing
          /\ (\A k \in {"halts", "cancels", "faults"} : used[k] = 0)
                => fate[tmp] # "trashed"]_vars

(* A run is closed only when every content of its plan is catalogued or    *)
(* remembered as trash, lies at a path the rules exclude, or failed, or    *)
(* was in the catalog until the user moved files of the destination; and   *)
(* if the run registered anything the root then needs a dedup, also when   *)
(* an earlier session did the copying (merge.py:160-178).                  *)
DoneMeansCatalogued ==
    [][run = "copying" /\ run' = "done" =>
          /\ \A r \in Rels :
               item[r].hash # Nothing =>
                  \/ fate[item[r].hash] # "unknown"
                  \/ \E q \in Rels : /\ item[q].hash = item[r].hash
                                     /\ \/ q \in setting.ignored \/ item[q].prog = "error"
                                        \/ item[q].cls = "exact-known" /\ touched # {}
          /\ (\E r \in Rels : item[r].prog = "registered") => dirty']_vars

(* A merge that lands done has dealt with the source it was given          *)
(* (cli.md:207-216).                                                       *)
DoneCoversItsSource ==
    [][run # "done" /\ run' = "done" => from = arg]_vars

(* A cancelled merge leaves no plan behind (queue.py:264-265,              *)
(* cli.md:416-417, architecture.md:156-158).                               *)
CancelDiscards == pc = "idle" /\ landed = "cancelled" => ~Open

(* An open run, which holds its root, is closed by running merge again     *)
(* until no crash, cancel or fault comes in between (operation-merge.md:   *)
(* 146-152).                                                               *)
RunCloses == Open ~> ~Open

=============================================================================
