------------------------------ MODULE RootScan ------------------------------
(***************************************************************************)
(* `scan` and `probe` (jobs/scan.py, jobs/probe.py): the walk of a root,   *)
(* the fast path, the relinking of moved files, the worker threads that    *)
(* hash, decode and persist, and deletion detection, against a disk the    *)
(* user goes on changing.                                                  *)
(*                                                                         *)
(* Abstractions.  A file is its content and a stamp (its mtime); a rename  *)
(* or a copy keeps the stamp, every write makes a new one, further from    *)
(* the others than fastpath.mtime_tolerance_s.  Path ranges over the files *)
(* that pass the allowlist and the ignore set, both fixed for a root.  A   *)
(* perceptual print is the content whose pixels it was computed from.      *)
(* What other jobs do to the catalog between two scans is one action each. *)
(***************************************************************************)
EXTENDS Naturals, FiniteSets, FiniteSetsExt, Sequences, Functions

CONSTANTS
  Root, Dir,     \* library roots; directories (a root is its own top directory)
  Order,         \* [Root -> Nat]: registration order, the order of `scan --all`
  Above,         \* [Dir -> SUBSET Dir]: a directory and its ancestors up to the root
  Path, DirOf, Name,      \* files, and the directory and file name of each
  Streamed,      \* files read as a stream and not buffered: videos, huge photos
  Content, Size, \* what a file can hold, and its size
  Broken,        \* contents no decoder accepts
  Worker,        \* scan_workers / cpu_workers
  Nothing,
  InitDisk, Indexed,      \* the disk at first, and its contents in the order of their ids
  MaxPasses, MaxEvents    \* bounds: scans and probes; disk changes, failing reads and other jobs

\* A version of a file: its content and its stamp.
Version == [content : Content, stamp : Nat]

\* Every directory is in one root, and below each of its ancestors is the next one
\* on the way down to it.
ASSUME RootAssumption ==
  /\ IsFiniteSet(Root) /\ Root \subseteq Dir /\ Order \in [Root -> Nat]
  /\ Above \in [Dir -> SUBSET Dir]
  /\ \A d \in Dir : /\ d \in Above[d] /\ \E r \in Root : Above[d] \cap Root = {r}
                    /\ \A a \in Above[d] : Above[a] \subseteq Above[d]
                    /\ \A a \in Above[d] \ {d} : \E e \in Above[d] \ {a} : Above[e] = Above[a] \cup {e}
  /\ IsFiniteSet(Path) /\ DirOf \in [Path -> Dir] /\ Streamed \subseteq Path
  /\ Size \in [Content -> Nat] /\ Broken \subseteq Content
  /\ InitDisk \in [Path -> Version \cup {Nothing}] /\ Indexed \in Seq(Content)
  /\ Nothing \notin Content \cup Version \cup [size : Nat, stamp : Nat]
  /\ Nothing \notin [asset : Nat, size : Nat, stamp : Nat]
  /\ Nothing \notin [content : Content, status : {"active", "trashed"},
                    print : Content \cup {Nothing}, broken : BOOLEAN]
  /\ Nothing \notin [path : Path, content : Content, id : Nat,
                    how : {"new", "backfill", "attach"}, active : BOOLEAN]
  /\ MaxPasses \in Nat /\ MaxEvents \in Nat

VARIABLES
  disk,   \* [Path -> [content, stamp] or Nothing]
  asset,  \* assets, by rowid
  row,    \* file_instances, by path: asset id, and the size and mtime recorded
  root,   \* roots: needs_dedup, probe_new_count, a pending review, ever deduped
  job,    \* the scan or probe that holds the worker slot
  walk,   \* its Enumerations
  pass,   \* _scan_one_root's locals
  report, \* scan_problem_files: the undecodable files each root's last scan listed
  hand,   \* [Worker -> the file it has resolved and not yet persisted]
  budget, \* how many passes and events so far
  ghost   \* for the properties only

vars == <<disk, asset, row, root, job, walk, pass, report, hand, budget, ghost>>

Id == 1..(Len(Indexed) + MaxEvents + 2)    \* a bound: rowids that may be given out
NewStamp  == Cardinality(Path) + 1 + budget.events   \* initial stamps are smaller
Stat(f)   == [size |-> Size[f.content], stamp |-> f.stamp]
RootOf(p) == CHOOSE r \in Root : r \in Above[DirOf[p]]
Files(r)  == {p \in Path : RootOf(p) = r}
First(rs) == CHOOSE r \in rs : \A s \in rs : Order[r] <= Order[s]
Live(as)  == {i \in Id : as[i] # Nothing}
IdsOf(as, c) == {i \in Live(as) : as[i].content = c}

\* INTEGER PRIMARY KEY without AUTOINCREMENT: one more than the largest in use.
NewId(as) == 1 + Max({0} \cup Live(as))

FullyPrinted(a) == a.broken \/ a.print # Nothing

\* Only Enumeration.suppressed stands between an unreadable subtree and deletion.
Suppressed(p) == Above[DirOf[p]] \cap walk.suppressed # {}

\* (mutant) the mtime is not compared
FastPathBySize(p) ==
  /\ row[p] # Nothing /\ walk.found[p] # Nothing
  /\ row[p].size = walk.found[p].size
  /\ FullyPrinted(asset[row[p].asset])

FastPathHit(p) ==
  /\ row[p] # Nothing /\ walk.found[p] # Nothing
  /\ row[p].size = walk.found[p].size
  /\ row[p].stamp = walk.found[p].stamp
  /\ FullyPrinted(asset[row[p].asset])

(***************************************************************************)
(* plan_moves: <<new path, old path>> of the files that provably only moved *)
(***************************************************************************)
Moves(r) ==
  LET absent == {p \in Files(r) : walk.found[p] # Nothing /\ row[p] = Nothing}
      held   == {q \in Files(r) : row[q] # Nothing}
      Alike(p, q) == Name[p] = Name[q] /\ walk.found[p].size = row[q].size
      Moved(p, q) ==
        /\ \A o \in absent \ {p} : <<Name[o], walk.found[o].size>> # <<Name[p], walk.found[p].size>>
        /\ {o \in held : Alike(p, o)} = {q}
        /\ asset[row[q].asset].status = "active"
        /\ walk.found[q] = Nothing /\ ~Suppressed(q)
        /\ row[q].stamp = walk.found[p].stamp
        /\ FullyPrinted(asset[row[q].asset])
  IN {m \in absent \X held : Moved(m[1], m[2])}

(***************************************************************************)
(* Catalog writes: forget_if_orphaned, _upsert_instance                    *)
(***************************************************************************)
Forget(as, rows, ids) ==
  [i \in Id |-> IF /\ i \in ids /\ as[i] # Nothing /\ as[i].status = "active"
                   /\ \A p \in Path : rows[p] = Nothing \/ rows[p].asset # i
                THEN Nothing ELSE as[i]]

Upsert(as, p, i, stat) ==
  LET rows == [row EXCEPT ![p] = [asset |-> i, size |-> stat.size, stamp |-> stat.stamp]]
      prev == IF row[p] = Nothing THEN {} ELSE {row[p].asset} \ {i}
  IN row' = rows /\ asset' = Forget(as, rows, prev)

NewAsset(c, p, broken) == [content |-> c, status |-> "active", print |-> p, broken |-> broken]

(***************************************************************************)
(* Initial state: a scan has catalogued the disk, except for content that  *)
(* has come since                                                          *)
(***************************************************************************)
NoWalk == [open |-> {}, found |-> [p \in Path |-> Nothing], suppressed |-> {}, offline |-> {}]
NoPass == [known |-> {}, seen |-> {}, work |-> {}, errors |-> FALSE]
NoJob  == [kind |-> "none", full |-> FALSE, at |-> "idle", targets |-> {}, plan |-> {},
           done |-> {}, failed |-> FALSE]
NoGhost == [away |-> {}, disturbed |-> {}, quiet |-> {}, deceived |-> FALSE]

IndexedId(c) == CHOOSE i \in DOMAIN Indexed : Indexed[i] = c
Printed(c) == IF c \in Broken THEN Nothing ELSE c

Init ==
  /\ disk = InitDisk
  /\ asset = [i \in Id |-> IF i \in DOMAIN Indexed
                           THEN NewAsset(Indexed[i], Printed(Indexed[i]), Indexed[i] \in Broken)
                           ELSE Nothing]
  /\ row = [p \in Path |->
              IF InitDisk[p] = Nothing \/ InitDisk[p].content \notin Range(Indexed)
              THEN Nothing
              ELSE [asset |-> IndexedId(InitDisk[p].content),
                    size |-> Size[InitDisk[p].content], stamp |-> InitDisk[p].stamp]]
  /\ root = [r \in Root |-> [needs_dedup |-> \E p \in Files(r) : row[p] # Nothing,
                             probed |-> 0, pending |-> FALSE, deduped |-> FALSE,
                             compared |-> {}]]
  /\ job = NoJob /\ walk = NoWalk /\ pass = NoPass
  /\ report = [r \in Root |-> {}]
  /\ hand = [w \in Worker |-> Nothing]
  /\ budget = [passes |-> 0, events |-> 0]
  /\ ghost = NoGhost

(***************************************************************************)
(* The user, at any time                                                   *)
(***************************************************************************)
\* A version of a file has the stamp that is recorded for another content.
Contradicts(f, stamp, c) == f # Nothing /\ f.stamp = stamp /\ f.content # c

\* The version f comes to p, whose row, or the worker that has read it, pairs its
\* stamp with another content: p was replaced between its stat and its read, then
\* put back.
Deceives(p, f) ==
  \/ row[p] # Nothing /\ Contradicts(f, row[p].stamp, asset[row[p].asset].content)
  \/ \E w \in Worker : /\ hand[w] # Nothing /\ hand[w].path = p
                       /\ Contradicts(f, walk.found[p].stamp, hand[w].content)

Changed(ps, new) ==
  /\ disk' = new
  /\ ghost' = [away |-> ghost.away \cup {p \in ps : new[p] = Nothing},
               disturbed |-> ghost.disturbed \cup {RootOf(p) : p \in ps},
               quiet |-> ghost.quiet \ {RootOf(p) : p \in ps},
               deceived |-> ghost.deceived \/ \E p \in ps : Deceives(p, new[p])]

Event == budget.events < MaxEvents /\ budget' = [budget EXCEPT !.events = @ + 1]

Write(p, c) ==
  Changed({p}, [disk EXCEPT ![p] = [content |-> c, stamp |-> NewStamp]])

Remove(p) == disk[p] # Nothing /\ Changed({p}, [disk EXCEPT ![p] = Nothing])

Rename(p, q) ==
  /\ p # q /\ disk[p] # Nothing
  /\ Changed({p, q}, [disk EXCEPT ![q] = disk[p], ![p] = Nothing])

Copy(p, q) == p # q /\ disk[p] # Nothing /\ Changed({q}, [disk EXCEPT ![q] = disk[p]])

Disk ==
  /\ \E p \in Path :
       \/ Remove(p)
       \/ \E c \in Content : Write(p, c)
       \/ \E q \in Path : Rename(p, q) \/ Copy(p, q)
  /\ Event
  /\ UNCHANGED <<asset, row, root, job, walk, pass, report, hand>>

(***************************************************************************)
(* The other jobs, between two scans (one job holds the worker slot)       *)
(***************************************************************************)
Idle == job.at = "idle"

OtherJob == Idle /\ Event

\* A completed dedup run compares what is fingerprinted in the root.
Dedup(r) ==
  /\ OtherJob /\ ~root[r].pending
  /\ root' = [root EXCEPT ![r].needs_dedup = FALSE, ![r].deduped = TRUE, ![r].compared =
                {asset[i].content : i \in {j \in Live(asset) : asset[j].print # Nothing}}]
  /\ UNCHANGED <<disk, asset, row, job, walk, pass, report, hand, ghost>>

\* An analyze leaves a pending review, which holds the root; a cancel ends it.
Review(r) ==
  /\ OtherJob
  /\ root' = [root EXCEPT ![r].pending = ~@]
  /\ UNCHANGED <<disk, asset, row, job, walk, pass, report, hand, ghost>>

\* merge copies content unknown to the catalog in, without a print.
MergeIn(p, c) ==
  /\ OtherJob /\ disk[p] = Nothing /\ row[p] = Nothing /\ IdsOf(asset, c) = {}
  /\ NewId(asset) \in Id
  /\ ~root[RootOf(p)].pending
  /\ Changed({p}, [disk EXCEPT ![p] = [content |-> c, stamp |-> NewStamp]])
  /\ asset' = [asset EXCEPT ![NewId(asset)] = NewAsset(c, Nothing, FALSE)]
  /\ row' = [row EXCEPT ![p] = [asset |-> NewId(asset), size |-> Size[c],
                                stamp |-> NewStamp]]
  /\ root' = [root EXCEPT ![RootOf(p)].needs_dedup = TRUE]
  /\ UNCHANGED <<job, walk, pass, report, hand>>

\* A confirmed cleanup recycles every copy and keeps the asset as trash memory.
Recycle(i) ==
  /\ OtherJob /\ asset[i] # Nothing /\ asset[i].status = "active"
  /\ LET gone == {p \in Path : row[p] # Nothing /\ row[p].asset = i}
     IN /\ Changed(gone, [p \in Path |-> IF p \in gone THEN Nothing ELSE disk[p]])
        /\ row' = [p \in Path |-> IF p \in gone THEN Nothing ELSE row[p]]
  /\ asset' = [asset EXCEPT ![i] = [@ EXCEPT !.status = "trashed"]]
  /\ UNCHANGED <<root, job, walk, pass, report, hand>>

OtherJobs ==
  \/ \E r \in Root : Dedup(r) \/ Review(r)
  \/ \E p \in Path, c \in Content : MergeIn(p, c)
  \/ \E i \in Id : Recycle(i)

(***************************************************************************)
(* Phase 1: the targets, and the walk of each                              *)
(***************************************************************************)
\* scan <root> and probe <root> own their root and wait for it; --all does not.
Start(kind, full, targets) ==
  /\ Idle /\ budget.passes < MaxPasses /\ budget' = [budget EXCEPT !.passes = @ + 1]
  /\ \/ Cardinality(targets) = 1 /\ \A r \in targets : ~root[r].pending
     \/ kind = "scan" /\ targets = Root
  /\ job' = [NoJob EXCEPT !.kind = kind, !.full = full, !.at = "walk", !.targets = targets]
  /\ ghost' = [ghost EXCEPT !.away = {p \in Path : disk[p] = Nothing},
                            !.disturbed = {}, !.quiet = {}]
  /\ UNCHANGED <<disk, asset, row, root, walk, pass, report, hand>>

Target ==
  /\ job.at = "walk" /\ walk.open = {} /\ job.targets # {}
  /\ LET r == First(job.targets) IN
       IF root[r].pending
       THEN /\ job' = [job EXCEPT !.targets = @ \ {r}]
            /\ UNCHANGED <<walk, ghost>>
       ELSE /\ job' = [job EXCEPT !.targets = @ \ {r}, !.plan = @ \cup {r}]
            /\ walk' = [walk EXCEPT !.open = {r}]
            /\ ghost' = [ghost EXCEPT !.disturbed = @ \ {r}]
  /\ UNCHANGED <<disk, asset, row, root, pass, report, hand, budget>>

\* A listing fails as a whole, or for some entries (is_dir or stat).  A
\* subdirectory exists when a file is in it.
List(d) ==
  LET here == {p \in Path : DirOf[p] = d /\ disk[p] # Nothing}
      subs == {e \in Dir : e # d /\ Above[e] = Above[d] \cup {e}
                           /\ \E p \in Path : e \in Above[DirOf[p]] /\ disk[p] # Nothing}
      Read(bad) ==
        walk' = [walk EXCEPT
          !.open = (@ \ {d}) \cup (subs \ bad),
          !.found = [p \in Path |-> IF p \in here \ bad THEN Stat(disk[p]) ELSE @[p]],
          !.suppressed = IF bad = {} THEN @ ELSE @ \cup {d}]
      Failed ==
        walk' = [walk EXCEPT !.open = @ \ {d}, !.suppressed = @ \cup {d},
                             !.offline = @ \cup ({d} \cap Root)]
  IN /\ job.at = "walk" /\ d \in walk.open
     /\ \/ Read({}) /\ UNCHANGED <<budget, ghost>>
        \/ /\ Event
           /\ ghost' = [ghost EXCEPT !.disturbed = @ \cup (Above[d] \cap Root)]
           /\ Failed \/ \E e \in here \cup subs : Read({e})
     /\ UNCHANGED <<disk, asset, row, root, job, pass, report, hand>>

Walked ==
  /\ job.at = "walk" /\ walk.open = {} /\ job.targets = {}
  /\ IF job.plan = {}
     THEN job' = NoJob /\ walk' = NoWalk
     ELSE job' = [job EXCEPT !.at = IF job.kind = "probe" THEN "count" ELSE "plan"]
          /\ UNCHANGED walk
  /\ UNCHANGED <<disk, asset, row, root, pass, report, hand, budget, ghost>>

Current == First(job.plan)

\* _run_probe: an unreadable root leaves no signal.
Count ==
  /\ job.at = "count"
  /\ root' = IF Current \in walk.offline THEN root
             ELSE [root EXCEPT ![Current].probed =
                     Cardinality({p \in Files(Current) : walk.found[p] # Nothing
                                                         /\ ~FastPathHit(p)})]
  /\ job' = NoJob /\ walk' = NoWalk
  /\ UNCHANGED <<disk, asset, row, pass, report, hand, budget, ghost>>

(***************************************************************************)
(* Phase 2: fast path, relinks, and the files left for the workers         *)
(***************************************************************************)
Plan ==
  LET r     == Current
      here  == {p \in Files(r) : walk.found[p] # Nothing}
      known == {p \in Files(r) : row[p] # Nothing}
      hits  == IF job.full THEN {} ELSE {p \in here : FastPathHit(p)}
      moves == IF job.full THEN {} ELSE Moves(r)
      to    == {m[1] : m \in moves}
      from  == {m[2] : m \in moves}
      work  == here \ (hits \cup to)
  IN /\ job.at = "plan"
     /\ row' = [p \in Path |-> CASE p \in to   -> row[CHOOSE q \in from : <<p, q>> \in moves]
                                 [] p \in from -> Nothing
                                 [] OTHER      -> row[p]]
     /\ pass' = [known |-> known, seen |-> hits \cup from \cup (work \cap known),
                 work |-> work, errors |-> FALSE]
     /\ job' = [job EXCEPT !.at = "files"]
     \* the row kept the stat of one version and the content of the next (Deceives),
     \* and p is a copy of the first
     /\ ghost' = [ghost EXCEPT !.deceived = @ \/ \E m \in moves :
          Contradicts(disk[m[1]], row[m[2]].stamp, asset[row[m[2]].asset].content)]
     /\ UNCHANGED <<disk, asset, root, walk, report, hand, budget>>

Busy(w) == hand[w] # Nothing

\* The photo pipeline drains before the streamed pool starts.
MayTake(p) ==
  p \in Streamed => /\ pass.work \subseteq Streamed
                    /\ \A w \in Worker : Busy(w) => hand[w].path \in Streamed

\* Read, hash and look the hash up: the lookup is outside the persist's transaction.
Take(w, p) ==
  /\ job.at = "files" /\ ~Busy(w) /\ p \in pass.work /\ MayTake(p)
  /\ \/ /\ disk[p] # Nothing
        /\ LET c == disk[p].content
               i == IF IdsOf(asset, c) = {} THEN 0 ELSE CHOOSE j \in IdsOf(asset, c) : TRUE
               Incomplete == \/ ~FullyPrinted(asset[i])
                             \/ asset[i].broken /\ job.full
           IN hand' = [hand EXCEPT ![w] =
                [path |-> p, content |-> c, id |-> i,
                 how |-> IF i = 0 THEN "new" ELSE IF Incomplete THEN "backfill" ELSE "attach",
                 active |-> i # 0 /\ asset[i].status = "active"]]
        /\ pass' = [pass EXCEPT !.work = @ \ {p}]
        /\ UNCHANGED budget
     \/ /\ IF disk[p] = Nothing THEN UNCHANGED budget ELSE Event
        /\ pass' = [pass EXCEPT !.work = @ \ {p}, !.errors = TRUE]
        /\ UNCHANGED hand
  /\ UNCHANGED <<disk, asset, row, root, job, walk, report, ghost>>

\* A buffered photo is decoded from the bytes that were hashed, a streamed file
\* from whatever its path holds by then.
Pixels(h) ==
  IF h.path \notin Streamed THEN Printed(h.content)
  ELSE IF disk[h.path] = Nothing THEN Nothing ELSE Printed(disk[h.path].content)

\* _persist_new: the asset is created unless a row for the hash is there by now.
PersistNew(h, stat) ==
  LET there   == IdsOf(asset, h.content)
      created == there = {}
      i       == IF created THEN NewId(asset) ELSE CHOOSE j \in there : TRUE
      as      == IF created
                 THEN [asset EXCEPT ![i] = NewAsset(h.content, Pixels(h), Pixels(h) = Nothing)]
                 ELSE asset
  IN /\ i \in Id
     /\ Upsert(as, h.path, i, stat)
     /\ root' = [root EXCEPT ![RootOf(h.path)].needs_dedup =
                   @ \/ (created /\ Pixels(h) # Nothing)]

\* _persist_backfill and _attach_instance trust the id the lookup found.
PersistKnown(h, stat) ==
  LET fill == h.how = "backfill"
      as   == IF fill
              THEN [asset EXCEPT ![h.id] = [@ EXCEPT !.print = Pixels(h),
                                                     !.broken = (Pixels(h) = Nothing)]]
              ELSE asset
  IN /\ Upsert(as, h.path, h.id, stat)
     /\ root' = [root EXCEPT ![RootOf(h.path)].needs_dedup =
                   @ \/ (fill /\ h.active /\ Pixels(h) # Nothing)]

\* The foreign key refuses an id that has gone since the lookup: the transaction
\* rolls back; the photo pipeline counts an error, the streamed pool fails the job.
Refused(h) ==
  /\ pass' = [pass EXCEPT !.errors = TRUE]
  /\ job' = IF h.path \in Streamed THEN [job EXCEPT !.failed = TRUE] ELSE job
  /\ UNCHANGED <<asset, row, root>>

\* The id now belongs to another asset, or the pixels are not those that were hashed.
Mistaken(h) ==
  \/ h.how # "new" /\ (asset[h.id] = Nothing \/ asset[h.id].content # h.content)
  \/ h.how # "attach" /\ Pixels(h) # Printed(h.content)

Persist(w) ==
  /\ job.at = "files" /\ Busy(w)
  /\ LET h == hand[w]
         stat == walk.found[h.path]
     IN /\ IF h.how # "new" /\ asset[h.id] = Nothing THEN Refused(h)
           ELSE /\ IF h.how = "new" THEN PersistNew(h, stat) ELSE PersistKnown(h, stat)
                /\ UNCHANGED <<job, pass>>
        /\ ghost' = [ghost EXCEPT !.deceived = @ \/ Mistaken(h)]
  /\ hand' = [hand EXCEPT ![w] = Nothing]
  /\ UNCHANGED <<disk, walk, report, budget>>

(***************************************************************************)
(* Phase 3: deletion detection, then the root's signals                    *)
(***************************************************************************)
\* (mutant) a directory that could not be listed counts as empty
GoneUnlisted == pass.known \ pass.seen

Gone == {p \in pass.known \ pass.seen : ~Suppressed(p)}

Detect ==
  /\ job.at = "files" /\ pass.work = {} /\ \A w \in Worker : ~Busy(w)
  /\ ~job.failed
  /\ IF Current \in walk.offline THEN UNCHANGED <<asset, row>>
     ELSE LET rows == [p \in Path |-> IF p \in Gone THEN Nothing ELSE row[p]]
          IN row' = rows /\ asset' = Forget(asset, rows, {row[p].asset : p \in Gone})
  /\ job' = [job EXCEPT !.at = "stamp"]
  /\ UNCHANGED <<disk, root, walk, pass, report, hand, budget, ghost>>

QuietPass == job.at = "stamp" /\ ~pass.errors /\ Current \notin ghost.disturbed

Stamp ==
  /\ job.at = "stamp"
  /\ root' = IF Current \in walk.offline THEN root ELSE [root EXCEPT ![Current].probed = 0]
  /\ job' = [job EXCEPT !.plan = @ \ {Current}, !.done = @ \cup {Current},
                        !.at = IF job.plan = {Current} THEN "report" ELSE "plan"]
  /\ pass' = NoPass
  /\ ghost' = IF QuietPass THEN [ghost EXCEPT !.quiet = @ \cup {Current}] ELSE ghost
  /\ UNCHANGED <<disk, asset, row, walk, report, hand, budget>>

\* (mutant) only what this scan took from the disk
UndecodableThisPass(r) ==
  {p \in Files(r) : row[p] # Nothing /\ asset[row[p].asset].broken
                    /\ walk.found[p] # Nothing /\ ~FastPathHit(p)}

\* _persist_scan_result: the undecodable files are read from the catalog, not from
\* what this pass met, since a resumed pass skips them.
Undecodable(r) == {p \in Files(r) : row[p] # Nothing /\ asset[row[p].asset].broken}

Report ==
  /\ job.at = "report"
  /\ report' = [r \in Root |-> IF r \in job.done THEN Undecodable(r) ELSE report[r]]
  /\ job' = NoJob /\ walk' = NoWalk
  /\ UNCHANGED <<disk, asset, row, root, pass, hand, budget, ghost>>

\* A cancel, a crash, or the failure the streamed pool met: what is committed stays.
Stop ==
  /\ ~Idle
  /\ job' = NoJob /\ walk' = NoWalk /\ pass' = NoPass
  /\ hand' = [w \in Worker |-> Nothing]
  /\ UNCHANGED <<disk, asset, row, root, report, budget, ghost>>

(***************************************************************************)
(* Specification                                                           *)
(***************************************************************************)
Starts ==
  \/ \E r \in Root, full \in BOOLEAN : Start("scan", full, {r})
  \/ Start("scan", FALSE, Root)
  \/ \E r \in Root : Start("probe", FALSE, {r})

Scanning ==
  \/ Target \/ (\E d \in Dir : List(d)) \/ Walked \/ Count \/ Plan
  \/ (\E w \in Worker : Persist(w) \/ \E p \in Path : Take(w, p))
  \/ Detect \/ Stamp \/ Report

Next == Disk \/ OtherJobs \/ Starts \/ Scanning \/ Stop

Spec == Init /\ [][Next]_vars

(***************************************************************************)
(* Properties                                                              *)
(***************************************************************************)
\* Whatever fails to list or to read, and wherever the pass is stopped, a scan
\* never drops the row of a file that was on disk all through the pass.
KeepsWhatStayed ==
  [][Scanning => \A p \in Path : row[p] # Nothing /\ p \notin ghost.away => row'[p] # Nothing]_vars

\* A file has a row, on the asset of its content, with its own print; what is
\* not there has none.
MirrorsDisk(p) ==
  IF disk[p] = Nothing THEN row[p] = Nothing
  ELSE /\ row[p] # Nothing
       /\ LET a == asset[row[p].asset]
          IN /\ a.content = disk[p].content
             /\ a.print = Printed(a.content)
             /\ a.broken = (a.content \in Broken)

\* A pass over a root nobody disturbs, that meets no error, leaves the catalog
\* equal to the disk, whatever happened during earlier passes and between them:
\* edits, renames, copies, cancels, crashes, subtrees that could not be listed.
\* Excepted are the deceptions of Deceives, Plan and Mistaken.
CatchesUp ==
  QuietPass /\ ~ghost.deceived => \A p \in Files(Current) : MirrorsDisk(p)

\* The same without the exception.
QuietPassMirrorsDisk == QuietPass => \A p \in Files(Current) : MirrorsDisk(p)

\* The problem files a finished scan reports for a root it scanned undisturbed are
\* exactly the undecodable files in it, also when most of the work was done by
\* earlier scans that were cancelled.
ReportIsCurrent ==
  [][Report => \A r \in ghost.quiet : ~ghost.deceived =>
       report'[r] = {p \in Files(r) : disk[p] # Nothing /\ disk[p].content \in Broken}]_vars

\* A green dot -- scanned, deduped, nothing dirty since -- means that everything
\* in the root that dedup can compare was there for its last dedup to compare.
Green(r) == ~root[r].needs_dedup /\ root[r].deduped /\ root[r].probed = 0

GreenMeansCompared ==
  Idle => \A r \in Root : Green(r) =>
    \A p \in Files(r) : row[p] # Nothing =>
      LET a == asset[row[p].asset]
      IN a.status = "active" /\ a.print # Nothing => a.content \in root[r].compared
=============================================================================
