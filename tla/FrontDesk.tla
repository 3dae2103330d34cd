------------------------------ MODULE FrontDesk -----------------------------
(***************************************************************************)
(* What stands between the user and the job queue: the commands of the     *)
(* command line, the verbs of the terminal interface, the endpoints that   *)
(* turn either into a job, and the dispatch of a job on its parameters.    *)
(*                                                                         *)
(* The user decides on what a front end shows: a count of files to delete, *)
(* the stage of a review.  Between that look and the job that acts on the  *)
(* answer lie a page fetched some time ago, a typed answer, a queue and    *)
(* the jobs of everybody else.                                             *)
(*                                                                         *)
(* One library root, one trash root.  A job acts in one step at its end,   *)
(* on the catalog only (store); DedupReview, MergeRun, RootScan and        *)
(* TrashMemory take jobs apart.  The queue takes any job that may run.     *)
(* The user removes no library file himself here.                          *)
(* fresh records, for the properties only, that nobody else's job changed  *)
(* the catalog since what is in seen, or on a page, was read from it.      *)
(***************************************************************************)
EXTENDS Naturals, Sequences, FiniteSets, FiniteSetsExt

CONSTANTS Shells,      \* command lines, each runs one command after another
          Commands,    \* what may be typed: [verb, flags, on]
          Menu,        \* what the terminal interface submits as it is
          Files,       \* contents, each of them one file of the library root
          Broken,      \* those that do not decode
          Alike,       \* those that resemble something trashed
          Plan,        \* the files that each dedup stage would offer
          Presented,   \* those a copy of which lies in the trash folder at first
          Stuck,       \* those that may fail to be moved to the bin
          MaxJobs,
          MaxMishaps   \* jobs that fail or are cancelled, daemons stopped, files dropped

Verbs == {"scan", "probe", "dedup", "cleanup", "merge", "refresh", "untrash",
          "register"}
Modes == {"exact", "perceptual", "undecodable"}
Flags == Modes \cup {"all", "confirm", "cancel", "dry", "keep", "apply",
                     "detach", "yes", "scan"}
Roots == {"library", "trash", "unknown", "none"}

CommandType == [verb : Verbs, flags : SUBSET Flags, on : Roots]

ASSUME DeskAssumption ==
    /\ "tui" \notin Shells
    /\ Commands \cup Menu \subseteq CommandType
    /\ \A c \in Commands \cup Menu : "apply" \notin c.flags    \* no such option
    /\ Broken \subseteq Files /\ Alike \subseteq Files /\ Presented \subseteq Files
    /\ Stuck \subseteq Files
    /\ Plan \in [1..3 -> SUBSET Files]
    /\ {MaxJobs, MaxMishaps} \subseteq Nat

Desks  == Shells \cup {"tui"}
Failed == {"error", "cancelled", "interrupted"}
Ended  == Failed \cup {"done"}

VARIABLES desk,      \* each front end: where its command is, what it showed
          cards,     \* the job rows that the terminal interface last fetched
          box,       \* the root's detail that it last fetched
          job,       \* the jobs table, in the order of submission
          store,     \* the catalog and the trash folder
          daemon,    \* "up", "stopping" or "restarted"
          mishaps    \* how many there were

pages == <<cards, box>>
deskVars == <<desk, pages, job, store, daemon, mishaps>>

NoReview == [op |-> "none", run |-> 0, stage |-> 0, planned |-> {}]
Unseen   == [files |-> {}, op |-> "none", stage |-> 0]
Command(v, f) == [verb |-> v, flags |-> f, on |-> "library"]
NoCommand == Command("scan", {})
Free == [at |-> "idle", cmd |-> NoCommand, job |-> 0, seen |-> Unseen,
         fresh |-> TRUE, exit |-> 0]
Left(code) == [Free EXCEPT !.at = "left", !.exit = code]
NoCards == [current |-> {}, advanced |-> {}, fresh |-> TRUE]
NoBox   == [op |-> "none", stage |-> 0, fresh |-> TRUE]

DeskInit ==
    /\ desk = [d \in Desks |-> Free]
    /\ cards = NoCards /\ box = NoBox
    /\ job = <<>>
    /\ store = [lib |-> Files, inbox |-> Presented, trashed |-> {}, review |-> NoReview,
                runs |-> 0]
    /\ daemon = "up"
    /\ mishaps = 0

Is(c, f) == f \in c.flags

Serving == daemon # "stopping"

(***************************************************************************)
(* What the command line and the server refuse                             *)
(***************************************************************************)
Mode(c) == IF c.flags \cap Modes = {} THEN "perceptual"
           ELSE CHOOSE m \in c.flags \cap Modes : TRUE

\* scan and probe take a root or --all, not both and not neither.
SweepMisused(c) ==
    c.verb \in {"scan", "probe"} /\ Is(c, "all") = (c.on # "none")

DedupMisused(c) ==
    /\ c.verb = "dedup"
    /\ \/ {"confirm", "cancel"} \subseteq c.flags
       \/ Is(c, "keep") /\ ~ Is(c, "confirm")

\* A fresh cleanup names exactly one mode.
CleanupMisused(c) ==
    /\ c.verb = "cleanup"
    /\ \/ {"confirm", "cancel"} \subseteq c.flags
       \/ IF Is(c, "confirm") \/ Is(c, "cancel")
          THEN c.flags \cap Modes \notin {{}, {"perceptual"}}
          ELSE Cardinality(c.flags \cap Modes) # 1

Misused(c) == SweepMisused(c) \/ DedupMisused(c) \/ CleanupMisused(c)

\* The root named must exist and be of the kind that the verb works on; a root
\* to register must be neither registered yet nor inside or around another.
Refused(c) ==
    \/ c.verb \in {"scan", "probe"} /\ ~ Is(c, "all") /\ c.on # "library"
    \/ c.verb \in {"dedup", "cleanup", "merge"} /\ c.on # "library"
    \/ c.verb = "refresh" /\ c.on \notin {"trash", "none"}
    \/ c.verb = "register" /\ c.on # "unknown"

\* The count-and-confirm modes: a preview first, the deletion in a second job.
OneShot(c) ==
    c.verb = "cleanup" /\ Mode(c) # "perceptual"
    /\ c.flags \cap {"confirm", "cancel", "dry"} = {}

(***************************************************************************)
(* What a job does                                                         *)
(***************************************************************************)
\* Dispatch on the parameters, in the order of the two handlers.
DedupLeaf(c) ==
    IF Is(c, "confirm") THEN "confirm"
    ELSE IF Is(c, "cancel") THEN "cancel"
    ELSE IF Is(c, "dry") THEN "preview"
    ELSE "analyze"

CleanupLeaf(c) ==
    IF Is(c, "cancel") THEN "cancel"
    ELSE IF Is(c, "confirm") THEN "confirm"
    ELSE IF Is(c, "apply") THEN "apply"
    ELSE IF Mode(c) = "perceptual" /\ ~ Is(c, "dry") THEN "analyze"
    ELSE "preview"

Leaf(c) == CASE c.verb = "dedup"   -> DedupLeaf(c)
             [] c.verb = "cleanup" -> CleanupLeaf(c)
             [] OTHER              -> c.verb

\* The jobs that wait in the backlog while a review holds the root.
OwnsRoot(c) ==
    CASE c.verb = "dedup"   -> Leaf(c) = "analyze"
      [] c.verb = "cleanup" -> Leaf(c) \in {"analyze", "apply", "preview"}
      [] c.verb = "merge"   -> ~ Is(c, "dry")
      [] c.verb \in {"scan", "probe"} -> ~ Is(c, "all")
      [] OTHER -> FALSE

\* Refreshing the trash is real even in a preview and under --dry-run.
Refreshes(c) ==
    \/ c.verb \in {"merge", "refresh"}
    \/ c.verb = "cleanup" /\ Leaf(c) \in {"preview", "analyze"}
       /\ Mode(c) # "undecodable"

Refreshed(c, st) ==
    IF Refreshes(c) THEN [st EXCEPT !.trashed = @ \cup st.inbox, !.inbox = {}]
                    ELSE st

Matches(mode, st) ==
    IF mode = "undecodable" THEN (st.lib \cap Broken) \ st.trashed
                            ELSE st.lib \cap st.trashed

\* Deleting discarded content remembers it; an exact copy was remembered, or
\* has a copy that stays.
Removed(c, st, gone) ==
    [st EXCEPT !.lib = @ \ gone,
               !.trashed = IF c.verb = "dedup" /\ st.review.stage = 1 THEN @
                           ELSE @ \cup gone]

\* A dedup run opens or moves on to the first stage that offers anything.
Advanced(st, from) ==
    LET stages == {s \in from..3 : Plan[s] \cap (st.lib \ st.trashed) # {}}
        next   == Min(stages)
    IN  [st EXCEPT !.review = IF stages = {} THEN NoReview
            ELSE [op |-> "dedup", run |-> st.runs, stage |-> next,
                  planned |-> Plan[next] \cap (st.lib \ st.trashed)]]

\* Exact matches are planned beside what is staged for review.
Staged(st) ==
    LET found == st.lib \cap (st.trashed \cup Alike)
    IN  IF found = {} THEN st
        ELSE [st EXCEPT !.runs = @ + 1,
                        !.review = [op |-> "cleanup", run |-> st.runs + 1,
                                    stage |-> 1, planned |-> found]]

\* Shortcuts, or under --keep-suggested the leads, decide what of a stage goes.
\* The exact matches of a cleanup go whatever the shortcuts say.  A file that
\* cannot be moved to the bin is logged and stays, and the job goes on.
Chosen(c, st) ==
    LET here == st.review.planned \cap st.lib IN
    {gone \in SUBSET here : st.review.op = "cleanup" => here \ (Alike \cup Stuck) \subseteq gone}

\* The handler gets past its checks.
CanRun(c, st) ==
    CASE Leaf(c) \in {"confirm", "cancel"} ->
            /\ st.review.op = c.verb
            /\ Is(c, "keep") => st.review.stage = 2
      [] Leaf(c) \in {"analyze", "apply"} -> st.review.op = "none"
      [] OTHER -> TRUE

\* Mutant: the apply refreshes the trash once more before it looks for matches.
LateMatches(c, st) ==
    Matches(Mode(c), [st EXCEPT !.trashed = @ \cup st.inbox])

Doomed(c, st) == Matches(Mode(c), st)

\* The catalogs that the job may leave behind when it gets to its end.
Effects(c, st) ==
    CASE Leaf(c) = "confirm" ->
            {LET left == Removed(c, st, gone)
             IN  IF c.verb = "dedup" THEN Advanced(left, st.review.stage + 1)
                 ELSE [left EXCEPT !.review = NoReview] : gone \in Chosen(c, st)}
      [] Leaf(c) = "cancel"  -> {[st EXCEPT !.review = NoReview]}
      [] Leaf(c) = "apply"   -> {Removed(c, st, Doomed(c, st) \ held) : held \in SUBSET Stuck}
      [] Leaf(c) = "analyze" ->
            IF c.verb = "cleanup" THEN {Staged(Refreshed(c, st))}
            ELSE {Advanced([st EXCEPT !.runs = @ + 1], 1)}
      [] c.verb = "untrash" /\ ~ Is(c, "dry") ->
            {[st EXCEPT !.trashed = @ \ {f}] : f \in Files}
      [] OTHER -> {Refreshed(c, st)}

\* What is left behind when it does not.
Partials(c, st) ==
    {st, Refreshed(c, st)} \cup
    (CASE Leaf(c) = "confirm" ->
            {Removed(c, st, gone) : gone \in UNION {SUBSET g : g \in Chosen(c, st)}}
       [] Leaf(c) = "apply" -> {Removed(c, st, gone) : gone \in SUBSET Doomed(c, st)}
       [] OTHER -> {})

(***************************************************************************)
(* The queue                                                               *)
(***************************************************************************)
NothingPaused == [op |-> "none", run |-> 0, stage |-> 0]

Enqueued(c, seen, fresh) ==
    Append(job, [cmd |-> c, status |-> "queued", asked |-> FALSE, seen |-> seen,
                 fresh |-> fresh, paused |-> NothingPaused])

Run(j) ==
    /\ job[j].status = "queued"
    /\ \A k \in DOMAIN job : job[k].status # "running"
    /\ OwnsRoot(job[j].cmd) => store.review.op = "none"
    /\ job' = [job EXCEPT ![j] = [@ EXCEPT !.status = "running"]]
    /\ UNCHANGED <<desk, pages, store, daemon, mishaps>>

\* What was shown before a change of the catalog may be out of date (r is a front
\* end or a job that carries what its user was shown).
Changes(st) ==
    <<st.lib, st.trashed, st.review>> # <<store.lib, store.trashed, store.review>>

Aged(r, st) == IF r.seen # Unseen /\ Changes(st) THEN [r EXCEPT !.fresh = FALSE] ELSE r

PagesAge(st) ==
    IF Changes(st)
    THEN /\ cards' = [cards EXCEPT !.fresh = cards.current \cup cards.advanced = {}]
         /\ box' = [box EXCEPT !.fresh = box.op = "none"]
    ELSE UNCHANGED pages

Over(j, status, paused) ==
    [job[j] EXCEPT !.cmd = NoCommand, !.status = status, !.asked = FALSE,
                   !.seen = Unseen, !.fresh = TRUE, !.paused = paused]

\* The result of a review job freezes the stage at which the run stands.
Paused(c, st) ==
    IF st.review.op = c.verb /\ (c.verb = "cleanup" => Leaf(c) = "analyze")
    THEN [op |-> c.verb, run |-> st.review.run, stage |-> st.review.stage]
    ELSE NothingPaused

\* The job is over and leaves the catalog as st.
Settle(j, status, st) ==
    /\ store' = st
    /\ job' = [k \in DOMAIN job |->
           IF k = j THEN Over(j, status, IF status = "done" THEN Paused(job[j].cmd, st)
                                         ELSE NothingPaused)
           ELSE Aged(job[k], st)]
    /\ desk' = [d \in Desks |-> IF desk[d].job = j THEN desk[d] ELSE Aged(desk[d], st)]
    /\ PagesAge(st)

Finish(j) ==
    /\ job[j].status = "running"
    /\ CanRun(job[j].cmd, store)
    /\ \E st \in Effects(job[j].cmd, store) : Settle(j, "done", st)
    /\ UNCHANGED <<daemon, mishaps>>

\* A check that the handler makes first turns the job down.
Reject(j) ==
    /\ job[j].status = "running"
    /\ ~ CanRun(job[j].cmd, store)
    /\ Settle(j, "error", store)
    /\ UNCHANGED <<daemon, mishaps>>

\* The handler raises half-way, or sees that it was cancelled.
Fail(j) ==
    /\ job[j].status = "running"
    /\ CanRun(job[j].cmd, store)
    /\ IF job[j].asked THEN UNCHANGED mishaps
       ELSE mishaps < MaxMishaps /\ mishaps' = mishaps + 1
    /\ \E st \in Partials(job[j].cmd, store) :
           Settle(j, IF job[j].asked THEN "cancelled" ELSE "error", st)
    /\ UNCHANGED daemon

\* By id; a job that has ended is left alone.
Cancel(j) ==
    /\ mishaps < MaxMishaps /\ mishaps' = mishaps + 1
    /\ job[j].status \in {"queued", "running"}
    /\ ~ job[j].asked
    /\ job' = [job EXCEPT ![j] = IF @.status = "queued"
                                 THEN Over(j, "cancelled", NothingPaused)
                                 ELSE [@ EXCEPT !.asked = TRUE]]
    /\ UNCHANGED <<desk, pages, store, daemon>>

(***************************************************************************)
(* The command line                                                        *)
(***************************************************************************)
Ready(s) == desk[s].at \in {"idle", "left"} /\ Serving

Misuse(s, c) ==
    /\ Ready(s) /\ Misused(c)
    /\ desk' = [desk EXCEPT ![s] = Left(2)]
    /\ UNCHANGED <<pages, job, store, daemon, mishaps>>

Refuse(s, c) ==
    /\ Ready(s) /\ ~ Misused(c) /\ Refused(c)
    /\ desk' = [desk EXCEPT ![s] = Left(1)]
    /\ UNCHANGED <<pages, job, store, daemon, mishaps>>

\* Registering is done at once, with or without a scan to follow.
Register(s, c) ==
    /\ Ready(s) /\ c.verb = "register" /\ ~ Refused(c) /\ ~ Is(c, "scan")
    /\ desk' = [desk EXCEPT ![s] = Left(0)]
    /\ UNCHANGED <<pages, job, store, daemon, mishaps>>

\* One request, one job; a sweep of probes is reported and not watched.
Submit(s, c) ==
    LET order == IF c.verb = "register" THEN [c EXCEPT !.verb = "scan", !.flags = {"all"}]
                 ELSE c
        leaves == ~ OneShot(c) /\ (Is(c, "detach") \/ (c.verb = "probe" /\ Is(c, "all")))
    IN  /\ Ready(s) /\ ~ Misused(c) /\ ~ Refused(c)
        /\ c.verb = "register" => Is(c, "scan")
        /\ Len(job) < MaxJobs
        /\ job' = Enqueued(order, Unseen, TRUE)
        /\ desk' = [desk EXCEPT ![s] =
               IF leaves THEN Left(0)
               ELSE [Free EXCEPT !.at = "watching", !.cmd = order, !.job = Len(job) + 1,
                                 !.seen = [Unseen EXCEPT !.files = store.inbox]]]
        /\ UNCHANGED <<pages, store, daemon, mishaps>>

\* The stream ends with the job, or with the daemon that is being stopped.
StreamOver(s) ==
    /\ desk[s].at = "watching"
    /\ job[desk[s].job].status \in Ended \/ daemon = "stopping"
    /\ desk' = [desk EXCEPT ![s] = [@ EXCEPT !.at = "checking"]]
    /\ UNCHANGED <<pages, job, store, daemon, mishaps>>

Previewing(s) == OneShot(desk[s].cmd) /\ ~ Is(desk[s].cmd, "apply")

\* Mutant: a cancelled job counts as a success.
LenientExit(status) == IF status \in Failed \ {"cancelled"} THEN 1 ELSE 0

ExitCode(status) == IF status \in Failed THEN 1 ELSE 0

Leave(s) ==
    LET status == job[desk[s].job].status IN
    /\ desk[s].at = "checking"
    /\ ~ Previewing(s)
    /\ desk' = [desk EXCEPT ![s] = [Left(ExitCode(status)) EXCEPT !.job = desk[s].job]]
    /\ UNCHANGED <<pages, job, store, daemon, mishaps>>

\* Only a preview that ended well is followed by a count.
PreviewDone(s) ==
    /\ desk[s].at = "checking"
    /\ Previewing(s)
    /\ desk' = [desk EXCEPT ![s] = IF job[@.job].status = "done"
                                   THEN [@ EXCEPT !.at = "counting"] ELSE Left(1)]
    /\ UNCHANGED <<pages, job, store, daemon, mishaps>>

\* The count is taken from the catalog, not from the preview's report.
Count(d) ==
    LET found == Matches(Mode(desk[d].cmd), store) IN
    /\ desk[d].at = "counting"
    /\ desk' = [desk EXCEPT ![d] =
           IF found # {} THEN [@ EXCEPT !.at = "asking", !.job = 0, !.fresh = TRUE,
                                        !.seen = [Unseen EXCEPT !.files = found]]
           ELSE IF d = "tui" THEN Free ELSE Left(0)]
    /\ UNCHANGED <<pages, job, store, daemon, mishaps>>

\* The count was typed, or --yes given in advance.
Approve(s) ==
    LET order == [desk[s].cmd EXCEPT !.flags = @ \cup {"apply"}] IN
    /\ desk[s].at = "asking"
    /\ Len(job) < MaxJobs
    /\ job' = Enqueued(order, desk[s].seen, desk[s].fresh)
    /\ desk' = [desk EXCEPT ![s] = [Free EXCEPT !.at = "watching", !.cmd = order,
                                                !.job = Len(job) + 1]]
    /\ UNCHANGED <<pages, store, daemon, mishaps>>

Decline(s) ==
    /\ desk[s].at = "asking"
    /\ ~ Is(desk[s].cmd, "yes")
    /\ desk' = [desk EXCEPT ![s] = Left(1)]
    /\ UNCHANGED <<pages, job, store, daemon, mishaps>>

CtrlC(s) ==
    /\ desk[s].at = "watching"
    /\ desk' = [desk EXCEPT ![s] = IF Previewing(s) THEN Left(1) ELSE Left(0)]
    /\ UNCHANGED <<pages, job, store, daemon, mishaps>>

\* A request to a daemon that is gone raises, and the command dies of it.
Lost(s) ==
    /\ daemon = "stopping"
    /\ desk[s].at \notin {"idle", "left"}
    /\ desk' = [desk EXCEPT ![s] = Left(1)]
    /\ UNCHANGED <<pages, job, store, daemon, mishaps>>

(***************************************************************************)
(* The terminal interface.  It submits and goes on; only the count of a    *)
(* cleanup and the look at a review keep it.                               *)
(***************************************************************************)
TuiFree == desk["tui"].at = "idle"

TuiSubmit(c) ==
    /\ TuiFree /\ Serving
    /\ Len(job) < MaxJobs
    /\ job' = Enqueued(c, Unseen, TRUE)
    /\ UNCHANGED <<desk, pages, store, daemon, mishaps>>

\* An exact cleanup runs its preview first, for the refresh; the other counts.
TuiCleanup(mode) ==
    LET c == Command("cleanup", {mode}) IN
    /\ TuiFree /\ Serving
    /\ IF mode = "exact"
       THEN /\ Len(job) < MaxJobs
            /\ job' = Enqueued(c, Unseen, TRUE)
            /\ desk' = [desk EXCEPT !["tui"] = [Free EXCEPT !.at = "watching", !.cmd = c,
                                                            !.job = Len(job) + 1]]
       ELSE /\ desk' = [desk EXCEPT !["tui"] = [Free EXCEPT !.at = "counting", !.cmd = c]]
            /\ UNCHANGED job
    /\ UNCHANGED <<pages, store, daemon, mishaps>>

\* A stream that ended, however its job ended, and one that dropped before.
TuiStreamOver ==
    /\ desk["tui"].at = "watching"
    /\ desk' = [desk EXCEPT !["tui"] = [@ EXCEPT !.at = "counting"]]
    /\ UNCHANGED <<pages, job, store, daemon, mishaps>>

ReviewOrders == {{"confirm"}, {"cancel"}, {"confirm", "keep"}}

Ask(order, verb, stage, fresh) ==
    desk' = [desk EXCEPT !["tui"] =
        [Free EXCEPT !.at = "asking",
                     !.cmd = Command(verb, IF verb = "cleanup" THEN order \cup {"perceptual"}
                                           ELSE order),
                     !.seen = [Unseen EXCEPT !.op = verb, !.stage = stage],
                     !.fresh = fresh]]

\* A job's card shows the stage at which that job paused; whether the review is
\* still there is computed when the row is read.
CardState(j) ==
    LET p == job[j].paused IN
    IF p.run = 0 THEN "none"
    ELSE IF store.review.op = "none" \/ store.review.run # p.run THEN "closed"
    ELSE IF store.review.stage # p.stage THEN "advanced"
    ELSE "current"

CardsIn(state) == {j \in DOMAIN job : CardState(j) = state}

\* A page of job rows, or the root's detail, is fetched anew when the interface
\* polls and has reason to: at any time, or not for long.  (Bound: nothing is
\* fetched or asked once MaxJobs leaves no job for the answer.)
FetchCards ==
    /\ Serving
    /\ Len(job) < MaxJobs
    /\ cards' = [current |-> CardsIn("current"), advanced |-> CardsIn("advanced"), fresh |-> TRUE]
    /\ UNCHANGED <<desk, box, job, store, daemon, mishaps>>

FetchBox ==
    /\ Serving
    /\ Len(job) < MaxJobs
    /\ box' = [op |-> store.review.op, stage |-> store.review.stage, fresh |-> TRUE]
    /\ UNCHANGED <<desk, cards, job, store, daemon, mishaps>>

\* The review box of the root's page offers the stage that was pending then.
TuiReviewBox(order) ==
    /\ TuiFree
    /\ Len(job) < MaxJobs
    /\ box.op # "none"
    /\ order \in ReviewOrders
    /\ "keep" \in order => box.op = "dedup" /\ box.stage = 2
    /\ Ask(order, box.op, box.stage, box.fresh)
    /\ UNCHANGED <<pages, job, store, daemon, mishaps>>

\* Mutant: the card offers whatever the job paused at as long as the run is open.
LooseOffers(j) ==
    IF j \in cards.current \cup cards.advanced THEN {{"confirm"}, {"cancel"}} ELSE {}

\* What the fetched row says of the review, not what has become of it.
Offers(j) ==
    CASE j \in cards.current  -> {{"confirm"}, {"cancel"}}
      [] j \in cards.advanced -> {{"cancel"}}
      [] OTHER -> {}

\* A card keeps the row it was opened with, and so does its question: opening
\* and answering at one moment reads what they would read at two.
TuiCard(j, order) ==
    /\ TuiFree
    /\ Len(job) < MaxJobs
    /\ order \in Offers(j)
    /\ Ask(order, job[j].paused.op, job[j].paused.stage, cards.fresh)
    /\ UNCHANGED <<pages, job, store, daemon, mishaps>>

\* The answer carries no stage and no files: the job finds out for itself.
TuiAnswer(yes) ==
    LET d == desk["tui"] IN
    /\ d.at = "asking"
    /\ IF yes /\ Serving
       THEN /\ Len(job) < MaxJobs
            /\ job' = Enqueued(IF OneShot(d.cmd) THEN [d.cmd EXCEPT !.flags = @ \cup {"apply"}]
                               ELSE d.cmd, d.seen, d.fresh)
       ELSE UNCHANGED job
    /\ desk' = [desk EXCEPT !["tui"] = Free]
    /\ UNCHANGED <<pages, store, daemon, mishaps>>

(***************************************************************************)
(* The rest of the world                                                   *)
(***************************************************************************)
\* The user drops a copy of a library file into the trash folder.
Drop(f) ==
    /\ mishaps < MaxMishaps /\ mishaps' = mishaps + 1
    /\ f \notin store.inbox \cup store.trashed
    /\ store' = [store EXCEPT !.inbox = @ \cup {f}]
    /\ UNCHANGED <<desk, pages, job, daemon>>

Stop ==
    /\ Serving
    /\ mishaps < MaxMishaps /\ mishaps' = mishaps + 1
    /\ daemon' = "stopping"
    /\ UNCHANGED <<desk, pages, job, store>>

\* A new daemon writes off the job that ran, and the queued ones that would
\* delete: a deletion must not begin unattended.  The rest of the backlog stays.
Restart ==
    LET ran    == {j \in DOMAIN job : job[j].status = "running"}
        carved == {j \in DOMAIN job : /\ job[j].status = "queued"
                                      /\ Leaf(job[j].cmd) \in {"confirm", "apply"}}
    IN  /\ daemon = "stopping" /\ daemon' = "restarted"
        /\ \E st \in {store} \cup UNION {IF CanRun(job[j].cmd, store)
                                         THEN Partials(job[j].cmd, store)
                                         ELSE {store} : j \in ran} :
              /\ store' = st
              /\ job' = [k \in DOMAIN job |->
                     IF k \in ran \cup carved THEN Over(k, "interrupted", NothingPaused)
                     ELSE Aged(job[k], st)]
              /\ desk' = [d \in Desks |-> Aged(desk[d], st)]
              /\ PagesAge(st)
        /\ UNCHANGED mishaps

ShellStep(s) ==
    \/ \E c \in Commands : Misuse(s, c) \/ Refuse(s, c) \/ Register(s, c) \/ Submit(s, c)
    \/ StreamOver(s) \/ Leave(s) \/ PreviewDone(s) \/ Approve(s) \/ Decline(s)
    \/ CtrlC(s) \/ Lost(s)

TuiStep ==
    \/ \E c \in Menu : TuiSubmit(c)
    \/ \E m \in {"exact", "undecodable"} : TuiCleanup(m)
    \/ TuiStreamOver \/ FetchCards \/ FetchBox
    \/ \E order \in ReviewOrders : TuiReviewBox(order)
                                   \/ \E j \in DOMAIN job : TuiCard(j, order)
    \/ \E yes \in BOOLEAN : TuiAnswer(yes)

DeskNext ==
    \/ \E j \in DOMAIN job : Run(j) \/ Finish(j) \/ Reject(j) \/ Fail(j) \/ Cancel(j)
    \/ \E s \in Shells : ShellStep(s)
    \/ TuiStep
    \/ \E d \in Desks : Count(d)
    \/ \E f \in Files : Drop(f)
    \/ Stop \/ Restart

DeskSpec == DeskInit /\ [][DeskNext]_deskVars

(***************************************************************************)
(* Properties                                                              *)
(***************************************************************************)
\* The job ends well in this step.
Succeeds(j) == /\ j \in DOMAIN job
               /\ job[j].status = "running" /\ job'[j].status = "done"

\* The deletion removes no file but those that were counted, and leaves none of
\* them but those that cannot be moved to the bin (the failed delete is logged and
\* the job ends done), as long as no other job changed the catalog after the count;
\* a file the user drops into the trash folder meanwhile changes nothing
\* (cleanup_exact_preview in queries.py: "the count the user approves before the
\* apply job deletes").
CountIsHonoured ==
    [][\A j \in 1..MaxJobs :
          (Succeeds(j) /\ Leaf(job[j].cmd) = "apply" /\ job[j].fresh)
          => LET gone == store.lib \ store'.lib
             IN  gone \subseteq job[j].seen.files /\ job[j].seen.files \ gone \subseteq Stuck
      ]_deskVars

\* A stage confirmed from the terminal interface is the stage it showed, whatever
\* older cards of the same run are still around, as long as no other job changed
\* the catalog since the card or the box was fetched (review_ui in
\* tui/screens/jobcard.py: confirming from an older card would "apply a different
\* stage than the card depicts").
StageIsHonoured ==
    [][\A j \in 1..MaxJobs :
          (Succeeds(j) /\ Leaf(job[j].cmd) = "confirm" /\ job[j].fresh
             /\ job[j].seen.op # "none")
          => <<store.review.op, store.review.stage>> =
             <<job[j].seen.op, job[j].seen.stage>>]_deskVars

\* A card offers to confirm only the stage at which its run stands: "a stale
\* analyze/confirm card never offers actions for a stage that was already confirmed
\* or a run that finished" (JobCard._review_ui in tui/frames/jobcard.py).  The row
\* it was opened with may be older than that.
CardKnowsItsStage ==
    [][\A j \in DOMAIN job : TuiCard(j, {"confirm"}) => CardState(j) = "current"]_deskVars

\* A command that watched its job and left with 0 watched a job that is done,
\* unless the daemon was stopped (_exit_if_failed in cli/main.py: `packrat scan &&
\* packrat dedup` must not go on after a failure).
ExitTellsTruth ==
    \A s \in Shells :
        (desk[s].at = "left" /\ desk[s].exit = 0 /\ desk[s].job # 0 /\ daemon = "up")
        => job[desk[s].job].status = "done"

\* A dry run takes nothing out of the library ("Report what would be
\* deleted/staged; delete nothing"): not so beside --confirm, see the README.
DryRunDeletesNothing ==
    [][\A j \in 1..MaxJobs :
          (/\ j \in DOMAIN job /\ job[j].status = "running" /\ job'[j].status # "running"
           /\ Is(job[j].cmd, "dry"))
          => store'.lib = store.lib]_deskVars
=============================================================================
