---------------------------- MODULE QueueScreen -----------------------------
(***************************************************************************)
(* The Queue screen of the terminal interface over the daemon's job table. *)
(* Two timers fetch the live jobs in threads of their own, one cheaply and *)
(* one with the statistics, and hand what they read to the user interface; *)
(* the finished jobs are fetched a page at a time.  Keys act on the row    *)
(* under the cursor of what was fetched last, a question may stand between *)
(* the key and its effect, and meanwhile the daemon goes on.               *)
(*                                                                         *)
(* Which queued job the daemon may start is left open (a job can be        *)
(* blocked by its root).  A step of the user interface's thread is atomic, *)
(* the daemon call it makes included; a fetch is not: the server runs one  *)
(* SELECT after another, and the result is applied later.                  *)
(***************************************************************************)
EXTENDS Naturals, Sequences, FiniteSets, SequencesExt, FiniteSetsExt

CONSTANTS MaxJobs,      \* jobs are submitted with the ids 1 .. MaxJobs
          Loads,        \* history fetches that may be under way at a time
          Geometries,   \* window heights the terminal can take
          Reference,    \* the smallest, those of 100 x 24
          Plans         \* how often each of Limited happens, in one session

JobIds == 1 .. MaxJobs

\* Keys, a terminal that changes its size, a request that fails, and the slow
\* timer: what a plan bounds.
Limited == {"focus", "move", "page", "cancel", "cancel all", "prioritize",
           "resize", "failure", "full"}

ASSUME ScreenAssumption ==
    /\ MaxJobs \in Nat \ {0}
    /\ Loads # {} /\ Loads \cap {"full", "live"} = {}
    /\ Reference \in Geometries
    /\ Geometries \subseteq [queued : Nat, recent : Nat \ {0}]
    /\ Plans \subseteq [Limited -> Nat]

Nobody   == 0
Lists    == {"running", "queued"}
Sections == Lists \cup {"history"}
Polls    == {"full", "live"}

VARIABLES
    table,      \* each job's status and priority
    snapshot,   \* the running job and the backlog as last applied
    thread,     \* the fetching threads
    screen,     \* the Queue screen: focus, cursors, pages, the loaded history
    geo,        \* the window heights of the frame
    modal,      \* the question that is open, and the job it names
    cancelled,  \* jobs this user has had cancelled one by one
    left        \* how often each of Limited may still happen

screenVars == <<table, snapshot, thread, screen, geo, modal, cancelled, left>>

daemon == <<table, cancelled>>
ui     == <<snapshot, screen, geo, modal>>

NoLive   == [running |-> Nobody, queued |-> <<>>]
Resting  == [at |-> "idle", running |-> Nobody, queued |-> <<>>,
             total |-> 0]
NoModal  == [kind |-> "none", job |-> Nobody]

With(status) == {j \in JobIds : table[j].status = status}

(***************************************************************************)
(* What the server answers.                                                *)
(***************************************************************************)
\* priority DESC, enqueued_at, id
Before(i, j) == \/ table[i].priority > table[j].priority
                \/ table[i].priority = table[j].priority /\ i < j

Backlog ==
    CHOOSE s \in SetToSeqs(With("queued")) : \A i, j \in DOMAIN s : i < j => Before(s[i], s[j])

Running  == IF With("running") = {} THEN Nobody
            ELSE CHOOSE j \in With("running") : TRUE

(***************************************************************************)
(* Paging.                                                                 *)
(***************************************************************************)
PageCount(n, rows) == IF rows = 0 THEN 1 ELSE Max({1, (n + rows - 1) \div rows})

Clamp(x, top) == IF x > top THEN top ELSE x

ReanchorPage(page, oldRows, newRows, total) ==
    Clamp((page * oldRows) \div newRows, PageCount(total, newRows) - 1)

\* The jobs of a section; which rows the history holds is not kept.
SectionJobs(section) ==
    CASE section = "running" /\ snapshot.running # Nobody -> <<snapshot.running>>
      [] section = "queued" -> snapshot.queued
      [] OTHER -> <<>>

SectionRows(section) ==
    CASE section = "running" -> 1
      [] section = "queued"  -> geo.queued
      [] section = "history" -> geo.recent

Selected ==
    LET jobs == SectionJobs(screen.focus) IN
    IF screen.focus \in Lists /\ screen.cursor[screen.focus] < Len(jobs)
    THEN jobs[screen.cursor[screen.focus] + 1] ELSE Nobody

(***************************************************************************)
(* Starting a history fetch: reload(scr, live, g, thr) is the screen and   *)
(* the threads once the page of scr is asked for under the heights g and   *)
(* the live jobs live.  The new thread does not stop an older one; two may *)
(* be under way.                                                           *)
(***************************************************************************)
FreeLoads(thr) == {t \in Loads : thr[t].at = "idle"}

Anchored(scr, live, g) ==
    LET moved == scr.window # 0 /\ scr.window # g.recent
    IN  [scr EXCEPT
            !.seen   = live,
            !.page   = [@ EXCEPT !.history = IF moved
                           THEN ReanchorPage(@, scr.window, g.recent, scr.total) ELSE @],
            !.window = g.recent]

Fetching(thr) ==
    [thr EXCEPT ![CHOOSE t \in FreeLoads(thr) : TRUE] = [Resting EXCEPT !.at = "asked"]]

\* The screen comes up with its first frame drawn and nothing fetched yet.
ScreenInit ==
    /\ table = [j \in JobIds |-> [status |-> "none", priority |-> 0]]
    /\ snapshot = NoLive
    /\ geo = Reference
    /\ screen = [focus |-> "running", cursor |-> [s \in Lists |-> 0],
                 page |-> [s \in Sections |-> 0], total |-> 0,
                 window |-> geo.recent, seen |-> NoLive]
    /\ thread = Fetching([t \in Polls \cup Loads |->
                            IF t = "full" THEN [Resting EXCEPT !.at = "asked"]
                            ELSE Resting])
    /\ modal = NoModal
    /\ cancelled = {}
    /\ left \in Plans

Spend(e) == /\ left[e] > 0
            /\ left' = [left EXCEPT ![e] = @ - 1]

(***************************************************************************)
(* The daemon, and its other clients.                                      *)
(***************************************************************************)
Submit ==
    /\ With("none") # {}
    /\ table' = [table EXCEPT ![Min(With("none"))] = [@ EXCEPT !.status = "queued"]]
    /\ UNCHANGED <<cancelled, ui, thread, left>>

StartJob(j) ==
    /\ table[j].status = "queued"
    /\ With("running") = {}
    /\ table' = [table EXCEPT ![j] = [@ EXCEPT !.status = "running"]]
    /\ UNCHANGED <<cancelled, ui, thread, left>>

\* It finishes, fails, is interrupted, or another client has it cancelled.
EndJob(j) ==
    /\ table[j].status \in {"queued", "running"}
    /\ table' = [table EXCEPT ![j] = [@ EXCEPT !.status = "over"]]
    /\ UNCHANGED <<cancelled, ui, thread, left>>

(***************************************************************************)
(* The polling threads.                                                    *)
(***************************************************************************)
\* refresh_live on its timer.  When the request is made does not matter,
\* only when the server reads: the running job first.
PollLive ==
    /\ thread["live"].at = "idle"
    /\ thread' = [thread EXCEPT !["live"] =
           [Resting EXCEPT !.at = "half", !.running = Running]]
    /\ UNCHANGED <<daemon, ui, left>>

\* refresh_data on its timer; other full refreshes follow a command.
PollFull ==
    /\ thread["full"].at = "idle"
    /\ Spend("full")
    /\ thread' = [thread EXCEPT !["full"] = [Resting EXCEPT !.at = "asked"]]
    /\ UNCHANGED <<daemon, ui>>

\* Mutant: the full fetch reads the backlog before the running job.
ReadLiveBackwards(t) ==
    /\ \/ /\ thread[t].at = "asked"
          /\ thread' = [thread EXCEPT ![t] = [@ EXCEPT !.at = "half", !.queued = Backlog]]
       \/ /\ thread[t].at = "half"
          /\ thread' = [thread EXCEPT ![t] = [@ EXCEPT !.at = "apply", !.running = Running]]
    /\ UNCHANGED <<daemon, ui, left>>

\* live_jobs: two statements on one connection, each a snapshot of its own.
ReadLive(t) ==
    /\ \/ /\ thread[t].at = "asked"
          /\ thread' = [thread EXCEPT ![t] = [@ EXCEPT !.at = "half", !.running = Running]]
       \/ /\ thread[t].at = "half"
          /\ thread' = [thread EXCEPT ![t] = [@ EXCEPT !.at = "apply", !.queued = Backlog]]
    /\ UNCHANGED <<daemon, ui, left>>

\* An unreachable daemon reads as one with nothing to do, or that did nothing.
Fail(t) ==
    /\ thread[t].at \in {"asked", "half"}
    /\ Spend("failure")
    /\ thread' = [thread EXCEPT ![t] = [Resting EXCEPT !.at = "apply"]]
    /\ UNCHANGED <<daemon, ui>>

\* Mutant: live jobs are applied only while no question is open.
ApplyLiveOnTop(t) ==
    /\ thread[t].at = "apply"
    /\ LET live == [running |-> thread[t].running, queued |-> thread[t].queued]
           rest == [thread EXCEPT ![t] = Resting]
       IN  /\ snapshot' = IF modal = NoModal THEN live ELSE snapshot
           /\ IF modal = NoModal /\ live # screen.seen
              THEN /\ FreeLoads(rest) # {}
                   /\ screen' = Anchored(screen, live, geo)
                   /\ thread' = Fetching(rest)
              ELSE /\ thread' = rest
                   /\ UNCHANGED screen
    /\ UNCHANGED <<daemon, geo, modal, left>>

\* The history page is asked for again when the live jobs differ from those
\* it was asked for under; under a question no screen reloads.
ApplyLive(t) ==
    /\ thread[t].at = "apply"
    /\ LET live == [running |-> thread[t].running, queued |-> thread[t].queued]
           rest == [thread EXCEPT ![t] = Resting]
       IN  /\ snapshot' = live
           /\ IF modal = NoModal /\ live # screen.seen
              THEN /\ FreeLoads(rest) # {}
                   /\ screen' = Anchored(screen, live, geo)
                   /\ thread' = Fetching(rest)
              ELSE /\ thread' = rest
                   /\ UNCHANGED screen
    /\ UNCHANGED <<daemon, geo, modal, left>>

(***************************************************************************)
(* The history threads.                                                    *)
(***************************************************************************)
\* recent_jobs, then jobs_count: the second is the number the pages go by.
ReadHistory(t) ==
    /\ thread[t].at = "asked"
    /\ thread' = [thread EXCEPT ![t] =
           [@ EXCEPT !.at = "apply", !.total = Cardinality(With("over"))]]
    /\ UNCHANGED <<daemon, ui, left>>

ApplyHistory(t) ==
    /\ thread[t].at = "apply"
    /\ screen' = [screen EXCEPT !.total = thread[t].total]
    /\ thread' = [thread EXCEPT ![t] = Resting]
    /\ UNCHANGED <<daemon, snapshot, geo, modal, left>>

(***************************************************************************)
(* The user.  Keys that move also reach the screen under a question.       *)
(***************************************************************************)
Resize(g) ==
    /\ Spend("resize")
    /\ g # geo
    /\ geo' = g
    /\ IF g.recent = screen.window
       THEN UNCHANGED <<screen, thread>>
       ELSE /\ FreeLoads(thread) # {}
            /\ screen' = Anchored(screen, snapshot, g)
            /\ thread' = Fetching(thread)
    /\ UNCHANGED <<daemon, snapshot, modal>>

FocusSection(s) ==
    /\ Spend("focus")
    /\ s # screen.focus
    /\ screen' = [screen EXCEPT !.focus = s]
    /\ UNCHANGED <<daemon, snapshot, geo, modal, thread>>

\* The cursor follows the arrow within its section, and the page the cursor.
Move(down) ==
    /\ Spend("move")
    /\ screen.focus \in Lists
    /\ LET s    == screen.focus
           n    == Len(SectionJobs(s))
           at   == screen.cursor[s]
           to   == IF down THEN at + 1 ELSE IF at = 0 THEN 0 ELSE at - 1
           cur  == IF n = 0 THEN 0 ELSE Clamp(to, n - 1)
           rows == SectionRows(s)
       IN  screen' = [screen EXCEPT
               !.cursor = [@ EXCEPT ![s] = cur],
               !.page   = [@ EXCEPT ![s] = IF rows = 0 THEN 0 ELSE cur \div rows]]
    /\ UNCHANGED <<daemon, snapshot, geo, modal, thread>>

Turned(at, down, pages) ==
    Clamp(IF down THEN at + 1 ELSE IF at = 0 THEN 0 ELSE at - 1, pages - 1)

\* Another page of a live section: the cursor goes to its first row.
Page(down) ==
    /\ Spend("page")
    /\ screen.focus \in Lists
    /\ LET s     == screen.focus
           n     == Len(SectionJobs(s))
           rows  == SectionRows(s)
           new   == Turned(screen.page[s], down, PageCount(n, rows))
           first == Clamp(new * rows, IF n = 0 THEN 0 ELSE n - 1)
       IN  /\ new # screen.page[s]
           /\ screen' = [screen EXCEPT !.page   = [@ EXCEPT ![s] = new],
                                      !.cursor = [@ EXCEPT ![s] = first]]
    /\ UNCHANGED <<daemon, snapshot, geo, modal, thread>>

\* Another page of the history is fetched.
PageHistory(down) ==
    /\ Spend("page")
    /\ screen.focus = "history"
    /\ FreeLoads(thread) # {}
    /\ LET at  == screen.page.history
           new == Turned(at, down, PageCount(screen.total, geo.recent))
       IN  /\ new # at
           /\ screen' = Anchored([screen EXCEPT !.page = [@ EXCEPT !.history = new]],
                                 snapshot, geo)
           /\ thread' = Fetching(thread)
    /\ UNCHANGED <<daemon, snapshot, geo, modal>>

\* [c]: the row says queued or running (the history has no such row).
AskCancel ==
    /\ Spend("cancel")
    /\ modal = NoModal
    /\ screen.focus # "history"
    /\ Selected # Nobody
    /\ modal' = [kind |-> "one", job |-> Selected]
    /\ UNCHANGED <<daemon, snapshot, screen, geo, thread>>

\* [x]
AskCancelAll ==
    /\ Spend("cancel all")
    /\ modal = NoModal
    /\ snapshot.queued # <<>>
    /\ modal' = [kind |-> "all", job |-> Nobody]
    /\ UNCHANGED <<daemon, snapshot, screen, geo, thread>>

\* What submit() is followed by: a full refresh, unless one is under way.
Refreshed == IF thread["full"].at = "idle"
             THEN [thread EXCEPT !["full"] = [Resting EXCEPT !.at = "asked"]]
             ELSE thread

\* [p] asks nothing.
Prioritize ==
    /\ Spend("prioritize")
    /\ modal = NoModal
    /\ screen.focus = "queued"
    /\ LET j == Selected IN
       /\ j # Nobody
       /\ table' = IF table[j].status # "queued" THEN table
                   ELSE [table EXCEPT ![j] = [@ EXCEPT !.priority =
                            Max({table[k].priority : k \in With("queued")}) + 1]]
    /\ thread' = Refreshed
    /\ UNCHANGED <<cancelled, ui>>

\* A running job is asked to stop and ends later; a queued one is dropped.
Cancelled(j) ==
    /\ cancelled' = IF table[j].status \in {"queued", "running"} THEN cancelled \cup {j}
                   ELSE cancelled
    /\ table' = IF table[j].status = "queued"
                THEN [table EXCEPT ![j] = [@ EXCEPT !.status = "over"]] ELSE table

CancelledAll ==
    /\ table' = [j \in JobIds |-> IF table[j].status = "queued"
                                  THEN [table[j] EXCEPT !.status = "over"] ELSE table[j]]
    /\ UNCHANGED cancelled

\* Mutant: the key's target is looked up when the question is answered.
YesToSelected ==
    /\ modal # NoModal
    /\ \/ modal.kind = "one" /\ Selected # Nobody /\ Cancelled(Selected)
       \/ modal.kind = "all" /\ CancelledAll
    /\ modal' = NoModal
    /\ thread' = Refreshed
    /\ UNCHANGED <<snapshot, screen, geo, left>>

\* The target is the job the question was opened for.
Yes ==
    /\ modal # NoModal
    /\ \/ modal.kind = "one" /\ Cancelled(modal.job)
       \/ modal.kind = "all" /\ CancelledAll
    /\ modal' = NoModal
    /\ thread' = Refreshed
    /\ UNCHANGED <<snapshot, screen, geo, left>>

\* The call fails: a toast and no refresh.
YesFails ==
    /\ modal # NoModal
    /\ Spend("failure")
    /\ modal' = NoModal
    /\ UNCHANGED <<daemon, snapshot, screen, geo, thread>>

No ==
    /\ modal # NoModal
    /\ modal' = NoModal
    /\ UNCHANGED <<daemon, snapshot, screen, geo, thread, left>>

DaemonStep == Submit \/ \E j \in JobIds : StartJob(j) \/ EndJob(j)

PollStep(t) == ReadLive(t) \/ Fail(t) \/ ApplyLive(t)
LoadStep(t) == ReadHistory(t) \/ Fail(t) \/ ApplyHistory(t)

UserStep == \/ \E g \in Geometries : Resize(g)
            \/ \E s \in Sections : FocusSection(s)
            \/ \E down \in BOOLEAN : Move(down) \/ Page(down) \/ PageHistory(down)
            \/ AskCancel \/ AskCancelAll \/ Prioritize
            \/ Yes \/ YesFails \/ No

ScreenNext == \/ DaemonStep
              \/ PollLive
              \/ PollFull
              \/ \E t \in Polls : PollStep(t)
              \/ \E t \in Loads : LoadStep(t)
              \/ UserStep

\* The timers fire and the threads run; neither daemon nor user must act.
ScreenFairness == /\ WF_screenVars(PollLive)
                  /\ \A t \in Polls : WF_screenVars(PollStep(t))
                  /\ \A t \in Loads : WF_screenVars(LoadStep(t))

ScreenSpec == ScreenInit /\ [][ScreenNext]_screenVars /\ ScreenFairness

-----------------------------------------------------------------------------
Ids  == JobIds \cup {Nobody}
Live == [running : Ids, queued : Seq(JobIds)]

\* queries.py:75 "a job can't show running in one section and queued in
\* another from the same fetch", although the two are separate statements
\* that read the table at different moments, and a prioritised job may start
\* in between.
LiveNeverTwice == snapshot.running \notin ToSet(snapshot.queued)

\* Only the job the user was asked about is cancelled, whatever the polls
\* put under the cursor while the question was open.
CancelsTheNamed == [][\A j \in cancelled' \ cancelled : modal.kind = "one" /\ modal.job = j]_screenVars

\* Once the daemon has settled the screen comes to show its live jobs and
\* keeps showing them: neither a slow full fetch that overwrote a newer live
\* one, nor a failed request, nor a question left open, is the last word.
LiveCatchesUp == <>[](snapshot = [running |-> Running, queued |-> Backlog])

\* app.py:270 "a slow stats poll never clobbers a fresher live fetch" and
\* queuemax.py:70 "changes exactly when a job enters/leaves": the history
\* page comes to agree with the table.  It need not.
HistoryCatchesUp ==
    <>[](modal = NoModal => screen.total = Cardinality(With("over")))
=============================================================================
