----------------------------- MODULE JobStream ------------------------------
(***************************************************************************)
(* The event stream of a job, from the worker that broadcasts to the two   *)
(* clients that listen: the command line, which watches the job it         *)
(* submitted and turns its end into an exit code, and the terminal         *)
(* interface, which follows whichever job runs.                            *)
(*                                                                         *)
(* A subscriber's queue is bounded and drops the newest event when it is   *)
(* full, the end marker among them, so a stream must also end by looking   *)
(* at the job's row when nothing has arrived for a while, and a client     *)
(* must take the final status from the row and not from the last event.    *)
(*                                                                         *)
(* A reply of the server and its receipt are one step: a slow client is a  *)
(* Deliver that does not happen while the queue fills.  Nothing that the   *)
(* worker does after the server stopped serving is modelled, no client can *)
(* see it.                                                                 *)
(***************************************************************************)
EXTENDS Naturals, Sequences, FiniteSets

CONSTANTS Jobs,          \* jobs in the backlog
          Mine,          \* the one the command line submitted
          Feeds,         \* streams the terminal interface may hold at a time
          Cap,           \* events a subscriber's queue holds (1000 in the code)
          MaxProgress    \* progress events a job sends

ASSUME StreamAssumption ==
    /\ Mine \in Jobs
    /\ Cap \in Nat \ {0}
    /\ MaxProgress \in Nat
    /\ "cli" \notin Feeds

Outcomes == {"done", "error", "cancelled"}
Streams  == Feeds \cup {"cli"}
NoJob    == "nothing"
Events   == {"queued", "running", "progress", "log", "end"} \cup Outcomes

VARIABLES
    row,       \* status of each job in the jobs table
    worker,    \* the worker thread: its job, where it is, what it has sent
    asked,     \* the running job, once its cancel event is set
    stream,    \* the server's side of each stream
    reading,   \* streams whose client is still iterating
    cli,       \* the command that submitted Mine
    tui,       \* the followed job and the "a stream is attached" flag
    serving    \* "up", "stopping" (a stop was asked) or "down"

vars == <<row, worker, asked, stream, reading, cli, tui, serving>>

Idle   == [job |-> NoJob, at |-> "idle", sent |-> 0]
Closed == [job |-> NoJob, at |-> "none", q |-> <<>>, listed |-> FALSE]

Init ==
    /\ row = [j \in Jobs |-> "queued"]
    /\ worker = Idle
    /\ asked = {}
    /\ stream = [s \in Streams |-> Closed]
    /\ reading = {}
    /\ cli = [at |-> "submitted", last |-> "running", final |-> "none"]
    /\ tui = [job |-> NoJob, alive |-> FALSE]
    /\ serving = "up"

Ended(j) == row[j] \in Outcomes

(***************************************************************************)
(* Subscribers.  str is the function stream, before or within a step.      *)
(***************************************************************************)
\* A full queue drops what comes, the end marker like any other event.
Push(q, e) == IF Len(q) < Cap THEN Append(q, e) ELSE q

Broadcast(str, j, e) ==
    [s \in Streams |-> IF str[s].listed /\ str[s].job = j
                       THEN [str[s] EXCEPT !.q = Push(@, e)] ELSE str[s]]

CloseSubscribers(str, j) == Broadcast(str, j, "end")

CloseAllSubscribers(str) ==
    [s \in Streams |-> IF str[s].listed
                       THEN [str[s] EXCEPT !.q = Push(@, "end")] ELSE str[s]]

Subscribe(j) == [job |-> j, at |-> "opened", q |-> <<>>, listed |-> TRUE]

\* The stream has ended and its subscriber is off the list.
Unsubscribed == [Closed EXCEPT !.at = "ended"]

(***************************************************************************)
(* The worker: the row is written first, then the event, then the marker   *)
(***************************************************************************)
Start(j) ==
    /\ serving # "down"
    /\ worker.at = "idle"
    /\ row[j] = "queued"
    /\ row' = [row EXCEPT ![j] = "running"]
    /\ worker' = [job |-> j, at |-> "hello", sent |-> 0]
    /\ UNCHANGED <<asked, stream, reading, cli, tui, serving>>

\* The configuration is read per job: a bad one ends the job before it ran.
Reject ==
    /\ worker.at = "hello"
    /\ row' = [row EXCEPT ![worker.job] = "error"]
    /\ worker' = [worker EXCEPT !.at = "tell"]
    /\ UNCHANGED <<asked, stream, reading, cli, tui, serving>>

Hello ==
    /\ worker.at = "hello"
    /\ stream' = Broadcast(stream, worker.job, "running")
    /\ worker' = [worker EXCEPT !.at = "work"]
    /\ UNCHANGED <<row, asked, reading, cli, tui, serving>>

Progress ==
    /\ worker.at = "work"
    /\ worker.sent < MaxProgress
    /\ stream' = Broadcast(stream, worker.job, "progress")
    /\ worker' = [worker EXCEPT !.sent = @ + 1]
    /\ UNCHANGED <<row, asked, reading, cli, tui, serving>>

\* The handler returns, raises, or sees the cancel event at a checkpoint.
Finish(o) ==
    /\ worker.at = "work"
    /\ o = "cancelled" => worker.job \in asked
    /\ row' = [row EXCEPT ![worker.job] = o]
    /\ worker' = [worker EXCEPT !.at = "tell", !.sent = 0]
    /\ UNCHANGED <<asked, stream, reading, cli, tui, serving>>

Tell ==
    /\ worker.at = "tell"
    /\ stream' = Broadcast(stream, worker.job, row[worker.job])
    /\ worker' = [worker EXCEPT !.at = "close"]
    /\ UNCHANGED <<row, asked, reading, cli, tui, serving>>

Close ==
    /\ worker.at = "close"
    /\ stream' = CloseSubscribers(stream, worker.job)
    /\ worker' = Idle
    /\ asked' = asked \ {worker.job}
    /\ UNCHANGED <<row, reading, cli, tui, serving>>

\* Cancelling the running job sets its event; a queued job is dropped at once.
CancelRunning(j) ==
    /\ serving # "down"
    /\ worker.job = j
    /\ j \notin asked
    /\ asked' = asked \cup {j}
    /\ stream' = Broadcast(stream, j, "log")
    /\ UNCHANGED <<row, worker, reading, cli, tui, serving>>

CancelQueued(j) ==
    /\ serving # "down"
    /\ row[j] = "queued"
    /\ row' = [row EXCEPT ![j] = "cancelled"]
    /\ stream' = CloseSubscribers(Broadcast(stream, j, "cancelled"), j)
    /\ UNCHANGED <<worker, asked, reading, cli, tui, serving>>

(***************************************************************************)
(* The server's side of one stream                                         *)
(***************************************************************************)
\* The body starts after the subscription: it looks at the row first.  A job
\* that has ended gets its state and no stream, and if the client is gone by
\* then the yield raises before the line that would unsubscribe.
Begin(s) ==
    /\ stream[s].at = "opened"
    /\ stream' = [stream EXCEPT ![s] =
           IF ~ Ended(stream[s].job) THEN [@ EXCEPT !.at = "reading"]
           ELSE IF s \in reading THEN Unsubscribed
           ELSE [@ EXCEPT !.at = "ended"]]
    /\ cli' = IF s = "cli" /\ s \in reading /\ row[stream[s].job] # "running"
              THEN [cli EXCEPT !.last = row[Mine]] ELSE cli
    /\ UNCHANGED <<row, worker, asked, reading, tui, serving>>

\* What the client makes of event e.  The command stops at done and error, a
\* feed at any terminal status and as soon as another job is being followed.
StopsAt(s, e) ==
    IF s = "cli" THEN e \in {"done", "error"}
                 ELSE e \in Outcomes \/ tui.job # stream[s].job

Deliver(s) ==
    LET e == Head(stream[s].q) IN
    /\ stream[s].at = "reading"
    /\ s \in reading
    /\ stream[s].q # <<>>
    /\ e # "end"
    /\ stream' = [stream EXCEPT ![s].q = Tail(@)]
    /\ reading' = IF StopsAt(s, e) THEN reading \ {s} ELSE reading
    /\ cli' = IF s # "cli" THEN cli
              ELSE [cli EXCEPT !.last = IF e \in {"progress", "log"} THEN @ ELSE e,
                               !.at = IF StopsAt(s, e) THEN "checking" ELSE @]
    /\ tui' = IF s # "cli" /\ StopsAt(s, e) THEN [tui EXCEPT !.alive = FALSE] ELSE tui
    /\ UNCHANGED <<row, worker, asked, serving>>

EndMarker(s) ==
    /\ stream[s].at = "reading"
    /\ stream[s].q # <<>>
    /\ Head(stream[s].q) = "end"
    /\ stream' = [stream EXCEPT ![s] = Unsubscribed]
    /\ UNCHANGED <<row, worker, asked, reading, cli, tui, serving>>

\* Mutant: the heartbeat only keeps the connection alive.
KeepaliveOnly(s) ==
    /\ stream[s].at = "reading"
    /\ stream[s].q = <<>>
    /\ UNCHANGED vars

\* Nothing came for a heartbeat: the marker may have been dropped, so the row
\* decides.  A job that is still alive gets a keepalive, which changes nothing.
Heartbeat(s) ==
    /\ stream[s].at = "reading"
    /\ stream[s].q = <<>>
    /\ Ended(stream[s].job)
    /\ stream' = [stream EXCEPT ![s] = Unsubscribed]
    /\ UNCHANGED <<row, worker, asked, reading, cli, tui, serving>>

\* The client is gone: whatever is yielded next raises.
Vanish(s) ==
    /\ stream[s].at = "reading"
    /\ s \notin reading
    /\ stream' = [stream EXCEPT ![s] = Unsubscribed]
    /\ UNCHANGED <<row, worker, asked, reading, cli, tui, serving>>

ServeStream(s) == Begin(s) \/ Deliver(s) \/ EndMarker(s) \/ Heartbeat(s) \/ Vanish(s)

(***************************************************************************)
(* The command line                                                        *)
(***************************************************************************)
CliOpen ==
    /\ cli.at = "submitted"
    /\ serving # "down"
    /\ stream' = [stream EXCEPT !["cli"] = Subscribe(Mine)]
    /\ reading' = reading \cup {"cli"}
    /\ cli' = [cli EXCEPT !.at = "watching"]
    /\ UNCHANGED <<row, worker, asked, tui, serving>>

CliStreamOver ==
    /\ cli.at = "watching"
    /\ stream["cli"].at = "ended"
    /\ serving # "down"
    /\ reading' = reading \ {"cli"}
    /\ cli' = [cli EXCEPT !.at = "checking"]
    /\ UNCHANGED <<row, worker, asked, stream, tui, serving>>

\* Mutant: the last event heard is taken for the final state.
CliTrustsEvents ==
    /\ cli.at = "checking"
    /\ serving # "down"
    /\ cli' = [cli EXCEPT !.at = "left", !.last = "running", !.final = cli.last]
    /\ UNCHANGED <<row, worker, asked, stream, reading, tui, serving>>

\* The final state is taken from the durable record.
CliCheck ==
    /\ cli.at = "checking"
    /\ serving # "down"
    /\ cli' = [cli EXCEPT !.at = "left", !.last = "running", !.final = row[Mine]]
    /\ UNCHANGED <<row, worker, asked, stream, reading, tui, serving>>

CtrlC ==
    /\ cli.at \in {"watching", "checking"}
    /\ reading' = reading \ {"cli"}
    /\ cli' = [cli EXCEPT !.at = "left", !.last = "running", !.final = "detached"]
    /\ UNCHANGED <<row, worker, asked, stream, tui, serving>>

\* The daemon is gone: the request raises and the command dies of it.
CliLost ==
    /\ cli.at # "left"
    /\ serving = "down"
    /\ reading' = reading \ {"cli"}
    /\ cli' = [cli EXCEPT !.at = "left", !.last = "running", !.final = "lost"]
    /\ UNCHANGED <<row, worker, asked, stream, tui, serving>>

CliStep == CliOpen \/ CliStreamOver \/ CliCheck \/ CliLost

(***************************************************************************)
(* The terminal interface                                                  *)
(***************************************************************************)
\* A poll follows the running job; a daemon that does not answer runs none.  A
\* feed is attached when the flag says that none is; asking for one and its
\* thread setting the flag are one step.
Poll ==
    LET running  == {j \in Jobs : serving # "down" /\ row[j] = "running"}
        followed == IF running = {} THEN NoJob ELSE CHOOSE j \in running : TRUE
        attached == tui.alive /\ followed = tui.job
    IN  /\ IF followed = NoJob
           THEN /\ tui' = [tui EXCEPT !.job = NoJob]
                /\ UNCHANGED <<stream, reading>>
           ELSE IF attached THEN UNCHANGED <<tui, stream, reading>>
           ELSE \E s \in Feeds :
                  /\ s \notin reading
                  /\ stream[s].at \in {"none", "ended"}
                  /\ stream' = [stream EXCEPT ![s] = Subscribe(followed)]
                  /\ reading' = reading \cup {s}
                  /\ tui' = [job |-> followed, alive |-> TRUE]
        /\ UNCHANGED <<row, worker, asked, cli, serving>>

FeedOver(s) ==
    /\ s \in Feeds \cap reading
    /\ stream[s].at = "ended"
    /\ reading' = reading \ {s}
    /\ tui' = [tui EXCEPT !.alive = FALSE]
    /\ UNCHANGED <<row, worker, asked, stream, cli, serving>>

(***************************************************************************)
(* The daemon stops                                                        *)
(***************************************************************************)
\* A stop ends every stream first, so that the server's graceful wait can end.
Shutdown ==
    /\ serving = "up"
    /\ serving' = "stopping"
    /\ stream' = CloseAllSubscribers(stream)
    /\ UNCHANGED <<row, worker, asked, reading, cli, tui>>

\* The server exits, after a stop or by a crash; what is still open is cut.
Exit ==
    /\ serving # "down"
    /\ serving' = "down"
    /\ stream' = [s \in Streams |-> IF stream[s].at = "none" THEN stream[s]
                                    ELSE Unsubscribed]
    /\ worker' = Idle
    /\ asked' = {}
    /\ UNCHANGED <<row, reading, cli, tui>>

WorkerStep ==
    Hello \/ Reject \/ Progress \/ Tell \/ Close
    \/ (\E j \in Jobs : Start(j)) \/ (\E o \in Outcomes : Finish(o))

Next ==
    \/ WorkerStep
    \/ \E j \in Jobs : CancelRunning(j) \/ CancelQueued(j)
    \/ \E s \in Streams : ServeStream(s)
    \/ CliStep \/ CtrlC
    \/ Poll \/ \E s \in Feeds : FeedOver(s)
    \/ Shutdown \/ Exit

\* Threads run and the server's loop turns; nobody has to cancel, stop, poll or
\* press Ctrl-C.
Fairness ==
    /\ WF_vars(WorkerStep)
    /\ \A s \in Streams : WF_vars(ServeStream(s))
    /\ WF_vars(CliStep)

Spec == Init /\ [][Next]_vars /\ Fairness

(***************************************************************************)
(* Properties                                                              *)
(***************************************************************************)
TypeOK ==
    /\ row \in [Jobs -> {"queued", "running"} \cup Outcomes]
    /\ worker.job \in Jobs \cup {NoJob}
    /\ worker.at \in {"idle", "hello", "work", "tell", "close"}
    /\ worker.sent \in 0..MaxProgress
    /\ asked \subseteq Jobs
    /\ stream \in [Streams -> [job : Jobs \cup {NoJob}, q : Seq(Events),
                               at : {"none", "opened", "reading", "ended"},
                               listed : BOOLEAN]]
    /\ \A s \in Streams : Len(stream[s].q) <= Cap
    /\ reading \subseteq Streams
    /\ cli \in [at : {"submitted", "watching", "checking", "left"},
                last : {"queued", "running"} \cup Outcomes,
                final : {"none", "queued", "running", "detached", "lost"} \cup Outcomes]
    /\ tui \in [job : Jobs \cup {NoJob}, alive : BOOLEAN]
    /\ serving \in {"up", "stopping", "down"}

\* No stream outlives its job for ever: whatever was dropped from a full queue
\* and whichever client went away, once the job has ended the stream ends
\* (event_gen in server.py, whose comments call the alternative a leaked thread).
StreamsEnd ==
    \A s \in Streams :
        (stream[s].at = "reading" /\ stream[s].job \in Jobs /\ Ended(stream[s].job))
            ~> stream[s].at # "reading"

\* The command's report is the status its job ended with: it is neither made
\* while the job lives nor left out once it has ended, unless the user detached
\* or the daemon was being stopped (stream_job in cli/stream.py and
\* _exit_if_failed in cli/main.py: a script must not take a failed job for a
\* success).  Shown as the refinement of JobWatch.
Promise == INSTANCE JobWatch WITH
    job   <- IF Ended(Mine) THEN row[Mine] ELSE "live",
    watch <- IF cli.at # "left" THEN "watching"
             ELSE IF cli.final \in Outcomes \cup {"detached"} THEN cli.final
             ELSE "unknown",
    host  <- IF serving = "up" THEN "up" ELSE "gone"
KeepsPromise == Promise!Spec

\* The interface follows a job through one stream ("starting the stream is
\* idempotent, guarded by _stream_alive"): not so, see the README.
OneFeed ==
    tui.job \in Jobs => Cardinality({s \in Feeds \cap reading : stream[s].job = tui.job}) <= 1
=============================================================================
