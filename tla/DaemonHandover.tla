--------------------------- MODULE DaemonHandover ---------------------------
(***************************************************************************)
(* Daemon processes and the clients that start, use, stop and restart them *)
(* (daemon/server.py run_daemon, daemon/spawn.py, the daemon commands of   *)
(* cli/main.py).  The listening port is the single-instance lock; the      *)
(* token file and the jobs table are what a daemon leaves to the next.     *)
(*                                                                         *)
(* JobQueue models one daemon and its queue; here there are several        *)
(* processes, each with at most one running handler, over one jobs table.  *)
(*                                                                         *)
(* Simplified: a token is the daemon it authenticates against; the pump's  *)
(* read and write of a row are one step; a daemon that answers /health     *)
(* does so within the client's two seconds; "done" stands for every status *)
(* a handler lands with; the queued applies reconciliation sets aside are  *)
(* in JobQueue; the state file, which only `daemon status` shows, is left  *)
(* out.                                                                    *)
(***************************************************************************)
EXTENDS Naturals

CONSTANTS Daemons,   \* bound: processes ever spawned
          Clients,   \* command line processes that may run at once
          Jobs,
          MaxCommands, MaxCrashes, MaxStops  \* bounds: commands, kills, stop or restart

None == 0

ASSUME HandoverAssumption ==
    /\ Daemons \subseteq Nat \ {None} /\ Jobs \subseteq Nat \ {None}
    /\ {MaxCommands, MaxCrashes, MaxStops} \subseteq Nat

VARIABLES
    stage,   \* how far each daemon process is
    port,    \* who listens on the fixed port
    token,   \* whose token the token file holds
    row,     \* status of each jobs row
    work,    \* the job each daemon's worker thread executes
    client,  \* where each client is, in which command; the token it holds, the
             \* daemon whose /health it last saw, the one its restart stopped
    used,    \* how often each bounded event has happened
    overlap  \* history: a daemon bound the port while another was winding down

process == <<stage, port>>
table == <<row, work>>
vars == <<process, token, table, client, used, overlap>>

Limit == [commands |-> MaxCommands, crashes |-> MaxCrashes, stops |-> MaxStops]

Starting == {"spawned", "bound", "reconciled", "built"}
Open == {"serving", "leaving"}            \* answers requests
WindingDown == {"closing", "stopping"}    \* port released, process alive

Idle == [pc |-> "idle", cmd |-> "none", tok |-> None, seen |-> None, shut |-> None]

Init ==
    /\ stage = [d \in Daemons |-> "absent"] /\ port = None /\ token = None
    /\ row \in [Jobs -> {"absent", "queued"}]
    /\ work = [d \in Daemons |-> None]
    /\ client = [c \in Clients |-> Idle]
    /\ used = [k \in DOMAIN Limit |-> 0] /\ overlap = FALSE

-----------------------------------------------------------------------------
(* A daemon's life.                                                        *)

WinsAlways == TRUE  \* mutant: SO_REUSEADDR
Wins == port = None

\* the race gate: the loser exits having touched nothing
Bind(d) ==
    /\ stage[d] = "spawned"
    /\ IF Wins THEN /\ stage' = [stage EXCEPT ![d] = "bound"]
                    /\ port' = d
                    /\ overlap' = (overlap \/ \E e \in Daemons : stage[e] \in WindingDown)
               ELSE /\ stage' = [stage EXCEPT ![d] = "gone"]
                    /\ UNCHANGED <<port, overlap>>
    /\ UNCHANGED <<token, table, client, used>>

StaleNone == {}  \* mutant
Stale == {j \in Jobs : row[j] = "running"}

Reconcile(d) ==
    /\ stage[d] = "bound"
    /\ stage' = [stage EXCEPT ![d] = "reconciled"]
    /\ row' = [j \in Jobs |-> IF j \in Stale THEN "interrupted" ELSE row[j]]
    /\ UNCHANGED <<port, token, work, client, used, overlap>>

Takes(d, j) ==
    /\ row[j] = "queued" /\ work[d] = None
    /\ row' = [row EXCEPT ![j] = "running"]
    /\ work' = [work EXCEPT ![d] = j]

\* the first pump comes before the daemon serves; nothing may be runnable
Build(d) ==
    /\ stage[d] = "reconciled"
    /\ stage' = [stage EXCEPT ![d] = "built"]
    /\ \/ \E j \in Jobs : Takes(d, j)
       \/ UNCHANGED table
    /\ UNCHANGED <<port, token, client, used, overlap>>

UpAfterJob(d) ==  \* mutant: the first job runs on the startup thread
    /\ stage[d] = "built" /\ work[d] = None
    /\ stage' = [stage EXCEPT ![d] = "serving"]
    /\ token' = d
    /\ UNCHANGED <<port, table, client, used, overlap>>

\* the startup hook: the token is on disk before any request is answered
Up(d) ==
    /\ stage[d] = "built"
    /\ stage' = [stage EXCEPT ![d] = "serving"]
    /\ token' = d
    /\ UNCHANGED <<port, table, client, used, overlap>>

\* until queue.shutdown sets _stopping every pump may start the next job
Pump(d) ==
    /\ stage[d] \in {"built", "serving", "leaving", "closing"}
    /\ \E j \in Jobs : Takes(d, j)
    /\ UNCHANGED <<process, token, client, used, overlap>>

\* the handler returns, or sees the stop at a checkpoint; the row is written
\* whatever it holds by now
Work(d) ==
    /\ work[d] # None
    /\ \E s \in {"done"} \cup (IF stage[d] = "stopping" THEN {"interrupted"} ELSE {}) :
          row' = [row EXCEPT ![work[d]] = s]
    /\ work' = [work EXCEPT ![d] = None]
    /\ UNCHANGED <<process, token, client, used, overlap>>

\* 0.2 s after the reply uvicorn closes the listening socket, then waits for
\* open requests, then runs the shutdown hook
Close(d) ==
    /\ stage[d] = "leaving"
    /\ stage' = [stage EXCEPT ![d] = "closing"]
    /\ port' = None
    /\ UNCHANGED <<token, table, client, used, overlap>>

OnStop(d) ==
    /\ stage[d] = "closing"
    /\ stage' = [stage EXCEPT ![d] = "stopping"]
    /\ UNCHANGED <<port, token, table, client, used, overlap>>

\* the worker has been joined, or five seconds have passed
Exit(d) ==
    /\ stage[d] = "stopping"
    /\ stage' = [stage EXCEPT ![d] = "gone"]
    /\ work' = [work EXCEPT ![d] = None]
    /\ UNCHANGED <<port, token, row, client, used, overlap>>

\* the process dies, and its port and worker with it
Dies(d) ==
    /\ stage' = [stage EXCEPT ![d] = "gone"]
    /\ port' = IF port = d THEN None ELSE port
    /\ work' = [work EXCEPT ![d] = None]

Crash(d) ==
    /\ stage[d] \notin {"absent", "gone"}
    /\ used.crashes < MaxCrashes
    /\ used' = [used EXCEPT !.crashes = @ + 1]
    /\ Dies(d)
    /\ UNCHANGED <<token, row, client, overlap>>

-----------------------------------------------------------------------------
(* A client: `use` is any command that needs a daemon.                     *)

Answering == port # None /\ stage[port] \in Open

Goes(c, to) == client' = [client EXCEPT ![c] = [@ EXCEPT !.pc = to]]
Sees(c, to) == client' = [client EXCEPT ![c] = [@ EXCEPT !.pc = to, !.seen = port]]
Ends(c) == client' = [client EXCEPT ![c] = Idle]

\* DaemonClient() reads the token when it is made
Start(c, k) ==
    /\ client[c].pc = "idle"
    /\ used.commands < MaxCommands
    /\ k = "use" \/ used.stops < MaxStops
    /\ used' = [used EXCEPT !.commands = @ + 1, !.stops = IF k = "use" THEN @ ELSE @ + 1]
    /\ client' = [client EXCEPT ![c] = [Idle EXCEPT !.cmd = k, !.tok = token,
                     !.pc = IF k = "use" THEN "check" ELSE "probe"]]
    /\ UNCHANGED <<process, token, table, overlap>>

\* ensure_daemon: connect, else spawn once and poll
Check(c) ==
    /\ client[c].pc = "check"
    /\ \/ /\ Answering /\ Sees(c, "token")
          /\ UNCHANGED stage
       \/ /\ ~Answering /\ Goes(c, "poll")
          /\ \E d \in Daemons : /\ stage[d] = "absent"
                                /\ \A e \in Daemons : e < d => stage[e] # "absent"
                                /\ stage' = [stage EXCEPT ![d] = "spawned"]
    /\ UNCHANGED <<port, token, table, used, overlap>>

Poll(c) ==
    /\ client[c].pc = "poll" /\ Answering
    /\ Sees(c, "token")
    /\ UNCHANGED <<process, token, table, used, overlap>>

\* twenty seconds outlast any daemon on its way up
GiveUp(c) ==
    /\ client[c].pc \in {"poll", "check"} /\ ~Answering
    /\ \A d \in Daemons : stage[d] \notin Starting
    /\ client[c].pc = "check" => \A d \in Daemons : stage[d] # "absent"
    /\ Ends(c)
    /\ UNCHANGED <<process, token, table, used, overlap>>

FreshToken(c) == token

\* _with_token
ReadToken(c) ==
    /\ client[c].pc = "token"
    /\ client' = [client EXCEPT ![c] = [@ EXCEPT !.pc = "request", !.tok = FreshToken(c)]]
    /\ UNCHANGED <<process, token, table, used, overlap>>

Accepted(c) == Answering /\ client[c].tok = port
Rejected(c) == Answering /\ client[c].tok # port

\* a submitted job is queued and waits for a pump; a refused client reports it
Request(c) ==
    /\ client[c].pc = "request"
    /\ IF Accepted(c) /\ client[c].cmd = "use" /\ \E j \in Jobs : row[j] = "absent"
       THEN \E j \in Jobs : row[j] = "absent" /\ row' = [row EXCEPT ![j] = "queued"]
       ELSE UNCHANGED row
    /\ Ends(c)
    /\ UNCHANGED <<process, token, work, used, overlap>>

\* stop and restart: is a daemon up?
Probe(c) ==
    /\ client[c].pc = "probe"
    /\ \/ Answering /\ Sees(c, "post")
       \/ ~Answering /\ client[c].cmd = "stop" /\ Ends(c)
       \/ ~Answering /\ client[c].cmd = "restart" /\ Goes(c, "check")
    /\ UNCHANGED <<process, token, table, used, overlap>>

\* POST /shutdown; a 401 is taken for an orphan
Post(c) ==
    /\ client[c].pc = "post"
    /\ \/ /\ Accepted(c)
          /\ stage' = [stage EXCEPT ![port] = "leaving"]
          /\ IF client[c].cmd = "stop" THEN Ends(c)
             ELSE client' = [client EXCEPT ![c] = [@ EXCEPT !.pc = "wait", !.shut = port]]
       \/ Rejected(c) /\ Goes(c, "kill") /\ UNCHANGED stage
       \/ ~Answering /\ Ends(c) /\ UNCHANGED stage
    /\ UNCHANGED <<port, token, table, used, overlap>>

\* _force_kill_orphan: whoever listens on the port dies, if it can be found
\* and killed
Kill(c) ==
    /\ client[c].pc = "kill"
    /\ \/ Ends(c) /\ UNCHANGED <<process, work>>
       \/ /\ port # None /\ Dies(port)
          /\ IF client[c].cmd = "stop" THEN Ends(c) ELSE Goes(c, "check")
    /\ UNCHANGED <<token, row, used, overlap>>

WaitedNever == TRUE  \* mutant
Waited == ~Answering

\* restart waits until /health fails, at most fifteen seconds
Wait(c) ==
    /\ client[c].pc = "wait"
    /\ \/ Waited /\ Goes(c, "check")
       \/ Answering /\ port # client[c].shut /\ Ends(c)
    /\ UNCHANGED <<process, token, table, used, overlap>>

Daemon(d) ==
    \/ Bind(d) \/ Reconcile(d) \/ Build(d) \/ Up(d) \/ Pump(d) \/ Work(d)
    \/ Close(d) \/ OnStop(d) \/ Exit(d)

Client(c) ==
    \/ Check(c) \/ Poll(c) \/ GiveUp(c) \/ ReadToken(c) \/ Request(c)
    \/ Probe(c) \/ Post(c) \/ Kill(c) \/ Wait(c)

Next ==
    \/ \E d \in Daemons : Daemon(d) \/ Crash(d)
    \/ \E c \in Clients : Client(c) \/ \E k \in {"use", "stop", "restart"} : Start(c, k)

Spec == Init /\ [][Next]_vars

\* processes that run go on running
FairSpec ==
    /\ Spec
    /\ \A d \in Daemons : WF_vars(Bind(d) \/ Reconcile(d) \/ Build(d) \/ Up(d))
    /\ \A d \in Daemons : WF_vars(Close(d) \/ OnStop(d) \/ Exit(d))
    /\ \A c \in Clients : WF_vars(Client(c))

-----------------------------------------------------------------------------
(* Properties.                                                             *)

ClientState ==
    [pc : {"idle", "check", "poll", "token", "request", "probe", "post", "kill", "wait"},
     cmd : {"none", "use", "stop", "restart"}, tok : Daemons \cup {None},
     seen : Daemons \cup {None}, shut : Daemons \cup {None}]

TypeOK ==
    /\ stage \in [Daemons -> {"absent", "gone"} \cup Starting \cup Open \cup WindingDown]
    /\ port \in Daemons \cup {None} /\ token \in Daemons \cup {None}
    /\ row \in [Jobs -> {"absent", "queued", "running", "interrupted", "done"}]
    /\ work \in [Daemons -> Jobs \cup {None}]
    /\ client \in [Clients -> ClientState]
    /\ \A d \in Daemons :
          stage[d] \in (Starting \ {"spawned"}) \cup Open <=> port = d

(* Two clients that race to start a daemon, kills and restarts never let   *)
(* two daemons execute jobs at once, unless a daemon started while its     *)
(* predecessor was still winding down (server.py:26-31,                    *)
(* architecture.md:173-185).                                               *)
OneWorker ==
    ~overlap => \A d, e \in Daemons : work[d] # None /\ work[e] # None => d = e

(* What a serving daemon's table calls running is what that daemon runs,   *)
(* with the same proviso: no row is left running by a killed daemon        *)
(* (reconcile.py:1-40, architecture.md:100-107).                           *)
NoGhost ==
    ~overlap =>
       \A d \in Daemons, j \in Jobs :
          stage[d] \in Open /\ row[j] = "running" => work[d] = j

(* A client is refused for its token only when the daemon it saw has been  *)
(* replaced since (token.py:3-7, spawn.py:115-119).                        *)
RefusedOnlyByAnother ==
    [][\A c \in Clients : client[c].pc = "request" /\ client'[c].pc = "idle" /\ Rejected(c)
          => port # client[c].seen]_vars

(* A restart that reports success talks to another daemon than the one it  *)
(* stopped (main.py:137-187).                                              *)
RestartReplaces ==
    [][\A c \in Clients :
          client[c].pc = "request" /\ client'[c].pc = "idle" /\ client[c].cmd = "restart" /\ Accepted(c)
             => port # client[c].shut]_vars

(* Clients that race to start a daemon all reach one as long as nobody     *)
(* stops or kills it (spawn.py:3-10, architecture.md:91-98).               *)
Undisturbed == used.crashes = 0 /\ used.stops = 0
ClientsConverge ==
    []Undisturbed => \A c \in Clients : client[c].pc = "poll" ~> client[c].pc = "request"

(* A running row found at startup is stale: nobody executes its job        *)
(* (architecture.md:104-105, 184-185).                                     *)
RunningIsStale ==
    [][\A d \in Daemons, j \in Jobs :
          stage[d] = "bound" /\ stage'[d] = "reconciled" /\ row'[j] # row[j]
             => \A e \in Daemons : work[e] # j]_vars

(* The force-stop that follows a refused token never hits a daemon whose   *)
(* token is the one on file (main.py:81-101, 116-118).                     *)
KillSparesHealthy ==
    [][\A c \in Clients : client[c].pc = "kill" /\ client'[c].pc # "kill" /\ port' # port
             /\ Answering => token # port]_vars

=============================================================================
