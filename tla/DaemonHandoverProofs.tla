------------------------ MODULE DaemonHandoverProofs ------------------------
(***************************************************************************)
(* Proofs about the two models of who talks to a daemon.                   *)
(*                                                                         *)
(* DaemonHandover, for any set of clients and jobs and any number of       *)
(* daemon processes, commands, kills and stops: one worker at a time, no   *)
(* ghost, and what the lifecycle commands may report.  FrontDesk, for any  *)
(* commands, files, jobs and mishaps: an exit code that tells the truth,   *)
(* and a count and a stage that bind the job which acts on them.           *)
(***************************************************************************)
EXTENDS DaemonHandover, FrontDesk, TLAPS

(***************************************************************************)
(* Type correctness, with the port as a lock: who is past the bind and has *)
(* not closed its socket listens on it, and nobody else does.              *)
(***************************************************************************)
LEMMA InitType == Init => TypeOK
<1> SUFFICES ASSUME Init PROVE TypeOK
  OBVIOUS
<1>1. client \in [Clients -> ClientState]
  BY DEF Init, Idle, ClientState
<1> QED
  BY <1>1, HandoverAssumption DEF Init, TypeOK, None, Starting, Open, WindingDown

LEMMA DaemonType ==
  ASSUME TypeOK, NEW d \in Daemons, Daemon(d) \/ Crash(d)
  PROVE  TypeOK'
<1> USE HandoverAssumption DEF TypeOK, None, Starting, Open, WindingDown
<1>1. CASE Bind(d)
  BY <1>1 DEF Bind, Wins, table
<1>2. CASE Reconcile(d)
  BY <1>2 DEF Reconcile
<1>3. CASE Build(d)
  <2>1. stage' = [stage EXCEPT ![d] = "built"] /\ stage[d] = "reconciled"
    BY <1>3 DEF Build
  <2>2. row' \in [Jobs -> {"absent", "queued", "running", "interrupted", "done"}]
        /\ work' \in [Daemons -> Jobs \cup {None}]
    BY <1>3 DEF Build, Takes, table
  <2> QED
    BY <1>3, <2>1, <2>2 DEF Build
<1>4. CASE Up(d)
  BY <1>4 DEF Up, table
<1>5. CASE Pump(d)
  BY <1>5 DEF Pump, Takes, process
<1>6. CASE Work(d)
  BY <1>6 DEF Work, process
<1>7. CASE Close(d)
  BY <1>7 DEF Close, table
<1>8. CASE OnStop(d)
  BY <1>8 DEF OnStop, table
<1>9. CASE Exit(d)
  BY <1>9 DEF Exit
<1>10. CASE Crash(d)
  BY <1>10 DEF Crash, Dies
<1> QED
  BY <1>1, <1>2, <1>3, <1>4, <1>5, <1>6, <1>7, <1>8, <1>9, <1>10 DEF Daemon

\* the changes the clients' steps make to their own record
Places == {"idle", "check", "poll", "token", "request", "probe", "post", "kill", "wait"}

LEMMA GoesType ==
  ASSUME client \in [Clients -> ClientState], NEW c \in Clients, NEW p \in Places, Goes(c, p)
  PROVE  client' \in [Clients -> ClientState]
<1>1. [client[c] EXCEPT !.pc = p] \in ClientState
  BY DEF ClientState, Places
<1> QED
  BY <1>1 DEF Goes

LEMMA SeesType ==
  ASSUME TypeOK, NEW c \in Clients, NEW p \in Places, Sees(c, p)
  PROVE  client' \in [Clients -> ClientState]
<1>1. port \in Daemons \cup {None} /\ client \in [Clients -> ClientState]
  BY DEF TypeOK
<1>2. [client[c] EXCEPT !.pc = p, !.seen = port] \in ClientState
  BY <1>1 DEF ClientState, Places
<1> QED
  BY <1>1, <1>2 DEF Sees

LEMMA EndsType ==
  ASSUME client \in [Clients -> ClientState], NEW c \in Clients, Ends(c)
  PROVE  client' \in [Clients -> ClientState]
<1>1. Idle \in ClientState
  BY DEF ClientState, Idle
<1> QED
  BY <1>1 DEF Ends

LEMMA ClientRecords ==
  ASSUME TypeOK, NEW c \in Clients,
         Client(c) \/ \E k \in {"use", "stop", "restart"} : Start(c, k)
  PROVE  client' \in [Clients -> ClientState]
<1>0. /\ client \in [Clients -> ClientState] /\ client[c] \in ClientState
      /\ token \in Daemons \cup {None} /\ port \in Daemons \cup {None}
  BY DEF TypeOK
<1>1. ASSUME NEW p \in Places, Goes(c, p) \/ Sees(c, p) \/ Ends(c)
      PROVE  client' \in [Clients -> ClientState]
  BY <1>0, <1>1, GoesType, SeesType, EndsType
<1>2. CASE Check(c) \/ Poll(c) \/ GiveUp(c) \/ Request(c) \/ Probe(c) \/ Kill(c) \/ Wait(c)
  <2>1. PICK p \in Places : Goes(c, p) \/ Sees(c, p) \/ Ends(c)
    BY <1>2 DEF Check, Poll, GiveUp, Request, Probe, Kill, Wait, Places
  <2> QED
    BY <2>1, <1>1
<1>3. CASE ReadToken(c)
  <2>1. [client[c] EXCEPT !.pc = "request", !.tok = token] \in ClientState
    BY <1>0 DEF ClientState
  <2> QED
    BY <1>0, <1>3, <2>1 DEF ReadToken, FreshToken
<1>4. CASE Post(c)
  <2>1. CASE client' = [client EXCEPT ![c] = [@ EXCEPT !.pc = "wait", !.shut = port]]
    <3>1. [client[c] EXCEPT !.pc = "wait", !.shut = port] \in ClientState
      BY <1>0 DEF ClientState
    <3> QED
      BY <1>0, <2>1, <3>1
  <2>2. CASE Goes(c, "kill") \/ Ends(c)
    BY <1>1, <2>2 DEF Places
  <2> QED
    BY <1>4, <2>1, <2>2 DEF Post
<1>5. CASE \E k \in {"use", "stop", "restart"} : Start(c, k)
  <2>1. PICK k \in {"use", "stop", "restart"}, p \in {"check", "probe"} :
          client' = [client EXCEPT ![c] = [Idle EXCEPT !.cmd = k, !.tok = token, !.pc = p]]
    BY <1>5 DEF Start
  <2>2. [Idle EXCEPT !.cmd = k, !.tok = token, !.pc = p] \in ClientState
    BY <1>0 DEF ClientState, Idle
  <2> QED
    BY <1>0, <2>1, <2>2
<1> QED
  BY <1>2, <1>3, <1>4, <1>5 DEF Client

LEMMA ClientType ==
  ASSUME TypeOK, NEW c \in Clients,
         Client(c) \/ \E k \in {"use", "stop", "restart"} : Start(c, k)
  PROVE  TypeOK'
<1>0. client' \in [Clients -> ClientState]
  BY ClientRecords
<1> USE HandoverAssumption, <1>0 DEF TypeOK, None, Starting, Open, WindingDown
<1>1. CASE Check(c)
  BY <1>1 DEF Check, table
<1>2. CASE Poll(c) \/ GiveUp(c) \/ ReadToken(c) \/ Probe(c) \/ Wait(c)
  BY <1>2 DEF Poll, GiveUp, ReadToken, Probe, Wait, process, table
<1>3. CASE Request(c)
  BY <1>3 DEF Request, process
<1>4. CASE Post(c)
  BY <1>4 DEF Post, Accepted, Answering, table
<1>5. CASE Kill(c)
  BY <1>5 DEF Kill, Dies, process
<1>6. CASE \E k \in {"use", "stop", "restart"} : Start(c, k)
  BY <1>6 DEF Start, process, table
<1> QED
  BY <1>1, <1>2, <1>3, <1>4, <1>5, <1>6 DEF Client

LEMMA NextType == TypeOK /\ [Next]_vars => TypeOK'
<1> SUFFICES ASSUME TypeOK, [Next]_vars PROVE TypeOK'
  OBVIOUS
<1>1. CASE UNCHANGED vars
  BY <1>1 DEF TypeOK, vars, process, table
<1> QED
  BY <1>1, DaemonType, ClientType DEF Next

\* Every variable keeps its type, and exactly the daemons between bind and
\* close hold the port.
THEOREM TypeCorrect == Spec => []TypeOK
<1> QED
  BY InitType, NextType, PTL DEF Spec

(***************************************************************************)
(* One daemon at work.  Its worker runs only while its process is past the *)
(* build; unless a bind overlapped a wind-down one process at most is past *)
(* the bind; and what the table calls running then is its job.             *)
(***************************************************************************)
Past == {"reconciled", "built"} \cup Open \cup WindingDown
Alive == {"bound"} \cup Past

WorkInv == \A d \in Daemons : work[d] # None => stage[d] \in Past

AloneInv ==
    ~overlap => \A d, e \in Daemons : stage[d] \in Alive /\ stage[e] \in Alive => d = e

RowInv ==
    ~overlap => \A d \in Daemons, j \in Jobs :
                   stage[d] \in Past /\ row[j] = "running" => work[d] = j

WorkerInv == WorkInv /\ AloneInv /\ RowInv

LEMMA DaemonWorker ==
  ASSUME TypeOK, WorkerInv, NEW d \in Daemons, Daemon(d) \/ Crash(d)
  PROVE  WorkerInv'
<1>0. /\ Daemons \subseteq Nat \ {None} /\ Jobs \subseteq Nat \ {None}
      /\ stage \in [Daemons -> {"absent", "gone"} \cup Starting \cup Open \cup WindingDown]
      /\ row \in [Jobs -> {"absent", "queued", "running", "interrupted", "done"}]
      /\ work \in [Daemons -> Jobs \cup {None}]
      /\ \A e \in Daemons : stage[e] \in (Starting \ {"spawned"}) \cup Open <=> port = e
  BY HandoverAssumption DEF TypeOK
<1> USE <1>0 DEF WorkerInv, WorkInv, AloneInv, RowInv, Past, Alive, None, Starting, Open,
                WindingDown
<1>1. CASE Bind(d)
  <2>0. stage[d] = "spawned" /\ row' = row /\ work' = work /\ work[d] = None
    BY <1>1 DEF Bind, table
  <2>1. CASE Wins
    <3>1. /\ stage' = [stage EXCEPT ![d] = "bound"] /\ port = None
          /\ overlap' = (overlap \/ \E e \in Daemons : stage[e] \in WindingDown)
      BY <1>1, <2>1 DEF Bind, Wins
    <3>2. ~overlap' => \A e \in Daemons : stage[e] \notin Alive
      BY <3>1
    <3> QED
      BY <2>0, <3>1, <3>2
  <2>2. CASE ~Wins
    <3>1. stage' = [stage EXCEPT ![d] = "gone"] /\ overlap' = overlap
      BY <1>1, <2>2 DEF Bind
    <3> QED
      BY <2>0, <3>1
  <2> QED
    BY <2>1, <2>2
<1>2. CASE Reconcile(d)
  BY <1>2 DEF Reconcile, Stale
<1>3. CASE Build(d)
  <2>1. CASE \E j \in Jobs : Takes(d, j)
    BY <1>3, <2>1 DEF Build, Takes
  <2>2. CASE UNCHANGED table
    BY <1>3, <2>2 DEF Build, table
  <2> QED
    BY <1>3, <2>1, <2>2 DEF Build
<1>4. CASE Up(d)
  BY <1>4 DEF Up, table
<1>5. CASE Pump(d)
  BY <1>5 DEF Pump, Takes, process
<1>6. CASE Work(d)
  BY <1>6 DEF Work, process
<1>7. CASE Close(d)
  BY <1>7 DEF Close, table
<1>8. CASE OnStop(d)
  BY <1>8 DEF OnStop, table
<1>9. CASE Exit(d)
  BY <1>9 DEF Exit
<1>10. CASE Crash(d)
  BY <1>10 DEF Crash, Dies
<1> QED
  BY <1>1, <1>2, <1>3, <1>4, <1>5, <1>6, <1>7, <1>8, <1>9, <1>10 DEF Daemon

LEMMA ClientWorker ==
  ASSUME TypeOK, WorkerInv, NEW c \in Clients,
         Client(c) \/ \E k \in {"use", "stop", "restart"} : Start(c, k)
  PROVE  WorkerInv'
<1>0. /\ Daemons \subseteq Nat \ {None} /\ Jobs \subseteq Nat \ {None}
      /\ stage \in [Daemons -> {"absent", "gone"} \cup Starting \cup Open \cup WindingDown]
      /\ row \in [Jobs -> {"absent", "queued", "running", "interrupted", "done"}]
      /\ work \in [Daemons -> Jobs \cup {None}] /\ port \in Daemons \cup {None}
  BY HandoverAssumption DEF TypeOK
<1> USE <1>0 DEF WorkerInv, WorkInv, AloneInv, RowInv, Past, Alive, None, Starting, Open,
                WindingDown
<1>1. CASE Check(c)
  <2>1. row' = row /\ work' = work /\ overlap' = overlap
    BY <1>1 DEF Check, table
  <2>2. CASE UNCHANGED stage
    BY <2>1, <2>2
  <2>3. CASE \E d \in Daemons : stage[d] = "absent" /\ stage' = [stage EXCEPT ![d] = "spawned"]
    BY <2>1, <2>3
  <2> QED
    BY <1>1, <2>2, <2>3 DEF Check
<1>2. CASE Poll(c) \/ GiveUp(c) \/ ReadToken(c) \/ Probe(c) \/ Wait(c)
  BY <1>2 DEF Poll, GiveUp, ReadToken, Probe, Wait, process, table
<1>3. CASE Request(c)
  BY <1>3 DEF Request, process
<1>4. CASE Post(c)
  BY <1>4 DEF Post, Accepted, Answering, table
<1>5. CASE Kill(c)
  BY <1>5 DEF Kill, Dies, process
<1>6. CASE \E k \in {"use", "stop", "restart"} : Start(c, k)
  BY <1>6 DEF Start, process, table
<1> QED
  BY <1>1, <1>2, <1>3, <1>4, <1>5, <1>6 DEF Client

LEMMA InitWorker == Init => WorkerInv
  BY DEF Init, WorkerInv, WorkInv, AloneInv, RowInv, Past, Alive, Open, WindingDown

LEMMA NextWorker == TypeOK /\ WorkerInv /\ [Next]_vars => WorkerInv'
<1> SUFFICES ASSUME TypeOK, WorkerInv, [Next]_vars PROVE WorkerInv'
  OBVIOUS
<1>1. CASE UNCHANGED vars
  BY <1>1 DEF WorkerInv, WorkInv, AloneInv, RowInv, vars, process, table
<1> QED
  BY <1>1, DaemonWorker, ClientWorker DEF Next

\* The inductive invariant of the processes and their workers.
THEOREM WorkerSafety == Spec => [](TypeOK /\ WorkerInv)
<1>1. Init => TypeOK /\ WorkerInv
  BY InitType, InitWorker
<1>2. TypeOK /\ WorkerInv /\ [Next]_vars => (TypeOK /\ WorkerInv)'
  BY NextType, NextWorker
<1> QED
  BY <1>1, <1>2, PTL DEF Spec

\* Two daemons execute jobs at once only after one bound the port while its
\* predecessor was winding down.
THEOREM OneWorkerHolds == Spec => []OneWorker
<1>1. TypeOK /\ WorkerInv => OneWorker
  BY DEF WorkerInv, WorkInv, AloneInv, OneWorker, Alive
<1> QED
  BY <1>1, WorkerSafety, PTL

\* A serving daemon's running row is the job it executes, however many daemons
\* were killed before it.
THEOREM NoGhostHolds == Spec => []NoGhost
<1>1. TypeOK /\ WorkerInv => NoGhost
  BY DEF WorkerInv, RowInv, NoGhost, Past
<1> QED
  BY <1>1, WorkerSafety, PTL

(***************************************************************************)
(* Tokens and restarts.  A process never goes back in its life, and who    *)
(* answers has its token on file; so what a client read from the file is   *)
(* the token of the daemon it saw, or that daemon is gone for good.        *)
(***************************************************************************)
Leaving == {"leaving", "gone"} \cup WindingDown

\* who answers requests has written the token
FileInv == \A d \in Daemons : stage[d] \in Open => token = d

\* the daemon a client saw has served, the token is its own while it listens
Seen(c) ==
    client[c].pc \in {"token", "request"} =>
       /\ client[c].seen \in Daemons
       /\ stage[client[c].seen] \in Open \cup Leaving
       /\ client[c].pc = "request" /\ port = client[c].seen => client[c].tok = port

\* the daemon a restart stopped leaves, and once the wait is over is not on the port
Shut(c) ==
    client[c].shut # None =>
       /\ stage[client[c].shut] \in Leaving
       /\ client[c].pc # "wait" => port # client[c].shut

SessionInv == FileInv /\ \A c \in Clients : Seen(c) /\ Shut(c)

\* no process returns from serving, and only one that never served takes the port
Onward ==
    /\ \A d \in Daemons : /\ stage[d] \in Open \cup Leaving => stage'[d] \in Open \cup Leaving
                          /\ stage[d] \in Leaving => stage'[d] \in Leaving
    /\ port' # None /\ port' # port => \E e \in Daemons : port' = e /\ stage[e] = "spawned"

LEMMA DaemonOnward ==
  ASSUME TypeOK, FileInv, NEW d \in Daemons, Daemon(d) \/ Crash(d)
  PROVE  Onward /\ FileInv' /\ client' = client
<1>0. /\ Daemons \subseteq Nat \ {None}
      /\ stage \in [Daemons -> {"absent", "gone"} \cup Starting \cup Open \cup WindingDown]
      /\ port \in Daemons \cup {None}
      /\ \A e \in Daemons : stage[e] \in (Starting \ {"spawned"}) \cup Open <=> port = e
  BY HandoverAssumption DEF TypeOK
<1> USE <1>0 DEF FileInv, Onward, Leaving, None, Starting, Open, WindingDown
<1>1. CASE Bind(d)
  BY <1>1 DEF Bind, Wins
<1>2. CASE Reconcile(d)
  BY <1>2 DEF Reconcile
<1>3. CASE Build(d)
  BY <1>3 DEF Build
<1>4. CASE Up(d)
  BY <1>4 DEF Up
<1>5. CASE Pump(d) \/ Work(d)
  BY <1>5 DEF Pump, Work, process
<1>6. CASE Close(d) \/ OnStop(d) \/ Exit(d)
  BY <1>6 DEF Close, OnStop, Exit
<1>7. CASE Crash(d)
  BY <1>7 DEF Crash, Dies
<1> QED
  BY <1>1, <1>2, <1>3, <1>4, <1>5, <1>6, <1>7 DEF Daemon

LEMMA ClientOnward ==
  ASSUME TypeOK, FileInv, NEW c \in Clients,
         Client(c) \/ \E k \in {"use", "stop", "restart"} : Start(c, k)
  PROVE  Onward /\ FileInv' /\ \A b \in Clients \ {c} : client'[b] = client[b]
<1>0. /\ Daemons \subseteq Nat \ {None}
      /\ stage \in [Daemons -> {"absent", "gone"} \cup Starting \cup Open \cup WindingDown]
      /\ port \in Daemons \cup {None} /\ client \in [Clients -> ClientState]
  BY HandoverAssumption DEF TypeOK
<1>1. \A b \in Clients \ {c} : client'[b] = client[b]
  BY <1>0 DEF Client, Check, Poll, GiveUp, ReadToken, Request, Probe, Post, Kill, Wait, Start,
              Goes, Sees, Ends
<1> USE <1>0 DEF FileInv, Onward, Leaving, None, Starting, Open, WindingDown
<1>2. CASE Check(c)
  BY <1>1, <1>2 DEF Check
<1>3. CASE Poll(c) \/ GiveUp(c) \/ ReadToken(c) \/ Request(c) \/ Probe(c) \/ Wait(c)
  BY <1>1, <1>3 DEF Poll, GiveUp, ReadToken, Request, Probe, Wait, process
<1>4. CASE Post(c)
  BY <1>1, <1>4 DEF Post, Accepted, Answering
<1>5. CASE Kill(c)
  BY <1>1, <1>5 DEF Kill, Dies, process
<1>6. CASE \E k \in {"use", "stop", "restart"} : Start(c, k)
  BY <1>1, <1>6 DEF Start, process
<1> QED
  BY <1>2, <1>3, <1>4, <1>5, <1>6 DEF Client

\* what the others do takes nothing from a client
LEMMA Bystander ==
  ASSUME TypeOK, Onward, NEW b \in Clients, client'[b] = client[b], Seen(b), Shut(b)
  PROVE  Seen(b)' /\ Shut(b)'
<1>0. /\ Daemons \subseteq Nat \ {None} /\ client[b].shut \in Daemons \cup {None}
      /\ port \in Daemons \cup {None}
  BY HandoverAssumption DEF TypeOK, ClientState
<1>1. Seen(b)'
  BY <1>0 DEF Seen, Onward, Leaving, None, Open, WindingDown
<1>2. Shut(b)'
  BY <1>0 DEF Shut, Onward, Leaving, None, Open, WindingDown
<1> QED
  BY <1>1, <1>2

LEMMA ClientSession ==
  ASSUME TypeOK, SessionInv, NEW c \in Clients,
         Client(c) \/ \E k \in {"use", "stop", "restart"} : Start(c, k)
  PROVE  Seen(c)' /\ Shut(c)'
<1>0. /\ Daemons \subseteq Nat \ {None} /\ client[c] \in ClientState
      /\ client \in [Clients -> ClientState] /\ port \in Daemons \cup {None}
      /\ stage \in [Daemons -> {"absent", "gone"} \cup Starting \cup Open \cup WindingDown]
      /\ \A e \in Daemons : stage[e] \in (Starting \ {"spawned"}) \cup Open <=> port = e
  BY HandoverAssumption DEF TypeOK
<1>1. Onward
  BY ClientOnward DEF SessionInv
<1>2. FileInv /\ Seen(c) /\ Shut(c)
  BY DEF SessionInv
<1>3. ASSUME Ends(c) PROVE Seen(c)' /\ Shut(c)'
  <2>1. client'[c] = Idle
    BY <1>0, <1>3 DEF Ends
  <2> QED
    BY <2>1 DEF Seen, Shut, Idle
<1>4. ASSUME NEW p \in {"check", "poll", "kill"}, Goes(c, p),
             port' = port, client[c].pc # "wait" \/ port # client[c].shut
      PROVE  Seen(c)' /\ Shut(c)'
  <2>1. /\ client'[c].pc = p /\ client'[c].shut = client[c].shut
    BY <1>0, <1>4 DEF Goes, ClientState
  <2>2. client[c].shut # None => client[c].shut \in Daemons
    BY <1>0 DEF ClientState
  <2> QED
    BY <1>1, <1>2, <1>4, <2>1, <2>2 DEF Seen, Shut, Onward
<1>5. ASSUME NEW p \in {"token", "post"}, Sees(c, p), Answering,
             UNCHANGED process, client[c].pc # "wait"
      PROVE  Seen(c)' /\ Shut(c)'
  <2>1. /\ client'[c].pc = p /\ client'[c].seen = port
        /\ client'[c].shut = client[c].shut
    BY <1>0, <1>5 DEF Sees, ClientState
  <2> QED
    BY <1>0, <1>2, <1>5, <2>1 DEF Seen, Shut, Answering, process
<1>6. CASE Check(c)
  <2>1. CASE Goes(c, "poll")
    BY <1>4, <1>6, <2>1 DEF Check
  <2>2. CASE Answering /\ Sees(c, "token") /\ UNCHANGED stage
    BY <1>5, <1>6, <2>2 DEF Check, process
  <2> QED
    BY <1>6, <2>1, <2>2 DEF Check
<1>7. CASE Poll(c)
  BY <1>5, <1>7 DEF Poll
<1>8. CASE GiveUp(c) \/ Request(c)
  BY <1>3, <1>8 DEF GiveUp, Request
<1>9. CASE ReadToken(c)
  <2>1. /\ client'[c].tok = token /\ client'[c].seen = client[c].seen
        /\ client'[c].shut = client[c].shut /\ client'[c].pc = "request"
        /\ client[c].pc = "token" /\ UNCHANGED process
    BY <1>0, <1>9 DEF ReadToken, FreshToken, ClientState
  <2>2. port = client[c].seen => token = port
    BY <1>0, <1>2, <2>1 DEF FileInv, Seen, Starting, Open, Leaving, WindingDown
  <2>3. Seen(c)'
    BY <1>2, <2>1, <2>2 DEF Seen, process
  <2>4. Shut(c)'
    BY <1>2, <2>1 DEF Shut, process
  <2> QED
    BY <2>3, <2>4
<1>10. CASE Probe(c)
  <2>1. CASE Answering /\ Sees(c, "post")
    BY <1>5, <1>10, <2>1 DEF Probe
  <2>2. CASE Ends(c)
    BY <1>3, <2>2
  <2>3. CASE Goes(c, "check")
    BY <1>4, <1>10, <2>3 DEF Probe, process
  <2> QED
    BY <1>10, <2>1, <2>2, <2>3 DEF Probe
<1>11. CASE Post(c)
  <2>1. CASE Accepted(c) /\ ~Ends(c)
    <3>1. /\ client' = [client EXCEPT ![c] = [@ EXCEPT !.pc = "wait", !.shut = port]]
          /\ stage' = [stage EXCEPT ![port] = "leaving"] /\ Answering
      BY <1>11, <2>1 DEF Post, Accepted, Rejected
    <3>2. client'[c].pc = "wait" /\ client'[c].shut = port
      BY <1>0, <3>1 DEF ClientState
    <3>3. stage'[port] \in Leaving
      BY <1>0, <3>1 DEF Answering, Leaving
    <3> QED
      BY <1>11, <3>2, <3>3 DEF Seen, Shut, Post
  <2>2. CASE Ends(c)
    BY <1>3, <2>2
  <2>3. CASE Goes(c, "kill") /\ UNCHANGED stage
    BY <1>4, <1>11, <2>3 DEF Post
  <2> QED
    BY <1>11, <2>1, <2>2, <2>3 DEF Post
<1>12. CASE Kill(c)
  <2>1. CASE Ends(c)
    BY <1>3, <2>1
  <2>2. CASE Goes(c, "check") /\ ~Ends(c)
    <3>1. port # None /\ Dies(port) /\ client[c].pc = "kill"
      BY <1>12, <2>2 DEF Kill
    <3>2. port' = None
      BY <3>1 DEF Dies
    <3>3. /\ client'[c].pc = "check" /\ client'[c].shut = client[c].shut
          /\ client[c].shut # None => client[c].shut \in Daemons
      BY <1>0, <2>2 DEF Goes, ClientState
    <3> QED
      BY <1>1, <1>2, <3>2, <3>3 DEF Seen, Shut, Onward
  <2> QED
    BY <1>12, <2>1, <2>2 DEF Kill
<1>13. CASE Wait(c)
  <2>1. CASE Ends(c)
    BY <1>3, <2>1
  <2>2. CASE Waited /\ Goes(c, "check")
    <3>1. client[c].pc = "wait" /\ port' = port /\ ~Answering
      BY <1>13, <2>2 DEF Wait, Waited, process
    <3>2. client[c].shut # None => port # client[c].shut
      BY <1>0, <1>2, <3>1 DEF Shut, Answering, Starting, Open, Leaving, WindingDown, ClientState
    <3>3. CASE client[c].shut = None
      <4>1. client'[c].pc = "check" /\ client'[c].shut = None
        BY <1>0, <2>2, <3>3 DEF Goes, ClientState
      <4> QED
        BY <4>1 DEF Seen, Shut
    <3> QED
      BY <1>4, <2>2, <3>1, <3>2, <3>3
  <2> QED
    BY <1>13, <2>1, <2>2 DEF Wait
<1>14. CASE \E k \in {"use", "stop", "restart"} : Start(c, k)
  <2>1. PICK k \in {"use", "stop", "restart"}, p \in {"check", "probe"} :
          client' = [client EXCEPT ![c] = [Idle EXCEPT !.cmd = k, !.tok = token, !.pc = p]]
    BY <1>14 DEF Start
  <2>2. client'[c].pc = p /\ client'[c].shut = None
    BY <1>0, <2>1 DEF Idle
  <2> QED
    BY <2>2 DEF Seen, Shut
<1> QED
  BY <1>6, <1>7, <1>8, <1>9, <1>10, <1>11, <1>12, <1>13, <1>14 DEF Client

LEMMA InitSession == Init => SessionInv
  BY DEF Init, SessionInv, FileInv, Seen, Shut, Idle, Open

LEMMA NextSession == TypeOK /\ SessionInv /\ [Next]_vars => SessionInv'
<1> SUFFICES ASSUME TypeOK, SessionInv, [Next]_vars PROVE SessionInv'
  OBVIOUS
<1>1. CASE UNCHANGED vars
  BY <1>1 DEF SessionInv, FileInv, Seen, Shut, vars, process
<1>2. ASSUME NEW d \in Daemons, Daemon(d) \/ Crash(d) PROVE SessionInv'
  <2>1. Onward /\ FileInv' /\ client' = client
    BY <1>2, DaemonOnward DEF SessionInv
  <2>2. ASSUME NEW b \in Clients PROVE Seen(b)' /\ Shut(b)'
    BY <2>1, Bystander DEF SessionInv
  <2> QED
    BY <2>1, <2>2 DEF SessionInv
<1>3. ASSUME NEW c \in Clients, Client(c) \/ \E k \in {"use", "stop", "restart"} : Start(c, k)
      PROVE  SessionInv'
  <2>1. Onward /\ FileInv' /\ \A b \in Clients \ {c} : client'[b] = client[b]
    BY <1>3, ClientOnward DEF SessionInv
  <2>2. Seen(c)' /\ Shut(c)'
    BY <1>3, ClientSession
  <2>3. ASSUME NEW b \in Clients \ {c} PROVE Seen(b)' /\ Shut(b)'
    BY <2>1, Bystander DEF SessionInv
  <2> QED
    BY <2>1, <2>2, <2>3 DEF SessionInv
<1> QED
  BY <1>1, <1>2, <1>3 DEF Next

\* The inductive invariant of tokens, sightings and restarts.
THEOREM SessionSafety == Spec => [](TypeOK /\ SessionInv)
<1>1. Init => TypeOK /\ SessionInv
  BY InitType, InitSession
<1>2. TypeOK /\ SessionInv /\ [Next]_vars => (TypeOK /\ SessionInv)'
  BY NextType, NextSession
<1> QED
  BY <1>1, <1>2, PTL DEF Spec

\* A client whose token is refused talks to another daemon than the one it saw
\* answer, for the file holds the token of whoever answers.
THEOREM RefusedOnlyByAnotherHolds == Spec => RefusedOnlyByAnother
<1>1. TypeOK /\ SessionInv /\ [Next]_vars
        => [\A c \in Clients : client[c].pc = "request" /\ client'[c].pc = "idle" /\ Rejected(c)
              => port # client[c].seen]_vars
  BY DEF SessionInv, Seen, Rejected
<1> QED
  BY <1>1, SessionSafety, PTL DEF Spec, RefusedOnlyByAnother

\* A restart never ends up at the daemon it stopped.
THEOREM RestartReplacesHolds == Spec => RestartReplaces
<1>1. TypeOK /\ SessionInv /\ [Next]_vars
        => [\A c \in Clients :
              client[c].pc = "request" /\ client'[c].pc = "idle" /\ client[c].cmd = "restart"
                 /\ Accepted(c) => port # client[c].shut]_vars
  BY DEF SessionInv, Shut, Accepted, Answering
<1> QED
  BY <1>1, SessionSafety, PTL DEF Spec, RestartReplaces

(***************************************************************************)
(* FrontDesk.  The types.                                                  *)
(***************************************************************************)
Ops        == {"none", "dedup", "cleanup"}
SeenType   == [files : SUBSET Files, op : Ops, stage : 0..3]
PausedType == [op : Ops, run : Nat, stage : 0..3]
ReviewType == [op : Ops, run : Nat, stage : 0..3, planned : SUBSET Files]
StoreType  == [lib : SUBSET Files, inbox : SUBSET Files, trashed : SUBSET Files,
               review : ReviewType, runs : Nat]
DeskType   == [at : {"idle", "left", "watching", "checking", "counting", "asking"},
               cmd : CommandType, job : Nat, seen : SeenType, fresh : BOOLEAN, exit : Nat]
JobType    == [cmd : CommandType, status : {"queued", "running"} \cup Ended, asked : BOOLEAN,
               seen : SeenType, fresh : BOOLEAN, paused : PausedType]
CardsType  == [current : SUBSET Nat, advanced : SUBSET Nat, fresh : BOOLEAN]
BoxType    == [op : Ops, stage : 0..3, fresh : BOOLEAN]

(***************************************************************************)
(* The run of a pending review is the newest one.  A card's run is of the  *)
(* same kind as the review it is compared with by number.                  *)
(***************************************************************************)
NewestRun(st) == st.review.op # "none" => st.review.run = st.runs

KindOfRun(p, st) ==
    p.run # 0 => /\ p.op # "none" /\ p.run <= st.runs
                 /\ st.review.op # "none" /\ p.run = st.runs => p.op = st.review.op

(***************************************************************************)
(* What a user was shown, as long as nobody changed the catalog since: the *)
(* files that a count announced, the stage that a question named.          *)
(***************************************************************************)
Announced(c, seen, st) == seen.files # {} /\ seen.files = Matches(Mode(c), st)

Named(seen, st) == seen.op = st.review.op /\ seen.stage = st.review.stage

JobRight(r, st) ==
    /\ KindOfRun(r.paused, st)
    /\ r.paused.run # 0 => r.status \in Ended
    /\ r.fresh /\ Leaf(r.cmd) = "apply" => Announced(r.cmd, r.seen, st)
    /\ r.fresh /\ Leaf(r.cmd) = "confirm" /\ r.seen.op # "none" => Named(r.seen, st)

AskRight(r, st) ==
    /\ r.job = 0
    /\ IF r.seen.op = "none" THEN r.fresh => Announced(r.cmd, r.seen, st)
       ELSE /\ Is(r.cmd, "confirm") \/ Is(r.cmd, "cancel")
            /\ r.fresh /\ Leaf(r.cmd) = "confirm" => Named(r.seen, st)

DeskRight(r, st) ==
    /\ r.at \in {"counting", "asking"} => ~ Is(r.cmd, "apply")
    /\ r.at = "asking" => AskRight(r, st)

(***************************************************************************)
(* What the terminal interface fetched: cards of jobs that paused a run,   *)
(* and, as long as nothing changed the catalog since, the stage pending.   *)
(***************************************************************************)
CardsRight(cds, jobs, st) ==
    /\ \A j \in cds.current \cup cds.advanced :
          j \in DOMAIN jobs /\ jobs[j].status \in Ended /\ jobs[j].paused.run # 0
    /\ cds.fresh => \A j \in cds.current : Named(jobs[j].paused, st)

BoxRight(bx, st) == bx.fresh /\ bx.op # "none" => Named(bx, st)

(***************************************************************************)
(* What a command line knows of the job it waits for.                      *)
(***************************************************************************)
Told(r, jobs, dm) ==
    /\ r.at \in {"watching", "checking"} \/ (r.at = "left" /\ r.job # 0) => r.job \in DOMAIN jobs
    /\ dm = "up" => /\ r.at = "checking" => jobs[r.job].status \in Ended
                    /\ r.at = "left" /\ r.exit = 0 /\ r.job # 0 => jobs[r.job].status = "done"

DeskInv ==
    /\ store \in StoreType /\ NewestRun(store)
    /\ job \in Seq(JobType)
    /\ \A j \in DOMAIN job : JobRight(job[j], store)
    /\ desk \in [Desks -> DeskType]
    /\ \A d \in Desks : DeskRight(desk[d], store)
    /\ \A s \in Shells : Told(desk[s], job, daemon)
    /\ ~ Is(desk["tui"].cmd, "apply")
    /\ cards \in CardsType /\ CardsRight(cards, job, store)
    /\ box \in BoxType /\ BoxRight(box, store)

(***************************************************************************)
(* What a job may leave behind.                                            *)
(***************************************************************************)
Follows(st) ==
    /\ st \in StoreType /\ NewestRun(st)
    /\ st.runs >= store.runs
    /\ st.runs = store.runs /\ st.review.op # "none" => store.review.op = st.review.op

LEMMA LowestStage ==
  ASSUME NEW S \in SUBSET (1..3), S # {}
  PROVE  Min(S) \in S
<1>1. \E x \in S : \A y \in S : x <= y
  <2>2. \A y \in S : y = 1 \/ y = 2 \/ y = 3
    OBVIOUS
  <2> PICK z \in S : TRUE
    OBVIOUS
  <2>1. 1 \in S \/ 2 \in S \/ 3 \in S
    BY <2>2
  <2>3. CASE 1 \in S
    BY <2>2, <2>3
  <2>4. CASE 1 \notin S /\ 2 \in S
    BY <2>2, <2>4
  <2>5. CASE 1 \notin S /\ 2 \notin S /\ 3 \in S
    BY <2>2, <2>5
  <2> QED
    BY <2>1, <2>3, <2>4, <2>5
<1> QED
  BY <1>1 DEF Min

LEMMA SameIsOnward ==
  ASSUME DeskInv
  PROVE  Follows(store)
BY DEF DeskInv, Follows, StoreType

\* The same review and runs, whatever becomes of the files.
LEMMA FilesOnward ==
  ASSUME DeskInv, NEW st \in StoreType, st.review = store.review, st.runs = store.runs
  PROVE  Follows(st)
BY DEF DeskInv, Follows, NewestRun, StoreType

LEMMA ClosedIsOnward ==
  ASSUME DeskInv, NEW st \in StoreType, st.review = NoReview, st.runs = store.runs
  PROVE  Follows(st)
BY DEF DeskInv, Follows, NewestRun, StoreType, NoReview

LEMMA NoReviewType == NoReview \in ReviewType
BY DEF NoReview, ReviewType, Ops

LEMMA RefreshedOnward ==
  ASSUME DeskInv, NEW c
  PROVE  /\ Refreshed(c, store) \in StoreType
         /\ Refreshed(c, store).review = store.review /\ Refreshed(c, store).runs = store.runs
<1>1. store \in StoreType
  BY DEF DeskInv
<1> QED
  BY <1>1 DEF Refreshed, StoreType

LEMMA RemovedOnward ==
  ASSUME NEW st \in StoreType, NEW c, NEW gone \in SUBSET Files
  PROVE  /\ Removed(c, st, gone) \in StoreType
         /\ Removed(c, st, gone).lib = st.lib \ gone
         /\ Removed(c, st, gone).review = st.review /\ Removed(c, st, gone).runs = st.runs
BY DEF Removed, StoreType

LEMMA ChosenType ==
  ASSUME NEW st \in StoreType, NEW c, NEW gone \in Chosen(c, st)
  PROVE  gone \in SUBSET Files
BY DEF Chosen, StoreType

LEMMA DoomedType ==
  ASSUME NEW st \in StoreType, NEW c
  PROVE  Doomed(c, st) \in SUBSET Files /\ Doomed(c, st) = Matches(Mode(c), st)
         /\ Doomed(c, st) \subseteq st.lib
BY DEF Doomed, Matches, StoreType

LEMMA AdvancedRight ==
  ASSUME NEW st \in StoreType, NEW from \in 1..4
  PROVE  /\ Advanced(st, from) \in StoreType
         /\ Advanced(st, from).runs = st.runs
         /\ \/ Advanced(st, from).review = NoReview
            \/ Advanced(st, from).review.op = "dedup" /\ Advanced(st, from).review.run = st.runs
<1> DEFINE stages == {s \in from..3 : Plan[s] \cap (st.lib \ st.trashed) # {}}
           next == Min(stages)
           planned == Plan[next] \cap (st.lib \ st.trashed)
           review == [op |-> "dedup", run |-> st.runs, stage |-> next, planned |-> planned]
<1>1. CASE stages = {}
  <2>1. Advanced(st, from) = [st EXCEPT !.review = NoReview]
    BY <1>1 DEF Advanced
  <2> QED
    BY <2>1, NoReviewType DEF StoreType
<1>2. CASE stages # {}
  <2>1. Advanced(st, from) = [st EXCEPT !.review = review]
    BY <1>2 DEF Advanced
  <2>2. stages \in SUBSET (1..3)
    OBVIOUS
  <2>3. next \in 1..3
    BY <1>2, <2>2, LowestStage
  <2>4. planned \in SUBSET Files /\ st.runs \in Nat
    BY <2>3, DeskAssumption DEF StoreType
  <2> HIDE DEF next, planned
  <2>5. review \in ReviewType
    BY <2>3, <2>4 DEF ReviewType, Ops
  <2> QED
    BY <2>1, <2>5 DEF StoreType
<1> QED
  BY <1>1, <1>2

LEMMA StagedRight ==
  ASSUME NEW st \in StoreType
  PROVE  /\ Staged(st) \in StoreType
         /\ \/ Staged(st) = st
            \/ Staged(st).runs = st.runs + 1 /\ Staged(st).review.run = st.runs + 1
<1> DEFINE found == st.lib \cap (st.trashed \cup Alike)
           review == [op |-> "cleanup", run |-> st.runs + 1, stage |-> 1, planned |-> found]
<1>1. CASE found = {}
  BY <1>1 DEF Staged
<1>2. CASE found # {}
  <2>1. Staged(st) = [st EXCEPT !.runs = @ + 1, !.review = review]
    BY <1>2 DEF Staged
  <2>2. st.runs + 1 \in Nat /\ found \in SUBSET Files
    BY DEF StoreType
  <2>3. review \in ReviewType
    BY <2>2 DEF ReviewType, Ops
  <2> HIDE DEF review
  <2>4. Staged(st) \in StoreType /\ Staged(st).runs = st.runs + 1 /\ Staged(st).review = review
    BY <2>1, <2>2, <2>3 DEF StoreType
  <2> QED
    BY <2>4 DEF review
<1> QED
  BY <1>1, <1>2

\* Which leaf a job takes, and which of them concern a review.
LEMMA Leaves ==
  ASSUME NEW c \in CommandType
  PROVE  /\ Leaf(c) \in {"confirm", "cancel", "apply", "analyze"} => c.verb \in {"dedup", "cleanup"}
         /\ Leaf(c) = "apply" => c.verb = "cleanup" /\ Is(c, "apply")
         /\ Leaf(c) = "confirm" => Is(c, "confirm")
         /\ Leaf(c) = "cancel" => Is(c, "cancel")
         /\ c.verb \in {"dedup", "cleanup"} /\ (Is(c, "confirm") \/ Is(c, "cancel"))
                => Leaf(c) \in {"confirm", "cancel"}
         /\ c.verb # "none"
<1>1. c.verb \in Verbs
  BY DEF CommandType
<1>2. CASE c.verb = "dedup"
  BY <1>2 DEF Leaf, DedupLeaf
<1>3. CASE c.verb = "cleanup"
  BY <1>3 DEF Leaf, CleanupLeaf
<1>4. CASE c.verb \notin {"dedup", "cleanup"}
  BY <1>1, <1>4 DEF Leaf, Verbs
<1> QED
  BY <1>2, <1>3, <1>4

LEMMA EffectsOnward ==
  ASSUME DeskInv, NEW c \in CommandType, CanRun(c, store), NEW st \in Effects(c, store)
  PROVE  Follows(st)
<1>1. store \in StoreType
  BY DEF DeskInv
<1>2. CASE Leaf(c) = "confirm"
  <2>1. PICK gone \in Chosen(c, store) :
          st = LET left == Removed(c, store, gone)
               IN  IF c.verb = "dedup" THEN Advanced(left, store.review.stage + 1)
                   ELSE [left EXCEPT !.review = NoReview]
    BY <1>2, Leaves DEF Effects
  <2> DEFINE left == Removed(c, store, gone)
  <2>2. /\ left \in StoreType /\ left.review = store.review /\ left.runs = store.runs
    BY <1>1, ChosenType, RemovedOnward
  <2>3. store.review.op = c.verb /\ store.review.stage + 1 \in 1..4
    BY <1>1, <1>2 DEF CanRun, StoreType, ReviewType
  <2> HIDE DEF left
  <2>4. CASE c.verb = "dedup"
    <3>1. st = Advanced(left, store.review.stage + 1)
      BY <2>1, <2>4 DEF left
    <3>2. /\ st \in StoreType /\ st.runs = store.runs
          /\ st.review = NoReview \/ (st.review.op = "dedup" /\ st.review.run = st.runs)
      BY <2>2, <2>3, <3>1, AdvancedRight
    <3>3. store.runs \in Nat
      BY <1>1 DEF StoreType
    <3> QED
      BY <2>3, <2>4, <3>2, <3>3, ClosedIsOnward DEF Follows, NewestRun
  <2>5. CASE c.verb # "dedup"
    <3>1. st = [left EXCEPT !.review = NoReview]
      BY <2>1, <2>5 DEF left
    <3>2. st \in StoreType /\ st.review = NoReview /\ st.runs = store.runs
      BY <2>2, <3>1, NoReviewType DEF StoreType
    <3> QED
      BY <3>2, ClosedIsOnward
  <2> QED
    BY <2>4, <2>5
<1>3. CASE Leaf(c) = "cancel"
  <2>1. st = [store EXCEPT !.review = NoReview]
    BY <1>3, Leaves DEF Effects
  <2>2. st \in StoreType /\ st.review = NoReview /\ st.runs = store.runs
    BY <1>1, <2>1, NoReviewType DEF StoreType
  <2> QED
    BY <2>2, ClosedIsOnward
<1>4. CASE Leaf(c) = "apply"
  <2>1. PICK held \in SUBSET Stuck : st = Removed(c, store, Doomed(c, store) \ held)
    BY <1>4, Leaves DEF Effects
  <2>2. Doomed(c, store) \ held \in SUBSET Files
    BY <1>1, DoomedType
  <2> QED
    BY <1>1, <2>1, <2>2, RemovedOnward, FilesOnward
<1>5. CASE Leaf(c) = "analyze"
  <2>1. store.review.op = "none"
    BY <1>5 DEF CanRun
  <2>2. CASE c.verb = "cleanup"
    <3> DEFINE mid == Refreshed(c, store)
    <3>1. mid \in StoreType /\ mid.review = store.review /\ mid.runs = store.runs
      BY RefreshedOnward
    <3>2. st = Staged(mid)
      BY <1>5, <2>2, Leaves DEF Effects
    <3> HIDE DEF mid
    <3>3. st \in StoreType /\ (st = mid \/ (st.runs = mid.runs + 1 /\ st.review.run = mid.runs + 1))
      BY <3>1, <3>2, StagedRight
    <3>4. mid.runs \in Nat
      BY <3>1 DEF StoreType
    <3> QED
      BY <3>1, <3>3, <3>4, FilesOnward DEF Follows, NewestRun
  <2>3. CASE c.verb # "cleanup"
    <3> DEFINE mid == [store EXCEPT !.runs = @ + 1]
    <3>1. mid \in StoreType /\ mid.runs = store.runs + 1 /\ store.runs \in Nat
      BY <1>1 DEF StoreType
    <3>2. st = Advanced(mid, 1)
      BY <1>5, <2>3, Leaves DEF Effects
    <3> HIDE DEF mid
    <3>3. /\ st \in StoreType /\ st.runs = store.runs + 1
          /\ st.review = NoReview \/ (st.review.op = "dedup" /\ st.review.run = st.runs)
      BY <3>1, <3>2, AdvancedRight
    <3> QED
      BY <3>1, <3>3 DEF Follows, NewestRun, NoReview
  <2> QED
    BY <2>2, <2>3
<1>6. CASE c.verb = "untrash" /\ ~ Is(c, "dry")
  <2>1. PICK f \in Files : st = [store EXCEPT !.trashed = @ \ {f}]
    BY <1>6 DEF Effects, Leaf
  <2>2. st \in StoreType /\ st.review = store.review /\ st.runs = store.runs
    BY <1>1, <2>1 DEF StoreType
  <2> QED
    BY <2>2, FilesOnward
<1>7. CASE /\ Leaf(c) \notin {"confirm", "cancel", "apply", "analyze"}
           /\ ~ (c.verb = "untrash" /\ ~ Is(c, "dry"))
  <2>1. st = Refreshed(c, store)
    BY <1>7 DEF Effects
  <2> QED
    BY <2>1, RefreshedOnward, FilesOnward
<1> QED
  BY <1>2, <1>3, <1>4, <1>5, <1>6, <1>7

LEMMA PartialsOnward ==
  ASSUME DeskInv, NEW c \in CommandType, NEW st \in Partials(c, store)
  PROVE  Follows(st)
<1>1. store \in StoreType
  BY DEF DeskInv
<1>2. \/ st = store \/ st = Refreshed(c, store)
      \/ \E gone \in SUBSET Files : st = Removed(c, store, gone)
  <2>1. \A g \in Chosen(c, store) : g \in SUBSET Files
    BY <1>1, ChosenType
  <2>2. Doomed(c, store) \in SUBSET Files
    BY <1>1, DoomedType
  <2>3. CASE Leaf(c) = "confirm"
    <3>1. st \in {store, Refreshed(c, store)} \/
          st \in {Removed(c, store, gone) : gone \in UNION {SUBSET g : g \in Chosen(c, store)}}
      BY <2>3 DEF Partials
    <3> QED
      BY <2>1, <3>1
  <2>4. CASE Leaf(c) = "apply"
    <3>1. st \in {store, Refreshed(c, store)} \/
          st \in {Removed(c, store, gone) : gone \in SUBSET Doomed(c, store)}
      BY <2>4 DEF Partials
    <3> QED
      BY <2>2, <3>1
  <2>5. CASE Leaf(c) \notin {"confirm", "apply"}
    BY <2>5 DEF Partials
  <2> QED
    BY <2>3, <2>4, <2>5
<1>3. ASSUME NEW gone \in SUBSET Files, st = Removed(c, store, gone) PROVE Follows(st)
  BY <1>1, <1>3, RemovedOnward, FilesOnward
<1> QED
  BY <1>2, <1>3, SameIsOnward, RefreshedOnward, FilesOnward

(***************************************************************************)
(* A change of the catalog ages what others were shown.                    *)
(***************************************************************************)
LEMMA SeenAgain ==
  ASSUME NEW c, NEW st \in StoreType,
         <<st.lib, st.trashed, st.review>> = <<store.lib, store.trashed, store.review>>,
         NEW seen
  PROVE  /\ Announced(c, seen, store) => Announced(c, seen, st)
         /\ Named(seen, store) => Named(seen, st)
BY DEF Announced, Matches, Named

LEMMA KindKept ==
  ASSUME store \in StoreType, NEW p \in PausedType, KindOfRun(p, store), NEW st, Follows(st)
  PROVE  KindOfRun(p, st)
<1>1. p.run \in Nat /\ store.runs \in Nat /\ st.runs \in Nat
  BY DEF PausedType, StoreType, Follows
<1>2. CASE st.runs = store.runs
  BY <1>1, <1>2 DEF KindOfRun, Follows
<1>3. CASE st.runs > store.runs
  BY <1>1, <1>3 DEF KindOfRun, Follows
<1> QED
  BY <1>1, <1>2, <1>3 DEF Follows

\* What a record loses with age: its freshness, if it was shown anything.
LEMMA AgedDesk ==
  ASSUME store \in StoreType, NEW r \in DeskType, DeskRight(r, store), NEW st, Follows(st)
  PROVE  /\ Aged(r, st) \in DeskType /\ DeskRight(Aged(r, st), st)
         /\ Aged(r, st).at = r.at /\ Aged(r, st).job = r.job /\ Aged(r, st).exit = r.exit
         /\ Aged(r, st).cmd = r.cmd
<1> DEFINE a == Aged(r, st)
           same == <<st.lib, st.trashed, st.review>> = <<store.lib, store.trashed, store.review>>
<1>1. /\ a \in DeskType
      /\ a.cmd = r.cmd /\ a.seen = r.seen /\ a.at = r.at /\ a.job = r.job /\ a.exit = r.exit
      /\ a.fresh => r.fresh /\ (r.seen = Unseen \/ same)
  <2>1. CASE r.seen # Unseen /\ ~ same
    <3>1. a = [r EXCEPT !.fresh = FALSE]
      BY <2>1 DEF Aged, Changes
    <3> QED
      BY <3>1 DEF DeskType
  <2>2. CASE r.seen = Unseen \/ same
    BY <2>2 DEF Aged, Changes
  <2> QED
    BY <2>1, <2>2
<1>2. st \in StoreType
  BY DEF Follows
<1> HIDE DEF a, same
<1>3. same => /\ Announced(r.cmd, r.seen, store) => Announced(r.cmd, r.seen, st)
              /\ Named(r.seen, store) => Named(r.seen, st)
  BY <1>2, SeenAgain DEF same
<1>4. r.seen = Unseen => r.seen.op = "none" /\ r.seen.files = {}
  BY DEF Unseen
<1>5. ASSUME r.at = "asking" PROVE AskRight(a, st)
  <2>1. AskRight(r, store)
    BY <1>5 DEF DeskRight
  <2>2. CASE r.seen.op = "none"
    BY <1>1, <1>3, <1>4, <2>1, <2>2 DEF AskRight, Announced
  <2>3. CASE r.seen.op # "none"
    BY <1>1, <1>3, <1>4, <2>1, <2>3 DEF AskRight
  <2> QED
    BY <2>2, <2>3
<1>6. DeskRight(a, st)
  BY <1>1, <1>5 DEF DeskRight
<1> QED
  BY <1>1, <1>6 DEF a

LEMMA AgedJob ==
  ASSUME store \in StoreType, NEW r \in JobType, JobRight(r, store), NEW st, Follows(st)
  PROVE  /\ Aged(r, st) \in JobType /\ JobRight(Aged(r, st), st)
         /\ Aged(r, st).status = r.status /\ Aged(r, st).paused = r.paused
<1> DEFINE a == Aged(r, st)
           same == <<st.lib, st.trashed, st.review>> = <<store.lib, store.trashed, store.review>>
<1>1. /\ a \in JobType
      /\ a.cmd = r.cmd /\ a.seen = r.seen /\ a.status = r.status /\ a.paused = r.paused
      /\ a.fresh => r.fresh /\ (r.seen = Unseen \/ same)
  <2>1. CASE r.seen # Unseen /\ ~ same
    <3>1. a = [r EXCEPT !.fresh = FALSE]
      BY <2>1 DEF Aged, Changes
    <3> QED
      BY <3>1 DEF JobType
  <2>2. CASE r.seen = Unseen \/ same
    BY <2>2 DEF Aged, Changes
  <2> QED
    BY <2>1, <2>2
<1>2. st \in StoreType /\ r.paused \in PausedType
  BY DEF Follows, JobType
<1> HIDE DEF a, same
<1>3. same => /\ Announced(r.cmd, r.seen, store) => Announced(r.cmd, r.seen, st)
              /\ Named(r.seen, store) => Named(r.seen, st)
  BY <1>2, SeenAgain DEF same
<1>4. r.seen = Unseen => r.seen.op = "none" /\ ~ Announced(r.cmd, r.seen, store)
  BY DEF Unseen, Announced
<1>5. KindOfRun(a.paused, st)
  BY <1>1, <1>2, KindKept DEF JobRight
<1>6. JobRight(a, st)
  BY <1>1, <1>3, <1>4, <1>5 DEF JobRight
<1> QED
  BY <1>1, <1>6 DEF a

LEMMA OverRight ==
  ASSUME DeskInv, NEW j \in DOMAIN job, NEW status \in Ended, NEW paused \in PausedType,
         NEW st, KindOfRun(paused, st)
  PROVE  /\ Over(j, status, paused) \in JobType /\ JobRight(Over(j, status, paused), st)
         /\ Over(j, status, paused).status = status
<1> DEFINE o == Over(j, status, paused)
<1>1. job[j] \in JobType
  BY DEF DeskInv
<1>2. NoCommand \in CommandType /\ Leaf(NoCommand) = "scan" /\ Unseen \in SeenType
  BY DEF NoCommand, Command, CommandType, Verbs, Roots, Leaf, Unseen, SeenType, Ops
<1>3. /\ o \in JobType
      /\ o.cmd = NoCommand /\ o.status = status /\ o.paused = paused
  BY <1>1, <1>2 DEF Over, JobType
<1> HIDE DEF o
<1>4. JobRight(o, st)
  BY <1>2, <1>3 DEF JobRight
<1> QED
  BY <1>3, <1>4 DEF o

(***************************************************************************)
(* The parts of a step.                                                    *)
(***************************************************************************)
JobsOnward ==
    \A j \in DOMAIN job : /\ j \in DOMAIN job'
                          /\ job[j].status \in Ended => /\ job'[j].status = job[j].status
                                                       /\ job'[j].paused = job[j].paused

LEMMA ToldOnward ==
  ASSUME NEW r, Told(r, job, daemon), JobsOnward, daemon' = "up" => daemon = "up"
  PROVE  Told(r, job', daemon')
BY DEF Told, JobsOnward, Ended

\* What was fetched stays right while the catalog does, whatever job is added or ends,
LEMMA PagesStay ==
  ASSUME DeskInv, JobsOnward, UNCHANGED pages, NEW st, st.review = store.review
  PROVE  /\ cards' \in CardsType /\ CardsRight(cards', job', st)
         /\ box' \in BoxType /\ BoxRight(box', st)
<1>1. cards' = cards /\ box' = box
  BY DEF pages
<1>2. CardsRight(cards, job', st)
  BY DEF DeskInv, JobsOnward, CardsRight, Named
<1>3. BoxRight(box, st)
  BY DEF DeskInv, BoxRight, Named
<1> QED
  BY <1>1, <1>2, <1>3 DEF DeskInv

\* and ages when the catalog changes.
LEMMA PagesGetOld ==
  ASSUME DeskInv, JobsOnward, NEW st, PagesAge(st)
  PROVE  /\ cards' \in CardsType /\ CardsRight(cards', job', st)
         /\ box' \in BoxType /\ BoxRight(box', st)
<1>1. CASE Changes(st)
  <2>1. /\ cards' = [cards EXCEPT !.fresh = cards.current \cup cards.advanced = {}]
        /\ box' = [box EXCEPT !.fresh = box.op = "none"]
    BY <1>1 DEF PagesAge
  <2>2. /\ cards' \in CardsType /\ box' \in BoxType /\ box'.op = box.op
        /\ cards'.current = cards.current /\ cards'.advanced = cards.advanced
        /\ cards'.fresh => cards.current = {}
        /\ box'.fresh => box.op = "none"
    BY <2>1 DEF DeskInv, CardsType, BoxType
  <2> QED
    BY <2>2 DEF DeskInv, JobsOnward, CardsRight, BoxRight
<1>2. CASE ~ Changes(st)
  <2>1. st.review = store.review /\ UNCHANGED pages
    BY <1>2 DEF PagesAge, Changes
  <2> QED
    BY <2>1, PagesStay
<1> QED
  BY <1>1, <1>2

\* One front end moves, and nothing else does.
LEMMA OneDesk ==
  ASSUME DeskInv, NEW d \in Desks, NEW r \in DeskType, DeskRight(r, store),
         d \in Shells => Told(r, job, daemon), d = "tui" => ~ Is(r.cmd, "apply"),
         desk' = [desk EXCEPT ![d] = r], UNCHANGED <<pages, job, store, daemon>>
  PROVE  DeskInv'
<1>1. /\ desk' \in [Desks -> DeskType]
      /\ \A e \in Desks : desk'[e] = IF e = d THEN r ELSE desk[e]
  BY DEF DeskInv
<1>2. \A e \in Desks : DeskRight(desk'[e], store)
  BY <1>1 DEF DeskInv
<1>3. \A s \in Shells : Told(desk'[s], job, daemon)
  BY <1>1 DEF DeskInv, Desks
<1>4. ~ Is(desk'["tui"].cmd, "apply")
  BY <1>1 DEF DeskInv, Desks
<1>5. cards' = cards /\ box' = box
  BY DEF pages
<1> QED
  BY <1>1, <1>2, <1>3, <1>4, <1>5 DEF DeskInv, Is

LEMMA Enqueuing ==
  ASSUME job \in Seq(JobType), NEW x \in JobType, job' = Append(job, x)
  PROVE  /\ job' \in Seq(JobType) /\ JobsOnward
         /\ \A j \in DOMAIN job' : job'[j] = x \/ (j \in DOMAIN job /\ job'[j] = job[j])
         /\ Len(job) + 1 \in DOMAIN job'
<1>1. /\ job' \in Seq(JobType) /\ Len(job') = Len(job) + 1 /\ Len(job) \in Nat
      /\ DOMAIN job = 1 .. Len(job) /\ DOMAIN job' = 1 .. Len(job) + 1
      /\ \A j \in 1 .. Len(job) : job'[j] = job[j]
      /\ job'[Len(job) + 1] = x
  OBVIOUS
<1> QED
  BY <1>1 DEF JobsOnward

\* A job is submitted, and a front end moves or none does.
LEMMA Enqueues ==
  ASSUME DeskInv, NEW x \in JobType, JobRight(x, store), job' = Append(job, x),
         NEW d \in Desks, NEW r \in DeskType, DeskRight(r, store),
         d \in Shells => Told(r, job', daemon), d = "tui" => ~ Is(r.cmd, "apply"),
         desk' = [desk EXCEPT ![d] = r], UNCHANGED <<pages, store, daemon>>
  PROVE  DeskInv'
<1>1. /\ desk' \in [Desks -> DeskType]
      /\ \A e \in Desks : desk'[e] = IF e = d THEN r ELSE desk[e]
  BY DEF DeskInv
<1>2. /\ job' \in Seq(JobType) /\ JobsOnward
      /\ \A j \in DOMAIN job' : job'[j] = x \/ (j \in DOMAIN job /\ job'[j] = job[j])
  BY Enqueuing DEF DeskInv
<1>3. \A e \in Desks : DeskRight(desk'[e], store)
  BY <1>1 DEF DeskInv
<1>4. ASSUME NEW s \in Shells PROVE Told(desk'[s], job', daemon)
  <2>1. CASE s = d
    BY <1>1, <2>1
  <2>2. CASE s # d
    <3>1. Told(desk[s], job, daemon)
      BY DEF DeskInv
    <3>2. Told(desk[s], job', daemon)
      BY <1>2, <3>1, ToldOnward
    <3> QED
      BY <1>1, <2>2, <3>2 DEF Desks
  <2> QED
    BY <2>1, <2>2
<1>5. \A j \in DOMAIN job' : JobRight(job'[j], store)
  BY <1>2 DEF DeskInv
<1>6. ~ Is(desk'["tui"].cmd, "apply")
  BY <1>1 DEF DeskInv, Desks
<1>7. /\ cards' \in CardsType /\ CardsRight(cards', job', store)
      /\ box' \in BoxType /\ BoxRight(box', store)
  BY <1>2, PagesStay
<1> QED
  BY <1>1, <1>2, <1>3, <1>4, <1>5, <1>6, <1>7 DEF DeskInv, Is

\* The catalog changes: who was shown it ages, and jobs that stop are over.
LEMMA Landing ==
  ASSUME DeskInv, NEW st, Follows(st), store' = st,
         job' \in Seq(JobType), DOMAIN job' = DOMAIN job,
         \A j \in DOMAIN job :
             \/ job'[j] = Aged(job[j], st)
             \/ /\ job[j].status \in {"queued", "running"}
                /\ JobRight(job'[j], st),
         DOMAIN desk' = Desks,
         \A d \in Desks : desk'[d] = Aged(desk[d], st)
                          \/ (desk[d].job \in DOMAIN job /\ desk'[d] = desk[d]),
         daemon' = "up" => daemon = "up",
         desk' \in [Desks -> DeskType], PagesAge(st)
  PROVE  DeskInv'
<1>1. store \in StoreType /\ NewestRun(store)
  BY DEF DeskInv
<1>2. \A j \in DOMAIN job : job[j] \in JobType /\ JobRight(job[j], store)
  BY DEF DeskInv
<1>3. \A d \in Desks : desk[d] \in DeskType /\ DeskRight(desk[d], store)
  BY DEF DeskInv
<1>4. JobsOnward
  BY <1>1, <1>2, AgedJob DEF JobsOnward, Ended, Failed
<1>5. \A j \in DOMAIN job : JobRight(job'[j], st)
  BY <1>1, <1>2, AgedJob
<1>6. ASSUME NEW d \in Desks
      PROVE  /\ DeskRight(desk'[d], st)
             /\ d \in Shells => Told(desk'[d], job', daemon')
  <2>1. CASE desk'[d] = Aged(desk[d], st)
    <3>1. DeskRight(desk'[d], st)
      BY <1>1, <1>3, <2>1, AgedDesk
    <3>2. /\ desk'[d].at = desk[d].at /\ desk'[d].job = desk[d].job
          /\ desk'[d].exit = desk[d].exit
      BY <1>1, <1>3, <2>1, AgedDesk
    <3>3. d \in Shells => Told(desk[d], job', daemon')
      BY <1>4, ToldOnward DEF DeskInv
    <3> QED
      BY <3>1, <3>2, <3>3 DEF Told
  <2>2. CASE desk[d].job \in DOMAIN job /\ desk'[d] = desk[d]
    <3>1. desk[d].job # 0
      BY <2>2 DEF DeskInv
    <3>2. desk[d].at # "asking"
      BY <1>3, <3>1 DEF DeskRight, AskRight
    <3>3. d \in Shells => Told(desk[d], job', daemon')
      BY <1>4, ToldOnward DEF DeskInv
    <3> QED
      BY <1>3, <2>2, <3>2, <3>3 DEF DeskRight
  <2> QED
    BY <2>1, <2>2
<1>7. \A d \in Desks : DeskRight(desk'[d], store')
  BY <1>6
<1>8. \A s \in Shells : Told(desk'[s], job', daemon')
  BY <1>6 DEF Desks
<1>9. \A j \in DOMAIN job' : JobRight(job'[j], store')
  BY <1>5
<1>10. store' \in StoreType /\ NewestRun(store')
  BY DEF Follows
<1>11. ~ Is(desk'["tui"].cmd, "apply")
  <2>1. "tui" \in Desks
    BY DEF Desks
  <2>2. desk'["tui"].cmd = desk["tui"].cmd
    BY <1>1, <1>3, <2>1, AgedDesk
  <2> QED
    BY <2>2 DEF DeskInv
<1>12. /\ cards' \in CardsType /\ CardsRight(cards', job', store')
       /\ box' \in BoxType /\ BoxRight(box', store')
  BY <1>4, PagesGetOld
<1> QED
  BY <1>7, <1>8, <1>9, <1>10, <1>11, <1>12 DEF DeskInv, Is

(***************************************************************************)
(* The steps of the queue.                                                 *)
(***************************************************************************)
LEMMA JobsAgain ==
  ASSUME job \in Seq(JobType), NEW g, g = [j \in DOMAIN job |-> g[j]],
         \A j \in DOMAIN job : g[j] \in JobType
  PROVE  g \in Seq(JobType) /\ DOMAIN g = DOMAIN job
<1>1. Len(job) \in Nat /\ DOMAIN job = 1 .. Len(job)
  OBVIOUS
<1>2. g \in [1 .. Len(job) -> JobType]
  BY <1>1
<1> QED
  BY <1>1, <1>2

\* One job moves, and nothing else does.
LEMMA OneJob ==
  ASSUME DeskInv, NEW j \in DOMAIN job, job[j].status \in {"queued", "running"},
         NEW x \in JobType, JobRight(x, store), job' = [job EXCEPT ![j] = x],
         UNCHANGED <<desk, pages, store, daemon>>
  PROVE  DeskInv'
<1>1. job \in Seq(JobType) /\ \A k \in DOMAIN job : job[k] \in JobType /\ JobRight(job[k], store)
  BY DEF DeskInv
<1>2. \A k \in DOMAIN job : job'[k] = IF k = j THEN x ELSE job[k]
  BY <1>1
<1>3. job' \in Seq(JobType) /\ DOMAIN job' = DOMAIN job
  BY <1>1, <1>2, JobsAgain
<1>4. JobsOnward
  BY <1>2, <1>3 DEF JobsOnward, Ended, Failed
<1>5. \A k \in DOMAIN job' : JobRight(job'[k], store)
  BY <1>1, <1>2, <1>3
<1>6. \A s \in Shells : Told(desk[s], job', daemon')
  BY <1>4, ToldOnward DEF DeskInv
<1>7. /\ cards' \in CardsType /\ CardsRight(cards', job', store)
      /\ box' \in BoxType /\ BoxRight(box', store)
  BY <1>4, PagesStay
<1> QED
  BY <1>3, <1>5, <1>6, <1>7 DEF DeskInv, Is

LEMMA RunStep ==
  ASSUME DeskInv, NEW j \in DOMAIN job, Run(j)
  PROVE  DeskInv'
<1> DEFINE x == [job[j] EXCEPT !.status = "running"]
<1>1. job[j] \in JobType /\ JobRight(job[j], store)
  BY DEF DeskInv
<1>2. x \in JobType /\ JobRight(x, store)
  BY <1>1 DEF JobType, JobRight, Run, Ended, Failed
<1>3. /\ job[j].status \in {"queued", "running"} /\ job' = [job EXCEPT ![j] = x]
      /\ UNCHANGED <<desk, pages, store, daemon>>
  BY DEF Run
<1> HIDE DEF x
<1> QED
  BY <1>2, <1>3, OneJob

LEMMA NothingIsPaused ==
  ASSUME NEW st
  PROVE  NothingPaused \in PausedType /\ KindOfRun(NothingPaused, st) /\ NothingPaused.run = 0
BY DEF NothingPaused, PausedType, KindOfRun, Ops

LEMMA CancelStep ==
  ASSUME DeskInv, NEW j \in DOMAIN job, Cancel(j)
  PROVE  DeskInv'
<1> DEFINE x == IF job[j].status = "queued" THEN Over(j, "cancelled", NothingPaused)
                ELSE [job[j] EXCEPT !.asked = TRUE]
<1>1. job[j] \in JobType /\ JobRight(job[j], store)
  BY DEF DeskInv
<1>2. x \in JobType /\ JobRight(x, store)
  <2>1. CASE job[j].status = "queued"
    BY <2>1, OverRight, NothingIsPaused DEF Ended, Failed
  <2>2. CASE job[j].status # "queued"
    BY <1>1, <2>2 DEF JobType, JobRight
  <2> QED
    BY <2>1, <2>2
<1>3. /\ job[j].status \in {"queued", "running"} /\ job' = [job EXCEPT ![j] = x]
      /\ UNCHANGED <<desk, pages, store, daemon>>
  BY DEF Cancel
<1> HIDE DEF x
<1> QED
  BY <1>2, <1>3, OneJob

LEMMA PausedRight ==
  ASSUME NEW c \in CommandType, NEW st \in StoreType, NewestRun(st)
  PROVE  Paused(c, st) \in PausedType /\ KindOfRun(Paused(c, st), st)
<1> DEFINE p == [op |-> c.verb, run |-> st.review.run, stage |-> st.review.stage]
<1>1. c.verb # "none"
  BY Leaves
<1>2. CASE Paused(c, st) = p /\ st.review.op = c.verb
  <2>1. st.review \in ReviewType /\ st.runs \in Nat
    BY DEF StoreType
  <2>2. p \in PausedType
    BY <1>2, <2>1 DEF ReviewType, PausedType
  <2>3. st.review.run = st.runs
    BY <1>1, <1>2 DEF NewestRun
  <2>4. KindOfRun(p, st)
    BY <1>1, <1>2, <2>1, <2>3 DEF KindOfRun
  <2> QED
    BY <1>2, <2>2, <2>4
<1>3. CASE Paused(c, st) = NothingPaused
  BY <1>3, NothingIsPaused
<1> QED
  BY <1>2, <1>3 DEF Paused

LEMMA SettleStep ==
  ASSUME DeskInv, NEW j \in DOMAIN job, job[j].status = "running", NEW status \in Ended,
         NEW st, Follows(st), Settle(j, status, st), daemon' = daemon
  PROVE  /\ DeskInv'
         /\ job'[j].status = status
         /\ \A k \in DOMAIN job : k # j => job'[k].status = job[k].status
<1> DEFINE paused == IF status = "done" THEN Paused(job[j].cmd, st) ELSE NothingPaused
<1>1. /\ store \in StoreType /\ job \in Seq(JobType) /\ desk \in [Desks -> DeskType]
      /\ \A k \in DOMAIN job : job[k] \in JobType /\ JobRight(job[k], store)
      /\ \A d \in Desks : DeskRight(desk[d], store)
  BY DEF DeskInv
<1>2. /\ store' = st
      /\ job' = [k \in DOMAIN job |-> IF k = j THEN Over(j, status, paused) ELSE Aged(job[k], st)]
      /\ desk' = [d \in Desks |-> IF desk[d].job = j THEN desk[d] ELSE Aged(desk[d], st)]
      /\ PagesAge(st)
  BY DEF Settle
<1>3. paused \in PausedType /\ KindOfRun(paused, st)
  <2>1. st \in StoreType /\ NewestRun(st) /\ job[j].cmd \in CommandType
    BY <1>1 DEF Follows, JobType
  <2> QED
    BY <2>1, PausedRight, NothingIsPaused
<1> HIDE DEF paused
<1>4. /\ Over(j, status, paused) \in JobType /\ JobRight(Over(j, status, paused), st)
      /\ Over(j, status, paused).status = status
  BY <1>3, OverRight
<1>5. \A k \in DOMAIN job : Aged(job[k], st) \in JobType /\ Aged(job[k], st).status = job[k].status
  BY <1>1, AgedJob
<1>6. \A k \in DOMAIN job : job'[k] = IF k = j THEN Over(j, status, paused) ELSE Aged(job[k], st)
  BY <1>2
<1>7. job' \in Seq(JobType) /\ DOMAIN job' = DOMAIN job
  BY <1>1, <1>2, <1>4, <1>5, <1>6, JobsAgain
<1>8. /\ \A d \in Desks : desk'[d] = IF desk[d].job = j THEN desk[d] ELSE Aged(desk[d], st)
      /\ DOMAIN desk' = Desks
  BY <1>2
<1>9. desk' \in [Desks -> DeskType]
  <2>1. \A d \in Desks : desk[d] \in DeskType /\ Aged(desk[d], st) \in DeskType
    BY <1>1, AgedDesk
  <2> QED
    BY <1>2, <2>1
<1>10. DeskInv'
  BY <1>2, <1>4, <1>6, <1>7, <1>8, <1>9, Landing
<1> QED
  BY <1>4, <1>5, <1>6, <1>10

LEMMA FinishStep ==
  ASSUME DeskInv, NEW j \in DOMAIN job, Finish(j)
  PROVE  DeskInv' /\ \A k \in DOMAIN job : Succeeds(k) => k = j
<1>1. job[j].cmd \in CommandType
  <2>1. job[j] \in JobType
    BY DEF DeskInv
  <2> QED
    BY <2>1 DEF JobType
<1>2. PICK st \in Effects(job[j].cmd, store) : Settle(j, "done", st)
  BY DEF Finish
<1>3. Follows(st) /\ job[j].status = "running" /\ daemon' = daemon
  BY <1>1, EffectsOnward DEF Finish
<1>4. DeskInv' /\ \A k \in DOMAIN job : k # j => job'[k].status = job[k].status
  BY <1>2, <1>3, SettleStep DEF Ended
<1> QED
  BY <1>4 DEF Succeeds

\* Neither a job that is turned down nor one that fails is done.
LEMMA RejectStep ==
  ASSUME DeskInv, NEW j \in DOMAIN job, Reject(j)
  PROVE  DeskInv' /\ \A k \in DOMAIN job : ~ Succeeds(k)
<1>1. Follows(store) /\ job[j].status = "running" /\ Settle(j, "error", store) /\ daemon' = daemon
  BY SameIsOnward DEF Reject
<1>2. /\ DeskInv' /\ job'[j].status = "error"
      /\ \A k \in DOMAIN job : k # j => job'[k].status = job[k].status
  BY <1>1, SettleStep DEF Ended, Failed
<1> QED
  BY <1>2 DEF Succeeds

LEMMA FailStep ==
  ASSUME DeskInv, NEW j \in DOMAIN job, Fail(j)
  PROVE  DeskInv' /\ \A k \in DOMAIN job : ~ Succeeds(k)
<1> DEFINE status == IF job[j].asked THEN "cancelled" ELSE "error"
<1>1. job[j].cmd \in CommandType
  <2>1. job[j] \in JobType
    BY DEF DeskInv
  <2> QED
    BY <2>1 DEF JobType
<1>2. PICK st \in Partials(job[j].cmd, store) : Settle(j, status, st)
  BY DEF Fail
<1>3. Follows(st) /\ job[j].status = "running" /\ daemon' = daemon
  BY <1>1, PartialsOnward DEF Fail
<1>4. status \in Ended /\ status # "done"
  BY DEF Ended, Failed
<1> HIDE DEF status
<1>5. /\ DeskInv' /\ job'[j].status = status
      /\ \A k \in DOMAIN job : k # j => job'[k].status = job[k].status
  BY <1>2, <1>3, <1>4, SettleStep
<1> QED
  BY <1>4, <1>5 DEF Succeeds

\* A daemon that comes up again after it was stopped at work.
LEMMA RestartStep ==
  ASSUME DeskInv, Restart
  PROVE  DeskInv' /\ \A k \in DOMAIN job : ~ Succeeds(k)
<1> DEFINE ran    == {j \in DOMAIN job : job[j].status = "running"}
           carved == {j \in DOMAIN job : /\ job[j].status = "queued"
                                         /\ Leaf(job[j].cmd) \in {"confirm", "apply"}}
           gone   == ran \cup carved
<1>1. /\ store \in StoreType /\ job \in Seq(JobType) /\ desk \in [Desks -> DeskType]
      /\ \A k \in DOMAIN job : job[k] \in JobType /\ JobRight(job[k], store)
      /\ \A d \in Desks : DeskRight(desk[d], store)
  BY DEF DeskInv
<1>2. PICK st \in {store} \cup UNION {IF CanRun(job[j].cmd, store)
                                       THEN Partials(job[j].cmd, store)
                                       ELSE {store} : j \in ran} :
        /\ store' = st
        /\ job' = [k \in DOMAIN job |-> IF k \in gone THEN Over(k, "interrupted", NothingPaused)
                                        ELSE Aged(job[k], st)]
        /\ desk' = [d \in Desks |-> Aged(desk[d], st)]
        /\ PagesAge(st)
  BY DEF Restart
<1>3. Follows(st)
  <2>1. CASE st = store
    BY <2>1, SameIsOnward
  <2>2. ASSUME NEW j \in ran, st \in Partials(job[j].cmd, store) PROVE Follows(st)
    <3>1. job[j].cmd \in CommandType
      BY <1>1 DEF JobType
    <3> QED
      BY <2>2, <3>1, PartialsOnward
  <2> DEFINE mess(j) == IF CanRun(job[j].cmd, store) THEN Partials(job[j].cmd, store)
                        ELSE {store}
  <2>3. st = store \/ \E j \in ran : st \in mess(j)
    <3> DEFINE all == UNION {mess(j) : j \in ran}
    <3>1. st \in {store} \cup all
      BY <1>2
    <3>2. st \in all => \E j \in ran : st \in mess(j)
      <4> HIDE DEF mess, ran
      <4> QED
        BY Zenon
    <3> HIDE DEF all, mess
    <3> QED
      BY <3>1, <3>2
  <2>4. \A j \in ran : st \in mess(j) => st = store \/ st \in Partials(job[j].cmd, store)
    OBVIOUS
  <2> HIDE DEF mess, ran
  <2> QED
    BY <2>1, <2>2, <2>3, <2>4
<1>4. \A k \in gone : k \in DOMAIN job /\ job[k].status \in {"queued", "running"}
  OBVIOUS
<1>5. \A k \in DOMAIN job : k \notin gone => job[k].status # "running"
  OBVIOUS
<1> HIDE DEF gone
<1>6. \A k \in gone : /\ Over(k, "interrupted", NothingPaused) \in JobType
                      /\ JobRight(Over(k, "interrupted", NothingPaused), st)
                      /\ Over(k, "interrupted", NothingPaused).status = "interrupted"
  BY <1>4, OverRight, NothingIsPaused DEF Ended, Failed
<1>7. \A k \in DOMAIN job : Aged(job[k], st) \in JobType /\ Aged(job[k], st).status = job[k].status
  BY <1>1, <1>3, AgedJob
<1>8. \A k \in DOMAIN job : job'[k] = IF k \in gone THEN Over(k, "interrupted", NothingPaused)
                                      ELSE Aged(job[k], st)
  BY <1>2
<1>9. job' \in Seq(JobType) /\ DOMAIN job' = DOMAIN job
  BY <1>1, <1>2, <1>6, <1>7, <1>8, JobsAgain
<1>10. desk' \in [Desks -> DeskType] /\ \A d \in Desks : desk'[d] = Aged(desk[d], st)
  <2>1. \A d \in Desks : Aged(desk[d], st) \in DeskType
    BY <1>1, <1>3, AgedDesk
  <2> QED
    BY <1>2, <2>1
<1>11. store' = st /\ daemon' # "up"
  BY <1>2 DEF Restart
<1>12. DeskInv'
  BY <1>2, <1>3, <1>4, <1>6, <1>8, <1>9, <1>10, <1>11, Landing
<1>13. \A k \in DOMAIN job : ~ Succeeds(k)
  BY <1>5, <1>6, <1>7, <1>8 DEF Succeeds
<1> QED
  BY <1>12, <1>13

LEMMA WorldSteps ==
  ASSUME DeskInv, Stop \/ (\E f \in Files : Drop(f))
  PROVE  DeskInv'
<1>1. CASE Stop
  <2>1. \A s \in Shells : Told(desk[s], job, "stopping")
    BY DEF DeskInv, Told
  <2> QED
    BY <1>1, <2>1 DEF Stop, pages, DeskInv, Is
<1>2. ASSUME NEW f \in Files, Drop(f) PROVE DeskInv'
  <2> DEFINE st == [store EXCEPT !.inbox = @ \cup {f}]
  <2>1. store \in StoreType
    BY DEF DeskInv
  <2>2. /\ st \in StoreType /\ store' = st
        /\ st.lib = store.lib /\ st.trashed = store.trashed
        /\ st.review = store.review /\ st.runs = store.runs
    BY <1>2, <2>1 DEF Drop, StoreType
  <2> HIDE DEF st
  <2>3. \A j \in DOMAIN job : JobRight(job[j], st)
    BY <2>2, SeenAgain DEF DeskInv, JobRight, KindOfRun
  <2>4. \A d \in Desks : DeskRight(desk[d], st)
    BY <2>2, SeenAgain DEF DeskInv, DeskRight, AskRight
  <2>5. NewestRun(st) /\ CardsRight(cards, job, st) /\ BoxRight(box, st)
    BY <2>2 DEF DeskInv, NewestRun, CardsRight, BoxRight, Named
  <2>6. UNCHANGED <<desk, pages, job, daemon>>
    BY <1>2 DEF Drop
  <2> QED
    BY <2>2, <2>3, <2>4, <2>5, <2>6 DEF pages, DeskInv, Is
<1> QED
  BY <1>1, <1>2

(***************************************************************************)
(* The steps of the front ends.                                            *)
(***************************************************************************)
LEMMA AtEase ==
  ASSUME NEW code \in Nat, NEW jobs, NEW st, NEW dm
  PROVE  /\ Free \in DeskType /\ Free.seen = Unseen /\ Unseen \in SeenType
         /\ DeskRight(Free, st) /\ Told(Free, jobs, dm) /\ ~ Is(Free.cmd, "apply")
         /\ Left(code) \in DeskType /\ Left(code).at = "left" /\ Left(code).exit = code
         /\ DeskRight(Left(code), st) /\ Told(Left(code), jobs, dm)
         /\ ~ Is(Left(code).cmd, "apply")
<1>1. /\ NoCommand \in CommandType /\ Unseen \in SeenType /\ ~ Is(NoCommand, "apply")
  BY DEF NoCommand, Command, CommandType, Verbs, Roots, Unseen, SeenType, Ops, Is
<1>2. /\ Free \in DeskType /\ Free.seen = Unseen /\ Free.at = "idle" /\ Free.cmd = NoCommand
  BY <1>1 DEF Free, DeskType
<1>3. /\ Left(code) \in DeskType /\ Left(code).at = "left" /\ Left(code).cmd = NoCommand
      /\ Left(code).exit = code /\ Left(code).job = 0
  BY <1>1 DEF Left, Free, DeskType
<1> QED
  BY <1>1, <1>2, <1>3 DEF DeskRight, Told

\* What a desk without news may turn to: nothing it waits for, nothing it asks.
LEMMA LeavesDesk ==
  ASSUME DeskInv, NEW s \in Shells, NEW code \in Nat, desk' = [desk EXCEPT ![s] = Left(code)],
         UNCHANGED <<pages, job, store, daemon>>
  PROVE  DeskInv'
BY AtEase, OneDesk, DeskAssumption DEF Desks

LEMMA OrdersTyped ==
  ASSUME NEW c \in Commands \cup Menu
  PROVE  c \in CommandType /\ ~ Is(c, "apply")
BY DeskAssumption DEF Is

LEMMA NewJob ==
  ASSUME NEW c \in CommandType, NEW seen \in SeenType, NEW fresh \in BOOLEAN,
         fresh /\ Leaf(c) = "apply" => Announced(c, seen, store),
         fresh /\ Leaf(c) = "confirm" /\ seen.op # "none" => Named(seen, store)
  PROVE  \E x \in JobType : JobRight(x, store) /\ Enqueued(c, seen, fresh) = Append(job, x)
<1> DEFINE x == [cmd |-> c, status |-> "queued", asked |-> FALSE, seen |-> seen,
                 fresh |-> fresh, paused |-> NothingPaused]
<1>1. x \in JobType
  BY NothingIsPaused DEF JobType
<1>2. JobRight(x, store)
  BY NothingIsPaused DEF JobRight
<1>3. Enqueued(c, seen, fresh) = Append(job, x)
  BY DEF Enqueued
<1> HIDE DEF x
<1> QED
  BY <1>1, <1>2, <1>3

\* A job whose user was shown nothing, and that does not claim to apply a count.
LEMMA PlainJob ==
  ASSUME NEW c \in CommandType, ~ Is(c, "apply")
  PROVE  \E x \in JobType : JobRight(x, store) /\ Enqueued(c, Unseen, TRUE) = Append(job, x)
<1>1. Unseen \in SeenType /\ Unseen.op = "none"
  BY DEF Unseen, SeenType, Ops
<1>2. Leaf(c) # "apply"
  BY Leaves
<1> QED
  BY <1>1, <1>2, NewJob

LEMMA SubmitStep ==
  ASSUME DeskInv, NEW s \in Shells, NEW c \in Commands, Submit(s, c)
  PROVE  DeskInv'
<1> DEFINE order == IF c.verb = "register" THEN [c EXCEPT !.verb = "scan", !.flags = {"all"}]
                    ELSE c
           r == [Free EXCEPT !.at = "watching", !.cmd = order, !.job = Len(job) + 1,
                             !.seen = [Unseen EXCEPT !.files = store.inbox]]
<1>1. c \in CommandType /\ ~ Is(c, "apply")
  BY OrdersTyped
<1>2. order \in CommandType /\ ~ Is(order, "apply")
  BY <1>1 DEF CommandType, Verbs, Flags, Is
<1>3. /\ job' = Enqueued(order, Unseen, TRUE)
      /\ desk' = [desk EXCEPT ![s] = Left(0)] \/ desk' = [desk EXCEPT ![s] = r]
      /\ UNCHANGED <<pages, store, daemon>>
  BY DEF Submit
<1> HIDE DEF order
<1>4. PICK x \in JobType : JobRight(x, store) /\ job' = Append(job, x)
  BY <1>2, <1>3, PlainJob
<1>5. /\ Len(job) \in Nat /\ Len(job) + 1 \in DOMAIN job' /\ store.inbox \in SUBSET Files
      /\ s \in Desks /\ s # "tui"
  BY <1>4, Enqueuing, DeskAssumption DEF DeskInv, StoreType, Desks
<1>6. Free \in DeskType /\ Unseen \in SeenType
  BY AtEase
<1>7. r \in DeskType /\ r.at = "watching" /\ r.job = Len(job) + 1
  <2> DEFINE n == Len(job) + 1
             seen == [Unseen EXCEPT !.files = store.inbox]
  <2>1. n \in Nat
    BY <1>5
  <2>2. seen \in SeenType
    BY <1>5, <1>6 DEF SeenType
  <2> HIDE DEF n, seen
  <2>3. r = [Free EXCEPT !.at = "watching", !.cmd = order, !.job = n, !.seen = seen]
    BY DEF n, seen
  <2>4. r \in DeskType /\ r.at = "watching" /\ r.job = n
    <3> HIDE DEF r
    <3> QED
      BY <1>2, <1>6, <2>1, <2>2, <2>3 DEF DeskType
  <2> QED
    BY <2>4 DEF n
<1> HIDE DEF r
<1>8. DeskRight(r, store) /\ Told(r, job', daemon)
  BY <1>5, <1>7 DEF DeskRight, Told
<1>9. CASE desk' = [desk EXCEPT ![s] = Left(0)]
  BY <1>3, <1>4, <1>5, <1>9, AtEase, Enqueues
<1>10. CASE desk' = [desk EXCEPT ![s] = r]
  BY <1>3, <1>4, <1>5, <1>7, <1>8, <1>10, Enqueues
<1> QED
  BY <1>3, <1>9, <1>10

\* The apply order differs from the preview's in its flag only.
LEMMA ApplyOrder ==
  ASSUME NEW c \in CommandType, NEW o, o = [c EXCEPT !.flags = @ \cup {"apply"}]
  PROVE  /\ o \in CommandType /\ Mode(o) = Mode(c)
         /\ Leaf(o) = "confirm" => Leaf(c) = "confirm"
         /\ Leaf(o) = "apply" => ~ Is(c, "confirm") /\ ~ Is(c, "cancel")
<1>1. /\ o \in CommandType /\ o.verb = c.verb /\ o.flags = c.flags \cup {"apply"}
  BY DEF CommandType, Flags
<1>2. o.flags \cap Modes = c.flags \cap Modes
  BY <1>1 DEF Modes
<1>3. Mode(o) = Mode(c)
  <2> DEFINE pick(S) == IF S = {} THEN "perceptual" ELSE CHOOSE m \in S : TRUE
  <2>1. Mode(o) = pick(o.flags \cap Modes) /\ Mode(c) = pick(c.flags \cap Modes)
    BY DEF Mode
  <2> HIDE DEF pick
  <2> QED
    BY <1>2, <2>1
<1>4. \A f \in {"confirm", "cancel", "dry"} : Is(o, f) <=> Is(c, f)
  BY <1>1 DEF Is
<1>5. Leaf(o) = "confirm" => Leaf(c) = "confirm"
  BY <1>1, <1>4 DEF Leaf, DedupLeaf, CleanupLeaf
<1>6. Leaf(o) = "apply" => ~ Is(c, "confirm") /\ ~ Is(c, "cancel")
  BY <1>1, <1>4, Leaves
<1> QED
  BY <1>1, <1>3, <1>5, <1>6

\* The job that carries out what was asked.
LEMMA AnsweredJob ==
  ASSUME DeskInv, NEW d \in Desks, desk[d].at = "asking",
         NEW o, o = desk[d].cmd \/ o = [desk[d].cmd EXCEPT !.flags = @ \cup {"apply"}]
  PROVE  /\ o \in CommandType
         /\ \E x \in JobType : /\ JobRight(x, store)
                               /\ Enqueued(o, desk[d].seen, desk[d].fresh) = Append(job, x)
<1> DEFINE c == desk[d].cmd
           seen == desk[d].seen
           fresh == desk[d].fresh
<1>1. desk[d] \in DeskType /\ DeskRight(desk[d], store)
  BY DEF DeskInv
<1>2. c \in CommandType /\ seen \in SeenType /\ fresh \in BOOLEAN
  BY <1>1 DEF DeskType
<1>3. ~ Is(c, "apply") /\ AskRight(desk[d], store)
  BY <1>1 DEF DeskRight
<1>4. /\ seen.op = "none" /\ fresh => Announced(c, seen, store)
      /\ seen.op # "none" => /\ Is(c, "confirm") \/ Is(c, "cancel")
                             /\ fresh /\ Leaf(c) = "confirm" => Named(seen, store)
  BY <1>3 DEF AskRight
<1> HIDE DEF c, seen, fresh
<1>5. /\ o \in CommandType
      /\ Leaf(o) = "confirm" => Leaf(c) = "confirm"
      /\ Leaf(o) = "apply" => ~ Is(c, "confirm") /\ ~ Is(c, "cancel") /\ Mode(o) = Mode(c)
  <2>1. CASE o = c
    BY <1>2, <1>3, <2>1, Leaves
  <2>2. CASE o = [c EXCEPT !.flags = @ \cup {"apply"}]
    BY <1>2, <2>2, ApplyOrder
  <2> QED
    BY <2>1, <2>2 DEF c
<1>6. fresh /\ Leaf(o) = "apply" => Announced(o, seen, store)
  BY <1>4, <1>5 DEF Announced
<1>7. fresh /\ Leaf(o) = "confirm" /\ seen.op # "none" => Named(seen, store)
  BY <1>4, <1>5
<1> QED
  BY <1>2, <1>5, <1>6, <1>7, NewJob DEF seen, fresh

LEMMA ApproveStep ==
  ASSUME DeskInv, NEW s \in Shells, Approve(s)
  PROVE  DeskInv'
<1> DEFINE order == [desk[s].cmd EXCEPT !.flags = @ \cup {"apply"}]
           r == [Free EXCEPT !.at = "watching", !.cmd = order, !.job = Len(job) + 1]
<1>1. /\ desk[s].at = "asking" /\ job' = Enqueued(order, desk[s].seen, desk[s].fresh)
      /\ desk' = [desk EXCEPT ![s] = r] /\ UNCHANGED <<pages, store, daemon>>
  BY DEF Approve
<1>2. s \in Desks /\ s # "tui"
  BY DeskAssumption DEF Desks
<1> HIDE DEF order
<1>3. order \in CommandType
  BY <1>1, <1>2, AnsweredJob DEF order
<1>4. PICK x \in JobType : JobRight(x, store) /\ job' = Append(job, x)
  BY <1>1, <1>2, AnsweredJob DEF order
<1>5. Len(job) \in Nat /\ Len(job) + 1 \in DOMAIN job'
  BY <1>4, Enqueuing DEF DeskInv
<1>6. r \in DeskType /\ r.at = "watching" /\ r.job = Len(job) + 1
  <2> DEFINE n == Len(job) + 1
  <2>1. n \in Nat /\ Free \in DeskType
    BY <1>5, AtEase
  <2> HIDE DEF n
  <2>2. r = [Free EXCEPT !.at = "watching", !.cmd = order, !.job = n]
    BY DEF n
  <2>3. r \in DeskType /\ r.at = "watching" /\ r.job = n
    <3> HIDE DEF r
    <3> QED
      BY <1>3, <2>1, <2>2 DEF DeskType
  <2> QED
    BY <2>3 DEF n
<1> HIDE DEF r
<1>7. DeskRight(r, store) /\ Told(r, job', daemon)
  BY <1>5, <1>6 DEF DeskRight, Told
<1> QED
  BY <1>1, <1>2, <1>4, <1>6, <1>7, Enqueues

LEMMA CountStep ==
  ASSUME DeskInv, NEW d \in Desks, Count(d)
  PROVE  DeskInv'
<1> DEFINE found == Matches(Mode(desk[d].cmd), store)
           r == [desk[d] EXCEPT !.at = "asking", !.job = 0, !.fresh = TRUE,
                                !.seen = [Unseen EXCEPT !.files = found]]
<1>1. desk[d] \in DeskType /\ DeskRight(desk[d], store) /\ store \in StoreType
  BY DEF DeskInv
<1>2. desk[d].at = "counting" /\ UNCHANGED <<pages, job, store, daemon>>
  BY DEF Count
<1>3. ~ Is(desk[d].cmd, "apply")
  BY <1>1, <1>2 DEF DeskRight
<1>4. CASE found = {}
  <2>1. desk' = [desk EXCEPT ![d] = IF d = "tui" THEN Free ELSE Left(0)]
    BY <1>4 DEF Count
  <2> QED
    BY <1>2, <2>1, AtEase, OneDesk
<1>5. CASE found # {}
  <2>1. desk' = [desk EXCEPT ![d] = r]
    BY <1>5 DEF Count
  <2>2. found \in SUBSET Files
    BY <1>1 DEF Matches, StoreType
  <2>3. Unseen \in SeenType
    BY AtEase
  <2> HIDE DEF found
  <2>4. /\ r \in DeskType /\ r.at = "asking" /\ r.job = 0 /\ r.cmd = desk[d].cmd
        /\ r.seen.files = found /\ r.seen.op = "none"
    BY <1>1, <2>2, <2>3 DEF DeskType, SeenType, Unseen
  <2> HIDE DEF r
  <2>5. Announced(r.cmd, r.seen, store)
    BY <1>5, <2>4 DEF Announced, found
  <2>6. DeskRight(r, store)
    BY <1>3, <2>4, <2>5 DEF DeskRight, AskRight
  <2>7. Told(r, job, daemon)
    BY <2>4 DEF Told
  <2> QED
    BY <1>2, <1>3, <2>1, <2>4, <2>6, <2>7, OneDesk
<1> QED
  BY <1>4, <1>5

\* The command line moves on after its job or its preview.
LEMMA WaitSteps ==
  ASSUME DeskInv, NEW s \in Shells, StreamOver(s) \/ Leave(s) \/ PreviewDone(s)
  PROVE  DeskInv'
<1>1. /\ s \in Desks /\ s # "tui" /\ desk[s] \in DeskType /\ DeskRight(desk[s], store)
      /\ Told(desk[s], job, daemon)
  BY DeskAssumption DEF DeskInv, Desks
<1>2. CASE StreamOver(s)
  <2> DEFINE r == [desk[s] EXCEPT !.at = "checking"]
  <2>1. /\ desk[s].at = "watching" /\ UNCHANGED <<pages, job, store, daemon>>
        /\ job[desk[s].job].status \in Ended \/ daemon = "stopping"
        /\ desk' = [desk EXCEPT ![s] = r]
    BY <1>2 DEF StreamOver
  <2>2. r \in DeskType /\ r.at = "checking" /\ r.job = desk[s].job
    BY <1>1 DEF DeskType
  <2> HIDE DEF r
  <2>3. DeskRight(r, store) /\ Told(r, job, daemon)
    BY <1>1, <2>1, <2>2 DEF DeskRight, Told
  <2> QED
    BY <1>1, <2>1, <2>2, <2>3, OneDesk
<1>3. CASE Leave(s)
  <2> DEFINE status == job[desk[s].job].status
             r == [Left(ExitCode(status)) EXCEPT !.job = desk[s].job]
  <2>1. /\ desk[s].at = "checking" /\ UNCHANGED <<pages, job, store, daemon>>
        /\ desk' = [desk EXCEPT ![s] = r]
    BY <1>3 DEF Leave
  <2>2. ExitCode(status) \in Nat /\ (ExitCode(status) = 0 => status \notin Failed)
    BY DEF ExitCode
  <2>3. Left(ExitCode(status)) \in DeskType /\ Left(ExitCode(status)).at = "left"
        /\ Left(ExitCode(status)).exit = ExitCode(status)
    BY <2>2, AtEase
  <2>4. /\ r \in DeskType /\ r.at = "left" /\ r.job = desk[s].job
        /\ r.exit = ExitCode(status)
    BY <1>1, <2>3 DEF DeskType
  <2> HIDE DEF r
  <2>5. DeskRight(r, store)
    BY <2>4 DEF DeskRight
  <2>6. Told(r, job, daemon)
    BY <1>1, <2>1, <2>2, <2>4 DEF Told, Ended
  <2> QED
    BY <1>1, <2>1, <2>4, <2>5, <2>6, OneDesk
<1>4. CASE PreviewDone(s)
  <2> DEFINE r == [desk[s] EXCEPT !.at = "counting"]
  <2>1. /\ ~ Is(desk[s].cmd, "apply") /\ UNCHANGED <<pages, job, store, daemon>>
        /\ desk' = [desk EXCEPT ![s] = r] \/ desk' = [desk EXCEPT ![s] = Left(1)]
    BY <1>4 DEF PreviewDone, Previewing
  <2>2. r \in DeskType /\ r.at = "counting" /\ r.cmd = desk[s].cmd
    BY <1>1 DEF DeskType
  <2> HIDE DEF r
  <2>3. DeskRight(r, store) /\ Told(r, job, daemon)
    BY <2>1, <2>2 DEF DeskRight, Told
  <2>4. CASE desk' = [desk EXCEPT ![s] = r]
    BY <1>1, <2>1, <2>2, <2>3, <2>4, OneDesk
  <2>5. CASE desk' = [desk EXCEPT ![s] = Left(1)]
    BY <2>1, <2>5, LeavesDesk
  <2> QED
    BY <2>1, <2>4, <2>5
<1> QED
  BY <1>2, <1>3, <1>4

LEMMA ShellSteps ==
  ASSUME DeskInv, NEW s \in Shells, ShellStep(s)
  PROVE  DeskInv'
<1>1. ASSUME NEW c \in Commands, Misuse(s, c) \/ Refuse(s, c) \/ Register(s, c)
      PROVE  DeskInv'
  <2>1. \E code \in {0, 1, 2} : desk' = [desk EXCEPT ![s] = Left(code)]
    BY <1>1 DEF Misuse, Refuse, Register
  <2>2. UNCHANGED <<pages, job, store, daemon>>
    BY <1>1 DEF Misuse, Refuse, Register
  <2> QED
    BY <2>1, <2>2, LeavesDesk
<1>2. ASSUME NEW c \in Commands, Submit(s, c) PROVE DeskInv'
  BY <1>2, SubmitStep
<1>3. CASE StreamOver(s) \/ Leave(s) \/ PreviewDone(s)
  BY <1>3, WaitSteps
<1>4. CASE Approve(s)
  BY <1>4, ApproveStep
<1>5. CASE Decline(s) \/ CtrlC(s) \/ Lost(s)
  <2>1. desk' = [desk EXCEPT ![s] = Left(0)] \/ desk' = [desk EXCEPT ![s] = Left(1)]
    BY <1>5 DEF Decline, CtrlC, Lost
  <2>2. UNCHANGED <<pages, job, store, daemon>>
    BY <1>5 DEF Decline, CtrlC, Lost
  <2> QED
    BY <2>1, <2>2, LeavesDesk
<1> QED
  BY <1>1, <1>2, <1>3, <1>4, <1>5 DEF ShellStep

(***************************************************************************)
(* The steps of the terminal interface.                                    *)
(***************************************************************************)
LEMMA TuiDesk ==
  ASSUME DeskInv
  PROVE  /\ "tui" \in Desks /\ "tui" \notin Shells
         /\ desk["tui"] \in DeskType /\ DeskRight(desk["tui"], store)
         /\ ~ Is(desk["tui"].cmd, "apply")
BY DeskAssumption DEF DeskInv, Desks

\* The interface's own desk moves, and a job is submitted or none is.
LEMMA TuiMoves ==
  ASSUME DeskInv, NEW r \in DeskType, DeskRight(r, store), ~ Is(r.cmd, "apply"),
         desk' = [desk EXCEPT !["tui"] = r], UNCHANGED <<pages, store, daemon>>,
         job' = job \/ \E x \in JobType : JobRight(x, store) /\ job' = Append(job, x)
  PROVE  DeskInv'
<1>1. "tui" \in Desks /\ "tui" \notin Shells
  BY TuiDesk
<1>2. CASE job' = job
  BY <1>1, <1>2, OneDesk
<1>3. ASSUME NEW x \in JobType, JobRight(x, store), job' = Append(job, x) PROVE DeskInv'
  BY <1>1, <1>3, Enqueues
<1> QED
  BY <1>2, <1>3

LEMMA TuiSubmitStep ==
  ASSUME DeskInv, NEW c \in Menu, TuiSubmit(c)
  PROVE  DeskInv'
<1>1. job' = Enqueued(c, Unseen, TRUE) /\ UNCHANGED <<desk, pages, store, daemon>>
  BY DEF TuiSubmit
<1>2. \E x \in JobType : JobRight(x, store) /\ job' = Append(job, x)
  BY <1>1, OrdersTyped, PlainJob
<1>3. desk' = [desk EXCEPT !["tui"] = desk["tui"]]
  BY <1>1 DEF DeskInv
<1> QED
  BY <1>1, <1>2, <1>3, TuiDesk, TuiMoves

LEMMA TuiCleanupStep ==
  ASSUME DeskInv, NEW m \in {"exact", "undecodable"}, TuiCleanup(m)
  PROVE  DeskInv'
<1> DEFINE c == Command("cleanup", {m})
           n == Len(job) + 1
           watching == [Free EXCEPT !.at = "watching", !.cmd = c, !.job = n]
           counting == [Free EXCEPT !.at = "counting", !.cmd = c]
<1>1. c \in CommandType /\ ~ Is(c, "apply")
  BY DEF Command, CommandType, Verbs, Flags, Modes, Roots, Is
<1>2. n \in Nat /\ Free \in DeskType
  BY AtEase DEF DeskInv
<1>3. \/ job' = Enqueued(c, Unseen, TRUE) /\ desk' = [desk EXCEPT !["tui"] = watching]
      \/ job' = job /\ desk' = [desk EXCEPT !["tui"] = counting]
  BY DEF TuiCleanup
<1>4. UNCHANGED <<pages, store, daemon>>
  BY DEF TuiCleanup
<1> HIDE DEF c, n
<1>5. /\ watching \in DeskType /\ watching.at = "watching" /\ watching.cmd = c
      /\ counting \in DeskType /\ counting.at = "counting" /\ counting.cmd = c
  BY <1>1, <1>2 DEF DeskType
<1> HIDE DEF watching, counting
<1>6. DeskRight(watching, store) /\ DeskRight(counting, store)
  BY <1>1, <1>5 DEF DeskRight
<1>7. CASE job' = Enqueued(c, Unseen, TRUE) /\ desk' = [desk EXCEPT !["tui"] = watching]
  <2>1. \E x \in JobType : JobRight(x, store) /\ job' = Append(job, x)
    BY <1>1, <1>7, PlainJob
  <2> QED
    BY <1>1, <1>4, <1>5, <1>6, <1>7, <2>1, TuiMoves
<1>8. CASE job' = job /\ desk' = [desk EXCEPT !["tui"] = counting]
  BY <1>1, <1>4, <1>5, <1>6, <1>8, TuiMoves
<1> QED
  BY <1>3, <1>7, <1>8

LEMMA TuiStreamStep ==
  ASSUME DeskInv, TuiStreamOver
  PROVE  DeskInv'
<1> DEFINE r == [desk["tui"] EXCEPT !.at = "counting"]
<1>1. desk' = [desk EXCEPT !["tui"] = r] /\ UNCHANGED <<pages, job, store, daemon>>
  BY DEF TuiStreamOver
<1>2. r \in DeskType /\ r.at = "counting" /\ r.cmd = desk["tui"].cmd
  BY TuiDesk DEF DeskType
<1> HIDE DEF r
<1>3. ~ Is(r.cmd, "apply") /\ DeskRight(r, store)
  BY <1>2, TuiDesk DEF DeskRight
<1> QED
  BY <1>1, <1>2, <1>3, TuiMoves

\* A question about a review names, while it is fresh, what is pending.
LEMMA AskStep ==
  ASSUME DeskInv, NEW order \in ReviewOrders, NEW op \in {"dedup", "cleanup"}, NEW at \in 0..3,
         NEW fresh \in BOOLEAN, Ask(order, op, at, fresh), UNCHANGED <<pages, job, store, daemon>>,
         fresh /\ "confirm" \in order => store.review.op = op /\ store.review.stage = at
  PROVE  DeskInv'
<1> DEFINE flags == IF op = "cleanup" THEN order \cup {"perceptual"} ELSE order
           c == Command(op, flags)
           seen == [Unseen EXCEPT !.op = op, !.stage = at]
           r == [Free EXCEPT !.at = "asking", !.cmd = c, !.seen = seen, !.fresh = fresh]
<1>1. desk' = [desk EXCEPT !["tui"] = r]
  BY DEF Ask
<1>2. /\ flags \in SUBSET Flags /\ "apply" \notin flags
      /\ "confirm" \in flags \/ "cancel" \in flags
      /\ "confirm" \in flags => "confirm" \in order
  BY DEF ReviewOrders, Flags, Modes
<1> HIDE DEF flags
<1>3. c \in CommandType /\ c.flags = flags
  BY <1>2 DEF Command, CommandType, Verbs, Roots
<1>4. seen \in SeenType /\ seen.op = op /\ seen.stage = at
  BY DEF Unseen, SeenType, Ops
<1> HIDE DEF c, seen
<1>5. /\ r \in DeskType /\ r.at = "asking" /\ r.cmd = c /\ r.seen = seen /\ r.job = 0
      /\ r.fresh = fresh
  <2>1. Free \in DeskType /\ Free.job = 0
    BY AtEase DEF Free
  <2> QED
    BY <1>3, <1>4, <2>1 DEF DeskType
<1> HIDE DEF r
<1>6. fresh /\ Leaf(c) = "confirm" => Named(seen, store)
  BY <1>2, <1>3, <1>4, Leaves DEF Is, Named
<1>7. AskRight(r, store) /\ ~ Is(r.cmd, "apply")
  BY <1>2, <1>3, <1>4, <1>5, <1>6 DEF AskRight, Is
<1>8. DeskRight(r, store)
  BY <1>7 DEF DeskRight
<1> QED
  BY <1>1, <1>5, <1>7, <1>8, TuiMoves

LEMMA ReviewSteps ==
  ASSUME DeskInv, NEW order \in ReviewOrders,
         TuiReviewBox(order) \/ \E j \in DOMAIN job : TuiCard(j, order)
  PROVE  DeskInv'
<1>1. CASE TuiReviewBox(order)
  <2>1. /\ box.op # "none" /\ Ask(order, box.op, box.stage, box.fresh)
        /\ UNCHANGED <<pages, job, store, daemon>>
    BY <1>1 DEF TuiReviewBox
  <2>2. box.op \in {"dedup", "cleanup"} /\ box.stage \in 0..3 /\ box.fresh \in BOOLEAN
    BY <2>1 DEF DeskInv, BoxType, Ops
  <2>3. box.fresh => store.review.op = box.op /\ store.review.stage = box.stage
    BY <2>1 DEF DeskInv, BoxRight, Named
  <2> QED
    BY <2>1, <2>2, <2>3, AskStep
<1>2. ASSUME NEW j \in DOMAIN job, TuiCard(j, order) PROVE DeskInv'
  <2> DEFINE p == job[j].paused
  <2>1. job[j] \in JobType /\ JobRight(job[j], store)
    BY DEF DeskInv
  <2>2. p \in PausedType /\ KindOfRun(p, store)
    BY <2>1 DEF JobType, JobRight
  <2>3. /\ order \in Offers(j) /\ Ask(order, p.op, p.stage, cards.fresh)
        /\ UNCHANGED <<pages, job, store, daemon>>
    BY <1>2 DEF TuiCard
  <2>4. j \in cards.current \/ (j \in cards.advanced /\ order = {"cancel"})
    BY <2>3 DEF Offers
  <2>5. p.run # 0 /\ (cards.fresh /\ j \in cards.current => Named(p, store))
    BY <2>4 DEF DeskInv, CardsRight
  <2> HIDE DEF p
  <2>6. p.op \in {"dedup", "cleanup"} /\ p.stage \in 0..3 /\ cards.fresh \in BOOLEAN
    BY <2>2, <2>5 DEF KindOfRun, PausedType, Ops, DeskInv, CardsType
  <2>7. cards.fresh /\ "confirm" \in order => store.review.op = p.op /\ store.review.stage = p.stage
    BY <2>4, <2>5 DEF Named
  <2> QED
    BY <2>3, <2>6, <2>7, AskStep
<1> QED
  BY <1>1, <1>2

\* What is fetched is right when it is.
LEMMA FetchSteps ==
  ASSUME DeskInv, FetchCards \/ FetchBox
  PROVE  DeskInv'
<1>1. store.review \in ReviewType /\ UNCHANGED <<desk, job, store, daemon>>
  BY DEF DeskInv, StoreType, FetchCards, FetchBox
<1>2. CASE FetchBox
  <2>1. /\ box' = [op |-> store.review.op, stage |-> store.review.stage, fresh |-> TRUE]
        /\ cards' = cards
    BY <1>2 DEF FetchBox
  <2>2. box' \in BoxType /\ BoxRight(box', store)
    BY <1>1, <2>1 DEF ReviewType, BoxType, BoxRight, Named
  <2> QED
    BY <1>1, <2>1, <2>2 DEF DeskInv, Is
<1>3. CASE FetchCards
  <2>1. /\ cards' = [current |-> CardsIn("current"), advanced |-> CardsIn("advanced"),
                     fresh |-> TRUE]
        /\ box' = box
    BY <1>3 DEF FetchCards
  <2>2. ASSUME NEW j \in CardsIn("current") \cup CardsIn("advanced")
        PROVE  /\ j \in DOMAIN job /\ job[j].status \in Ended /\ job[j].paused.run # 0
               /\ CardState(j) = "current" => Named(job[j].paused, store)
    <3>1. j \in DOMAIN job /\ CardState(j) \in {"current", "advanced"}
      BY DEF CardsIn
    <3>2. /\ job[j].paused.run # 0 /\ store.review.op # "none"
          /\ store.review.run = job[j].paused.run
          /\ CardState(j) = "current" => store.review.stage = job[j].paused.stage
      BY <3>1 DEF CardState
    <3>3. job[j] \in JobType /\ JobRight(job[j], store) /\ store.review.run = store.runs
      BY <3>1, <3>2 DEF DeskInv, NewestRun
    <3>4. job[j].paused.op = store.review.op /\ job[j].status \in Ended
      BY <3>2, <3>3 DEF JobRight, KindOfRun
    <3> QED
      BY <3>1, <3>2, <3>4 DEF Named
  <2>3. \A j \in CardsIn("current") : CardState(j) = "current"
    BY DEF CardsIn
  <2>4. CardsIn("current") \subseteq Nat /\ CardsIn("advanced") \subseteq Nat
    BY DEF CardsIn, DeskInv
  <2>5. cards' \in CardsType /\ CardsRight(cards', job, store)
    BY <2>1, <2>2, <2>3, <2>4 DEF CardsType, CardsRight
  <2> QED
    BY <1>1, <2>1, <2>5 DEF DeskInv, Is
<1> QED
  BY <1>2, <1>3

LEMMA AnswerStep ==
  ASSUME DeskInv, NEW yes \in BOOLEAN, TuiAnswer(yes)
  PROVE  DeskInv'
<1> DEFINE d == desk["tui"]
           o == IF OneShot(d.cmd) THEN [d.cmd EXCEPT !.flags = @ \cup {"apply"}] ELSE d.cmd
<1>1. /\ d.at = "asking"
      /\ job' = job \/ job' = Enqueued(o, d.seen, d.fresh)
      /\ desk' = [desk EXCEPT !["tui"] = Free]
      /\ UNCHANGED <<pages, store, daemon>>
  BY DEF TuiAnswer
<1>2. o = d.cmd \/ o = [d.cmd EXCEPT !.flags = @ \cup {"apply"}]
  OBVIOUS
<1> HIDE DEF o
<1>3. \E x \in JobType : JobRight(x, store) /\ Enqueued(o, d.seen, d.fresh) = Append(job, x)
  BY <1>1, <1>2, TuiDesk, AnsweredJob
<1>4. Free \in DeskType /\ DeskRight(Free, store) /\ ~ Is(Free.cmd, "apply")
  BY AtEase
<1>5. job' = job \/ \E x \in JobType : JobRight(x, store) /\ job' = Append(job, x)
  BY <1>1, <1>3
<1> QED
  BY <1>1, <1>4, <1>5, TuiMoves

LEMMA TuiSteps ==
  ASSUME DeskInv, TuiStep
  PROVE  DeskInv'
BY TuiSubmitStep, TuiCleanupStep, TuiStreamStep, FetchSteps, ReviewSteps, AnswerStep DEF TuiStep

(***************************************************************************)
(* The invariant.                                                          *)
(***************************************************************************)
LEMMA DeskStart == DeskInit => DeskInv
<1> SUFFICES ASSUME DeskInit PROVE DeskInv
  OBVIOUS
<1>1. store \in StoreType /\ NewestRun(store)
  <2>1. NoReview \in ReviewType /\ NoReview.op = "none"
    BY NoReviewType DEF NoReview
  <2>2. Presented \subseteq Files
    BY DeskAssumption
  <2> QED
    BY <2>1, <2>2 DEF DeskInit, StoreType, NewestRun
<1>2. job = <<>> /\ job \in Seq(JobType) /\ DOMAIN job = {}
  BY DEF DeskInit
<1>3. desk \in [Desks -> DeskType] /\ \A d \in Desks : desk[d] = Free
  BY AtEase DEF DeskInit
<1>4. /\ \A d \in Desks : DeskRight(desk[d], store)
      /\ \A s \in Shells : Told(desk[s], job, daemon)
      /\ ~ Is(desk["tui"].cmd, "apply")
  BY <1>3, AtEase DEF Desks
<1>5. /\ cards \in CardsType /\ CardsRight(cards, job, store)
      /\ box \in BoxType /\ BoxRight(box, store)
  BY DEF DeskInit, NoCards, NoBox, CardsType, BoxType, CardsRight, BoxRight, Ops
<1> QED
  BY <1>1, <1>2, <1>3, <1>4, <1>5 DEF DeskInv

LEMMA DeskSteps == DeskInv /\ [DeskNext]_deskVars => DeskInv'
<1> SUFFICES ASSUME DeskInv, [DeskNext]_deskVars PROVE DeskInv'
  OBVIOUS
<1>1. ASSUME NEW j \in DOMAIN job, Run(j) \/ Finish(j) \/ Reject(j) \/ Fail(j) \/ Cancel(j)
      PROVE  DeskInv'
  BY <1>1, RunStep, FinishStep, RejectStep, FailStep, CancelStep
<1>2. ASSUME NEW s \in Shells, ShellStep(s) PROVE DeskInv'
  BY <1>2, ShellSteps
<1>3. CASE TuiStep
  BY <1>3, TuiSteps
<1>4. ASSUME NEW d \in Desks, Count(d) PROVE DeskInv'
  BY <1>4, CountStep
<1>5. CASE Stop \/ \E f \in Files : Drop(f)
  BY <1>5, WorldSteps
<1>6. CASE Restart
  BY <1>6, RestartStep
<1>7. CASE UNCHANGED deskVars
  BY <1>7 DEF deskVars, pages, DeskInv, Is
<1> QED
  BY <1>1, <1>2, <1>3, <1>4, <1>5, <1>6, <1>7 DEF DeskNext

LEMMA DeskInductive == DeskSpec => []DeskInv
BY DeskStart, DeskSteps, PTL DEF DeskSpec

\* A command that watched its job to the end and left with 0 watched one that
\* is done (_exit_if_failed in cli/main.py), unless the daemon was stopped.
THEOREM ExitTellsTruthHolds == DeskSpec => []ExitTellsTruth
<1>1. DeskInv => ExitTellsTruth
  BY DEF DeskInv, ExitTellsTruth, Told
<1> QED
  BY <1>1, DeskInductive, PTL

(***************************************************************************)
(* A job ends well by finishing, and in no other way.                      *)
(***************************************************************************)
LEMMA JobsAddedOrLeft ==
  ASSUME \/ \E s \in Shells : ShellStep(s)
         \/ TuiStep
         \/ \E d \in Desks : Count(d)
         \/ \E f \in Files : Drop(f)
         \/ Stop
  PROVE  job' = job \/ \E x : job' = Append(job, x)
<1> DEFINE Added == job' = job \/ \E x : job' = Append(job, x)
<1>1. ASSUME NEW c, NEW seen, NEW fresh, job' = Enqueued(c, seen, fresh) PROVE Added
  BY <1>1 DEF Enqueued
<1>2. job' = job => Added
  OBVIOUS
<1> HIDE DEF Added
<1>3. ASSUME NEW s \in Shells, ShellStep(s) PROVE Added
  <2>1. ASSUME NEW c \in Commands, Misuse(s, c) \/ Refuse(s, c) \/ Register(s, c) PROVE Added
    BY <1>2, <2>1 DEF Misuse, Refuse, Register
  <2>2. ASSUME NEW c \in Commands, Submit(s, c) PROVE Added
    BY <1>1, <2>2 DEF Submit
  <2>3. ASSUME StreamOver(s) \/ Leave(s) \/ PreviewDone(s) \/ Decline(s) \/ CtrlC(s) \/ Lost(s)
        PROVE  Added
    BY <1>2, <2>3 DEF StreamOver, Leave, PreviewDone, Decline, CtrlC, Lost
  <2>4. ASSUME Approve(s) PROVE Added
    BY <1>1, <2>4 DEF Approve
  <2> QED
    BY <1>3, <2>1, <2>2, <2>3, <2>4 DEF ShellStep
<1>4. ASSUME TuiStep PROVE Added
  <2>1. ASSUME NEW c \in Menu, TuiSubmit(c) PROVE Added
    BY <1>1, <2>1 DEF TuiSubmit
  <2>2. ASSUME NEW m \in {"exact", "undecodable"}, TuiCleanup(m) PROVE Added
    BY <1>1, <1>2, <2>2 DEF TuiCleanup
  <2>3. ASSUME TuiStreamOver \/ FetchCards \/ FetchBox PROVE Added
    BY <1>2, <2>3 DEF TuiStreamOver, FetchCards, FetchBox
  <2>4. ASSUME NEW order \in ReviewOrders, TuiReviewBox(order) PROVE Added
    BY <1>2, <2>4 DEF TuiReviewBox
  <2>5. ASSUME NEW order \in ReviewOrders, NEW j \in DOMAIN job, TuiCard(j, order) PROVE Added
    BY <1>2, <2>5 DEF TuiCard
  <2>6. ASSUME NEW yes \in BOOLEAN, TuiAnswer(yes) PROVE Added
    BY <1>1, <1>2, <2>6 DEF TuiAnswer
  <2> QED
    BY <1>4, <2>1, <2>2, <2>3, <2>4, <2>5, <2>6 DEF TuiStep
<1>5. ASSUME NEW d \in Desks, Count(d) PROVE Added
  <2>1. job' = job
    BY <1>5 DEF Count
  <2> QED
    BY <1>2, <2>1
<1>6. ASSUME NEW f \in Files, Drop(f) PROVE Added
  BY <1>2, <1>6 DEF Drop
<1>7. ASSUME Stop PROVE Added
  BY <1>2, <1>7 DEF Stop
<1>8. Added
  BY <1>3, <1>4, <1>5, <1>6, <1>7
<1> QED
  BY <1>8 DEF Added

LEMMA OnlyFinishSucceeds ==
  ASSUME DeskInv, [DeskNext]_deskVars, NEW j, Succeeds(j)
  PROVE  j \in DOMAIN job /\ Finish(j)
<1>1. j \in DOMAIN job /\ job[j].status = "running" /\ job'[j].status = "done"
  BY DEF Succeeds
<1>2. job[j] \in JobType /\ job \in Seq(JobType)
  BY <1>1 DEF DeskInv
<1>3. job'[j] # job[j]
  BY <1>1
<1>4. job' # job
  BY <1>3
<1>5. ASSUME NEW x, job' = Append(job, x) PROVE FALSE
  <2>1. job \in Seq(JobType \cup {x}) /\ j \in 1 .. Len(job)
    BY <1>1, <1>2
  <2>2. job'[j] = job[j]
    BY <1>5, <2>1
  <2> QED
    BY <1>3, <2>2
<1>6. ASSUME NEW k \in DOMAIN job, Run(k) PROVE FALSE
  <2>1. job' = [job EXCEPT ![k] = [job[k] EXCEPT !.status = "running"]] /\ job[k] \in JobType
    BY <1>6 DEF Run, DeskInv
  <2>2. job'[k].status = "running" /\ \A i \in DOMAIN job : i # k => job'[i] = job[i]
    BY <2>1 DEF JobType
  <2> QED
    BY <1>1, <2>2
<1>7. ASSUME NEW k \in DOMAIN job, Cancel(k) PROVE FALSE
  <2> DEFINE x == IF job[k].status = "queued" THEN Over(k, "cancelled", NothingPaused)
                  ELSE [job[k] EXCEPT !.asked = TRUE]
  <2>1. job' = [job EXCEPT ![k] = x] /\ job[k] \in JobType
    BY <1>7 DEF Cancel, DeskInv
  <2>2. x.status # "done" \/ job[k].status = "done"
    <3>1. CASE job[k].status = "queued"
      BY <3>1, OverRight, NothingIsPaused DEF Ended, Failed
    <3>2. CASE job[k].status # "queued"
      BY <2>1, <3>2 DEF JobType
    <3> QED
      BY <3>1, <3>2
  <2> HIDE DEF x
  <2>3. job'[k] = x /\ \A i \in DOMAIN job : i # k => job'[i] = job[i]
    BY <2>1
  <2> QED
    BY <1>1, <2>2, <2>3
<1>8. ASSUME NEW k \in DOMAIN job, Finish(k) PROVE k = j
  BY <1>1, <1>8, FinishStep
<1>9. ASSUME NEW k \in DOMAIN job, Reject(k) \/ Fail(k) PROVE FALSE
  BY <1>1, <1>9, RejectStep, FailStep
<1>10. ~ Restart
  BY <1>1, RestartStep
<1>11. ~ UNCHANGED deskVars
  BY <1>4 DEF deskVars
<1>12. \E k \in DOMAIN job : Finish(k)
  BY <1>4, <1>5, <1>6, <1>7, <1>9, <1>10, <1>11, JobsAddedOrLeft DEF DeskNext
<1> QED
  BY <1>1, <1>8, <1>12

\* The deletion removes no file that was not counted, and leaves none that was
\* but those that cannot be moved to the bin, as long as no other job changed the
\* catalog after the count (cleanup_exact_preview, _delete_one).
THEOREM CountIsHonouredHolds == DeskSpec => CountIsHonoured
<1> DEFINE gone == store.lib \ store'.lib
           Honoured == \A j \in 1..MaxJobs :
             (Succeeds(j) /\ Leaf(job[j].cmd) = "apply" /\ job[j].fresh)
             => gone \subseteq job[j].seen.files /\ job[j].seen.files \ gone \subseteq Stuck
<1>1. ASSUME DeskInv, [DeskNext]_deskVars, NEW j, Succeeds(j), Leaf(job[j].cmd) = "apply",
             job[j].fresh
      PROVE  gone \subseteq job[j].seen.files /\ job[j].seen.files \ gone \subseteq Stuck
  <2> DEFINE c == job[j].cmd
  <2>1. j \in DOMAIN job /\ Finish(j)
    BY <1>1, OnlyFinishSucceeds
  <2>2. /\ job[j] \in JobType /\ JobRight(job[j], store) /\ store \in StoreType
    BY <1>1, <2>1 DEF DeskInv
  <2>3. c \in CommandType /\ Announced(c, job[j].seen, store)
    BY <1>1, <2>2 DEF JobRight, JobType
  <2>4. store' \in Effects(c, store)
    BY <2>1 DEF Finish, Settle
  <2>5. PICK held \in SUBSET Stuck : store' = Removed(c, store, Doomed(c, store) \ held)
    BY <1>1, <2>3, <2>4, Leaves DEF Effects
  <2> HIDE DEF c
  <2>6. /\ Doomed(c, store) \in SUBSET Files /\ Doomed(c, store) = Matches(Mode(c), store)
        /\ Doomed(c, store) \subseteq store.lib
    BY <2>2, DoomedType
  <2>7. store'.lib = store.lib \ (Doomed(c, store) \ held)
    BY <2>2, <2>5, <2>6, RemovedOnward
  <2>8. Doomed(c, store) = job[j].seen.files
    BY <2>3, <2>6 DEF Announced
  <2> QED
    BY <2>5, <2>6, <2>7, <2>8
<1>2. ASSUME DeskInv, [DeskNext]_deskVars PROVE [Honoured]_deskVars
  BY <1>1, <1>2
<1> QED
  BY <1>2, DeskInductive, PTL DEF DeskSpec, CountIsHonoured

\* The stage that is confirmed is the one the terminal interface showed, from
\* the review box or from any card, as long as no other job changed the catalog
\* since that page was fetched (review_ui in tui/screens/jobcard.py).
THEOREM StageIsHonouredHolds == DeskSpec => StageIsHonoured
<1> DEFINE Honoured == \A j \in 1..MaxJobs :
             (Succeeds(j) /\ Leaf(job[j].cmd) = "confirm" /\ job[j].fresh
                /\ job[j].seen.op # "none")
             => <<store.review.op, store.review.stage>> =
                <<job[j].seen.op, job[j].seen.stage>>
<1>1. ASSUME DeskInv PROVE Honoured
  BY <1>1 DEF DeskInv, JobRight, Named, Succeeds
<1>2. ASSUME DeskInv, [DeskNext]_deskVars PROVE [Honoured]_deskVars
  BY <1>1, <1>2
<1> QED
  BY <1>2, DeskInductive, PTL DEF DeskSpec, StageIsHonoured
=============================================================================
