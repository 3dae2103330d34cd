-------------------------- MODULE JobStreamProofs ---------------------------
(***************************************************************************)
(* Proofs about the two models of what a user watches.                     *)
(*                                                                         *)
(* JobStream, for any jobs, any number of feeds, queues of any length and  *)
(* any number of progress events: the types, and that every step of the    *)
(* stream is a step, or none, of what JobWatch promises.  QueueScreen, for *)
(* any jobs, window heights and sessions of keys: no fetch shows a job     *)
(* twice, and a question cancels the job that it names.                    *)
(***************************************************************************)
EXTENDS JobStream, QueueScreen, FiniteSetTheorems, WellFoundedInduction, TLAPS

USE DEF Outcomes

(***************************************************************************)
(* Type correctness.  A stream's record stays whole in the lemmas below.   *)
(***************************************************************************)
StreamType == [job : Jobs \cup {NoJob}, q : Seq(Events),
               at : {"none", "opened", "reading", "ended"}, listed : BOOLEAN]

Short(t) == t \in StreamType /\ Len(t.q) <= Cap

LEMMA PushType ==
  ASSUME NEW q \in Seq(Events), Len(q) <= Cap, NEW e \in Events
  PROVE  /\ Push(q, e) \in Seq(Events)
         /\ Len(Push(q, e)) <= Cap
  BY StreamAssumption DEF Push

LEMMA BroadcastType ==
  ASSUME NEW str, str \in [Streams -> StreamType], \A s \in Streams : Short(str[s]),
         NEW j, NEW e \in Events
  PROVE  /\ Broadcast(str, j, e) \in [Streams -> StreamType]
         /\ \A s \in Streams : Short(Broadcast(str, j, e)[s])
<1>1. ASSUME NEW s \in Streams
      PROVE  Short([str[s] EXCEPT !.q = Push(@, e)])
  <2>1. str[s] \in StreamType /\ str[s].q \in Seq(Events) /\ Len(str[s].q) <= Cap
    BY DEF Short, StreamType
  <2>2. Push(str[s].q, e) \in Seq(Events) /\ Len(Push(str[s].q, e)) <= Cap
    BY <2>1, PushType
  <2> QED
    BY <2>1, <2>2 DEF Short, StreamType
<1> QED
  BY <1>1 DEF Broadcast, Short

LEMMA CloseAllType ==
  ASSUME NEW str, str \in [Streams -> StreamType], \A s \in Streams : Short(str[s])
  PROVE  /\ CloseAllSubscribers(str) \in [Streams -> StreamType]
         /\ \A s \in Streams : Short(CloseAllSubscribers(str)[s])
<1>1. ASSUME NEW s \in Streams
      PROVE  Short([str[s] EXCEPT !.q = Push(@, "end")])
  <2>1. str[s] \in StreamType /\ str[s].q \in Seq(Events) /\ Len(str[s].q) <= Cap
    BY DEF Short, StreamType
  <2>2. Push(str[s].q, "end") \in Seq(Events) /\ Len(Push(str[s].q, "end")) <= Cap
    BY <2>1, PushType DEF Events
  <2> QED
    BY <2>1, <2>2 DEF Short, StreamType
<1> QED
  BY <1>1 DEF CloseAllSubscribers, Short

LEMMA NewStreams ==
  /\ Short(Closed) /\ Short(Unsubscribed)
  /\ \A j \in Jobs : Short(Subscribe(j))
<1>1. /\ <<>> \in Seq(Events)
      /\ Len(<<>>) <= Cap
  BY StreamAssumption
<1>2. Short(Closed)
  BY <1>1 DEF Short, StreamType, Closed
<1>3. Short(Unsubscribed)
  <2>1. Closed \in StreamType /\ Closed.q = <<>>
    BY <1>1 DEF StreamType, Closed
  <2>2. Unsubscribed \in StreamType /\ Unsubscribed.q = <<>>
    BY <2>1 DEF StreamType, Unsubscribed
  <2> QED
    BY <1>1, <2>2 DEF Short
<1>4. ASSUME NEW j \in Jobs PROVE Short(Subscribe(j))
  BY <1>1 DEF Short, StreamType, Subscribe
<1> QED
  BY <1>2, <1>3, <1>4

\* The parts of TypeOK a step is shown to preserve one by one.
StreamsTyped == stream \in [Streams -> StreamType] /\ \A s \in Streams : Short(stream[s])
WorkerTyped  == /\ worker \in [job : Jobs \cup {NoJob},
                               at : {"idle", "hello", "work", "tell", "close"},
                               sent : 0..MaxProgress]
                /\ worker.at # "idle" => worker.job \in Jobs
Statuses     == {"queued", "running"} \cup Outcomes
CliType      == [at : {"submitted", "watching", "checking", "left"},
                 last : Statuses, final : {"none", "detached", "lost"} \cup Statuses]
ClientsTyped == /\ reading \subseteq Streams
                /\ cli \in CliType
                /\ tui \in [job : Jobs \cup {NoJob}, alive : BOOLEAN]
Typed == /\ row \in [Jobs -> Statuses]
         /\ WorkerTyped
         /\ asked \subseteq Jobs
         /\ StreamsTyped
         /\ ClientsTyped
         /\ serving \in {"up", "stopping", "down"}

LEMMA TypedIsTypeOK == Typed => TypeOK
  BY DEF Typed, TypeOK, WorkerTyped, StreamsTyped, ClientsTyped, StreamType, Short, Statuses,
         CliType

LEMMA InitTyped == Init => Typed
<1> SUFFICES ASSUME Init PROVE Typed
  OBVIOUS
<1>1. StreamsTyped
  BY NewStreams DEF Init, StreamsTyped, Short
<1>2. WorkerTyped
  BY StreamAssumption DEF Init, WorkerTyped, Idle
<1> QED
  BY <1>1, <1>2 DEF Init, Typed, ClientsTyped, CliType, Statuses

LEMMA WorkerStepTyped == Typed /\ WorkerStep => Typed'
<1> SUFFICES ASSUME Typed, WorkerStep PROVE Typed'
  OBVIOUS
<1>0. /\ \A j \in Jobs : row[j] \in Statuses
      /\ worker.at # "idle" => worker.job \in Jobs /\ row[worker.job] \in Statuses
      /\ worker.sent \in 0..MaxProgress
      /\ Statuses \subseteq Events /\ {"running", "progress", "end"} \subseteq Events
      /\ MaxProgress \in Nat
  BY StreamAssumption DEF Typed, WorkerTyped, Statuses, Events
<1>1. CASE Hello
  BY <1>0, <1>1, BroadcastType DEF Hello, Typed, StreamsTyped, WorkerTyped, ClientsTyped
<1>2. CASE Reject
  BY <1>0, <1>2 DEF Reject, Typed, StreamsTyped, WorkerTyped, ClientsTyped, Statuses
<1>3. CASE Progress
  <2>1. worker.sent + 1 \in 0..MaxProgress
    BY <1>0, <1>3 DEF Progress
  <2> QED
    BY <1>0, <1>3, <2>1, BroadcastType
       DEF Progress, Typed, StreamsTyped, WorkerTyped, ClientsTyped
<1>4. CASE Tell
  BY <1>0, <1>4, BroadcastType DEF Tell, Typed, StreamsTyped, WorkerTyped, ClientsTyped
<1>5. CASE Close
  BY <1>0, <1>5, BroadcastType
     DEF Close, CloseSubscribers, Typed, StreamsTyped, WorkerTyped, ClientsTyped, Idle
<1>6. CASE \E j \in Jobs : Start(j)
  BY <1>0, <1>6 DEF Start, Typed, StreamsTyped, WorkerTyped, ClientsTyped, Statuses
<1>7. CASE \E o \in Outcomes : Finish(o)
  <2>1. PICK o \in Outcomes : Finish(o)
    BY <1>7
  <2>2. o \in Statuses
    BY <2>1 DEF Statuses
  <2>3. row' \in [Jobs -> Statuses]
    BY <2>1, <2>2 DEF Finish, Typed
  <2>4. WorkerTyped'
    <3>1. 0 \in 0..MaxProgress
      BY <1>0
    <3>2. worker.job \in Jobs /\ worker' = [worker EXCEPT !.at = "tell", !.sent = 0]
      BY <1>0, <2>1 DEF Finish
    <3> HIDE DEF Outcomes
    <3> QED
      BY <3>1, <3>2 DEF Typed, WorkerTyped
  <2> QED
    BY <2>1, <2>3, <2>4 DEF Finish, Typed, StreamsTyped, ClientsTyped
<1> QED
  BY <1>1, <1>2, <1>3, <1>4, <1>5, <1>6, <1>7 DEF WorkerStep

LEMMA CancelTyped ==
  ASSUME Typed, NEW j \in Jobs, CancelRunning(j) \/ CancelQueued(j)
  PROVE  Typed'
<1>0. {"log", "cancelled", "end"} \subseteq Events
  BY DEF Events
<1>1. CASE CancelRunning(j)
  BY <1>0, <1>1, BroadcastType DEF CancelRunning, Typed, StreamsTyped, WorkerTyped, ClientsTyped
<1>2. CASE CancelQueued(j)
  <2> DEFINE told == Broadcast(stream, j, "cancelled")
  <2>1. told \in [Streams -> StreamType] /\ \A s \in Streams : Short(told[s])
    BY <1>0, BroadcastType DEF Typed, StreamsTyped
  <2>2. StreamsTyped'
    BY <1>0, <1>2, <2>1, BroadcastType DEF CancelQueued, CloseSubscribers, StreamsTyped
  <2> QED
    BY <1>2, <2>2 DEF CancelQueued, Typed, WorkerTyped, ClientsTyped, Statuses
<1> QED
  BY <1>1, <1>2

LEMMA ServeTyped ==
  ASSUME Typed, NEW s \in Streams, ServeStream(s)
  PROVE  Typed'
<1>0. /\ stream \in [Streams -> StreamType] /\ Short(stream[s])
      /\ stream[s].q \in Seq(Events) /\ Len(stream[s].q) <= Cap
      /\ Short(Unsubscribed)
      /\ cli \in CliType
  BY NewStreams DEF Typed, StreamsTyped, ClientsTyped, Short, StreamType
<1>1. ASSUME NEW t, Short(t), stream' = [stream EXCEPT ![s] = t]
      PROVE  StreamsTyped'
  BY <1>0, <1>1 DEF Typed, StreamsTyped, Short
<1>2. CASE Begin(s)
  <2>1. StreamsTyped'
    <3>1. /\ Short([stream[s] EXCEPT !.at = "reading"])
          /\ Short([stream[s] EXCEPT !.at = "ended"])
      BY <1>0 DEF Short, StreamType
    <3> QED
      BY <1>0, <1>1, <1>2, <3>1, Zenon DEF Begin
  <2>2. cli' \in CliType
    <3>1. row[Mine] \in Statuses
      BY StreamAssumption DEF Typed
    <3> QED
      BY <1>0, <1>2, <3>1 DEF Begin, CliType
  <2> QED
    BY <1>2, <2>1, <2>2 DEF Begin, Typed, WorkerTyped, ClientsTyped
<1>3. CASE Deliver(s)
  <2> DEFINE e == Head(stream[s].q)
  <2>1. e \in Events /\ Tail(stream[s].q) \in Seq(Events) /\ Len(Tail(stream[s].q)) <= Cap
    BY <1>0, <1>3, StreamAssumption DEF Deliver
  <2>2. StreamsTyped'
    <3>1. Short([stream[s] EXCEPT !.q = Tail(@)])
      BY <1>0, <2>1 DEF Short, StreamType
    <3>2. stream' = [stream EXCEPT ![s] = [stream[s] EXCEPT !.q = Tail(@)]]
      BY <1>0, <1>3 DEF Deliver
    <3> QED
      BY <1>1, <3>1, <3>2
  <2>3. cli' \in CliType
    <3>1. e \in {"progress", "log"} \/ e \in Statuses
      BY <1>3, <2>1 DEF Deliver, Events, Statuses
    <3> HIDE DEF e
    <3>2. cli' = IF s # "cli" THEN cli
                 ELSE [cli EXCEPT !.last = IF e \in {"progress", "log"} THEN @ ELSE e,
                                  !.at = IF StopsAt(s, e) THEN "checking" ELSE @]
      BY <1>3 DEF Deliver, e
    <3> QED
      BY <1>0, <3>1, <3>2 DEF CliType
  <2>4. reading' \subseteq Streams /\ tui' \in [job : Jobs \cup {NoJob}, alive : BOOLEAN]
    BY <1>3 DEF Deliver, Typed, ClientsTyped
  <2> QED
    BY <1>3, <2>2, <2>3, <2>4 DEF Deliver, Typed, WorkerTyped, ClientsTyped
<1>4. CASE EndMarker(s) \/ Heartbeat(s) \/ Vanish(s)
  <2>1. StreamsTyped'
    BY <1>0, <1>1, <1>4 DEF EndMarker, Heartbeat, Vanish
  <2> QED
    BY <1>4, <2>1 DEF EndMarker, Heartbeat, Vanish, Typed, WorkerTyped, ClientsTyped
<1> QED
  BY <1>2, <1>3, <1>4 DEF ServeStream

LEMMA ClientTyped ==
  ASSUME Typed, CliStep \/ CtrlC \/ Poll \/ \E s \in Feeds : FeedOver(s)
  PROVE  Typed'
<1>0. /\ Mine \in Jobs /\ row[Mine] \in Statuses
      /\ "cli" \in Streams /\ Feeds \subseteq Streams
      /\ stream \in [Streams -> StreamType] /\ \A s \in Streams : Short(stream[s])
      /\ cli \in CliType
  BY StreamAssumption DEF Typed, StreamsTyped, ClientsTyped, Streams
<1>1. CASE CliOpen
  <2>1. StreamsTyped'
    BY <1>0, <1>1, NewStreams DEF CliOpen, StreamsTyped, Short
  <2> QED
    BY <1>0, <1>1, <2>1 DEF CliOpen, Typed, WorkerTyped, ClientsTyped, CliType
<1>2. CASE CliStreamOver \/ CliCheck \/ CtrlC \/ CliLost
  BY <1>0, <1>2
     DEF CliStreamOver, CliCheck, CtrlC, CliLost, Typed, StreamsTyped, WorkerTyped, ClientsTyped,
         CliType, Statuses
<1>3. CASE Poll
  <2> DEFINE running  == {j \in Jobs : serving # "down" /\ row[j] = "running"}
             followed == IF running = {} THEN NoJob ELSE CHOOSE j \in running : TRUE
  <2>1. followed \in Jobs \cup {NoJob}
    OBVIOUS
  <2> HIDE DEF followed
  <2>2. CASE followed = NoJob
    BY <1>3, <2>2, Zenon
       DEF Poll, followed, Typed, StreamsTyped, WorkerTyped, ClientsTyped
  <2>3. CASE /\ followed # NoJob
             /\ UNCHANGED <<tui, stream, reading>>
    BY <1>3, <2>3 DEF Poll, Typed, StreamsTyped, WorkerTyped, ClientsTyped
  <2>4. CASE /\ followed # NoJob
             /\ ~UNCHANGED <<tui, stream, reading>>
    <3>1. PICK s \in Feeds :
              /\ stream' = [stream EXCEPT ![s] = Subscribe(followed)]
              /\ reading' = reading \cup {s}
              /\ tui' = [job |-> followed, alive |-> TRUE]
      BY <1>3, <2>4 DEF Poll, followed
    <3>2. StreamsTyped'
      BY <1>0, <2>1, <2>4, <3>1, NewStreams DEF StreamsTyped, Short
    <3>3. ClientsTyped'
      BY <1>0, <1>3, <2>1, <3>1 DEF Poll, Typed, ClientsTyped
    <3> QED
      BY <1>3, <3>2, <3>3 DEF Poll, Typed, WorkerTyped
  <2> QED
    BY <2>2, <2>3, <2>4
<1>4. CASE \E s \in Feeds : FeedOver(s)
  BY <1>4 DEF FeedOver, Typed, StreamsTyped, WorkerTyped, ClientsTyped
<1> QED
  BY <1>1, <1>2, <1>3, <1>4 DEF CliStep

LEMMA StopTyped ==
  ASSUME Typed, Shutdown \/ Exit
  PROVE  Typed'
<1>1. CASE Shutdown
  BY <1>1, CloseAllType DEF Shutdown, Typed, StreamsTyped, WorkerTyped, ClientsTyped
<1>2. CASE Exit
  <2>1. StreamsTyped'
    BY <1>2, NewStreams DEF Exit, Typed, StreamsTyped, Short
  <2> QED
    BY <1>2, <2>1, StreamAssumption DEF Exit, Typed, WorkerTyped, ClientsTyped, Idle
<1> QED
  BY <1>1, <1>2

LEMMA NextTyped == Typed /\ [Next]_vars => Typed'
<1>1. Typed /\ UNCHANGED vars => Typed'
  BY DEF vars, Typed, StreamsTyped, WorkerTyped, ClientsTyped
<1> QED
  BY <1>1, WorkerStepTyped, CancelTyped, ServeTyped, ClientTyped, StopTyped DEF Next

\* The types, for every size of the system.
THEOREM TypeCorrect == Spec => []TypeOK
<1>1. Spec => []Typed
  BY InitTyped, NextTyped, PTL DEF Spec
<1> QED
  BY <1>1, TypedIsTypeOK, PTL

(***************************************************************************)
(* The safety of the refinement: every step of the stream is a step of     *)
(* JobWatch or leaves what it sees unchanged.  The invariant behind it:    *)
(* the worker writes the row before it tells, so whatever waits in the     *)
(* command's queue is already true of the row, and the command stops       *)
(* watching only after such an event, the end of the stream or a stop.     *)
(***************************************************************************)
WorkerTruth == /\ worker.at \in {"hello", "work"} => row[worker.job] = "running"
               /\ worker.at \in {"tell", "close"} => row[worker.job] \in Outcomes

\* Nothing more is to come from Mine: it has ended or the daemon stops.
Over == Ended(Mine) \/ serving # "up"

Told(q, ended, over) == \A i \in 1..Len(q) : /\ q[i] \in Outcomes => ended
                                             /\ q[i] = "end" => over

View(t, ended, over) == /\ t.listed \/ t.at \in {"opened", "reading"} => t.job = Mine
                        /\ Told(t.q, ended, over)

CliTruth == /\ "cli" \in reading <=> cli.at = "watching"
            /\ cli.at = "watching" /\ stream["cli"].at = "ended" => Over
            /\ cli.at = "checking" => Over

IInv == /\ Typed
        /\ WorkerTruth
        /\ View(stream["cli"], Ended(Mine), Over)
        /\ CliTruth

LEMMA InitIInv == Init => IInv
<1> SUFFICES ASSUME Init PROVE IInv
  OBVIOUS
<1>1. stream["cli"] = Closed
  BY DEF Init, Streams
<1>2. View(Closed, Ended(Mine), Over)
  BY DEF View, Told, Closed
<1> QED
  BY <1>1, <1>2, InitTyped DEF Init, IInv, WorkerTruth, CliTruth, Idle

(***************************************************************************)
(* What one push, one broadcast and one close do to a stream of the        *)
(* command's.                                                              *)
(***************************************************************************)
LEMMA PushTold ==
  ASSUME NEW q \in Seq(Events), NEW e, NEW ended \in BOOLEAN, NEW over \in BOOLEAN,
         Told(q, ended, over), e \in Outcomes => ended, e = "end" => over
  PROVE  Told(Push(q, e), ended, over)
<1>1. CASE Push(q, e) = q
  BY <1>1
<1>2. CASE Push(q, e) = Append(q, e)
  <2> SUFFICES ASSUME NEW i \in 1..Len(Append(q, e))
               PROVE  /\ Append(q, e)[i] \in Outcomes => ended
                      /\ Append(q, e)[i] = "end" => over
    BY <1>2 DEF Told
  <2>1. CASE i \in 1..Len(q)
    <3>1. Append(q, e)[i] = q[i]
      BY <2>1
    <3> QED
      BY <2>1, <3>1 DEF Told
  <2>2. CASE i = Len(q) + 1
    <3>1. Append(q, e)[i] = e
      BY <2>2
    <3> QED
      BY <3>1
  <2> QED
    BY <2>1, <2>2
<1> QED
  BY <1>1, <1>2 DEF Push

LEMMA PushView ==
  ASSUME NEW t \in StreamType, NEW e, NEW ended \in BOOLEAN, NEW over \in BOOLEAN,
         View(t, ended, over), e \in Outcomes => ended, e = "end" => over
  PROVE  /\ View([t EXCEPT !.q = Push(@, e)], ended, over)
         /\ [t EXCEPT !.q = Push(@, e)].at = t.at
         /\ [t EXCEPT !.q = Push(@, e)].job = t.job
         /\ [t EXCEPT !.q = Push(@, e)].listed = t.listed
<1> DEFINE u == [t EXCEPT !.q = Push(@, e)]
<1>1. u.at = t.at /\ u.job = t.job /\ u.listed = t.listed /\ u.q = Push(t.q, e)
  BY DEF StreamType
<1>2. t.q \in Seq(Events)
  BY DEF StreamType
<1>3. Told(u.q, ended, over)
  BY <1>1, <1>2, PushTold DEF View
<1> QED
  BY <1>1, <1>3 DEF View

LEMMA BroadcastView ==
  ASSUME NEW str \in [Streams -> StreamType], NEW j, NEW e,
         NEW ended \in BOOLEAN, NEW over \in BOOLEAN,
         View(str["cli"], ended, over),
         j = Mine => (e \in Outcomes => ended) /\ (e = "end" => over)
  PROVE  /\ View(Broadcast(str, j, e)["cli"], ended, over)
         /\ Broadcast(str, j, e)["cli"].at = str["cli"].at
<1> DEFINE t == str["cli"]
<1>1. "cli" \in Streams /\ t \in StreamType
  BY DEF Streams
<1>2. Broadcast(str, j, e)["cli"] = IF t.listed /\ t.job = j THEN [t EXCEPT !.q = Push(@, e)] ELSE t
  BY <1>1 DEF Broadcast
<1>3. CASE t.listed /\ t.job = j
  <2>1. j = Mine
    BY <1>3 DEF View
  <2>2. (e \in Outcomes => ended) /\ (e = "end" => over)
    BY <2>1
  <2>3. View([t EXCEPT !.q = Push(@, e)], ended, over) /\ [t EXCEPT !.q = Push(@, e)].at = t.at
    BY <1>1, <2>2, PushView
  <2> QED
    BY <1>2, <1>3, <2>3
<1>4. CASE ~(t.listed /\ t.job = j)
  BY <1>2, <1>4
<1> QED
  BY <1>3, <1>4

LEMMA CloseAllView ==
  ASSUME NEW str \in [Streams -> StreamType], NEW ended \in BOOLEAN,
         View(str["cli"], ended, TRUE)
  PROVE  /\ View(CloseAllSubscribers(str)["cli"], ended, TRUE)
         /\ CloseAllSubscribers(str)["cli"].at = str["cli"].at
<1> DEFINE t == str["cli"]
<1>1. "cli" \in Streams /\ t \in StreamType
  BY DEF Streams
<1>2. CloseAllSubscribers(str)["cli"] = IF t.listed THEN [t EXCEPT !.q = Push(@, "end")] ELSE t
  BY <1>1 DEF CloseAllSubscribers
<1>3. View([t EXCEPT !.q = Push(@, "end")], ended, TRUE) /\ [t EXCEPT !.q = Push(@, "end")].at = t.at
  BY <1>1, PushView
<1> QED
  BY <1>2, <1>3

\* What was true of a stream stays true when more has ended.
LEMMA ViewMonotone ==
  ASSUME NEW t, NEW ended \in BOOLEAN, NEW over \in BOOLEAN,
         NEW ended2 \in BOOLEAN, NEW over2 \in BOOLEAN,
         View(t, ended, over), ended => ended2, over => over2
  PROVE  View(t, ended2, over2)
  BY DEF View, Told

(***************************************************************************)
(* A job that has ended keeps its status, and the worker's place agrees    *)
(* with the row of its job.                                                *)
(***************************************************************************)
LEMMA OutcomeKept ==
  ASSUME Typed, WorkerTruth, [Next]_vars
  PROVE  /\ \A j \in Jobs : Ended(j) => row'[j] = row[j]
         /\ Over => Over'
         /\ WorkerTruth'
<1>0. /\ row \in [Jobs -> Statuses] /\ Mine \in Jobs
      /\ worker.at # "idle" => worker.job \in Jobs
      /\ Idle.at = "idle"
  BY StreamAssumption DEF Typed, WorkerTyped, Idle
<1>a. worker \in [job : Jobs \cup {NoJob}, at : {"idle", "hello", "work", "tell", "close"},
                  sent : 0..MaxProgress]
  BY DEF Typed, WorkerTyped
<1>1. ASSUME UNCHANGED row, UNCHANGED worker
      PROVE  (\A j \in Jobs : Ended(j) => row'[j] = row[j]) /\ WorkerTruth'
  BY <1>1 DEF WorkerTruth
<1>2. ASSUME \A j \in Jobs : Ended(j) => row'[j] = row[j], serving' = serving \/ serving' # "up"
      PROVE  Over => Over'
  BY <1>0, <1>2 DEF Over, Ended
<1>3. CASE UNCHANGED vars
  BY <1>1, <1>2, <1>3 DEF vars
<1>4. CASE \E j \in Jobs : Start(j)
  <2>1. PICK j \in Jobs : Start(j)
    BY <1>4
  <2>2. \A i \in Jobs : Ended(i) => row'[i] = row[i]
    BY <1>0, <2>1 DEF Start, Ended
  <2>3. WorkerTruth'
    BY <1>0, <2>1 DEF Start, WorkerTruth
  <2> QED
    BY <1>2, <2>1, <2>2, <2>3 DEF Start
<1>5. CASE \/ Hello \/ Progress \/ Tell \/ Close
  <2>1. row' = row /\ serving' = serving
    BY <1>5 DEF Hello, Progress, Tell, Close
  <2>2. WorkerTruth'
    BY <1>0, <1>a, <1>5, <2>1 DEF Hello, Progress, Tell, Close, WorkerTruth
  <2> QED
    BY <1>2, <2>1, <2>2
<1>6. CASE Reject \/ \E o \in Outcomes : Finish(o)
  <2>1. PICK o \in Outcomes : /\ row' = [row EXCEPT ![worker.job] = o]
                             /\ worker.at \in {"hello", "work"}
                             /\ worker'.at = "tell" /\ worker'.job = worker.job
                             /\ serving' = serving
    BY <1>a, <1>6 DEF Reject, Finish
  <2>2. worker.job \in Jobs /\ row[worker.job] = "running"
    BY <1>0, <2>1 DEF WorkerTruth
  <2>3. \A i \in Jobs : Ended(i) => row'[i] = row[i]
    BY <1>0, <2>1, <2>2 DEF Ended
  <2>4. WorkerTruth'
    BY <1>0, <2>1, <2>2 DEF WorkerTruth
  <2> QED
    BY <1>2, <2>1, <2>3, <2>4
<1>7. CASE \E j \in Jobs : CancelQueued(j)
  <2>1. PICK j \in Jobs : CancelQueued(j)
    BY <1>7
  <2>2. \A i \in Jobs : Ended(i) => row'[i] = row[i]
    BY <1>0, <2>1 DEF CancelQueued, Ended
  <2>3. WorkerTruth'
    BY <1>0, <1>a, <2>1 DEF CancelQueued, WorkerTruth
  <2> QED
    BY <1>2, <2>1, <2>2, <2>3 DEF CancelQueued
<1>8. CASE \/ \E j \in Jobs : CancelRunning(j)
           \/ \E s \in Streams : ServeStream(s)
           \/ CliStep \/ CtrlC \/ Poll \/ \E s \in Feeds : FeedOver(s)
           \/ Shutdown
  <2>1. UNCHANGED <<row, worker>> /\ (serving' = serving \/ serving' # "up")
    <3>1. ASSUME NEW j \in Jobs, CancelRunning(j)
          PROVE  UNCHANGED <<row, worker, serving>>
      BY <3>1 DEF CancelRunning
    <3>2. ASSUME NEW s \in Streams, ServeStream(s)
          PROVE  UNCHANGED <<row, worker, serving>>
      BY <3>2 DEF ServeStream, Begin, Deliver, EndMarker, Heartbeat, Vanish
    <3>3. CASE CliStep \/ CtrlC \/ Poll \/ \E s \in Feeds : FeedOver(s)
      BY <3>3 DEF CliStep, CliOpen, CliStreamOver, CliCheck, CliLost, CtrlC, Poll, FeedOver
    <3>4. CASE Shutdown
      BY <3>4 DEF Shutdown
    <3> QED
      BY <1>8, <3>1, <3>2, <3>3, <3>4
  <2> QED
    BY <1>1, <1>2, <2>1
<1>9. CASE Exit
  <2>1. row' = row /\ serving' = "down" /\ worker' = Idle
    BY <1>9 DEF Exit
  <2> QED
    BY <1>0, <1>2, <2>1 DEF WorkerTruth
<1> QED
  BY <1>3, <1>4, <1>5, <1>6, <1>7, <1>8, <1>9 DEF Next, WorkerStep

(***************************************************************************)
(* The command's stream holds nothing but the truth, step by step          *)
(***************************************************************************)
LEMMA CommandKept ==
  ASSUME IInv, [Next]_vars
  PROVE  View(stream'["cli"], Ended(Mine)', Over') /\ CliTruth'
<1>0. /\ stream \in [Streams -> StreamType] /\ stream["cli"] \in StreamType
      /\ stream["cli"].q \in Seq(Events)
      /\ "cli" \in Streams /\ "cli" \notin Feeds
      /\ cli \in CliType /\ CliTruth
      /\ worker.at # "idle" => worker.job \in Jobs
      /\ Typed /\ WorkerTruth
  BY StreamAssumption DEF IInv, Typed, StreamsTyped, ClientsTyped, WorkerTyped, Streams, StreamType
<1>1. /\ Ended(Mine) => Ended(Mine)'
      /\ Over => Over'
      /\ Ended(Mine)' => Over'
      /\ Ended(Mine)' \in BOOLEAN /\ Over' \in BOOLEAN
  <2>1. (Ended(Mine) => row'[Mine] = row[Mine]) /\ (Over => Over')
    BY <1>0, OutcomeKept, StreamAssumption
  <2> QED
    BY <2>1 DEF Ended, Over
<1>2. View(stream["cli"], Ended(Mine)', Over')
  <2>1. View(stream["cli"], Ended(Mine), Over)
    BY DEF IInv
  <2>2. Ended(Mine) \in BOOLEAN /\ Over \in BOOLEAN
    BY DEF Ended, Over
  <2> QED
    BY <1>1, <2>1, <2>2, ViewMonotone
<1>3. ASSUME UNCHANGED <<reading, cli>>, stream'["cli"].at = stream["cli"].at
      PROVE  CliTruth'
  BY <1>0, <1>1, <1>3 DEF CliTruth
<1>4. ASSUME UNCHANGED stream, \/ UNCHANGED <<reading, cli>>
                               \/ \E s \in Feeds : FeedOver(s)
                               \/ CliStreamOver \/ CliCheck \/ CliLost \/ CtrlC
      PROVE  View(stream'["cli"], Ended(Mine)', Over') /\ CliTruth'
  <2>1. View(stream'["cli"], Ended(Mine)', Over')
    BY <1>2, <1>4
  <2>2. CASE UNCHANGED <<reading, cli>>
    BY <1>3, <1>4, <2>1, <2>2
  <2>3. CASE \E s \in Feeds : FeedOver(s)
    BY <1>0, <1>1, <1>4, <2>1, <2>3 DEF FeedOver, CliTruth
  <2>4. CASE CliStreamOver \/ CliCheck \/ CliLost \/ CtrlC
    BY <1>0, <1>1, <2>1, <2>4
       DEF CliStreamOver, CliCheck, CliLost, CtrlC, CliTruth, CliType
  <2> QED
    BY <1>4, <2>2, <2>3, <2>4
<1>5. ASSUME NEW j, NEW e, stream' = Broadcast(stream, j, e), UNCHANGED <<reading, cli>>,
             j = Mine => (e \in Outcomes => Ended(Mine)') /\ (e = "end" => Over')
      PROVE  View(stream'["cli"], Ended(Mine)', Over') /\ CliTruth'
  <2>1. /\ View(Broadcast(stream, j, e)["cli"], Ended(Mine)', Over')
        /\ Broadcast(stream, j, e)["cli"].at = stream["cli"].at
    BY <1>0, <1>1, <1>2, <1>5, BroadcastView
  <2> QED
    BY <1>3, <1>5, <2>1
<1>6. CASE Hello \/ Progress
  BY <1>5, <1>6 DEF Hello, Progress
<1>7. CASE Tell
  <2>1. worker.job = Mine => Ended(Mine)'
    BY <1>0, <1>7 DEF Tell, WorkerTruth, Ended
  <2>2. row[worker.job] # "end"
    BY <1>0, <1>7 DEF Tell, WorkerTruth
  <2> QED
    BY <1>5, <1>7, <2>1, <2>2 DEF Tell
<1>8. CASE Close
  <2>1. worker.job = Mine => Over'
    BY <1>0, <1>1, <1>8 DEF Close, WorkerTruth, Ended
  <2> QED
    BY <1>5, <1>8, <2>1 DEF Close, CloseSubscribers
<1>9. CASE \E j \in Jobs : CancelRunning(j)
  BY <1>5, <1>9 DEF CancelRunning
<1>10. CASE \E j \in Jobs : CancelQueued(j)
  <2>1. PICK j \in Jobs : CancelQueued(j)
    BY <1>10
  <2> DEFINE told == Broadcast(stream, j, "cancelled")
  <2>2. j = Mine => Ended(Mine)' /\ Over'
    BY <1>0, <1>1, <2>1 DEF CancelQueued, Ended, Typed
  <2>3. View(told["cli"], Ended(Mine)', Over') /\ told["cli"].at = stream["cli"].at
    BY <1>0, <1>1, <1>2, <2>2, BroadcastView
  <2>4. told \in [Streams -> StreamType]
    BY <1>0, BroadcastType DEF Typed, StreamsTyped, Events
  <2>5. /\ View(Broadcast(told, j, "end")["cli"], Ended(Mine)', Over')
        /\ Broadcast(told, j, "end")["cli"].at = told["cli"].at
    BY <1>1, <2>2, <2>3, <2>4, BroadcastView
  <2>6. stream' = Broadcast(told, j, "end") /\ UNCHANGED <<reading, cli>>
    BY <2>1 DEF CancelQueued, CloseSubscribers
  <2> QED
    BY <1>3, <2>3, <2>5, <2>6
<1>11. CASE \E s \in Feeds : ServeStream(s)
  <2>1. PICK s \in Feeds : ServeStream(s)
    BY <1>11
  <2>2. s # "cli" /\ s \in Streams
    BY <1>0, <2>1 DEF Streams
  <2>3. /\ stream'["cli"] = stream["cli"]
        /\ cli' = cli
        /\ "cli" \in reading' <=> "cli" \in reading
    BY <1>0, <2>1, <2>2 DEF ServeStream, Begin, Deliver, EndMarker, Heartbeat, Vanish
  <2> QED
    BY <1>0, <1>1, <1>2, <2>3 DEF CliTruth
<1>12. CASE ServeStream("cli")
  <2>1. ASSUME NEW t, stream' = [stream EXCEPT !["cli"] = t] PROVE stream'["cli"] = t
    BY <1>0, <2>1
  <2>2. View(Unsubscribed, Ended(Mine)', Over') /\ Unsubscribed.at = "ended"
    BY DEF View, Told, Unsubscribed, Closed
  <2>3. CASE Begin("cli")
    <3> DEFINE t == stream["cli"]
               u == IF ~ Ended(t.job) THEN [t EXCEPT !.at = "reading"]
                    ELSE IF "cli" \in reading THEN Unsubscribed ELSE [t EXCEPT !.at = "ended"]
    <3>1. t.at = "opened" /\ t.job = Mine /\ Told(t.q, Ended(Mine)', Over')
      BY <1>2, <2>3 DEF Begin, View
    <3>2. stream'["cli"] = u
      BY <2>1, <2>3 DEF Begin
    <3>3. View([t EXCEPT !.at = "reading"], Ended(Mine)', Over')
      BY <1>0, <3>1 DEF View, StreamType
    <3>4. View([t EXCEPT !.at = "ended"], Ended(Mine)', Over')
      BY <1>0, <3>1 DEF View, StreamType
    <3>5. u.at = "ended" => Over'
      BY <1>0, <1>1, <3>1 DEF StreamType, Over
    <3>6. cli'.at = cli.at /\ reading' = reading
      BY <1>0, <2>3 DEF Begin, CliType
    <3>7. View(u, Ended(Mine)', Over')
      BY <2>2, <3>3, <3>4
    <3> QED
      BY <1>0, <1>1, <3>2, <3>5, <3>6, <3>7 DEF CliTruth
  <2>4. CASE Deliver("cli")
    <3> DEFINE t == stream["cli"]
               e == Head(t.q)
    <3>1. /\ "cli" \in reading /\ cli.at = "watching" /\ t.at = "reading" /\ t.q # <<>>
      BY <1>0, <2>4 DEF Deliver, CliTruth
    <3>2. stream'["cli"] = [t EXCEPT !.q = Tail(@)]
      BY <1>0, <2>4 DEF Deliver
    <3>3. /\ [t EXCEPT !.q = Tail(@)].at = "reading"
          /\ [t EXCEPT !.q = Tail(@)].q = Tail(t.q)
          /\ [t EXCEPT !.q = Tail(@)].job = t.job
      BY <1>0, <3>1 DEF StreamType
    <3>4. Told(Tail(t.q), Ended(Mine)', Over')
      <4>1. Len(Tail(t.q)) = Len(t.q) - 1 /\ \A i \in 1..Len(Tail(t.q)) : Tail(t.q)[i] = t.q[i + 1]
        BY <1>0, <3>1
      <4>2. \A i \in 1..Len(Tail(t.q)) : i + 1 \in 1..Len(t.q)
        BY <1>0, <4>1
      <4> QED
        BY <1>2, <4>1, <4>2 DEF View, Told
    <3>5. View(stream'["cli"], Ended(Mine)', Over')
      BY <1>2, <3>1, <3>2, <3>3, <3>4 DEF View
    <3>6. StopsAt("cli", e) => Over'
      <4>1. e = t.q[1] /\ 1 \in 1..Len(t.q)
        BY <1>0, <3>1
      <4> QED
        BY <1>1, <1>2, <4>1 DEF StopsAt, View, Told
    <3>7. CASE StopsAt("cli", e)
      <4>1. cli'.at = "checking" /\ reading' = reading \ {"cli"}
        BY <1>0, <2>4, <3>7 DEF Deliver, CliType
      <4> QED
        BY <3>5, <3>6, <3>7, <4>1 DEF CliTruth
    <3>8. CASE ~StopsAt("cli", e)
      <4>1. cli'.at = cli.at /\ reading' = reading
        BY <1>0, <2>4, <3>8 DEF Deliver, CliType
      <4> QED
        BY <3>1, <3>2, <3>3, <3>5, <4>1 DEF CliTruth
    <3> QED
      BY <3>7, <3>8
  <2>5. CASE EndMarker("cli") \/ Heartbeat("cli") \/ Vanish("cli")
    <3>1. stream'["cli"] = Unsubscribed /\ UNCHANGED <<cli, reading>>
      BY <2>1, <2>5 DEF EndMarker, Heartbeat, Vanish
    <3>2. cli.at = "watching" => Over'
      <4>1. CASE EndMarker("cli")
        BY <1>0, <1>2, <4>1 DEF EndMarker, View, Told
      <4>2. CASE Heartbeat("cli")
        BY <1>1, <1>2, <4>2 DEF Heartbeat, View, Over
      <4>3. CASE Vanish("cli")
        BY <1>0, <4>3 DEF Vanish, CliTruth
      <4> QED
        BY <2>5, <4>1, <4>2, <4>3
    <3> QED
      BY <1>0, <1>1, <2>2, <3>1, <3>2 DEF CliTruth
  <2> QED
    BY <1>12, <2>3, <2>4, <2>5 DEF ServeStream
<1>13. CASE CliOpen
  <2>1. /\ stream'["cli"] = Subscribe(Mine)
        /\ cli'.at = "watching" /\ "cli" \in reading'
    BY <1>0, <1>13 DEF CliOpen, CliType
  <2> QED
    BY <2>1 DEF Subscribe, View, Told, CliTruth
<1>14. CASE Poll
  <2>1. /\ stream'["cli"] = stream["cli"]
        /\ cli' = cli
        /\ "cli" \in reading' <=> "cli" \in reading
    BY <1>0, <1>14 DEF Poll
  <2> QED
    BY <1>0, <1>1, <1>2, <2>1 DEF CliTruth
<1>15. CASE Shutdown
  <2>1. Over'
    BY <1>15 DEF Shutdown, Over
  <2>2. View(stream["cli"], Ended(Mine)', TRUE)
    BY <1>2, <2>1
  <2>3. /\ View(stream'["cli"], Ended(Mine)', TRUE) /\ stream'["cli"].at = stream["cli"].at
        /\ UNCHANGED <<cli, reading>>
    BY <1>0, <1>1, <1>15, <2>2, CloseAllView DEF Shutdown
  <2> QED
    BY <1>3, <2>1, <2>3
<1>16. CASE Exit
  <2>1. Over'
    BY <1>16 DEF Exit, Over
  <2>2. /\ stream'["cli"] = stream["cli"] \/ stream'["cli"] = Unsubscribed
        /\ UNCHANGED <<cli, reading>>
    BY <1>0, <1>16 DEF Exit
  <2>3. View(Unsubscribed, Ended(Mine)', Over')
    BY DEF View, Told, Unsubscribed, Closed
  <2> QED
    BY <1>0, <1>2, <2>1, <2>2, <2>3 DEF CliTruth
<1>17. CASE \/ UNCHANGED vars
            \/ \E j \in Jobs : Start(j)
            \/ Reject \/ \E o \in Outcomes : Finish(o)
            \/ CliStreamOver \/ CliCheck \/ CliLost \/ CtrlC
            \/ \E s \in Feeds : FeedOver(s)
  BY <1>4, <1>17
     DEF vars, Start, Reject, Finish, CliStreamOver, CliCheck, CliLost, CtrlC, FeedOver
<1> QED
  BY <1>6, <1>7, <1>8, <1>9, <1>10, <1>11, <1>12, <1>13, <1>14, <1>15, <1>16, <1>17
     DEF Next, WorkerStep, CliStep, Streams

LEMMA NextIInv == IInv /\ [Next]_vars => IInv'
  BY NextTyped, OutcomeKept, CommandKept DEF IInv

(***************************************************************************)
(* The refinement, without its fairness: the command's report is the       *)
(* outcome in the row, or the daemon is gone, or the user detached.        *)
(***************************************************************************)
LEMMA InitPromise == Init => Promise!Init
  BY StreamAssumption DEF Init, Promise!Init, Ended

LEMMA NextPromise ==
  ASSUME IInv, [Next]_vars
  PROVE  [Promise!Next]_(Promise!vars)
<1> DEFINE job   == IF Ended(Mine) THEN row[Mine] ELSE "live"
           watch == IF cli.at # "left" THEN "watching"
                    ELSE IF cli.final \in Outcomes \cup {"detached"} THEN cli.final
                    ELSE "unknown"
           host  == IF serving = "up" THEN "up" ELSE "gone"
<1>0. /\ Mine \in Jobs /\ row \in [Jobs -> Statuses]
      /\ cli \in CliType /\ CliTruth
      /\ Typed /\ WorkerTruth
  BY StreamAssumption DEF IInv, Typed, ClientsTyped
<1>1. Ended(Mine) => row'[Mine] = row[Mine]
  BY <1>0, OutcomeKept
<1>2. ASSUME UNCHANGED <<row, serving>>, watch' = watch
      PROVE  UNCHANGED Promise!vars
  BY <1>2 DEF Promise!vars, Ended
<1>3. ASSUME UNCHANGED <<cli, serving>>
      PROVE  [Promise!Next]_(Promise!vars)
  <2>1. job' = job \/ (job = "live" /\ job' \in Outcomes)
    BY <1>0, <1>1 DEF Ended
  <2>2. watch' = watch /\ host' = host
    BY <1>3
  <2> QED
    BY <2>1, <2>2 DEF Promise!Next, Promise!End, Promise!vars
<1>4. ASSUME UNCHANGED row, UNCHANGED cli, host' = host \/ (host = "up" /\ host' = "gone")
      PROVE  [Promise!Next]_(Promise!vars)
  <2>1. job' = job /\ watch' = watch
    BY <1>4 DEF Ended
  <2> QED
    BY <1>4, <2>1 DEF Promise!Next, Promise!Stop, Promise!vars
<1>5. CASE WorkerStep \/ \E j \in Jobs : CancelRunning(j) \/ CancelQueued(j)
  BY <1>3, <1>5
     DEF WorkerStep, Hello, Reject, Progress, Tell, Close, Start, Finish,
         CancelRunning, CancelQueued
<1>6. CASE Poll \/ (\E s \in Feeds : FeedOver(s)) \/ UNCHANGED vars
  BY <1>3, <1>6 DEF Poll, FeedOver, vars
<1>7. CASE Shutdown \/ Exit
  BY <1>4, <1>7 DEF Shutdown, Exit
<1>8. CASE \E s \in Streams : ServeStream(s)
  <2>1. PICK s \in Streams : ServeStream(s)
    BY <1>8
  <2>2. UNCHANGED <<row, serving>>
    BY <2>1 DEF ServeStream, Begin, Deliver, EndMarker, Heartbeat, Vanish
  <2>3. CASE cli' = cli
    BY <1>3, <2>2, <2>3
  <2>4. CASE cli' # cli
    <3>1. /\ s = "cli" /\ "cli" \in reading
          /\ cli'.at \in {cli.at, "checking"} /\ cli'.final = cli.final
      BY <1>0, <2>1, <2>4 DEF ServeStream, Begin, Deliver, EndMarker, Heartbeat, Vanish, CliType
    <3>2. cli.at = "watching"
      BY <1>0, <3>1 DEF CliTruth
    <3>3. watch' = watch
      BY <3>1, <3>2
    <3> QED
      BY <1>2, <2>2, <3>3
  <2> QED
    BY <2>3, <2>4
<1>9. CASE CliOpen \/ CliStreamOver
  <2>1. UNCHANGED <<row, serving>> /\ cli.at # "left" /\ cli'.at # "left"
    BY <1>0, <1>9 DEF CliOpen, CliStreamOver, CliType
  <2> QED
    BY <1>2, <2>1
<1>10. CASE CliCheck
  <2>1. /\ UNCHANGED <<row, serving>>
        /\ cli.at = "checking" /\ cli'.at = "left" /\ cli'.final = row[Mine]
    BY <1>0, <1>10 DEF CliCheck, CliType
  <2>2. job' = job /\ host' = host /\ watch = "watching"
    BY <2>1 DEF Ended
  <2>3. CASE Ended(Mine)
    <3>1. job \in Outcomes /\ watch' = job
      BY <2>1, <2>3 DEF Ended
    <3> QED
      BY <2>2, <3>1 DEF Promise!Next, Promise!Report, Promise!vars
  <2>4. CASE ~Ended(Mine)
    <3>1. host = "gone"
      BY <1>0, <2>1, <2>4 DEF CliTruth, Over
    <3>2. watch' = "unknown"
      BY <1>0, <2>1, <2>4 DEF Ended, Statuses
    <3> QED
      BY <2>2, <3>1, <3>2 DEF Promise!Next, Promise!Lose, Promise!vars
  <2> QED
    BY <2>3, <2>4
<1>11. CASE CtrlC
  <2>1. UNCHANGED <<row, serving>> /\ watch = "watching" /\ watch' = "detached"
    BY <1>0, <1>11 DEF CtrlC, CliType
  <2>2. job' = job /\ host' = host
    BY <2>1 DEF Ended
  <2> QED
    BY <2>1, <2>2 DEF Promise!Next, Promise!Detach, Promise!vars
<1>12. CASE CliLost
  <2>1. UNCHANGED <<row, serving>> /\ watch = "watching" /\ watch' = "unknown" /\ host = "gone"
    BY <1>0, <1>12 DEF CliLost, CliType
  <2>2. job' = job /\ host' = host
    BY <2>1 DEF Ended
  <2> QED
    BY <2>1, <2>2 DEF Promise!Next, Promise!Lose, Promise!vars
<1> QED
  BY <1>5, <1>6, <1>7, <1>8, <1>9, <1>10, <1>11, <1>12 DEF Next, CliStep

\* Nothing the command reports, for any number of jobs, feeds and events and
\* any queue length, is ahead of the job or differs from how it ended
\* (stream_job in cli/stream.py, _exit_if_failed in cli/main.py).
THEOREM Refinement == Spec => Promise!Init /\ [][Promise!Next]_(Promise!vars)
<1>1. Init => IInv
  BY InitIInv
<1>2. IInv /\ [Next]_vars => IInv' /\ [Promise!Next]_(Promise!vars)
  BY NextIInv, NextPromise
<1> QED
  BY <1>1, <1>2, InitPromise, PTL DEF Spec

(***************************************************************************)
(* QueueScreen.  What its proofs need of finite sets, starting with        *)
(* induction over a finite set, on a set of good subsets.                  *)
(***************************************************************************)
LEMMA SetInduction ==
  ASSUME NEW S, IsFiniteSet(S), NEW Good, {} \in Good,
         \A T \in SUBSET S : \A x \in S \ T : T \in Good => T \cup {x} \in Good
  PROVE  S \in Good
<1> DEFINE R == StrictSubsetOrdering(S)
           Bad == {T \in SUBSET S : T \notin Good}
<1>1. SUFFICES ASSUME Bad # {} PROVE FALSE
  OBVIOUS
<1>2. Bad \subseteq FiniteSubsetsOf(S)
  BY FS_FiniteSubsetsOfFinite
<1>3. PICK T \in Bad : \A U \in Bad : <<U, T>> \notin R
  <2> HIDE DEF R, Bad
  <2>1. IsWellFoundedOn(R, FiniteSubsetsOf(S))
    BY FS_StrictSubsetOrderingWellFounded DEF R
  <2> QED
    BY <1>1, <1>2, <2>1, WFMin
<1>4. PICK x \in T : TRUE
  BY <1>3
<1> DEFINE U == T \ {x}
<1>5. U \in SUBSET S /\ x \in S \ U /\ U \cup {x} = T /\ U # T
  BY <1>4
<1>6. U \notin Good
  BY <1>3, <1>5
<1>7. <<U, T>> \in R
  BY <1>5 DEF StrictSubsetOrdering
<1> QED
  BY <1>3, <1>5, <1>6, <1>7

(***************************************************************************)
(* A finite set under a strict order R is enumerated from the least on.    *)
(***************************************************************************)
Ordered(R, S) ==
    /\ \A a \in S, b \in S : a # b => <<a, b>> \in R \/ <<b, a>> \in R
    /\ \A a \in S, b \in S, c \in S : <<a, b>> \in R /\ <<b, c>> \in R => <<a, c>> \in R

LEMMA Greatest ==
  ASSUME NEW R, NEW S, IsFiniteSet(S), S # {}, Ordered(R, S)
  PROVE  \E m \in S : \A a \in S \ {m} : <<a, m>> \in R
<1> DEFINE Good == {T \in SUBSET S : T # {} => \E m \in T : \A a \in T \ {m} : <<a, m>> \in R}
<1>1. {} \in Good
  OBVIOUS
<1>2. ASSUME NEW T \in SUBSET S, NEW x \in S \ T, T \in Good
      PROVE  T \cup {x} \in Good
  <2>1. CASE T = {}
    BY <2>1
  <2>2. CASE T # {}
    <3>1. PICK m \in T : \A a \in T \ {m} : <<a, m>> \in R
      BY <1>2, <2>2
    <3>2. CASE <<m, x>> \in R
      <4>1. \A a \in T : <<a, x>> \in R
        BY <3>1, <3>2 DEF Ordered
      <4> QED
        BY <4>1
    <3>3. CASE <<x, m>> \in R
      BY <3>1, <3>3
    <3> QED
      BY <3>2, <3>3 DEF Ordered
  <2> QED
    BY <2>1, <2>2
<1>3. S \in Good
  <2> HIDE DEF Good
  <2> QED
    BY <1>1, <1>2, SetInduction, Zenon
<1> QED
  BY <1>3

Sorts(R, s, S) ==
    /\ s \in [1 .. Cardinality(S) -> S]
    /\ \A i \in 1 .. Cardinality(S), j \in 1 .. Cardinality(S) : i < j => <<s[i], s[j]>> \in R
    /\ \A x \in S : \E i \in 1 .. Cardinality(S) : s[i] = x

LEMMA SortExists ==
  ASSUME NEW R, NEW S, IsFiniteSet(S), Ordered(R, S)
  PROVE  \E s : Sorts(R, s, S)
<1> DEFINE Good == {T \in SUBSET S : \A U \in SUBSET S :
                        Cardinality(U) = Cardinality(T) => \E s : Sorts(R, s, U)}
<1>1. {} \in Good
  <2>1. ASSUME NEW U \in SUBSET S, Cardinality(U) = Cardinality({})
        PROVE  \E s : Sorts(R, s, U)
    <3>1. Cardinality(U) = 0 /\ U = {}
      BY <2>1, FS_EmptySet, FS_Subset
    <3>2. Sorts(R, [i \in 1 .. 0 |-> 0], U)
      BY <3>1 DEF Sorts
    <3> QED
      BY <3>2
  <2> QED
    BY <2>1
<1>2. ASSUME NEW T \in SUBSET S, NEW x \in S \ T, T \in Good
      PROVE  T \cup {x} \in Good
  <2>1. IsFiniteSet(T) /\ Cardinality(T) \in Nat /\ Cardinality(T \cup {x}) = Cardinality(T) + 1
    BY FS_Subset, FS_CardinalityType, FS_AddElement
  <2>2. ASSUME NEW U \in SUBSET S, Cardinality(U) = Cardinality(T \cup {x})
        PROVE  \E s : Sorts(R, s, U)
    <3> DEFINE n == Cardinality(T)
    <3>1. IsFiniteSet(U) /\ Cardinality(U) = n + 1 /\ U # {}
      BY <2>1, <2>2, FS_Subset, FS_EmptySet
    <3>2. Ordered(R, U)
      BY DEF Ordered
    <3>3. PICK m \in U : \A a \in U \ {m} : <<a, m>> \in R
      BY <3>1, <3>2, Greatest
    <3>4. U \ {m} \in SUBSET S /\ Cardinality(U \ {m}) = n
      <4>1. Cardinality(U \ {m}) = Cardinality(U) - 1
        BY <3>1, <3>3, FS_RemoveElement
      <4> QED
        BY <2>1, <3>1, <4>1
    <3>5. PICK s : Sorts(R, s, U \ {m})
      BY <1>2, <3>4
    <3> DEFINE t == [i \in 1 .. n + 1 |-> IF i = n + 1 THEN m ELSE s[i]]
    <3>6. s \in [1 .. n -> U \ {m}]
      BY <3>4, <3>5 DEF Sorts
    <3>7. t \in [1 .. Cardinality(U) -> U]
      BY <2>1, <3>1, <3>6
    <3>8. ASSUME NEW i \in 1 .. Cardinality(U), NEW j \in 1 .. Cardinality(U), i < j
          PROVE  <<t[i], t[j]>> \in R
      <4>1. i \in 1 .. n /\ t[i] = s[i] /\ s[i] \in U \ {m}
        BY <2>1, <3>1, <3>6, <3>8
      <4>2. CASE j = n + 1
        BY <2>1, <3>1, <3>3, <4>1, <4>2
      <4>3. CASE j # n + 1
        <5>1. j \in 1 .. n /\ t[j] = s[j]
          BY <2>1, <3>1, <4>3
        <5> QED
          BY <3>4, <3>5, <3>8, <4>1, <5>1 DEF Sorts
      <4> QED
        BY <4>2, <4>3
    <3>9. ASSUME NEW y \in U PROVE \E i \in 1 .. Cardinality(U) : t[i] = y
      <4>1. CASE y = m
        <5>1. n + 1 \in 1 .. Cardinality(U) /\ t[n + 1] = y
          BY <2>1, <3>1, <4>1
        <5> QED
          BY <5>1
      <4>2. CASE y # m
        <5>1. PICK i \in 1 .. n : s[i] = y
          BY <3>4, <3>5, <4>2 DEF Sorts
        <5>2. i \in 1 .. Cardinality(U) /\ t[i] = y
          BY <2>1, <3>1, <5>1
        <5> QED
          BY <5>2
      <4> QED
        BY <4>1, <4>2
    <3>10. Sorts(R, t, U)
      <4> HIDE DEF t
      <4> QED
        BY <3>7, <3>8, <3>9 DEF Sorts
    <3> QED
      BY <3>10
  <2> QED
    BY <2>2
<1>3. S \in Good
  <2> HIDE DEF Good
  <2> QED
    BY <1>1, <1>2, SetInduction, Zenon
<1> QED
  BY <1>3

(***************************************************************************)
(* The types.                                                              *)
(***************************************************************************)
RowType    == [status : {"none", "queued", "running", "over"}, priority : Nat]
ThreadType == [at : {"idle", "asked", "half", "apply"}, running : Ids, queued : Seq(JobIds),
               total : Nat]

ScreenTyped ==
    /\ table \in [JobIds -> RowType]
    /\ thread \in [Polls \cup Loads -> ThreadType]
    /\ snapshot \in Live

\* What a fetch has read: a job it saw running does not queue any more, and
\* what it hands over names no job twice.
Sound(th) ==
    /\ th.at = "half" /\ th.running # Nobody
          => table[th.running].status \in {"running", "over"}
    /\ th.at = "apply" => th.running \notin ToSet(th.queued)

FetchesRight == \A t \in Polls : Sound(thread[t])

ScreenInv == ScreenTyped /\ FetchesRight /\ LiveNeverTwice

LEMMA JobsFinite ==
  /\ IsFiniteSet(JobIds) /\ JobIds \subseteq Nat \ {0}
  /\ \A s : With(s) \in SUBSET JobIds /\ IsFiniteSet(With(s))
<1>1. MaxJobs \in Int /\ 1 \in Int
  BY ScreenAssumption
<1>2. IsFiniteSet(JobIds)
  BY <1>1, FS_Interval DEF JobIds
<1>3. \A s : With(s) \in SUBSET JobIds
  BY DEF With
<1>4. \A s : IsFiniteSet(With(s))
  BY <1>2, <1>3, FS_Subset
<1>5. JobIds \subseteq Nat \ {0}
  BY <1>1 DEF JobIds
<1> QED
  BY <1>2, <1>3, <1>4, <1>5

LEMMA LeastJob ==
  ASSUME NEW S \in SUBSET Nat, IsFiniteSet(S), S # {}
  PROVE  Min(S) \in S
<1> DEFINE R == {p \in S \X S : p[1] > p[2]}
<1>1. Ordered(R, S)
  BY DEF Ordered
<1>2. PICK m \in S : \A a \in S \ {m} : <<a, m>> \in R
  BY <1>1, Greatest
<1>3. ASSUME NEW a \in S PROVE m <= a
  <2>1. a \in Nat /\ m \in Nat
    OBVIOUS
  <2>2. CASE a # m
    <3>1. <<a, m>> \in R
      BY <1>2, <2>2
    <3>2. a > m
      BY <3>1
    <3> QED
      BY <2>1, <3>2
  <2> QED
    BY <2>1, <2>2
<1> QED
  BY <1>3 DEF Min

LEMMA HighestPriority ==
  ASSUME NEW S \in SUBSET Nat, IsFiniteSet(S), S # {}
  PROVE  Max(S) \in S
<1> DEFINE R == {p \in S \X S : p[1] < p[2]}
<1>1. Ordered(R, S)
  BY DEF Ordered
<1>2. PICK m \in S : \A a \in S \ {m} : <<a, m>> \in R
  BY <1>1, Greatest
<1>3. ASSUME NEW a \in S PROVE m >= a
  <2>1. a \in Nat /\ m \in Nat
    OBVIOUS
  <2>2. CASE a # m
    <3>1. <<a, m>> \in R
      BY <1>2, <2>2
    <3>2. a < m
      BY <3>1
    <3> QED
      BY <2>1, <3>2
  <2> QED
    BY <2>1, <2>2
<1> QED
  BY <1>3 DEF Max

(***************************************************************************)
(* The backlog the server lists holds the queued jobs and no other.        *)
(***************************************************************************)
LEMMA BacklogIsQueued ==
  ASSUME table \in [JobIds -> RowType]
  PROVE  Backlog \in Seq(JobIds) /\ ToSet(Backlog) \subseteq With("queued")
<1> DEFINE Q == With("queued")
           n == Cardinality(Q)
           R == {p \in Q \X Q : Before(p[1], p[2])}
           Listed(s) == \A i, j \in DOMAIN s : i < j => Before(s[i], s[j])
<1>1. IsFiniteSet(Q) /\ Q \in SUBSET JobIds /\ n \in Nat
  BY JobsFinite, FS_CardinalityType
<1>2. \A j \in Q : table[j].priority \in Nat /\ j \in Nat
  BY <1>1, JobsFinite DEF RowType
<1> HIDE DEF Q
<1>3. /\ \A a \in Q, b \in Q : a # b => Before(a, b) \/ Before(b, a)
      /\ \A a \in Q, b \in Q, c \in Q : Before(a, b) /\ Before(b, c) => Before(a, c)
      /\ \A a \in Q : ~Before(a, a)
  BY <1>2 DEF Before
<1>4. Ordered(R, Q)
  BY <1>3 DEF Ordered
<1>5. PICK s : Sorts(R, s, Q)
  BY <1>1, <1>4, SortExists
<1>6. s \in [1 .. n -> Q] /\ \A i, j \in 1 .. n : i < j => Before(s[i], s[j])
  BY <1>5 DEF Sorts
<1>7. \A i, j \in 1 .. n : i # j => s[i] # s[j]
  <2> SUFFICES ASSUME NEW i \in 1 .. n, NEW j \in 1 .. n, i # j PROVE s[i] # s[j]
    OBVIOUS
  <2>1. i < j \/ j < i
    BY <1>1
  <2>2. s[i] \in Q /\ s[j] \in Q
    BY <1>6
  <2> QED
    BY <1>3, <1>6, <2>1, <2>2
<1>8. s \in SetToSeqs(Q)
  BY <1>6, <1>7 DEF SetToSeqs
<1>9. Listed(s)
  BY <1>6
<1>10. Backlog \in SetToSeqs(Q)
  BY <1>8, <1>9, Zenon DEF Backlog, Q
<1>11. Backlog \in [1 .. n -> Q]
  BY <1>10 DEF SetToSeqs
<1>12. Backlog \in Seq(JobIds)
  BY <1>1, <1>11
<1>13. ToSet(Backlog) \subseteq Q
  BY <1>11 DEF ToSet
<1> QED
  BY <1>12, <1>13 DEF Q

LEMMA RunningIsRunning ==
  ASSUME table \in [JobIds -> RowType]
  PROVE  /\ Running \in Ids
         /\ Running # Nobody => Running \in With("running")
<1>1. With("running") # {} => Running \in With("running")
  BY DEF Running
<1>2. With("running") = {} => Running = Nobody
  BY DEF Running
<1> QED
  BY <1>1, <1>2, JobsFinite DEF Ids

(***************************************************************************)
(* A job that has started never queues again.                              *)
(***************************************************************************)
StatusMovesOn ==
    \A j \in JobIds : table[j].status \in {"running", "over"}
                          => table'[j].status \in {"running", "over"}

\* What the threads come to hold: a polling thread keeps what it has, or
\* holds something sound.
ThreadsMoveOn ==
    /\ thread' \in [Polls \cup Loads -> ThreadType]
    /\ \A t \in Polls : thread'[t] = thread[t] \/ Sound(thread'[t])

ShownMovesOn == snapshot' \in Live /\ LiveNeverTwice'

LEMMA InvFromParts ==
  ASSUME ScreenInv, table' \in [JobIds -> RowType], StatusMovesOn, ThreadsMoveOn, ShownMovesOn
  PROVE  ScreenInv'
<1>1. ASSUME NEW t \in Polls PROVE Sound(thread[t])'
  <2>1. Sound(thread'[t])
    BY DEF ScreenInv, FetchesRight, ThreadsMoveOn
  <2>2. thread'[t].running \in JobIds \cup {Nobody}
    BY DEF ThreadsMoveOn, ThreadType, Ids
  <2> QED
    BY <2>1, <2>2 DEF Sound, StatusMovesOn
<1> QED
  BY <1>1 DEF ScreenInv, ScreenTyped, FetchesRight, ThreadsMoveOn, ShownMovesOn

\* Steps of the daemon and commands of the user that write the table.
LEMMA TableSteps ==
  ASSUME ScreenInv
  PROVE  /\ DaemonStep => table' \in [JobIds -> RowType] /\ StatusMovesOn
         /\ Prioritize => table' \in [JobIds -> RowType] /\ StatusMovesOn
         /\ Yes => table' \in [JobIds -> RowType] /\ StatusMovesOn
<1>1. table \in [JobIds -> RowType]
  BY DEF ScreenInv, ScreenTyped
<1>2. ASSUME NEW j \in JobIds, NEW r \in RowType,
             table[j].status \in {"running", "over"} => r.status \in {"running", "over"},
             table' = [table EXCEPT ![j] = r]
      PROVE  table' \in [JobIds -> RowType] /\ StatusMovesOn
  BY <1>1, <1>2 DEF StatusMovesOn
<1>3. ASSUME table' = table
      PROVE  table' \in [JobIds -> RowType] /\ StatusMovesOn
  BY <1>1, <1>3 DEF StatusMovesOn
<1>4. ASSUME Submit PROVE table' \in [JobIds -> RowType] /\ StatusMovesOn
  <2> DEFINE j == Min(With("none"))
             r == [table[j] EXCEPT !.status = "queued"]
  <2>1. j \in With("none")
    <3>1. With("none") \in SUBSET Nat /\ IsFiniteSet(With("none")) /\ With("none") # {}
      BY <1>4, JobsFinite DEF Submit
    <3> QED
      BY <3>1, LeastJob
  <2>2. table' = [table EXCEPT ![j] = r]
    BY <1>4 DEF Submit
  <2> HIDE DEF j
  <2>3. j \in JobIds /\ table[j].status = "none"
    BY <2>1 DEF With
  <2>4. r \in RowType
    BY <1>1, <2>3 DEF RowType
  <2> QED
    BY <1>2, <2>2, <2>3, <2>4
<1>5. ASSUME NEW j \in JobIds, StartJob(j) PROVE table' \in [JobIds -> RowType] /\ StatusMovesOn
  <2> DEFINE r == [table[j] EXCEPT !.status = "running"]
  <2>1. table' = [table EXCEPT ![j] = r] /\ r \in RowType /\ r.status = "running"
    BY <1>1, <1>5 DEF StartJob, RowType
  <2> QED
    BY <1>2, <2>1
<1>6. ASSUME NEW j \in JobIds, EndJob(j) PROVE table' \in [JobIds -> RowType] /\ StatusMovesOn
  <2> DEFINE r == [table[j] EXCEPT !.status = "over"]
  <2>1. table' = [table EXCEPT ![j] = r] /\ r \in RowType /\ r.status = "over"
    BY <1>1, <1>6 DEF EndJob, RowType
  <2> QED
    BY <1>2, <2>1
<1>7. ASSUME Prioritize PROVE table' \in [JobIds -> RowType] /\ StatusMovesOn
  <2> DEFINE j == Selected
             P == {table[k].priority : k \in With("queued")}
             r == [table[j] EXCEPT !.priority = Max(P) + 1]
  <2>1. CASE table[j].status # "queued"
    BY <1>3, <1>7, <2>1 DEF Prioritize
  <2>2. CASE table[j].status = "queued" /\ j \notin JobIds
    <3> DEFINE q == Max(P) + 1
    <3>1. table' = [table EXCEPT ![j] = [@ EXCEPT !.priority = q]]
      BY <1>7, <2>2 DEF Prioritize
    <3> HIDE DEF j, q, P
    <3>2. table' = table
      BY <1>1, <2>2, <3>1
    <3> QED
      BY <1>3, <3>2
  <2>3. CASE table[j].status = "queued" /\ j \in JobIds
    <3>1. j \in JobIds
      BY <2>3
    <3>2. P \in SUBSET Nat /\ P # {} /\ IsFiniteSet(P)
      <4> DEFINE Q == With("queued")
                 f == [k \in Q |-> table[k].priority]
      <4>1. Q \in SUBSET JobIds /\ IsFiniteSet(Q) /\ j \in Q
        BY <2>3, <3>1, JobsFinite DEF With
      <4>2. f \in Surjection(Q, P)
        BY DEF Surjection
      <4>3. IsFiniteSet(P)
        BY <4>1, <4>2, FS_Surjection
      <4>4. \A k \in Q : table[k].priority \in Nat
        BY <1>1, <4>1 DEF RowType
      <4> QED
        BY <4>1, <4>3, <4>4
    <3>3. Max(P) \in Nat
      BY <3>2, HighestPriority
    <3>4. table' = [table EXCEPT ![j] = r]
      BY <1>7, <2>3 DEF Prioritize
    <3> HIDE DEF j, P
    <3>5. r \in RowType /\ r.status = table[j].status
      BY <1>1, <3>1, <3>3 DEF RowType
    <3> QED
      BY <1>2, <3>1, <3>4, <3>5
  <2> QED
    BY <2>1, <2>2, <2>3
<1>8. ASSUME Yes PROVE table' \in [JobIds -> RowType] /\ StatusMovesOn
  <2>1. CASE modal.kind = "one" /\ Cancelled(modal.job)
    <3> DEFINE j == modal.job
               r == [table[j] EXCEPT !.status = "over"]
    <3>1. CASE table[j].status # "queued"
      BY <1>3, <2>1, <3>1 DEF Cancelled
    <3>2. CASE table[j].status = "queued" /\ j \notin JobIds
      <4>1. table' = [table EXCEPT ![j] = [@ EXCEPT !.status = "over"]]
        BY <2>1, <3>2 DEF Cancelled
      <4> HIDE DEF j
      <4>2. table' = table
        BY <1>1, <3>2, <4>1
      <4> QED
        BY <1>3, <4>2
    <3>3. CASE table[j].status = "queued" /\ j \in JobIds
      <4>1. table' = [table EXCEPT ![j] = r] /\ r \in RowType /\ r.status = "over"
        BY <1>1, <2>1, <3>3 DEF Cancelled, RowType
      <4> QED
        BY <1>2, <3>3, <4>1
    <3> QED
      BY <3>1, <3>2, <3>3
  <2>2. CASE CancelledAll
    <3>1. \A j \in JobIds : table'[j] = IF table[j].status = "queued"
                                THEN [table[j] EXCEPT !.status = "over"] ELSE table[j]
      BY <2>2 DEF CancelledAll
    <3>2. \A j \in JobIds : table[j] \in RowType
      BY <1>1
    <3>3. \A j \in JobIds : table'[j] \in RowType
      BY <3>1, <3>2 DEF RowType
    <3>4. table' \in [JobIds -> RowType]
      BY <2>2, <3>3 DEF CancelledAll
    <3>5. StatusMovesOn
      BY <3>1 DEF StatusMovesOn
    <3> QED
      BY <3>4, <3>5
  <2> QED
    BY <1>8, <2>1, <2>2 DEF Yes
<1> QED
  BY <1>4, <1>5, <1>6, <1>7, <1>8 DEF DaemonStep

LEMMA RestingIsSound ==
  /\ Resting \in ThreadType /\ [Resting EXCEPT !.at = "asked"] \in ThreadType
  /\ [Resting EXCEPT !.at = "apply"] \in ThreadType
  /\ Sound(Resting) /\ Sound([Resting EXCEPT !.at = "asked"])
  /\ Sound([Resting EXCEPT !.at = "apply"])
<1>1. <<>> \in Seq(JobIds) /\ ToSet(<<>>) = {}
  BY DEF ToSet
<1>2. Resting \in ThreadType /\ [Resting EXCEPT !.at = "asked"] \in ThreadType
      /\ [Resting EXCEPT !.at = "apply"] \in ThreadType
  BY <1>1 DEF Resting, ThreadType, Ids, Nobody
<1>3. Sound(Resting) /\ Sound([Resting EXCEPT !.at = "asked"])
      /\ Sound([Resting EXCEPT !.at = "apply"])
  BY <1>1 DEF Resting, Sound
<1> QED
  BY <1>2, <1>3

\* A history fetch is a thread of its own: the polls' are left alone.
LEMMA FetchingLeavesPolls ==
  ASSUME NEW thr \in [Polls \cup Loads -> ThreadType], FreeLoads(thr) # {}
  PROVE  /\ Fetching(thr) \in [Polls \cup Loads -> ThreadType]
         /\ \A t \in Polls : Fetching(thr)[t] = thr[t]
<1> DEFINE l == CHOOSE t \in FreeLoads(thr) : TRUE
           x == [Resting EXCEPT !.at = "asked"]
<1>1. l \in Loads
  BY DEF FreeLoads
<1>2. l \notin Polls
  BY <1>1, ScreenAssumption DEF Polls
<1>3. Fetching(thr) = [thr EXCEPT ![l] = x]
  BY DEF Fetching
<1>4. x \in ThreadType
  BY RestingIsSound
<1> HIDE DEF l, x
<1> QED
  BY <1>1, <1>2, <1>3, <1>4

LEMMA OneThread ==
  ASSUME ScreenInv, NEW t \in Polls \cup Loads, NEW x \in ThreadType,
         t \in Polls => Sound(x), thread' = [thread EXCEPT ![t] = x]
  PROVE  ThreadsMoveOn
BY DEF ThreadsMoveOn, ScreenInv, ScreenTyped

LEMMA ThreadsRest ==
  ASSUME ScreenInv, thread' = thread
  PROVE  ThreadsMoveOn
BY DEF ThreadsMoveOn, ScreenInv, ScreenTyped

\* A history fetch started next to what else happens to the threads.
LEMMA FetchStarts ==
  ASSUME ScreenInv, NEW thr \in [Polls \cup Loads -> ThreadType], FreeLoads(thr) # {},
         \A t \in Polls : thr[t] = thread[t] \/ Sound(thr[t]),
         thread' = Fetching(thr)
  PROVE  ThreadsMoveOn
BY FetchingLeavesPolls DEF ThreadsMoveOn

LEMMA RefreshStarts ==
  ASSUME ScreenInv, thread' = Refreshed
  PROVE  ThreadsMoveOn
<1>1. CASE thread["full"].at = "idle"
  <2> DEFINE x == [Resting EXCEPT !.at = "asked"]
  <2>1. thread' = [thread EXCEPT !["full"] = x] /\ "full" \in Polls
    BY <1>1 DEF Refreshed, Polls
  <2> QED
    BY <2>1, RestingIsSound, OneThread
<1>2. CASE thread["full"].at # "idle"
  BY <1>2, ThreadsRest DEF Refreshed
<1> QED
  BY <1>1, <1>2

\* The server's two reads: what ran at the first does not queue at the second.
LEMMA ReadsAreSound ==
  ASSUME ScreenInv, NEW t \in Polls, ReadLive(t)
  PROVE  ThreadsMoveOn
<1>1. thread[t] \in ThreadType /\ Sound(thread[t]) /\ table \in [JobIds -> RowType]
  BY DEF ScreenInv, ScreenTyped, FetchesRight
<1>2. CASE thread[t].at = "asked"
  <2> DEFINE x == [thread[t] EXCEPT !.at = "half", !.running = Running]
  <2>1. thread' = [thread EXCEPT ![t] = x]
    BY <1>2 DEF ReadLive
  <2>2. Running \in Ids /\ (Running # Nobody => Running \in With("running"))
    BY <1>1, RunningIsRunning
  <2>3. x \in ThreadType
    BY <1>1, <2>2 DEF ThreadType
  <2>4. x.at = "half" /\ x.running = Running
    BY <1>1 DEF ThreadType
  <2>5. Sound(x)
    BY <2>2, <2>4 DEF Sound, With
  <2> HIDE DEF x
  <2> QED
    BY <2>1, <2>3, <2>5, OneThread
<1>3. CASE thread[t].at = "half"
  <2> DEFINE x == [thread[t] EXCEPT !.at = "apply", !.queued = Backlog]
  <2>1. thread' = [thread EXCEPT ![t] = x]
    BY <1>3 DEF ReadLive
  <2>2. Backlog \in Seq(JobIds) /\ ToSet(Backlog) \subseteq With("queued")
    BY <1>1, BacklogIsQueued
  <2>3. x \in ThreadType
    BY <1>1, <2>2 DEF ThreadType
  <2>4. x.at = "apply" /\ x.running = thread[t].running /\ x.queued = Backlog
    BY <1>1 DEF ThreadType
  <2>5. thread[t].running \notin With("queued")
    BY <1>1, <1>3, JobsFinite DEF Sound, With, Nobody
  <2>6. Sound(x)
    BY <2>2, <2>4, <2>5 DEF Sound
  <2> HIDE DEF x
  <2> QED
    BY <2>1, <2>3, <2>6, OneThread
<1> QED
  BY <1>2, <1>3 DEF ReadLive

LEMMA AppliesAreSound ==
  ASSUME ScreenInv, NEW t \in Polls, ApplyLive(t)
  PROVE  ThreadsMoveOn /\ ShownMovesOn
<1> DEFINE live == [running |-> thread[t].running, queued |-> thread[t].queued]
           rest == [thread EXCEPT ![t] = Resting]
<1>1. thread[t] \in ThreadType /\ Sound(thread[t]) /\ thread[t].at = "apply"
  BY DEF ScreenInv, ScreenTyped, FetchesRight, ApplyLive
<1>2. snapshot' = live
  BY DEF ApplyLive
<1>3. ShownMovesOn
  BY <1>1, <1>2 DEF ShownMovesOn, LiveNeverTwice, Live, ThreadType, Sound
<1>4. /\ rest \in [Polls \cup Loads -> ThreadType]
      /\ \A u \in Polls : rest[u] = thread[u] \/ Sound(rest[u])
  BY RestingIsSound DEF ScreenInv, ScreenTyped
<1>5. thread' = rest \/ (FreeLoads(rest) # {} /\ thread' = Fetching(rest))
  BY DEF ApplyLive
<1>6. CASE thread' = rest
  BY <1>3, <1>6, RestingIsSound, OneThread
<1>7. CASE FreeLoads(rest) # {} /\ thread' = Fetching(rest)
  <2> HIDE DEF rest
  <2> QED
    BY <1>3, <1>4, <1>7, FetchStarts
<1> QED
  BY <1>5, <1>6, <1>7

LEMMA PollSteps ==
  ASSUME ScreenInv, NEW t \in Polls, PollStep(t)
  PROVE  ThreadsMoveOn /\ ShownMovesOn /\ table' = table
<1>1. snapshot' = snapshot => ShownMovesOn
  BY DEF ScreenInv, ScreenTyped, LiveNeverTwice, ShownMovesOn
<1>2. CASE ReadLive(t)
  BY <1>1, <1>2, ReadsAreSound DEF ReadLive, ui, daemon
<1>3. CASE ApplyLive(t)
  BY <1>3, AppliesAreSound DEF ApplyLive, daemon
<1>4. CASE Fail(t)
  <2> DEFINE x == [Resting EXCEPT !.at = "apply"]
  <2>1. thread' = [thread EXCEPT ![t] = x]
    BY <1>4 DEF Fail
  <2>2. x \in ThreadType /\ Sound(x)
    BY RestingIsSound
  <2> HIDE DEF x
  <2>3. ThreadsMoveOn
    BY <2>1, <2>2, OneThread
  <2> QED
    BY <1>1, <1>4, <2>3 DEF Fail, ui, daemon
<1> QED
  BY <1>2, <1>3, <1>4 DEF PollStep

LEMMA LoadSteps ==
  ASSUME ScreenInv, NEW t \in Loads, LoadStep(t)
  PROVE  ThreadsMoveOn /\ ShownMovesOn /\ table' = table
<1>1. snapshot' = snapshot => ShownMovesOn
  BY DEF ScreenInv, ScreenTyped, LiveNeverTwice, ShownMovesOn
<1>2. t \notin Polls /\ thread[t] \in ThreadType
  BY ScreenAssumption DEF Polls, ScreenInv, ScreenTyped
<1>3. CASE ReadHistory(t)
  <2> DEFINE x == [thread[t] EXCEPT !.at = "apply", !.total = Cardinality(With("over"))]
  <2>1. thread' = [thread EXCEPT ![t] = x]
    BY <1>3 DEF ReadHistory
  <2>2. Cardinality(With("over")) \in Nat
    BY JobsFinite, FS_CardinalityType
  <2>3. x \in ThreadType
    BY <1>2, <2>2 DEF ThreadType
  <2> HIDE DEF x
  <2>4. ThreadsMoveOn
    BY <1>2, <2>1, <2>3, OneThread
  <2> QED
    BY <1>1, <1>3, <2>4 DEF ReadHistory, ui, daemon
<1>4. CASE Fail(t) \/ ApplyHistory(t)
  <2>1. thread' = [thread EXCEPT ![t] = Resting]
        \/ thread' = [thread EXCEPT ![t] = [Resting EXCEPT !.at = "apply"]]
    BY <1>4 DEF Fail, ApplyHistory
  <2>2. ThreadsMoveOn
    BY <1>2, <2>1, RestingIsSound, OneThread
  <2> QED
    BY <1>1, <1>4, <2>2 DEF Fail, ApplyHistory, ui, daemon
<1> QED
  BY <1>3, <1>4 DEF LoadStep

LEMMA TimerSteps ==
  ASSUME ScreenInv, PollLive \/ PollFull
  PROVE  ThreadsMoveOn /\ ShownMovesOn /\ table' = table
<1>1. snapshot' = snapshot => ShownMovesOn
  BY DEF ScreenInv, ScreenTyped, LiveNeverTwice, ShownMovesOn
<1>2. CASE PollLive
  <2> DEFINE x == [Resting EXCEPT !.at = "half", !.running = Running]
  <2>1. thread' = [thread EXCEPT !["live"] = x] /\ "live" \in Polls
    BY <1>2 DEF PollLive, Polls
  <2>2. Running \in Ids /\ (Running # Nobody => Running \in With("running"))
    BY RunningIsRunning DEF ScreenInv, ScreenTyped
  <2>3. x \in ThreadType
    BY <2>2, RestingIsSound DEF ThreadType
  <2>4. x.at = "half" /\ x.running = Running
    BY DEF Resting
  <2>5. Sound(x)
    BY <2>2, <2>4 DEF Sound, With
  <2> HIDE DEF x
  <2>6. ThreadsMoveOn
    BY <2>1, <2>3, <2>5, OneThread
  <2> QED
    BY <1>1, <1>2, <2>6 DEF PollLive, ui, daemon
<1>3. CASE PollFull
  <2>1. thread' = [thread EXCEPT !["full"] = [Resting EXCEPT !.at = "asked"]] /\ "full" \in Polls
    BY <1>3 DEF PollFull, Polls
  <2>2. ThreadsMoveOn
    BY <2>1, RestingIsSound, OneThread
  <2> QED
    BY <1>1, <1>3, <2>2 DEF PollFull, ui, daemon
<1> QED
  BY <1>2, <1>3

\* Every key: what is shown stays, and a thread is started or none is.
LEMMA UserSteps ==
  ASSUME ScreenInv, UserStep
  PROVE  ThreadsMoveOn /\ ShownMovesOn /\ table' \in [JobIds -> RowType] /\ StatusMovesOn
<1>1. snapshot' = snapshot => ShownMovesOn
  BY DEF ScreenInv, ScreenTyped, LiveNeverTwice, ShownMovesOn
<1>2. table' = table => table' \in [JobIds -> RowType] /\ StatusMovesOn
  BY DEF ScreenInv, ScreenTyped, StatusMovesOn
<1>3. thread \in [Polls \cup Loads -> ThreadType]
  BY DEF ScreenInv, ScreenTyped
<1>4. ASSUME NEW g \in Geometries, Resize(g)
      PROVE  ThreadsMoveOn /\ snapshot' = snapshot /\ table' = table
  <2>1. thread' = thread \/ (FreeLoads(thread) # {} /\ thread' = Fetching(thread))
    BY <1>4 DEF Resize
  <2>2. ThreadsMoveOn
    BY <1>3, <2>1, FetchStarts, ThreadsRest
  <2> QED
    BY <1>4, <2>2 DEF Resize, daemon
<1>5. ASSUME NEW s \in Sections, FocusSection(s)
      PROVE  ThreadsMoveOn /\ snapshot' = snapshot /\ table' = table
  BY <1>5, ThreadsRest DEF FocusSection, daemon
<1>6. ASSUME NEW down \in BOOLEAN, Move(down) \/ Page(down) \/ PageHistory(down)
      PROVE  ThreadsMoveOn /\ snapshot' = snapshot /\ table' = table
  <2>1. thread' = thread \/ (FreeLoads(thread) # {} /\ thread' = Fetching(thread))
    BY <1>6 DEF Move, Page, PageHistory
  <2>2. ThreadsMoveOn
    BY <1>3, <2>1, FetchStarts, ThreadsRest
  <2> QED
    BY <1>6, <2>2 DEF Move, Page, PageHistory, daemon
<1>7. ASSUME AskCancel \/ AskCancelAll \/ YesFails \/ No
      PROVE  ThreadsMoveOn /\ snapshot' = snapshot /\ table' = table
  BY <1>7, ThreadsRest DEF AskCancel, AskCancelAll, YesFails, No, daemon
<1>8. ASSUME Prioritize \/ Yes PROVE ThreadsMoveOn /\ snapshot' = snapshot
  BY <1>8, RefreshStarts DEF Prioritize, Yes, ui
<1> QED
  BY <1>1, <1>2, <1>4, <1>5, <1>6, <1>7, <1>8, TableSteps DEF UserStep

LEMMA ScreenStart == ScreenInit => ScreenInv
<1> SUFFICES ASSUME ScreenInit PROVE ScreenInv
  OBVIOUS
<1> DEFINE thr == [t \in Polls \cup Loads |->
                     IF t = "full" THEN [Resting EXCEPT !.at = "asked"] ELSE Resting]
<1>1. thread = Fetching(thr)
  BY DEF ScreenInit
<1>2. /\ thr \in [Polls \cup Loads -> ThreadType]
      /\ \A t \in Polls : Sound(thr[t])
  BY RestingIsSound
<1>3. FreeLoads(thr) # {}
  <2>1. PICK l \in Loads : TRUE
    BY ScreenAssumption
  <2>2. l # "full"
    BY <2>1, ScreenAssumption
  <2>3. thr[l].at = "idle"
    BY <2>2 DEF Resting
  <2> QED
    BY <2>3 DEF FreeLoads
<1> HIDE DEF thr
<1>4. thread \in [Polls \cup Loads -> ThreadType] /\ FetchesRight
  BY <1>1, <1>2, <1>3, FetchingLeavesPolls DEF FetchesRight
<1>5. table \in [JobIds -> RowType]
  BY DEF ScreenInit, RowType
<1>6. snapshot \in Live /\ LiveNeverTwice
  BY DEF ScreenInit, NoLive, Live, Ids, Nobody, LiveNeverTwice, ToSet
<1> QED
  BY <1>4, <1>5, <1>6 DEF ScreenInv, ScreenTyped

LEMMA ScreenSteps == ScreenInv /\ [ScreenNext]_screenVars => ScreenInv'
<1> SUFFICES ASSUME ScreenInv, [ScreenNext]_screenVars PROVE ScreenInv'
  OBVIOUS
<1>1. snapshot' = snapshot => ShownMovesOn
  BY DEF ScreenInv, ScreenTyped, LiveNeverTwice, ShownMovesOn
<1>2. table' = table => table' \in [JobIds -> RowType] /\ StatusMovesOn
  BY DEF ScreenInv, ScreenTyped, StatusMovesOn
<1>3. CASE DaemonStep
  <2>1. snapshot' = snapshot /\ thread' = thread
    BY <1>3 DEF DaemonStep, Submit, StartJob, EndJob, ui
  <2> QED
    BY <1>1, <1>3, <2>1, ThreadsRest, TableSteps, InvFromParts
<1>4. CASE PollLive \/ PollFull
  BY <1>2, <1>4, TimerSteps, InvFromParts
<1>5. ASSUME NEW t \in Polls, PollStep(t) PROVE ScreenInv'
  BY <1>2, <1>5, PollSteps, InvFromParts
<1>6. ASSUME NEW t \in Loads, LoadStep(t) PROVE ScreenInv'
  BY <1>2, <1>6, LoadSteps, InvFromParts
<1>7. CASE UserStep
  BY <1>7, UserSteps, InvFromParts
<1>8. CASE UNCHANGED screenVars
  BY <1>1, <1>2, <1>8, ThreadsRest, InvFromParts DEF screenVars
<1> QED
  BY <1>3, <1>4, <1>5, <1>6, <1>7, <1>8 DEF ScreenNext

\* No live fetch puts a job on screen twice (queries.py:75), although its two
\* statements read the table at different moments.
THEOREM LiveNeverTwiceHolds == ScreenSpec => []LiveNeverTwice
<1>1. ScreenInv => LiveNeverTwice
  BY DEF ScreenInv
<1> QED
  BY <1>1, ScreenStart, ScreenSteps, PTL DEF ScreenSpec

(***************************************************************************)
(* Cancelling.                                                             *)
(***************************************************************************)
\* Whatever polls, keys and other clients do while the question is open, the
\* job that its answer cancels is the one it named.
THEOREM CancelsTheNamedHolds == ScreenSpec => CancelsTheNamed
<1>1. ASSUME [ScreenNext]_screenVars
      PROVE  [\A j \in cancelled' \ cancelled : modal.kind = "one" /\ modal.job = j]_screenVars
  <2>1. CASE Yes
    <3>1. CASE modal.kind = "one" /\ Cancelled(modal.job)
      BY <3>1 DEF Cancelled
    <3>2. CASE CancelledAll
      BY <3>2 DEF CancelledAll
    <3> QED
      BY <2>1, <3>1, <3>2 DEF Yes
  <2>2. CASE DaemonStep
    BY <2>2 DEF DaemonStep, Submit, StartJob, EndJob
  <2>3. CASE PollLive \/ PollFull
    BY <2>3 DEF PollLive, PollFull, daemon
  <2>4. ASSUME NEW t \in Polls, PollStep(t) PROVE cancelled' = cancelled
    BY <2>4 DEF PollStep, ReadLive, Fail, ApplyLive, daemon
  <2>5. ASSUME NEW t \in Loads, LoadStep(t) PROVE cancelled' = cancelled
    BY <2>5 DEF LoadStep, ReadHistory, Fail, ApplyHistory, daemon
  <2>6. ASSUME NEW g \in Geometries, Resize(g) PROVE cancelled' = cancelled
    BY <2>6 DEF Resize, daemon
  <2>7. ASSUME NEW s \in Sections, FocusSection(s) PROVE cancelled' = cancelled
    BY <2>7 DEF FocusSection, daemon
  <2>8. ASSUME NEW down \in BOOLEAN, Move(down) \/ Page(down) \/ PageHistory(down)
        PROVE  cancelled' = cancelled
    BY <2>8 DEF Move, Page, PageHistory, daemon
  <2>9. CASE AskCancel \/ AskCancelAll \/ Prioritize \/ YesFails \/ No
    BY <2>9 DEF AskCancel, AskCancelAll, Prioritize, YesFails, No, daemon
  <2>10. CASE UNCHANGED screenVars
    BY <2>10
  <2> QED
    BY <1>1, <2>1, <2>2, <2>3, <2>4, <2>5, <2>6, <2>7, <2>8, <2>9, <2>10
       DEF ScreenNext, UserStep
<1> QED
  BY <1>1, PTL DEF ScreenSpec, CancelsTheNamed
=============================================================================
