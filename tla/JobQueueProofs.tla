--------------------------- MODULE JobQueueProofs ---------------------------
(***************************************************************************)
(* Proofs about JobQueue, for any set of roots and any number of jobs,     *)
(* daemon starts and prioritize calls.                                     *)
(***************************************************************************)
EXTENDS JobQueue, TLAPS

(***************************************************************************)
(* Type correctness.                                                       *)
(***************************************************************************)
LEMMA PumpBodyType ==
  ASSUME TypeOK, PumpBody
  PROVE  /\ status' \in [JobIds -> Status]
         /\ slot' \in JobIds \cup {None}
         /\ cancelled' \in BOOLEAN
         /\ pc' \in {"idle", "load", "body", "mid", "ended", "finished"}
         /\ outcome' \in {"none", "done", "error", "cancelled"}
         /\ (slot' = None) <=> (pc' = "idle")
         /\ pc' = "ended" => outcome' # "none"
<1>1. CASE slot # None
  BY <1>1 DEF TypeOK, PumpBody, worker
<1>2. CASE \E j \in JobIds :
              /\ Start(j)
              /\ status' = [i \in JobIds |->
                     IF i = j THEN "running"
                     ELSE IF i \in FailRetired({h \in JobIds : Before(h, j)})
                          THEN "error" ELSE status[i]]
  <2>1. status' \in [JobIds -> Status]
    BY <1>2 DEF TypeOK, Status, Terminal
  <2>2. PICK j \in JobIds : Start(j)
    BY <1>2
  <2>3. j # None
    BY JobQueueAssumption DEF JobIds, None
  <2> QED
    BY <2>1, <2>2, <2>3 DEF Start
<1>3. CASE /\ Candidates = {}
           /\ status' = [i \in JobIds |->
                   IF i \in FailRetired(JobIds) THEN "error" ELSE status[i]]
           /\ UNCHANGED worker
  BY <1>3 DEF TypeOK, Status, Terminal, worker
<1> QED
  BY <1>1, <1>2, <1>3 DEF PumpBody

LEMMA InitType == Init => TypeOK
<1> SUFFICES ASSUME Init PROVE TypeOK
  OBVIOUS
<1>1. (CHOOSE r \in Roots : TRUE) \in Roots
  BY JobQueueAssumption
<1>2. root \in [JobIds -> Roots]
  BY <1>1, Zenon DEF Init
<1>3. /\ status \in [JobIds -> Status]
      /\ kind \in [JobIds -> AllKinds]
      /\ prio \in [JobIds -> Nat]
      /\ born \in [JobIds -> Nat]
      /\ review \in [Roots -> {"none", "first", "later"}]
      /\ opener \in [Roots -> JobIds \cup {None}]
  BY DEF Init, Status, AllKinds
<1>4. count \in 0..MaxJobs /\ pumps \in Nat /\ epoch \in Nat
  BY JobQueueAssumption DEF Init
<1> QED
  BY <1>2, <1>3, <1>4 DEF Init, TypeOK

\* the clients' steps
LEMMA ClientType == TypeOK /\ Client => TypeOK'
<1> SUFFICES ASSUME TypeOK, Client PROVE TypeOK'
  OBVIOUS
<1> USE DEF TypeOK, holders, process, worker, table
<1>1. CASE \E k \in Kinds, r \in Roots : Submit(k, r)
  BY <1>1, JobQueueAssumption DEF Submit, Status, JobIds
<1>2. CASE \E j \in JobIds : Prioritize(j)
  BY <1>2, JobQueueAssumption DEF Prioritize
<1>3. CASE \E j \in JobIds : CancelRunning(j)
  BY <1>3 DEF CancelRunning
<1>4. CASE \E j \in JobIds : CancelQueued(j)
  BY <1>4 DEF CancelQueued, Droppable, Status, Terminal
<1>5. CASE CancelAllQueued
  BY <1>5 DEF CancelAllQueued, Status, Terminal
<1>6. CASE Shutdown
  BY <1>6 DEF Shutdown
<1> QED
  BY <1>1, <1>2, <1>3, <1>4, <1>5, <1>6 DEF Client

\* the worker's steps
LEMMA WorkerType == TypeOK /\ Worker => TypeOK'
<1> SUFFICES ASSUME TypeOK, Worker PROVE TypeOK'
  OBVIOUS
<1> USE DEF TypeOK, holders, process, table, Ends
<1>1. CASE LoadConfig
  BY <1>1 DEF LoadConfig
<1>2. CASE HandlerFails
  BY <1>2 DEF HandlerFails
<1>3. CASE HandlerSeesCancel
  BY <1>3 DEF HandlerSeesCancel
<1>4. CASE HandlerReturns
  BY <1>4 DEF HandlerReturns
<1>5. CASE AnalyzeOpens
  BY <1>5 DEF AnalyzeOpens
<1>6. CASE ConfirmApplies
  BY <1>6 DEF ConfirmApplies
<1>7. CASE ReviewCloses
  BY <1>7 DEF ReviewCloses
<1>8. CASE MergeOpens
  BY <1>8 DEF MergeOpens
<1>9. CASE MergeCloses
  BY <1>9 DEF MergeCloses
<1>10. CASE Finish
  BY <1>10 DEF Finish, Landing, Status, Terminal
<1>11. CASE Release
  <2>1. pumps' \in Nat
    BY <1>11 DEF Release
  <2>2. slot' = None /\ pc' = "idle" /\ outcome' = "none" /\ cancelled' = FALSE
    BY <1>11 DEF Release
  <2>3. UNCHANGED <<table, holders, process>>
    BY <1>11 DEF Release
  <2> QED
    BY <2>1, <2>2, <2>3
<1> QED
  BY <1>1, <1>2, <1>3, <1>4, <1>5, <1>6, <1>7, <1>8, <1>9, <1>10, <1>11 DEF Worker, Handler

LEMMA NextType == TypeOK /\ [Next]_vars => TypeOK'
<1> SUFFICES ASSUME TypeOK, [Next]_vars PROVE TypeOK'
  OBVIOUS
<1>1. CASE Pump
  <2>1. /\ status' \in [JobIds -> Status]
        /\ slot' \in JobIds \cup {None}
        /\ cancelled' \in BOOLEAN
        /\ pc' \in {"idle", "load", "body", "mid", "ended", "finished"}
        /\ outcome' \in {"none", "done", "error", "cancelled"}
        /\ (slot' = None) <=> (pc' = "idle")
        /\ pc' = "ended" => outcome' # "none"
    BY <1>1, PumpBodyType DEF Pump, TypeOK, worker
  <2> QED
    BY <1>1, <2>1 DEF Pump, TypeOK, holders, process
<1>2. CASE Serve
  BY <1>2, PumpBodyType DEF Serve, TypeOK, holders
<1>3. CASE Halt
  BY <1>3 DEF Halt, TypeOK, table, holders
<1>4. CASE Boot
  BY <1>4, JobQueueAssumption DEF Boot, Interrupts, TypeOK, holders, worker, Status, Terminal
<1>5. CASE \E j \in JobIds : Rollback(j)
  BY <1>5 DEF Rollback, TypeOK, table, worker
<1>6. CASE UNCHANGED vars
  BY <1>6 DEF TypeOK, vars, table, holders, process, worker
<1> QED
  BY <1>1, <1>2, <1>3, <1>4, <1>5, <1>6, ClientType, WorkerType DEF Next

\* Every variable keeps its type.
THEOREM TypeCorrect == Spec => []TypeOK
<1>1. Init => TypeOK
  BY InitType
<1>2. TypeOK /\ [Next]_vars => TypeOK'
  BY NextType
<1> QED
  BY <1>1, <1>2, PTL DEF Spec

(***************************************************************************)
(* What a step does, in the terms the invariants need.                     *)
(***************************************************************************)

\* a handler's step leaves the table and the process alone, and touches the
\* holders of its own root only
LEMMA HandlerFrame ==
  ASSUME TypeOK, Handler
  PROVE  /\ pc \in {"body", "mid"} /\ pc' \in {"mid", "ended"}
         /\ slot \in JobIds
         /\ UNCHANGED <<table, process, slot, pumps>>
         /\ \A r \in Roots : review'[r] # "none" =>
                \/ review[r] # "none" /\ opener'[r] = opener[r]
                \/ r = root[slot] /\ opener'[r] = slot
         /\ \A r \in Roots : r \in merging' =>
                r \in merging \/ (r = root[slot] /\ kind[slot] = "merge")
<1> USE DEF TypeOK, holders, Ends
<1>0. slot \in JobIds
  BY DEF Handler, HandlerFails, HandlerSeesCancel, HandlerReturns, AnalyzeOpens,
         ConfirmApplies, ReviewCloses, MergeOpens, MergeCloses
<1>1. CASE HandlerFails
  BY <1>0, <1>1 DEF HandlerFails
<1>2. CASE HandlerSeesCancel
  BY <1>0, <1>2 DEF HandlerSeesCancel
<1>3. CASE HandlerReturns
  BY <1>0, <1>3 DEF HandlerReturns
<1>4. CASE AnalyzeOpens
  BY <1>0, <1>4 DEF AnalyzeOpens
<1>5. CASE ConfirmApplies
  BY <1>0, <1>5 DEF ConfirmApplies
<1>6. CASE ReviewCloses
  BY <1>0, <1>6 DEF ReviewCloses
<1>7. CASE MergeOpens
  BY <1>0, <1>7 DEF MergeOpens
<1>8. CASE MergeCloses
  BY <1>0, <1>8 DEF MergeCloses
<1> QED
  BY <1>1, <1>2, <1>3, <1>4, <1>5, <1>6, <1>7, <1>8 DEF Handler

\* a pump finds the slot taken, starts one candidate, or finds none
LEMMA PumpFrame ==
  ASSUME TypeOK, PumpBody
  PROVE  \/ slot # None /\ UNCHANGED <<status, worker>>
         \/ /\ slot = None
            /\ \E j \in Candidates :
                  /\ slot' = j /\ pc' = "load" /\ status'[j] = "running"
                  /\ \A i \in JobIds : i # j =>
                        status'[i] = status[i] \/ (status[i] = "queued" /\ status'[i] = "error")
         \/ /\ slot = None /\ UNCHANGED worker
            /\ Candidates = {}
            /\ \A i \in JobIds :
                  status'[i] = status[i] \/ (status[i] = "queued" /\ status'[i] = "error")
<1> USE DEF TypeOK, FailRetired, Queued
<1>1. CASE slot # None
  BY <1>1 DEF PumpBody
<1>2. ASSUME NEW j \in JobIds, slot = None, Start(j),
             status' = [i \in JobIds |->
                     IF i = j THEN "running"
                     ELSE IF i \in FailRetired({h \in JobIds : Before(h, j)})
                          THEN "error" ELSE status[i]]
      PROVE  /\ j \in Candidates /\ slot' = j /\ pc' = "load" /\ status'[j] = "running"
             /\ \A i \in JobIds : i # j =>
                   status'[i] = status[i] \/ (status[i] = "queued" /\ status'[i] = "error")
  BY <1>2 DEF Start
<1>3. CASE /\ slot = None
           /\ Candidates = {}
           /\ status' = [i \in JobIds |->
                   IF i \in FailRetired(JobIds) THEN "error" ELSE status[i]]
           /\ UNCHANGED worker
  BY <1>3
<1> QED
  BY <1>1, <1>2, <1>3 DEF PumpBody

(***************************************************************************)
(* The slot and the table agree, and at most one row is running.           *)
(***************************************************************************)
LEMMA InitSlot == Init => SlotInv /\ OneRunning
  BY DEF Init, SlotInv, OneRunning, Busy

LEMMA NextSlot ==
  TypeOK /\ SlotInv /\ OneRunning /\ [Next]_vars => SlotInv' /\ OneRunning'
<1> SUFFICES ASSUME TypeOK, SlotInv, OneRunning, [Next]_vars
             PROVE  SlotInv' /\ OneRunning'
  OBVIOUS
<1> USE DEF SlotInv, OneRunning, Busy
<1>a. TypeOK'
  BY NextType
<1>b. None \notin JobIds
  BY JobQueueAssumption DEF None, JobIds
<1>1. CASE \E k \in Kinds, r \in Roots : Submit(k, r)
  BY <1>1 DEF Submit, TypeOK, holders, process, worker, Accepting, JobIds
<1>2. CASE \E j \in JobIds : Prioritize(j)
  BY <1>2 DEF Prioritize, holders, process, worker, Accepting
<1>3. CASE \E j \in JobIds : CancelRunning(j)
  BY <1>3 DEF CancelRunning, table, holders, process
<1>4. CASE \E j \in JobIds : CancelQueued(j)
  BY <1>4, JobQueueAssumption DEF CancelQueued, Droppable, TypeOK, holders, process, worker, JobIds
<1>5. CASE CancelAllQueued
  BY <1>5 DEF CancelAllQueued, Queued, TypeOK, holders, process, worker
<1>6. CASE Shutdown
  BY <1>6 DEF Shutdown, table, holders
<1>7. CASE Pump
  <2>1. CASE UNCHANGED <<status, worker>>
    BY <1>7, <2>1 DEF Pump, Accepting, worker, process, holders
  <2>2. CASE PumpBody /\ daemon # "stopping"
    BY <1>7, <2>2, <1>a, <1>b, PumpFrame
    DEF Pump, Accepting, worker, process, holders, TypeOK, Candidates, Queued
  <2> QED
    BY <1>7, <2>1, <2>2 DEF Pump
<1>8. CASE LoadConfig
  BY <1>8 DEF LoadConfig, Ends, table, holders, process
<1>9. CASE Handler
  BY <1>9, HandlerFrame DEF table, process
<1>10. CASE Finish
  BY <1>10, <1>b DEF Finish, Landing, TypeOK, holders, process
<1>11. CASE Release
  BY <1>11 DEF Release, table, holders, process, TypeOK
<1>12. CASE Halt
  BY <1>12 DEF Halt, table, holders
<1>13. CASE Boot
  BY <1>13 DEF Boot, Interrupts, TypeOK, holders, worker
<1>14. CASE \E j \in JobIds : Rollback(j)
  BY <1>14 DEF Rollback, table, worker
<1>15. CASE Serve
  BY <1>15, <1>a, <1>b, PumpFrame DEF Serve, worker, holders, TypeOK, Candidates, Queued
<1>16. CASE UNCHANGED vars
  BY <1>16 DEF vars, table, holders, process, worker
<1> QED
  BY <1>1, <1>2, <1>3, <1>4, <1>5, <1>6, <1>7, <1>8, <1>9, <1>10, <1>11, <1>12, <1>13,
     <1>14, <1>15, <1>16 DEF Next, Client, Worker

(***************************************************************************)
(* Owners run alone, and what a restart examines is what it interrupted.   *)
(***************************************************************************)
LEMMA InitGate == Init => OwnerRunsAlone /\ StaleInv
  BY DEF Init, OwnerRunsAlone, StaleInv

\* starting a runnable job, and failing others, keeps owners alone
LEMMA PumpGate ==
  ASSUME TypeOK, SlotInv, OwnerRunsAlone, PumpBody, UNCHANGED <<kind, root, holders>>
  PROVE  OwnerRunsAlone'
<1>1. ASSUME NEW i \in JobIds, status'[i] = "running", OwnsRoot(kind[i])
      PROVE  /\ review[root[i]] # "none" => opener[root[i]] = i
             /\ root[i] \in merging => kind[i] = "merge"
  <2>1. CASE status[i] = "running"
    BY <1>1, <2>1 DEF OwnerRunsAlone
  <2>2. CASE status[i] # "running"
    <3>1. i \in Candidates
      BY <1>1, <2>2, PumpFrame DEF TypeOK
    <3> QED
      BY <1>1, <3>1 DEF Candidates, Runnable, RootHeld, IgnoresMerge
  <2> QED
    BY <2>1, <2>2
<1> QED
  BY <1>1 DEF OwnerRunsAlone, holders, OwnsRoot

LEMMA NextGate ==
  TypeOK /\ SlotInv /\ OneRunning /\ OwnerRunsAlone /\ StaleInv /\ [Next]_vars
    => OwnerRunsAlone' /\ StaleInv'
<1> SUFFICES ASSUME TypeOK, SlotInv, OneRunning, OwnerRunsAlone, StaleInv, [Next]_vars
             PROVE  OwnerRunsAlone' /\ StaleInv'
  OBVIOUS
<1> USE DEF OwnerRunsAlone, StaleInv, OwnsRoot
<1>1. CASE \E k \in Kinds, r \in Roots : Submit(k, r)
  <2> PICK k \in Kinds, r \in Roots : Submit(k, r)
    BY <1>1
  <2>1. count + 1 \in JobIds /\ status[count + 1] = "absent"
    BY JobQueueAssumption DEF Submit, TypeOK, SlotInv, JobIds
  <2>2. \A i \in JobIds : i # count + 1 =>
          status'[i] = status[i] /\ kind'[i] = kind[i] /\ root'[i] = root[i]
    BY DEF Submit, TypeOK
  <2>3. status'[count + 1] = "queued"
    BY <2>1 DEF Submit, TypeOK
  <2>4. UNCHANGED <<review, opener, merging, stale, daemon>>
    BY DEF Submit, holders, process
  <2>5. \A i \in stale : i \in JobIds /\ i # count + 1
    BY <2>1 DEF TypeOK
  <2>6. OwnerRunsAlone'
    BY <2>2, <2>3, <2>4
  <2>7. StaleInv'
    BY <2>2, <2>4, <2>5
  <2> QED
    BY <2>6, <2>7
<1>2. CASE \E j \in JobIds : Prioritize(j)
  BY <1>2 DEF Prioritize, holders, process, worker
<1>3. CASE \E j \in JobIds : CancelRunning(j)
  BY <1>3 DEF CancelRunning, table, holders, process
<1>4. CASE \E j \in JobIds : CancelQueued(j)
  BY <1>4 DEF CancelQueued, Droppable, TypeOK, holders, process
<1>5. CASE CancelAllQueued
  BY <1>5 DEF CancelAllQueued, Queued, TypeOK, holders, process
<1>6. CASE Shutdown
  BY <1>6 DEF Shutdown, table, holders
<1>7. CASE Pump
  <2>1. stale = {} /\ stale' = {}
    BY <1>7 DEF Pump, Accepting, process
  <2>2. CASE UNCHANGED <<status, worker>>
    BY <1>7, <2>1, <2>2 DEF Pump, holders
  <2>3. CASE PumpBody
    <3>1. OwnerRunsAlone'
      BY <1>7, <2>3, PumpGate DEF Pump, holders
    <3> QED
      BY <2>1, <3>1
  <2> QED
    BY <1>7, <2>2, <2>3 DEF Pump
<1>8. CASE LoadConfig
  BY <1>8 DEF LoadConfig, table, holders, process
<1>9. CASE Handler
  <2>1. /\ slot \in JobIds
        /\ UNCHANGED <<status, kind, root, stale, daemon>>
        /\ pc \in Busy
    BY <1>9, HandlerFrame DEF table, process, Busy
  <2>2. stale = {} /\ daemon # "down"
    BY <2>1 DEF SlotInv, Busy, TypeOK
  <2>3. \A i \in JobIds : status[i] = "running" => i = slot
    BY <2>2 DEF OneRunning
  <2>4. ASSUME NEW i \in JobIds, status[i] = "running", OwnsRoot(kind[i])
        PROVE  /\ review'[root[i]] # "none" => opener'[root[i]] = i
               /\ root[i] \in merging' => kind[i] = "merge"
    <3>1. i = slot /\ root[i] \in Roots
      BY <2>3, <2>4 DEF TypeOK
    <3> QED
      BY <1>9, <2>4, <3>1, HandlerFrame
  <2> QED
    BY <2>1, <2>2, <2>4
<1>10. CASE Finish
  BY <1>10 DEF Finish, Landing, TypeOK, holders, process, SlotInv
<1>11. CASE Release
  BY <1>11 DEF Release, table, holders, process
<1>12. CASE Halt
  BY <1>12 DEF Halt, table, holders
<1>13. CASE Boot
  <2>1. UNCHANGED <<kind, root, review, opener, merging>>
    BY <1>13 DEF Boot, Interrupts, holders
  <2>2. \A i \in JobIds : status'[i] # "running"
    BY <1>13 DEF Boot, Interrupts
  <2>3. \A i \in stale' : i \in JobIds /\ status[i] = "running" /\ OwnsRoot(kind[i])
                          /\ status'[i] = "interrupted"
    BY <1>13 DEF Boot, Interrupts, RollsBack
  <2>4. daemon' = "reconcile"
    BY <1>13 DEF Boot, Interrupts
  <2> QED
    BY <2>1, <2>2, <2>3, <2>4
<1>14. CASE \E j \in JobIds : Rollback(j)
  <2> PICK j \in JobIds : Rollback(j)
    BY <1>14
  <2>1. /\ daemon = "reconcile" /\ slot = None
        /\ UNCHANGED <<status, kind, root, merging, daemon>>
        /\ stale' \subseteq stale
    BY DEF Rollback, table, SlotInv
  <2>2. \A i \in JobIds : status[i] # "running"
    BY <2>1, JobQueueAssumption DEF SlotInv, None, JobIds
  <2>3. \A r \in Roots : review'[r] # "none" => review[r] # "none" /\ opener'[r] = opener[r]
    BY DEF Rollback, TypeOK
  <2>4. \A i \in stale : i \in JobIds /\ root[i] \in Roots
    BY DEF TypeOK
  <2> QED
    BY <2>1, <2>2, <2>3, <2>4
<1>15. CASE Serve
  <2>1. OwnerRunsAlone'
    BY <1>15, PumpGate DEF Serve, holders
  <2>2. stale' = {}
    BY <1>15 DEF Serve
  <2> QED
    BY <2>1, <2>2
<1>16. CASE UNCHANGED vars
  BY <1>16 DEF vars, table, holders, process
<1> QED
  BY <1>1, <1>2, <1>3, <1>4, <1>5, <1>6, <1>7, <1>8, <1>9, <1>10, <1>11, <1>12, <1>13,
     <1>14, <1>15, <1>16 DEF Next, Client, Worker

(***************************************************************************)
(* The life of a row, and the backlog.                                     *)
(***************************************************************************)

\* a row changes only while it is absent, queued or running, and it is queued
\* by a submission only
LEMMA RowLife ==
  ASSUME TypeOK, SlotInv, [Next]_vars
  PROVE  \A i \in JobIds :
           /\ status[i] \in Terminal => status'[i] = status[i]
           /\ status'[i] = "queued" =>
                \/ status[i] = "queued" /\ UNCHANGED <<kind[i], root[i], born[i]>>
                \/ /\ \E k \in Kinds, r \in Roots : Submit(k, r)
                   /\ i = count + 1 /\ born'[i] = epoch'
<1> USE DEF Terminal
<1>1. CASE \E k \in Kinds, r \in Roots : Submit(k, r)
  <2> PICK k \in Kinds, r \in Roots : Submit(k, r)
    BY <1>1
  <2>1. count + 1 \in JobIds /\ status[count + 1] = "absent"
    BY JobQueueAssumption DEF Submit, TypeOK, SlotInv, JobIds
  <2>2. /\ status' = [status EXCEPT ![count + 1] = "queued"]
        /\ kind' = [kind EXCEPT ![count + 1] = k]
        /\ root' = [root EXCEPT ![count + 1] = r]
        /\ born' = [born EXCEPT ![count + 1] = epoch]
        /\ epoch' = epoch
    BY DEF Submit, process
  <2> QED
    BY <1>1, <2>1, <2>2 DEF TypeOK
<1>2. CASE \E j \in JobIds : Prioritize(j)
  BY <1>2 DEF Prioritize
<1>3. CASE \E j \in JobIds : CancelRunning(j)
  BY <1>3 DEF CancelRunning, table
<1>4. CASE \E j \in JobIds : CancelQueued(j)
  BY <1>4 DEF CancelQueued, Droppable, TypeOK
<1>5. CASE CancelAllQueued
  BY <1>5 DEF CancelAllQueued, Queued, TypeOK
<1>6. CASE Shutdown
  BY <1>6 DEF Shutdown, table
<1>7. CASE Pump
  BY <1>7, PumpFrame DEF Pump, Candidates, Queued
<1>8. CASE LoadConfig
  BY <1>8 DEF LoadConfig, table
<1>9. CASE Handler
  BY <1>9, HandlerFrame DEF table
<1>10. CASE Finish
  BY <1>10 DEF Finish, Landing, TypeOK, SlotInv, Busy
<1>11. CASE Release
  BY <1>11 DEF Release, table
<1>12. CASE Halt
  BY <1>12 DEF Halt, table
<1>13. CASE Boot
  BY <1>13 DEF Boot, Interrupts, TypeOK
<1>14. CASE \E j \in JobIds : Rollback(j)
  BY <1>14 DEF Rollback, table
<1>15. CASE Serve
  BY <1>15, PumpFrame DEF Serve, Candidates, Queued
<1>16. CASE UNCHANGED vars
  BY <1>16 DEF vars, table
<1> QED
  BY <1>1, <1>2, <1>3, <1>4, <1>5, <1>6, <1>7, <1>8, <1>9, <1>10, <1>11, <1>12, <1>13,
     <1>14, <1>15, <1>16 DEF Next, Client, Worker

LEMMA InitBacklog == Init => BacklogAttended /\ NoLostWakeup /\ OneQueuedProbe
  BY DEF Init, BacklogAttended, NoLostWakeup, OneQueuedProbe, Queued

\* one queued probe per root: only a submission adds one, and it looks first
LEMMA NextProbe ==
  TypeOK /\ SlotInv /\ OneQueuedProbe /\ [Next]_vars => OneQueuedProbe'
<1> SUFFICES ASSUME TypeOK, SlotInv, OneQueuedProbe, [Next]_vars,
                    NEW i \in Queued', NEW j \in Queued',
                    kind'[i] = "probe", kind'[j] = "probe", root'[i] = root'[j]
             PROVE  i = j
  BY DEF OneQueuedProbe
<1>1. i \in JobIds /\ j \in JobIds /\ status'[i] = "queued" /\ status'[j] = "queued"
  BY DEF Queued
<1>2. CASE \E k \in Kinds, r \in Roots : Submit(k, r)
  <2> PICK k \in Kinds, r \in Roots : Submit(k, r)
    BY <1>2
  <2>1. count + 1 \in JobIds /\ status[count + 1] = "absent"
    BY JobQueueAssumption DEF Submit, TypeOK, SlotInv, JobIds
  <2>2. /\ kind' = [kind EXCEPT ![count + 1] = k]
        /\ root' = [root EXCEPT ![count + 1] = r]
        /\ status' = [status EXCEPT ![count + 1] = "queued"]
        /\ ~QueuedProbe(k, r)
    BY DEF Submit
  <2>3. \A h \in JobIds : h # count + 1 =>
          status'[h] = status[h] /\ kind'[h] = kind[h] /\ root'[h] = root[h]
    BY <2>2 DEF TypeOK
  <2>4. kind'[count + 1] = k /\ root'[count + 1] = r
    BY <2>1, <2>2 DEF TypeOK
  <2> QED
    BY <1>1, <2>2, <2>3, <2>4 DEF OneQueuedProbe, QueuedProbe, Queued
<1>3. CASE ~\E k \in Kinds, r \in Roots : Submit(k, r)
  BY <1>1, <1>3, RowLife DEF OneQueuedProbe, Queued
<1> QED
  BY <1>2, <1>3

\* the backlog holds no apply of an earlier daemon: Boot cancels them
LEMMA NextAttended ==
  TypeOK /\ SlotInv /\ BacklogAttended /\ [Next]_vars => BacklogAttended'
<1> SUFFICES ASSUME TypeOK, SlotInv, BacklogAttended, [Next]_vars
             PROVE  BacklogAttended'
  OBVIOUS
<1> USE DEF BacklogAttended, DestructiveApply
<1>1. CASE \E k \in Kinds, r \in Roots : Submit(k, r)
  <2> PICK k \in Kinds, r \in Roots : Submit(k, r)
    BY <1>1
  <2>1. /\ status' = [status EXCEPT ![count + 1] = "queued"]
        /\ kind' = [kind EXCEPT ![count + 1] = k]
        /\ born' = [born EXCEPT ![count + 1] = epoch]
        /\ UNCHANGED <<epoch, daemon>>
    BY DEF Submit, process
  <2> QED
    BY <2>1 DEF TypeOK
<1>2. CASE \E j \in JobIds : Prioritize(j)
  BY <1>2 DEF Prioritize, process
<1>3. CASE \E j \in JobIds : CancelRunning(j)
  BY <1>3 DEF CancelRunning, table, process
<1>4. CASE \E j \in JobIds : CancelQueued(j)
  BY <1>4 DEF CancelQueued, Droppable, TypeOK, process
<1>5. CASE CancelAllQueued
  BY <1>5 DEF CancelAllQueued, Queued, TypeOK, process
<1>6. CASE Shutdown
  BY <1>6 DEF Shutdown, table
<1>7. CASE Pump
  BY <1>7, PumpFrame DEF Pump, Candidates, Queued, process, Accepting
<1>8. CASE LoadConfig
  BY <1>8 DEF LoadConfig, table, process
<1>9. CASE Handler
  BY <1>9, HandlerFrame DEF table, process
<1>10. CASE Finish
  BY <1>10 DEF Finish, Landing, TypeOK, process
<1>11. CASE Release
  BY <1>11 DEF Release, table, process
<1>12. CASE Halt
  BY <1>12 DEF Halt
<1>13. CASE Boot
  BY <1>13 DEF Boot, Interrupts, TypeOK
<1>14. CASE \E j \in JobIds : Rollback(j)
  BY <1>14 DEF Rollback, table
<1>15. CASE Serve
  BY <1>15, PumpFrame DEF Serve, Candidates, Queued
<1>16. CASE UNCHANGED vars
  BY <1>16 DEF vars, table, process
<1> QED
  BY <1>1, <1>2, <1>3, <1>4, <1>5, <1>6, <1>7, <1>8, <1>9, <1>10, <1>11, <1>12, <1>13,
     <1>14, <1>15, <1>16 DEF Next, Client, Worker

\* what a pump leaves behind while the slot stays free is not runnable
LEMMA PumpWakeup ==
  ASSUME TypeOK, PumpBody, UNCHANGED <<kind, root, holders, retired>>, slot' = None
  PROVE  Candidates' = {}
<1>1. None \notin JobIds
  BY JobQueueAssumption DEF None, JobIds
<1>2. /\ Candidates = {}
      /\ \A i \in JobIds :
           status'[i] = status[i] \/ (status[i] = "queued" /\ status'[i] = "error")
  BY <1>1, PumpFrame DEF Candidates, Queued, worker
<1>3. \A i \in JobIds : Runnable(i)' = Runnable(i)
  BY DEF Runnable, RootHeld, IgnoresMerge, OwnsRoot, holders
<1> QED
  BY <1>2, <1>3 DEF Candidates, Queued

LEMMA NextWakeup ==
  TypeOK /\ SlotInv /\ NoLostWakeup /\ [Next]_vars => NoLostWakeup'
<1> SUFFICES ASSUME TypeOK, SlotInv, NoLostWakeup, [Next]_vars,
                    daemon' = "up", slot' = None, pumps' = 0
             PROVE  Candidates' = {}
  BY DEF NoLostWakeup
<1>0. None \notin JobIds
  BY JobQueueAssumption DEF None, JobIds
<1>1. CASE \E k \in Kinds, r \in Roots : Submit(k, r)
  BY <1>1 DEF Submit, TypeOK
<1>2. CASE \E j \in JobIds : Prioritize(j)
  BY <1>2 DEF Prioritize, TypeOK
<1>3. CASE \E j \in JobIds : CancelRunning(j)
  BY <1>3, <1>0 DEF CancelRunning
<1>4. CASE (\E j \in JobIds : CancelQueued(j)) \/ CancelAllQueued \/ UNCHANGED vars
  <2>1. /\ UNCHANGED <<kind, root, holders, retired>>
        /\ daemon = "up" /\ slot = None /\ pumps = 0
    BY <1>4 DEF CancelQueued, Droppable, CancelAllQueued, vars, table, process, worker
  <2>2. \A i \in JobIds : status'[i] = "queued" => status[i] = "queued"
    BY <1>4 DEF CancelQueued, Droppable, CancelAllQueued, Queued, vars, table, TypeOK
  <2>3. \A i \in JobIds : Runnable(i)' = Runnable(i)
    BY <2>1 DEF Runnable, RootHeld, IgnoresMerge, OwnsRoot, holders
  <2> QED
    BY <2>1, <2>2, <2>3 DEF NoLostWakeup, Candidates, Queued
<1>6. CASE Shutdown
  BY <1>6 DEF Shutdown
<1>7. CASE Pump
  BY <1>7, PumpWakeup DEF Pump, process
<1>8. CASE LoadConfig
  BY <1>8 DEF LoadConfig, Ends, TypeOK
<1>9. CASE Handler
  BY <1>9, <1>0, HandlerFrame
<1>10. CASE Finish
  BY <1>10 DEF Finish, TypeOK
<1>11. CASE Release
  BY <1>11 DEF Release, TypeOK
<1>12. CASE Halt
  BY <1>12 DEF Halt
<1>13. CASE Boot
  BY <1>13 DEF Boot, Interrupts
<1>14. CASE \E j \in JobIds : Rollback(j)
  BY <1>14 DEF Rollback
<1>15. CASE Serve
  BY <1>15, PumpWakeup DEF Serve
<1> QED
  BY <1>1, <1>2, <1>3, <1>4, <1>6, <1>7, <1>8, <1>9, <1>10, <1>11, <1>12, <1>13,
     <1>14, <1>15 DEF Next, Client, Worker

(***************************************************************************)
(* Safety.                                                                 *)
(***************************************************************************)

\* The inductive invariant holds of every daemon, through crashes, restarts
\* and upgrades.
THEOREM Safety == Spec => []IInv
<1>1. Init => IInv
  BY InitType, InitSlot, InitGate, InitBacklog DEF IInv
<1>2. IInv /\ [Next]_vars => IInv'
  BY NextType, NextSlot, NextGate, NextAttended, NextWakeup, NextProbe DEF IInv
<1> QED
  BY <1>1, <1>2, PTL DEF Spec

\* Never two `running` rows, and the one there is belongs to the worker slot.
THEOREM OneRunningHolds == Spec => []OneRunning
<1>1. IInv => OneRunning
  BY DEF IInv
<1> QED
  BY <1>1, Safety, PTL

\* A root-owning job runs beside nobody's review and, unless it is a merge,
\* beside no open merge: asking once at dequeue is enough.
THEOREM OwnerRunsAloneHolds == Spec => []OwnerRunsAlone
<1>1. IInv => OwnerRunsAlone
  BY DEF IInv
<1> QED
  BY <1>1, Safety, PTL

\* No delete-apply outlives the daemon it was submitted to.
THEOREM ApplyIsAttendedHolds == Spec => []ApplyIsAttended
<1>1. IInv => ApplyIsAttended
  BY DEF IInv, BacklogAttended, ApplyIsAttended
<1> QED
  BY <1>1, Safety, PTL

\* An idle worker with no pump on its way leaves only blocked jobs queued.
THEOREM NoLostWakeupHolds == Spec => []NoLostWakeup
<1>1. IInv => NoLostWakeup
  BY DEF IInv
<1> QED
  BY <1>1, Safety, PTL

\* Probes of one root coalesce while they wait.
THEOREM OneQueuedProbeHolds == Spec => []OneQueuedProbe
<1>1. IInv => OneQueuedProbe
  BY DEF IInv
<1> QED
  BY <1>1, Safety, PTL

\* Nobody rewrites a terminal row.
THEOREM TerminalIsFinalHolds == Spec => TerminalIsFinal
<1>1. IInv /\ [Next]_vars
        => [\A j \in JobIds : status[j] \in Terminal => status'[j] = status[j]]_vars
  BY RowLife DEF IInv
<1> QED
  BY <1>1, Safety, PTL DEF Spec, TerminalIsFinal

\* A rollback closes only a review whose own opener was interrupted.
THEOREM RollbackSparesFinishedHolds == Spec => RollbackSparesFinished
<1>1. IInv /\ [Next]_vars
        => [\A r \in Roots :
              daemon = "reconcile" /\ review[r] # "none" /\ review'[r] = "none"
                => opener[r] # None /\ status[opener[r]] # "done"]_vars
  <2> SUFFICES ASSUME IInv, Next, NEW r \in Roots, daemon = "reconcile",
                      review[r] # "none", review'[r] = "none"
               PROVE  opener[r] # None /\ status[opener[r]] # "done"
    OBVIOUS
  <2> USE DEF IInv
  <2>1. pc = "idle" /\ slot = None
    BY DEF SlotInv, TypeOK
  <2>2. ~Worker
    BY <2>1 DEF Worker, LoadConfig, Handler, HandlerFails, HandlerSeesCancel, HandlerReturns,
       AnalyzeOpens, ConfirmApplies, ReviewCloses, MergeOpens, MergeCloses, Finish, Release
  <2>3. ~Client
    BY DEF Client, Accepting, Submit, Prioritize, CancelRunning, CancelQueued,
       CancelAllQueued, Shutdown
  <2>4. PICK j \in JobIds : Rollback(j)
    BY <2>2, <2>3 DEF Next, Pump, Halt, Boot, Serve, holders
  <2>5. j \in stale /\ r = root[j]
    BY <2>4 DEF Rollback, TypeOK
  <2>6. opener[r] = j /\ status[j] = "interrupted"
    BY <2>5 DEF StaleInv
  <2> QED
    BY <2>4, <2>6, JobQueueAssumption DEF JobIds, None
<1> QED
  BY <1>1, Safety, PTL DEF Spec, RollbackSparesFinished

=============================================================================
