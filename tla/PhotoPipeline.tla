--------------------------- MODULE PhotoPipeline ---------------------------
(***************************************************************************)
(* The photo pipeline of a scan (jobs/scan.py _run_photo_pipeline): reader *)
(* threads put whole files in a queue, worker threads fingerprint and      *)
(* catalogue them, the handler's thread drains one result per file.        *)
(* Memory is bounded by the bytes in flight.                               *)
(*                                                                         *)
(* Simplified: a hash is the content it stands for and every photo         *)
(* decodes; no file had a row before, and an asset the catalog has already *)
(* is active and complete; a worker gives back its bytes and puts its      *)
(* result in one step.                                                     *)
(***************************************************************************)
EXTENDS Integers, Sequences, FiniteSets

CONSTANTS Files,       \* the photos to process, by their place in the list
          Size, Content, \* of each file
          Io, Cpu,     \* reader and worker threads
          Budget,      \* bytes in flight
          MaxFaults    \* bound: failed reads and worker exceptions

None == 0

ASSUME PipelineAssumption ==
    /\ Files \subseteq Nat \ {None} /\ IsFiniteSet(Files) /\ Files # {}
    /\ Size \in [Files -> Nat \ {0}]
    /\ Budget \in Nat \ {0} /\ IsFiniteSet(Io) /\ Io # {} /\ IsFiniteSet(Cpu) /\ Cpu # {}

Contents == {Content[f] : f \in Files}

VARIABLES
    waiting,   \* what cand_iter has still to give
    prod,      \* each reader: where it is, with which file
    live,      \* live_producers
    inflight,  \* bytes read and not consumed
    readQ,     \* read_q
    cons,      \* each worker: where it is, with which file, what its lookup said
    assets,    \* contents in the catalog
    rows,      \* files with an instance row
    resultQ,   \* result_q
    main,      \* the handler's thread: "drain", "join" or "over"
    done,      \* results drained
    fresh,     \* contents reported "new", as often as they were
    stop,      \* the pipeline's cancel event
    asked,     \* the job's cancel event
    faults     \* failures so far

readers == <<waiting, prod, live>>
workers == cons
catalog == <<assets, rows>>
drain == <<main, done, fresh, stop>>
vars == <<readers, inflight, readQ, workers, catalog, resultQ, drain, asked, faults>>

First(S) == CHOOSE x \in S : \A y \in S : x <= y
Total == Cardinality(Files)

Init ==
    /\ waiting = Files /\ live = Cardinality(Io)
    /\ prod = [p \in Io |-> [at |-> "pick", file |-> None]]
    /\ inflight = 0 /\ readQ = <<>>
    /\ cons = [c \in Cpu |-> [at |-> "get", file |-> None, known |-> FALSE]]
    /\ assets \in SUBSET Contents /\ rows = {}
    /\ resultQ = <<>> /\ main = "drain" /\ done = 0
    /\ fresh = [x \in Contents |-> 0]
    /\ stop = FALSE /\ asked = FALSE /\ faults = 0

-----------------------------------------------------------------------------
(* Readers.                                                                *)

Reader(p, at, f) == prod' = [prod EXCEPT ![p] = [at |-> at, file |-> f]]

Pick(p) ==
    /\ prod[p].at = "pick" /\ ~stop /\ waiting # {}
    /\ Reader(p, "read", First(waiting))
    /\ waiting' = waiting \ {First(waiting)}
    /\ UNCHANGED <<live, inflight, readQ, workers, catalog, resultQ, drain, asked, faults>>

Leave(p) ==
    /\ prod[p].at = "pick" /\ (stop \/ waiting = {})
    /\ Reader(p, "out", None)
    /\ live' = live - 1
    /\ UNCHANGED <<waiting, inflight, readQ, workers, catalog, resultQ, drain, asked, faults>>

AnswersNothing(f) == <<>>  \* mutant
Failure(f) == <<<<"errors", f>>>>

ReadFile(p) ==
    /\ prod[p].at = "read"
    /\ Reader(p, "admit", prod[p].file)
    /\ UNCHANGED <<waiting, live, inflight, readQ, workers, catalog, resultQ, drain, asked,
                   faults>>

ReadFails(p) ==
    /\ prod[p].at = "read" /\ faults < MaxFaults
    /\ faults' = faults + 1
    /\ resultQ' = resultQ \o Failure(prod[p].file)
    /\ Reader(p, "pick", None)
    /\ UNCHANGED <<waiting, live, inflight, readQ, workers, catalog, drain, asked>>

AdmitsAny(n) == TRUE  \* mutant
AdmitsWithin(n) == inflight + n <= Budget  \* mutant
Admits(n) == inflight = 0 \/ inflight + n <= Budget

\* blocked on the byte budget until it fits, or until the pipeline is stopped
Admit(p) ==
    /\ prod[p].at = "admit"
    /\ LET f == prod[p].file IN
       IF stop THEN /\ Reader(p, "pick", None)
                    /\ resultQ' = resultQ \o Failure(f)
                    /\ UNCHANGED inflight
       ELSE /\ Admits(Size[f])
            /\ Reader(p, "put", f)
            /\ inflight' = inflight + Size[f]
            /\ UNCHANGED resultQ
    /\ UNCHANGED <<waiting, live, readQ, workers, catalog, drain, asked, faults>>

Put(p) ==
    /\ prod[p].at = "put"
    /\ readQ' = Append(readQ, prod[p].file)
    /\ Reader(p, "pick", None)
    /\ UNCHANGED <<waiting, live, inflight, workers, catalog, resultQ, drain, asked, faults>>

-----------------------------------------------------------------------------
(* Workers.                                                                *)

Worker(c, at, f, known) ==
    cons' = [cons EXCEPT ![c] = [at |-> at, file |-> f, known |-> known]]

Get(c) ==
    /\ cons[c].at = "get" /\ readQ # <<>>
    /\ Worker(c, "lookup", Head(readQ), FALSE)
    /\ readQ' = Tail(readQ)
    /\ UNCHANGED <<readers, inflight, catalog, resultQ, drain, asked, faults>>

\* get(timeout=_POLL) raises Empty
TimesOut(c) ==
    /\ cons[c].at = "get" /\ readQ = <<>>
    /\ Worker(c, "empty", None, FALSE)
    /\ UNCHANGED <<readers, inflight, readQ, catalog, resultQ, drain, asked, faults>>

Feeding == live > 0

\* only then does it ask whether anybody still reads
Look(c) ==
    /\ cons[c].at = "empty"
    /\ Worker(c, IF stop \/ ~Feeding THEN "out" ELSE "get", None, FALSE)
    /\ UNCHANGED <<readers, inflight, readQ, catalog, resultQ, drain, asked, faults>>

\* the bytes go back and the result out, whatever the outcome
Answers(c, outcome) ==
    /\ Worker(c, "get", None, FALSE)
    /\ inflight' = inflight - Size[cons[c].file]
    /\ resultQ' = Append(resultQ, <<outcome, cons[c].file>>)

\* a lookup without a lock; the decode comes between it and the transaction
Lookup(c) ==
    /\ cons[c].at = "lookup" /\ ~stop
    /\ Worker(c, "persist", cons[c].file, Content[cons[c].file] \in assets)
    /\ UNCHANGED <<readers, inflight, readQ, catalog, resultQ, drain, asked, faults>>

Created(c) == ~cons[c].known /\ Content[cons[c].file] \notin assets

\* one transaction: the asset, unless another worker was first, and the row
Persist(c) ==
    /\ cons[c].at = "persist"
    /\ assets' = assets \cup {Content[cons[c].file]}
    /\ rows' = rows \cup {cons[c].file}
    /\ Answers(c, IF Created(c) THEN "new" ELSE "exact_dup")
    /\ UNCHANGED <<readers, readQ, drain, asked, faults>>

\* the pipeline was stopped, or anything was raised
WorkerFails(c) ==
    /\ \/ cons[c].at = "lookup" /\ stop /\ UNCHANGED faults
       \/ /\ cons[c].at \in {"lookup", "persist"} /\ faults < MaxFaults
          /\ faults' = faults + 1
    /\ Answers(c, "errors")
    /\ UNCHANGED <<readers, readQ, catalog, drain, asked>>

-----------------------------------------------------------------------------
(* The handler's thread.                                                   *)

AllDrained == done + 1 = Total

\* record the result; the job's cancel is seen here and nowhere else
Drain ==
    /\ main = "drain" /\ resultQ # <<>>
    /\ LET r == Head(resultQ) IN
       fresh' = IF r[1] = "new" THEN [fresh EXCEPT ![Content[r[2]]] = @ + 1] ELSE fresh
    /\ resultQ' = Tail(resultQ)
    /\ done' = done + 1
    /\ IF asked \/ AllDrained THEN main' = "join" /\ stop' = TRUE
                              ELSE UNCHANGED <<main, stop>>
    /\ UNCHANGED <<readers, inflight, readQ, workers, catalog, asked, faults>>

\* threads that wait notice the stop in time; one in a read or a decode may
\* outlast the ten seconds it is given
Waits(t) == t.at \in {"pick", "admit", "put", "get", "empty"}
Join ==
    /\ main = "join"
    /\ \A p \in Io : ~Waits(prod[p])
    /\ \A c \in Cpu : ~Waits(cons[c])
    /\ main' = "over"
    /\ UNCHANGED <<readers, inflight, readQ, workers, catalog, resultQ, done, fresh, stop,
                   asked, faults>>

AskCancel ==
    /\ ~asked /\ main = "drain"
    /\ asked' = TRUE
    /\ UNCHANGED <<readers, inflight, readQ, workers, catalog, resultQ, drain, faults>>

ReaderStep(p) == Pick(p) \/ Leave(p) \/ ReadFile(p) \/ ReadFails(p) \/ Admit(p) \/ Put(p)

WorkerStep(c) ==
    Get(c) \/ TimesOut(c) \/ Look(c) \/ Lookup(c) \/ Persist(c) \/ WorkerFails(c)

Next ==
    \/ \E p \in Io : ReaderStep(p)
    \/ \E c \in Cpu : WorkerStep(c)
    \/ Drain \/ Join \/ AskCancel

Spec == Init /\ [][Next]_vars

\* every thread is scheduled
FairSpec ==
    /\ Spec
    /\ \A p \in Io : WF_vars(ReaderStep(p))
    /\ \A c \in Cpu : WF_vars(WorkerStep(c))
    /\ WF_vars(Drain \/ Join)

-----------------------------------------------------------------------------
(* Properties.                                                             *)

Held == ({prod[p].file : p \in Io} \cup {cons[c].file : c \in Cpu}) \ {None}
Buffered ==
    {readQ[i] : i \in DOMAIN readQ} \cup ({cons[c].file : c \in Cpu} \ {None})
        \cup {prod[p].file : p \in {q \in Io : prod[q].at = "put"}}

TypeOK ==
    /\ waiting \subseteq Files /\ rows \subseteq Files /\ assets \subseteq Contents
    /\ \A p \in Io : /\ prod[p].at \in {"pick", "read", "admit", "put", "out"}
                     /\ (prod[p].file \in Files) <=> (prod[p].at \in {"read", "admit", "put"})
    /\ \A c \in Cpu : /\ cons[c].at \in {"get", "empty", "lookup", "persist", "out"}
                      /\ (cons[c].file \in Files) <=> (cons[c].at \in {"lookup", "persist"})
    /\ live = Cardinality({p \in Io : prod[p].at # "out"})
    /\ \A i \in DOMAIN resultQ : resultQ[i][1] \in {"new", "exact_dup", "errors"}
    /\ main \in {"drain", "join", "over"} /\ done \in 0 .. Total

(* Every candidate yields exactly one result: each file is in one place    *)
(* only, waiting, in a thread's hands, in a queue or drained, whatever     *)
(* fails and whenever the scan is stopped (scan.py:801-803).               *)
OneResultEach ==
    /\ Cardinality(waiting \cup Held) + Len(readQ) + Len(resultQ) + done = Total
    /\ \A i, j \in DOMAIN resultQ : resultQ[i][2] = resultQ[j][2] => i = j

\* every byte of the files of S
Bytes(S) == UNION {{f} \X (1 .. Size[f]) : f \in S}

(* The bytes in flight are those of the files read and not yet consumed,   *)
(* and exceed the budget only for a file that is alone (scan.py:772-785).  *)
BudgetHeld ==
    /\ inflight = Cardinality(Bytes(Buffered))
    /\ inflight <= Budget \/ Cardinality(Buffered) = 1

(* Workers that meet the same bytes at once report one new asset, and none *)
(* for a content the catalog already had (scan.py:410-441).                *)
NewOnce ==
    \A x \in Contents :
       fresh[x] + Cardinality({i \in DOMAIN resultQ :
                      resultQ[i][1] = "new" /\ Content[resultQ[i][2]] = x}) <= 1

(* The drain gets its results and the pipeline returns, under any budget,  *)
(* failure and cancel, as long as the workers do not all leave a file      *)
(* behind (scan.py:781-785, 859-869).                                      *)
Deserted == readQ # <<>> /\ \A c \in Cpu : cons[c].at = "out"
EndsUnlessDeserted == []~Deserted => <>(main = "over")

(* A scan's pipeline returns (scan.py:801-803, 837).                   *)
PipelineEnds == <>(main = "over")

=============================================================================
