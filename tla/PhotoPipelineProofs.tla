------------------------- MODULE PhotoPipelineProofs -------------------------
(***************************************************************************)
(* Proofs about PhotoPipeline, for any photos, sizes, budget, readers and  *)
(* workers, and any number of failures: the types, that every file yields  *)
(* one result, that the byte budget holds, and that a content is reported  *)
(* new once.                                                               *)
(***************************************************************************)
EXTENDS PhotoPipeline, FiniteSetTheorems, SequenceTheorems, WellFoundedInduction,
        TLAPS

Outcomes == {"new", "exact_dup", "errors"}

ReaderType == [at : {"pick", "read", "admit", "put", "out"}, file : Files \cup {None}]
WorkerType == [at : {"get", "empty", "lookup", "persist", "out"}, file : Files \cup {None},
               known : BOOLEAN]

Typed ==
    /\ waiting \subseteq Files
    /\ prod \in [Io -> ReaderType]
    /\ \A p \in Io : prod[p].file \in Files <=> prod[p].at \in {"read", "admit", "put"}
    /\ cons \in [Cpu -> WorkerType]
    /\ \A c \in Cpu : cons[c].file \in Files <=> cons[c].at \in {"lookup", "persist"}
    /\ live = Cardinality({p \in Io : prod[p].at # "out"})
    /\ inflight \in Int
    /\ readQ \in Seq(Files)
    /\ resultQ \in Seq(Outcomes \X Files)
    /\ assets \subseteq Contents /\ rows \subseteq Files
    /\ main \in {"drain", "join", "over"}
    /\ done \in Nat
    /\ fresh \in [Contents -> Nat]
    /\ stop \in BOOLEAN /\ asked \in BOOLEAN

(***************************************************************************)
(* A file is in one place: waiting, in the hands of one thread, once in    *)
(* one of the queues, or drained.                                          *)
(***************************************************************************)
Queued(q)   == {q[i] : i \in 1 .. Len(q)}
Answered(q) == {q[i][2] : i \in 1 .. Len(q)}
Distinct(q) == \A i, j \in 1 .. Len(q) : q[i] = q[j] => i = j
OnePerFile(q) == \A i, j \in 1 .. Len(q) : q[i][2] = q[j][2] => i = j

OneHolder ==
    /\ \A p, q \in Io : prod[p].file = prod[q].file => p = q \/ prod[p].file = None
    /\ \A c, d \in Cpu : cons[c].file = cons[d].file => c = d \/ cons[c].file = None
    /\ \A p \in Io, c \in Cpu : prod[p].file = cons[c].file => prod[p].file = None

Apart(A, H, R, Q) ==
    A \cap H = {} /\ A \cap R = {} /\ A \cap Q = {} /\ H \cap R = {} /\ H \cap Q = {} /\ R \cap Q = {}

OnePlace ==
    /\ OneHolder
    /\ Distinct(readQ) /\ OnePerFile(resultQ)
    /\ Apart(waiting, Held, Queued(readQ), Answered(resultQ))
    /\ Cardinality(waiting \cup Held) + Len(readQ) + Len(resultQ) + done = Total

\* A content is new once, and then it is an asset.
IsNew(i, x) == resultQ[i][1] = "new" /\ Content[resultQ[i][2]] = x
NewInv ==
    \A x \in Contents :
       /\ fresh[x] <= 1
       /\ \A i \in 1 .. Len(resultQ) : IsNew(i, x) => fresh[x] = 0 /\ x \in assets
       /\ \A i, j \in 1 .. Len(resultQ) : IsNew(i, x) /\ IsNew(j, x) => i = j
       /\ fresh[x] = 1 => x \in assets

IInv == Typed /\ OnePlace /\ BudgetHeld /\ NewInv

(***************************************************************************)
(* Queues: what comes in and what goes out                                 *)
(***************************************************************************)
LEMMA AppendQueue ==
  ASSUME NEW q \in Seq(Files), NEW f \in Files
  PROVE  /\ Append(q, f) \in Seq(Files)
         /\ Len(Append(q, f)) = Len(q) + 1
         /\ Queued(Append(q, f)) = Queued(q) \cup {f}
         /\ Distinct(q) /\ f \notin Queued(q) => Distinct(Append(q, f))
<1> DEFINE r == Append(q, f)
<1>1. /\ r \in Seq(Files) /\ Len(r) = Len(q) + 1 /\ Len(q) \in Nat
      /\ \A i \in 1 .. Len(q) : r[i] = q[i]
      /\ r[Len(q) + 1] = f
  BY AppendProperties
<1> HIDE DEF r
<1>2. \A i \in 1 .. Len(r) : i \in 1 .. Len(q) \/ i = Len(q) + 1
  BY <1>1
<1>3. Len(q) + 1 \in 1 .. Len(r) /\ \A i \in 1 .. Len(q) : i \in 1 .. Len(r)
  BY <1>1
<1>4. Queued(r) = Queued(q) \cup {f}
  BY <1>1, <1>2, <1>3 DEF Queued
<1>5. ASSUME Distinct(q), f \notin Queued(q)
      PROVE  Distinct(r)
  BY <1>1, <1>2, <1>5 DEF Distinct, Queued
<1> QED
  BY <1>1, <1>4, <1>5 DEF r

LEMMA TailQueue ==
  ASSUME NEW q \in Seq(Files), q # <<>>, Distinct(q)
  PROVE  /\ Head(q) \in Files /\ Head(q) \in Queued(q)
         /\ Tail(q) \in Seq(Files)
         /\ Len(Tail(q)) = Len(q) - 1
         /\ Queued(Tail(q)) = Queued(q) \ {Head(q)}
         /\ Distinct(Tail(q))
<1> DEFINE r == Tail(q)
<1>1. /\ Head(q) \in Files /\ r \in Seq(Files) /\ Len(r) = Len(q) - 1 /\ Len(q) \in Nat \ {0}
      /\ \A i \in 1 .. Len(r) : r[i] = q[i + 1]
      /\ Head(q) = q[1]
  BY HeadTailProperties, EmptySeq
<1> HIDE DEF r
<1>2. \A i \in 1 .. Len(r) : i + 1 \in 1 .. Len(q) /\ i + 1 # 1
  BY <1>1
<1>3. \A i \in 1 .. Len(q) : i = 1 \/ (i - 1 \in 1 .. Len(r) /\ q[i] = r[i - 1])
  BY <1>1
<1>4. 1 \in 1 .. Len(q)
  BY <1>1
<1>5. Queued(r) = Queued(q) \ {q[1]}
  <2>1. ASSUME NEW i \in 1 .. Len(r) PROVE r[i] \in Queued(q) /\ r[i] # q[1]
    BY <1>1, <1>2, <1>4, <2>1 DEF Queued, Distinct
  <2>2. ASSUME NEW i \in 1 .. Len(q), q[i] # q[1] PROVE q[i] \in Queued(r)
    BY <1>3, <2>2 DEF Queued
  <2> QED
    BY <2>1, <2>2 DEF Queued
<1>6. Distinct(r)
  <2> SUFFICES ASSUME NEW i \in 1 .. Len(r), NEW j \in 1 .. Len(r), r[i] = r[j]
               PROVE  i = j
    BY DEF Distinct
  <2>1. i + 1 = j + 1
    BY <1>1, <1>2 DEF Distinct
  <2> QED
    BY <1>1, <2>1
<1> QED
  BY <1>1, <1>4, <1>5, <1>6 DEF Queued, r

Results == Outcomes \X Files

LEMMA AppendResult ==
  ASSUME NEW q \in Seq(Results), NEW o \in Outcomes, NEW f \in Files
  PROVE  /\ Append(q, <<o, f>>) \in Seq(Results)
         /\ q \o <<<<o, f>>>> = Append(q, <<o, f>>)
         /\ Len(Append(q, <<o, f>>)) = Len(q) + 1
         /\ \A i \in 1 .. Len(q) : Append(q, <<o, f>>)[i] = q[i]
         /\ Append(q, <<o, f>>)[Len(q) + 1] = <<o, f>>
         /\ Answered(Append(q, <<o, f>>)) = Answered(q) \cup {f}
         /\ OnePerFile(q) /\ f \notin Answered(q) => OnePerFile(Append(q, <<o, f>>))
<1> DEFINE r == Append(q, <<o, f>>)
<1>1. <<o, f>> \in Results /\ <<o, f>>[2] = f
  BY DEF Results
<1>2. /\ r \in Seq(Results) /\ Len(r) = Len(q) + 1 /\ Len(q) \in Nat
      /\ \A i \in 1 .. Len(q) : r[i] = q[i]
      /\ r[Len(q) + 1] = <<o, f>>
      /\ q \o <<<<o, f>>>> = r
  BY <1>1, AppendProperties, AppendIsConcat
<1> HIDE DEF r
<1>3. \A i \in 1 .. Len(r) : i \in 1 .. Len(q) \/ i = Len(q) + 1
  BY <1>2
<1>4. Len(q) + 1 \in 1 .. Len(r) /\ \A i \in 1 .. Len(q) : i \in 1 .. Len(r)
  BY <1>2
<1>5. Answered(r) = Answered(q) \cup {f}
  <2>1. ASSUME NEW i \in 1 .. Len(r) PROVE r[i][2] \in Answered(q) \cup {f}
    BY <1>1, <1>2, <1>3 DEF Answered
  <2>2. ASSUME NEW i \in 1 .. Len(q) PROVE q[i][2] \in Answered(r)
    BY <1>2, <1>4 DEF Answered
  <2>3. f \in Answered(r)
    BY <1>1, <1>2, <1>4 DEF Answered
  <2> QED
    BY <2>1, <2>2, <2>3 DEF Answered
<1>6. ASSUME OnePerFile(q), f \notin Answered(q)
      PROVE  OnePerFile(r)
  BY <1>1, <1>2, <1>3, <1>6 DEF OnePerFile, Answered
<1> QED
  BY <1>2, <1>5, <1>6 DEF r

LEMMA TailResult ==
  ASSUME NEW q \in Seq(Results), q # <<>>, OnePerFile(q)
  PROVE  /\ Head(q) \in Results /\ Head(q) = q[1] /\ 1 \in 1 .. Len(q)
         /\ Tail(q) \in Seq(Results)
         /\ Len(Tail(q)) = Len(q) - 1
         /\ \A i \in 1 .. Len(Tail(q)) : i + 1 \in 1 .. Len(q) /\ Tail(q)[i] = q[i + 1]
         /\ Answered(Tail(q)) \subseteq Answered(q)
         /\ OnePerFile(Tail(q))
<1> DEFINE r == Tail(q)
<1>1. /\ Head(q) \in Results /\ r \in Seq(Results) /\ Len(r) = Len(q) - 1 /\ Len(q) \in Nat \ {0}
      /\ \A i \in 1 .. Len(r) : r[i] = q[i + 1]
      /\ Head(q) = q[1]
  BY HeadTailProperties, EmptySeq
<1> HIDE DEF r
<1>2. \A i \in 1 .. Len(r) : i + 1 \in 1 .. Len(q)
  BY <1>1
<1>3. Answered(r) \subseteq Answered(q)
  BY <1>1, <1>2 DEF Answered
<1>4. OnePerFile(r)
  <2> SUFFICES ASSUME NEW i \in 1 .. Len(r), NEW j \in 1 .. Len(r), r[i][2] = r[j][2]
               PROVE  i = j
    BY DEF OnePerFile
  <2>1. i + 1 = j + 1
    BY <1>1, <1>2 DEF OnePerFile
  <2> QED
    BY <1>1, <2>1
<1> QED
  BY <1>1, <1>2, <1>3, <1>4 DEF r

(***************************************************************************)
(* The bytes of a set of files                                             *)
(***************************************************************************)
LEMMA FilesFacts ==
  /\ IsFiniteSet(Files) /\ None \notin Files
  /\ \A f \in Files : Size[f] \in Nat \ {0}
  /\ \A f \in Files : Content[f] \in Contents
  BY PipelineAssumption DEF None, Contents

LEMMA BytesFinite ==
  ASSUME NEW S \in SUBSET Files
  PROVE  IsFiniteSet(Bytes(S)) /\ Cardinality(Bytes(S)) \in Nat
<1>1. IsFiniteSet(S)
  BY FilesFacts, FS_Subset
<1>2. ASSUME NEW f \in S PROVE IsFiniteSet({f} \X (1 .. Size[f]))
  <2>1. 1 \in Int /\ Size[f] \in Int
    BY FilesFacts
  <2>2. IsFiniteSet(1 .. Size[f]) /\ IsFiniteSet({f})
    BY <2>1, FS_Interval, FS_Singleton
  <2> QED
    BY <2>2, FS_Product
<1>3. IsFiniteSet({{f} \X (1 .. Size[f]) : f \in S})
  <2> DEFINE T == {{f} \X (1 .. Size[f]) : f \in S}
             G == [f \in S |-> {f} \X (1 .. Size[f])]
  <2>1. G \in Surjection(S, T)
    BY DEF Surjection
  <2> HIDE DEF T, G
  <2>2. IsFiniteSet(T)
    BY <1>1, <2>1, FS_Surjection
  <2> QED
    BY <2>2 DEF T
<1>4. IsFiniteSet(Bytes(S))
  BY <1>2, <1>3, FS_UNION DEF Bytes
<1> QED
  BY <1>4, FS_CardinalityType

LEMMA BytesAdd ==
  ASSUME NEW S \in SUBSET Files, NEW f \in Files \ S
  PROVE  Cardinality(Bytes(S \cup {f})) = Cardinality(Bytes(S)) + Size[f]
<1> DEFINE B == {f} \X (1 .. Size[f])
<1>1. IsFiniteSet(B) /\ Cardinality(B) = Size[f]
  <2>1. IsFiniteSet({f}) /\ Cardinality({f}) = 1
    BY FS_Singleton
  <2>2. IsFiniteSet(1 .. Size[f]) /\ Cardinality(1 .. Size[f]) = Size[f]
    <3>1. 1 \in Int /\ Size[f] \in Int /\ Size[f] >= 1
      BY FilesFacts
    <3>2. Cardinality(1 .. Size[f]) = IF 1 > Size[f] THEN 0 ELSE Size[f] - 1 + 1
      BY <3>1, FS_Interval
    <3> QED
      BY <3>1, <3>2, FS_Interval
  <2>3. IsFiniteSet(B) /\ Cardinality(B) = Cardinality({f}) * Cardinality(1 .. Size[f])
    BY <2>1, <2>2, FS_Product
  <2> QED
    BY <2>1, <2>2, <2>3, FilesFacts
<1>2. Bytes(S \cup {f}) = Bytes(S) \cup B
  BY DEF Bytes
<1>3. Bytes(S) \cap B = {}
  BY DEF Bytes
<1>4. Cardinality(Bytes(S) \cup B) = Cardinality(Bytes(S)) + Cardinality(B) - Cardinality({})
  BY <1>1, <1>3, BytesFinite, FS_Union
<1>5. Cardinality({}) = 0 /\ Cardinality(Bytes(S)) \in Nat /\ Size[f] \in Nat
  BY FS_EmptySet, BytesFinite, FilesFacts
<1> HIDE DEF B
<1>6. Cardinality(Bytes(S \cup {f})) = Cardinality(Bytes(S) \cup B)
  BY <1>2, Zenon
<1> QED
  BY <1>1, <1>4, <1>5, <1>6

LEMMA BytesRemove ==
  ASSUME NEW S \in SUBSET Files, NEW f \in S
  PROVE  Cardinality(Bytes(S \ {f})) = Cardinality(Bytes(S)) - Size[f]
<1>1. (S \ {f}) \cup {f} = S /\ S \ {f} \in SUBSET Files /\ f \in Files \ (S \ {f})
  OBVIOUS
<1>2. Cardinality(Bytes(S)) = Cardinality(Bytes(S \ {f})) + Size[f]
  BY <1>1, BytesAdd
<1> QED
  BY <1>1, <1>2, BytesFinite, FilesFacts

LEMMA BytesNone ==
  ASSUME NEW S \in SUBSET Files, Cardinality(Bytes(S)) = 0
  PROVE  S = {}
<1>1. Bytes(S) = {}
  BY BytesFinite, FS_EmptySet
<1>2. ASSUME NEW f \in S PROVE FALSE
  <2>1. 1 \in 1 .. Size[f]
    BY FilesFacts
  <2>2. <<f, 1>> \in Bytes(S)
    BY <2>1 DEF Bytes
  <2> QED
    BY <1>1, <2>2
<1> QED
  BY <1>2

LEMMA DropOne ==
  ASSUME NEW S \in SUBSET Files, NEW f \in S
  PROVE  Cardinality(S \ {f}) = Cardinality(S) - 1 /\ Cardinality(S) \in Nat
<1>1. IsFiniteSet(S)
  BY FilesFacts, FS_Subset
<1> QED
  BY <1>1, FS_RemoveElement, FS_CardinalityType

(***************************************************************************)
(* What a thread's step does to the files in the threads' hands            *)
(***************************************************************************)
InRead == {prod[p].file : p \in Io} \ {None}
InWork == {cons[c].file : c \in Cpu} \ {None}
AtPut  == {prod[p].file : p \in {q \in Io : prod[q].at = "put"}}
Reading == {p \in Io : prod[p].at # "out"}

LEMMA Hands ==
  ASSUME Typed
  PROVE  /\ Held = InRead \cup InWork /\ Held \subseteq Files
         /\ Buffered = Queued(readQ) \cup InWork \cup AtPut
         /\ InRead \subseteq Files /\ InWork \subseteq Files /\ AtPut \subseteq InRead
         /\ Queued(readQ) \subseteq Files /\ Buffered \subseteq Files
<1>1. DOMAIN readQ = 1 .. Len(readQ) /\ \A i \in 1 .. Len(readQ) : readQ[i] \in Files
  BY DEF Typed
<1>2. Queued(readQ) \subseteq Files
  BY <1>1 DEF Queued
<1>3. \A p \in Io : prod[p].file \in Files \cup {None} /\ (prod[p].at = "put" => prod[p].file \in Files)
  BY DEF Typed, ReaderType
<1>4. \A c \in Cpu : cons[c].file \in Files \cup {None}
  BY DEF Typed, WorkerType
<1>5. InRead \subseteq Files /\ InWork \subseteq Files
  BY <1>3, <1>4 DEF InRead, InWork
<1>6. AtPut \subseteq InRead
  BY <1>3, FilesFacts DEF AtPut, InRead
<1>7. Held = InRead \cup InWork
  BY DEF Held, InRead, InWork
<1>8. Buffered = Queued(readQ) \cup InWork \cup AtPut
  BY <1>1 DEF Buffered, Queued, InWork, AtPut
<1> QED
  BY <1>2, <1>5, <1>6, <1>7, <1>8

LEMMA ReaderMoves ==
  ASSUME Typed, OneHolder, NEW p \in Io, NEW at \in {"pick", "read", "admit", "put", "out"},
         NEW f \in Files \cup {None}, Reader(p, at, f), UNCHANGED cons,
         f \in Files <=> at \in {"read", "admit", "put"},
         f \in {None, prod[p].file} \/ f \notin Held
  PROVE  /\ InRead' = (InRead \ {prod[p].file}) \cup ({f} \ {None})
         /\ AtPut' = (AtPut \ {prod[p].file}) \cup (IF at = "put" THEN {f} ELSE {})
         /\ InWork' = InWork
         /\ OneHolder'
         /\ prod' \in [Io -> ReaderType]
         /\ \A q \in Io : prod'[q].file \in Files <=> prod'[q].at \in {"read", "admit", "put"}
         /\ prod[p].at # "out" => Reading' = (IF at = "out" THEN Reading \ {p} ELSE Reading)
<1>1. /\ prod \in [Io -> ReaderType]
      /\ \A q \in Io : prod[q].file \in Files <=> prod[q].at \in {"read", "admit", "put"}
      /\ prod' = [prod EXCEPT ![p] = [at |-> at, file |-> f]]
  BY DEF Typed, Reader
<1>2. [at |-> at, file |-> f] \in ReaderType
  BY DEF ReaderType
<1>3. prod' \in [Io -> ReaderType]
  BY <1>1, <1>2
<1>4. prod'[p].at = at /\ prod'[p].file = f /\ \A q \in Io \ {p} : prod'[q] = prod[q]
  BY <1>1
<1>5. \A q \in Io : prod[q].file \in Files \cup {None}
  BY <1>1 DEF ReaderType
<1>6. \A q \in Io \ {p} : prod[q].file = prod[p].file => prod[q].file = None
  BY DEF OneHolder
<1>7. \A q \in Io : prod'[q].file \in Files <=> prod'[q].at \in {"read", "admit", "put"}
  BY <1>1, <1>4
<1>8. InRead' = (InRead \ {prod[p].file}) \cup ({f} \ {None})
  BY <1>4, <1>5, <1>6 DEF InRead
<1>9. AtPut' = (AtPut \ {prod[p].file}) \cup (IF at = "put" THEN {f} ELSE {})
  <2>1. \A q \in Io \ {p} : prod[q].at = "put" => prod[q].file # prod[p].file
    BY <1>1, <1>6, FilesFacts
  <2> QED
    BY <1>4, <2>1 DEF AtPut
<1>10. InWork' = InWork
  BY DEF InWork
<1>11. \A q \in Io \ {p} : prod[q].file = f => f = None
  BY <1>5, <1>6 DEF Held
<1>12. \A c \in Cpu : cons[c].file = f => f = None
  BY DEF Held, OneHolder
<1>13. OneHolder'
  BY <1>4, <1>11, <1>12 DEF OneHolder
<1>14. prod[p].at # "out" => Reading' = (IF at = "out" THEN Reading \ {p} ELSE Reading)
  BY <1>4 DEF Reading
<1> QED
  BY <1>3, <1>7, <1>8, <1>9, <1>10, <1>13, <1>14

LEMMA WorkerMoves ==
  ASSUME Typed, OneHolder, NEW c \in Cpu,
         NEW at \in {"get", "empty", "lookup", "persist", "out"},
         NEW f \in Files \cup {None}, NEW known \in BOOLEAN, Worker(c, at, f, known),
         UNCHANGED prod, f \in Files <=> at \in {"lookup", "persist"},
         f \in {None, cons[c].file} \/ f \notin Held
  PROVE  /\ InWork' = (InWork \ {cons[c].file}) \cup ({f} \ {None})
         /\ InRead' = InRead /\ AtPut' = AtPut /\ Reading' = Reading
         /\ OneHolder'
         /\ cons' \in [Cpu -> WorkerType]
         /\ \A d \in Cpu : cons'[d].file \in Files <=> cons'[d].at \in {"lookup", "persist"}
<1>1. /\ cons \in [Cpu -> WorkerType]
      /\ \A d \in Cpu : cons[d].file \in Files <=> cons[d].at \in {"lookup", "persist"}
      /\ cons' = [cons EXCEPT ![c] = [at |-> at, file |-> f, known |-> known]]
  BY DEF Typed, Worker
<1>2. [at |-> at, file |-> f, known |-> known] \in WorkerType
  BY DEF WorkerType
<1>3. cons' \in [Cpu -> WorkerType]
  BY <1>1, <1>2
<1>4. cons'[c].at = at /\ cons'[c].file = f /\ \A d \in Cpu \ {c} : cons'[d] = cons[d]
  BY <1>1
<1>5. \A d \in Cpu : cons[d].file \in Files \cup {None}
  BY <1>1 DEF WorkerType
<1>6. \A d \in Cpu \ {c} : cons[d].file = cons[c].file => cons[d].file = None
  BY DEF OneHolder
<1>7. \A d \in Cpu : cons'[d].file \in Files <=> cons'[d].at \in {"lookup", "persist"}
  BY <1>1, <1>4
<1>8. InWork' = (InWork \ {cons[c].file}) \cup ({f} \ {None})
  BY <1>4, <1>5, <1>6 DEF InWork
<1>9. InRead' = InRead /\ AtPut' = AtPut /\ Reading' = Reading
  BY DEF InRead, AtPut, Reading
<1>10. \A d \in Cpu \ {c} : cons[d].file = f => f = None
  BY <1>5, <1>6 DEF Held
<1>11. \A p \in Io : prod[p].file = f => f = None
  BY DEF Held, OneHolder
<1>12. OneHolder'
  BY <1>4, <1>10, <1>11 DEF OneHolder
<1> QED
  BY <1>3, <1>7, <1>8, <1>9, <1>12

LEMMA FirstIsFirst ==
  ASSUME NEW S \in SUBSET Files, S # {}
  PROVE  First(S) \in S
<1> DEFINE R == StrictSubsetOrdering(S)
           Below(x) == {y \in S : y <= x}
           T == {Below(x) : x \in S}
<1>1. S \subseteq Nat /\ IsFiniteSet(S)
  BY PipelineAssumption, FS_Subset
<1>2. T # {} /\ T \subseteq FiniteSubsetsOf(S)
  <2>1. ASSUME NEW x \in S PROVE Below(x) \in SUBSET S /\ IsFiniteSet(Below(x))
    BY <1>1, FS_Subset
  <2> HIDE DEF Below
  <2> QED
    BY <2>1 DEF FiniteSubsetsOf
<1>3. PICK U \in T : \A V \in T : <<V, U>> \notin R
  <2> HIDE DEF R, T
  <2>1. IsWellFoundedOn(R, FiniteSubsetsOf(S))
    BY FS_StrictSubsetOrderingWellFounded DEF R
  <2> QED
    BY <1>2, <2>1, WFMin
<1>4. PICK x \in S : U = Below(x)
  BY <1>3
<1>5. ASSUME NEW y \in S PROVE x <= y
  <2> SUFFICES ASSUME y < x PROVE FALSE
    BY <1>1
  <2> x \in Nat /\ y \in Nat /\ \A z \in S : z \in Nat
    BY <1>1
  <2>1. Below(y) \subseteq Below(x) /\ x \in Below(x)
    <3>1. ASSUME NEW z \in S, z <= y PROVE z <= x
      BY <3>1
    <3>2. x <= x
      OBVIOUS
    <3>3. Below(y) \subseteq Below(x)
      BY <3>1, Zenon
    <3> QED
      BY <3>2, <3>3, Zenon
  <2>3. x \notin Below(y)
    OBVIOUS
  <2>2. <<Below(y), U>> \in R
    BY <1>4, <2>1, <2>3 DEF StrictSubsetOrdering
  <2> QED
    BY <1>3, <2>2
<1> QED
  BY <1>5 DEF First

(***************************************************************************)
(* The byte budget                                                         *)
(***************************************************************************)
LEMMA BudgetTakes ==
  ASSUME Typed, BudgetHeld, NEW f \in Files \ Buffered, Admits(Size[f]),
         Buffered' = Buffered \cup {f}, inflight' = inflight + Size[f]
  PROVE  BudgetHeld'
<1>1. Buffered \in SUBSET Files /\ inflight = Cardinality(Bytes(Buffered))
  BY Hands DEF BudgetHeld
<1>2. inflight' = Cardinality(Bytes(Buffered'))
  BY <1>1, BytesAdd
<1>3. CASE inflight = 0
  <2>1. Buffered' = {f}
    BY <1>1, <1>3, BytesNone
  <2> QED
    BY <1>2, <2>1, FS_Singleton DEF BudgetHeld, Bytes
<1>4. CASE inflight + Size[f] <= Budget
  BY <1>2, <1>4 DEF BudgetHeld, Bytes
<1> QED
  BY <1>3, <1>4 DEF Admits

LEMMA BudgetGives ==
  ASSUME Typed, BudgetHeld, NEW f \in Buffered,
         Buffered' = Buffered \ {f}, inflight' = inflight - Size[f]
  PROVE  BudgetHeld'
<1>1. /\ Buffered \in SUBSET Files /\ inflight = Cardinality(Bytes(Buffered)) /\ f \in Files
      /\ Size[f] \in Nat /\ inflight \in Nat /\ Budget \in Nat
  BY Hands, BytesFinite, FilesFacts, PipelineAssumption DEF BudgetHeld
<1>2. inflight' = Cardinality(Bytes(Buffered'))
  BY <1>1, BytesRemove
<1>3. CASE inflight <= Budget
  <2>1. inflight' <= Budget
    BY <1>1, <1>3
  <2> QED
    BY <1>2, <2>1 DEF BudgetHeld, Bytes
<1>4. CASE Cardinality(Buffered) = 1
  <2>1. Buffered = {f}
    <3>1. IsFiniteSet(Buffered)
      BY <1>1, FilesFacts, FS_Subset
    <3> QED
      BY <1>4, <3>1, FS_Singleton
  <2>2. Buffered' = {} /\ Bytes({}) = {}
    BY <2>1 DEF Bytes
  <2>3. inflight' <= Budget
    BY <1>1, <1>2, <2>2, FS_EmptySet
  <2> QED
    BY <1>2, <2>3 DEF BudgetHeld, Bytes
<1> QED
  BY <1>3, <1>4 DEF BudgetHeld

LEMMA BudgetSame ==
  ASSUME BudgetHeld, Buffered' = Buffered, UNCHANGED inflight
  PROVE  BudgetHeld'
BY DEF BudgetHeld, Bytes

(***************************************************************************)
(* New contents                                                            *)
(***************************************************************************)
LEMMA NewSame ==
  ASSUME NewInv, UNCHANGED <<resultQ, fresh>>, assets \subseteq assets'
  PROVE  NewInv'
BY DEF NewInv, IsNew

LEMMA NewNothing ==
  ASSUME Typed, NewInv, NEW o \in {"errors", "exact_dup"}, NEW f \in Files,
         resultQ' = Append(resultQ, <<o, f>>), UNCHANGED fresh, assets \subseteq assets'
  PROVE  NewInv'
<1>1. resultQ \in Seq(Results) /\ o \in Outcomes /\ <<o, f>>[1] = o /\ o # "new"
  BY DEF Typed, Results, Outcomes
<1>2. /\ \A i \in 1 .. Len(resultQ) : resultQ'[i] = resultQ[i]
      /\ resultQ'[Len(resultQ) + 1] = <<o, f>>
      /\ Len(resultQ') = Len(resultQ) + 1 /\ Len(resultQ) \in Nat
  BY <1>1, AppendResult
<1>3. \A i \in 1 .. Len(resultQ') : i \in 1 .. Len(resultQ) \/ i = Len(resultQ) + 1
  BY <1>2
<1>4. ASSUME NEW x, NEW i \in 1 .. Len(resultQ'), IsNew(i, x)'
      PROVE  i \in 1 .. Len(resultQ) /\ IsNew(i, x)
  BY <1>1, <1>2, <1>3, <1>4 DEF IsNew
<1> QED
  BY <1>4 DEF NewInv

LEMMA NewCreated ==
  ASSUME Typed, NewInv, NEW f \in Files, Content[f] \notin assets,
         resultQ' = Append(resultQ, <<"new", f>>), UNCHANGED fresh,
         assets' = assets \cup {Content[f]}
  PROVE  NewInv'
<1>1. resultQ \in Seq(Results) /\ "new" \in Outcomes /\ <<"new", f>>[2] = f
  BY DEF Typed, Results, Outcomes
<1>2. /\ \A i \in 1 .. Len(resultQ) : resultQ'[i] = resultQ[i]
      /\ resultQ'[Len(resultQ) + 1] = <<"new", f>>
      /\ Len(resultQ') = Len(resultQ) + 1 /\ Len(resultQ) \in Nat
  BY <1>1, AppendResult
<1>3. \A i \in 1 .. Len(resultQ') : i \in 1 .. Len(resultQ) \/ i = Len(resultQ) + 1
  BY <1>2
<1>4. ASSUME NEW x, NEW i \in 1 .. Len(resultQ'), IsNew(i, x)'
      PROVE  \/ i \in 1 .. Len(resultQ) /\ IsNew(i, x)
             \/ i = Len(resultQ) + 1 /\ x = Content[f]
  <2>1. CASE i \in 1 .. Len(resultQ)
    BY <1>2, <1>4, <2>1 DEF IsNew
  <2>2. CASE i = Len(resultQ) + 1
    BY <1>1, <1>2, <1>4, <2>2 DEF IsNew
  <2> QED
    BY <1>3, <2>1, <2>2
<1>5. Content[f] \in Contents /\ fresh[Content[f]] = 0
  <2>1. Content[f] \in Contents
    BY FilesFacts
  <2>2. fresh[Content[f]] \in Nat /\ fresh[Content[f]] <= 1 /\ fresh[Content[f]] # 1
    BY <2>1 DEF NewInv, Typed
  <2> QED
    BY <2>1, <2>2
<1>6. \A i \in 1 .. Len(resultQ) : ~IsNew(i, Content[f])
  BY <1>5 DEF NewInv
<1>7. ASSUME NEW x \in Contents
      PROVE  /\ fresh'[x] <= 1
             /\ \A i \in 1 .. Len(resultQ') : IsNew(i, x)' => fresh'[x] = 0 /\ x \in assets'
             /\ \A i, j \in 1 .. Len(resultQ') : IsNew(i, x)' /\ IsNew(j, x)' => i = j
             /\ fresh'[x] = 1 => x \in assets'
  BY <1>4, <1>5, <1>6 DEF NewInv
<1> QED
  BY <1>7 DEF NewInv

LEMMA NewDrained ==
  ASSUME Typed, NewInv, resultQ # <<>>, OnePerFile(resultQ), resultQ' = Tail(resultQ),
         fresh' = IF Head(resultQ)[1] = "new"
                  THEN [fresh EXCEPT ![Content[Head(resultQ)[2]]] = @ + 1] ELSE fresh,
         UNCHANGED assets
  PROVE  NewInv' /\ fresh' \in [Contents -> Nat]
<1>1. resultQ \in Seq(Results)
  BY DEF Typed, Results
<1>2. /\ Head(resultQ) \in Results /\ Head(resultQ) = resultQ[1] /\ 1 \in 1 .. Len(resultQ)
      /\ \A i \in 1 .. Len(resultQ') : i + 1 \in 1 .. Len(resultQ) /\ resultQ'[i] = resultQ[i + 1]
  BY <1>1, TailResult
<1>3. Content[Head(resultQ)[2]] \in Contents
  BY <1>2, FilesFacts DEF Results
<1>4. ASSUME NEW x, NEW i \in 1 .. Len(resultQ'), IsNew(i, x)'
      PROVE  i + 1 \in 1 .. Len(resultQ) /\ IsNew(i + 1, x)
  BY <1>2, <1>4 DEF IsNew
<1>5. fresh \in [Contents -> Nat]
  BY DEF Typed
<1>6. fresh' \in [Contents -> Nat]
  BY <1>3, <1>5
<1>7. ASSUME NEW x \in Contents
      PROVE  \/ fresh'[x] = fresh[x] /\ ~IsNew(1, x)
             \/ fresh'[x] = fresh[x] + 1 /\ IsNew(1, x)
  BY <1>2, <1>3, <1>5 DEF IsNew
<1>8. ASSUME NEW x \in Contents
      PROVE  /\ fresh'[x] <= 1
             /\ \A i \in 1 .. Len(resultQ') : IsNew(i, x)' => fresh'[x] = 0 /\ x \in assets'
             /\ \A i, j \in 1 .. Len(resultQ') : IsNew(i, x)' /\ IsNew(j, x)' => i = j
             /\ fresh'[x] = 1 => x \in assets'
  <2>1. fresh[x] \in Nat
    BY <1>5
  <2>2. CASE fresh'[x] = fresh[x] /\ ~IsNew(1, x)
    <3>1. ASSUME NEW i \in 1 .. Len(resultQ'), NEW j \in 1 .. Len(resultQ'), IsNew(i, x)', IsNew(j, x)'
          PROVE  i = j
      <4>1. i + 1 = j + 1
        BY <1>4, <3>1 DEF NewInv
      <4> QED
        BY <4>1
    <3> QED
      BY <1>4, <2>2, <3>1 DEF NewInv
  <2>3. CASE fresh'[x] = fresh[x] + 1 /\ IsNew(1, x)
    <3>1. fresh[x] = 0 /\ x \in assets
      BY <1>2, <2>3 DEF NewInv
    <3>2. ASSUME NEW i \in 1 .. Len(resultQ'), IsNew(i, x)' PROVE FALSE
      <4>1. i + 1 = 1
        BY <1>2, <1>4, <2>3, <3>2 DEF NewInv
      <4> QED
        BY <4>1
    <3> QED
      BY <2>3, <3>1, <3>2
  <2> QED
    BY <1>7, <2>2, <2>3
<1> QED
  BY <1>6, <1>8 DEF NewInv

(***************************************************************************)
(* Every file stays in one place                                           *)
(***************************************************************************)
LEMMA HandsNext ==
  ASSUME readQ' \in Seq(Files)
  PROVE  /\ Held' = InRead' \cup InWork'
         /\ Buffered' = Queued(readQ') \cup InWork' \cup AtPut'
<1>1. DOMAIN readQ' = 1 .. Len(readQ')
  OBVIOUS
<1>2. Held' = InRead' \cup InWork'
  BY DEF Held, InRead, InWork
<1> QED
  BY <1>1, <1>2 DEF Buffered, Queued, InWork, AtPut

LEMMA PlaceSame ==
  ASSUME OnePlace, OneHolder', Held' = Held, UNCHANGED <<waiting, readQ, resultQ, done>>
  PROVE  OnePlace'
BY DEF OnePlace

LEMMA PlaceAnswers ==
  ASSUME Typed, OnePlace, OneHolder', NEW f \in Held, Held' = Held \ {f},
         NEW o \in Outcomes, resultQ' = Append(resultQ, <<o, f>>),
         UNCHANGED <<waiting, readQ, done>>
  PROVE  OnePlace' /\ resultQ' \in Seq(Outcomes \X Files)
<1>1. f \in Files /\ resultQ \in Seq(Results) /\ waiting \cup Held \in SUBSET Files
  BY Hands DEF Typed, Results
<1>2. /\ Apart(waiting, Held, Queued(readQ), Answered(resultQ))
      /\ Distinct(readQ) /\ OnePerFile(resultQ)
      /\ Cardinality(waiting \cup Held) + Len(readQ) + Len(resultQ) + done = Total
  BY DEF OnePlace
<1>3. f \notin waiting /\ f \notin Answered(resultQ) /\ f \notin Queued(readQ)
  BY <1>2 DEF Apart
<1>4. /\ resultQ' \in Seq(Results) /\ Len(resultQ') = Len(resultQ) + 1
      /\ Answered(resultQ') = Answered(resultQ) \cup {f}
      /\ OnePerFile(resultQ')
  BY <1>1, <1>2, <1>3, AppendResult
<1>5. Apart(waiting', Held', Queued(readQ'), Answered(resultQ'))
  BY <1>2, <1>3, <1>4 DEF Apart
<1>6. Cardinality(waiting' \cup Held') + Len(readQ') + Len(resultQ') + done' = Total
  <2>1. waiting' \cup Held' = (waiting \cup Held) \ {f}
    BY <1>3
  <2>2. /\ Cardinality((waiting \cup Held) \ {f}) = Cardinality(waiting \cup Held) - 1
        /\ Cardinality(waiting \cup Held) \in Nat
    BY <1>1, DropOne
  <2>3. Len(readQ) \in Nat /\ Len(resultQ) \in Nat /\ done \in Nat
    BY DEF Typed
  <2>4. Cardinality(waiting' \cup Held') = Cardinality(waiting \cup Held) - 1
    BY <2>1, <2>2, Zenon
  <2>5. /\ Cardinality(waiting \cup Held) \in Nat
        /\ Cardinality(waiting \cup Held) + Len(readQ) + Len(resultQ) + done = Total
    BY <1>2, <2>2
  <2>6. /\ Len(readQ') + Len(resultQ') = Len(readQ) + Len(resultQ) + 1
        /\ Len(readQ') \in Nat /\ Len(resultQ') \in Nat /\ done' = done
    BY <1>4, <2>3
  <2> QED
    BY ONLY <2>3, <2>4, <2>5, <2>6
<1> QED
  BY <1>2, <1>4, <1>5, <1>6 DEF OnePlace, Results

\* from what waits to a reader's hands
LEMMA PlaceTakes ==
  ASSUME OnePlace, OneHolder', NEW f \in waiting, Held' = Held \cup {f},
         waiting' = waiting \ {f}, UNCHANGED <<readQ, resultQ, done>>
  PROVE  OnePlace'
<1>1. waiting' \cup Held' = waiting \cup Held
  OBVIOUS
<1>2. Apart(waiting', Held', Queued(readQ'), Answered(resultQ'))
  BY DEF OnePlace, Apart
<1> QED
  BY <1>1, <1>2 DEF OnePlace

LEMMA PlacePuts ==
  ASSUME Typed, OnePlace, OneHolder', NEW f \in Held, Held' = Held \ {f},
         readQ' = Append(readQ, f), UNCHANGED <<waiting, resultQ, done>>
  PROVE  OnePlace' /\ readQ' \in Seq(Files) /\ Queued(readQ') = Queued(readQ) \cup {f}
<1>1. f \in Files /\ readQ \in Seq(Files) /\ waiting \cup Held \in SUBSET Files
  BY Hands DEF Typed
<1>2. /\ Apart(waiting, Held, Queued(readQ), Answered(resultQ))
      /\ Distinct(readQ) /\ OnePerFile(resultQ)
      /\ Cardinality(waiting \cup Held) + Len(readQ) + Len(resultQ) + done = Total
  BY DEF OnePlace
<1>3. f \notin waiting /\ f \notin Answered(resultQ) /\ f \notin Queued(readQ)
  BY <1>2 DEF Apart
<1>4. /\ readQ' \in Seq(Files) /\ Len(readQ') = Len(readQ) + 1
      /\ Queued(readQ') = Queued(readQ) \cup {f}
      /\ Distinct(readQ')
  BY <1>1, <1>2, <1>3, AppendQueue
<1>5. Apart(waiting', Held', Queued(readQ'), Answered(resultQ'))
  BY <1>2, <1>3, <1>4 DEF Apart
<1>6. Cardinality(waiting' \cup Held') + Len(readQ') + Len(resultQ') + done' = Total
  <2>1. waiting' \cup Held' = (waiting \cup Held) \ {f}
    BY <1>3
  <2>2. /\ Cardinality((waiting \cup Held) \ {f}) = Cardinality(waiting \cup Held) - 1
        /\ Cardinality(waiting \cup Held) \in Nat
    BY <1>1, DropOne
  <2>3. Len(readQ) \in Nat /\ Len(resultQ) \in Nat /\ done \in Nat
    BY DEF Typed
  <2>4. Cardinality(waiting' \cup Held') = Cardinality(waiting \cup Held) - 1
    BY <2>1, <2>2, Zenon
  <2>5. /\ Cardinality(waiting \cup Held) \in Nat
        /\ Cardinality(waiting \cup Held) + Len(readQ) + Len(resultQ) + done = Total
    BY <1>2, <2>2
  <2>6. /\ Len(readQ') + Len(resultQ') = Len(readQ) + Len(resultQ) + 1
        /\ Len(readQ') \in Nat /\ Len(resultQ') \in Nat /\ done' = done
    BY <1>4, <2>3
  <2> QED
    BY ONLY <2>3, <2>4, <2>5, <2>6
<1> QED
  BY <1>2, <1>4, <1>5, <1>6 DEF OnePlace

LEMMA PlaceGets ==
  ASSUME Typed, OnePlace, OneHolder', readQ # <<>>, Held' = Held \cup {Head(readQ)},
         readQ' = Tail(readQ), UNCHANGED <<waiting, resultQ, done>>
  PROVE  OnePlace'
<1> DEFINE f == Head(readQ)
<1>1. readQ \in Seq(Files) /\ waiting \cup Held \subseteq Files
  BY Hands DEF Typed
<1>2. /\ Apart(waiting, Held, Queued(readQ), Answered(resultQ))
      /\ Distinct(readQ) /\ OnePerFile(resultQ)
      /\ Cardinality(waiting \cup Held) + Len(readQ) + Len(resultQ) + done = Total
  BY DEF OnePlace
<1>3. /\ f \in Files /\ f \in Queued(readQ)
      /\ readQ' \in Seq(Files) /\ Len(readQ') = Len(readQ) - 1
      /\ Queued(readQ') = Queued(readQ) \ {f}
      /\ Distinct(readQ')
  BY <1>1, <1>2, TailQueue
<1> HIDE DEF f
<1>4. f \notin waiting /\ f \notin Held /\ f \notin Answered(resultQ) /\ Held' = Held \cup {f}
  BY <1>2, <1>3 DEF Apart, f
<1>5. Apart(waiting', Held', Queued(readQ'), Answered(resultQ'))
  BY <1>2, <1>3, <1>4 DEF Apart
<1>6. Cardinality(waiting' \cup Held') + Len(readQ') + Len(resultQ') + done' = Total
  <2>1. waiting \cup Held = (waiting' \cup Held') \ {f} /\ f \in waiting' \cup Held'
    BY <1>4
  <2>2. waiting' \cup Held' \in SUBSET Files
    BY <1>1, <1>3, <1>4
  <2>3. /\ Cardinality(waiting \cup Held) = Cardinality(waiting' \cup Held') - 1
        /\ Cardinality(waiting' \cup Held') \in Nat
    BY <2>1, <2>2, DropOne
  <2>4. Len(readQ) \in Nat /\ Len(resultQ) \in Nat /\ done \in Nat
    BY DEF Typed
  <2> QED
    BY <1>2, <1>3, <2>3, <2>4
<1> QED
  BY <1>2, <1>3, <1>5, <1>6 DEF OnePlace

LEMMA PlaceDrains ==
  ASSUME Typed, OnePlace, resultQ # <<>>, resultQ' = Tail(resultQ), done' = done + 1,
         UNCHANGED <<waiting, prod, cons, readQ>>
  PROVE  OnePlace' /\ resultQ' \in Seq(Outcomes \X Files)
<1>1. resultQ \in Seq(Results)
  BY DEF Typed, Results
<1>2. /\ Apart(waiting, Held, Queued(readQ), Answered(resultQ))
      /\ Distinct(readQ) /\ OnePerFile(resultQ)
      /\ Cardinality(waiting \cup Held) + Len(readQ) + Len(resultQ) + done = Total
  BY DEF OnePlace
<1>3. /\ resultQ' \in Seq(Results) /\ Len(resultQ') = Len(resultQ) - 1
      /\ Answered(resultQ') \subseteq Answered(resultQ) /\ OnePerFile(resultQ')
  BY <1>1, <1>2, TailResult
<1>4. Held' = Held /\ OneHolder'
  BY DEF Held, OneHolder, OnePlace
<1>5. Apart(waiting', Held', Queued(readQ'), Answered(resultQ'))
  BY <1>2, <1>3, <1>4 DEF Apart
<1>6. Cardinality(waiting' \cup Held') + Len(readQ') + Len(resultQ') + done' = Total
  <2>1. Len(readQ) \in Nat /\ Len(resultQ) \in Nat /\ done \in Nat
    BY DEF Typed
  <2>2. waiting \cup Held \in SUBSET Files
    BY Hands DEF Typed
  <2>3. Cardinality(waiting \cup Held) \in Nat
    BY <2>2, FilesFacts, FS_Subset, FS_CardinalityType
  <2> QED
    BY <1>2, <1>3, <1>4, <2>1, <2>3
<1> QED
  BY <1>2, <1>3, <1>4, <1>5, <1>6 DEF OnePlace, Results

(***************************************************************************)
(* The initial state, and one lemma for each step                          *)
(***************************************************************************)
LEMMA InitHolds ==
  ASSUME Init
  PROVE  IInv
<1>1. Typed
  <2>1. {p \in Io : prod[p].at # "out"} = Io
    BY DEF Init
  <2>2. live = Cardinality({p \in Io : prod[p].at # "out"})
    BY <2>1 DEF Init
  <2>3. prod \in [Io -> ReaderType] /\ cons \in [Cpu -> WorkerType]
    BY DEF Init, ReaderType, WorkerType
  <2>4. /\ \A p \in Io : prod[p].file = None /\ prod[p].at = "pick"
        /\ \A c \in Cpu : cons[c].file = None /\ cons[c].at = "get"
    BY DEF Init
  <2>6. /\ \A p \in Io : prod[p].file \in Files <=> prod[p].at \in {"read", "admit", "put"}
        /\ \A c \in Cpu : cons[c].file \in Files <=> cons[c].at \in {"lookup", "persist"}
    BY <2>4, FilesFacts
  <2>7. /\ waiting \subseteq Files /\ inflight \in Int /\ assets \subseteq Contents
        /\ rows \subseteq Files /\ main \in {"drain", "join", "over"} /\ done \in Nat
        /\ stop \in BOOLEAN /\ asked \in BOOLEAN
    <3>1. waiting = Files /\ inflight = 0 /\ rows = {} /\ main = "drain" /\ done = 0
      BY DEF Init
    <3>2. assets \subseteq Contents /\ stop \in BOOLEAN /\ asked \in BOOLEAN
      BY Zenon DEF Init
    <3>3. waiting \subseteq Files /\ inflight \in Int /\ rows \subseteq Files /\ done \in Nat
      BY <3>1
    <3> QED
      BY <3>1, <3>2, <3>3
  <2>5. readQ \in Seq(Files) /\ resultQ \in Seq(Outcomes \X Files) /\ fresh \in [Contents -> Nat]
    BY DEF Init
  <2> QED
    BY <2>2, <2>3, <2>5, <2>6, <2>7 DEF Typed
<1>2. Held = {} /\ Buffered = {} /\ Queued(readQ) = {} /\ Answered(resultQ) = {}
  BY DEF Init, Held, Buffered, Queued, Answered
<1>3. OnePlace
  <2>1. waiting \cup Held = Files
    BY <1>2 DEF Init
  <2>2. Cardinality(Files) \in Nat
    BY FilesFacts, FS_CardinalityType
  <2>4. Cardinality(waiting \cup Held) = Total
    BY <2>1, Zenon DEF Total
  <2>5. Len(readQ) = 0 /\ Len(resultQ) = 0 /\ done = 0
    BY DEF Init
  <2>3. Cardinality(waiting \cup Held) + Len(readQ) + Len(resultQ) + done = Total
    BY <2>2, <2>4, <2>5 DEF Total
  <2> QED
    BY <1>2, <2>3 DEF Init, OnePlace, OneHolder, Distinct, OnePerFile, Apart
<1>4. BudgetHeld
  <2>1. Bytes(Buffered) = {}
    BY <1>2 DEF Bytes
  <2>2. inflight = 0 /\ inflight <= Budget
    BY PipelineAssumption DEF Init
  <2> QED
    BY <2>1, <2>2, FS_EmptySet DEF BudgetHeld
<1>5. NewInv
  BY DEF Init, NewInv, IsNew
<1> QED
  BY <1>1, <1>3, <1>4, <1>5 DEF IInv

LEMMA ReadersCounted ==
  ASSUME Typed, NEW p \in Io, prod[p].at # "out"
  PROVE  /\ live = Cardinality(Reading)
         /\ Cardinality(Reading \ {p}) = live - 1
<1>1. IsFiniteSet(Reading) /\ p \in Reading
  BY PipelineAssumption, FS_Subset DEF Reading
<1> QED
  BY <1>1, FS_RemoveElement DEF Typed, Reading

LEMMA PickKeeps ==
  ASSUME IInv, NEW p \in Io, Pick(p)
  PROVE  IInv'
<1> DEFINE f == First(waiting)
<1>1. Typed /\ OnePlace /\ OneHolder /\ NewInv /\ BudgetHeld
  BY DEF IInv, OnePlace
<1>2. f \in waiting /\ f \in Files
  BY <1>1, FirstIsFirst DEF Typed, Pick
<1> HIDE DEF f
<1>3. /\ prod[p].at = "pick" /\ Reader(p, "read", f) /\ waiting' = waiting \ {f}
      /\ UNCHANGED <<live, inflight, readQ, cons, assets, rows, resultQ, main, done, fresh,
                     stop, asked>>
  BY DEF Pick, f, workers, catalog, drain
<1>4. prod[p].file = None
  BY <1>1, <1>3 DEF Typed, ReaderType
<1>5. f \notin Held
  BY <1>1, <1>2 DEF OnePlace, Apart
<1>6. /\ InRead' = (InRead \ {prod[p].file}) \cup ({f} \ {None})
      /\ AtPut' = AtPut \ {prod[p].file} /\ InWork' = InWork
      /\ OneHolder' /\ prod' \in [Io -> ReaderType] /\ Reading' = Reading
      /\ \A q \in Io : prod'[q].file \in Files <=> prod'[q].at \in {"read", "admit", "put"}
  BY <1>1, <1>2, <1>3, <1>5, ReaderMoves
<1>7. readQ' \in Seq(Files)
  BY <1>1, <1>3 DEF Typed
<1>8. Held' = Held \cup {f} /\ Buffered' = Buffered
  <2>1. None \notin InRead /\ None \notin AtPut /\ f # None
    BY <1>1, <1>2, Hands, FilesFacts
  <2>2. InRead' = InRead \cup {f} /\ AtPut' = AtPut
    BY <1>4, <1>6, <2>1
  <2> QED
    BY <1>1, <1>3, <1>6, <1>7, <2>2, Hands, HandsNext
<1>9. Typed'
  BY <1>1, <1>3, <1>6 DEF Typed, Reading
<1> QED
  BY <1>1, <1>2, <1>3, <1>6, <1>8, <1>9, PlaceTakes, BudgetSame, NewSame DEF IInv

LEMMA LeaveKeeps ==
  ASSUME IInv, NEW p \in Io, Leave(p)
  PROVE  IInv'
<1>1. Typed /\ OnePlace /\ OneHolder /\ NewInv /\ BudgetHeld
  BY DEF IInv, OnePlace
<1>2. /\ prod[p].at = "pick" /\ Reader(p, "out", None) /\ live' = live - 1
      /\ UNCHANGED <<waiting, inflight, readQ, cons, assets, rows, resultQ, main, done, fresh,
                     stop, asked>>
  BY DEF Leave, workers, catalog, drain
<1>3. prod[p].file = None
  BY <1>1, <1>2 DEF Typed, ReaderType
<1>4. /\ InRead' = (InRead \ {prod[p].file}) \cup ({None} \ {None})
      /\ AtPut' = AtPut \ {prod[p].file} /\ InWork' = InWork
      /\ OneHolder' /\ prod' \in [Io -> ReaderType] /\ Reading' = Reading \ {p}
      /\ \A q \in Io : prod'[q].file \in Files <=> prod'[q].at \in {"read", "admit", "put"}
  BY <1>1, <1>2, FilesFacts, ReaderMoves
<1>5. Held' = Held /\ Buffered' = Buffered
  <2>1. None \notin InRead /\ None \notin AtPut /\ readQ' \in Seq(Files)
    BY <1>1, <1>2, Hands, FilesFacts DEF Typed
  <2>2. InRead' = InRead /\ AtPut' = AtPut
    BY <1>3, <1>4, <2>1
  <2> QED
    BY <1>1, <1>2, <1>4, <2>1, <2>2, Hands, HandsNext
<1>6. live' = Cardinality(Reading')
  <2>1. prod[p].at # "out"
    BY <1>2
  <2>2. Cardinality(Reading \ {p}) = live - 1
    BY <1>1, <2>1, ReadersCounted
  <2> QED
    BY <1>2, <1>4, <2>2, Zenon
<1>7. Typed'
  BY <1>1, <1>2, <1>4, <1>6 DEF Typed, Reading
<1> QED
  BY <1>1, <1>2, <1>4, <1>5, <1>7, PlaceSame, BudgetSame, NewSame DEF IInv

LEMMA ReadFileKeeps ==
  ASSUME IInv, NEW p \in Io, ReadFile(p)
  PROVE  IInv'
<1> DEFINE f == prod[p].file
<1>1. Typed /\ OnePlace /\ OneHolder /\ NewInv /\ BudgetHeld
  BY DEF IInv, OnePlace
<1>2. /\ prod[p].at = "read" /\ Reader(p, "admit", f)
      /\ UNCHANGED <<waiting, live, inflight, readQ, cons, assets, rows, resultQ, main, done,
                     fresh, stop, asked>>
  BY DEF ReadFile, workers, catalog, drain
<1>3. f \in Files
  BY <1>1, <1>2 DEF Typed
<1>4. /\ InRead' = (InRead \ {f}) \cup ({f} \ {None})
      /\ AtPut' = AtPut \ {f} /\ InWork' = InWork
      /\ OneHolder' /\ prod' \in [Io -> ReaderType] /\ Reading' = Reading
      /\ \A q \in Io : prod'[q].file \in Files <=> prod'[q].at \in {"read", "admit", "put"}
  BY <1>1, <1>2, <1>3, ReaderMoves
<1>5. f \in InRead /\ f \notin AtPut /\ f # None
  <2>1. \A q \in Io : prod[q].file = f => q = p
    BY <1>1, <1>3, FilesFacts DEF OneHolder
  <2> QED
    BY <1>2, <1>3, <2>1, FilesFacts DEF InRead, AtPut
<1>6. Held' = Held /\ Buffered' = Buffered
  <2>1. InRead' = InRead /\ AtPut' = AtPut /\ readQ' \in Seq(Files)
    BY <1>1, <1>2, <1>4, <1>5 DEF Typed
  <2> QED
    BY <1>1, <1>2, <1>4, <2>1, Hands, HandsNext
<1>7. Typed'
  BY <1>1, <1>2, <1>4 DEF Typed, Reading
<1> QED
  BY <1>1, <1>2, <1>4, <1>6, <1>7, PlaceSame, BudgetSame, NewSame DEF IInv

\* a reader that gives its file up with an error result
LEMMA GivesUp ==
  ASSUME IInv, NEW p \in Io, prod[p].at \in {"read", "admit"}, Reader(p, "pick", None),
         resultQ' = resultQ \o Failure(prod[p].file),
         UNCHANGED <<waiting, live, inflight, readQ, cons, assets, rows, main, done, fresh,
                     stop, asked>>
  PROVE  IInv'
<1> DEFINE f == prod[p].file
<1>1. Typed /\ OnePlace /\ OneHolder /\ NewInv /\ BudgetHeld
  BY DEF IInv, OnePlace
<1>2. f \in Files /\ resultQ \in Seq(Results) /\ "errors" \in Outcomes
  BY <1>1 DEF Typed, Results, Outcomes
<1>3. resultQ' = Append(resultQ, <<"errors", f>>)
  BY <1>2, AppendResult DEF Failure
<1>4. /\ InRead' = (InRead \ {f}) \cup ({None} \ {None})
      /\ AtPut' = AtPut \ {f} /\ InWork' = InWork
      /\ OneHolder' /\ prod' \in [Io -> ReaderType] /\ Reading' = Reading
      /\ \A q \in Io : prod'[q].file \in Files <=> prod'[q].at \in {"read", "admit", "put"}
  BY <1>1, FilesFacts, ReaderMoves
<1>5. f \in InRead /\ f \notin AtPut /\ f \notin InWork
  <2>1. \A q \in Io : prod[q].file = f => q = p
    BY <1>1, <1>2, FilesFacts DEF OneHolder
  <2>2. \A c \in Cpu : cons[c].file # f
    BY <1>1, <1>2, FilesFacts DEF OneHolder
  <2> QED
    BY <1>2, <2>1, <2>2, FilesFacts DEF InRead, AtPut, InWork
<1>6. f \in Held /\ Held' = Held \ {f} /\ Buffered' = Buffered
  <2>1. InRead' = InRead \ {f} /\ AtPut' = AtPut /\ readQ' \in Seq(Files)
    BY <1>1, <1>4, <1>5 DEF Typed
  <2> HIDE DEF f
  <2> QED
    BY <1>1, <1>4, <1>5, <2>1, Hands, HandsNext
<1>7. OnePlace' /\ resultQ' \in Seq(Outcomes \X Files)
  BY <1>1, <1>2, <1>3, <1>4, <1>6, PlaceAnswers
<1>8. Typed'
  BY <1>1, <1>4, <1>7 DEF Typed, Reading
<1>9. NewInv'
  BY <1>1, <1>2, <1>3, NewNothing
<1> QED
  BY <1>1, <1>6, <1>7, <1>8, <1>9, BudgetSame DEF IInv

LEMMA ReadFailsKeeps ==
  ASSUME IInv, NEW p \in Io, ReadFails(p)
  PROVE  IInv'
BY GivesUp DEF ReadFails, workers, catalog, drain

LEMMA AdmitKeeps ==
  ASSUME IInv, NEW p \in Io, Admit(p)
  PROVE  IInv'
<1> DEFINE f == prod[p].file
<1>1. Typed /\ OnePlace /\ OneHolder /\ NewInv /\ BudgetHeld
  BY DEF IInv, OnePlace
<1>2. CASE stop
  BY <1>2, GivesUp DEF Admit, workers, catalog, drain
<1>3. CASE ~stop
  <2>1. /\ prod[p].at = "admit" /\ Reader(p, "put", f) /\ Admits(Size[f])
        /\ inflight' = inflight + Size[f]
        /\ UNCHANGED <<waiting, live, readQ, cons, assets, rows, resultQ, main, done, fresh,
                       stop, asked>>
    BY <1>3 DEF Admit, workers, catalog, drain
  <2>2. f \in Files /\ Size[f] \in Nat
    BY <1>1, <2>1, FilesFacts DEF Typed
  <2>3. /\ InRead' = (InRead \ {f}) \cup ({f} \ {None})
        /\ AtPut' = (AtPut \ {f}) \cup {f} /\ InWork' = InWork
        /\ OneHolder' /\ prod' \in [Io -> ReaderType] /\ Reading' = Reading
        /\ \A q \in Io : prod'[q].file \in Files <=> prod'[q].at \in {"read", "admit", "put"}
    BY <1>1, <2>1, <2>2, ReaderMoves
  <2>4. f \in InRead /\ f \notin AtPut /\ f \notin InWork /\ f # None
    <3>1. \A q \in Io : prod[q].file = f => q = p
      BY <1>1, <2>2, FilesFacts DEF OneHolder
    <3>2. \A c \in Cpu : cons[c].file # f
      BY <1>1, <2>2, FilesFacts DEF OneHolder
    <3> QED
      BY <2>1, <2>2, <3>1, <3>2, FilesFacts DEF InRead, AtPut, InWork
  <2> HIDE DEF f
  <2>5. f \notin Queued(readQ)
    BY <1>1, <2>4, Hands DEF OnePlace, Apart
  <2>6. Held' = Held /\ Buffered' = Buffered \cup {f} /\ f \notin Buffered
    <3>1. InRead' = InRead /\ AtPut' = AtPut \cup {f} /\ readQ' \in Seq(Files)
      BY <1>1, <2>1, <2>3, <2>4 DEF Typed
    <3> QED
      BY <1>1, <2>1, <2>3, <2>4, <2>5, <3>1, Hands, HandsNext
  <2>7. Typed'
    <3>1. inflight' \in Int
      BY <1>1, <2>1, <2>2 DEF Typed
    <3> QED
      BY <1>1, <2>1, <2>3, <3>1 DEF Typed, Reading
  <2> QED
    BY <1>1, <2>1, <2>2, <2>3, <2>6, <2>7, PlaceSame, BudgetTakes, NewSame DEF IInv
<1> QED
  BY <1>2, <1>3

LEMMA PutKeeps ==
  ASSUME IInv, NEW p \in Io, Put(p)
  PROVE  IInv'
<1> DEFINE f == prod[p].file
<1>1. Typed /\ OnePlace /\ OneHolder /\ NewInv /\ BudgetHeld
  BY DEF IInv, OnePlace
<1>2. /\ prod[p].at = "put" /\ Reader(p, "pick", None) /\ readQ' = Append(readQ, f)
      /\ UNCHANGED <<waiting, live, inflight, cons, assets, rows, resultQ, main, done, fresh,
                     stop, asked>>
  BY DEF Put, workers, catalog, drain
<1>3. f \in Files
  BY <1>1, <1>2 DEF Typed
<1>4. /\ InRead' = (InRead \ {f}) \cup ({None} \ {None})
      /\ AtPut' = AtPut \ {f} /\ InWork' = InWork
      /\ OneHolder' /\ prod' \in [Io -> ReaderType] /\ Reading' = Reading
      /\ \A q \in Io : prod'[q].file \in Files <=> prod'[q].at \in {"read", "admit", "put"}
  BY <1>1, <1>2, FilesFacts, ReaderMoves
<1>5. f \in InRead /\ f \in AtPut /\ f \notin InWork
  <2>1. \A c \in Cpu : cons[c].file # f
    BY <1>1, <1>3, FilesFacts DEF OneHolder
  <2> QED
    BY <1>2, <1>3, <2>1, FilesFacts DEF InRead, AtPut, InWork
<1> HIDE DEF f
<1>6. f \in Held /\ Held' = Held \ {f}
  BY <1>4, <1>5 DEF Held, InRead, InWork
<1>7. OnePlace' /\ readQ' \in Seq(Files) /\ Queued(readQ') = Queued(readQ) \cup {f}
  BY <1>1, <1>2, <1>4, <1>6, PlacePuts
<1>8. Buffered' = Buffered
  BY <1>1, <1>4, <1>5, <1>7, Hands, HandsNext
<1>9. Typed'
  BY <1>1, <1>2, <1>4, <1>7 DEF Typed, Reading
<1> QED
  BY <1>1, <1>2, <1>7, <1>8, <1>9, BudgetSame, NewSame DEF IInv

LEMMA GetKeeps ==
  ASSUME IInv, NEW c \in Cpu, Get(c)
  PROVE  IInv'
<1> DEFINE f == Head(readQ)
<1>1. Typed /\ OnePlace /\ OneHolder /\ NewInv /\ BudgetHeld
  BY DEF IInv, OnePlace
<1>2. /\ cons[c].at = "get" /\ readQ # <<>> /\ Worker(c, "lookup", f, FALSE)
      /\ readQ' = Tail(readQ)
      /\ UNCHANGED <<waiting, prod, live, inflight, assets, rows, resultQ, main, done, fresh,
                     stop, asked>>
  BY DEF Get, readers, catalog, drain
<1>3. readQ \in Seq(Files) /\ Distinct(readQ)
  BY <1>1 DEF Typed, OnePlace
<1>4. /\ f \in Files /\ f \in Queued(readQ) /\ readQ' \in Seq(Files)
      /\ Queued(readQ') = Queued(readQ) \ {f}
  BY <1>2, <1>3, TailQueue
<1>5. f \notin Held /\ f # None
  BY <1>1, <1>4, FilesFacts DEF OnePlace, Apart
<1>6. cons[c].file = None
  BY <1>1, <1>2 DEF Typed, WorkerType
<1>7. /\ InWork' = (InWork \ {cons[c].file}) \cup ({f} \ {None})
      /\ InRead' = InRead /\ AtPut' = AtPut /\ Reading' = Reading
      /\ OneHolder' /\ cons' \in [Cpu -> WorkerType]
      /\ \A d \in Cpu : cons'[d].file \in Files <=> cons'[d].at \in {"lookup", "persist"}
  <2> HIDE DEF f
  <2>1. FALSE \in BOOLEAN
    OBVIOUS
  <2> QED
    BY <1>1, <1>2, <1>4, <1>5, <2>1, WorkerMoves
<1>8. Held' = Held \cup {f} /\ Buffered' = Buffered
  <2>1. None \notin InWork
    BY DEF InWork
  <2>2. InWork' = InWork \cup {f}
    BY <1>5, <1>6, <1>7, <2>1
  <2> HIDE DEF f
  <2> QED
    BY <1>1, <1>4, <1>7, <2>2, Hands, HandsNext
<1>9. OnePlace'
  BY <1>1, <1>2, <1>7, <1>8, PlaceGets
<1>10. Typed'
  BY <1>1, <1>2, <1>4, <1>7 DEF Typed, Reading
<1> QED
  BY <1>1, <1>2, <1>8, <1>9, <1>10, BudgetSame, NewSame DEF IInv

\* a worker that has no file, before and after
LEMMA IdleKeeps ==
  ASSUME IInv, NEW c \in Cpu, cons[c].at \in {"get", "empty"},
         NEW at \in {"get", "empty", "out"}, Worker(c, at, None, FALSE),
         UNCHANGED <<waiting, prod, live, inflight, readQ, assets, rows, resultQ, main, done,
                     fresh, stop, asked>>
  PROVE  IInv'
<1>1. Typed /\ OnePlace /\ OneHolder /\ NewInv /\ BudgetHeld
  BY DEF IInv, OnePlace
<1>2. cons[c].file = None
  BY <1>1 DEF Typed, WorkerType
<1>3. /\ InWork' = (InWork \ {cons[c].file}) \cup ({None} \ {None})
      /\ InRead' = InRead /\ AtPut' = AtPut /\ Reading' = Reading
      /\ OneHolder' /\ cons' \in [Cpu -> WorkerType]
      /\ \A d \in Cpu : cons'[d].file \in Files <=> cons'[d].at \in {"lookup", "persist"}
  <2>1. FALSE \in BOOLEAN /\ None \in Files \cup {None} /\ None \notin Files
    BY FilesFacts
  <2>2. CASE at = "get"
    BY <1>1, <2>1, <2>2, WorkerMoves
  <2>3. CASE at = "empty"
    BY <1>1, <2>1, <2>3, WorkerMoves
  <2>4. CASE at = "out"
    BY <1>1, <2>1, <2>4, WorkerMoves
  <2> QED
    BY <2>2, <2>3, <2>4
<1>4. Held' = Held /\ Buffered' = Buffered
  <2>1. None \notin InWork /\ readQ' \in Seq(Files)
    BY <1>1 DEF InWork, Typed
  <2>2. InWork' = InWork
    BY <1>2, <1>3, <2>1
  <2> QED
    BY <1>1, <1>3, <2>1, <2>2, Hands, HandsNext
<1>5. Typed'
  BY <1>1, <1>3 DEF Typed, Reading
<1> QED
  BY <1>1, <1>3, <1>4, <1>5, PlaceSame, BudgetSame, NewSame DEF IInv

LEMMA TimesOutKeeps ==
  ASSUME IInv, NEW c \in Cpu, TimesOut(c)
  PROVE  IInv'
BY IdleKeeps DEF TimesOut, readers, catalog, drain

LEMMA LookKeeps ==
  ASSUME IInv, NEW c \in Cpu, Look(c)
  PROVE  IInv'
<1> DEFINE at == IF stop \/ ~Feeding THEN "out" ELSE "get"
<1>1. at \in {"get", "empty", "out"}
  OBVIOUS
<1>2. /\ cons[c].at = "empty" /\ Worker(c, at, None, FALSE)
      /\ UNCHANGED <<waiting, prod, live, inflight, readQ, assets, rows, resultQ, main, done,
                     fresh, stop, asked>>
  BY DEF Look, readers, catalog, drain
<1> HIDE DEF at
<1> QED
  BY <1>1, <1>2, IdleKeeps

LEMMA LookupKeeps ==
  ASSUME IInv, NEW c \in Cpu, Lookup(c)
  PROVE  IInv'
<1> DEFINE f == cons[c].file
           known == Content[f] \in assets
<1>1. Typed /\ OnePlace /\ OneHolder /\ NewInv /\ BudgetHeld
  BY DEF IInv, OnePlace
<1>2. /\ cons[c].at = "lookup" /\ Worker(c, "persist", f, known)
      /\ UNCHANGED <<waiting, prod, live, inflight, readQ, assets, rows, resultQ, main, done,
                     fresh, stop, asked>>
  BY DEF Lookup, readers, catalog, drain
<1>3. f \in Files /\ f # None /\ known \in BOOLEAN
  BY <1>1, <1>2, FilesFacts DEF Typed
<1>4. f \in InWork
  BY <1>3 DEF InWork
<1> HIDE DEF known
<1>5. /\ InWork' = (InWork \ {f}) \cup ({f} \ {None})
      /\ InRead' = InRead /\ AtPut' = AtPut /\ Reading' = Reading
      /\ OneHolder' /\ cons' \in [Cpu -> WorkerType]
      /\ \A d \in Cpu : cons'[d].file \in Files <=> cons'[d].at \in {"lookup", "persist"}
  BY <1>1, <1>2, <1>3, WorkerMoves
<1>6. Held' = Held /\ Buffered' = Buffered
  <2>1. InWork' = InWork /\ readQ' \in Seq(Files)
    BY <1>1, <1>2, <1>3, <1>4, <1>5 DEF Typed
  <2> QED
    BY <1>1, <1>2, <1>5, <2>1, Hands, HandsNext
<1>7. Typed'
  BY <1>1, <1>2, <1>5 DEF Typed, Reading
<1> QED
  BY <1>1, <1>2, <1>5, <1>6, <1>7, PlaceSame, BudgetSame, NewSame DEF IInv

\* a worker that gives its bytes back and its result out
LEMMA AnswersKeep ==
  ASSUME IInv, NEW c \in Cpu, cons[c].at \in {"lookup", "persist"},
         NEW o \in Outcomes, Answers(c, o),
         NewInv', assets' \subseteq Contents, rows' \subseteq Files,
         UNCHANGED <<waiting, prod, live, readQ, main, done, fresh, stop, asked>>
  PROVE  IInv'
<1> DEFINE f == cons[c].file
<1>1. Typed /\ OnePlace /\ OneHolder /\ NewInv /\ BudgetHeld
  BY DEF IInv, OnePlace
<1>2. /\ Worker(c, "get", None, FALSE) /\ inflight' = inflight - Size[f]
      /\ resultQ' = Append(resultQ, <<o, f>>)
  BY DEF Answers
<1>3. f \in Files /\ Size[f] \in Nat
  BY <1>1, FilesFacts DEF Typed
<1>4. /\ InWork' = (InWork \ {f}) \cup ({None} \ {None})
      /\ InRead' = InRead /\ AtPut' = AtPut /\ Reading' = Reading
      /\ OneHolder' /\ cons' \in [Cpu -> WorkerType]
      /\ \A d \in Cpu : cons'[d].file \in Files <=> cons'[d].at \in {"lookup", "persist"}
  <2>1. FALSE \in BOOLEAN
    OBVIOUS
  <2>2. None \in Files \cup {None} /\ (None \in Files <=> "get" \in {"lookup", "persist"})
    BY FilesFacts
  <2>3. "get" \in {"get", "empty", "lookup", "persist", "out"}
    OBVIOUS
  <2>4. None \in {None, f} /\ UNCHANGED prod
    OBVIOUS
  <2> QED
    BY <1>1, <1>2, <2>1, <2>2, <2>3, <2>4, WorkerMoves
<1>5. f \in InWork /\ f \notin InRead
  <2>1. \A p \in Io : prod[p].file # f
    BY <1>1, <1>3, FilesFacts DEF OneHolder
  <2> QED
    BY <1>3, <2>1, FilesFacts DEF InRead, InWork
<1> HIDE DEF f
<1>6. f \in Held /\ Held' = Held \ {f}
  <2>1. Held = InRead \cup InWork /\ Held' = InRead' \cup InWork'
    BY DEF Held, InRead, InWork
  <2>2. f # None
    BY <1>3, FilesFacts
  <2> QED
    BY <1>4, <1>5, <2>1, <2>2
<1>7. f \in Buffered /\ Buffered' = Buffered \ {f}
  <2>1. f \notin Queued(readQ) /\ readQ' \in Seq(Files)
    BY <1>1, <1>6 DEF OnePlace, Apart, Typed
  <2> QED
    BY <1>1, <1>4, <1>5, <2>1, Hands, HandsNext
<1>8. OnePlace' /\ resultQ' \in Seq(Outcomes \X Files)
  BY <1>1, <1>2, <1>4, <1>6, PlaceAnswers
<1>9. Typed'
  <2>1. inflight' \in Int
    BY <1>1, <1>2, <1>3 DEF Typed
  <2> QED
    BY <1>1, <1>4, <1>8, <2>1 DEF Typed, Reading
<1> QED
  BY <1>1, <1>2, <1>7, <1>8, <1>9, BudgetGives DEF IInv

LEMMA PersistKeeps ==
  ASSUME IInv, NEW c \in Cpu, Persist(c)
  PROVE  IInv'
<1> DEFINE f == cons[c].file
           o == IF Created(c) THEN "new" ELSE "exact_dup"
<1>1. Typed /\ NewInv
  BY DEF IInv
<1>2. /\ cons[c].at = "persist" /\ Answers(c, o)
      /\ assets' = assets \cup {Content[f]} /\ rows' = rows \cup {f}
      /\ UNCHANGED <<waiting, prod, live, readQ, main, done, fresh, stop, asked>>
  BY DEF Persist, readers, drain
<1>3. f \in Files /\ Content[f] \in Contents
  BY <1>1, <1>2, FilesFacts DEF Typed
<1>4. resultQ' = Append(resultQ, <<o, f>>)
  BY <1>2 DEF Answers
<1>5. NewInv'
  <2>1. CASE Created(c)
    BY <1>1, <1>2, <1>3, <1>4, <2>1, NewCreated DEF Created
  <2>2. CASE ~Created(c)
    <3>1. resultQ' = Append(resultQ, <<"exact_dup", f>>)
      BY <1>4, <2>2
    <3> QED
      BY <1>1, <1>2, <1>3, <3>1, NewNothing
  <2> QED
    BY <2>1, <2>2
<1>6. o \in Outcomes
  BY DEF Outcomes
<1>7. assets' \subseteq Contents /\ rows' \subseteq Files
  BY <1>1, <1>2, <1>3 DEF Typed
<1> HIDE DEF f, o
<1> QED
  BY <1>2, <1>5, <1>6, <1>7, AnswersKeep

LEMMA WorkerFailsKeeps ==
  ASSUME IInv, NEW c \in Cpu, WorkerFails(c)
  PROVE  IInv'
<1> DEFINE f == cons[c].file
<1>1. Typed /\ NewInv
  BY DEF IInv
<1>2. /\ cons[c].at \in {"lookup", "persist"} /\ Answers(c, "errors")
      /\ UNCHANGED <<waiting, prod, live, readQ, assets, rows, main, done, fresh, stop, asked>>
  <2>1. /\ cons[c].at = "lookup" \/ cons[c].at \in {"lookup", "persist"}
        /\ Answers(c, "errors") /\ UNCHANGED <<readers, readQ, catalog, drain, asked>>
    BY Zenon DEF WorkerFails
  <2> QED
    BY <2>1 DEF readers, catalog, drain
<1>3. f \in Files /\ "errors" \in Outcomes
  BY <1>1, <1>2 DEF Typed, Outcomes
<1>4. resultQ' = Append(resultQ, <<"errors", f>>)
  BY <1>2 DEF Answers
<1>5. NewInv'
  BY <1>1, <1>2, <1>3, <1>4, NewNothing
<1>6. assets' \subseteq Contents /\ rows' \subseteq Files
  BY <1>1, <1>2 DEF Typed
<1> QED
  BY <1>2, <1>3, <1>5, <1>6, AnswersKeep

LEMMA DrainKeeps ==
  ASSUME IInv, Drain
  PROVE  IInv'
<1>1. Typed /\ OnePlace /\ NewInv /\ BudgetHeld /\ OnePerFile(resultQ)
  BY DEF IInv, OnePlace
<1>2. /\ resultQ # <<>> /\ resultQ' = Tail(resultQ) /\ done' = done + 1
      /\ UNCHANGED <<waiting, prod, live, inflight, readQ, cons, assets, rows, asked>>
      /\ fresh' = IF Head(resultQ)[1] = "new"
                  THEN [fresh EXCEPT ![Content[Head(resultQ)[2]]] = @ + 1] ELSE fresh
  BY DEF Drain, readers, workers, catalog
<1>3. main' \in {"drain", "join", "over"} /\ stop' \in BOOLEAN
  <2>1. main \in {"drain", "join", "over"} /\ stop \in BOOLEAN
    BY <1>1 DEF Typed
  <2>2. CASE asked \/ AllDrained
    BY <2>2, Zenon DEF Drain
  <2>3. CASE ~(asked \/ AllDrained)
    BY <2>1, <2>3, Zenon DEF Drain
  <2> QED
    BY <2>2, <2>3
<1>4. NewInv' /\ fresh' \in [Contents -> Nat]
  BY <1>1, <1>2, NewDrained
<1>5. OnePlace' /\ resultQ' \in Seq(Outcomes \X Files)
  BY <1>1, <1>2, PlaceDrains
<1>6. Buffered' = Buffered
  BY <1>2 DEF Buffered
<1>7. done' \in Nat
  BY <1>1, <1>2 DEF Typed
<1>8. Typed'
  BY <1>1, <1>2, <1>3, <1>4, <1>5, <1>7 DEF Typed
<1> QED
  BY <1>1, <1>2, <1>4, <1>5, <1>6, <1>8, BudgetSame DEF IInv

\* the files, the threads and the results are as they were
LEMMA RestKeeps ==
  ASSUME IInv, main' \in {"drain", "join", "over"}, stop' \in BOOLEAN, asked' \in BOOLEAN,
         UNCHANGED <<waiting, prod, live, inflight, readQ, cons, assets, rows, resultQ, done,
                     fresh>>
  PROVE  IInv'
<1>1. Typed /\ OnePlace /\ NewInv /\ BudgetHeld
  BY DEF IInv
<1>2. Held' = Held /\ Buffered' = Buffered /\ OneHolder'
  BY <1>1 DEF Held, Buffered, OnePlace, OneHolder
<1>3. Typed'
  BY <1>1 DEF Typed
<1> QED
  BY <1>1, <1>2, <1>3, PlaceSame, BudgetSame, NewSame DEF IInv

LEMMA JoinKeeps ==
  ASSUME IInv, Join
  PROVE  IInv'
<1>1. stop' \in BOOLEAN /\ asked' \in BOOLEAN /\ main' = "over"
  BY Zenon DEF IInv, Typed, Join
<1> QED
  BY <1>1, RestKeeps DEF Join, readers, workers, catalog

LEMMA AskCancelKeeps ==
  ASSUME IInv, AskCancel
  PROVE  IInv'
<1>1. stop' \in BOOLEAN /\ asked' \in BOOLEAN /\ main' = main
  BY Zenon DEF IInv, Typed, AskCancel, drain
<1>2. main \in {"drain", "join", "over"}
  BY DEF IInv, Typed
<1> QED
  BY <1>1, <1>2, RestKeeps DEF AskCancel, readers, workers, catalog, drain

LEMMA NextKeeps ==
  ASSUME IInv, [Next]_vars
  PROVE  IInv'
<1>1. ASSUME NEW p \in Io, ReaderStep(p) PROVE IInv'
  BY <1>1, PickKeeps, LeaveKeeps, ReadFileKeeps, ReadFailsKeeps, AdmitKeeps, PutKeeps
     DEF ReaderStep
<1>2. ASSUME NEW c \in Cpu, WorkerStep(c) PROVE IInv'
  BY <1>2, GetKeeps, TimesOutKeeps, LookKeeps, LookupKeeps, PersistKeeps, WorkerFailsKeeps
     DEF WorkerStep
<1>3. CASE Drain
  BY <1>3, DrainKeeps
<1>4. CASE Join
  BY <1>4, JoinKeeps
<1>5. CASE AskCancel
  BY <1>5, AskCancelKeeps
<1>6. CASE UNCHANGED vars
  <2>1. UNCHANGED <<waiting, prod, live, inflight, readQ, cons, assets, rows, resultQ, main,
                    done, fresh, stop, asked>>
    BY <1>6 DEF vars, readers, workers, catalog, drain
  <2>2. /\ main \in {"drain", "join", "over"} /\ stop \in BOOLEAN /\ asked \in BOOLEAN
    BY DEF IInv, Typed
  <2> QED
    BY <2>1, <2>2, RestKeeps
<1> QED
  BY <1>1, <1>2, <1>3, <1>4, <1>5, <1>6 DEF Next

(***************************************************************************)
(* The theorems                                                            *)
(***************************************************************************)
LEMMA Inductive == Spec => []IInv
BY InitHolds, NextKeeps, PTL DEF Spec

LEMMA TypesFollow ==
  ASSUME IInv
  PROVE  TypeOK
<1>1. Typed /\ OnePlace
  BY DEF IInv
<1>2. done \in 0 .. Total
  <2>1. waiting \cup Held \in SUBSET Files
    BY <1>1, Hands DEF Typed
  <2>2. Cardinality(waiting \cup Held) \in Nat /\ Total \in Nat
    BY <2>1, FilesFacts, FS_Subset, FS_CardinalityType DEF Total
  <2>3. Len(readQ) \in Nat /\ Len(resultQ) \in Nat /\ done \in Nat
    BY <1>1 DEF Typed
  <2>4. Cardinality(waiting \cup Held) + Len(readQ) + Len(resultQ) + done = Total
    BY <1>1 DEF OnePlace
  <2> QED
    BY <2>2, <2>3, <2>4
<1>3. \A i \in DOMAIN resultQ : resultQ[i][1] \in {"new", "exact_dup", "errors"}
  <2>1. resultQ \in Seq(Outcomes \X Files)
    BY <1>1 DEF Typed
  <2>2. \A i \in DOMAIN resultQ : resultQ[i] \in Outcomes \X Files
    BY <2>1
  <2> QED
    BY <2>2 DEF Outcomes
<1>4. \A p \in Io : /\ prod[p].at \in {"pick", "read", "admit", "put", "out"}
                    /\ (prod[p].file \in Files) <=> (prod[p].at \in {"read", "admit", "put"})
  BY <1>1 DEF Typed, ReaderType
<1>5. \A c \in Cpu : /\ cons[c].at \in {"get", "empty", "lookup", "persist", "out"}
                     /\ (cons[c].file \in Files) <=> (cons[c].at \in {"lookup", "persist"})
  BY <1>1 DEF Typed, WorkerType
<1> QED
  BY <1>1, <1>2, <1>3, <1>4, <1>5 DEF TypeOK, Typed

(* The types, with the readers counted as long as they are in and no more  *)
(* results drained than there are files (scan.py _run_photo_pipeline).     *)
THEOREM TypeCorrect == Spec => []TypeOK
BY Inductive, TypesFollow, PTL

LEMMA OneResultFollows ==
  ASSUME IInv
  PROVE  OneResultEach
<1>1. resultQ \in Seq(Outcomes \X Files) /\ OnePlace
  BY DEF IInv, Typed
<1>2. DOMAIN resultQ = 1 .. Len(resultQ)
  BY <1>1
<1> QED
  BY <1>1, <1>2 DEF OneResultEach, OnePlace, OnePerFile

(* Whatever fails and whenever the scan is stopped, no file is lost and    *)
(* none answered twice (scan.py:801-803).                                  *)
THEOREM OneResultEachHolds == Spec => []OneResultEach
BY Inductive, OneResultFollows, PTL

(* The counter of the bytes in flight is exact, and stays within the       *)
(* budget except for a file that is alone (scan.py:772-785).               *)
THEOREM BudgetHeldHolds == Spec => []BudgetHeld
<1>1. IInv => BudgetHeld
  BY DEF IInv
<1> QED
  BY Inductive, <1>1, PTL

LEMMA NewOnceFollows ==
  ASSUME IInv
  PROVE  NewOnce
<1>1. resultQ \in Seq(Outcomes \X Files) /\ NewInv /\ fresh \in [Contents -> Nat]
  BY DEF IInv, Typed
<1>2. DOMAIN resultQ = 1 .. Len(resultQ)
  BY <1>1
<1> SUFFICES ASSUME NEW x \in Contents
             PROVE  fresh[x] + Cardinality({i \in DOMAIN resultQ :
                       resultQ[i][1] = "new" /\ Content[resultQ[i][2]] = x}) <= 1
  BY DEF NewOnce
<1> DEFINE N == {i \in DOMAIN resultQ :
                    resultQ[i][1] = "new" /\ Content[resultQ[i][2]] = x}
<1>3. N = {i \in 1 .. Len(resultQ) : IsNew(i, x)}
  BY <1>2 DEF IsNew
<1>4. /\ fresh[x] \in Nat /\ fresh[x] <= 1
      /\ \A i \in N : fresh[x] = 0
      /\ \A i, j \in N : i = j
  BY <1>1, <1>3 DEF NewInv
<1> HIDE DEF N
<1>5. CASE N = {}
  BY <1>4, <1>5, FS_EmptySet DEF N
<1>6. CASE N # {}
  <2>1. PICK i \in N : N = {i}
    BY <1>4, <1>6
  <2>2. Cardinality(N) = 1 /\ fresh[x] = 0
    BY <1>4, <2>1, FS_Singleton
  <2> QED
    BY <2>2 DEF N
<1> QED
  BY <1>5, <1>6

(* Workers that meet the same bytes at once report one new asset, and none *)
(* for a content the catalog already had (scan.py:410-441).                *)
THEOREM NewOnceHolds == Spec => []NewOnce
BY Inductive, NewOnceFollows, PTL
=============================================================================
