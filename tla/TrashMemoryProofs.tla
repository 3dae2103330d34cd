-------------------------- MODULE TrashMemoryProofs --------------------------
(***************************************************************************)
(* Proofs about TrashMemory, for any files, contents, similarities and     *)
(* bounds: cleanup recycles only what was condemned, what is discarded is  *)
(* remembered, and an active content has a file.                           *)
(***************************************************************************)
EXTENDS TrashMemory, FiniteSetTheorems, WellFoundedInduction, TLAPS

RowType   == [id : Nat, content : Content]
Rows      == [Paths -> RowType \cup {Nothing}]
Fates     == [Content -> {"none", "active", "trashed"}]
Deeds     == [kind : {"exact", "undecodable", "perceptual"}, path : Lib, id : Nat,
              content : Content]
Thrown    == [path : Bin, content : Content]
RunType   == [status : {"none", "pending", "cancelled", "completed"}, actions : SUBSET Deeds]
StageType == [made : BOOLEAN, links : SUBSET Lib]
GhostType == [offered : SUBSET Lib, spared : SUBSET Lib, condemned : SUBSET Content,
              lapsed : SUBSET Content, untrashed : SUBSET Content, reused : BOOLEAN]

Typed ==
    /\ disk \in [File -> Content \cup {Nothing}]
    /\ row \in Rows
    /\ asset \in Fates
    /\ run \in RunType
    /\ stage \in StageType
    /\ ghost \in GhostType
    /\ job.exact \subseteq Deeds /\ job.done \subseteq Deeds

(***************************************************************************)
(* What the place of a job says about the rest of it.                      *)
(***************************************************************************)
Shape == job = [kind |-> job.kind, at |-> job.at, todo |-> job.todo, done |-> job.done,
                exact |-> job.exact, hold |-> job.hold]
Holding == job.at = "delete" /\ job.hold # Nothing

Course ==
    /\ Shape
    /\ Idle => job = NoJob
    /\ job.at \notin {"absorb", "delete"} => job.hold = Nothing
    /\ job.at \in {"open", "stat", "link", "exact"} => job.kind = "analyze"
    /\ job.at \notin {"stat", "link", "exact"} => job.done = {} /\ job.exact = {}
    /\ job.at = "check" => job.kind \in {"confirm", "cancel"}
    /\ job.at \in {"stat", "link"} => Pending /\ run.actions = {}
    /\ job.at \in {"stat", "link", "delete"} => job.todo \subseteq Deeds
    /\ Holding => job.hold \in job.todo
    /\ job.at = "absorb" =>
          /\ job.todo \subseteq Bin
          /\ job.hold # Nothing => job.hold \in Thrown /\ asset[job.hold.content] = "trashed"

(***************************************************************************)
(* The deletions ordered, the matches found by an analyze at work, and     *)
(* those a review keeps for its confirm.  They name the rows they were     *)
(* read from, until a rowid is reused.                                     *)
(***************************************************************************)
Ordered(a) == job.at = "delete" /\ a \in job.todo
Found(a)   == \/ job.at \in {"stat", "link"} /\ a \in job.todo \cup job.done
              \/ job.at \in {"stat", "link", "exact"} /\ a \in job.exact
Shelved(a) == Pending /\ a \in run.actions
Noted(a)   == Ordered(a) \/ Found(a) \/ Shelved(a)

DistinctIds(rows) ==
    \A p, q \in Paths : rows[p] # Nothing /\ rows[q] # Nothing /\ rows[p].id = rows[q].id => p = q

Names(rows, a) ==
    \A p \in Paths : rows[p] # Nothing => /\ rows[p].id = a.id <=> p = a.path
                                          /\ p = a.path => rows[p].content = a.content

Truthful ==
    /\ DistinctIds(row)
    /\ ~ghost.reused => \A a \in Deeds : Noted(a) => Names(row, a)

(***************************************************************************)
(* Why each of them may be deleted.                                        *)
(***************************************************************************)
Trash(c) == asset[c] = "trashed" \/ c \in ghost.untrashed

Sentenced ==
    /\ \A a \in Deeds : Noted(a) /\ a.kind = "exact" => Trash(a.content)
    /\ \A a \in Deeds : Ordered(a) =>
          /\ a.kind = "undecodable" => a.content \in Broken
          /\ a.kind = "perceptual" =>
                a.path \in ghost.offered \ ghost.spared /\ job.kind = "confirm"
    /\ \A a \in Deeds : Shelved(a) =>
          /\ a.kind # "undecodable"
          /\ a.kind = "perceptual" =>
                a.path \in ghost.offered /\ (a.path \in stage.links => a.path \notin ghost.spared)
    /\ job.at \in {"stat", "link"} => \A a \in job.todo \cup job.done : a.kind = "perceptual"
    /\ job.at \in {"stat", "link", "exact"} => \A a \in job.exact : a.kind = "exact"

(***************************************************************************)
(* What became of the contents whose files are gone.                       *)
(***************************************************************************)
Missed ==
    ~ghost.reused => \A p \in Paths : row[p] # Nothing /\ disk[p] # row[p].content =>
        row[p].content \in ghost.lapsed \/ (Holding /\ p = job.hold.path)

Remembered ==
    ~ghost.reused => \A c \in ghost.condemned \ (ghost.lapsed \cup ghost.untrashed) :
        asset[c] = "trashed" \/ RowsOf(row, c) # {} \/ (Holding /\ job.hold.content = c)

Books == Missed /\ OrphansOnlyByUntrash /\ Remembered

IInv == Typed /\ Course /\ Truthful /\ Sentenced /\ Books

(***************************************************************************)
(* The constants, and rows one by one                                      *)
(***************************************************************************)
LEMMA Disjoint ==
  /\ Nothing \notin Content /\ Nothing \notin RowType /\ Nothing \notin Deeds /\ Nothing \notin Thrown
  /\ Lib \subseteq Paths /\ Other \subseteq Paths /\ Lib \cap Other = {} /\ Paths \cap Bin = {}
  /\ File = Paths \cup Bin /\ IsFiniteSet(Paths)
<1>1. IsFiniteSet(Paths)
  BY TrashAssumption, FS_Union DEF Paths
<1> QED
  BY <1>1, TrashAssumption DEF RowType, Deeds, Thrown, Paths, File

LEMMA RowParts ==
  ASSUME NEW rows \in Rows, NEW p \in Paths, rows[p] # Nothing
  PROVE  rows[p] \in RowType /\ rows[p].id \in Nat /\ rows[p].content \in Content
<1>1. rows[p] \in RowType
  BY DEF Rows
<1> QED
  BY <1>1 DEF RowType

LEMMA DeedParts ==
  ASSUME NEW a \in Deeds
  PROVE  /\ a.kind \in {"exact", "undecodable", "perceptual"}
         /\ a.path \in Lib /\ a.path \in Paths /\ a.path \in File /\ a.id \in Nat /\ a.content \in Content
         /\ a # Nothing
<1>1. /\ a.kind \in {"exact", "undecodable", "perceptual"}
      /\ a.path \in Lib /\ a.id \in Nat /\ a.content \in Content
  BY DEF Deeds
<1> QED
  BY <1>1, Disjoint

LEMMA NothingLeft ==
  /\ NoJob.kind = "none" /\ NoJob.at = "idle" /\ NoJob.hold = Nothing /\ NoJob.todo = {}
  /\ NoJob.done = {} /\ NoJob.exact = {}
  /\ NoJob = [kind |-> NoJob.kind, at |-> NoJob.at, todo |-> NoJob.todo, done |-> NoJob.done,
              exact |-> NoJob.exact, hold |-> NoJob.hold]
BY DEF NoJob

LEMMA RecordTypes ==
  /\ ghost \in GhostType =>
        /\ ghost.offered \subseteq Lib /\ ghost.spared \subseteq Lib /\ ghost.reused \in BOOLEAN
        /\ ghost.condemned \subseteq Content /\ ghost.lapsed \subseteq Content
        /\ ghost.untrashed \subseteq Content
  /\ run \in RunType => run.actions \subseteq Deeds
  /\ stage \in StageType => stage.made \in BOOLEAN /\ stage.links \subseteq Lib
BY DEF GhostType, RunType, StageType

\* A row that is read gives its path, id and content to the action.
LEMMA Acts ==
  ASSUME Typed, DistinctIds(row), NEW k \in {"exact", "undecodable", "perceptual"},
         NEW p \in Lib, row[p] # Nothing
  PROVE  /\ Action(k, p) \in Deeds
         /\ Action(k, p).kind = k /\ Action(k, p).path = p /\ Action(k, p).content = row[p].content
         /\ Names(row, Action(k, p))
<1>1. p \in Paths /\ row[p].id \in Nat /\ row[p].content \in Content
  BY Disjoint, RowParts DEF Typed
<1>2. /\ Action(k, p).kind = k /\ Action(k, p).path = p /\ Action(k, p).content = row[p].content
      /\ Action(k, p).id = row[p].id
  BY DEF Action
<1>3. Action(k, p) \in Deeds
  BY <1>1 DEF Action, Deeds
<1> QED
  BY <1>1, <1>2, <1>3 DEF Names, DistinctIds

LEMMA Drops ==
  ASSUME NEW rows \in Rows, DistinctIds(rows), NEW a \in Deeds
  PROVE  /\ WithoutId(rows, a.id) \in Rows /\ DistinctIds(WithoutId(rows, a.id))
         /\ \A p \in Paths : WithoutId(rows, a.id)[p] \in {rows[p], Nothing}
         /\ \A b \in Deeds : Names(rows, b) => Names(WithoutId(rows, a.id), b)
         /\ Names(rows, a) =>
              /\ WithoutId(rows, a.id)[a.path] = Nothing
              /\ \A p \in Paths \ {a.path} : WithoutId(rows, a.id)[p] = rows[p]
              /\ \A c \in Content \ {a.content} : RowsOf(WithoutId(rows, a.id), c) = RowsOf(rows, c)
<1> DEFINE w == WithoutId(rows, a.id)
<1>1. w = [p \in Paths |-> IF rows[p] # Nothing /\ rows[p].id = a.id THEN Nothing ELSE rows[p]]
  BY DEF WithoutId
<1> HIDE DEF w
<1>2. \A p \in Paths : w[p] = IF rows[p] # Nothing /\ rows[p].id = a.id THEN Nothing ELSE rows[p]
  BY <1>1
<1>3. w \in Rows
  BY <1>1, <1>2 DEF Rows
<1>4. DistinctIds(w)
  BY <1>2 DEF DistinctIds
<1>5. ASSUME NEW b \in Deeds, Names(rows, b) PROVE Names(w, b)
  BY <1>2, <1>5 DEF Names
<1>6. ASSUME Names(rows, a)
      PROVE  /\ w[a.path] = Nothing
             /\ \A p \in Paths \ {a.path} : w[p] = rows[p]
             /\ \A c \in Content \ {a.content} : RowsOf(w, c) = RowsOf(rows, c)
  <2>1. w[a.path] = Nothing /\ \A p \in Paths \ {a.path} : w[p] = rows[p]
    BY <1>2, <1>6, DeedParts DEF Names
  <2>2. rows[a.path] # Nothing => rows[a.path].content = a.content
    BY <1>6, DeedParts DEF Names
  <2> QED
    BY <2>1, <2>2 DEF RowsOf
<1>7. \A p \in Paths : w[p] \in {rows[p], Nothing}
  BY <1>2
<1> QED
  BY <1>3, <1>4, <1>5, <1>6, <1>7 DEF w

LEMMA Forgets ==
  ASSUME NEW as \in Fates, NEW rows, NEW cs
  PROVE  /\ Forget(as, rows, cs) \in Fates
         /\ \A c \in Content :
              /\ Forget(as, rows, cs)[c] = "trashed" <=> as[c] = "trashed"
              /\ Forget(as, rows, cs)[c] = "active" =>
                    as[c] = "active" /\ (c \in cs => RowsOf(rows, c) # {})
BY DEF Forget, Fates

LEMMA Remembers ==
  ASSUME NEW as \in Fates, NEW rows, NEW a \in Deeds
  PROVE  /\ Remember(as, rows, a) \in Fates
         /\ \A c \in Content :
              /\ as[c] = "trashed" => Remember(as, rows, a)[c] = "trashed"
              /\ Remember(as, rows, a)[c] = "active" => as[c] = "active"
         /\ a.kind # "exact" /\ RowsOf(rows, a.content) = {} =>
              Remember(as, rows, a)[a.content] = "trashed"
BY DeedParts DEF Remember, Fates, MarksTrash

(***************************************************************************)
(* Numbering: finite sets have a greatest number, and the elements of a    *)
(* set get different ranks.                                                *)
(***************************************************************************)
LEMMA HasMax ==
  ASSUME NEW S \in SUBSET Nat, IsFiniteSet(S), S # {}
  PROVE  Max(S) \in S /\ \A y \in S : Max(S) >= y
<1> DEFINE R == StrictSubsetOrdering(S)
           Above(x) == {y \in S : y >= x}
           T == {Above(x) : x \in S}
<1>1. \A x \in S : x \in Nat
  OBVIOUS
<1>2. T # {} /\ T \subseteq FiniteSubsetsOf(S)
  <2>1. ASSUME NEW x \in S PROVE Above(x) \in SUBSET S /\ IsFiniteSet(Above(x))
    BY FS_Subset
  <2> HIDE DEF Above
  <2> QED
    BY <2>1 DEF FiniteSubsetsOf
<1>3. PICK U \in T : \A V \in T : <<V, U>> \notin R
  <2> HIDE DEF R, T
  <2>1. IsWellFoundedOn(R, FiniteSubsetsOf(S))
    BY FS_StrictSubsetOrderingWellFounded DEF R
  <2> QED
    BY <1>2, <2>1, WFMin
<1>4. PICK x \in S : U = Above(x)
  BY <1>3
<1>5. ASSUME NEW y \in S PROVE x >= y
  <2> SUFFICES ASSUME y > x PROVE FALSE
    BY <1>1
  <2>1. x \in Nat /\ y \in Nat
    BY <1>1
  <2>2. ASSUME NEW z \in S, z >= y PROVE z >= x
    BY <1>1, <2>1, <2>2
  <2>3. Above(y) \subseteq Above(x)
    BY <2>2, Zenon
  <2>4. ~(x >= y) /\ x >= x
    BY <2>1
  <2>5. x \in Above(x) /\ x \notin Above(y)
    BY <2>4, Zenon
  <2>6. <<Above(y), U>> \in R
    BY <1>4, <2>3, <2>5 DEF StrictSubsetOrdering
  <2> QED
    BY <1>3, <2>6
<1> QED
  BY <1>5 DEF Max

LEMMA Ranks ==
  ASSUME NEW S, IsFiniteSet(S)
  PROVE  /\ DOMAIN SetToSeq(S) = 1 .. Cardinality(S) /\ Cardinality(S) \in Nat
         /\ \A p \in S : \E n \in DOMAIN SetToSeq(S) : SetToSeq(S)[n] = p
<1> DEFINE D == 1 .. Cardinality(S)
           f == SetToSeq(S)
<1>1. Cardinality(S) \in Nat /\ \E g \in [D -> S] : IsInjective(g)
  <2>1. Cardinality(S) \in Nat /\ ExistsBijection(D, S)
    BY FS_CardinalityType
  <2>2. PICK g \in Bijection(D, S) : TRUE
    BY <2>1 DEF ExistsBijection
  <2>3. g \in [D -> S] /\ IsInjective(g)
    BY <2>2 DEF Bijection, Injection, IsInjective
  <2> QED
    BY <2>1, <2>3
<1>2. f \in [D -> S] /\ IsInjective(f)
  BY <1>1 DEF SetToSeq
<1>3. f \in Injection(D, S)
  BY <1>2 DEF Injection
<1>4. IsFiniteSet(D) /\ Cardinality(D) = Cardinality(S)
  <2>1. Cardinality(D) = IF 1 > Cardinality(S) THEN 0 ELSE Cardinality(S) - 1 + 1
    BY <1>1, FS_Interval
  <2> QED
    BY <1>1, <2>1, FS_Interval
<1>5. f \in Surjection(D, S)
  <2> HIDE DEF f, D
  <2> QED
    BY <1>3, <1>4, FS_Injection
<1> QED
  BY <1>1, <1>2, <1>5 DEF Surjection

LEMMA Numbers ==
  ASSUME disk \in [File -> Content \cup {Nothing}], NEW rows \in Rows, DistinctIds(rows), NEW S \in SUBSET Paths,
         \A p \in S : disk[p] # Nothing
  PROVE  /\ Numbered(rows, S) \in Rows /\ DistinctIds(Numbered(rows, S))
         /\ \A p \in Paths \ S : Numbered(rows, S)[p] = rows[p]
         /\ \A p \in S : Numbered(rows, S)[p] # Nothing /\ Numbered(rows, S)[p].content = disk[p]
<1> DEFINE order == SetToSeq(S)
           Rank(p) == CHOOSE n \in DOMAIN order : order[n] = p
           here == {q \in Paths : rows[q] # Nothing}
           f == [p \in here |-> rows[p].id]
           top == Max({0} \cup Ids(rows))
           num == [p \in Paths |-> IF p \in S THEN [id |-> top + Rank(p), content |-> disk[p]]
                                   ELSE rows[p]]
<1>1. Numbered(rows, S) = num
  BY DEF Numbered
<1>2. IsFiniteSet(S) /\ IsFiniteSet(here)
  BY Disjoint, FS_Subset
<1>3. Ids(rows) \subseteq Nat /\ IsFiniteSet(Ids(rows))
  <2>1. \A p \in here : rows[p].id \in Nat
    BY RowParts
  <2>2. f \in Surjection(here, Ids(rows))
    BY DEF Surjection, Ids
  <2> HIDE DEF f, here
  <2>3. IsFiniteSet(Ids(rows))
    BY <1>2, <2>2, FS_Surjection
  <2> QED
    BY <2>1, <2>3 DEF Ids, here
<1>4. top \in Nat /\ \A i \in Ids(rows) : i <= top
  <2>1. IsFiniteSet({0} \cup Ids(rows))
    BY <1>3, FS_Singleton, FS_Union
  <2>2. top \in {0} \cup Ids(rows) /\ \A y \in {0} \cup Ids(rows) : top >= y
    BY <1>3, <2>1, HasMax
  <2> HIDE DEF top
  <2> QED
    BY <1>3, <2>2
<1>5. \A p \in S : Rank(p) \in Nat /\ Rank(p) >= 1 /\ order[Rank(p)] = p
  <2>1. ASSUME NEW p \in S PROVE Rank(p) \in DOMAIN order /\ order[Rank(p)] = p
    BY <1>2, Ranks
  <2>2. DOMAIN order = 1 .. Cardinality(S) /\ Cardinality(S) \in Nat
    BY <1>2, Ranks
  <2> HIDE DEF order, Rank
  <2> QED
    BY <2>1, <2>2
<1> HIDE DEF order, Rank, top
<1>6. \A p \in S : num[p] = [id |-> top + Rank(p), content |-> disk[p]]
  OBVIOUS
<1>7. \A p \in Paths \ S : num[p] = rows[p]
  OBVIOUS
<1>8. \A p \in S : disk[p] \in Content
  BY Disjoint
<1>9. \A p \in S : /\ num[p] \in RowType /\ num[p] # Nothing /\ num[p].content = disk[p]
                   /\ num[p].id = top + Rank(p)
  BY <1>4, <1>5, <1>6, <1>8, Disjoint DEF RowType
<1>10. num \in Rows
  BY <1>7, <1>9 DEF Rows
<1> HIDE DEF num, here, f
<1>11. \A p \in Paths \ S : num[p] # Nothing => num[p].id \in Nat /\ num[p].id <= top
  <2>1. ASSUME NEW p \in Paths \ S, num[p] # Nothing PROVE num[p].id \in Ids(rows)
    BY <1>7, <2>1 DEF Ids
  <2> QED
    BY <1>3, <1>4, <2>1
<1>12. ASSUME NEW p \in Paths, NEW q \in Paths, num[p] # Nothing, num[q] # Nothing, num[p].id = num[q].id
       PROVE  p = q
  <2>1. CASE p \in S /\ q \in S
    <3>1. top + Rank(p) = top + Rank(q)
      BY <1>9, <1>12, <2>1
    <3>2. Rank(p) = Rank(q)
      BY <1>4, <1>5, <2>1, <3>1
    <3> QED
      BY <1>5, <2>1, <3>2
  <2>2. CASE p \notin S /\ q \notin S
    BY <1>7, <1>12, <2>2 DEF DistinctIds
  <2>3. CASE p \in S /\ q \notin S
    BY <1>4, <1>5, <1>9, <1>11, <1>12, <2>3
  <2>4. CASE p \notin S /\ q \in S
    BY <1>4, <1>5, <1>9, <1>11, <1>12, <2>4
  <2> QED
    BY <2>1, <2>2, <2>3, <2>4
<1>13. DistinctIds(num)
  BY <1>12 DEF DistinctIds
<1> QED
  BY <1>1, <1>7, <1>9, <1>10, <1>13

(***************************************************************************)
(* Steps that only take a job further, or end it                           *)
(***************************************************************************)
LEMMA BooksStay ==
  ASSUME Books, UNCHANGED <<disk, row, asset, ghost>>, ~Holding, ~Holding'
  PROVE  Books'
<1>1. \A c \in Content : RowsOf(row, c)' = RowsOf(row, c)
  BY DEF RowsOf
<1>2. ghost.condemned' \ (ghost.lapsed' \cup ghost.untrashed') = ghost.condemned \ (ghost.lapsed \cup ghost.untrashed)
  OBVIOUS
<1> QED
  BY <1>1, <1>2 DEF Books, Missed, OrphansOnlyByUntrash, Remembered, RowsOf

LEMMA Eases ==
  ASSUME IInv, Course', UNCHANGED <<disk, row, asset, ghost>>, ~Holding, ~Holding',
         run' \in RunType, stage' \in StageType, stage'.links \subseteq stage.links,
         job'.exact \subseteq Deeds, job'.done \subseteq Deeds,
         \A a \in Deeds : /\ Ordered(a)' => Ordered(a) /\ job'.kind = job.kind
                          /\ Found(a)' => Found(a)
                          /\ Shelved(a)' => Shelved(a),
         job'.at \in {"stat", "link"} =>
            job.at \in {"stat", "link"} /\ job'.todo \cup job'.done \subseteq job.todo \cup job.done,
         job'.at \in {"stat", "link", "exact"} =>
            job.at \in {"stat", "link", "exact"} /\ job'.exact \subseteq job.exact
  PROVE  IInv'
<1>1. Typed /\ Truthful /\ Sentenced /\ Books
  BY DEF IInv
<1>2. Typed'
  BY <1>1 DEF Typed
<1>3. \A a \in Deeds : Noted(a)' => Noted(a)
  BY DEF Noted
<1>4. Truthful'
  BY <1>1, <1>3 DEF Truthful, DistinctIds, Names
<1>5. Sentenced'
  <2>1. \A a \in Deeds : Noted(a)' /\ a.kind = "exact" => Trash(a.content)'
    BY <1>1, <1>3 DEF Sentenced, Trash
  <2>2. \A a \in Deeds : Ordered(a)' =>
          /\ a.kind = "undecodable" => a.content \in Broken
          /\ a.kind = "perceptual" =>
                a.path \in ghost'.offered \ ghost'.spared /\ job'.kind = "confirm"
    BY <1>1 DEF Sentenced
  <2>3. \A a \in Deeds : Shelved(a)' =>
          /\ a.kind # "undecodable"
          /\ a.kind = "perceptual" =>
                a.path \in ghost'.offered /\ (a.path \in stage'.links => a.path \notin ghost'.spared)
    BY <1>1 DEF Sentenced
  <2>4. job'.at \in {"stat", "link"} => \A a \in job'.todo \cup job'.done : a.kind = "perceptual"
    BY <1>1 DEF Sentenced
  <2>5. job'.at \in {"stat", "link", "exact"} => \A a \in job'.exact : a.kind = "exact"
    BY <1>1 DEF Sentenced
  <2> QED
    BY <2>1, <2>2, <2>3, <2>4, <2>5 DEF Sentenced
<1>6. Books'
  BY <1>1, BooksStay
<1> QED
  BY <1>2, <1>4, <1>5, <1>6 DEF IInv

LEMMA StartKeeps ==
  ASSUME IInv, NEW kind \in Kinds, Start(kind)
  PROVE  IInv'
<1>1. Typed /\ Course
  BY DEF IInv
<1>2. /\ job = NoJob /\ job.at = "idle"
      /\ UNCHANGED <<disk, row, asset, run, stage, ghost>>
  BY <1>1, NothingLeft DEF Start, Course
<1>3. PICK todo \in CASE FirstStep(kind) = "absorb" -> {{b \in Bin : disk[b] # Nothing}, {}}
                   [] kind = "untrash"           -> SUBSET Content \ {{}}
                   [] OTHER                      -> {{}} :
         job' = [NoJob EXCEPT !.kind = kind, !.at = FirstStep(kind), !.todo = todo]
  BY DEF Start
<1>4. /\ job'.kind = kind /\ job'.at = FirstStep(kind) /\ job'.todo = todo
      /\ job'.done = {} /\ job'.exact = {} /\ job'.hold = Nothing /\ Shape'
  BY <1>3 DEF NoJob, Shape
<1>5. FirstStep(kind) \in {"absorb", "list", "untrash", "check"}
  BY DEF FirstStep, Kinds
<1>6. FirstStep(kind) = "absorb" => todo \subseteq Bin
  <2>1. FirstStep("untrash") = "untrash"
    BY DEF FirstStep
  <2>2. SUFFICES ASSUME FirstStep(kind) = "absorb" PROVE todo \subseteq Bin
    OBVIOUS
  <2>3. kind # "untrash"
    BY <2>1, <2>2
  <2> QED
    BY <1>3, <2>2, <2>3
<1>7. kind # "none" /\ (FirstStep(kind) = "check" => kind \in {"confirm", "cancel"})
  BY DEF Kinds, FirstStep
<1>8. Course'
  BY <1>4, <1>5, <1>6, <1>7 DEF Course, Holding, Idle
<1>9. ~Holding /\ ~Holding'
  BY <1>2, <1>4, <1>5 DEF Holding
<1>10. \A a \in Deeds : /\ Ordered(a)' => Ordered(a) /\ job'.kind = job.kind
                        /\ Found(a)' => Found(a)
                        /\ Shelved(a)' => Shelved(a)
  BY <1>2, <1>4, <1>5 DEF Ordered, Found, Shelved, Pending
<1> QED
  BY <1>1, <1>2, <1>4, <1>5, <1>8, <1>9, <1>10, Eases DEF Typed

LEMMA FinishKeeps ==
  ASSUME IInv, Finish, ~Holding, UNCHANGED <<disk, row, asset, ghost>>,
         run' \in RunType, run'.actions = run.actions, run'.status # run.status => run'.status # "pending",
         stage' \in StageType, stage'.links \subseteq stage.links
  PROVE  IInv'
<1>1. /\ job'.kind = "none" /\ job'.at = "idle" /\ job'.todo = {} /\ job'.done = {} /\ job'.exact = {}
      /\ job'.hold = Nothing /\ Shape' /\ job' = NoJob
  BY NothingLeft DEF Finish, Shape
<1>2. Course'
  BY <1>1 DEF Course, Holding, Idle
<1>3. \A a \in Deeds : ~Ordered(a)' /\ ~Found(a)' /\ (Shelved(a)' => Shelved(a))
  BY <1>1 DEF Ordered, Found, Shelved, Pending
<1> QED
  BY <1>1, <1>2, <1>3, Eases DEF Holding

LEMMA AbsorbedKeeps ==
  ASSUME IInv, Absorbed
  PROVE  IInv'
<1>1. Typed /\ Course
  BY DEF IInv
<1>2. job.at = "absorb" /\ UNCHANGED <<disk, row, asset, run, stage, ghost>> /\ ~Holding /\ job.hold = Nothing
  BY DEF Absorbed, Holding
<1>3. CASE job.kind = "analyze"
  <2>1. job' = [job EXCEPT !.at = "open"]
    BY <1>3 DEF Absorbed
  <2>2. /\ job'.at = "open" /\ job'.kind = job.kind /\ job'.todo = job.todo /\ job'.done = job.done
        /\ job'.exact = job.exact /\ job'.hold = job.hold /\ Shape'
    BY <1>1, <2>1 DEF Course, Shape
  <2>3. Course' /\ ~Holding'
    BY <1>1, <1>2, <1>3, <2>2 DEF Course, Holding, Idle
  <2>4. \A a \in Deeds : ~Ordered(a)' /\ ~Found(a)' /\ (Shelved(a)' => Shelved(a))
    BY <1>2, <2>2 DEF Ordered, Found, Shelved, Pending
  <2> QED
    BY <1>1, <1>2, <2>2, <2>3, <2>4, Eases DEF Typed
<1>4. CASE job.kind # "analyze"
  BY <1>1, <1>2, <1>4, FinishKeeps DEF Absorbed, Typed
<1> QED
  BY <1>3, <1>4

LEMMA MakeFolderKeeps ==
  ASSUME IInv, MakeFolder
  PROVE  IInv'
<1>1. Typed /\ Course
  BY DEF IInv
<1>2. job.at = "stat" /\ job.todo = {} /\ UNCHANGED <<disk, row, asset, run, ghost>> /\ ~Holding
  BY DEF MakeFolder, Holding
<1>3. /\ job.kind = "analyze" /\ job.hold = Nothing /\ job.done \subseteq Deeds /\ Pending /\ run.actions = {}
  BY <1>1, <1>2 DEF Course, Typed
<1>4. stage' \in StageType /\ stage'.links = stage.links
  BY <1>1 DEF MakeFolder, Typed, StageType
<1>5. CASE job.done = {}
  <2>1. job' = [job EXCEPT !.at = "exact"]
    BY <1>5 DEF MakeFolder
  <2>2. /\ job'.at = "exact" /\ job'.kind = job.kind /\ job'.todo = job.todo /\ job'.done = job.done
        /\ job'.exact = job.exact /\ job'.hold = job.hold /\ Shape'
    BY <1>1, <2>1 DEF Course, Shape
  <2>3. Course' /\ ~Holding'
    BY <1>3, <2>2 DEF Course, Holding, Idle
  <2>4. \A a \in Deeds : ~Ordered(a)' /\ (Found(a)' => Found(a)) /\ (Shelved(a)' => Shelved(a))
    BY <1>2, <2>2 DEF Ordered, Found, Shelved, Pending
  <2> QED
    BY <1>1, <1>2, <1>4, <2>2, <2>3, <2>4, Eases DEF Typed
<1>6. CASE job.done # {}
  <2>1. job' = [job EXCEPT !.at = "link", !.todo = job.done, !.done = {}]
    BY <1>6 DEF MakeFolder
  <2>2. /\ job'.at = "link" /\ job'.kind = job.kind /\ job'.todo = job.done /\ job'.done = {}
        /\ job'.exact = job.exact /\ job'.hold = job.hold /\ Shape'
    BY <1>1, <2>1 DEF Course, Shape
  <2>3. Course' /\ ~Holding'
    BY <1>2, <1>3, <2>2 DEF Course, Holding, Idle, Pending
  <2>4. \A a \in Deeds : ~Ordered(a)' /\ (Found(a)' => Found(a)) /\ (Shelved(a)' => Shelved(a))
    BY <1>2, <2>2 DEF Ordered, Found, Shelved, Pending
  <2> QED
    BY <1>1, <1>2, <1>4, <2>2, <2>3, <2>4, Eases DEF Typed
<1> QED
  BY <1>5, <1>6

LEMMA DeletedKeeps ==
  ASSUME IInv, Deleted
  PROVE  IInv'
<1>1. Typed /\ Course
  BY DEF IInv
<1>2. /\ job.at = "delete" /\ job.todo = {} /\ job.hold = Nothing
      /\ UNCHANGED <<disk, row, asset, run, stage, ghost>> /\ ~Holding
  BY DEF Deleted, Holding
<1>3. CASE job.kind = "confirm"
  <2>1. job' = [job EXCEPT !.at = "tidy"]
    BY <1>3 DEF Deleted
  <2>2. /\ job'.at = "tidy" /\ job'.kind = job.kind /\ job'.todo = job.todo /\ job'.done = job.done
        /\ job'.exact = job.exact /\ job'.hold = job.hold /\ Shape'
    BY <1>1, <2>1 DEF Course, Shape
  <2>3. Course' /\ ~Holding'
    BY <1>1, <1>2, <1>3, <2>2 DEF Course, Holding, Idle
  <2>4. \A a \in Deeds : ~Ordered(a)' /\ ~Found(a)' /\ (Shelved(a)' => Shelved(a))
    BY <1>2, <2>2 DEF Ordered, Found, Shelved, Pending
  <2> QED
    BY <1>1, <1>2, <2>2, <2>3, <2>4, Eases DEF Typed
<1>4. CASE job.kind # "confirm"
  BY <1>1, <1>2, <1>4, FinishKeeps DEF Deleted, Typed
<1> QED
  BY <1>3, <1>4

LEMMA TidyKeeps ==
  ASSUME IInv, Tidy
  PROVE  IInv'
<1>1. Typed /\ Course
  BY DEF IInv
<1>2. job.at = "tidy" /\ UNCHANGED <<disk, row, asset, run, ghost>> /\ ~Holding /\ stage' = NoStage
  BY DEF Tidy, Holding
<1>3. job.hold = Nothing /\ ~Idle
  BY <1>1, <1>2, NothingLeft DEF Course
<1>4. stage' \in StageType /\ stage'.links = {}
  BY <1>2 DEF NoStage, StageType
<1>5. /\ job'.at = "close" /\ job'.kind = job.kind /\ job'.todo = job.todo /\ job'.done = job.done
      /\ job'.exact = job.exact /\ job'.hold = job.hold /\ Shape'
  BY <1>1 DEF Tidy, Course, Shape
<1>6. Course' /\ ~Holding'
  BY <1>1, <1>2, <1>3, <1>5 DEF Course, Holding, Idle
<1>7. \A a \in Deeds : ~Ordered(a)' /\ ~Found(a)' /\ (Shelved(a)' => Shelved(a))
  BY <1>2, <1>5 DEF Ordered, Found, Shelved, Pending
<1> QED
  BY <1>1, <1>2, <1>4, <1>5, <1>6, <1>7, Eases DEF Typed

LEMMA CloseKeeps ==
  ASSUME IInv, Close
  PROVE  IInv'
<1>1. Typed /\ Course
  BY DEF IInv
<1>2. job.at = "close" /\ UNCHANGED <<disk, row, asset, stage, ghost>> /\ ~Holding /\ Finish
  BY DEF Close, Holding
<1>3. run' \in RunType /\ run'.actions = run.actions /\ run'.status \in {"completed", "cancelled"}
  BY <1>1 DEF Close, Typed, RunType
<1> QED
  BY <1>1, <1>2, <1>3, FinishKeeps DEF Typed

LEMMA CancelledKeeps ==
  ASSUME IInv, Cancelled
  PROVE  IInv'
<1>1. Typed /\ ~Holding /\ Finish /\ UNCHANGED <<disk, row, asset, run, stage, ghost>>
  BY DEF IInv, Cancelled, Holding
<1> QED
  BY <1>1, FinishKeeps DEF Typed

(***************************************************************************)
(* The user                                                                *)
(***************************************************************************)
LEMMA VanishKeeps ==
  ASSUME IInv, NEW p \in File, Vanish(p), UNCHANGED <<row, asset, run, job>>
  PROVE  IInv'
<1>1. Typed /\ Course /\ Truthful /\ Sentenced /\ Books
  BY DEF IInv
<1> DEFINE cs == IF p \in Paths /\ row[p] # Nothing THEN {row[p].content} ELSE {}
<1>2. /\ disk' = [disk EXCEPT ![p] = Nothing] /\ ghost' = [ghost EXCEPT !.lapsed = @ \cup cs]
      /\ UNCHANGED <<row, asset, run, job, stage>>
  BY DEF Vanish, Lapse
<1>3. cs \subseteq Content
  BY <1>1, RowParts DEF Typed
<1>4. p \in Paths /\ row[p] # Nothing => row[p].content \in cs
  OBVIOUS
<1> HIDE DEF cs
<1>5. /\ ghost' \in GhostType /\ ghost'.lapsed = ghost.lapsed \cup cs
      /\ ghost'.offered = ghost.offered /\ ghost'.spared = ghost.spared
      /\ ghost'.condemned = ghost.condemned /\ ghost'.untrashed = ghost.untrashed
      /\ ghost'.reused = ghost.reused
  BY <1>1, <1>2, <1>3 DEF Typed, GhostType
<1>6. disk' \in [File -> Content \cup {Nothing}] /\ \A q \in File \ {p} : disk'[q] = disk[q]
  BY <1>1, <1>2 DEF Typed
<1>7. Typed'
  BY <1>1, <1>2, <1>5, <1>6 DEF Typed
<1>8. Course'
  BY <1>1, <1>2 DEF Course, Shape, Holding, Idle, Pending
<1>9. Truthful' /\ Sentenced'
  BY <1>1, <1>2, <1>5 DEF Truthful, Sentenced, Noted, Ordered, Found, Shelved, Trash, Names, DistinctIds, Pending
<1>10. Missed'
  BY <1>1, <1>2, <1>4, <1>5, <1>6, Disjoint DEF Books, Missed, Holding
<1>11. OrphansOnlyByUntrash' /\ Remembered'
  BY <1>1, <1>2, <1>5 DEF Books, OrphansOnlyByUntrash, Remembered, Holding, RowsOf
<1> QED
  BY <1>7, <1>8, <1>9, <1>10, <1>11 DEF IInv, Books

LEMMA AddKeeps ==
  ASSUME IInv, NEW p \in File, NEW c \in Content, Add(p, c), UNCHANGED <<row, asset, run, job>>
  PROVE  IInv'
<1>1. Typed /\ Course /\ Truthful /\ Sentenced /\ Books
  BY DEF IInv
<1>2. /\ disk' = [disk EXCEPT ![p] = c] /\ disk[p] = Nothing
      /\ UNCHANGED <<row, asset, run, job, stage, ghost>>
  BY DEF Add
<1>3. disk' \in [File -> Content \cup {Nothing}] /\ \A q \in File \ {p} : disk'[q] = disk[q]
  BY <1>1, <1>2 DEF Typed
<1>4. Typed'
  BY <1>1, <1>2, <1>3 DEF Typed
<1>5. Course'
  BY <1>1, <1>2 DEF Course, Shape, Holding, Idle, Pending
<1>6. Truthful' /\ Sentenced'
  BY <1>1, <1>2 DEF Truthful, Sentenced, Noted, Ordered, Found, Shelved, Trash, Names, DistinctIds, Pending
<1>7. Missed'
  <2>1. \A q \in Paths : row[q] # Nothing => row[q].content # Nothing
    BY <1>1, RowParts, Disjoint DEF Typed
  <2> QED
    BY <1>1, <1>2, <1>3, <2>1, Disjoint DEF Books, Missed, Holding
<1>8. OrphansOnlyByUntrash' /\ Remembered'
  BY <1>1, <1>2 DEF Books, OrphansOnlyByUntrash, Remembered, Holding, RowsOf
<1> QED
  BY <1>4, <1>5, <1>6, <1>7, <1>8 DEF IInv, Books

\* What the user removes from the folder leaves it, and is spared.
LEMMA SparedKeeps ==
  ASSUME IInv, NEW ps, ps = stage.links \ stage'.links, stage' \in StageType,
         stage'.links \subseteq stage.links, Spare(ps), UNCHANGED <<disk, row, asset, run, job>>
  PROVE  IInv'
<1>1. Typed /\ Course /\ Truthful /\ Sentenced /\ Books
  BY DEF IInv
<1>2. ps \subseteq Lib
  BY <1>1, RecordTypes DEF Typed
<1>3. /\ ghost' \in GhostType
      /\ ghost'.spared = IF job.kind = "confirm" THEN ghost.spared ELSE ghost.spared \cup ps
      /\ ghost'.offered = ghost.offered /\ ghost'.lapsed = ghost.lapsed
      /\ ghost'.condemned = ghost.condemned /\ ghost'.untrashed = ghost.untrashed
      /\ ghost'.reused = ghost.reused
  BY <1>1, <1>2 DEF Typed, GhostType, Spare
<1>4. Typed'
  BY <1>1, <1>3 DEF Typed
<1>5. Course'
  BY <1>1 DEF Course, Shape, Holding, Idle, Pending
<1>6. Truthful'
  BY <1>1, <1>3 DEF Truthful, Noted, Ordered, Found, Shelved, Names, DistinctIds, Pending
<1>7. Sentenced'
  <2>1. \A a \in Deeds : /\ Ordered(a)' <=> Ordered(a)
                         /\ Shelved(a)' <=> Shelved(a)
                         /\ Noted(a)' <=> Noted(a)
    BY DEF Noted, Ordered, Found, Shelved, Pending
  <2>2. \A a \in Deeds : Ordered(a)' /\ a.kind = "perceptual" =>
          a.path \in ghost'.offered \ ghost'.spared /\ job'.kind = "confirm"
    BY <1>1, <1>3, <2>1 DEF Sentenced
  <2>3. \A a \in Deeds : Shelved(a)' /\ a.kind = "perceptual" =>
          a.path \in ghost'.offered /\ (a.path \in stage'.links => a.path \notin ghost'.spared)
    BY <1>1, <1>3, <2>1 DEF Sentenced
  <2> QED
    BY <1>1, <1>3, <2>1, <2>2, <2>3 DEF Sentenced, Trash
<1>8. Books'
  BY <1>1, <1>3 DEF Books, Missed, OrphansOnlyByUntrash, Remembered, Holding, RowsOf
<1> QED
  BY <1>4, <1>5, <1>6, <1>7, <1>8 DEF IInv

LEMMA UserKeeps ==
  ASSUME IInv, User
  PROVE  IInv'
<1>1. UNCHANGED <<row, asset, run, job>> /\ stage \in StageType
  BY DEF User, IInv, Typed
<1>2. CASE \E p \in File : Vanish(p)
  BY <1>1, <1>2, VanishKeeps
<1>3. CASE \E p \in File, c \in Content : Add(p, c)
  BY <1>1, <1>3, AddKeeps
<1>4. CASE DropFolder
  <2>1. stage'.links = {} /\ stage' \in StageType
    BY <1>4 DEF DropFolder, NoStage, StageType
  <2> DEFINE ps == stage.links \ stage'.links
  <2>2. ps = stage.links
    BY <2>1
  <2>3. Spare(ps) /\ disk' = disk
    BY <1>4, <2>2 DEF DropFolder
  <2>4. stage'.links \subseteq stage.links
    BY <2>1
  <2> HIDE DEF ps
  <2>5. ps = stage.links \ stage'.links
    BY DEF ps
  <2> QED
    BY <1>1, <2>1, <2>3, <2>4, <2>5, SparedKeeps
<1>5. CASE \E p \in Lib : Untick(p)
  <2>1. PICK p \in Lib : Untick(p)
    BY <1>5
  <2>2. p \in stage.links /\ stage'.links = stage.links \ {p} /\ stage' \in StageType /\ disk' = disk
        /\ Spare({p})
    BY <1>1, <2>1 DEF Untick, StageType
  <2>3. {p} = stage.links \ stage'.links /\ stage'.links \subseteq stage.links
    BY <2>2
  <2> QED
    BY <1>1, <2>2, <2>3, SparedKeeps
<1> QED
  BY <1>2, <1>3, <1>4, <1>5 DEF User

(***************************************************************************)
(* The trash refresh                                                       *)
(***************************************************************************)
LEMMA AbsorbKeeps ==
  ASSUME IInv, NEW b \in Bin, Absorb(b)
  PROVE  IInv'
<1>1. Typed /\ Course /\ Truthful /\ Sentenced /\ Books
  BY DEF IInv
<1>2. /\ job.at = "absorb" /\ job.hold = Nothing /\ ~Holding
      /\ UNCHANGED <<disk, row, run, stage, ghost>>
  BY DEF Absorb, Holding
<1>3. /\ job.todo \subseteq Bin /\ job.done = {} /\ job.exact = {} /\ ~Idle
  BY <1>1, <1>2, NothingLeft DEF Course
<1>4. CASE asset' = asset /\ job' = [job EXCEPT !.todo = @ \ {b}]
  <2>1. /\ job'.at = "absorb" /\ job'.kind = job.kind /\ job'.todo = job.todo \ {b} /\ job'.done = {}
        /\ job'.exact = {} /\ job'.hold = Nothing /\ Shape'
    BY <1>1, <1>2, <1>3, <1>4 DEF Course, Shape
  <2>2. Course' /\ ~Holding'
    BY <1>3, <2>1 DEF Course, Holding, Idle
  <2>3. \A a \in Deeds : ~Ordered(a)' /\ ~Found(a)' /\ (Shelved(a)' => Shelved(a))
    BY <1>2, <2>1 DEF Ordered, Found, Shelved, Pending
  <2> QED
    BY <1>1, <1>2, <1>4, <2>1, <2>2, <2>3, Eases DEF Typed
<1>5. CASE /\ disk[b] # Nothing
           /\ asset' = [asset EXCEPT ![disk[b]] = "trashed"]
           /\ job' = [job EXCEPT !.hold = [path |-> b, content |-> disk[b]]]
  <2> DEFINE h == [path |-> b, content |-> disk[b]]
  <2>1. disk[b] \in Content
    BY <1>1, <1>5, Disjoint DEF Typed
  <2>2. asset' \in Fates /\ asset'[disk[b]] = "trashed" /\ \A c \in Content : asset'[c] = asset[c] \/ asset'[c] = "trashed"
    BY <1>1, <1>5, <2>1 DEF Typed, Fates
  <2>3. /\ job'.at = "absorb" /\ job'.kind = job.kind /\ job'.todo = job.todo /\ job'.done = {}
        /\ job'.exact = {} /\ job'.hold = h /\ Shape'
    BY <1>1, <1>2, <1>3, <1>5 DEF Course, Shape
  <2>4. h \in Thrown /\ h.content = disk[b]
    BY <2>1 DEF Thrown
  <2>5. asset'[h.content] = "trashed"
    BY <2>2, <2>4
  <2> HIDE DEF h
  <2>6. Course' /\ ~Holding'
    BY <1>3, <2>3, <2>4, <2>5 DEF Course, Holding, Idle
  <2>7. Typed'
    BY <1>1, <1>2, <2>2, <2>3 DEF Typed
  <2>8. \A a \in Deeds : ~Ordered(a)' /\ ~Found(a)' /\ (Shelved(a)' <=> Shelved(a))
    BY <1>2, <2>3 DEF Ordered, Found, Shelved, Pending
  <2>9. \A a \in Deeds : Noted(a)' => Noted(a) /\ Shelved(a)
    BY <2>8 DEF Noted
  <2>10. Truthful'
    BY <1>1, <1>2, <2>9 DEF Truthful, DistinctIds, Names
  <2>11. \A c \in Content : Trash(c) => Trash(c)'
    BY <1>2, <2>2 DEF Trash
  <2>12. Sentenced'
    <3>1. \A a \in Deeds : Noted(a)' /\ a.kind = "exact" => Trash(a.content)'
      BY <1>1, <2>9, <2>11, DeedParts DEF Sentenced
    <3> QED
      BY <1>1, <1>2, <2>3, <2>8, <3>1 DEF Sentenced
  <2>13. Missed'
    BY <1>1, <1>2, <2>6 DEF Books, Missed
  <2>14. OrphansOnlyByUntrash'
    BY <1>1, <1>2, <2>2 DEF Books, OrphansOnlyByUntrash, RowsOf
  <2>15. Remembered'
    BY <1>1, <1>2, <2>2, RecordTypes DEF Typed, Books, Remembered, RowsOf
  <2> QED
    BY <2>6, <2>7, <2>10, <2>12, <2>13, <2>14, <2>15 DEF IInv, Books
<1> QED
  BY <1>4, <1>5 DEF Absorb

LEMMA EmptyKeeps ==
  ASSUME IInv, Empty
  PROVE  IInv'
<1>1. Typed /\ Course /\ Truthful /\ Sentenced /\ Books
  BY DEF IInv
<1>2. /\ job.at = "absorb" /\ job.hold # Nothing /\ ~Holding
      /\ UNCHANGED <<row, asset, run, stage>>
  BY DEF Empty, Holding
<1> DEFINE b == job.hold.path
           c == job.hold.content
<1>3. /\ job.todo \subseteq Bin /\ job.done = {} /\ job.exact = {} /\ ~Idle /\ job.hold \in Thrown
      /\ asset[c] = "trashed"
  BY <1>1, <1>2, NothingLeft DEF Course
<1>4. b \in Bin /\ c \in Content
  BY <1>3 DEF Thrown
<1>5. /\ \/ disk' = disk \/ disk' = [disk EXCEPT ![b] = Nothing]
      /\ \/ ghost' = ghost
         \/ disk[b] = c /\ ghost' = [ghost EXCEPT !.condemned = @ \cup {disk[b]}]
      /\ job' = [job EXCEPT !.hold = Nothing, !.todo = @ \ {b}]
  BY DEF Empty
<1>6. /\ job'.at = "absorb" /\ job'.kind = job.kind /\ job'.todo = job.todo \ {b} /\ job'.done = {}
      /\ job'.exact = {} /\ job'.hold = Nothing /\ Shape'
  BY <1>1, <1>2, <1>3, <1>5 DEF Course, Shape
<1> HIDE DEF b, c
<1>7. disk' \in [File -> Content \cup {Nothing}] /\ \A p \in Paths : disk'[p] = disk[p]
  BY <1>1, <1>4, <1>5, Disjoint DEF Typed
<1>8. /\ ghost' \in GhostType /\ ghost'.condemned \subseteq ghost.condemned \cup {c}
      /\ ghost'.offered = ghost.offered /\ ghost'.spared = ghost.spared
      /\ ghost'.lapsed = ghost.lapsed /\ ghost'.untrashed = ghost.untrashed
      /\ ghost'.reused = ghost.reused
  BY <1>1, <1>4, <1>5 DEF Typed, GhostType
<1>9. Typed'
  BY <1>1, <1>2, <1>6, <1>7, <1>8 DEF Typed
<1>10. Course' /\ ~Holding'
  BY <1>3, <1>6 DEF Course, Holding, Idle
<1>11. \A a \in Deeds : ~Ordered(a)' /\ ~Found(a)' /\ (Shelved(a)' <=> Shelved(a))
  BY <1>2, <1>6 DEF Ordered, Found, Shelved, Pending
<1>12. \A a \in Deeds : Noted(a)' => Noted(a) /\ Shelved(a)
  BY <1>11 DEF Noted
<1>13. Truthful'
  BY <1>1, <1>2, <1>8, <1>12 DEF Truthful, DistinctIds, Names
<1>14. Sentenced'
  <2>1. \A a \in Deeds : Noted(a)' /\ a.kind = "exact" => Trash(a.content)'
    BY <1>1, <1>2, <1>8, <1>12 DEF Sentenced, Trash
  <2> QED
    BY <1>1, <1>2, <1>6, <1>8, <1>11, <2>1 DEF Sentenced
<1>15. Missed'
  BY <1>1, <1>2, <1>7, <1>8, <1>10 DEF Books, Missed
<1>16. OrphansOnlyByUntrash'
  BY <1>1, <1>2, <1>8 DEF Books, OrphansOnlyByUntrash, RowsOf
<1>17. Remembered'
  BY <1>1, <1>2, <1>3, <1>8 DEF Books, Remembered, RowsOf
<1> QED
  BY <1>9, <1>10, <1>13, <1>14, <1>15, <1>16, <1>17 DEF IInv, Books

(***************************************************************************)
(* The analyze of a review                                                 *)
(***************************************************************************)
LEMMA Matches ==
  ASSUME Typed, DistinctIds(row)
  PROVE  /\ ExactMatches \subseteq Deeds /\ Undecodables \subseteq Deeds /\ Candidates \subseteq Deeds
         /\ \A a \in ExactMatches : Names(row, a) /\ a.kind = "exact" /\ asset[a.content] = "trashed"
         /\ \A a \in Undecodables : Names(row, a) /\ a.kind = "undecodable" /\ a.content \in Broken
         /\ \A a \in Candidates : Names(row, a) /\ a.kind = "perceptual"
<1>1. ASSUME NEW a \in ExactMatches
      PROVE  a \in Deeds /\ Names(row, a) /\ a.kind = "exact" /\ asset[a.content] = "trashed"
  <2>1. PICK p \in Lib : a = Action("exact", p) /\ row[p] # Nothing /\ asset[row[p].content] = "trashed"
    BY DEF ExactMatches, InLib
  <2> QED
    BY <2>1, Acts
<1>2. ASSUME NEW a \in Undecodables
      PROVE  a \in Deeds /\ Names(row, a) /\ a.kind = "undecodable" /\ a.content \in Broken
  <2>1. PICK p \in Lib : a = Action("undecodable", p) /\ row[p] # Nothing /\ row[p].content \in Broken
    BY DEF Undecodables, InLib
  <2> QED
    BY <2>1, Acts
<1>3. ASSUME NEW a \in Candidates
      PROVE  a \in Deeds /\ Names(row, a) /\ a.kind = "perceptual"
  <2>1. PICK p \in Lib : a = Action("perceptual", p) /\ row[p] # Nothing
    BY DEF Candidates, InLib
  <2> QED
    BY <2>1, Acts
<1> QED
  BY <1>1, <1>2, <1>3

LEMMA OpenKeeps ==
  ASSUME IInv, Open
  PROVE  IInv'
<1>1. Typed /\ Course /\ Truthful /\ Sentenced /\ Books
  BY DEF IInv
<1>2. job.at = "open" /\ UNCHANGED <<disk, row, asset, stage, ghost>> /\ ~Holding
  BY DEF Open, Holding
<1>3. job.kind = "analyze" /\ job.done = {} /\ job.hold = Nothing
  BY <1>1, <1>2 DEF Course
<1>4. CASE ExactMatches \cup Candidates = {}
  BY <1>1, <1>2, <1>4, FinishKeeps DEF Open, Typed
<1>5. CASE ExactMatches \cup Candidates # {}
  <2>1. /\ run' = [status |-> "pending", actions |-> {}]
        /\ job' = [job EXCEPT !.at = "stat", !.exact = ExactMatches, !.todo = Candidates]
    BY <1>5 DEF Open
  <2>2. /\ job'.at = "stat" /\ job'.kind = job.kind /\ job'.todo = Candidates /\ job'.done = {}
        /\ job'.exact = ExactMatches /\ job'.hold = Nothing /\ Shape'
    BY <1>1, <1>3, <2>1 DEF Course, Shape
  <2>3. run' \in RunType /\ Pending' /\ run'.actions = {}
    BY <2>1 DEF RunType, Pending
  <2>4. /\ ExactMatches \subseteq Deeds /\ Candidates \subseteq Deeds
        /\ \A a \in ExactMatches : Names(row, a) /\ a.kind = "exact" /\ asset[a.content] = "trashed"
        /\ \A a \in Candidates : Names(row, a) /\ a.kind = "perceptual"
    BY <1>1, Matches DEF Truthful
  <2>5. Typed'
    BY <1>1, <1>2, <2>2, <2>3, <2>4 DEF Typed
  <2>6. Course' /\ ~Holding'
    BY <1>3, <2>2, <2>3, <2>4 DEF Course, Holding, Idle
  <2>7. \A a \in Deeds : /\ ~Ordered(a)' /\ ~Shelved(a)'
                         /\ Found(a)' => a \in ExactMatches \cup Candidates
    BY <2>2, <2>3 DEF Ordered, Found, Shelved
  <2>8. Truthful'
    BY <1>1, <1>2, <2>4, <2>7 DEF Truthful, DistinctIds, Names, Noted
  <2>9. Sentenced'
    <3>1. \A a \in Deeds : Noted(a)' /\ a.kind = "exact" => Trash(a.content)'
      BY <1>2, <2>4, <2>7 DEF Trash, Noted
    <3> QED
      BY <2>2, <2>4, <2>7, <3>1 DEF Sentenced
  <2>10. Books'
    BY <1>1, <1>2, <2>6, BooksStay
  <2> QED
    BY <2>5, <2>6, <2>8, <2>9, <2>10 DEF IInv
<1> QED
  BY <1>4, <1>5

LEMMA LinkKeeps ==
  ASSUME IInv, NEW a \in job.todo, Link(a)
  PROVE  IInv'
<1>1. Typed /\ Course /\ Truthful /\ Sentenced /\ Books
  BY DEF IInv
<1>2. job.at = "link" /\ UNCHANGED <<disk, row, asset, run, ghost>> /\ ~Holding
  BY DEF Link, Holding
<1>3. /\ job.kind = "analyze" /\ job.hold = Nothing /\ job.todo \subseteq Deeds /\ Pending
      /\ run.actions = {} /\ a.path \in Lib
  BY <1>1, <1>2, DeedParts DEF Course
<1>4. /\ job' = [job EXCEPT !.todo = @ \ {a}] \/ job' = [job EXCEPT !.todo = @ \ {a}, !.done = @ \cup {a}]
      /\ stage' = stage \/ stage' = [stage EXCEPT !.links = @ \cup {a.path}]
  BY DEF Link
<1>5. /\ job'.at = "link" /\ job'.kind = job.kind /\ job'.todo = job.todo \ {a}
      /\ job'.done \subseteq job.done \cup {a}
      /\ job'.exact = job.exact /\ job'.hold = job.hold /\ Shape'
  BY <1>1, <1>2, <1>4 DEF Course, Shape
<1>6. stage' \in StageType
  BY <1>1, <1>3, <1>4 DEF Typed, StageType
<1>7. Typed'
  BY <1>1, <1>2, <1>3, <1>5, <1>6 DEF Typed
<1>8. Course' /\ ~Holding'
  BY <1>2, <1>3, <1>5 DEF Course, Holding, Idle, Pending
<1>9. \A d \in Deeds : ~Ordered(d)' /\ ~Shelved(d)' /\ (Found(d)' => Found(d))
  BY <1>2, <1>3, <1>5 DEF Ordered, Found, Shelved
<1>10. Truthful'
  BY <1>1, <1>2, <1>9 DEF Truthful, DistinctIds, Names, Noted
<1>11. Sentenced'
  <2>1. \A d \in Deeds : Noted(d)' /\ d.kind = "exact" => Trash(d.content)'
    BY <1>1, <1>2, <1>9 DEF Sentenced, Trash, Noted
  <2> QED
    BY <1>1, <1>2, <1>5, <1>9, <2>1 DEF Sentenced
<1>12. Books'
  BY <1>1, <1>2, <1>8, BooksStay
<1> QED
  BY <1>7, <1>8, <1>10, <1>11, <1>12 DEF IInv

LEMMA PersistStagedKeeps ==
  ASSUME IInv, PersistStaged
  PROVE  IInv'
<1>1. Typed /\ Course /\ Truthful /\ Sentenced /\ Books
  BY DEF IInv
<1>2. job.at = "link" /\ UNCHANGED <<disk, row, asset, stage>> /\ ~Holding
  BY DEF PersistStaged, Holding
<1>3. /\ job.kind = "analyze" /\ job.hold = Nothing /\ Pending /\ job.done \subseteq Deeds
      /\ \A a \in job.done : a.kind = "perceptual"
  BY <1>1, <1>2 DEF Course, Typed, Sentenced
<1> DEFINE paths == {a.path : a \in job.done}
<1>4. /\ run' = [run EXCEPT !.actions = job.done]
      /\ ghost' = [ghost EXCEPT !.offered = paths, !.spared = @ \ stage.links]
      /\ job' = [job EXCEPT !.at = "exact"]
  BY DEF PersistStaged
<1>5. paths \subseteq Lib /\ \A a \in job.done : a.path \in paths
  BY <1>3, DeedParts
<1> HIDE DEF paths
<1>6. /\ ghost' \in GhostType /\ ghost'.offered = paths /\ ghost'.spared = ghost.spared \ stage.links
      /\ ghost'.condemned = ghost.condemned /\ ghost'.lapsed = ghost.lapsed
      /\ ghost'.untrashed = ghost.untrashed /\ ghost'.reused = ghost.reused
  BY <1>1, <1>4, <1>5 DEF Typed, GhostType
<1>7. run' \in RunType /\ run'.actions = job.done /\ run'.status = run.status /\ Pending'
  BY <1>1, <1>3, <1>4 DEF Typed, RunType, Pending
<1>8. /\ job'.at = "exact" /\ job'.kind = job.kind /\ job'.done = job.done
      /\ job'.exact = job.exact /\ job'.hold = Nothing /\ Shape'
  BY <1>1, <1>3, <1>4 DEF Course, Shape
<1>9. Typed'
  BY <1>1, <1>2, <1>6, <1>7, <1>8 DEF Typed
<1>10. Course' /\ ~Holding'
  BY <1>3, <1>8 DEF Course, Holding, Idle
<1>11. \A a \in Deeds : /\ ~Ordered(a)' /\ (Found(a)' => Found(a))
                        /\ Shelved(a)' => Found(a) /\ a \in job.done
  BY <1>2, <1>7, <1>8 DEF Ordered, Found, Shelved
<1>12. Truthful'
  BY <1>1, <1>2, <1>6, <1>11 DEF Truthful, DistinctIds, Names, Noted
<1>13. Sentenced'
  <2>1. \A a \in Deeds : Noted(a)' /\ a.kind = "exact" => Trash(a.content)'
    BY <1>1, <1>2, <1>6, <1>11 DEF Sentenced, Trash, Noted
  <2>2. \A a \in Deeds : Shelved(a)' =>
          /\ a.kind # "undecodable"
          /\ a.path \in ghost'.offered /\ (a.path \in stage'.links => a.path \notin ghost'.spared)
    BY <1>2, <1>3, <1>5, <1>6, <1>11
  <2> QED
    BY <1>1, <1>2, <1>8, <1>11, <2>1, <2>2 DEF Sentenced
<1>14. Books'
  BY <1>1, <1>2, <1>6, <1>10 DEF Books, Missed, OrphansOnlyByUntrash, Remembered, RowsOf
<1> QED
  BY <1>9, <1>10, <1>12, <1>13, <1>14 DEF IInv

LEMMA PersistExactKeeps ==
  ASSUME IInv, PersistExact
  PROVE  IInv'
<1>1. Typed /\ Course /\ Truthful /\ Sentenced /\ Books
  BY DEF IInv
<1>2. job.at = "exact" /\ UNCHANGED <<disk, row, asset, stage, ghost>> /\ ~Holding
      /\ run' = [run EXCEPT !.actions = @ \cup job.exact]
  BY DEF PersistExact, Holding
<1>3. /\ job'.kind = "none" /\ job'.at = "idle" /\ job'.todo = {} /\ job'.done = {} /\ job'.exact = {}
      /\ job'.hold = Nothing /\ Shape' /\ job' = NoJob
  BY NothingLeft DEF PersistExact, Finish, Shape
<1>4. run' \in RunType /\ run'.actions = run.actions \cup job.exact /\ run'.status = run.status
  BY <1>1, <1>2 DEF Typed, RunType
<1>5. Typed'
  BY <1>1, <1>2, <1>3, <1>4 DEF Typed
<1>6. Course' /\ ~Holding'
  BY <1>3 DEF Course, Holding, Idle
<1>7. \A a \in Deeds : /\ ~Ordered(a)' /\ ~Found(a)'
                       /\ Shelved(a)' => Shelved(a) \/ (Found(a) /\ a \in job.exact)
  BY <1>2, <1>3, <1>4 DEF Ordered, Found, Shelved, Pending
<1>8. \A a \in job.exact : a.kind = "exact"
  BY <1>1, <1>2 DEF Sentenced
<1>9. Truthful'
  BY <1>1, <1>2, <1>7 DEF Truthful, DistinctIds, Names, Noted
<1>10. Sentenced'
  <2>1. \A a \in Deeds : Noted(a)' /\ a.kind = "exact" => Trash(a.content)'
    BY <1>1, <1>2, <1>7 DEF Sentenced, Trash, Noted
  <2>2. \A a \in Deeds : Shelved(a)' =>
          /\ a.kind # "undecodable"
          /\ a.kind = "perceptual" =>
                a.path \in ghost'.offered /\ (a.path \in stage'.links => a.path \notin ghost'.spared)
    BY <1>1, <1>2, <1>7, <1>8 DEF Sentenced
  <2> QED
    BY <1>3, <1>7, <2>1, <2>2 DEF Sentenced
<1>11. Books'
  BY <1>1, <1>2, <1>6, BooksStay
<1> QED
  BY <1>5, <1>6, <1>9, <1>10, <1>11 DEF IInv

LEMMA StatTargetKeeps ==
  ASSUME IInv, NEW a \in job.todo, StatTarget(a)
  PROVE  IInv'
<1>1. Typed /\ Course /\ Truthful /\ Sentenced /\ Books
  BY DEF IInv
<1>2. job.at = "stat" /\ UNCHANGED <<disk, run, stage, ghost>> /\ ~Holding
  BY DEF StatTarget, Holding
<1>3. /\ job.kind = "analyze" /\ job.hold = Nothing /\ job.todo \subseteq Deeds /\ Pending
      /\ run.actions = {} /\ a \in Deeds
  BY <1>1, <1>2 DEF Course
<1> DEFINE rows == WithoutId(row, a.id)
<1>4. \/ /\ disk[a.path] = Nothing
         /\ row' = rows /\ asset' = Forget(asset, rows, {a.content})
         /\ job' = [job EXCEPT !.todo = @ \ {a}]
      \/ /\ row' = row /\ asset' = asset
         /\ job' = [job EXCEPT !.todo = @ \ {a}, !.done = @ \cup {a}]
  BY DEF StatTarget
<1>5. /\ job'.at = "stat" /\ job'.kind = job.kind /\ job'.todo = job.todo \ {a}
      /\ job'.done \subseteq job.done \cup {a}
      /\ job'.exact = job.exact /\ job'.hold = job.hold /\ Shape'
  BY <1>1, <1>2, <1>4 DEF Course, Shape
<1>6. /\ row' \in Rows /\ DistinctIds(row') /\ \A p \in Paths : row'[p] \in {row[p], Nothing}
      /\ \A b \in Deeds : Names(row, b) => Names(row', b)
      /\ asset' \in Fates /\ \A c \in Content : /\ asset'[c] = "trashed" <=> asset[c] = "trashed"
                                                /\ asset'[c] = "active" => asset[c] = "active"
  <2>1. row \in Rows /\ asset \in Fates /\ DistinctIds(row)
    BY <1>1 DEF Typed, Truthful
  <2>2. CASE row' = row /\ asset' = asset
    BY <2>1, <2>2
  <2>3. CASE row' = rows /\ asset' = Forget(asset, rows, {a.content})
    <3> HIDE DEF rows
    <3>1. /\ rows \in Rows /\ DistinctIds(rows) /\ \A p \in Paths : rows[p] \in {row[p], Nothing}
          /\ \A b \in Deeds : Names(row, b) => Names(rows, b)
      BY <1>3, <2>1, Drops DEF rows
    <3> QED
      BY <2>1, <2>3, <3>1, Forgets
  <2> QED
    BY <1>4, <2>2, <2>3
<1>7. Typed'
  BY <1>1, <1>2, <1>3, <1>5, <1>6 DEF Typed
<1>8. Course' /\ ~Holding'
  BY <1>2, <1>3, <1>5 DEF Course, Holding, Idle, Pending
<1>9. \A d \in Deeds : ~Ordered(d)' /\ ~Shelved(d)' /\ (Found(d)' => Found(d))
  BY <1>2, <1>3, <1>5 DEF Ordered, Found, Shelved
<1>10. Truthful'
  BY <1>1, <1>2, <1>6, <1>9 DEF Truthful, Noted
<1>11. Sentenced'
  <2>1. \A d \in Deeds : Noted(d)' /\ d.kind = "exact" => Trash(d.content)'
    BY <1>1, <1>2, <1>6, <1>9, DeedParts DEF Sentenced, Trash, Noted
  <2> QED
    BY <1>1, <1>2, <1>5, <1>9, <2>1 DEF Sentenced
<1>12. Missed'
  BY <1>1, <1>2, <1>6, <1>8 DEF Books, Missed
<1>13. CASE row' = row /\ asset' = asset
  <2>1. OrphansOnlyByUntrash' /\ Remembered'
    BY <1>1, <1>2, <1>13 DEF Books, OrphansOnlyByUntrash, Remembered, RowsOf
  <2> QED
    BY <1>7, <1>8, <1>10, <1>11, <1>12, <2>1 DEF IInv, Books
<1>14. CASE disk[a.path] = Nothing /\ row' = rows /\ asset' = Forget(asset, rows, {a.content})
  <2>1. ASSUME ~ghost.reused
        PROVE  /\ \A c \in Content \ {a.content} : RowsOf(row, c)' = RowsOf(row, c)
               /\ row[a.path] # Nothing => a.content \in ghost.lapsed
               /\ row[a.path] = Nothing => RowsOf(row, a.content)' = RowsOf(row, a.content)
    <3>1. Names(row, a) /\ row \in Rows /\ DistinctIds(row)
      BY <1>1, <1>2, <1>3, <2>1 DEF Typed, Truthful, Noted, Found
    <3>2. /\ rows[a.path] = Nothing /\ \A p \in Paths \ {a.path} : rows[p] = row[p]
          /\ \A c \in Content \ {a.content} : RowsOf(rows, c) = RowsOf(row, c)
      BY <1>3, <3>1, Drops
    <3>3. row[a.path] # Nothing => row[a.path].content = a.content /\ a.content # Nothing
      BY <1>3, <3>1, DeedParts, Disjoint DEF Names
    <3>4. row[a.path] # Nothing => a.content \in ghost.lapsed
      BY <1>1, <1>2, <1>3, <1>14, <2>1, <3>3, DeedParts DEF Books, Missed
    <3> HIDE DEF rows
    <3>5. row[a.path] = Nothing => RowsOf(rows, a.content) = RowsOf(row, a.content)
      BY <1>3, <3>2, DeedParts DEF RowsOf
    <3> QED
      BY <1>14, <3>2, <3>4, <3>5 DEF RowsOf
  <2>2. \A c \in Content : asset'[c] = "active" =>
           asset[c] = "active" /\ (c = a.content => RowsOf(row, c)' # {})
    <3>1. \A c \in Content : asset'[c] = "active" =>
           asset[c] = "active" /\ (c \in {a.content} => RowsOf(rows, c) # {})
      BY <1>1, <1>14, Forgets DEF Typed
    <3> HIDE DEF rows
    <3> QED
      BY <1>14, <3>1 DEF RowsOf
  <2>3. OrphansOnlyByUntrash'
    BY <1>1, <1>2, <2>1, <2>2 DEF Books, OrphansOnlyByUntrash
  <2>4. Remembered'
    <3>1. SUFFICES ASSUME ~ghost.reused, NEW c \in ghost.condemned \ (ghost.lapsed \cup ghost.untrashed)
                   PROVE  asset'[c] = "trashed" \/ RowsOf(row, c)' # {}
      BY <1>2 DEF Remembered
    <3>2. c \in Content /\ (asset[c] = "trashed" \/ RowsOf(row, c) # {})
      BY <1>1, <1>2, <3>1, RecordTypes DEF Books, Remembered, Typed
    <3> QED
      BY <1>6, <2>1, <3>1, <3>2
  <2> QED
    BY <1>7, <1>8, <1>10, <1>11, <1>12, <2>3, <2>4 DEF IInv, Books
<1> QED
  BY <1>4, <1>13, <1>14

(***************************************************************************)
(* Deleting                                                                *)
(***************************************************************************)
LEMMA OrdersKeep ==
  ASSUME IInv, UNCHANGED <<disk, row, asset, run, stage, ghost>>, ~Holding, ~Idle,
         job.at \in {"list", "check"}, NEW T \in SUBSET Deeds,
         job' = [job EXCEPT !.at = "delete", !.todo = T],
         ~ghost.reused => \A a \in T : Names(row, a),
         \A a \in T : /\ a.kind = "exact" => Trash(a.content)
                      /\ a.kind = "undecodable" => a.content \in Broken
                      /\ a.kind = "perceptual" =>
                            a.path \in ghost.offered \ ghost.spared /\ job.kind = "confirm"
  PROVE  IInv'
<1>1. Typed /\ Course /\ Truthful /\ Sentenced /\ Books
  BY DEF IInv
<1>2. job.hold = Nothing /\ job.done = {} /\ job.exact = {}
  BY <1>1 DEF Course
<1>3. /\ job'.at = "delete" /\ job'.kind = job.kind /\ job'.todo = T /\ job'.done = {}
      /\ job'.exact = {} /\ job'.hold = Nothing /\ Shape'
  BY <1>1, <1>2 DEF Course, Shape
<1>4. Typed'
  BY <1>1, <1>3 DEF Typed
<1>5. Course' /\ ~Holding'
  BY <1>3 DEF Course, Holding, Idle
<1>6. \A a \in Deeds : /\ Ordered(a)' => a \in T
                       /\ ~Found(a)'
                       /\ Shelved(a)' => Shelved(a)
  BY <1>3 DEF Ordered, Found, Shelved, Pending
<1>7. Truthful'
  BY <1>1, <1>6 DEF Truthful, DistinctIds, Names, Noted
<1>8. Sentenced'
  <2>1. \A a \in Deeds : Noted(a)' /\ a.kind = "exact" => Trash(a.content)'
    BY <1>1, <1>6 DEF Sentenced, Trash, Noted
  <2> QED
    BY <1>1, <1>3, <1>6, <2>1 DEF Sentenced
<1>9. Books'
  BY <1>1, <1>5, BooksStay
<1> QED
  BY <1>4, <1>5, <1>7, <1>8, <1>9 DEF IInv

LEMMA ListKeeps ==
  ASSUME IInv, List
  PROVE  IInv'
<1>1. Typed /\ Course /\ Truthful
  BY DEF IInv
<1>2. job.at = "list" /\ UNCHANGED <<disk, row, asset, run, stage, ghost>> /\ ~Holding
  BY DEF List, Holding
<1>3. ~Idle
  BY <1>1, <1>2, NothingLeft DEF Course
<1> DEFINE T == IF job.kind = "exact" THEN ExactMatches ELSE Undecodables
<1>4. Finish \/ job' = [job EXCEPT !.at = "delete", !.todo = T]
  BY DEF List
<1>5. CASE Finish
  BY <1>1, <1>2, <1>5, FinishKeeps DEF Typed
<1>6. CASE job' = [job EXCEPT !.at = "delete", !.todo = T]
  <2>1. /\ ExactMatches \subseteq Deeds /\ Undecodables \subseteq Deeds
        /\ \A a \in ExactMatches : Names(row, a) /\ a.kind = "exact" /\ asset[a.content] = "trashed"
        /\ \A a \in Undecodables : Names(row, a) /\ a.kind = "undecodable" /\ a.content \in Broken
    BY <1>1, Matches DEF Truthful
  <2>2. T \in SUBSET Deeds /\ \A a \in T : Names(row, a)
    BY <2>1
  <2>3. \A a \in T : /\ a.kind = "exact" => Trash(a.content)
                     /\ a.kind = "undecodable" => a.content \in Broken
                     /\ a.kind # "perceptual"
    BY <2>1 DEF Trash
  <2> HIDE DEF T
  <2> QED
    BY <1>2, <1>3, <1>6, <2>2, <2>3, OrdersKeep
<1> QED
  BY <1>4, <1>5, <1>6

LEMMA CheckKeeps ==
  ASSUME IInv, Check
  PROVE  IInv'
<1>1. Typed /\ Course /\ Truthful /\ Sentenced
  BY DEF IInv
<1>2. job.at = "check" /\ UNCHANGED <<disk, row, asset, run, stage, ghost>> /\ ~Holding
  BY DEF Check, Holding
<1>3. ~Idle /\ job.done = {} /\ job.exact = {} /\ job.hold = Nothing
  BY <1>1, <1>2, NothingLeft DEF Course
<1>4. \/ Finish
      \/ job' = [job EXCEPT !.at = "tidy"]
      \/ Pending /\ job.kind # "cancel" /\ job' = [job EXCEPT !.at = "delete", !.todo = ToDelete]
  BY DEF Check
<1>5. CASE Finish
  BY <1>1, <1>2, <1>5, FinishKeeps DEF Typed
<1>6. CASE job' = [job EXCEPT !.at = "tidy"]
  <2>1. /\ job'.at = "tidy" /\ job'.kind = job.kind /\ job'.todo = job.todo /\ job'.done = {}
        /\ job'.exact = {} /\ job'.hold = Nothing /\ Shape'
    BY <1>1, <1>3, <1>6 DEF Course, Shape
  <2>2. Course' /\ ~Holding'
    BY <1>3, <2>1 DEF Course, Holding, Idle
  <2>3. \A a \in Deeds : ~Ordered(a)' /\ ~Found(a)' /\ (Shelved(a)' => Shelved(a))
    BY <1>2, <2>1 DEF Ordered, Found, Shelved, Pending
  <2> QED
    BY <1>1, <1>2, <2>1, <2>2, <2>3, Eases DEF Typed
<1>7. CASE Pending /\ job.kind # "cancel" /\ job' = [job EXCEPT !.at = "delete", !.todo = ToDelete]
  <2>1. \A a \in ToDelete : /\ a \in Deeds /\ Shelved(a)
                            /\ a.kind \in {"exact", "perceptual"}
                            /\ a.kind = "perceptual" => a.path \in stage.links
    <3>1. run.actions \subseteq Deeds
      BY <1>1, RecordTypes DEF Typed
    <3> QED
      BY <1>7, <3>1 DEF ToDelete, Staged, Shelved
  <2>2. ToDelete \in SUBSET Deeds /\ (~ghost.reused => \A a \in ToDelete : Names(row, a))
    BY <1>1, <2>1 DEF Truthful, Noted
  <2>3. job.kind = "confirm"
    BY <1>1, <1>2, <1>7 DEF Course
  <2>4. \A a \in ToDelete : /\ a.kind = "exact" => Trash(a.content)
                            /\ a.kind # "undecodable"
                            /\ a.kind = "perceptual" => a.path \in ghost.offered \ ghost.spared
    BY <1>1, <2>1 DEF Sentenced, Noted
  <2> QED
    BY <1>2, <1>3, <1>7, <2>2, <2>3, <2>4, OrdersKeep
<1> QED
  BY <1>4, <1>5, <1>6, <1>7

LEMMA RecycleKeeps ==
  ASSUME IInv, NEW a \in job.todo, Recycle(a)
  PROVE  IInv'
<1>1. Typed /\ Course /\ Truthful /\ Sentenced /\ Books
  BY DEF IInv
<1>2. job.at = "delete" /\ job.hold = Nothing /\ ~Holding /\ UNCHANGED <<run, stage>>
  BY DEF Recycle, Holding
<1>3. /\ job.todo \subseteq Deeds /\ a \in Deeds /\ ~Idle /\ job.done = {} /\ job.exact = {} /\ Ordered(a)
      /\ a.content \in Content /\ a.path \in Paths /\ a.path \in File /\ a # Nothing
  BY <1>1, <1>2, NothingLeft, DeedParts DEF Course, Ordered
<1> DEFINE rows == WithoutId(row, a.id)
<1>4. \/ /\ disk[a.path] = Nothing /\ row' = rows
         /\ asset' = IF MarksTrash(a) THEN Forget(asset, rows, {a.content}) ELSE asset
         /\ job' = [job EXCEPT !.todo = @ \ {a}]
         /\ UNCHANGED <<disk, ghost>>
      \/ /\ disk' = [disk EXCEPT ![a.path] = Nothing]
         /\ job' = [job EXCEPT !.hold = a]
         /\ ghost' = [ghost EXCEPT !.condemned = @ \cup {a.content}]
         /\ UNCHANGED <<row, asset>>
      \/ /\ job' = [job EXCEPT !.todo = @ \ {a}]
         /\ UNCHANGED <<disk, row, asset, ghost>>
  BY DEF Recycle
<1>5. CASE /\ job' = [job EXCEPT !.todo = @ \ {a}]
           /\ UNCHANGED <<disk, row, asset, ghost>>
  <2>1. /\ job'.at = "delete" /\ job'.kind = job.kind /\ job'.todo = job.todo \ {a} /\ job'.done = {}
        /\ job'.exact = {} /\ job'.hold = Nothing /\ Shape'
    BY <1>1, <1>2, <1>3, <1>5 DEF Course, Shape
  <2>2. Course' /\ ~Holding'
    BY <1>3, <2>1 DEF Course, Holding, Idle
  <2>3. \A d \in Deeds : /\ Ordered(d)' => Ordered(d) /\ job'.kind = job.kind
                         /\ ~Found(d)' /\ (Shelved(d)' => Shelved(d))
    BY <1>2, <2>1 DEF Ordered, Found, Shelved, Pending
  <2> QED
    BY <1>1, <1>2, <1>5, <2>1, <2>2, <2>3, Eases DEF Typed
<1>6. CASE /\ disk' = [disk EXCEPT ![a.path] = Nothing]
           /\ job' = [job EXCEPT !.hold = a]
           /\ ghost' = [ghost EXCEPT !.condemned = @ \cup {a.content}]
           /\ UNCHANGED <<row, asset>>
  <2>1. /\ job'.at = "delete" /\ job'.kind = job.kind /\ job'.todo = job.todo /\ job'.done = {}
        /\ job'.exact = {} /\ job'.hold = a /\ Shape'
    BY <1>1, <1>2, <1>3, <1>6 DEF Course, Shape
  <2>2. Course' /\ Holding'
    BY <1>3, <2>1 DEF Course, Holding, Idle
  <2>3. /\ ghost' \in GhostType /\ ghost'.condemned = ghost.condemned \cup {a.content}
        /\ ghost'.offered = ghost.offered /\ ghost'.spared = ghost.spared
        /\ ghost'.lapsed = ghost.lapsed /\ ghost'.untrashed = ghost.untrashed
        /\ ghost'.reused = ghost.reused
    BY <1>1, <1>3, <1>6 DEF Typed, GhostType
  <2>4. disk' \in [File -> Content \cup {Nothing}] /\ \A p \in File \ {a.path} : disk'[p] = disk[p]
    BY <1>1, <1>3, <1>6 DEF Typed
  <2>5. Typed'
    BY <1>1, <1>2, <1>6, <2>1, <2>3, <2>4 DEF Typed
  <2>6. \A d \in Deeds : /\ Ordered(d)' <=> Ordered(d)
                         /\ ~Found(d)'
                         /\ Shelved(d)' <=> Shelved(d)
    BY <1>2, <2>1 DEF Ordered, Found, Shelved, Pending
  <2>7. Truthful'
    BY <1>1, <1>6, <2>3, <2>6 DEF Truthful, DistinctIds, Names, Noted
  <2>8. Sentenced'
    <3>1. \A d \in Deeds : Noted(d)' /\ d.kind = "exact" => Trash(d.content)'
      BY <1>1, <1>6, <2>3, <2>6 DEF Sentenced, Trash, Noted
    <3> QED
      BY <1>1, <1>2, <2>1, <2>3, <2>6, <3>1 DEF Sentenced
  <2>9. Missed'
    BY <1>1, <1>2, <1>6, <2>1, <2>2, <2>3, <2>4, Disjoint DEF Books, Missed
  <2>10. OrphansOnlyByUntrash'
    BY <1>1, <1>6, <2>3 DEF Books, OrphansOnlyByUntrash, RowsOf
  <2>11. Remembered'
    BY <1>1, <1>2, <1>6, <2>1, <2>2, <2>3 DEF Books, Remembered, RowsOf
  <2> QED
    BY <2>2, <2>5, <2>7, <2>8, <2>9, <2>10, <2>11 DEF IInv, Books
<1>7. CASE /\ disk[a.path] = Nothing /\ row' = rows
           /\ asset' = IF MarksTrash(a) THEN Forget(asset, rows, {a.content}) ELSE asset
           /\ job' = [job EXCEPT !.todo = @ \ {a}]
           /\ UNCHANGED <<disk, ghost>>
  <2>1. /\ job'.at = "delete" /\ job'.kind = job.kind /\ job'.todo = job.todo \ {a} /\ job'.done = {}
        /\ job'.exact = {} /\ job'.hold = Nothing /\ Shape'
    BY <1>1, <1>2, <1>3, <1>7 DEF Course, Shape
  <2>2. Course' /\ ~Holding'
    BY <1>3, <2>1 DEF Course, Holding, Idle
  <2>3. row \in Rows /\ asset \in Fates /\ DistinctIds(row)
    BY <1>1 DEF Typed, Truthful
  <2>4. /\ row' \in Rows /\ DistinctIds(row') /\ \A p \in Paths : row'[p] \in {row[p], Nothing}
        /\ \A b \in Deeds : Names(row, b) => Names(row', b)
    BY <1>3, <1>7, <2>3, Drops
  <2>5. /\ asset' \in Fates
        /\ \A c \in Content : /\ asset'[c] = "trashed" <=> asset[c] = "trashed"
                              /\ asset'[c] = "active" => asset[c] = "active"
        /\ MarksTrash(a) /\ asset'[a.content] = "active" => RowsOf(rows, a.content) # {}
    <3>1. asset' = IF MarksTrash(a) THEN Forget(asset, rows, {a.content}) ELSE asset
      BY <1>7
    <3> HIDE DEF rows
    <3>2. /\ Forget(asset, rows, {a.content}) \in Fates
          /\ \A c \in Content :
                /\ Forget(asset, rows, {a.content})[c] = "trashed" <=> asset[c] = "trashed"
                /\ Forget(asset, rows, {a.content})[c] = "active" =>
                      asset[c] = "active" /\ (c \in {a.content} => RowsOf(rows, c) # {})
      BY <2>3, Forgets, Zenon
    <3>3. CASE MarksTrash(a)
      BY <1>3, <3>1, <3>2, <3>3
    <3>4. CASE ~MarksTrash(a)
      BY <2>3, <3>1, <3>4
    <3> QED
      BY <3>3, <3>4
  <2>6. Typed'
    BY <1>1, <1>2, <1>7, <2>1, <2>4, <2>5 DEF Typed
  <2>7. \A d \in Deeds : /\ Ordered(d)' => Ordered(d)
                         /\ ~Found(d)'
                         /\ Shelved(d)' <=> Shelved(d)
    BY <1>2, <2>1 DEF Ordered, Found, Shelved, Pending
  <2>8. Truthful'
    BY <1>1, <1>7, <2>4, <2>7 DEF Truthful, Noted
  <2>9. Sentenced'
    <3>1. \A d \in Deeds : Noted(d)' /\ d.kind = "exact" => Trash(d.content)'
      BY <1>1, <1>7, <2>5, <2>7, DeedParts DEF Sentenced, Trash, Noted
    <3> QED
      BY <1>1, <1>2, <1>7, <2>1, <2>7, <3>1 DEF Sentenced
  <2>10. Missed'
    BY <1>1, <1>2, <1>7, <2>2, <2>4 DEF Books, Missed
  <2>11. ASSUME ~ghost.reused
         PROVE  /\ \A c \in Content \ {a.content} : RowsOf(row', c) = RowsOf(row, c)
                /\ row[a.path] # Nothing => a.content \in ghost.lapsed
                /\ row[a.path] = Nothing => RowsOf(row', a.content) = RowsOf(row, a.content)
                /\ ~MarksTrash(a) => Trash(a.content)
    <3>1. Names(row, a)
      BY <1>1, <1>3, <2>11 DEF Truthful, Noted
    <3>2. /\ rows[a.path] = Nothing /\ \A p \in Paths \ {a.path} : rows[p] = row[p]
          /\ \A c \in Content \ {a.content} : RowsOf(rows, c) = RowsOf(row, c)
      BY <1>3, <2>3, <3>1, Drops
    <3>3. row[a.path] # Nothing => row[a.path].content = a.content /\ a.content # Nothing
      BY <1>3, <3>1, Disjoint DEF Names
    <3>4. row[a.path] # Nothing => a.content \in ghost.lapsed
      BY <1>1, <1>2, <1>3, <1>7, <2>11, <3>3 DEF Books, Missed
    <3>5. ~MarksTrash(a) => Trash(a.content)
      BY <1>1, <1>3 DEF Sentenced, Noted, MarksTrash
    <3> HIDE DEF rows
    <3>6. row[a.path] = Nothing => RowsOf(rows, a.content) = RowsOf(row, a.content)
      BY <1>3, <3>2 DEF RowsOf
    <3>7. \A c \in Content \ {a.content} : RowsOf(row', c) = RowsOf(row, c)
      BY <1>7, <3>2
    <3>8. row[a.path] = Nothing => RowsOf(row', a.content) = RowsOf(row, a.content)
      BY <1>7, <3>6
    <3> QED
      BY <3>4, <3>5, <3>7, <3>8
<2>12. OrphansOnlyByUntrash'
    <3>1. SUFFICES ASSUME ~ghost.reused, NEW c \in Content \ ghost.untrashed, asset'[c] = "active"
                   PROVE  RowsOf(row, c)' # {}
      BY <1>7 DEF OrphansOnlyByUntrash
    <3>2. asset[c] = "active" /\ RowsOf(row, c) # {}
      BY <1>1, <1>7, <2>5, <3>1 DEF Books, OrphansOnlyByUntrash
    <3>3. CASE c = a.content
      <4>1. MarksTrash(a)
        BY <2>11, <3>1, <3>2, <3>3 DEF Trash
      <4>2. RowsOf(rows, c) # {}
        BY <2>5, <3>1, <3>3, <4>1
      <4> HIDE DEF rows
      <4> QED
        BY <1>7, <4>2 DEF RowsOf
    <3>4. CASE c # a.content
      BY <2>11, <3>1, <3>2, <3>4
    <3> QED
      BY <3>3, <3>4
  <2>13. Remembered'
    <3>1. SUFFICES ASSUME ~ghost.reused, NEW c \in ghost.condemned \ (ghost.lapsed \cup ghost.untrashed)
                   PROVE  asset'[c] = "trashed" \/ RowsOf(row, c)' # {}
      BY <1>7 DEF Remembered
    <3>2. c \in Content /\ (asset[c] = "trashed" \/ RowsOf(row, c) # {})
      BY <1>1, <1>2, <3>1, RecordTypes DEF Books, Remembered, Typed
    <3> QED
      BY <2>5, <2>11, <3>1, <3>2
  <2> QED
    BY <2>2, <2>6, <2>8, <2>9, <2>10, <2>12, <2>13 DEF IInv, Books
<1> QED
  BY <1>4, <1>5, <1>6, <1>7

LEMMA RecordKeeps ==
  ASSUME IInv, Record
  PROVE  IInv'
<1>1. Typed /\ Course /\ Truthful /\ Sentenced /\ Books
  BY DEF IInv
<1>2. Holding /\ job.at = "delete" /\ UNCHANGED <<disk, run, stage, ghost>>
  BY DEF Record, Holding
<1> DEFINE a == job.hold
           rows == WithoutId(row, a.id)
<1>3. /\ job.todo \subseteq Deeds /\ a \in Deeds /\ ~Idle /\ job.done = {} /\ job.exact = {} /\ Ordered(a)
      /\ a.content \in Content /\ a.path \in Paths /\ a.path \in File
  BY <1>1, <1>2, NothingLeft, DeedParts DEF Course, Ordered
<1>4. /\ row' = rows /\ asset' = Remember(asset, rows, a)
      /\ job' = [job EXCEPT !.hold = Nothing, !.todo = @ \ {a}]
  BY DEF Record
<1>5. Missed /\ (~ghost.reused => Names(row, a))
  BY <1>1, <1>3 DEF Books, Truthful, Noted
<1>6. /\ job'.at = "delete" /\ job'.kind = job.kind /\ job'.todo = job.todo \ {a} /\ job'.done = {}
      /\ job'.exact = {} /\ job'.hold = Nothing /\ Shape'
  BY <1>1, <1>2, <1>3, <1>4 DEF Course, Shape
<1>7. \A c \in Content : Holding /\ job.hold.content = c => c = a.content
  OBVIOUS
<1> HIDE DEF a
<1>8. Course' /\ ~Holding'
  BY <1>3, <1>6 DEF Course, Holding, Idle
<1>9. row \in Rows /\ asset \in Fates /\ DistinctIds(row)
  BY <1>1 DEF Typed, Truthful
<1>10. /\ row' \in Rows /\ DistinctIds(row') /\ \A p \in Paths : row'[p] \in {row[p], Nothing}
       /\ \A b \in Deeds : Names(row, b) => Names(row', b)
  BY <1>3, <1>4, <1>9, Drops
<1>11. /\ asset' \in Fates
       /\ \A c \in Content : /\ asset[c] = "trashed" => asset'[c] = "trashed"
                             /\ asset'[c] = "active" => asset[c] = "active"
       /\ a.kind # "exact" /\ RowsOf(rows, a.content) = {} => asset'[a.content] = "trashed"
  <2> HIDE DEF rows
  <2> QED
    BY <1>3, <1>4, <1>9, Remembers
<1>12. Typed'
  BY <1>1, <1>2, <1>6, <1>10, <1>11 DEF Typed
<1>13. \A d \in Deeds : /\ Ordered(d)' => Ordered(d)
                        /\ ~Found(d)'
                        /\ Shelved(d)' <=> Shelved(d)
  BY <1>2, <1>6 DEF Ordered, Found, Shelved, Pending
<1>14. Truthful'
  BY <1>1, <1>2, <1>10, <1>13 DEF Truthful, Noted
<1>15. Sentenced'
  <2>1. \A d \in Deeds : Noted(d)' /\ d.kind = "exact" => Trash(d.content)'
    BY <1>1, <1>2, <1>11, <1>13, DeedParts DEF Sentenced, Trash, Noted
  <2> QED
    BY <1>1, <1>2, <1>6, <1>13, <2>1 DEF Sentenced
<1>16. ASSUME ~ghost.reused
       PROVE  /\ \A c \in Content \ {a.content} : RowsOf(row', c) = RowsOf(row, c)
              /\ row'[a.path] = Nothing
              /\ a.kind = "exact" => Trash(a.content)
              /\ RowsOf(row', a.content) = RowsOf(rows, a.content)
  <2>1. /\ rows[a.path] = Nothing
        /\ \A c \in Content \ {a.content} : RowsOf(rows, c) = RowsOf(row, c)
    BY <1>3, <1>5, <1>9, <1>16, Drops
  <2>2. a.kind = "exact" => Trash(a.content)
    BY <1>1, <1>3 DEF Sentenced, Noted
  <2> HIDE DEF rows
  <2> QED
    BY <1>4, <2>1, <2>2
<1>17. Missed'
  BY <1>2, <1>5, <1>8, <1>10, <1>16 DEF Missed, a
<1>18. OrphansOnlyByUntrash'
  <2>1. SUFFICES ASSUME ~ghost.reused, NEW c \in Content \ ghost.untrashed, asset'[c] = "active"
                 PROVE  RowsOf(row', c) # {}
    BY <1>2 DEF OrphansOnlyByUntrash, RowsOf
  <2>2. asset[c] = "active" /\ RowsOf(row, c) # {}
    BY <1>1, <1>2, <1>11, <2>1 DEF Books, OrphansOnlyByUntrash
  <2>3. CASE c = a.content
    BY <1>11, <1>16, <2>1, <2>2, <2>3 DEF Trash
  <2>4. CASE c # a.content
    BY <1>16, <2>1, <2>2, <2>4
  <2> QED
    BY <2>3, <2>4
<1>19. Remembered'
  <2>1. SUFFICES ASSUME ~ghost.reused, NEW c \in ghost.condemned \ (ghost.lapsed \cup ghost.untrashed)
                 PROVE  asset'[c] = "trashed" \/ RowsOf(row', c) # {}
    BY <1>2 DEF Remembered, RowsOf
  <2>2. c \in Content /\ (asset[c] = "trashed" \/ RowsOf(row, c) # {} \/ c = a.content)
    BY <1>1, <1>7, <2>1, RecordTypes DEF Books, Remembered, Typed
  <2>3. CASE c = a.content
    BY <1>11, <1>16, <2>1, <2>2, <2>3 DEF Trash
  <2>4. CASE c # a.content
    BY <1>11, <1>16, <2>1, <2>2, <2>4
  <2> QED
    BY <2>3, <2>4
<1> QED
  BY <1>8, <1>12, <1>14, <1>15, <1>17, <1>18, <1>19 DEF IInv, Books

(***************************************************************************)
(* Untrash, a kill, a scan                                                 *)
(***************************************************************************)
LEMMA UntrashKeeps ==
  ASSUME IInv, NEW c \in Content, Untrash(c)
  PROVE  IInv'
<1>1. Typed /\ Course /\ Truthful /\ Sentenced /\ Books
  BY DEF IInv
<1>2. job.at = "untrash" /\ UNCHANGED <<disk, row, run, stage>> /\ ~Holding
  BY DEF Untrash, Holding
<1>3. ~Idle /\ job.done = {} /\ job.exact = {} /\ job.hold = Nothing
  BY <1>1, <1>2, NothingLeft DEF Course
<1>4. /\ job'.at \in {"untrash", "idle"} /\ job'.done = {} /\ job'.exact = {}
      /\ job'.hold = Nothing /\ Shape' /\ (job'.kind = "none" => job' = NoJob)
  <2>1. CASE Finish
    BY <2>1, NothingLeft DEF Finish, Shape
  <2>2. CASE job' = [job EXCEPT !.todo = @ \ {c}]
    BY <1>1, <1>2, <1>3, <2>2 DEF Course, Shape, Idle
  <2> QED
    BY <2>1, <2>2 DEF Untrash
<1>5. Course' /\ ~Holding'
  BY <1>4 DEF Course, Holding, Idle
<1>6. \A a \in Deeds : /\ ~Ordered(a) /\ ~Ordered(a)' /\ ~Found(a) /\ ~Found(a)'
                       /\ Shelved(a)' <=> Shelved(a)
  BY <1>2, <1>4 DEF Ordered, Found, Shelved, Pending
<1>7. job'.at \notin {"stat", "link", "exact"} /\ job'.exact \subseteq Deeds /\ job'.done \subseteq Deeds
  BY <1>4
<1>8. CASE asset[c] # "trashed"
  <2>1. asset' = asset /\ ghost' = ghost
    BY <1>8 DEF Untrash
  <2> QED
    BY <1>1, <1>2, <1>5, <1>6, <1>7, <2>1, Eases DEF Typed
<1>9. CASE asset[c] = "trashed"
  <2>1. /\ asset' = [asset EXCEPT ![c] = IF RowsOf(row, c) = {} THEN "none" ELSE "active"]
        /\ ghost' = [ghost EXCEPT !.condemned = @ \ {c}, !.untrashed = IF Pending THEN @ \cup {c} ELSE @]
    BY <1>9 DEF Untrash
  <2>2. /\ ghost' \in GhostType /\ ghost'.condemned = ghost.condemned \ {c}
        /\ ghost'.untrashed = IF Pending THEN ghost.untrashed \cup {c} ELSE ghost.untrashed
        /\ ghost'.offered = ghost.offered /\ ghost'.spared = ghost.spared
        /\ ghost'.lapsed = ghost.lapsed /\ ghost'.reused = ghost.reused
    BY <1>1, <2>1 DEF Typed, GhostType
  <2>3. /\ asset' \in Fates /\ \A d \in Content \ {c} : asset'[d] = asset[d]
        /\ asset'[c] = "active" => RowsOf(row, c) # {}
    BY <1>1, <2>1 DEF Typed, Fates
  <2>4. Typed'
    BY <1>1, <1>2, <1>7, <2>2, <2>3 DEF Typed
  <2>5. Truthful'
    BY <1>1, <1>2, <1>6, <2>2 DEF Truthful, DistinctIds, Names, Noted
  <2>6. Sentenced'
    <3>1. ASSUME NEW a \in Deeds, Noted(a)', a.kind = "exact" PROVE Trash(a.content)'
      <4>1. Shelved(a) /\ Pending /\ Trash(a.content) /\ a.content \in Content
        BY <1>1, <1>6, <3>1, DeedParts DEF Sentenced, Noted, Shelved
      <4> QED
        BY <2>2, <2>3, <4>1 DEF Trash
    <3> QED
      BY <1>1, <1>2, <1>6, <1>7, <2>2, <3>1 DEF Sentenced
  <2>7. Missed'
    BY <1>1, <1>2, <1>5, <2>2 DEF Books, Missed
  <2>8. OrphansOnlyByUntrash'
    BY <1>1, <1>2, <2>2, <2>3 DEF Books, OrphansOnlyByUntrash, RowsOf
  <2>9. Remembered'
    <3>1. SUFFICES ASSUME ~ghost.reused,
                          NEW d \in ghost'.condemned \ (ghost'.lapsed \cup ghost'.untrashed)
                   PROVE  asset'[d] = "trashed" \/ RowsOf(row, d) # {}
      BY <1>2, <2>2 DEF Remembered, RowsOf
    <3>2. d \in Content /\ d # c /\ d \in ghost.condemned \ (ghost.lapsed \cup ghost.untrashed)
      BY <1>1, <2>2, <3>1, RecordTypes DEF Typed
    <3> QED
      BY <1>1, <1>2, <2>3, <3>1, <3>2 DEF Books, Remembered
  <2> QED
    BY <1>5, <2>4, <2>5, <2>6, <2>7, <2>8, <2>9 DEF IInv, Books
<1> QED
  BY <1>8, <1>9

LEMMA CrashKeeps ==
  ASSUME IInv, Crash
  PROVE  IInv'
<1>1. Typed /\ Course /\ Truthful /\ Sentenced /\ Books
  BY DEF IInv
<1> DEFINE cs == IF job.hold = Nothing THEN {} ELSE {job.hold.content}
<1>2. UNCHANGED <<disk, row, asset>> /\ ghost' = [ghost EXCEPT !.lapsed = @ \cup cs]
  BY DEF Crash, Lapse
<1>3. job.at # "idle" => ~(job.at \notin {"absorb", "delete"}) \/ job.hold = Nothing
  BY <1>1 DEF Course
<1>4. cs \subseteq Content
  <2>1. CASE job.hold = Nothing
    BY <2>1
  <2>2. CASE job.hold # Nothing
    <3>1. job.hold \in Deeds \cup Thrown
      BY <1>1, <2>2 DEF Course, Holding
    <3>2. job.hold.content \in Content
      BY <3>1 DEF Deeds, Thrown
    <3> QED
      BY <3>2
  <2> QED
    BY <2>1, <2>2
<1>5. Holding => job.hold.content \in cs /\ Ordered(job.hold) /\ job.hold \in Deeds
  BY <1>1 DEF Holding, Course, Ordered
<1> HIDE DEF cs
<1>6. /\ ghost' \in GhostType /\ ghost'.lapsed = ghost.lapsed \cup cs
      /\ ghost'.offered = ghost.offered /\ ghost'.spared = ghost.spared
      /\ ghost'.condemned = ghost.condemned /\ ghost'.untrashed = ghost.untrashed
      /\ ghost'.reused = ghost.reused
  BY <1>1, <1>2, <1>4 DEF Typed, GhostType
<1>7. /\ run' \in RunType /\ run'.actions = run.actions
      /\ run'.status = run.status \/ run'.status = "cancelled"
      /\ stage' \in StageType /\ stage'.links \subseteq stage.links
  <2>1. NoStage \in StageType /\ NoStage.links = {}
    BY DEF NoStage, StageType
  <2>2. CASE run' = run /\ stage' = stage
    BY <1>1, <2>2 DEF Typed
  <2>3. CASE run' = [run EXCEPT !.status = "cancelled"] /\ stage' = NoStage
    BY <1>1, <2>1, <2>3 DEF Typed, RunType
  <2> QED
    BY <2>2, <2>3 DEF Crash
<1>8. /\ job'.kind = "none" /\ job'.at = "idle" /\ job'.todo = {} /\ job'.done = {} /\ job'.exact = {}
      /\ job'.hold = Nothing /\ Shape' /\ job' = NoJob
  BY NothingLeft DEF Crash, Finish, Shape
<1>9. Typed'
  BY <1>1, <1>2, <1>6, <1>7, <1>8 DEF Typed
<1>10. Course' /\ ~Holding'
  BY <1>8 DEF Course, Holding, Idle
<1>11. \A a \in Deeds : ~Ordered(a)' /\ ~Found(a)' /\ (Shelved(a)' => Shelved(a))
  BY <1>7, <1>8 DEF Ordered, Found, Shelved, Pending
<1>12. Truthful'
  BY <1>1, <1>2, <1>6, <1>11 DEF Truthful, DistinctIds, Names, Noted
<1>13. Sentenced'
  <2>1. \A a \in Deeds : Noted(a)' /\ a.kind = "exact" => Trash(a.content)'
    BY <1>1, <1>2, <1>6, <1>11 DEF Sentenced, Trash, Noted
  <2> QED
    BY <1>1, <1>6, <1>7, <1>8, <1>11, <2>1 DEF Sentenced
<1>14. Missed'
  <2>1. SUFFICES ASSUME ~ghost.reused, NEW p \in Paths, row[p] # Nothing, disk[p] # row[p].content
                 PROVE  row[p].content \in ghost'.lapsed
    BY <1>2, <1>6 DEF Missed
  <2>2. row[p].content \in ghost.lapsed \/ (Holding /\ p = job.hold.path)
    BY <1>1, <2>1 DEF Books, Missed
  <2>3. CASE Holding /\ p = job.hold.path
    <3>1. Names(row, job.hold)
      BY <1>1, <1>5, <2>1, <2>3 DEF Truthful, Noted
    <3> QED
      BY <1>5, <1>6, <2>1, <2>3, <3>1 DEF Names
  <2> QED
    BY <1>6, <2>2, <2>3
<1>15. OrphansOnlyByUntrash'
  BY <1>1, <1>2, <1>6 DEF Books, OrphansOnlyByUntrash, RowsOf
<1>16. Remembered'
  BY <1>1, <1>2, <1>5, <1>6 DEF Books, Remembered, RowsOf
<1> QED
  BY <1>9, <1>10, <1>12, <1>13, <1>14, <1>15, <1>16 DEF IInv, Books

LEMMA ScanKeeps ==
  ASSUME IInv, NEW S \in {Lib, Other}, Scan(S)
  PROVE  IInv'
<1>1. Typed /\ Course /\ Truthful /\ Sentenced /\ Books
  BY DEF IInv
<1> DEFINE here == {p \in S : disk[p] # Nothing}
           edited == [p \in Paths |-> IF p \in here /\ row[p] # Nothing
                                      THEN [row[p] EXCEPT !.content = disk[p]] ELSE row[p]]
           fresh == {p \in here : row[p] = Nothing}
           added == Numbered(edited, fresh)
           rows == [p \in Paths |-> IF p \in S \ here THEN Nothing ELSE added[p]]
           as == [c \in Content |-> IF asset[c] = "none" /\ \E p \in here : disk[p] = c
                                    THEN "active" ELSE asset[c]]
           cs == {row[p].content : p \in {q \in S : row[q] # Nothing}}
<1>2. /\ Idle /\ (S = Lib => ~Pending)
      /\ row' = rows /\ asset' = Forget(as, rows, cs)
      /\ ghost' = [ghost EXCEPT !.reused = @ \/
            \E a \in run.actions, p \in Paths :
               Pending /\ rows[p] # Nothing /\ rows[p].id = a.id /\ p # a.path]
      /\ UNCHANGED <<disk, run, stage, job>>
  BY DEF Scan
<1>3. S \subseteq Paths /\ row \in Rows /\ DistinctIds(row) /\ asset \in Fates
  BY <1>1, Disjoint DEF Typed, Truthful
<1>4. \A p \in here : disk[p] \in Content
  BY <1>1, <1>3, Disjoint DEF Typed
<1>5. /\ edited \in Rows
      /\ \A p \in Paths : /\ edited[p] = Nothing <=> row[p] = Nothing
                          /\ row[p] # Nothing => edited[p].id = row[p].id
                          /\ row[p] # Nothing /\ p \in here => edited[p].content = disk[p]
                          /\ p \notin here => edited[p] = row[p]
  <2>1. ASSUME NEW p \in Paths, p \in here, row[p] # Nothing
        PROVE  /\ edited[p] \in RowType /\ edited[p].id = row[p].id /\ edited[p].content = disk[p]
               /\ edited[p] # Nothing
    <3>1. row[p] \in RowType /\ disk[p] \in Content
      BY <1>3, <1>4, <2>1, RowParts
    <3>2. edited[p] = [row[p] EXCEPT !.content = disk[p]]
      BY <2>1
    <3> HIDE DEF edited
    <3> QED
      BY <3>1, <3>2, Disjoint DEF RowType
  <2>2. ASSUME NEW p \in Paths, ~(p \in here /\ row[p] # Nothing)
        PROVE  edited[p] = row[p]
    BY <2>2
  <2>3. edited = [p \in Paths |-> edited[p]]
    OBVIOUS
  <2> HIDE DEF edited, here
  <2>4. \A p \in Paths : edited[p] \in RowType \cup {Nothing}
    BY <1>3, <2>1, <2>2 DEF Rows
  <2>5. edited \in Rows
    BY <2>3, <2>4 DEF Rows
  <2> QED
    BY <2>1, <2>2, <2>5
<1>6. DistinctIds(edited)
  <2> HIDE DEF edited
  <2> QED
    BY <1>3, <1>5 DEF DistinctIds
<1>7. /\ added \in Rows /\ DistinctIds(added)
      /\ \A p \in Paths \ fresh : added[p] = edited[p]
      /\ \A p \in fresh : added[p] # Nothing /\ added[p].content = disk[p]
  <2>1. fresh \subseteq Paths /\ \A p \in fresh : disk[p] # Nothing
    BY <1>3
  <2> HIDE DEF edited, fresh
  <2> QED
    BY <1>1, <1>5, <1>6, <2>1, Numbers DEF Typed
<1> HIDE DEF edited, added
<1>8. /\ rows \in Rows /\ DistinctIds(rows)
      /\ \A p \in Paths \ S : rows[p] = row[p]
      /\ \A p \in here : rows[p] # Nothing /\ rows[p].content = disk[p]
      /\ \A p \in S \ here : rows[p] = Nothing
  <2>1. \A p \in Paths : rows[p] = added[p] \/ rows[p] = Nothing
    OBVIOUS
  <2>2. \A p \in S \ here : rows[p] = Nothing
    BY <1>3
  <2>3. \A p \in Paths \ S : rows[p] = row[p]
    BY <1>5, <1>7
  <2>4. \A p \in here : rows[p] # Nothing /\ rows[p].content = disk[p]
    BY <1>3, <1>5, <1>7
  <2>5. rows = [p \in Paths |-> rows[p]]
    OBVIOUS
  <2> HIDE DEF rows
  <2>6. rows \in Rows
    BY <1>7, <2>1, <2>5 DEF Rows
  <2>7. DistinctIds(rows)
    BY <1>7, <2>1 DEF DistinctIds
  <2> QED
    BY <2>2, <2>3, <2>4, <2>6, <2>7
<1>9. /\ as \in Fates
      /\ \A c \in Content : /\ as[c] = "trashed" <=> asset[c] = "trashed"
                            /\ as[c] = "active" => \/ asset[c] = "active"
                                                   \/ \E p \in here : disk[p] = c
  BY <1>3 DEF Fates
<1>10. \A p \in S : row[p] # Nothing => row[p].content \in cs
  OBVIOUS
<1> DEFINE again == \E a \in run.actions, p \in Paths :
               Pending /\ rows[p] # Nothing /\ rows[p].id = a.id /\ p # a.path
<1>11. /\ ghost' \in GhostType /\ ghost'.reused = (ghost.reused \/ again)
       /\ ghost'.offered = ghost.offered /\ ghost'.spared = ghost.spared
       /\ ghost'.condemned = ghost.condemned /\ ghost'.untrashed = ghost.untrashed
       /\ ghost'.lapsed = ghost.lapsed
  <2>1. ghost' = [ghost EXCEPT !.reused = @ \/ again]
    BY <1>2
  <2>2. ghost \in GhostType /\ again \in BOOLEAN
    BY <1>1 DEF Typed
  <2> HIDE DEF again
  <2> QED
    BY <2>1, <2>2 DEF GhostType
<1>12. ~ghost'.reused => ~ghost.reused /\ \A a \in run.actions, p \in Paths :
               ~(Pending /\ rows[p] # Nothing /\ rows[p].id = a.id /\ p # a.path)
  BY <1>11
<1>12a. row' = rows /\ asset' = Forget(as, rows, cs)
  BY <1>2
<1> HIDE DEF rows, as, cs, again
<1>13. /\ asset' \in Fates
       /\ \A c \in Content : /\ asset'[c] = "trashed" <=> asset[c] = "trashed"
                             /\ asset'[c] = "active" =>
                                   as[c] = "active" /\ (c \in cs => RowsOf(rows, c) # {})
  <2>1. as \in Fates
    BY <1>9
  <2>2. /\ Forget(as, rows, cs) \in Fates
        /\ \A c \in Content :
              /\ Forget(as, rows, cs)[c] = "trashed" <=> as[c] = "trashed"
              /\ Forget(as, rows, cs)[c] = "active" =>
                    as[c] = "active" /\ (c \in cs => RowsOf(rows, c) # {})
    BY <2>1, Forgets, Zenon
  <2> QED
    BY <1>9, <1>12a, <2>2
<1>14. job = NoJob /\ job.at = "idle" /\ job'.at = "idle" /\ ~Holding /\ ~Holding'
  BY <1>1, <1>2, NothingLeft DEF Course, Holding
<1>15. Typed'
  BY <1>1, <1>2, <1>8, <1>11, <1>13 DEF Typed
<1>16. Course'
  BY <1>1, <1>2, <1>14 DEF Course, Shape, Holding, Idle, Pending
<1>17. \A a \in Deeds : /\ ~Ordered(a)' /\ ~Found(a)'
                        /\ Shelved(a)' <=> Shelved(a)
                        /\ Noted(a)' <=> Shelved(a)
  BY <1>2, <1>14 DEF Ordered, Found, Shelved, Pending, Noted
<1>18. Truthful'
  <2>1. ASSUME ~ghost'.reused, NEW a \in Deeds, Shelved(a)
        PROVE  Names(rows, a)
    <3>1. S = Other /\ a \in run.actions /\ Pending
      BY <1>2, <2>1 DEF Shelved
    <3>2. a.path \in Paths \ S
      BY <3>1, DeedParts, Disjoint
    <3>3. Names(row, a)
      BY <1>1, <1>12, <2>1 DEF Truthful, Noted
    <3>4. rows[a.path] = row[a.path]
      BY <1>8, <3>2
    <3> QED
      BY <1>12, <2>1, <3>1, <3>2, <3>3, <3>4 DEF Names
  <2> QED
    BY <1>2, <1>8, <1>17, <2>1 DEF Truthful
<1>19. Sentenced'
  <2>1. \A a \in Deeds : Noted(a)' /\ a.kind = "exact" => Trash(a.content)'
    BY <1>1, <1>11, <1>13, <1>17, DeedParts DEF Sentenced, Trash, Noted
  <2> QED
    BY <1>1, <1>2, <1>11, <1>14, <1>17, <2>1 DEF Sentenced
<1>20. Missed'
  <2>1. SUFFICES ASSUME ~ghost.reused, NEW p \in Paths, rows[p] # Nothing, disk[p] # rows[p].content
                 PROVE  rows[p].content \in ghost.lapsed
    BY <1>2, <1>11, <1>12 DEF Missed
  <2>2. p \notin S
    BY <1>8, <2>1
  <2> QED
    BY <1>1, <1>8, <1>14, <2>1, <2>2 DEF Books, Missed
<1>21. \A c \in Content : (RowsOf(row, c) # {} /\ c \notin cs) => RowsOf(rows, c) # {}
  BY <1>8, <1>10 DEF RowsOf
<1>22. OrphansOnlyByUntrash'
  <2>1. SUFFICES ASSUME ~ghost.reused, NEW c \in Content \ ghost.untrashed, asset'[c] = "active"
                 PROVE  RowsOf(rows, c) # {}
    BY <1>2, <1>11, <1>12 DEF OrphansOnlyByUntrash, RowsOf
  <2>2. CASE asset[c] = "active"
    <3>1. RowsOf(row, c) # {}
      BY <1>1, <2>1, <2>2 DEF Books, OrphansOnlyByUntrash
    <3> QED
      BY <1>13, <1>21, <2>1, <3>1
  <2>3. CASE \E p \in here : disk[p] = c
    BY <1>3, <1>8, <2>3 DEF RowsOf
  <2> QED
    BY <1>9, <1>13, <2>1, <2>2, <2>3
<1>23. Remembered'
  <2>1. SUFFICES ASSUME ~ghost.reused, NEW c \in ghost.condemned \ (ghost.lapsed \cup ghost.untrashed)
                 PROVE  asset'[c] = "trashed" \/ RowsOf(row', c) # {}
    <3>1. ghost'.condemned \ (ghost'.lapsed \cup ghost'.untrashed)
            = ghost.condemned \ (ghost.lapsed \cup ghost.untrashed)
      BY <1>11
    <3> QED
      BY <1>12, <3>1 DEF Remembered
  <2>2. c \in Content /\ (asset[c] = "trashed" \/ RowsOf(row, c) # {})
    BY <1>1, <1>14, <2>1, RecordTypes DEF Books, Remembered, Typed
  <2>3. CASE RowsOf(row, c) # {}
    <3>1. PICK p \in Paths : row[p] # Nothing /\ row[p].content = c
      BY <2>3 DEF RowsOf
    <3>2. CASE p \in S
      <4>1. disk[p] = c
        BY <1>1, <1>14, <2>1, <3>1 DEF Books, Missed
      <4>2. p \in here
        BY <1>3, <2>2, <3>2, <4>1, Disjoint
      <4> QED
        BY <1>8, <1>12a, <3>1, <4>1, <4>2 DEF RowsOf
    <3>3. CASE p \notin S
      BY <1>8, <1>12a, <3>1, <3>3 DEF RowsOf
    <3> QED
      BY <3>2, <3>3
  <2> QED
    BY <1>13, <1>12a, <2>2, <2>3
<1> QED
  BY <1>15, <1>16, <1>18, <1>19, <1>20, <1>22, <1>23 DEF IInv, Books

(***************************************************************************)
(* The invariant                                                           *)
(***************************************************************************)
LEMMA InitHolds == Init => IInv
<1> SUFFICES ASSUME Init PROVE IInv
  OBVIOUS
<1> DEFINE none == [p \in Paths |-> Nothing]
           S == {p \in Paths : disk[p] # Nothing}
<1>1. disk \in [File -> Content \cup {Nothing}]
  BY TrashAssumption, Disjoint DEF Init, Paths
<1>2. row = Numbered(none, S) /\ none \in Rows /\ DistinctIds(none)
  BY DEF Init, Rows, DistinctIds
<1>3. /\ row \in Rows /\ DistinctIds(row)
      /\ \A p \in Paths \ S : row[p] = none[p]
      /\ \A p \in S : row[p] # Nothing /\ row[p].content = disk[p]
  <2> HIDE DEF none
  <2> QED
    BY <1>1, <1>2, Numbers
<1>4. /\ job = NoJob /\ Shape /\ job.at = "idle" /\ job.kind = "none" /\ job.hold = Nothing
      /\ job.done = {} /\ job.exact = {} /\ job.todo = {} /\ ~Holding
  BY NothingLeft DEF Init, Shape, Holding
<1>5. /\ run \in RunType /\ ~Pending /\ stage \in StageType
      /\ ghost \in GhostType /\ ghost.condemned = {}
  BY DEF Init, NoRun, RunType, Pending, NoStage, StageType, NoGhost, GhostType
<1>6. asset = [c \in Content |-> IF RowsOf(row, c) = {} THEN "none" ELSE "active"]
  BY DEF Init
<1>7. Typed
  BY <1>1, <1>3, <1>4, <1>5, <1>6 DEF Typed, Fates
<1>8. Course
  BY <1>4 DEF Course, Holding, Idle
<1>9. \A a \in Deeds : ~Ordered(a) /\ ~Found(a) /\ ~Shelved(a)
  BY <1>4, <1>5 DEF Ordered, Found, Shelved
<1>10. Truthful /\ Sentenced
  BY <1>3, <1>4, <1>9 DEF Truthful, Sentenced, Noted
<1>11. Missed
  BY <1>3 DEF Missed
<1>12. OrphansOnlyByUntrash
  BY <1>6 DEF OrphansOnlyByUntrash
<1>13. Remembered
  BY <1>5 DEF Remembered
<1> QED
  BY <1>7, <1>8, <1>10, <1>11, <1>12, <1>13 DEF IInv, Books

LEMMA StutterKeeps == IInv /\ UNCHANGED vars => IInv'
<1> SUFFICES ASSUME IInv, UNCHANGED vars PROVE IInv'
  OBVIOUS
<1>1. UNCHANGED <<disk, row, asset, run, stage, job, ghost>>
  BY DEF vars
<1>2. Typed'
  BY <1>1 DEF IInv, Typed
<1>3. Course'
  BY <1>1 DEF IInv, Course, Shape, Holding, Idle, Pending
<1>4. \A a \in Deeds : /\ Ordered(a)' <=> Ordered(a)
                       /\ Found(a)' <=> Found(a)
                       /\ Shelved(a)' <=> Shelved(a)
  BY <1>1 DEF Ordered, Found, Shelved, Pending
<1>5. Truthful'
  BY <1>1, <1>4 DEF IInv, Truthful, Noted
<1>6. Sentenced'
  <2>1. \A a \in Deeds : Noted(a)' /\ a.kind = "exact" => Trash(a.content)'
    BY <1>1, <1>4 DEF IInv, Sentenced, Noted, Trash
  <2> QED
    BY <1>1, <1>4, <2>1 DEF IInv, Sentenced
<1>7. Books'
  BY <1>1 DEF IInv, Books, Missed, OrphansOnlyByUntrash, Remembered, RowsOf, Holding
<1> QED
  BY <1>2, <1>3, <1>5, <1>6, <1>7 DEF IInv

LEMMA WorkerKeeps == IInv /\ Worker => IInv'
<1> SUFFICES ASSUME IInv, Worker PROVE IInv'
  OBVIOUS
<1>1. CASE Refreshing
  BY <1>1, AbsorbKeeps, EmptyKeeps, AbsorbedKeeps DEF Refreshing
<1>2. CASE Reviewing
  <2>1. CASE Open
    BY <2>1, OpenKeeps
  <2>2. CASE \E a \in job.todo : StatTarget(a) \/ Link(a)
    BY <2>2, StatTargetKeeps, LinkKeeps
  <2>3. CASE MakeFolder
    BY <2>3, MakeFolderKeeps
  <2>4. CASE PersistStaged
    BY <2>4, PersistStagedKeeps
  <2>5. CASE PersistExact
    BY <2>5, PersistExactKeeps
  <2> QED
    BY <1>2, <2>1, <2>2, <2>3, <2>4, <2>5 DEF Reviewing
<1>3. CASE Deleting
  <2>1. CASE List
    BY <2>1, ListKeeps
  <2>2. CASE Check
    BY <2>2, CheckKeeps
  <2>3. CASE \E a \in job.todo : Recycle(a)
    BY <2>3, RecycleKeeps
  <2>4. CASE Record
    BY <2>4, RecordKeeps
  <2>5. CASE Deleted
    BY <2>5, DeletedKeeps
  <2>6. CASE Tidy
    BY <2>6, TidyKeeps
  <2>7. CASE Close
    BY <2>7, CloseKeeps
  <2> QED
    BY <1>3, <2>1, <2>2, <2>3, <2>4, <2>5, <2>6, <2>7 DEF Deleting
<1>4. CASE \E c \in Content : Untrash(c)
  BY <1>4, UntrashKeeps
<1> QED
  BY <1>1, <1>2, <1>3, <1>4 DEF Worker

LEMMA NextKeeps == IInv /\ [Next]_vars => IInv'
<1> SUFFICES ASSUME IInv, [Next]_vars PROVE IInv'
  OBVIOUS
<1>1. CASE User
  BY <1>1, UserKeeps
<1>2. CASE \E kind \in Kinds : Start(kind)
  BY <1>2, StartKeeps
<1>3. CASE Scan(Lib)
  BY <1>3, ScanKeeps
<1>4. CASE Scan(Other)
  BY <1>4, ScanKeeps
<1>5. CASE Worker
  BY <1>5, WorkerKeeps
<1>6. CASE Cancelled
  BY <1>6, CancelledKeeps
<1>7. CASE Crash
  BY <1>7, CrashKeeps
<1>8. CASE UNCHANGED vars
  BY <1>8, StutterKeeps
<1> QED
  BY <1>1, <1>2, <1>3, <1>4, <1>5, <1>6, <1>7, <1>8 DEF Next

\* The places, actions and books of the trash memory fit together in every
\* reachable state: what each job holds (trash.py, jobs/cleanup.py, jobs/untrash.py)
\* is backed by rows, by the memory and by what the user has decided.
THEOREM Inductive == Spec => []IInv
<1>1. Init => IInv
  BY InitHolds
<1>2. IInv /\ [Next]_vars => IInv'
  BY NextKeeps
<1> QED
  BY <1>1, <1>2, PTL DEF Spec

\* An active asset has a file in a library root: every deletion of a row, a scan's
\* (scan.py), cleanup's and trash refresh's, forgets or trashes the asset that
\* loses its last one.  Only untrash during a pending review, or a rowid reused
\* meanwhile, can leave one without.
THEOREM OrphansOnlyByUntrashHolds == Spec => []OrphansOnlyByUntrash
<1>1. IInv => OrphansOnlyByUntrash
  BY DEF IInv, Books
<1> QED
  BY <1>1, Inductive, PTL

\* Whatever cleanup recycled (_delete_one, jobs/cleanup.py) or trash refresh emptied
\* (trash.py) is in the trash memory between jobs, or still has a file in a root.
THEOREM DiscardsRememberedHolds == Spec => []DiscardsRemembered
<1>1. IInv => DiscardsRemembered
  <2>1. SUFFICES ASSUME IInv, Idle, ~ghost.reused,
                        NEW c \in ghost.condemned \ (ghost.lapsed \cup ghost.untrashed)
                 PROVE  asset[c] = "trashed" \/ RowsOf(row, c) # {}
    BY DEF DiscardsRemembered
  <2>2. ~Holding
    BY <2>1, NothingLeft DEF IInv, Course, Holding
  <2> QED
    BY <2>1, <2>2 DEF IInv, Books, Remembered
<1> QED
  BY <1>1, Inductive, PTL

\* Only Recycle takes a file in hand during a deletion.
LEMMA HandsOnlyByRecycle ==
  ASSUME IInv, [Next]_vars, job.at = "delete", job.hold = Nothing, job'.hold # Nothing
  PROVE  job'.hold \in job.todo
<1>1. Shape /\ ~Idle
  BY NothingLeft DEF IInv, Course
<1>2. CASE User \/ UNCHANGED vars
  BY <1>2 DEF User, vars
<1>3. CASE (\E kind \in Kinds : Start(kind)) \/ Scan(Lib) \/ Scan(Other)
  BY <1>1, <1>3 DEF Start, Scan
<1>4. ~Finish
  BY NothingLeft DEF Finish
<1>5. ~Cancelled /\ ~Crash
  BY <1>4 DEF Cancelled, Crash
<1>6. ~Refreshing
  BY DEF Refreshing, Absorb, Empty, Absorbed
<1>7. ~Reviewing
  BY DEF Reviewing, Open, StatTarget, Link, MakeFolder, PersistStaged, PersistExact
<1>8. ~(\E c \in Content : Untrash(c))
  BY DEF Untrash
<1>9. CASE Deleting
  <2>1. ~List /\ ~Check /\ ~Record /\ ~Tidy /\ ~Close
    BY DEF List, Check, Record, Tidy, Close
  <2>2. ~Deleted
    BY <1>1, <1>4 DEF Deleted, Shape
  <2>3. PICK a \in job.todo : Recycle(a)
    BY <1>9, <2>1, <2>2 DEF Deleting
  <2>4. job' = [job EXCEPT !.todo = @ \ {a}] \/ job' = [job EXCEPT !.hold = a]
    BY <2>3 DEF Recycle
  <2>5. job'.hold = a
    BY <1>1, <2>4 DEF Shape
  <2> QED
    BY <2>5
<1> QED
  BY <1>2, <1>3, <1>5, <1>6, <1>7, <1>8, <1>9 DEF Next, Worker

\* cleanup never recycles a file of another root, nor one of its own that is neither
\* trash, nor undecodable, nor offered in a review and left ticked by the user
\* (_confirm and _delete_one, jobs/cleanup.py), whatever the user, the scans of
\* other roots, cancels and kills do in between.
THEOREM RecyclesOnlyCondemnedHolds == Spec => RecyclesOnlyCondemned
<1> DEFINE Fair ==
      LET a == job'.hold
      IN job.at = "delete" /\ job.hold = Nothing /\ a # Nothing /\ disk[a.path] = a.content =>
           /\ a.path \in Lib
           /\ CASE a.kind = "exact" -> asset[a.content] = "trashed" \/ a.content \in ghost.untrashed
                [] a.kind = "undecodable" -> a.content \in Broken
                [] OTHER -> a.path \in ghost.offered \ ghost.spared
<1>1. ASSUME IInv, [Next]_vars PROVE Fair
  <2> DEFINE a == job'.hold
             Condemned ==
               CASE a.kind = "exact" -> asset[a.content] = "trashed" \/ a.content \in ghost.untrashed
                 [] a.kind = "undecodable" -> a.content \in Broken
                 [] OTHER -> a.path \in ghost.offered \ ghost.spared
  <2>1. SUFFICES ASSUME job.at = "delete", job.hold = Nothing, a # Nothing PROVE a.path \in Lib /\ Condemned
    OBVIOUS
  <2>2. a \in job.todo /\ a \in Deeds /\ Ordered(a) /\ Noted(a)
    BY <1>1, <2>1, HandsOnlyByRecycle DEF IInv, Course, Ordered, Noted
  <2> HIDE DEF a
  <2>3. a.path \in Lib /\ a.kind \in {"exact", "undecodable", "perceptual"}
    BY <2>2, DeedParts
  <2>4. CASE a.kind = "exact"
    BY <1>1, <2>2, <2>3, <2>4 DEF IInv, Sentenced, Trash
  <2>5. CASE a.kind = "undecodable"
    BY <1>1, <2>2, <2>3, <2>5 DEF IInv, Sentenced
  <2>6. CASE a.kind = "perceptual"
    BY <1>1, <2>2, <2>3, <2>6 DEF IInv, Sentenced
  <2> QED
    BY <2>3, <2>4, <2>5, <2>6
<1>2. IInv /\ [Next]_vars => [Fair]_vars
  BY <1>1
<1> QED
  BY <1>2, Inductive, PTL DEF Spec, RecyclesOnlyCondemned
=============================================================================
