--------------------------- MODULE RootScanProofs ---------------------------
(***************************************************************************)
(* Proofs about RootScan, for any roots, directory trees, files, contents, *)
(* workers and bounds: a scan never drops the row of a file that stayed,   *)
(* an undisturbed pass leaves the catalog equal to the disk, and the       *)
(* problem report is what lies there.                                      *)
(***************************************************************************)
EXTENDS RootScan, FiniteSetTheorems, WellFoundedInduction, TLAPS

AssetType == [content : Content, status : {"active", "trashed"},
              print : Content \cup {Nothing}, broken : BOOLEAN]
StatType  == [size : Nat, stamp : Nat]
RowType   == [asset : Id, size : Nat, stamp : Nat]
HandType  == [path : Path, content : Content, id : Id \cup {0},
              how : {"new", "backfill", "attach"}, active : BOOLEAN]
Assets    == [Id -> AssetType \cup {Nothing}]
Rows      == [Path -> RowType \cup {Nothing}]
WalkType  == [open : SUBSET Dir, found : [Path -> StatType \cup {Nothing}],
              suppressed : SUBSET Dir, offline : SUBSET Root]
PassType  == [known : SUBSET Path, seen : SUBSET Path, work : SUBSET Path, errors : BOOLEAN]
JobType   == [kind : {"none", "scan", "probe"}, full : BOOLEAN,
              at : {"idle", "walk", "count", "plan", "files", "stamp", "report"},
              targets : SUBSET Root, plan : SUBSET Root, done : SUBSET Root, failed : BOOLEAN]
GhostType == [away : SUBSET Path, disturbed : SUBSET Root, quiet : SUBSET Root,
              deceived : BOOLEAN]

Typed ==
    /\ disk \in [Path -> Version \cup {Nothing}]
    /\ asset \in Assets
    /\ row \in Rows
    /\ walk \in WalkType
    /\ pass \in PassType
    /\ hand \in [Worker -> HandType \cup {Nothing}]
    /\ job \in JobType
    /\ ghost \in GhostType
    /\ budget \in [passes : Nat, events : Nat]

(***************************************************************************)
(* What the place of a job says about the walk and the workers.            *)
(***************************************************************************)
InPass == job.at \in {"plan", "files", "stamp", "count"}

Course ==
    /\ Idle => walk = NoWalk
    /\ job.at # "files" => \A w \in Worker : hand[w] = Nothing
    /\ job.at = "walk" => job.done = {} /\ job.plan \cap job.targets = {}
    /\ InPass => job.plan # {} /\ job.plan \cap job.done = {}
    /\ job.at \notin {"walk"} => walk.open = {}
    /\ \A d \in walk.open : Above[d] \cap Root \subseteq job.plan
    /\ ~Idle => \A d \in walk.suppressed : Above[d] \cap Root \subseteq job.plan \cup job.done
    /\ walk.offline \subseteq walk.suppressed
    /\ job.at = "walk" => \A p \in Path : RootOf(p) \notin job.plan => walk.found[p] = Nothing

(***************************************************************************)
(* What the walk has to know of the files: of those that stay, that they   *)
(* are found, or lie below a directory that is still open or could not be  *)
(* read; in a root nobody has disturbed, exactly what is there.            *)
(***************************************************************************)
Covered(p) ==
    walk.found[p] # Nothing \/ Suppressed(p) \/ \E d \in walk.open : d \in Above[DirOf[p]]

Stays ==
    ~Idle => \A p \in Path \ ghost.away :
        disk[p] # Nothing /\ (RootOf(p) \in job.plan => Covered(p))

Exact ==
    ~Idle => \A p \in Path : RootOf(p) \in job.plan \ ghost.disturbed =>
        /\ ~Suppressed(p)
        /\ walk.found[p] # Nothing => disk[p] # Nothing /\ walk.found[p] = Stat(disk[p])
        /\ disk[p] # Nothing => Covered(p)

(***************************************************************************)
(* The pass over a root: what is left for deletion detection was not       *)
(* found, and the workers hold files that were.                            *)
(***************************************************************************)
Sorted ==
    job.at = "files" =>
        /\ \A p \in pass.known \ pass.seen : p \in Files(Current) /\ walk.found[p] = Nothing
        /\ \A p \in pass.work : p \in Files(Current) /\ walk.found[p] # Nothing
        /\ \A w \in Worker : Busy(w) =>
              hand[w].path \in Files(Current) /\ walk.found[hand[w].path] # Nothing

Holds(h) ==
    /\ h.how = "new" => \A i \in Id : asset[i] # Nothing /\ asset[i].content = h.content =>
                            FullyPrinted(asset[i])
    /\ h.how # "new" => h.id \in Id
    /\ h.how = "attach" /\ asset[h.id] # Nothing /\ asset[h.id].content = h.content =>
           FullyPrinted(asset[h.id])

(***************************************************************************)
(* The catalog: every row has its asset, and unless a stamp has deceived   *)
(* the scan, prints, rows and workers tell the truth.                      *)
(***************************************************************************)
Refs == \A p \in Path : row[p] # Nothing => asset[row[p].asset] # Nothing

Prints(as) ==
    \A i \in Id : as[i] # Nothing /\ FullyPrinted(as[i]) =>
        as[i].print = Printed(as[i].content) /\ (as[i].broken <=> as[i].content \in Broken)

RowTrue(p)  == ~Contradicts(disk[p], row[p].stamp, asset[row[p].asset].content)
HandTrue(h) == ~Contradicts(disk[h.path], walk.found[h.path].stamp, h.content)

Truth ==
    ~ghost.deceived =>
        /\ Prints(asset)
        /\ \A p \in Path : row[p] # Nothing => RowTrue(p)
        /\ \A w \in Worker : Busy(w) => HandTrue(hand[w])

Settled(p) ==
    /\ row[p] # Nothing
    /\ asset[row[p].asset].content = disk[p].content
    /\ FullyPrinted(asset[row[p].asset])

Mirrored(p) == IF disk[p] = Nothing THEN row[p] = Nothing ELSE Settled(p)

Undisturbed == ~pass.errors /\ Current \notin ghost.disturbed /\ ~ghost.deceived

Caught ==
    /\ job.at = "files" /\ Undisturbed =>
          \A p \in Files(Current) :
             IF disk[p] = Nothing THEN row[p] = Nothing \/ p \in pass.known \ pass.seen
             ELSE \/ p \in pass.work
                  \/ \E w \in Worker : Busy(w) /\ hand[w].path = p
                  \/ Settled(p)
    /\ job.at = "stamp" /\ Undisturbed => \A p \in Files(Current) : Mirrored(p)

Quieted ==
    ~Idle => \A r \in ghost.quiet :
        r \in job.done /\ (~ghost.deceived => \A p \in Files(r) : Mirrored(p))

IInv ==
    /\ Typed /\ Course
    /\ Stays /\ Exact /\ Sorted
    /\ \A w \in Worker : Busy(w) => Holds(hand[w])
    /\ Refs /\ Truth /\ Caught /\ Quieted

(***************************************************************************)
(* The constants: roots, directories and numbers                           *)
(***************************************************************************)
LEMMA HasMax ==
  ASSUME NEW S \in SUBSET Nat, IsFiniteSet(S), S # {}
  PROVE  Max(S) \in S /\ \A y \in S : Max(S) >= y
<1> DEFINE R == StrictSubsetOrdering(S)
           UpFrom(x) == {y \in S : y >= x}
           T == {UpFrom(x) : x \in S}
<1>1. \A x \in S : x \in Nat
  OBVIOUS
<1>2. T # {} /\ T \subseteq FiniteSubsetsOf(S)
  <2>1. ASSUME NEW x \in S PROVE UpFrom(x) \in SUBSET S /\ IsFiniteSet(UpFrom(x))
    BY FS_Subset
  <2> HIDE DEF UpFrom
  <2> QED
    BY <2>1 DEF FiniteSubsetsOf
<1>3. PICK U \in T : \A V \in T : <<V, U>> \notin R
  <2> HIDE DEF R, T
  <2>1. IsWellFoundedOn(R, FiniteSubsetsOf(S))
    BY FS_StrictSubsetOrderingWellFounded DEF R
  <2> QED
    BY <1>2, <2>1, WFMin
<1>4. PICK x \in S : U = UpFrom(x)
  BY <1>3
<1>5. ASSUME NEW y \in S PROVE x >= y
  <2> SUFFICES ASSUME y > x PROVE FALSE
    BY <1>1
  <2>1. x \in Nat /\ y \in Nat
    BY <1>1
  <2>2. ASSUME NEW z \in S, z >= y PROVE z >= x
    BY <1>1, <2>1, <2>2
  <2>3. UpFrom(y) \subseteq UpFrom(x)
    BY <2>2, Zenon
  <2>4. ~(x >= y) /\ x >= x
    BY <2>1
  <2>5. x \in UpFrom(x) /\ x \notin UpFrom(y)
    BY <2>4, Zenon
  <2>6. <<UpFrom(y), U>> \in R
    BY <1>4, <2>3, <2>5 DEF StrictSubsetOrdering
  <2> QED
    BY <1>3, <2>6
<1> QED
  BY <1>5 DEF Max

LEMMA Constants ==
  /\ Id \subseteq Nat /\ IsFiniteSet(Id) /\ 0 \notin Id /\ Cardinality(Path) \in Nat
  /\ Nothing \notin AssetType /\ Nothing \notin StatType /\ Nothing \notin RowType
  /\ Nothing \notin HandType /\ Nothing \notin Version /\ Nothing \notin Content
<1>1. Len(Indexed) + MaxEvents + 2 \in Nat
  BY RootAssumption
<1>2. Id \subseteq Nat /\ 0 \notin Id /\ IsFiniteSet(Id)
  BY <1>1, FS_Interval DEF Id
<1>3. Cardinality(Path) \in Nat
  BY RootAssumption, FS_CardinalityType
<1>4. RowType \subseteq [asset : Nat, size : Nat, stamp : Nat]
  BY <1>2 DEF RowType
<1>5. HandType \subseteq [path : Path, content : Content, id : Nat,
                          how : {"new", "backfill", "attach"}, active : BOOLEAN]
  <2>1. \A i \in Id \cup {0} : i \in Nat
    BY <1>2
  <2> QED
    BY <2>1 DEF HandType
<1> QED
  BY <1>2, <1>3, <1>4, <1>5, RootAssumption DEF StatType, AssetType

LEMMA OneRoot ==
  ASSUME NEW p \in Path
  PROVE  /\ RootOf(p) \in Root /\ DirOf[p] \in Dir
         /\ \A d \in Above[DirOf[p]] : d \in Dir /\ Above[d] \cap Root = {RootOf(p)}
<1>1. DirOf[p] \in Dir /\ Above[DirOf[p]] \subseteq Dir
  BY RootAssumption
<1>2. PICK r \in Root : Above[DirOf[p]] \cap Root = {r}
  BY <1>1, RootAssumption
<1>3. RootOf(p) = r
  BY <1>2 DEF RootOf
<1>4. ASSUME NEW d \in Above[DirOf[p]] PROVE Above[d] \cap Root = {RootOf(p)}
  <2>1. d \in Dir /\ Above[d] \subseteq Above[DirOf[p]]
    BY <1>1, RootAssumption
  <2>2. PICK s \in Root : Above[d] \cap Root = {s}
    BY <2>1, RootAssumption
  <2> QED
    BY <1>2, <1>3, <2>1, <2>2
<1> QED
  BY <1>1, <1>2, <1>3, <1>4

LEMMA NextDown ==
  ASSUME NEW p \in Path, NEW d \in Above[DirOf[p]], d # DirOf[p]
  PROVE  \E e \in Dir : e # d /\ Above[e] = Above[d] \cup {e} /\ e \in Above[DirOf[p]]
<1>1. DirOf[p] \in Dir /\ Above[DirOf[p]] \subseteq Dir
  BY RootAssumption
<1>2. PICK e \in Above[DirOf[p]] \ {d} : Above[e] = Above[d] \cup {e}
  BY <1>1, RootAssumption
<1> QED
  BY <1>1, <1>2

LEMMA FirstIn ==
  ASSUME NEW rs \in SUBSET Root, rs # {}
  PROVE  First(rs) \in rs
<1>1. PICK r \in rs : TRUE
  OBVIOUS
<1>2. \A s \in rs : Order[s] \in Nat
  BY RootAssumption
<1> DEFINE Lower == {n \in 0 .. Order[r] : \A s \in rs : n <= Order[s]}
<1>3. Lower \in SUBSET Nat /\ IsFiniteSet(Lower) /\ 0 \in Lower
  <2>1. Order[r] \in Nat /\ IsFiniteSet(0 .. Order[r])
    BY <1>1, <1>2, FS_Interval
  <2>2. Lower \subseteq 0 .. Order[r] /\ 0 \in Lower
    BY <1>2, <2>1
  <2> HIDE DEF Lower
  <2>3. IsFiniteSet(Lower)
    BY <2>1, <2>2, FS_Subset
  <2> QED
    BY <2>1, <2>2, <2>3
<1>4. Max(Lower) \in Lower /\ \A n \in Lower : Max(Lower) >= n
  <2> HIDE DEF Lower
  <2> QED
    BY <1>3, HasMax
<1> DEFINE m == Max(Lower)
<1>5. \E s \in rs : Order[s] = m
  <2> SUFFICES ASSUME \A s \in rs : Order[s] # m PROVE FALSE
    OBVIOUS
  <2>1. m \in Nat /\ m <= Order[r] /\ \A s \in rs : m <= Order[s]
    BY <1>1, <1>2, <1>4
  <2> HIDE DEF m
  <2>2. m + 1 \in Lower
    BY <1>1, <1>2, <2>1
  <2>3. ~(m >= m + 1)
    BY <2>1
  <2> QED
    BY <1>4, <2>2, <2>3 DEF m
<1>6. \E s \in rs : \A t \in rs : Order[s] <= Order[t]
  BY <1>4, <1>5
<1> QED
  BY <1>6 DEF First

LEMMA FreshId ==
  ASSUME NEW as \in Assets, NewId(as) \in Id
  PROVE  as[NewId(as)] = Nothing
<1>1. {0} \cup Live(as) \in SUBSET Nat /\ IsFiniteSet({0} \cup Live(as))
  <2>1. Live(as) \subseteq Id
    BY DEF Live
  <2>2. IsFiniteSet(Live(as)) /\ IsFiniteSet({0})
    BY <2>1, Constants, FS_Subset, FS_Singleton
  <2>3. IsFiniteSet({0} \cup Live(as))
    BY <2>2, FS_Union
  <2>4. {0} \cup Live(as) \subseteq Nat
    <3>1. Live(as) \subseteq Nat
      BY <2>1, Constants
    <3>2. ASSUME NEW i \in {0} \cup Live(as) PROVE i \in Nat
      <4>1. CASE i = 0
        BY <4>1
      <4>2. CASE i \in Live(as)
        BY <3>1, <4>2
      <4> QED
        BY <4>1, <4>2
    <3> QED
      BY <3>2
  <2> QED
    BY <2>3, <2>4
<1>2. /\ Max({0} \cup Live(as)) \in {0} \cup Live(as)
      /\ \A y \in {0} \cup Live(as) : Max({0} \cup Live(as)) >= y
  BY <1>1, HasMax
<1> DEFINE m == Max({0} \cup Live(as))
<1>3. m \in Nat /\ \A i \in Live(as) : m >= i
  BY <1>1, <1>2
<1> HIDE DEF m
<1>4. 1 + m \notin Live(as)
  <2>1. ~(m >= 1 + m)
    BY <1>3
  <2> QED
    BY <1>3, <2>1
<1> QED
  BY <1>4 DEF NewId, Live, m

(***************************************************************************)
(* Records, field by field                                                 *)
(***************************************************************************)
LEMMA AssetParts ==
  ASSUME NEW as \in Assets, NEW i \in Id, as[i] # Nothing
  PROVE  /\ as[i] \in AssetType /\ as[i].content \in Content
         /\ as[i].print \in Content \cup {Nothing} /\ as[i].broken \in BOOLEAN
<1>1. as[i] \in AssetType
  BY DEF Assets
<1> QED
  BY <1>1 DEF AssetType

LEMMA RowParts ==
  ASSUME NEW rows \in Rows, NEW p \in Path, rows[p] # Nothing
  PROVE  rows[p] \in RowType /\ rows[p].asset \in Id
<1>1. rows[p] \in RowType
  BY DEF Rows
<1> QED
  BY <1>1 DEF RowType

LEMMA HandParts ==
  ASSUME Typed, NEW w \in Worker, Busy(w)
  PROVE  /\ hand[w] \in HandType /\ hand[w].path \in Path /\ hand[w].content \in Content
         /\ hand[w].id \in Id \cup {0} /\ hand[w].how \in {"new", "backfill", "attach"}
<1>1. hand[w] \in HandType
  BY DEF Typed, Busy
<1> QED
  BY <1>1 DEF HandType

LEMMA DiskParts ==
  ASSUME NEW p \in Path, disk \in [Path -> Version \cup {Nothing}], disk[p] # Nothing
  PROVE  /\ disk[p].content \in Content /\ disk[p].stamp \in Nat
         /\ Stat(disk[p]) \in StatType /\ Stat(disk[p]) # Nothing
         /\ Stat(disk[p]).stamp = disk[p].stamp
<1>1. disk[p] \in Version
  OBVIOUS
<1>2. disk[p].content \in Content /\ disk[p].stamp \in Nat
  BY <1>1 DEF Version
<1>3. Size[disk[p].content] \in Nat
  BY <1>2, RootAssumption
<1> QED
  BY <1>2, <1>3, Constants DEF Stat, StatType

LEMMA Fields ==
  /\ walk \in WalkType => /\ walk.open \subseteq Dir /\ walk.suppressed \subseteq Dir
                          /\ walk.offline \subseteq Root
                          /\ walk.found \in [Path -> StatType \cup {Nothing}]
  /\ pass \in PassType => /\ pass.known \subseteq Path /\ pass.seen \subseteq Path
                          /\ pass.work \subseteq Path /\ pass.errors \in BOOLEAN
  /\ job \in JobType => /\ job.targets \subseteq Root /\ job.plan \subseteq Root
                        /\ job.done \subseteq Root
  /\ ghost \in GhostType => /\ ghost.away \subseteq Path /\ ghost.disturbed \subseteq Root
                            /\ ghost.quiet \subseteq Root /\ ghost.deceived \in BOOLEAN
BY DEF WalkType, PassType, JobType, GhostType

LEMMA Nulls ==
  /\ NoWalk \in WalkType /\ NoWalk.open = {} /\ NoWalk.suppressed = {} /\ NoWalk.offline = {}
  /\ \A p \in Path : NoWalk.found[p] = Nothing
  /\ NoPass \in PassType
  /\ NoJob \in JobType /\ NoJob.at = "idle"
  /\ NoGhost \in GhostType
BY DEF NoWalk, WalkType, NoPass, PassType, NoJob, JobType, NoGhost, GhostType

LEMMA Forgets ==
  ASSUME NEW as \in Assets, NEW rows \in Rows, NEW ids
  PROVE  /\ Forget(as, rows, ids) \in Assets
         /\ \A i \in Id : Forget(as, rows, ids)[i] \in {as[i], Nothing}
         /\ \A p \in Path : rows[p] # Nothing =>
               Forget(as, rows, ids)[rows[p].asset] = as[rows[p].asset]
<1> DEFINE f == Forget(as, rows, ids)
<1>1. f = [i \in Id |-> IF /\ i \in ids /\ as[i] # Nothing /\ as[i].status = "active"
                           /\ \A p \in Path : rows[p] = Nothing \/ rows[p].asset # i
                        THEN Nothing ELSE as[i]]
  BY DEF Forget
<1> HIDE DEF f
<1>2. \A i \in Id : f[i] \in {as[i], Nothing}
  BY <1>1
<1>3. \A p \in Path : rows[p] # Nothing => f[rows[p].asset] = as[rows[p].asset]
  BY <1>1, RowParts
<1>4. f \in Assets
  BY <1>1 DEF Assets
<1> QED
  BY <1>2, <1>3, <1>4 DEF f

(***************************************************************************)
(* Frames                                                                  *)
(***************************************************************************)
\* Between two jobs nothing is claimed of walk, pass or workers.
LEMMA AtRest ==
  ASSUME job'.at = "idle", walk' = NoWalk, \A w \in Worker : hand'[w] = Nothing
  PROVE  /\ Course' /\ Stays' /\ Exact' /\ Sorted' /\ Caught' /\ Quieted'
         /\ \A w \in Worker : Busy(w)' => Holds(hand[w])'
<1>1. walk'.open = {} /\ walk'.suppressed = {} /\ walk'.offline = {}
  BY Nulls
<1>2. Course'
  BY <1>1 DEF Course, Idle, InPass
<1> QED
  BY <1>2 DEF Stays, Exact, Sorted, Caught, Quieted, Idle, Busy

\* A step of the job that leaves disk and catalog alone, when no worker is at work.
LEMMA CatalogStays ==
  ASSUME IInv, UNCHANGED <<disk, asset, row>>, ghost'.deceived = ghost.deceived,
         \A w \in Worker : hand'[w] = Nothing
  PROVE  /\ Refs' /\ Truth'
         /\ \A w \in Worker : Busy(w)' => Holds(hand[w])'
<1>1. Refs'
  BY DEF IInv, Refs
<1>2. \A p \in Path : RowTrue(p)' <=> RowTrue(p)
  BY DEF RowTrue
<1>3. Truth'
  BY <1>2 DEF IInv, Truth, Busy
<1> QED
  BY <1>1, <1>3 DEF Busy

LEMMA MirrorStays ==
  ASSUME UNCHANGED <<disk, asset, row>>
  PROVE  \A p \in Path : (Mirrored(p)' <=> Mirrored(p)) /\ (Settled(p)' <=> Settled(p))
BY DEF Mirrored, Settled

LEMMA RootsFiles ==
  ASSUME NEW r, NEW p \in Files(r)
  PROVE  p \in Path /\ RootOf(p) = r
BY DEF Files

\* The job's end, whatever it has done.
LEMMA EndKeeps ==
  ASSUME IInv, UNCHANGED <<disk, asset, row>>, job' = NoJob, walk' = NoWalk,
         pass' \in PassType, \A w \in Worker : hand'[w] = Nothing,
         hand' \in [Worker -> HandType \cup {Nothing}],
         ghost' = ghost, budget' \in [passes : Nat, events : Nat]
  PROVE  IInv'
<1>1. Typed'
  BY Nulls DEF IInv, Typed
<1>2. job'.at = "idle"
  BY Nulls
<1> QED
  BY <1>1, <1>2, AtRest, CatalogStays DEF IInv

LEMMA StopKeeps ==
  ASSUME IInv, Stop
  PROVE  IInv'
<1>1. /\ UNCHANGED <<disk, asset, row>> /\ job' = NoJob /\ walk' = NoWalk /\ pass' = NoPass
      /\ hand' = [w \in Worker |-> Nothing] /\ ghost' = ghost /\ budget' = budget
  BY DEF Stop
<1> QED
  BY <1>1, Nulls, EndKeeps DEF IInv, Typed

LEMMA ReportKeeps ==
  ASSUME IInv, Report
  PROVE  IInv'
<1>1. /\ UNCHANGED <<disk, asset, row, pass, hand, budget, ghost>> /\ job' = NoJob /\ walk' = NoWalk
      /\ job.at # "files"
  BY DEF Report
<1> QED
  BY <1>1, EndKeeps DEF IInv, Typed, Course

LEMMA CountKeeps ==
  ASSUME IInv, Count
  PROVE  IInv'
<1>1. /\ UNCHANGED <<disk, asset, row, pass, hand, budget, ghost>> /\ job' = NoJob /\ walk' = NoWalk
      /\ job.at # "files"
  BY DEF Count
<1> QED
  BY <1>1, EndKeeps DEF IInv, Typed, Course

\* Dedup and Review.
LEMMA SettingKeeps ==
  ASSUME IInv, UNCHANGED <<disk, asset, row, job, walk, pass, hand, ghost>>, budget' \in [passes : Nat, events : Nat]
  PROVE  IInv'
<1>1. Typed'
  BY DEF IInv, Typed
<1>2. Course'
  BY DEF IInv, Course, Idle, InPass
<1>3. \A p \in Path : (Covered(p)' <=> Covered(p)) /\ (Suppressed(p)' <=> Suppressed(p))
  BY DEF Covered, Suppressed
<1>4. Stays' /\ Exact'
  BY <1>3 DEF IInv, Stays, Exact, Idle
<1>5. Current' = Current
  BY DEF Current
<1>6. Sorted'
  BY <1>5 DEF IInv, Sorted, Busy
<1>7. \A w \in Worker : Busy(w)' => Holds(hand[w])'
  BY DEF IInv, Holds, Busy
<1>8. Refs' /\ Truth'
  BY DEF IInv, Refs, Truth, RowTrue, HandTrue, Busy
<1>9. \A p \in Path : (Mirrored(p)' <=> Mirrored(p)) /\ (Settled(p)' <=> Settled(p))
  BY MirrorStays
<1>10. Caught'
  BY <1>5, <1>9, RootsFiles DEF IInv, Caught, Undisturbed, Busy
<1>11. Quieted'
  BY <1>9, RootsFiles DEF IInv, Quieted, Idle
<1> QED
  BY <1>1, <1>2, <1>4, <1>6, <1>7, <1>8, <1>10, <1>11 DEF IInv

LEMMA EventCounts ==
  ASSUME Typed, Event
  PROVE  budget' \in [passes : Nat, events : Nat] /\ budget'.events \in Nat
BY DEF Event, Typed

(***************************************************************************)
(* The user, and the other jobs                                            *)
(***************************************************************************)
LEMMA ChangedGhost ==
  ASSUME Typed, NEW ps \in SUBSET Path, NEW new, Changed(ps, new)
  PROVE  /\ disk' = new /\ ghost' \in GhostType
         /\ ghost'.away = ghost.away \cup {p \in ps : new[p] = Nothing}
         /\ ghost'.disturbed = ghost.disturbed \cup {RootOf(p) : p \in ps}
         /\ ghost'.quiet = ghost.quiet \ {RootOf(p) : p \in ps}
         /\ ~ghost'.deceived => ~ghost.deceived /\ \A p \in ps : ~Deceives(p, new[p])
<1> DEFINE rs == {RootOf(p) : p \in ps}
           lied == \E p \in ps : Deceives(p, new[p])
<1>1. /\ disk' = new
      /\ ghost' = [away |-> ghost.away \cup {p \in ps : new[p] = Nothing},
                   disturbed |-> ghost.disturbed \cup rs, quiet |-> ghost.quiet \ rs,
                   deceived |-> ghost.deceived \/ lied]
  BY DEF Changed
<1>2. rs \subseteq Root
  BY OneRoot
<1>3. ghost \in GhostType
  BY DEF Typed
<1>4. lied \in BOOLEAN /\ (~lied => \A p \in ps : ~Deceives(p, new[p]))
  OBVIOUS
<1> HIDE DEF rs, lied
<1>5. /\ ghost'.away = ghost.away \cup {p \in ps : new[p] = Nothing}
      /\ ghost'.disturbed = ghost.disturbed \cup rs
      /\ ghost'.quiet = ghost.quiet \ rs
      /\ ghost'.deceived = (ghost.deceived \/ lied)
  BY <1>1
<1>6. ghost' \in GhostType
  BY <1>1, <1>2, <1>3, <1>4, Fields DEF GhostType
<1> QED
  BY <1>1, <1>4, <1>5, <1>6 DEF rs

LEMMA ChangedKeeps ==
  ASSUME IInv, NEW ps \in SUBSET Path, NEW new \in [Path -> Version \cup {Nothing}],
         \A p \in Path \ ps : new[p] = disk[p],
         Changed(ps, new), UNCHANGED <<asset, row, job, walk, pass, hand>>,
         budget' \in [passes : Nat, events : Nat]
  PROVE  IInv'
<1>1. Typed /\ Course /\ Stays /\ Exact /\ Sorted /\ Refs /\ Truth /\ Caught /\ Quieted
      /\ \A w \in Worker : Busy(w) => Holds(hand[w])
  BY DEF IInv
<1>2. /\ disk' = new /\ ghost' \in GhostType
      /\ ghost'.away = ghost.away \cup {p \in ps : new[p] = Nothing}
      /\ ghost'.disturbed = ghost.disturbed \cup {RootOf(p) : p \in ps}
      /\ ghost'.quiet = ghost.quiet \ {RootOf(p) : p \in ps}
      /\ ~ghost'.deceived => ~ghost.deceived /\ \A p \in ps : ~Deceives(p, new[p])
  BY <1>1, ChangedGhost
<1>3. \A p \in Path : RootOf(p) \notin ghost'.disturbed \/ RootOf(p) \in ghost'.quiet => disk'[p] = disk[p]
  BY <1>2
<1>4. Typed'
  BY <1>1, <1>2 DEF Typed
<1>5. Course'
  BY <1>1 DEF Course, Idle, InPass
<1>6. \A p \in Path : (Covered(p)' <=> Covered(p)) /\ (Suppressed(p)' <=> Suppressed(p))
  BY DEF Covered, Suppressed
<1>7. Stays'
  <2>1. \A p \in Path \ ghost'.away : p \notin ghost.away /\ (p \in ps => disk'[p] # Nothing)
                                      /\ (p \notin ps => disk'[p] = disk[p])
    BY <1>2
  <2> QED
    BY <1>1, <1>6, <2>1 DEF Stays, Idle
<1>8. Exact'
  <2>1. ghost.disturbed \subseteq ghost'.disturbed
    BY <1>2
  <2> QED
    BY <1>1, <1>3, <1>6, <2>1 DEF Exact, Idle
<1>9. Current' = Current
  BY DEF Current
<1>10. Sorted'
  BY <1>1, <1>9 DEF Sorted, Busy
<1>11. \A w \in Worker : Busy(w)' => Holds(hand[w])'
  BY <1>1 DEF Holds, Busy
<1>12. Refs'
  BY <1>1 DEF Refs
<1>13. Truth'
  <2>1. SUFFICES ASSUME ~ghost'.deceived
                 PROVE  /\ Prints(asset)
                        /\ \A p \in Path : row[p] # Nothing => RowTrue(p)'
                        /\ \A w \in Worker : Busy(w) => HandTrue(hand[w])'
    BY DEF Truth, Busy
  <2>2. ~ghost.deceived /\ \A p \in ps : ~Deceives(p, new[p])
    BY <1>2, <2>1
  <2>3. ASSUME NEW p \in Path, row[p] # Nothing PROVE RowTrue(p)'
    <3>1. CASE p \in ps
      BY <1>2, <2>2, <2>3, <3>1 DEF Deceives, RowTrue
    <3>2. CASE p \notin ps
      BY <1>1, <1>2, <2>2, <2>3, <3>2 DEF Truth, RowTrue
    <3> QED
      BY <3>1, <3>2
  <2>4. ASSUME NEW w \in Worker, Busy(w) PROVE HandTrue(hand[w])'
    <3>1. hand[w].path \in Path
      BY <1>1, <2>4, HandParts
    <3>2. CASE hand[w].path \in ps
      BY <1>2, <2>2, <2>4, <3>2 DEF Deceives, HandTrue, Busy
    <3>3. CASE hand[w].path \notin ps
      BY <1>1, <1>2, <2>2, <2>4, <3>1, <3>3 DEF Truth, HandTrue
    <3> QED
      BY <3>2, <3>3
  <2> QED
    BY <1>1, <2>2, <2>3, <2>4 DEF Truth
<1>14. \A p \in Path : disk'[p] = disk[p] => (Mirrored(p)' <=> Mirrored(p)) /\ (Settled(p)' <=> Settled(p))
  BY DEF Mirrored, Settled
<1>15. Caught'
  <2>1. Undisturbed' => Undisturbed /\ \A p \in Files(Current) : disk'[p] = disk[p]
    BY <1>2, <1>3, <1>9, RootsFiles DEF Undisturbed
  <2> QED
    BY <1>1, <1>9, <1>14, <2>1, RootsFiles DEF Caught, Busy
<1>16. Quieted'
  <2>1. \A r \in ghost'.quiet : r \in ghost.quiet /\ \A p \in Files(r) : p \in Path /\ disk'[p] = disk[p]
    BY <1>2, <1>3, RootsFiles
  <2> QED
    BY <1>1, <1>2, <1>14, <2>1 DEF Quieted, Idle
<1> QED
  BY <1>4, <1>5, <1>7, <1>8, <1>10, <1>11, <1>12, <1>13, <1>15, <1>16 DEF IInv

LEMMA DiskKeeps ==
  ASSUME IInv, Disk
  PROVE  IInv'
<1>1. Typed /\ UNCHANGED <<asset, row, job, walk, pass, hand>> /\ budget' \in [passes : Nat, events : Nat]
  BY EventCounts DEF IInv, Disk
<1>2. disk \in [Path -> Version \cup {Nothing}] /\ NewStamp \in Nat
  BY <1>1, Constants DEF Typed, NewStamp
<1>3. ASSUME NEW p \in Path, Remove(p) PROVE IInv'
  <2> DEFINE new == [disk EXCEPT ![p] = Nothing]
  <2>1. Changed({p}, new)
    BY <1>3 DEF Remove
  <2>2. new \in [Path -> Version \cup {Nothing}] /\ \A q \in Path \ {p} : new[q] = disk[q]
    BY <1>2
  <2> HIDE DEF new
  <2> QED
    BY <1>1, <2>1, <2>2, ChangedKeeps
<1>4. ASSUME NEW p \in Path, NEW c \in Content, Write(p, c) PROVE IInv'
  <2> DEFINE new == [disk EXCEPT ![p] = [content |-> c, stamp |-> NewStamp]]
  <2>1. Changed({p}, new)
    BY <1>4 DEF Write
  <2>2. [content |-> c, stamp |-> NewStamp] \in Version
    BY <1>2 DEF Version
  <2>3. new \in [Path -> Version \cup {Nothing}] /\ \A q \in Path \ {p} : new[q] = disk[q]
    BY <1>2, <2>2
  <2> HIDE DEF new
  <2> QED
    BY <1>1, <2>1, <2>3, ChangedKeeps
<1>5. ASSUME NEW p \in Path, NEW q \in Path, Rename(p, q) PROVE IInv'
  <2> DEFINE new == [disk EXCEPT ![q] = disk[p], ![p] = Nothing]
  <2>1. Changed({p, q}, new)
    BY <1>5 DEF Rename
  <2>2. new \in [Path -> Version \cup {Nothing}] /\ \A o \in Path \ {p, q} : new[o] = disk[o]
    BY <1>2
  <2> HIDE DEF new
  <2> QED
    BY <1>1, <2>1, <2>2, ChangedKeeps
<1>6. ASSUME NEW p \in Path, NEW q \in Path, Copy(p, q) PROVE IInv'
  <2> DEFINE new == [disk EXCEPT ![q] = disk[p]]
  <2>1. Changed({q}, new)
    BY <1>6 DEF Copy
  <2>2. new \in [Path -> Version \cup {Nothing}] /\ \A o \in Path \ {q} : new[o] = disk[o]
    BY <1>2
  <2> HIDE DEF new
  <2> QED
    BY <1>1, <2>1, <2>2, ChangedKeeps
<1> QED
  BY <1>3, <1>4, <1>5, <1>6 DEF Disk

\* Between two jobs only the catalog has to agree with itself and with the disk.
LEMMA RestKeeps ==
  ASSUME IInv, Idle, UNCHANGED <<job, walk, pass, hand>>, Typed', Refs', Truth'
  PROVE  IInv'
<1>1. job'.at = "idle" /\ walk' = NoWalk /\ \A w \in Worker : hand'[w] = Nothing
  BY DEF IInv, Course, Idle
<1> QED
  BY <1>1, AtRest DEF IInv

LEMMA MergeInKeeps ==
  ASSUME IInv, NEW p \in Path, NEW c \in Content, MergeIn(p, c)
  PROVE  IInv'
<1>1. Typed /\ Refs /\ Truth /\ Idle /\ UNCHANGED <<job, walk, pass, hand>>
      /\ budget' \in [passes : Nat, events : Nat]
  BY EventCounts DEF IInv, MergeIn, OtherJob
<1> DEFINE new == [content |-> c, stamp |-> NewStamp]
           n == NewId(asset)
           there == [disk EXCEPT ![p] = new]
<1>2. /\ Changed({p}, there) /\ n \in Id
      /\ asset' = [asset EXCEPT ![n] = NewAsset(c, Nothing, FALSE)]
      /\ row' = [row EXCEPT ![p] = [asset |-> n, size |-> Size[c], stamp |-> NewStamp]]
  BY DEF MergeIn
<1>3. asset[n] = Nothing
  BY <1>1, <1>2, FreshId DEF Typed
<1> HIDE DEF n
<1>4. new \in Version /\ Size[c] \in Nat /\ NewStamp \in Nat
  BY <1>1, Constants, RootAssumption DEF Typed, NewStamp, Version
<1>5. there \in [Path -> Version \cup {Nothing}] /\ there[p] = new /\ \A q \in Path \ {p} : there[q] = disk[q]
  BY <1>1, <1>4 DEF Typed
<1> HIDE DEF there
<1>6. disk' = there /\ ghost' \in GhostType /\ (~ghost'.deceived => ~ghost.deceived)
  BY <1>1, <1>2, ChangedGhost
<1>7. NewAsset(c, Nothing, FALSE) \in AssetType /\ ~FullyPrinted(NewAsset(c, Nothing, FALSE))
      /\ NewAsset(c, Nothing, FALSE).content = c
  BY DEF NewAsset, AssetType, FullyPrinted
<1>8. /\ asset' \in Assets /\ asset'[n] = NewAsset(c, Nothing, FALSE)
      /\ \A i \in Id \ {n} : asset'[i] = asset[i]
  BY <1>1, <1>2, <1>7 DEF Typed, Assets
<1>9. [asset |-> n, size |-> Size[c], stamp |-> NewStamp] \in RowType
  BY <1>2, <1>4 DEF RowType
<1>10. /\ row' \in Rows /\ row'[p] = [asset |-> n, size |-> Size[c], stamp |-> NewStamp]
       /\ \A q \in Path \ {p} : row'[q] = row[q]
  BY <1>1, <1>2, <1>9 DEF Typed, Rows
<1>n. row'[p].asset = n
  BY <1>10
<1>11. \A q \in Path \ {p} : row[q] # Nothing => row[q].asset \in Id \ {n}
  BY <1>1, <1>3, RowParts DEF Typed, Refs
<1>12. Typed'
  BY <1>1, <1>5, <1>6, <1>8, <1>10 DEF Typed
<1>13. Refs'
  <2>1. asset'[n] # Nothing /\ row'[p].asset = n
    BY <1>7, <1>8, <1>n, Constants
  <2>2. ASSUME NEW q \in Path \ {p}, row'[q] # Nothing PROVE asset'[row'[q].asset] # Nothing
    <3>1. row'[q] = row[q] /\ row[q].asset \in Id \ {n}
      BY <1>10, <1>11, <2>2
    <3>2. asset[row[q].asset] # Nothing
      BY <1>1, <2>2, <3>1 DEF Refs
    <3> QED
      BY <1>8, <3>1, <3>2
  <2> QED
    BY <2>1, <2>2 DEF Refs
<1>14. Truth'
  <2>1. SUFFICES ASSUME ~ghost'.deceived
                 PROVE  /\ Prints(asset')
                        /\ \A q \in Path : row'[q] # Nothing => RowTrue(q)'
                        /\ \A w \in Worker : ~Busy(w)'
    BY DEF Truth
  <2>2. Prints(asset')
    BY <1>1, <1>6, <1>7, <1>8, <2>1 DEF Truth, Prints
  <2>3. RowTrue(p)'
    <3>1. disk'[p].content = c
      BY <1>5, <1>6
    <3>2. asset'[row'[p].asset].content = c
      BY <1>7, <1>8, <1>n
    <3> QED
      BY <3>1, <3>2 DEF RowTrue, Contradicts
  <2>4. ASSUME NEW q \in Path \ {p}, row'[q] # Nothing PROVE RowTrue(q)'
    BY <1>1, <1>5, <1>6, <1>8, <1>10, <1>11, <2>1, <2>4 DEF Truth, RowTrue
  <2>5. \A w \in Worker : ~Busy(w)'
    BY <1>1 DEF IInv, Course, Idle, Busy
  <2> QED
    BY <2>2, <2>3, <2>4, <2>5
<1> QED
  BY <1>1, <1>12, <1>13, <1>14, RestKeeps

LEMMA RecycleKeeps ==
  ASSUME IInv, NEW i \in Id, Recycle(i)
  PROVE  IInv'
<1> DEFINE gone == {p \in Path : row[p] # Nothing /\ row[p].asset = i}
           new == [p \in Path |-> IF p \in gone THEN Nothing ELSE disk[p]]
<1>1. /\ Typed /\ Refs /\ Truth /\ Idle /\ UNCHANGED <<job, walk, pass, hand>>
      /\ budget' \in [passes : Nat, events : Nat] /\ asset[i] # Nothing
  BY EventCounts DEF IInv, Recycle, OtherJob
<1>2. /\ Changed(gone, new) /\ row' = [p \in Path |-> IF p \in gone THEN Nothing ELSE row[p]]
      /\ asset' = [asset EXCEPT ![i] = [@ EXCEPT !.status = "trashed"]]
  BY DEF Recycle
<1>3. new \in [Path -> Version \cup {Nothing}] /\ gone \in SUBSET Path
      /\ \A p \in Path : new[p] \in {disk[p], Nothing}
  BY <1>1 DEF Typed
<1> HIDE DEF new, gone
<1>4. disk' = new /\ ghost' \in GhostType /\ (~ghost'.deceived => ~ghost.deceived)
  BY <1>1, <1>2, <1>3, ChangedGhost
<1>5. row' \in Rows /\ \A p \in Path : row'[p] \in {row[p], Nothing}
  BY <1>1, <1>2, <1>3 DEF Typed, Rows
<1>6. asset[i] \in AssetType
  BY <1>1, AssetParts DEF Typed
<1> DEFINE a == [asset[i] EXCEPT !.status = "trashed"]
<1>7. /\ a \in AssetType /\ a.content = asset[i].content /\ a.print = asset[i].print
      /\ a.broken = asset[i].broken
  BY <1>6 DEF AssetType
<1>8. asset' = [asset EXCEPT ![i] = a]
  BY <1>2
<1> HIDE DEF a
<1>9. /\ asset' \in Assets /\ asset'[i] = a
      /\ \A j \in Id \ {i} : asset'[j] = asset[j]
  BY <1>1, <1>7, <1>8 DEF Typed, Assets
<1>10. \A j \in Id : /\ asset'[j] # Nothing <=> asset[j] # Nothing
                     /\ asset'[j] # Nothing => /\ asset'[j].content = asset[j].content
                                               /\ asset'[j].print = asset[j].print
                                               /\ asset'[j].broken = asset[j].broken
  BY <1>1, <1>7, <1>9, Constants
<1>11. Typed'
  BY <1>1, <1>3, <1>4, <1>5, <1>9 DEF Typed
<1>12. \A p \in Path : row'[p] # Nothing => row'[p] = row[p] /\ row[p].asset \in Id
  BY <1>1, <1>5, RowParts DEF Typed
<1>13. Refs'
  BY <1>1, <1>10, <1>12 DEF Refs
<1>14. Truth'
  <2>1. SUFFICES ASSUME ~ghost'.deceived
                 PROVE  /\ Prints(asset')
                        /\ \A q \in Path : row'[q] # Nothing => RowTrue(q)'
                        /\ \A w \in Worker : ~Busy(w)'
    BY DEF Truth
  <2>2. Prints(asset')
    BY <1>1, <1>4, <1>10, <2>1 DEF Truth, Prints, FullyPrinted
  <2>3. ASSUME NEW q \in Path, row'[q] # Nothing PROVE RowTrue(q)'
    <3>1. row'[q] = row[q] /\ asset'[row[q].asset].content = asset[row[q].asset].content
      BY <1>1, <1>10, <1>12, <2>3 DEF Refs
    <3>2. RowTrue(q)
      BY <1>1, <1>4, <2>1, <2>3, <3>1 DEF Truth
    <3> QED
      BY <1>3, <1>4, <3>1, <3>2 DEF RowTrue, Contradicts
  <2>4. \A w \in Worker : ~Busy(w)'
    BY <1>1 DEF IInv, Course, Idle, Busy
  <2> QED
    BY <2>2, <2>3, <2>4
<1> QED
  BY <1>1, <1>11, <1>13, <1>14, RestKeeps

LEMMA OtherJobsKeep ==
  ASSUME IInv, OtherJobs
  PROVE  IInv'
<1>1. ASSUME NEW r \in Root, Dedup(r) \/ Review(r) PROVE IInv'
  <2>1. UNCHANGED <<disk, asset, row, job, walk, pass, hand, ghost>> /\ budget' \in [passes : Nat, events : Nat]
    BY <1>1, EventCounts DEF Dedup, Review, OtherJob, IInv
  <2> QED
    BY <2>1, SettingKeeps
<1> QED
  BY <1>1, MergeInKeeps, RecycleKeeps DEF OtherJobs

(***************************************************************************)
(* The start of a job, and its walk                                        *)
(***************************************************************************)
LEMMA StartKeeps ==
  ASSUME IInv, NEW kind \in {"scan", "probe"}, NEW full \in BOOLEAN, NEW targets \in SUBSET Root,
         Start(kind, full, targets)
  PROVE  IInv'
<1>1. /\ Typed /\ Course /\ Idle /\ UNCHANGED <<disk, asset, row, walk, pass, hand>>
      /\ budget' = [budget EXCEPT !.passes = @ + 1]
      /\ job' = [NoJob EXCEPT !.kind = kind, !.full = full, !.at = "walk", !.targets = targets]
      /\ ghost' = [ghost EXCEPT !.away = {p \in Path : disk[p] = Nothing},
                                !.disturbed = {}, !.quiet = {}]
  BY DEF IInv, Start
<1>2. /\ job' \in JobType /\ job'.at = "walk" /\ job'.plan = {} /\ job'.done = {}
  BY <1>1 DEF NoJob, JobType
<1>3. /\ ghost' \in GhostType /\ ghost'.away = {p \in Path : disk[p] = Nothing}
      /\ ghost'.quiet = {} /\ ghost'.deceived = ghost.deceived
  BY <1>1 DEF Typed, GhostType
<1>4. walk' = NoWalk /\ \A w \in Worker : hand'[w] = Nothing
  BY <1>1 DEF Course, Idle
<1>5. Typed'
  BY <1>1, <1>2, <1>3 DEF Typed
<1>6. Course'
  BY <1>2, <1>4, Nulls DEF Course, Idle, InPass
<1>7. Stays' /\ Exact'
  BY <1>1, <1>2, <1>3 DEF Stays, Exact
<1>8. Sorted' /\ Caught' /\ Quieted'
  BY <1>2, <1>3 DEF Sorted, Caught, Quieted
<1> QED
  BY <1>1, <1>3, <1>4, <1>5, <1>6, <1>7, <1>8, CatalogStays DEF IInv

\* A step of the walk that adds nothing to what it has found of the other roots.
LEMMA WalkingKeeps ==
  ASSUME IInv, job.at = "walk", job'.at = "walk",
         UNCHANGED <<disk, asset, row, pass, hand>>,
         ghost'.deceived = ghost.deceived, ghost'.quiet = ghost.quiet,
         Typed', Course', Stays', Exact'
  PROVE  IInv'
<1>1. \A w \in Worker : hand'[w] = Nothing
  BY DEF IInv, Course
<1>2. ghost'.quiet = {}
  BY DEF IInv, Course, Quieted, Idle
<1>3. Sorted' /\ Caught' /\ Quieted'
  BY <1>2 DEF Sorted, Caught, Quieted
<1> QED
  BY <1>1, <1>3, CatalogStays DEF IInv

LEMMA TargetKeeps ==
  ASSUME IInv, Target
  PROVE  IInv'
<1> DEFINE r == First(job.targets)
<1>1. /\ Typed /\ Course /\ Stays /\ Exact /\ job.at = "walk" /\ walk.open = {} /\ job.targets # {}
      /\ UNCHANGED <<disk, asset, row, root, pass, report, hand, budget>>
  BY DEF IInv, Target
<1>2. r \in job.targets /\ job.targets \subseteq Root /\ job.plan \subseteq Root
  BY <1>1, Fields, FirstIn DEF Typed
<1>3. CASE root[r].pending
  <2>1. job' = [job EXCEPT !.targets = @ \ {r}] /\ UNCHANGED <<walk, ghost>>
    BY <1>3 DEF Target
  <2> HIDE DEF r
  <2>2. /\ job' \in JobType /\ job'.at = "walk" /\ job'.plan = job.plan /\ job'.done = job.done
        /\ job'.targets = job.targets \ {r}
    BY <1>1, <2>1 DEF Typed, JobType
  <2>3. Typed'
    BY <1>1, <2>1, <2>2 DEF Typed
  <2>4. Course'
    BY <1>1, <2>1, <2>2 DEF Course, Idle, InPass
  <2>5. \A p \in Path : (Covered(p)' <=> Covered(p)) /\ (Suppressed(p)' <=> Suppressed(p))
    BY <2>1 DEF Covered, Suppressed
  <2>6. Stays' /\ Exact'
    BY <1>1, <2>1, <2>2, <2>5 DEF Stays, Exact, Idle
  <2> QED
    BY <1>1, <2>1, <2>2, <2>3, <2>4, <2>6, WalkingKeeps
<1>4. CASE ~root[r].pending
  <2>1. /\ job' = [job EXCEPT !.targets = @ \ {r}, !.plan = @ \cup {r}]
        /\ walk' = [walk EXCEPT !.open = {r}]
        /\ ghost' = [ghost EXCEPT !.disturbed = @ \ {r}]
    BY <1>4 DEF Target
  <2> HIDE DEF r
  <2>2. /\ job' \in JobType /\ job'.at = "walk" /\ job'.plan = job.plan \cup {r}
        /\ job'.done = job.done /\ job'.targets = job.targets \ {r}
    BY <1>1, <1>2, <2>1 DEF Typed, JobType
  <2>3. r \in Dir
    BY <1>2, RootAssumption
  <2>4. /\ walk' \in WalkType /\ walk'.open = {r} /\ walk'.found = walk.found
        /\ walk'.suppressed = walk.suppressed /\ walk'.offline = walk.offline
    BY <1>1, <2>1, <2>3 DEF Typed, WalkType
  <2>5. /\ ghost' \in GhostType /\ ghost'.away = ghost.away /\ ghost'.quiet = ghost.quiet
        /\ ghost'.disturbed = ghost.disturbed \ {r} /\ ghost'.deceived = ghost.deceived
    BY <1>1, <2>1 DEF Typed, GhostType
  <2>6. Typed'
    BY <1>1, <2>2, <2>4, <2>5 DEF Typed
  <2>7. Above[r] \cap Root = {r}
    BY <1>2, <2>3, RootAssumption
  <2>8. Course'
    BY <1>1, <1>2, <2>2, <2>4, <2>7 DEF Course, Idle, InPass
  <2>9. ASSUME NEW p \in Path, RootOf(p) \in job'.plan
        PROVE  /\ Covered(p) => Covered(p)'
               /\ RootOf(p) = r => Covered(p)' /\ ~Suppressed(p)' /\ walk'.found[p] = Nothing
               /\ RootOf(p) # r => RootOf(p) \in job.plan
               /\ Suppressed(p)' <=> Suppressed(p)
    <3>1. Suppressed(p)' <=> Suppressed(p)
      BY <2>4 DEF Suppressed
    <3>2. Covered(p) => Covered(p)'
      BY <1>1, <2>4, <3>1 DEF Covered
    <3>3. RootOf(p) \in Above[DirOf[p]]
      BY OneRoot, RootAssumption
    <3>4. ASSUME RootOf(p) = r PROVE Covered(p)' /\ ~Suppressed(p) /\ walk.found[p] = Nothing
      <4>1. Covered(p)'
        BY <2>4, <3>3, <3>4 DEF Covered
      <4>2. r \notin job.plan /\ job.done = {}
        BY <1>1, <1>2 DEF Course
      <4>3. \A d \in Above[DirOf[p]] : Above[d] \cap Root = {r}
        BY <3>4, OneRoot
      <4>4. \A d \in walk.suppressed : Above[d] \cap Root \subseteq job.plan
        BY <1>1, <4>2 DEF Course, Idle
      <4> QED
        BY <1>1, <3>4, <4>1, <4>2, <4>3, <4>4 DEF Course, Suppressed
    <3>5. RootOf(p) # r => RootOf(p) \in job.plan
      BY <2>2, <2>9
    <3>6. RootOf(p) = r => Covered(p)' /\ ~Suppressed(p)' /\ walk'.found[p] = Nothing
      BY <2>4, <3>1, <3>4
    <3> QED
      BY <3>1, <3>2, <3>5, <3>6
  <2>10. Stays'
    BY <1>1, <2>2, <2>5, <2>9 DEF Stays, Idle
  <2>11. Exact'
    BY <1>1, <2>4, <2>2, <2>5, <2>9 DEF Exact, Idle
  <2> QED
    BY <1>1, <2>2, <2>5, <2>6, <2>8, <2>10, <2>11, WalkingKeeps
<1> QED
  BY <1>3, <1>4

\* The listing of d: what it found is there, and what it did not find or open lies
\* below a directory it could not read.
Listing(d) ==
  /\ \A e \in walk.open : e = d \/ e \in walk'.open
  /\ \A e \in walk'.open : e \in walk.open \/ (e \in Dir /\ Above[e] = Above[d] \cup {e})
  /\ \A p \in Path : \/ walk'.found[p] = walk.found[p]
                     \/ DirOf[p] = d /\ disk[p] # Nothing /\ walk'.found[p] = Stat(disk[p])
  /\ walk.suppressed \subseteq walk'.suppressed
  /\ \A e \in walk'.suppressed :
        e \in walk.suppressed \/ (e = d /\ Above[d] \cap Root \subseteq ghost'.disturbed)
  /\ walk'.offline \subseteq walk'.suppressed
  /\ d \notin walk'.suppressed =>
        /\ \A p \in Path : DirOf[p] = d /\ disk[p] # Nothing => walk'.found[p] # Nothing
        /\ \A e \in Dir : /\ e # d /\ Above[e] = Above[d] \cup {e}
                          /\ \E p \in Path : e \in Above[DirOf[p]] /\ disk[p] # Nothing
                          => e \in walk'.open

LEMMA ListingKeeps ==
  ASSUME IInv, NEW d \in walk.open, job.at = "walk",
         UNCHANGED <<disk, asset, row, job, pass, hand>>, Typed',
         ghost'.away = ghost.away, ghost'.quiet = ghost.quiet,
         ghost'.deceived = ghost.deceived, ghost.disturbed \subseteq ghost'.disturbed,
         Listing(d)
  PROVE  IInv'
<1>1. Typed /\ Course /\ Stays /\ Exact
  BY DEF IInv
<1>2. d \in Dir /\ Above[d] \cap Root \subseteq job.plan
  BY <1>1, Fields DEF Typed, Course
<1>3. Course'
  <2>1. ASSUME NEW e \in walk'.open PROVE Above[e] \cap Root \subseteq job.plan
    <3>1. CASE e \in walk.open
      BY <1>1, <3>1 DEF Course
    <3>2. CASE e \in Dir /\ Above[e] = Above[d] \cup {e}
      <4>1. PICK r \in Root : Above[d] \cap Root = {r}
        BY <1>2, RootAssumption
      <4>2. PICK s \in Root : Above[e] \cap Root = {s}
        BY <3>2, RootAssumption
      <4> QED
        BY <1>2, <3>2, <4>1, <4>2
    <3> QED
      BY <3>1, <3>2 DEF Listing
  <2>2. ASSUME NEW e \in walk'.suppressed PROVE Above[e] \cap Root \subseteq job.plan \cup job.done
    BY <1>1, <1>2 DEF Course, Idle, Listing
  <2>3. ASSUME NEW p \in Path, RootOf(p) \notin job.plan PROVE walk'.found[p] = Nothing
    <3>1. DirOf[p] # d
      BY <1>2, <2>3, OneRoot, RootAssumption
    <3> QED
      BY <1>1, <2>3, <3>1 DEF Course, Listing
  <2> QED
    BY <1>1, <2>1, <2>2, <2>3 DEF Course, Idle, InPass, Listing
<1>4. ASSUME NEW p \in Path, Covered(p), disk[p] # Nothing PROVE Covered(p)'
  <2>1. CASE walk.found[p] # Nothing
    <3>1. walk'.found[p] # Nothing
      BY <1>1, <1>4, <2>1, DiskParts DEF Typed, Listing
    <3> QED
      BY <3>1 DEF Covered
  <2>2. CASE Suppressed(p)
    BY <2>2 DEF Covered, Suppressed, Listing
  <2>3. ASSUME NEW e \in walk.open, e \in Above[DirOf[p]] PROVE Covered(p)'
    <3>1. CASE e # d
      BY <2>3, <3>1 DEF Covered, Listing
    <3>2. CASE e = d /\ d \in walk'.suppressed
      BY <2>3, <3>2 DEF Covered, Suppressed
    <3>3. CASE e = d /\ DirOf[p] = d /\ d \notin walk'.suppressed
      BY <1>4, <3>3 DEF Covered, Listing
    <3>4. CASE e = d /\ DirOf[p] # d /\ d \notin walk'.suppressed
      <4>1. PICK f \in Dir : f # d /\ Above[f] = Above[d] \cup {f} /\ f \in Above[DirOf[p]]
        BY <2>3, <3>4, NextDown
      <4>2. f \in walk'.open
        BY <1>4, <3>4, <4>1 DEF Listing
      <4> QED
        BY <4>1, <4>2 DEF Covered
    <3> QED
      BY <3>1, <3>2, <3>3, <3>4
  <2> QED
    BY <1>4, <2>1, <2>2, <2>3 DEF Covered
<1>5. Stays'
  BY <1>1, <1>4 DEF Stays, Idle
<1>6. Exact'
  <2>1. ASSUME NEW p \in Path, RootOf(p) \in job.plan \ ghost'.disturbed
        PROVE  /\ ~Suppressed(p)'
               /\ walk'.found[p] # Nothing => disk[p] # Nothing /\ walk'.found[p] = Stat(disk[p])
               /\ disk[p] # Nothing => Covered(p)'
    <3>1. /\ ~Suppressed(p)
          /\ walk.found[p] # Nothing => disk[p] # Nothing /\ walk.found[p] = Stat(disk[p])
          /\ disk[p] # Nothing => Covered(p)
      BY <1>1, <2>1 DEF Exact, Idle
    <3>2. d \in Above[DirOf[p]] => ~(Above[d] \cap Root \subseteq ghost'.disturbed)
      BY <2>1, OneRoot
    <3>3. ~Suppressed(p)'
      BY <3>1, <3>2 DEF Suppressed, Listing
    <3> QED
      BY <1>4, <3>1, <3>3 DEF Listing
  <2> QED
    BY <2>1 DEF Exact
<1> QED
  BY <1>3, <1>5, <1>6, WalkingKeeps

LEMMA ListKeeps ==
  ASSUME IInv, NEW d \in Dir, List(d)
  PROVE  IInv'
<1> DEFINE here == {p \in Path : DirOf[p] = d /\ disk[p] # Nothing}
           subs == {e \in Dir : e # d /\ Above[e] = Above[d] \cup {e}
                                /\ \E p \in Path : e \in Above[DirOf[p]] /\ disk[p] # Nothing}
           found(bad) == [p \in Path |-> IF p \in here \ bad THEN Stat(disk[p]) ELSE walk.found[p]]
           Reads(bad) == walk' = [walk EXCEPT !.open = (@ \ {d}) \cup (subs \ bad),
                                              !.found = found(bad),
                                              !.suppressed = IF bad = {} THEN @ ELSE @ \cup {d}]
           Fails == walk' = [walk EXCEPT !.open = @ \ {d}, !.suppressed = @ \cup {d},
                                         !.offline = @ \cup ({d} \cap Root)]
           Marked == ghost' = [ghost EXCEPT !.disturbed = @ \cup (Above[d] \cap Root)]
<1>1. /\ Typed /\ Course /\ job.at = "walk" /\ d \in walk.open
      /\ UNCHANGED <<disk, asset, row, job, pass, hand>>
  BY DEF IInv, List
<1>2. \/ Reads({}) /\ UNCHANGED <<budget, ghost>>
      \/ Event /\ Marked /\ Fails
      \/ Event /\ Marked /\ \E e \in here \cup subs : Reads({e})
  BY DEF List
<1>3. ASSUME NEW bad, Reads(bad)
      PROVE  /\ walk' \in WalkType
             /\ walk'.open = (walk.open \ {d}) \cup (subs \ bad)
             /\ walk'.found = found(bad)
             /\ walk'.suppressed = IF bad = {} THEN walk.suppressed ELSE walk.suppressed \cup {d}
             /\ walk'.offline = walk.offline
  <2>1. \A p \in here : Stat(disk[p]) \in StatType
    BY <1>1, DiskParts DEF Typed
  <2>2. found(bad) \in [Path -> StatType \cup {Nothing}]
    BY <1>1, <2>1, Fields DEF Typed
  <2>3. subs \subseteq Dir
    OBVIOUS
  <2> HIDE DEF found, here, subs
  <2>4. walk \in WalkType
    BY <1>1 DEF Typed
  <2>5. /\ walk'.open = (walk.open \ {d}) \cup (subs \ bad)
        /\ walk'.found = found(bad)
        /\ walk'.suppressed = IF bad = {} THEN walk.suppressed ELSE walk.suppressed \cup {d}
        /\ walk'.offline = walk.offline
    BY <1>3, <2>4 DEF WalkType
  <2>6. walk'.suppressed \subseteq Dir /\ walk'.open \subseteq Dir
    BY <2>3, <2>4, <2>5, Fields
  <2>7. walk' \in WalkType
    BY <1>3, <2>2, <2>4, <2>5, <2>6 DEF WalkType
  <2> QED
    BY <2>5, <2>7
<1>4. ASSUME Marked
      PROVE  /\ ghost' \in GhostType /\ ghost'.away = ghost.away /\ ghost'.quiet = ghost.quiet
             /\ ghost'.deceived = ghost.deceived
             /\ ghost'.disturbed = ghost.disturbed \cup (Above[d] \cap Root)
  BY <1>1, <1>4 DEF Typed, GhostType
<1>5. walk.offline \subseteq walk.suppressed
  BY <1>1 DEF Course
<1>6. \A p \in here : p \in Path /\ DirOf[p] = d /\ disk[p] # Nothing /\ Stat(disk[p]) # Nothing
  BY <1>1, DiskParts DEF Typed
<1>7. ASSUME NEW bad, NEW p \in Path
      PROVE  \/ found(bad)[p] = walk.found[p]
             \/ DirOf[p] = d /\ disk[p] # Nothing /\ found(bad)[p] = Stat(disk[p])
  <2>1. p \in here => DirOf[p] = d /\ disk[p] # Nothing
    OBVIOUS
  <2> HIDE DEF here
  <2> QED
    BY <2>1
<1>8. /\ \A e \in subs : e \in Dir /\ Above[e] = Above[d] \cup {e}
      /\ \A e \in Dir : /\ e # d /\ Above[e] = Above[d] \cup {e}
                        /\ \E p \in Path : e \in Above[DirOf[p]] /\ disk[p] # Nothing
                        => e \in subs
  OBVIOUS
<1>9. CASE Reads({}) /\ UNCHANGED <<budget, ghost>>
  <2>1. /\ walk' \in WalkType /\ walk'.open = (walk.open \ {d}) \cup subs
        /\ walk'.found = found({}) /\ walk'.suppressed = walk.suppressed
        /\ walk'.offline = walk.offline
    BY <1>3, <1>9
  <2>2. \A p \in Path : DirOf[p] = d /\ disk[p] # Nothing => found({})[p] # Nothing
    BY <1>6
  <2>3. Typed'
    BY <1>1, <1>9, <2>1 DEF Typed
  <2> HIDE DEF found, here, subs
  <2>4. Listing(d)
    <3>1. /\ \A e \in walk.open : e = d \/ e \in walk'.open
          /\ \A e \in walk'.open : e \in walk.open \/ e \in subs
      BY <2>1
    <3>2. walk.suppressed = walk'.suppressed /\ walk'.offline \subseteq walk'.suppressed
      BY <1>5, <2>1
    <3>3. /\ \A p \in Path : \/ walk'.found[p] = walk.found[p]
                             \/ DirOf[p] = d /\ disk[p] # Nothing /\ walk'.found[p] = Stat(disk[p])
          /\ \A p \in Path : DirOf[p] = d /\ disk[p] # Nothing => walk'.found[p] # Nothing
      BY <1>7, <2>1, <2>2
    <3>4. \A e \in Dir : /\ e # d /\ Above[e] = Above[d] \cup {e}
                         /\ \E p \in Path : e \in Above[DirOf[p]] /\ disk[p] # Nothing
                         => e \in walk'.open
      BY <1>8, <2>1
    <3> QED
      BY <1>8, <3>1, <3>2, <3>3, <3>4 DEF Listing
  <2> QED
    BY <1>1, <1>9, <2>3, <2>4, ListingKeeps
<1>10. ASSUME NEW e, Event, Marked, Reads({e}) PROVE IInv'
  <2>1. /\ walk' \in WalkType /\ walk'.open = (walk.open \ {d}) \cup (subs \ {e})
        /\ walk'.found = found({e}) /\ walk'.suppressed = walk.suppressed \cup {d}
        /\ walk'.offline = walk.offline
    BY <1>3, <1>10
  <2>2. Typed'
    BY <1>1, <1>4, <1>10, <2>1, EventCounts DEF Typed
  <2> HIDE DEF found, here, subs
  <2>3. Listing(d)
    <3>1. /\ \A f \in walk.open : f = d \/ f \in walk'.open
          /\ \A f \in walk'.open : f \in walk.open \/ f \in subs
      BY <2>1
    <3>2. d \in walk'.suppressed /\ walk'.offline \subseteq walk'.suppressed
      BY <1>5, <2>1
    <3>3. \A p \in Path : \/ walk'.found[p] = walk.found[p]
                          \/ DirOf[p] = d /\ disk[p] # Nothing /\ walk'.found[p] = Stat(disk[p])
      BY <1>7, <2>1
    <3>4. \A f \in walk'.suppressed :
             f \in walk.suppressed \/ (f = d /\ Above[d] \cap Root \subseteq ghost'.disturbed)
      BY <1>4, <1>10, <2>1
    <3>5. walk.suppressed \subseteq walk'.suppressed
      BY <2>1
    <3> QED
      BY <1>8, <3>1, <3>2, <3>3, <3>4, <3>5 DEF Listing
  <2> HIDE DEF Marked
  <2> QED
    BY <1>1, <1>4, <1>10, <2>2, <2>3, ListingKeeps
<1>11. CASE Event /\ Marked /\ Fails
  <2>1. /\ walk' \in WalkType /\ walk'.open = walk.open \ {d} /\ walk'.found = walk.found
        /\ walk'.suppressed = walk.suppressed \cup {d}
        /\ walk'.offline = walk.offline \cup ({d} \cap Root)
    BY <1>1, <1>11 DEF Typed, WalkType
  <2>2. Typed'
    BY <1>1, <1>4, <1>11, <2>1, EventCounts DEF Typed
  <2>3. Listing(d)
    <3>1. /\ \A e \in walk.open : e = d \/ e \in walk'.open
          /\ \A e \in walk'.open : e \in walk.open
      BY <2>1
    <3>2. d \in walk'.suppressed /\ walk'.offline \subseteq walk'.suppressed
      BY <1>5, <2>1
    <3>3. \A e \in walk'.suppressed :
             e \in walk.suppressed \/ (e = d /\ Above[d] \cap Root \subseteq ghost'.disturbed)
      BY <1>4, <1>11, <2>1
    <3>4. walk.suppressed \subseteq walk'.suppressed /\ walk'.found = walk.found
      BY <2>1
    <3> QED
      BY <3>1, <3>2, <3>3, <3>4 DEF Listing
  <2> HIDE DEF Marked
  <2> QED
    BY <1>1, <1>4, <1>11, <2>2, <2>3, ListingKeeps
<1> QED
  BY <1>2, <1>9, <1>10, <1>11

LEMMA WalkedKeeps ==
  ASSUME IInv, Walked
  PROVE  IInv'
<1>1. /\ Typed /\ Course /\ Stays /\ Exact /\ Quieted
      /\ job.at = "walk" /\ walk.open = {} /\ job.targets = {}
      /\ UNCHANGED <<disk, asset, row, root, pass, report, hand, budget, ghost>>
  BY DEF IInv, Walked
<1>2. \A w \in Worker : hand'[w] = Nothing
  BY <1>1 DEF Course
<1>3. CASE job.plan = {}
  <2>1. job' = NoJob /\ walk' = NoWalk
    BY <1>3 DEF Walked
  <2> QED
    BY <1>1, <1>2, <2>1, EndKeeps DEF Typed
<1>4. CASE job.plan # {}
  <2> DEFINE next == IF job.kind = "probe" THEN "count" ELSE "plan"
  <2>1. job' = [job EXCEPT !.at = next] /\ walk' = walk
    BY <1>4 DEF Walked
  <2>2. next \in {"count", "plan"}
    OBVIOUS
  <2> HIDE DEF next
  <2>3. /\ job' \in JobType /\ job'.at \in {"count", "plan"} /\ job'.plan = job.plan
        /\ job'.done = job.done
    BY <1>1, <2>1, <2>2 DEF Typed, JobType
  <2>4. Typed'
    BY <1>1, <2>1, <2>3 DEF Typed
  <2>5. job.done = {} /\ ghost'.quiet = {}
    BY <1>1 DEF Course, Quieted, Idle
  <2>6. Course'
    BY <1>1, <1>2, <1>4, <2>1, <2>3, <2>5 DEF Course, Idle, InPass
  <2>7. \A p \in Path : (Covered(p)' <=> Covered(p)) /\ (Suppressed(p)' <=> Suppressed(p))
    BY <2>1 DEF Covered, Suppressed
  <2>8. Stays' /\ Exact'
    BY <1>1, <2>1, <2>3, <2>7 DEF Stays, Exact, Idle
  <2>9. Sorted' /\ Caught' /\ Quieted'
    BY <2>3, <2>5 DEF Sorted, Caught, Quieted
  <2> QED
    BY <1>1, <1>2, <2>4, <2>6, <2>8, <2>9, CatalogStays DEF IInv
<1> QED
  BY <1>3, <1>4

(***************************************************************************)
(* The fast path and the relinks                                           *)
(***************************************************************************)
\* A relinked file is found where no row was, at the stamp of a fully printed
\* row whose own path was not found.
LEMMA Relinks ==
  ASSUME NEW r, NEW m \in Moves(r)
  PROVE  /\ m = <<m[1], m[2]>> /\ m[1] \in Files(r) /\ m[2] \in Files(r)
         /\ walk.found[m[1]] # Nothing /\ row[m[1]] = Nothing
         /\ walk.found[m[2]] = Nothing /\ ~Suppressed(m[2]) /\ row[m[2]] # Nothing
         /\ row[m[2]].stamp = walk.found[m[1]].stamp
         /\ FullyPrinted(asset[row[m[2]].asset])
<1> DEFINE absent == {p \in Files(r) : walk.found[p] # Nothing /\ row[p] = Nothing}
           held   == {q \in Files(r) : row[q] # Nothing}
<1>1. /\ m \in absent \X held
      /\ walk.found[m[2]] = Nothing /\ ~Suppressed(m[2])
      /\ row[m[2]].stamp = walk.found[m[1]].stamp
      /\ FullyPrinted(asset[row[m[2]].asset])
  BY DEF Moves
<1> QED
  BY <1>1

\* What Plan makes of the rows: they stay, or move with a file.
LEMMA PlanRows ==
  ASSUME IInv, Plan
  PROVE  LET moves == IF job.full THEN {} ELSE Moves(Current) IN
         /\ row' \in Rows
         /\ \A p \in Path : \/ /\ \A m \in moves : m[1] # p /\ m[2] # p
                               /\ row'[p] = row[p]
                            \/ /\ \E m \in moves : m[2] = p
                               /\ row'[p] = Nothing
                            \/ \E m \in moves : m[1] = p /\ row'[p] = row[m[2]]
<1> DEFINE moves == IF job.full THEN {} ELSE Moves(Current)
           to    == {m[1] : m \in moves}
           from  == {m[2] : m \in moves}
           Old(p) == CHOOSE q \in from : <<p, q>> \in moves
           new(p) == CASE p \in to   -> row[Old(p)]
                       [] p \in from -> Nothing
                       [] OTHER      -> row[p]
<1>1. row' = [p \in Path |-> new(p)]
  BY DEF Plan
<1>2. row \in Rows
  BY DEF IInv, Typed
<1>3. \A m \in moves : m = <<m[1], m[2]>> /\ m[1] \in Path /\ m[2] \in Path
  BY Relinks, RootsFiles
<1>4. /\ \A p \in to : \E m \in moves : m[1] = p
      /\ \A p \in from : \E m \in moves : m[2] = p
      /\ \A m \in moves : m[1] \in to /\ m[2] \in from
      /\ \A p \in to : p \notin from
  BY Relinks
<1> HIDE DEF moves, to, from, Old
<1>5. ASSUME NEW p \in Path, p \in to
      PROVE  \E m \in moves : m[1] = p /\ row'[p] = row[m[2]] /\ row'[p] \in RowType \cup {Nothing}
  <2> DEFINE q == Old(p)
  <2>1. \E o \in from : <<p, o>> \in moves
    BY <1>3, <1>4, <1>5
  <2>2. q \in from /\ <<p, q>> \in moves
    BY <2>1 DEF Old
  <2>3. row'[p] = row[q]
    BY <1>1, <1>4, <1>5
  <2> HIDE DEF q
  <2>4. <<p, q>>[1] = p /\ <<p, q>>[2] = q /\ q \in Path
    BY <1>3, <2>2
  <2>5. row[q] \in RowType \cup {Nothing}
    BY <1>2, <2>4 DEF Rows
  <2> QED
    BY <2>2, <2>3, <2>4, <2>5
<1>6. ASSUME NEW p \in Path, p \notin to, p \in from PROVE row'[p] = Nothing
  BY <1>1, <1>6
<1>7. ASSUME NEW p \in Path, p \notin to, p \notin from PROVE row'[p] = row[p]
  BY <1>1, <1>7
<1>8. \A p \in Path : row'[p] \in RowType \cup {Nothing}
  BY <1>2, <1>5, <1>6, <1>7 DEF Rows
<1>9. row' \in Rows
  <2> HIDE DEF new
  <2> QED
    BY <1>1, <1>8 DEF Rows
<1>10. ASSUME NEW p \in Path
       PROVE  \/ /\ \A m \in moves : m[1] # p /\ m[2] # p
                 /\ row'[p] = row[p]
              \/ /\ \E m \in moves : m[2] = p
                 /\ row'[p] = Nothing
              \/ \E m \in moves : m[1] = p /\ row'[p] = row[m[2]]
  BY <1>4, <1>5, <1>6, <1>7
<1> QED
  BY <1>9, <1>10 DEF moves

LEMMA PlanKeeps ==
  ASSUME IInv, Plan
  PROVE  IInv'
<1> DEFINE r     == Current
           here  == {p \in Files(r) : walk.found[p] # Nothing}
           known == {p \in Files(r) : row[p] # Nothing}
           hits  == IF job.full THEN {} ELSE {p \in here : FastPathHit(p)}
           moves == IF job.full THEN {} ELSE Moves(r)
           to    == {m[1] : m \in moves}
           from  == {m[2] : m \in moves}
           work  == here \ (hits \cup to)
           lies  == \E m \in moves :
                       Contradicts(disk[m[1]], row[m[2]].stamp, asset[row[m[2]].asset].content)
<1>1. /\ Typed /\ Course /\ Stays /\ Exact /\ Refs /\ Truth /\ Quieted
      /\ job.at = "plan"
      /\ UNCHANGED <<disk, asset, walk, hand, budget>>
  BY DEF IInv, Plan
<1>2. /\ pass' = [known |-> known, seen |-> hits \cup from \cup (work \cap known),
                  work |-> work, errors |-> FALSE]
      /\ job' = [job EXCEPT !.at = "files"]
      /\ ghost' = [ghost EXCEPT !.deceived = @ \/ lies]
  BY DEF Plan
<1>3. /\ row' \in Rows
      /\ \A p \in Path : \/ /\ \A m \in moves : m[1] # p /\ m[2] # p
                            /\ row'[p] = row[p]
                         \/ /\ \E m \in moves : m[2] = p
                            /\ row'[p] = Nothing
                         \/ \E m \in moves : m[1] = p /\ row'[p] = row[m[2]]
  BY PlanRows
<1>4. /\ hits \subseteq here
      /\ \A p \in hits : row[p] # Nothing /\ row[p].stamp = walk.found[p].stamp
                         /\ FullyPrinted(asset[row[p].asset])
  BY DEF FastPathHit
<1>5. \A m \in moves :
         /\ m[1] \in Files(r) /\ m[2] \in Files(r)
         /\ walk.found[m[1]] # Nothing /\ row[m[1]] = Nothing
         /\ walk.found[m[2]] = Nothing /\ row[m[2]] # Nothing
         /\ row[m[2]].stamp = walk.found[m[1]].stamp
         /\ FullyPrinted(asset[row[m[2]].asset])
  BY Relinks
<1>6. /\ \A p : p \in to <=> \E m \in moves : m[1] = p
      /\ \A p : p \in from <=> \E m \in moves : m[2] = p
  OBVIOUS
<1>7. \A p : /\ p \in here <=> p \in Files(r) /\ walk.found[p] # Nothing
             /\ p \in known <=> p \in Files(r) /\ row[p] # Nothing
             /\ p \in work <=> p \in here /\ p \notin hits /\ p \notin to
  OBVIOUS
<1>8. \A p \in Files(r) : p \in Path /\ RootOf(p) = r
  BY RootsFiles
<1>9. \A m \in moves : lies \/ ~Contradicts(disk[m[1]], row[m[2]].stamp, asset[row[m[2]].asset].content)
  OBVIOUS
<1>10. lies \in BOOLEAN
  OBVIOUS
<1> HIDE DEF hits, moves, to, from, lies
<1>11. known \subseteq Path /\ work \subseteq Path /\ hits \subseteq Path /\ from \subseteq Path
  BY <1>4, <1>5, <1>6, <1>7, <1>8
<1> HIDE DEF here, known, work
<1>12. job' \in JobType /\ job'.at = "files" /\ job'.plan = job.plan /\ job'.done = job.done
  BY <1>1, <1>2 DEF Typed, JobType
<1>13. /\ pass'.known = known /\ pass'.seen = hits \cup from \cup (work \cap known)
       /\ pass'.work = work /\ pass'.errors = FALSE /\ pass' \in PassType
  BY <1>2, <1>11 DEF PassType
<1>14. /\ ghost'.away = ghost.away /\ ghost'.disturbed = ghost.disturbed
       /\ ghost'.quiet = ghost.quiet /\ ghost' \in GhostType
       /\ ~ghost'.deceived => ~ghost.deceived /\ ~lies
  BY <1>1, <1>2, <1>10 DEF Typed, GhostType
<1>15. Current' = r /\ r \in job.plan
  BY <1>1, <1>12, FirstIn, Fields DEF Current, Course, InPass, Typed
<1>16. \A w \in Worker : hand'[w] = Nothing
  BY <1>1 DEF Course
<1> HIDE DEF r
<1>17. Typed'
  BY <1>1, <1>3, <1>12, <1>13, <1>14 DEF Typed
<1>18. Course'
  BY <1>1, <1>12, <1>16 DEF Course, Idle, InPass
<1>19. \A p \in Path : (Covered(p)' <=> Covered(p)) /\ (Suppressed(p)' <=> Suppressed(p))
  BY <1>1 DEF Covered, Suppressed
<1>20. Stays' /\ Exact'
  BY <1>1, <1>12, <1>14, <1>19 DEF Stays, Exact, Idle
<1>21. Sorted'
  <2>1. \A p \in known : p \in hits \cup from \cup (work \cap known) \/ walk.found[p] = Nothing
    BY <1>5, <1>6, <1>7
  <2>2. Files(Current)' = Files(r)
    BY <1>15 DEF Files
  <2> QED
    BY <1>1, <1>7, <1>13, <1>15, <1>16, <2>1, <2>2 DEF Sorted, Busy
<1>22. Refs'
  <2>1. \A p \in Path : row'[p] = Nothing \/ \E q \in Path : row[q] # Nothing /\ row'[p] = row[q]
    BY <1>3, <1>5, <1>8
  <2> QED
    BY <1>1, <2>1 DEF Refs
<1>23. ASSUME ~ghost'.deceived, NEW p \in Path, row'[p] # Nothing PROVE RowTrue(p)'
  <2>1. CASE row'[p] = row[p]
    <3>1. RowTrue(p)
      BY <1>1, <1>14, <1>23, <2>1 DEF Truth
    <3> QED
      BY <1>1, <2>1, <3>1 DEF RowTrue
  <2>2. ASSUME NEW m \in moves, m[1] = p, row'[p] = row[m[2]] PROVE RowTrue(p)'
    BY <1>1, <1>9, <1>14, <1>23, <2>2 DEF RowTrue
  <2> QED
    BY <1>3, <1>23, <2>1, <2>2
<1>24. Truth'
  BY <1>1, <1>14, <1>16, <1>23 DEF Truth, Busy
<1>25. ASSUME Undisturbed', NEW p \in Files(r)
       PROVE  IF disk[p] = Nothing THEN row'[p] = Nothing \/ p \in pass'.known \ pass'.seen
              ELSE p \in work \/ Settled(p)'
  <2>1. /\ p \in Path /\ RootOf(p) \in job.plan \ ghost.disturbed /\ ~ghost'.deceived
    BY <1>8, <1>14, <1>15, <1>25 DEF Undisturbed
  <2>2. /\ walk.found[p] # Nothing => disk[p] # Nothing /\ walk.found[p] = Stat(disk[p])
        /\ disk[p] # Nothing => walk.found[p] # Nothing
    <3>1. walk.open = {} /\ ~Idle
      BY <1>1 DEF Course, Idle
    <3> QED
      BY <1>1, <2>1, <3>1 DEF Exact, Covered
  <2>3. CASE disk[p] = Nothing
    <3>1. walk.found[p] = Nothing /\ p \notin to /\ p \notin here
      BY <1>5, <1>6, <1>7, <2>2, <2>3
    <3>2. CASE p \in from
      BY <1>3, <1>6, <2>1, <2>3, <3>1, <3>2
    <3>3. CASE p \notin from /\ row[p] # Nothing
      BY <1>4, <1>7, <1>13, <2>3, <3>1, <3>3
    <3>4. CASE p \notin from /\ row[p] = Nothing
      BY <1>3, <1>6, <2>1, <2>3, <3>1, <3>4
    <3> QED
      BY <2>3, <3>2, <3>3, <3>4
  <2>4. CASE disk[p] # Nothing
    <3>1. /\ walk.found[p] # Nothing /\ walk.found[p].stamp = disk[p].stamp
          /\ p \in here /\ p \notin from
      BY <1>1, <1>5, <1>6, <1>7, <2>1, <2>2, <2>4, DiskParts DEF Typed
    <3>2. ASSUME row'[p] # Nothing, row'[p].stamp = disk[p].stamp, FullyPrinted(asset[row'[p].asset])
          PROVE  Settled(p)'
      <4>1. RowTrue(p)'
        BY <1>23, <2>1, <3>2
      <4> QED
        BY <1>1, <2>4, <3>2, <4>1 DEF Settled, RowTrue, Contradicts, FullyPrinted
    <3>3. CASE p \in to
      <4>1. PICK m \in moves : m[1] = p /\ row'[p] = row[m[2]]
        BY <1>3, <1>5, <1>6, <2>1, <3>1, <3>3
      <4>2. row'[p] # Nothing /\ row'[p].stamp = disk[p].stamp /\ FullyPrinted(asset[row'[p].asset])
        BY <1>5, <3>1, <4>1
      <4> QED
        BY <2>4, <3>2, <4>2
    <3>4. CASE p \in hits /\ p \notin to
      <4>1. row'[p] = row[p]
        BY <1>3, <1>6, <2>1, <3>1, <3>4
      <4> QED
        BY <1>4, <2>4, <3>1, <3>2, <3>4, <4>1
    <3> QED
      BY <1>7, <2>4, <3>1, <3>3, <3>4
  <2> QED
    BY <2>3, <2>4
<1>26. Caught'
  <2>1. Files(Current)' = Files(r)
    BY <1>15 DEF Files
  <2> QED
    BY <1>1, <1>12, <1>13, <1>25, <2>1 DEF Caught
<1>27. Quieted'
  <2>1. SUFFICES ASSUME NEW s \in ghost.quiet
                 PROVE  /\ s \in job.done
                        /\ ~ghost'.deceived => \A p \in Files(s) : Mirrored(p)'
    BY <1>12, <1>14 DEF Quieted, Files
  <2>2. s \in job.done /\ s # r /\ (~ghost.deceived => \A p \in Files(s) : Mirrored(p))
    BY <1>1, <1>15, <2>1 DEF Quieted, Course, InPass, Idle
  <2>3. ASSUME NEW p \in Files(s) PROVE row'[p] = row[p]
    BY <1>3, <1>5, <1>8, <2>2, <2>3, RootsFiles
  <2> QED
    BY <1>1, <1>14, <2>2, <2>3 DEF Mirrored, Settled
<1> QED
  BY <1>16, <1>17, <1>18, <1>20, <1>21, <1>22, <1>24, <1>26, <1>27 DEF IInv, Busy

(***************************************************************************)
(* The workers                                                             *)
(***************************************************************************)
LEMMA TakeKeeps ==
  ASSUME IInv, NEW w \in Worker, NEW p \in Path, Take(w, p)
  PROVE  IInv'
<1>1. /\ Typed /\ Course /\ Stays /\ Exact /\ Sorted /\ Refs /\ Truth /\ Caught /\ Quieted
      /\ \A v \in Worker : Busy(v) => Holds(hand[v])
      /\ job.at = "files" /\ ~Busy(w) /\ p \in pass.work
      /\ UNCHANGED <<disk, asset, row, job, walk, ghost>>
  BY DEF IInv, Take
<1>2. \A q \in Path : (Covered(q)' <=> Covered(q)) /\ (Suppressed(q)' <=> Suppressed(q))
  BY <1>1 DEF Covered, Suppressed
<1>3. Stays' /\ Exact'
  BY <1>1, <1>2 DEF Stays, Exact, Idle
<1>4. Course'
  BY <1>1 DEF Course, Idle, InPass
<1>5. Current' = Current
  BY <1>1 DEF Current
<1>6. \A q \in Path : (Mirrored(q)' <=> Mirrored(q)) /\ (Settled(q)' <=> Settled(q))
  BY <1>1, MirrorStays
<1>7. Quieted' /\ Refs'
  BY <1>1, <1>6, RootsFiles DEF Quieted, Refs, Idle
<1>8. CASE /\ disk[p] = Nothing \/ Event
           /\ pass' = [pass EXCEPT !.work = @ \ {p}, !.errors = TRUE]
           /\ hand' = hand /\ (disk[p] = Nothing => budget' = budget)
  <2>1. /\ pass' \in PassType /\ pass'.known = pass.known /\ pass'.seen = pass.seen
        /\ pass'.work = pass.work \ {p} /\ pass'.errors = TRUE
    BY <1>1, <1>8 DEF Typed, PassType
  <2>2. budget' \in [passes : Nat, events : Nat]
    BY <1>1, <1>8, EventCounts DEF Typed
  <2>3. Typed'
    BY <1>1, <1>8, <2>1, <2>2 DEF Typed
  <2>4. Sorted'
    BY <1>1, <1>5, <1>8, <2>1 DEF Sorted, Busy, Files, RootOf
  <2>5. Truth' /\ \A v \in Worker : Busy(v)' => Holds(hand[v])'
    BY <1>1, <1>8 DEF Truth, RowTrue, HandTrue, Holds, Busy
  <2>6. Caught'
    BY <1>1, <2>1 DEF Caught, Undisturbed
  <2> QED
    BY <1>3, <1>4, <1>7, <2>3, <2>4, <2>5, <2>6 DEF IInv
<1>9. ASSUME disk[p] # Nothing,
             LET c == disk[p].content
                 i == IF IdsOf(asset, c) = {} THEN 0 ELSE CHOOSE j \in IdsOf(asset, c) : TRUE
                 Incomplete == \/ ~FullyPrinted(asset[i])
                               \/ asset[i].broken /\ job.full
             IN hand' = [hand EXCEPT ![w] =
                  [path |-> p, content |-> c, id |-> i,
                   how |-> IF i = 0 THEN "new" ELSE IF Incomplete THEN "backfill" ELSE "attach",
                   active |-> i # 0 /\ asset[i].status = "active"]],
             pass' = [pass EXCEPT !.work = @ \ {p}], budget' = budget
      PROVE  IInv'
  <2> DEFINE c == disk[p].content
             i == IF IdsOf(asset, c) = {} THEN 0 ELSE CHOOSE j \in IdsOf(asset, c) : TRUE
             how == IF i = 0 THEN "new"
                    ELSE IF ~FullyPrinted(asset[i]) \/ (asset[i].broken /\ job.full)
                    THEN "backfill" ELSE "attach"
             active == i # 0 /\ asset[i].status = "active"
             h == [path |-> p, content |-> c, id |-> i, how |-> how, active |-> active]
  <2>1. hand' = [hand EXCEPT ![w] = h]
    BY <1>9
  <2>2. c \in Content
    BY <1>1, <1>9, DiskParts DEF Typed
  <2>3. /\ i \in Id \cup {0}
        /\ i = 0 => \A j \in Id : asset[j] = Nothing \/ asset[j].content # c
    <3>1. \A j \in IdsOf(asset, c) : j \in Id
      BY DEF IdsOf, Live
    <3>2. CASE IdsOf(asset, c) = {}
      BY <3>2 DEF IdsOf, Live
    <3>3. CASE IdsOf(asset, c) # {}
      <4>1. i \in IdsOf(asset, c)
        BY <3>3
      <4> QED
        BY <3>1, <4>1, Constants
    <3> QED
      BY <3>2, <3>3
  <2> HIDE DEF i, c
  <2>4. /\ how \in {"new", "backfill", "attach"} /\ active \in BOOLEAN
        /\ how = "new" => i = 0
        /\ how = "attach" => FullyPrinted(asset[i])
        /\ how # "new" => i # 0
    OBVIOUS
  <2> HIDE DEF how, active
  <2>5. /\ h \in HandType /\ h.path = p /\ h.content = c /\ h.id = i /\ h.how = how
    BY <2>2, <2>3, <2>4 DEF HandType
  <2> HIDE DEF h
  <2>6. /\ hand' \in [Worker -> HandType \cup {Nothing}] /\ hand'[w] = h
        /\ \A v \in Worker \ {w} : hand'[v] = hand[v]
    BY <1>1, <2>1, <2>5 DEF Typed
  <2>7. /\ pass' \in PassType /\ pass'.known = pass.known /\ pass'.seen = pass.seen
        /\ pass'.work = pass.work \ {p} /\ pass'.errors = pass.errors
    BY <1>1, <1>9 DEF Typed, PassType
  <2>8. Typed'
    BY <1>1, <1>9, <2>6, <2>7 DEF Typed
  <2>9. Sorted'
    <3>1. \A v \in Worker : Busy(v)' =>
             hand'[v].path \in Files(Current) /\ walk.found[hand'[v].path] # Nothing
      BY <1>1, <2>5, <2>6 DEF Sorted, Busy
    <3>2. Files(Current)' = Files(Current)
      BY <1>5 DEF Files
    <3> QED
      BY <1>1, <2>7, <3>1, <3>2 DEF Sorted
  <2>10. Holds(h)
    BY <2>3, <2>4, <2>5 DEF Holds
  <2>11. ASSUME NEW v \in Worker, Busy(v)' PROVE Holds(hand[v])'
    <3>1. Holds(hand'[v])
      BY <1>1, <2>6, <2>10, <2>11 DEF Busy
    <3> QED
      BY <1>1, <3>1 DEF Holds
  <2>12. Truth'
    <3>1. HandTrue(h)
      BY <2>5 DEF HandTrue, Contradicts, c
    <3>2. ASSUME ~ghost.deceived, NEW v \in Worker, Busy(v)' PROVE HandTrue(hand[v])'
      <4>1. HandTrue(hand'[v])
        BY <1>1, <2>6, <3>1, <3>2 DEF Busy, Truth
      <4> QED
        BY <1>1, <4>1 DEF HandTrue
    <3> QED
      BY <1>1, <3>2 DEF Truth, RowTrue
  <2>13. Caught'
    <3>1. Undisturbed' => Undisturbed
      BY <1>1, <1>5, <2>7 DEF Undisturbed
    <3>2. Files(Current)' = Files(Current)
      BY <1>5 DEF Files
    <3>3. h # Nothing
      BY <2>5, Constants
    <3>4. \A q \in Path : (q \in pass.work \/ \E v \in Worker : Busy(v) /\ hand[v].path = q)
                       => (q \in pass'.work \/ \E v \in Worker : Busy(v)' /\ hand'[v].path = q)
      BY <1>1, <2>5, <2>6, <2>7, <3>3 DEF Busy
    <3> QED
      BY <1>1, <1>6, <2>7, <3>1, <3>2, <3>4, RootsFiles DEF Caught
  <2> QED
    BY <1>3, <1>4, <1>7, <2>8, <2>9, <2>11, <2>12, <2>13 DEF IInv
<1>10. \/ /\ disk[p] = Nothing \/ Event
          /\ pass' = [pass EXCEPT !.work = @ \ {p}, !.errors = TRUE]
          /\ hand' = hand /\ (disk[p] = Nothing => budget' = budget)
       \/ /\ disk[p] # Nothing
          /\ LET c == disk[p].content
                 i == IF IdsOf(asset, c) = {} THEN 0 ELSE CHOOSE j \in IdsOf(asset, c) : TRUE
                 Incomplete == \/ ~FullyPrinted(asset[i])
                               \/ asset[i].broken /\ job.full
             IN hand' = [hand EXCEPT ![w] =
                  [path |-> p, content |-> c, id |-> i,
                   how |-> IF i = 0 THEN "new" ELSE IF Incomplete THEN "backfill" ELSE "attach",
                   active |-> i # 0 /\ asset[i].status = "active"]]
          /\ pass' = [pass EXCEPT !.work = @ \ {p}] /\ budget' = budget
  BY DEF Take
<1> QED
  BY <1>8, <1>9, <1>10

\* What persisting the file h writes: a row on the asset i, which then exists; of
\* the other assets, contents stay and prints are only completed.
Written(h, as, i) ==
  /\ as \in Assets /\ i \in Id /\ as[i] # Nothing
  /\ \A j \in Id : /\ asset[j] # Nothing => as[j] # Nothing /\ as[j].content = asset[j].content
                   /\ as[j] = asset[j] \/ FullyPrinted(as[j])
  /\ ~Mistaken(h) =>
        /\ as[i].content = h.content /\ FullyPrinted(as[i])
        /\ \A j \in Id : \/ as[j] = asset[j]
                         \/ /\ as[j].print = Printed(as[j].content)
                            /\ as[j].broken <=> as[j].content \in Broken

LEMMA PixelsAre ==
  ASSUME NEW h \in HandType, Typed
  PROVE  Pixels(h) \in Content \cup {Nothing}
<1>1. h.path \in Path /\ h.content \in Content
  BY DEF HandType
<1>2. disk[h.path] # Nothing => disk[h.path].content \in Content
  BY <1>1, DiskParts DEF Typed
<1> QED
  BY <1>1, <1>2 DEF Pixels, Printed

LEMMA PersistNewWrites ==
  ASSUME Typed, NEW h \in HandType, h.how = "new", Holds(h), NEW stat, PersistNew(h, stat)
  PROVE  \E as, i : Written(h, as, i) /\ Upsert(as, h.path, i, stat)
<1> DEFINE there   == IdsOf(asset, h.content)
           created == there = {}
           i       == IF created THEN NewId(asset) ELSE CHOOSE j \in there : TRUE
           a       == NewAsset(h.content, Pixels(h), Pixels(h) = Nothing)
           as      == IF created THEN [asset EXCEPT ![i] = a] ELSE asset
<1>1. i \in Id /\ Upsert(as, h.path, i, stat)
  BY DEF PersistNew
<1>2. h.content \in Content /\ Pixels(h) \in Content \cup {Nothing}
  BY PixelsAre DEF HandType
<1>3. asset \in Assets
  BY DEF Typed
<1>4. CASE ~created
  <2>1. i \in there /\ as = asset
    BY <1>4
  <2>2. asset[i] # Nothing /\ asset[i].content = h.content
    BY <2>1 DEF IdsOf, Live
  <2> HIDE DEF i, as
  <2>3. FullyPrinted(asset[i])
    BY <1>1, <2>2 DEF Holds
  <2> QED
    BY <1>1, <1>3, <2>1, <2>2, <2>3 DEF Written
<1>5. CASE created
  <2>1. i = NewId(asset) /\ as = [asset EXCEPT ![i] = a]
    BY <1>5
  <2>2. asset[i] = Nothing
    BY <1>1, <1>3, <2>1, FreshId
  <2>3. a \in AssetType
    BY <1>2 DEF NewAsset, AssetType
  <2>4. /\ a.content = h.content /\ a.print = Pixels(h) /\ FullyPrinted(a)
        /\ a.broken <=> Pixels(h) = Nothing
    BY DEF NewAsset, FullyPrinted
  <2> HIDE DEF i, a, as
  <2>5. as \in Assets /\ as[i] = a /\ \A j \in Id \ {i} : as[j] = asset[j]
    BY <1>1, <1>3, <2>1, <2>3 DEF Assets
  <2>6. a # Nothing
    BY <2>3, Constants
  <2>7. ~Mistaken(h) => /\ a.print = Printed(a.content)
                        /\ a.broken <=> a.content \in Broken
    BY <1>2, <2>4, Constants DEF Mistaken, Printed
  <2>8. Written(h, as, i)
    BY <1>1, <2>2, <2>4, <2>5, <2>6, <2>7 DEF Written
  <2> QED
    BY <1>1, <2>8
<1> QED
  BY <1>4, <1>5

LEMMA PersistKnownWrites ==
  ASSUME Typed, NEW h \in HandType, h.how # "new", Holds(h), asset[h.id] # Nothing,
         NEW stat, PersistKnown(h, stat)
  PROVE  \E as, i : Written(h, as, i) /\ Upsert(as, h.path, i, stat)
<1> DEFINE fill == h.how = "backfill"
           i    == h.id
           a    == [asset[i] EXCEPT !.print = Pixels(h), !.broken = (Pixels(h) = Nothing)]
           as   == IF fill THEN [asset EXCEPT ![i] = a] ELSE asset
<1>1. Upsert(as, h.path, i, stat)
  BY DEF PersistKnown
<1>2. h.content \in Content /\ Pixels(h) \in Content \cup {Nothing} /\ i \in Id
      /\ h.how \in {"new", "backfill", "attach"}
  BY PixelsAre DEF HandType, Holds
<1>3. asset \in Assets /\ asset[i] \in AssetType /\ asset[i] # Nothing
  BY <1>2, AssetParts DEF Typed
<1>4. ~Mistaken(h) => asset[i].content = h.content
  BY DEF Mistaken
<1>5. CASE ~fill
  <2>1. as = asset /\ h.how = "attach"
    BY <1>2, <1>5
  <2>2. asset[i].content = h.content => FullyPrinted(asset[i])
    BY <1>3, <2>1 DEF Holds
  <2> HIDE DEF i, as
  <2>3. Written(h, as, i)
    BY <1>2, <1>3, <1>4, <2>1, <2>2 DEF Written
  <2> QED
    BY <1>1, <2>3
<1>6. CASE fill
  <2>1. as = [asset EXCEPT ![i] = a]
    BY <1>6
  <2>2. /\ a \in AssetType /\ a.content = asset[i].content /\ a.print = Pixels(h)
        /\ a.broken <=> Pixels(h) = Nothing
    BY <1>2, <1>3 DEF AssetType
  <2>3. ~Mistaken(h) => Pixels(h) = Printed(h.content)
    BY <1>6 DEF Mistaken
  <2> HIDE DEF i, a, as
  <2>4. FullyPrinted(a) /\ a # Nothing
    BY <2>2, Constants DEF FullyPrinted
  <2>5. as \in Assets /\ as[i] = a /\ \A j \in Id \ {i} : as[j] = asset[j]
    BY <1>2, <1>3, <2>1, <2>2 DEF Assets
  <2>6. ~Mistaken(h) => /\ a.print = Printed(a.content)
                        /\ a.broken <=> a.content \in Broken
    BY <1>2, <1>4, <2>2, <2>3, Constants DEF Printed
  <2>7. Written(h, as, i)
    BY <1>2, <1>4, <2>2, <2>4, <2>5, <2>6 DEF Written
  <2> QED
    BY <1>1, <2>7
<1> QED
  BY <1>5, <1>6

LEMMA PersistKeeps ==
  ASSUME IInv, NEW w \in Worker, Persist(w)
  PROVE  IInv'
<1> DEFINE h == hand[w]
           stat == walk.found[h.path]
<1>1. /\ Typed /\ Course /\ Stays /\ Exact /\ Sorted /\ Refs /\ Truth /\ Caught /\ Quieted
      /\ \A v \in Worker : Busy(v) => Holds(hand[v])
      /\ job.at = "files" /\ Busy(w)
      /\ UNCHANGED <<disk, walk, budget>>
      /\ hand' = [hand EXCEPT ![w] = Nothing]
      /\ ghost' = [ghost EXCEPT !.deceived = @ \/ Mistaken(h)]
  BY DEF IInv, Persist
<1>2. \/ h.how # "new" /\ asset[h.id] = Nothing /\ Refused(h)
      \/ h.how = "new" /\ PersistNew(h, stat) /\ UNCHANGED <<job, pass>>
      \/ h.how # "new" /\ asset[h.id] # Nothing /\ PersistKnown(h, stat) /\ UNCHANGED <<job, pass>>
  BY DEF Persist
<1>3. h \in HandType /\ h.path \in Path /\ Holds(h) /\ h.path \in Files(Current) /\ stat # Nothing
  BY <1>1, HandParts DEF Sorted
<1>4. hand' \in [Worker -> HandType \cup {Nothing}] /\ hand'[w] = Nothing
      /\ \A v \in Worker \ {w} : hand'[v] = hand[v]
  BY <1>1 DEF Typed
<1>5. stat \in StatType
  BY <1>1, <1>3, Fields DEF Typed
<1>6. /\ ghost' \in GhostType /\ ghost'.away = ghost.away /\ ghost'.disturbed = ghost.disturbed
      /\ ghost'.quiet = ghost.quiet /\ (~ghost'.deceived => ~ghost.deceived /\ ~Mistaken(h))
  <2> DEFINE m == Mistaken(h)
  <2>1. m \in BOOLEAN
    BY DEF Mistaken
  <2> HIDE DEF m
  <2>2. ghost' = [ghost EXCEPT !.deceived = @ \/ m]
    BY <1>1 DEF m
  <2>3. /\ ghost' \in GhostType /\ ghost'.away = ghost.away /\ ghost'.disturbed = ghost.disturbed
        /\ ghost'.quiet = ghost.quiet /\ (~ghost'.deceived => ~ghost.deceived /\ ~m)
    BY <1>1, <2>1, <2>2 DEF Typed, GhostType
  <2> QED
    BY <2>3 DEF m
<1>7. \A q \in Path : (Covered(q)' <=> Covered(q)) /\ (Suppressed(q)' <=> Suppressed(q))
  BY <1>1 DEF Covered, Suppressed
<1>8. CASE h.how # "new" /\ asset[h.id] = Nothing /\ Refused(h)
  <2>1. /\ pass' = [pass EXCEPT !.errors = TRUE]
        /\ job' = IF h.path \in Streamed THEN [job EXCEPT !.failed = TRUE] ELSE job
        /\ UNCHANGED <<asset, row, root>>
    BY <1>8 DEF Refused
  <2> HIDE DEF h, stat
  <2>2. /\ job' \in JobType /\ job'.at = "files" /\ job'.plan = job.plan /\ job'.done = job.done
    BY <1>1, <2>1 DEF Typed, JobType
  <2>3. /\ pass' \in PassType /\ pass'.known = pass.known /\ pass'.seen = pass.seen
        /\ pass'.work = pass.work /\ pass'.errors = TRUE
    BY <1>1, <2>1 DEF Typed, PassType
  <2>4. Typed'
    BY <1>1, <1>4, <1>6, <2>1, <2>2, <2>3 DEF Typed
  <2>5. Course'
    BY <1>1, <2>2 DEF Course, Idle, InPass
  <2>6. Stays' /\ Exact'
    BY <1>1, <1>6, <1>7, <2>2 DEF Stays, Exact, Idle
  <2>7. Current' = Current /\ Files(Current)' = Files(Current)
    BY <2>2 DEF Current, Files
  <2>8. Sorted'
    BY <1>1, <1>4, <2>3, <2>7 DEF Sorted, Busy
  <2>9. \A v \in Worker : Busy(v)' => Busy(v) /\ hand'[v] = hand[v]
    BY <1>4 DEF Busy
  <2>10. \A v \in Worker : Busy(v)' => Holds(hand[v])'
    BY <1>1, <2>1, <2>9 DEF Holds
  <2>11. Refs' /\ Truth'
    BY <1>1, <1>6, <2>1, <2>9 DEF Refs, Truth, RowTrue, HandTrue
  <2>12. Caught'
    BY <2>2, <2>3 DEF Caught, Undisturbed
  <2>13. \A q \in Path : (Mirrored(q)' <=> Mirrored(q))
    BY <1>1, <2>1, MirrorStays
  <2>14. Quieted'
    BY <1>1, <1>6, <2>2, <2>13, RootsFiles DEF Quieted, Idle
  <2> QED
    BY <2>4, <2>5, <2>6, <2>8, <2>10, <2>11, <2>12, <2>14 DEF IInv
<1>9. ASSUME UNCHANGED <<job, pass>>,
             NEW as, NEW i, Written(h, as, i), Upsert(as, h.path, i, stat)
      PROVE  IInv'
  <2> DEFINE new == [asset |-> i, size |-> stat.size, stamp |-> stat.stamp]
             rows == [row EXCEPT ![h.path] = new]
             ids == IF row[h.path] = Nothing THEN {} ELSE {row[h.path].asset} \ {i}
  <2>1. row' = rows /\ asset' = Forget(as, rows, ids)
    BY <1>9 DEF Upsert
  <2>2. /\ as \in Assets /\ i \in Id /\ as[i] # Nothing
        /\ \A j \in Id : /\ asset[j] # Nothing => as[j] # Nothing /\ as[j].content = asset[j].content
                         /\ as[j] = asset[j] \/ FullyPrinted(as[j])
        /\ ~Mistaken(h) =>
              /\ as[i].content = h.content /\ FullyPrinted(as[i])
              /\ \A j \in Id : \/ as[j] = asset[j]
                               \/ /\ as[j].print = Printed(as[j].content)
                                  /\ as[j].broken <=> as[j].content \in Broken
    BY <1>9 DEF Written
  <2> HIDE DEF ids
  <2>3. new \in RowType /\ new.asset = i /\ new.stamp = stat.stamp
    BY <1>5, <2>2 DEF RowType, StatType
  <2>4. new # Nothing
    BY <2>3, Constants
  <2> HIDE DEF new
  <2>5. rows \in Rows /\ rows[h.path] = new /\ \A q \in Path \ {h.path} : rows[q] = row[q]
    BY <1>1, <1>3, <2>3 DEF Typed, Rows
  <2> HIDE DEF rows
  <2>6. /\ asset' \in Assets
        /\ \A j \in Id : asset'[j] = as[j] \/ asset'[j] = Nothing
        /\ \A q \in Path : row'[q] # Nothing => asset'[row'[q].asset] = as[row'[q].asset]
    <3> DEFINE left == Forget(as, rows, ids)
    <3>0. as \in Assets /\ rows \in Rows
      BY <2>2, <2>5
    <3>1. /\ left \in Assets
          /\ \A j \in Id : left[j] \in {as[j], Nothing}
          /\ \A q \in Path : rows[q] # Nothing => left[rows[q].asset] = as[rows[q].asset]
      BY <3>0, Forgets, Zenon
    <3>2. row' = rows /\ asset' = left
      BY <2>1
    <3> HIDE DEF left
    <3> QED
      BY <3>1, <3>2
  <2> HIDE DEF h, stat
  <2>7. Typed'
    BY <1>1, <1>4, <1>6, <1>9, <2>1, <2>5, <2>6 DEF Typed
  <2>8. Course'
    BY <1>1, <1>9 DEF Course, Idle, InPass
  <2>9. Stays' /\ Exact'
    BY <1>1, <1>6, <1>7, <1>9 DEF Stays, Exact, Idle
  <2>10. Current' = Current /\ Files(Current)' = Files(Current)
    BY <1>9 DEF Current, Files
  <2>11. \A v \in Worker : Busy(v)' => Busy(v) /\ hand'[v] = hand[v] /\ v # w
    BY <1>4 DEF Busy
  <2>12. Sorted'
    BY <1>1, <1>9, <2>10, <2>11 DEF Sorted
  <2>13. ASSUME NEW v \in Worker, Busy(v)' PROVE Holds(hand[v])'
    <3>1. Busy(v) /\ hand'[v] = hand[v] /\ Holds(hand[v])
      BY <1>1, <2>11, <2>13
    <3>2. \A j \in Id : asset'[j] # Nothing => asset'[j] = asset[j] \/ FullyPrinted(asset'[j])
      BY <2>2, <2>6
    <3>3. /\ hand[v].how = "new" =>
                \A j \in Id : asset'[j] # Nothing /\ asset'[j].content = hand[v].content
                              => FullyPrinted(asset'[j])
          /\ hand[v].how # "new" => hand[v].id \in Id
      BY <3>1, <3>2 DEF Holds
    <3>4. ASSUME hand[v].how = "attach", asset'[hand[v].id] # Nothing,
                 asset'[hand[v].id].content = hand[v].content
          PROVE  FullyPrinted(asset'[hand[v].id])
      BY <3>1, <3>2, <3>3, <3>4 DEF Holds
    <3>5. Holds(hand[v])' <=>
             /\ hand'[v].how = "new" =>
                   \A j \in Id : asset'[j] # Nothing /\ asset'[j].content = hand'[v].content
                                 => FullyPrinted(asset'[j])
             /\ hand'[v].how # "new" => hand'[v].id \in Id
             /\ hand'[v].how = "attach" /\ asset'[hand'[v].id] # Nothing
                   /\ asset'[hand'[v].id].content = hand'[v].content
                => FullyPrinted(asset'[hand'[v].id])
      BY DEF Holds
    <3> QED
      BY <3>1, <3>3, <3>4, <3>5
  <2>14. ASSUME NEW q \in Path, row'[q] # Nothing, q # h.path
         PROVE  /\ row'[q] = row[q] /\ row[q].asset \in Id /\ asset[row[q].asset] # Nothing
                /\ asset'[row[q].asset] = as[row[q].asset]
                /\ as[row[q].asset] # Nothing
                /\ as[row[q].asset].content = asset[row[q].asset].content
                /\ as[row[q].asset] = asset[row[q].asset] \/ FullyPrinted(as[row[q].asset])
    <3>1. row'[q] = row[q]
      BY <2>1, <2>5, <2>14
    <3>2. row[q].asset \in Id /\ asset[row[q].asset] # Nothing
      BY <1>1, <2>14, <3>1, RowParts DEF Typed, Refs
    <3> QED
      BY <2>2, <2>6, <2>14, <3>1, <3>2
  <2>15. /\ row'[h.path] = new /\ row'[h.path] # Nothing /\ row'[h.path].asset = i
         /\ row'[h.path].stamp = stat.stamp /\ asset'[i] = as[i]
    BY <1>3, <2>1, <2>3, <2>4, <2>5, <2>6
  <2>16. Refs'
    <3>1. ASSUME NEW q \in Path, row'[q] # Nothing PROVE asset'[row'[q].asset] # Nothing
      <4>1. CASE q = h.path
        BY <2>2, <2>15, <4>1
      <4>2. CASE q # h.path
        BY <2>14, <3>1, <4>2
      <4> QED
        BY <4>1, <4>2
    <3> QED
      BY <3>1 DEF Refs
  <2>17. ASSUME ~ghost'.deceived, NEW q \in Path, row'[q] # Nothing PROVE RowTrue(q)'
    <3>1. ~ghost.deceived /\ ~Mistaken(h)
      BY <1>6, <2>17
    <3>2. CASE q = h.path
      <4>1. HandTrue(h)
        BY <1>1, <3>1 DEF Truth, h
      <4>2. asset'[row'[q].asset].content = h.content /\ row'[q].stamp = stat.stamp
        BY <2>2, <2>15, <3>1, <3>2
      <4> QED
        BY <1>1, <3>2, <4>1, <4>2 DEF HandTrue, RowTrue, Contradicts, stat
    <3>3. CASE q # h.path
      <4>1. RowTrue(q)
        BY <1>1, <2>14, <2>17, <3>1, <3>3 DEF Truth
      <4>2. row'[q] = row[q] /\ asset'[row[q].asset].content = asset[row[q].asset].content
        BY <2>14, <2>17, <3>3
      <4> QED
        BY <1>1, <4>1, <4>2 DEF RowTrue, Contradicts
    <3> QED
      BY <3>2, <3>3
  <2>18. Truth'
    <3>1. ~ghost'.deceived => Prints(asset)'
      <4>1. SUFFICES ASSUME ~ghost'.deceived, NEW j \in Id, asset'[j] # Nothing, FullyPrinted(asset'[j])
                     PROVE  asset'[j].print = Printed(asset'[j].content)
                            /\ (asset'[j].broken <=> asset'[j].content \in Broken)
        BY DEF Prints
      <4>2. Prints(asset) /\ ~Mistaken(h) /\ asset'[j] = as[j]
        BY <1>1, <1>6, <2>6, <4>1 DEF Truth
      <4>3. CASE as[j] = asset[j]
        BY <4>1, <4>2, <4>3 DEF Prints
      <4>4. CASE as[j] # asset[j]
        BY <2>2, <4>2, <4>4
      <4> QED
        BY <4>3, <4>4
    <3>2. ASSUME ~ghost'.deceived, NEW v \in Worker, Busy(v)' PROVE HandTrue(hand[v])'
      <4>1. HandTrue(hand[v]) /\ hand'[v] = hand[v]
        BY <1>1, <1>6, <2>11, <3>2 DEF Truth
      <4> QED
        BY <1>1, <4>1 DEF HandTrue
    <3> QED
      BY <2>17, <3>1, <3>2 DEF Truth
  <2>19. ASSUME NEW q \in Path, q # h.path, Settled(q) PROVE Settled(q)'
    <3>1. row'[q] = row[q] /\ row'[q] # Nothing
      BY <2>1, <2>5, <2>19 DEF Settled
    <3> QED
      BY <1>1, <2>14, <2>19, <3>1 DEF Settled
  <2>20. ASSUME Undisturbed', NEW q \in Files(Current)
         PROVE  IF disk[q] = Nothing THEN row'[q] = Nothing \/ q \in pass.known \ pass.seen
                ELSE \/ q \in pass.work
                     \/ \E v \in Worker : Busy(v)' /\ hand'[v].path = q
                     \/ Settled(q)'
    <3>1. Undisturbed /\ ~Mistaken(h) /\ ~ghost.deceived
      BY <1>6, <1>9, <2>10, <2>20 DEF Undisturbed
    <3>2. q \in Path /\ RootOf(q) = Current /\ Current \in job.plan
      BY <1>1, FirstIn, Fields, RootsFiles DEF Current, Course, InPass, Typed
    <3>3. CASE q = h.path
      <4>1. disk[q] # Nothing /\ stat = Stat(disk[q])
        BY <1>1, <1>3, <3>1, <3>2, <3>3 DEF Exact, Idle, Undisturbed, stat
      <4>2. HandTrue(h) /\ stat.stamp = disk[q].stamp
        BY <1>1, <3>1, <3>2, <4>1, DiskParts DEF Truth, Typed, h
      <4>3. disk[q].content = h.content
        BY <3>3, <4>1, <4>2 DEF HandTrue, Contradicts, stat
      <4>4. Settled(q)'
        BY <1>1, <2>2, <2>15, <3>1, <3>3, <4>3 DEF Settled
      <4> QED
        BY <4>1, <4>4
    <3>4. CASE q # h.path
      <4>1. row'[q] = row[q]
        BY <2>1, <2>5, <3>2, <3>4
      <4>2. \A v \in Worker : Busy(v) /\ hand[v].path = q => Busy(v)' /\ hand'[v].path = q
        BY <1>4, <3>4 DEF Busy, h
      <4> QED
        BY <1>1, <2>19, <3>1, <3>2, <3>4, <4>1, <4>2 DEF Caught
    <3> QED
      BY <3>3, <3>4
  <2>21. Caught'
    BY <1>1, <1>9, <2>10, <2>20 DEF Caught
  <2>22. Quieted'
    <3>1. SUFFICES ASSUME NEW s \in ghost.quiet
                   PROVE  /\ s \in job.done
                          /\ ~ghost'.deceived => \A q \in Files(s) : Mirrored(q)'
      BY <1>6, <1>9 DEF Quieted, Files
    <3>2. s \in job.done /\ Current \in job.plan /\ job.plan \cap job.done = {}
          /\ (~ghost.deceived => \A q \in Files(s) : Mirrored(q))
      BY <1>1, <3>1, FirstIn, Fields DEF Quieted, Course, InPass, Idle, Current, Typed
    <3>3. ASSUME NEW q \in Files(s), Mirrored(q) PROVE Mirrored(q)'
      <4>1. q \in Path /\ q # h.path
        BY <1>3, <3>2, RootsFiles
      <4>2. row'[q] = row[q]
        BY <2>1, <2>5, <4>1
      <4> QED
        BY <1>1, <2>19, <3>3, <4>1, <4>2 DEF Mirrored
    <3> QED
      BY <1>6, <3>2, <3>3
  <2> QED
    BY <2>7, <2>8, <2>9, <2>12, <2>13, <2>16, <2>18, <2>21, <2>22 DEF IInv
<1> QED
  BY <1>1, <1>2, <1>3, <1>8, <1>9, PersistNewWrites, PersistKnownWrites

(***************************************************************************)
(* Deletion detection, and the end of a pass                               *)
(***************************************************************************)
\* Nothing is open any more, and only an unreadable directory can hide a file.
LEMMA Accounted ==
  ASSUME IInv, job.at = "files", NEW p \in Files(Current)
  PROVE  /\ p \in Path /\ RootOf(p) = Current /\ Current \in job.plan /\ Current \notin job.done
         /\ p \notin ghost.away => walk.found[p] # Nothing \/ Suppressed(p)
         /\ Undisturbed => /\ ~Suppressed(p) /\ Current \notin walk.offline
                           /\ disk[p] # Nothing => walk.found[p] # Nothing
<1>1. Typed /\ Course /\ Stays /\ Exact
  BY DEF IInv
<1>2. p \in Path /\ RootOf(p) = Current
  BY RootsFiles
<1>3. Current \in job.plan /\ Current \notin job.done
  BY <1>1, FirstIn, Fields DEF Current, Course, InPass, Typed
<1>4. Covered(p) => walk.found[p] # Nothing \/ Suppressed(p)
  BY <1>1 DEF Course, Covered
<1>5. p \notin ghost.away => Covered(p)
  BY <1>1, <1>2, <1>3 DEF Stays, Idle
<1>6. Undisturbed => ~Suppressed(p) /\ (disk[p] # Nothing => Covered(p))
  BY <1>1, <1>2, <1>3 DEF Exact, Idle, Undisturbed
<1>7. Current \in walk.offline => Suppressed(p)
  <2>1. Current \in Above[DirOf[p]]
    BY <1>2, OneRoot, RootAssumption
  <2> QED
    BY <1>1, <2>1 DEF Course, Suppressed
<1> QED
  BY <1>2, <1>3, <1>4, <1>5, <1>6, <1>7

LEMMA DetectRows ==
  ASSUME IInv, Detect
  PROVE  /\ row' \in Rows /\ asset' \in Assets
         /\ \A i \in Id : asset'[i] \in {asset[i], Nothing}
         /\ \A p \in Path : row'[p] \in {row[p], Nothing}
         /\ \A p \in Path : row'[p] # Nothing => asset'[row'[p].asset] = asset[row[p].asset]
         /\ \A p \in Path : row'[p] # row[p] => p \in Gone
         /\ Current \notin walk.offline => \A p \in Gone : p \in Path => row'[p] = Nothing
<1>1. asset \in Assets /\ row \in Rows /\ Refs
  BY DEF IInv, Typed
<1>2. CASE Current \in walk.offline
  <2>1. asset' = asset /\ row' = row
    BY <1>2 DEF Detect
  <2> QED
    BY <1>1, <1>2, <2>1
<1>3. CASE Current \notin walk.offline
  <2> DEFINE rows == [p \in Path |-> IF p \in Gone THEN Nothing ELSE row[p]]
             ids  == {row[p].asset : p \in Gone}
             left == Forget(asset, rows, ids)
  <2>1. row' = rows /\ asset' = left
    BY <1>3 DEF Detect
  <2>2. /\ rows \in Rows
        /\ \A p \in Path : rows[p] = IF p \in Gone THEN Nothing ELSE row[p]
    BY <1>1 DEF Rows
  <2> HIDE DEF rows, ids
  <2>3. /\ left \in Assets
        /\ \A i \in Id : left[i] \in {asset[i], Nothing}
        /\ \A p \in Path : rows[p] # Nothing => left[rows[p].asset] = asset[rows[p].asset]
    BY <1>1, <2>2, Forgets
  <2> HIDE DEF left
  <2> QED
    BY <1>3, <2>1, <2>2, <2>3
<1> QED
  BY <1>2, <1>3

LEMMA DetectKeeps ==
  ASSUME IInv, Detect
  PROVE  IInv'
<1>1. /\ Typed /\ Course /\ Stays /\ Exact /\ Sorted /\ Refs /\ Truth /\ Caught /\ Quieted
      /\ job.at = "files" /\ pass.work = {} /\ \A w \in Worker : ~Busy(w)
      /\ job' = [job EXCEPT !.at = "stamp"]
      /\ UNCHANGED <<disk, walk, pass, hand, budget, ghost>>
  BY DEF IInv, Detect
<1>2. /\ row' \in Rows /\ asset' \in Assets
      /\ \A i \in Id : asset'[i] \in {asset[i], Nothing}
      /\ \A p \in Path : row'[p] \in {row[p], Nothing}
      /\ \A p \in Path : row'[p] # Nothing => asset'[row'[p].asset] = asset[row[p].asset]
      /\ \A p \in Path : row'[p] # row[p] => p \in Gone
      /\ Current \notin walk.offline => \A p \in Gone : p \in Path => row'[p] = Nothing
  BY DetectRows
<1>3. job' \in JobType /\ job'.at = "stamp" /\ job'.plan = job.plan /\ job'.done = job.done
  BY <1>1 DEF Typed, JobType
<1>4. Typed'
  BY <1>1, <1>2, <1>3 DEF Typed
<1>5. \A w \in Worker : hand'[w] = Nothing
  BY <1>1 DEF Busy
<1>6. Course'
  BY <1>1, <1>3, <1>5 DEF Course, Idle, InPass
<1>7. \A p \in Path : (Covered(p)' <=> Covered(p)) /\ (Suppressed(p)' <=> Suppressed(p))
  BY <1>1 DEF Covered, Suppressed
<1>8. Stays' /\ Exact'
  BY <1>1, <1>3, <1>7 DEF Stays, Exact, Idle
<1>9. Current' = Current /\ Files(Current)' = Files(Current)
  BY <1>3 DEF Current, Files
<1>10. Refs'
  BY <1>1, <1>2 DEF Refs
<1>11. Truth'
  <2>1. Prints(asset) => Prints(asset')
    BY <1>2 DEF Prints
  <2>2. ASSUME NEW p \in Path, row'[p] # Nothing, RowTrue(p) PROVE RowTrue(p)'
    <3>1. row'[p] = row[p] /\ asset'[row'[p].asset] = asset[row[p].asset]
      BY <1>2, <2>2
    <3> QED
      BY <1>1, <2>2, <3>1 DEF RowTrue
  <2>3. \A p \in Path : row'[p] # Nothing => row[p] # Nothing
    BY <1>2
  <2> QED
    BY <1>1, <1>5, <2>1, <2>2, <2>3 DEF Truth, Busy
<1>12. ASSUME NEW p \in Path, Settled(p), p \notin Gone PROVE Settled(p)'
  <2>1. row'[p] = row[p] /\ row[p] # Nothing
    BY <1>2, <1>12 DEF Settled
  <2>2. asset'[row'[p].asset] = asset[row[p].asset]
    BY <1>2, <2>1
  <2> QED
    BY <1>1, <1>12, <2>1, <2>2 DEF Settled
<1>13. ASSUME Undisturbed, NEW p \in Files(Current) PROVE Mirrored(p)'
  <2>1. /\ p \in Path /\ ~Suppressed(p) /\ Current \notin walk.offline
        /\ disk[p] # Nothing => walk.found[p] # Nothing
    BY <1>1, <1>13, Accounted
  <2>2. CASE disk[p] = Nothing
    <3>1. row[p] = Nothing \/ p \in pass.known \ pass.seen
      BY <1>1, <1>13, <2>2 DEF Caught
    <3>2. row'[p] = Nothing
      BY <1>2, <2>1, <3>1 DEF Gone
    <3> QED
      BY <1>1, <2>2, <3>2 DEF Mirrored
  <2>3. CASE disk[p] # Nothing
    <3>1. p \notin Gone
      BY <1>1, <2>1, <2>3 DEF Gone, Sorted
    <3>2. Settled(p)
      BY <1>1, <1>13, <2>3 DEF Caught
    <3> QED
      BY <1>1, <1>12, <2>1, <2>3, <3>1, <3>2 DEF Mirrored
  <2> QED
    BY <2>2, <2>3
<1>14. Caught'
  <2>1. Undisturbed' => Undisturbed
    BY <1>1, <1>9 DEF Undisturbed
  <2> QED
    BY <1>3, <1>9, <1>13, <2>1 DEF Caught
<1>15. Quieted'
  <2>1. SUFFICES ASSUME NEW s \in ghost.quiet
                 PROVE  /\ s \in job.done
                        /\ ~ghost.deceived => \A p \in Files(s) : Mirrored(p)'
    BY <1>1, <1>3 DEF Quieted, Files
  <2>2. s \in job.done /\ (~ghost.deceived => \A p \in Files(s) : Mirrored(p))
    BY <1>1, <2>1 DEF Quieted, Idle
  <2>3. ASSUME NEW p \in Files(s), Mirrored(p) PROVE Mirrored(p)'
    <3>1. p \in Path /\ p \notin Gone
      <4>1. p \in Path /\ RootOf(p) = s
        BY RootsFiles
      <4>2. ASSUME p \in Gone PROVE FALSE
        <5>1. p \in Files(Current)
          BY <1>1, <4>2 DEF Gone, Sorted
        <5> QED
          BY <1>1, <2>2, <4>1, <5>1, Accounted
      <4> QED
        BY <4>1, <4>2
    <3>2. row'[p] = row[p]
      BY <1>2, <3>1
    <3> QED
      BY <1>1, <1>12, <2>3, <3>1, <3>2 DEF Mirrored
  <2> QED
    BY <2>2, <2>3
<1>16. Sorted'
  BY <1>3 DEF Sorted
<1> QED
  BY <1>4, <1>5, <1>6, <1>8, <1>10, <1>11, <1>14, <1>15, <1>16 DEF IInv, Busy

LEMMA StampKeeps ==
  ASSUME IInv, Stamp
  PROVE  IInv'
<1> DEFINE r == Current
           next == IF job.plan = {r} THEN "report" ELSE "plan"
<1>1. /\ Typed /\ Course /\ Stays /\ Exact /\ Caught /\ Quieted /\ job.at = "stamp"
      /\ job' = [job EXCEPT !.plan = @ \ {r}, !.done = @ \cup {r}, !.at = next]
      /\ pass' = NoPass
      /\ ghost' = IF QuietPass THEN [ghost EXCEPT !.quiet = @ \cup {r}] ELSE ghost
      /\ UNCHANGED <<disk, asset, row, walk, hand, budget>>
  BY DEF IInv, Stamp
<1>2. r \in job.plan /\ job.plan \subseteq Root /\ job.done \subseteq Root /\ ghost.quiet \subseteq Root
  BY <1>1, FirstIn, Fields DEF Current, Course, InPass, Typed
<1>3. \A w \in Worker : hand'[w] = Nothing
  BY <1>1 DEF Course
<1>4. \A p \in Files(Current) : QuietPass /\ ~ghost.deceived => Mirrored(p)
  BY <1>1 DEF Caught, QuietPass, Undisturbed
<1>5. next \in {"report", "plan"} /\ (next = "plan" => job.plan # {r})
  OBVIOUS
<1> HIDE DEF r, next
<1>6. /\ job' \in JobType /\ job'.plan = job.plan \ {r} /\ job'.done = job.done \cup {r}
      /\ job'.at \in {"report", "plan"} /\ (job'.at = "plan" => job.plan # {r})
  BY <1>1, <1>2, <1>5 DEF Typed, JobType
<1>7. /\ ghost' \in GhostType /\ ghost'.away = ghost.away /\ ghost'.disturbed = ghost.disturbed
      /\ ghost'.deceived = ghost.deceived
      /\ \A s \in ghost'.quiet : s \in ghost.quiet \/ (QuietPass /\ s = r)
  <2>1. CASE QuietPass
    BY <1>1, <1>2, <2>1 DEF Typed, GhostType
  <2>2. CASE ~QuietPass
    BY <1>1, <2>2 DEF Typed
  <2> QED
    BY <2>1, <2>2
<1>8. Typed'
  BY <1>1, <1>6, <1>7, Nulls DEF Typed
<1>9. Course'
  BY <1>1, <1>2, <1>3, <1>6 DEF Course, Idle, InPass
<1>10. \A p \in Path : (Covered(p)' <=> Covered(p)) /\ (Suppressed(p)' <=> Suppressed(p))
  BY <1>1 DEF Covered, Suppressed
<1>11. Stays' /\ Exact'
  BY <1>1, <1>6, <1>7, <1>10 DEF Stays, Exact, Idle
<1>12. Sorted' /\ Caught'
  BY <1>6 DEF Sorted, Caught
<1>13. \A p \in Path : Mirrored(p)' <=> Mirrored(p)
  BY <1>1, MirrorStays
<1>14. Quieted'
  <2>1. SUFFICES ASSUME NEW s \in ghost'.quiet
                 PROVE  /\ s \in job'.done
                        /\ ~ghost.deceived => \A p \in Files(s) : Mirrored(p)'
    BY <1>7 DEF Quieted, Files
  <2>2. CASE s \in ghost.quiet
    BY <1>1, <1>6, <1>13, <2>2, RootsFiles DEF Quieted, Idle
  <2>3. CASE QuietPass /\ s = r
    BY <1>4, <1>6, <1>13, <2>3, RootsFiles DEF r
  <2> QED
    BY <1>7, <2>1, <2>2, <2>3
<1> QED
  BY <1>1, <1>3, <1>7, <1>8, <1>9, <1>11, <1>12, <1>14, CatalogStays DEF IInv

(***************************************************************************)
(* The invariant                                                           *)
(***************************************************************************)
LEMMA InitHolds ==
  ASSUME Init
  PROVE  IInv
<1>1. /\ disk = InitDisk /\ job = NoJob /\ walk = NoWalk /\ pass = NoPass
      /\ hand = [w \in Worker |-> Nothing] /\ budget = [passes |-> 0, events |-> 0]
      /\ ghost = NoGhost
      /\ asset = [i \in Id |-> IF i \in DOMAIN Indexed
                               THEN NewAsset(Indexed[i], Printed(Indexed[i]), Indexed[i] \in Broken)
                               ELSE Nothing]
      /\ row = [p \in Path |->
                  IF InitDisk[p] = Nothing \/ InitDisk[p].content \notin Range(Indexed)
                  THEN Nothing
                  ELSE [asset |-> IndexedId(InitDisk[p].content),
                        size |-> Size[InitDisk[p].content], stamp |-> InitDisk[p].stamp]]
  BY DEF Init
<1>2. /\ disk \in [Path -> Version \cup {Nothing}]
      /\ \A p \in Path : disk[p] # Nothing => disk[p].content \in Content /\ disk[p].stamp \in Nat
  <2>1. disk \in [Path -> Version \cup {Nothing}]
    BY <1>1, RootAssumption
  <2> QED
    BY <2>1, DiskParts
<1>3. DOMAIN Indexed \subseteq Id /\ \A i \in DOMAIN Indexed : Indexed[i] \in Content
  <2>1. Indexed \in Seq(Content) /\ MaxEvents \in Nat
    BY RootAssumption
  <2> QED
    BY <2>1 DEF Id
<1>4. ASSUME NEW i \in DOMAIN Indexed
      PROVE  /\ asset[i] \in AssetType /\ asset[i] # Nothing /\ asset[i].content = Indexed[i]
             /\ asset[i].print = Printed(Indexed[i]) /\ asset[i].broken = (Indexed[i] \in Broken)
  <2> DEFINE a == NewAsset(Indexed[i], Printed(Indexed[i]), Indexed[i] \in Broken)
  <2>1. asset[i] = a
    BY <1>1, <1>3
  <2>2. /\ a \in AssetType /\ a.content = Indexed[i] /\ a.print = Printed(Indexed[i])
        /\ a.broken = (Indexed[i] \in Broken)
    BY <1>3 DEF NewAsset, AssetType, Printed
  <2> HIDE DEF a
  <2> QED
    BY <2>1, <2>2, Constants
<1>5. \A i \in Id : i \notin DOMAIN Indexed => asset[i] = Nothing
  BY <1>1
<1>6. asset \in Assets
  <2>1. \A i \in Id : asset[i] \in AssetType \cup {Nothing}
    BY <1>4, <1>5
  <2>2. asset = [i \in Id |-> asset[i]]
    BY <1>1
  <2> QED
    BY <2>1, <2>2 DEF Assets
<1>7. ASSUME NEW p \in Path, row[p] # Nothing
      PROVE  /\ disk[p] # Nothing /\ row[p] \in RowType
             /\ row[p].asset \in DOMAIN Indexed /\ Indexed[row[p].asset] = disk[p].content
  <2> DEFINE c == disk[p].content
  <2>1. /\ disk[p] # Nothing /\ c \in Range(Indexed)
        /\ row[p] = [asset |-> IndexedId(c), size |-> Size[c], stamp |-> disk[p].stamp]
    BY <1>1, <1>7
  <2>2. \E i \in DOMAIN Indexed : Indexed[i] = c
    BY <2>1 DEF Range
  <2>3. IndexedId(c) \in DOMAIN Indexed /\ Indexed[IndexedId(c)] = c
    BY <2>2 DEF IndexedId
  <2>4. Size[c] \in Nat /\ disk[p].stamp \in Nat
    BY <1>2, <2>1, RootAssumption
  <2> HIDE DEF c
  <2>5. row[p] \in RowType /\ row[p].asset = IndexedId(c)
    BY <1>3, <2>1, <2>3, <2>4 DEF RowType
  <2> QED
    BY <2>1, <2>3, <2>5 DEF c
<1>8. row \in Rows
  <2>1. \A p \in Path : row[p] \in RowType \cup {Nothing}
    BY <1>7
  <2>2. row = [p \in Path |-> row[p]]
    BY <1>1
  <2> QED
    BY <2>1, <2>2 DEF Rows
<1>9. Typed
  BY <1>1, <1>2, <1>6, <1>8, Nulls DEF Typed
<1>10. Idle /\ \A w \in Worker : ~Busy(w)
  BY <1>1, Nulls DEF Idle, Busy
<1>11. Course
  BY <1>1, <1>10, Nulls DEF Course, Idle, InPass, Busy
<1>12. Stays /\ Exact /\ Sorted /\ Caught /\ Quieted
  BY <1>10 DEF Stays, Exact, Sorted, Caught, Quieted, Idle
<1>13. Refs
  BY <1>4, <1>7 DEF Refs
<1>14. Prints(asset)
  BY <1>4, <1>5 DEF Prints
<1>15. \A p \in Path : row[p] # Nothing => RowTrue(p)
  BY <1>4, <1>7 DEF RowTrue, Contradicts
<1>16. Truth
  BY <1>10, <1>14, <1>15 DEF Truth
<1> QED
  BY <1>9, <1>10, <1>11, <1>12, <1>13, <1>16 DEF IInv

LEMMA NextKeeps ==
  ASSUME IInv, [Next]_vars
  PROVE  IInv'
<1>1. CASE Disk
  BY <1>1, DiskKeeps
<1>2. CASE OtherJobs
  BY <1>2, OtherJobsKeep
<1>3. CASE Starts
  <2>1. ASSUME NEW r \in Root PROVE {r} \in SUBSET Root
    OBVIOUS
  <2> QED
    BY <1>3, <2>1, StartKeeps DEF Starts
<1>4. CASE Scanning
  BY <1>4, TargetKeeps, ListKeeps, WalkedKeeps, CountKeeps, PlanKeeps, PersistKeeps, TakeKeeps,
     DetectKeeps, StampKeeps, ReportKeeps DEF Scanning
<1>5. CASE Stop
  BY <1>5, StopKeeps
<1>6. CASE UNCHANGED vars
  BY <1>6, SettingKeeps DEF vars, IInv, Typed
<1> QED
  BY <1>1, <1>2, <1>3, <1>4, <1>5, <1>6 DEF Next

LEMMA Inductive == Spec => []IInv
<1>1. Init => IInv
  BY InitHolds
<1>2. IInv /\ [Next]_vars => IInv'
  BY NextKeeps
<1> QED
  BY <1>1, <1>2, PTL DEF Spec

(***************************************************************************)
(* Properties                                                              *)
(***************************************************************************)
\* The row of a file that is on disk all through a pass is dropped by no step of
\* it: not by the relinks of Plan, whose old paths were not found, nor by Detect.
LEMMA ScanningSpares ==
  ASSUME IInv, Scanning, NEW p \in Path, row[p] # Nothing, p \notin ghost.away
  PROVE  row'[p] # Nothing
<1>1. /\ Typed /\ Course /\ Stays
  BY DEF IInv
<1>2. CASE Plan
  <2>1. job.at = "plan" /\ Current \in job.plan
    BY <1>1, <1>2, FirstIn, Fields DEF Plan, Current, Course, InPass, Typed
  <2>2. ASSUME NEW m \in Moves(Current), m[2] = p PROVE FALSE
    <3>1. RootOf(p) = Current /\ walk.found[p] = Nothing /\ ~Suppressed(p) /\ walk.open = {}
      BY <1>1, <2>1, <2>2, Relinks, RootsFiles DEF Course
    <3> QED
      BY <1>1, <2>1, <3>1 DEF Stays, Covered, Idle
  <2>3. \/ row'[p] = row[p]
        \/ \E m \in Moves(Current) : m[2] = p
        \/ \E m \in Moves(Current) : row'[p] = row[m[2]]
    BY <1>2, PlanRows
  <2> QED
    BY <2>2, <2>3, Relinks
<1>3. ASSUME NEW w \in Worker, Persist(w) PROVE row'[p] # Nothing
  <2> DEFINE h == hand[w]
             stat == walk.found[h.path]
             new(i) == [asset |-> i, size |-> stat.size, stamp |-> stat.stamp]
  <2>1. h \in HandType /\ h.path \in Path /\ Holds(h) /\ stat \in StatType /\ row \in Rows
    <3>1. Busy(w) /\ job.at = "files" /\ Sorted /\ Holds(h)
      BY <1>3 DEF IInv, Persist
    <3>2. h \in HandType /\ h.path \in Path /\ stat # Nothing
      BY <1>1, <3>1, HandParts DEF Sorted
    <3> QED
      BY <1>1, <3>1, <3>2, Fields DEF Typed
  <2>2. row' = row \/ \E as, i : Written(h, as, i) /\ Upsert(as, h.path, i, stat)
    BY <1>1, <1>3, <2>1, PersistNewWrites, PersistKnownWrites DEF Persist, Refused
  <2>3. ASSUME NEW as, NEW i, Written(h, as, i), Upsert(as, h.path, i, stat)
        PROVE  row'[p] # Nothing
    <3>1. row' = [row EXCEPT ![h.path] = new(i)] /\ i \in Id
      BY <2>3 DEF Upsert, Written
    <3>2. new(i) \in RowType
      BY <2>1, <3>1 DEF StatType, RowType
    <3> HIDE DEF new, h, stat
    <3> QED
      BY <2>1, <3>1, <3>2, Constants DEF Rows
  <2> QED
    BY <2>2, <2>3
<1>4. CASE Detect
  <2>1. ASSUME p \in Gone PROVE FALSE
    <3>1. job.at = "files" /\ p \in Files(Current) /\ walk.found[p] = Nothing /\ ~Suppressed(p)
      BY <1>4, <2>1 DEF Detect, Gone, Sorted, IInv
    <3> QED
      BY <3>1, Accounted
  <2>2. row'[p] = row[p]
    BY <1>4, <2>1, DetectRows
  <2> QED
    BY <2>2
<1>5. CASE UNCHANGED row
  BY <1>5
<1> QED
  BY <1>2, <1>3, <1>4, <1>5 DEF Scanning, Target, List, Walked, Count, Take, Stamp, Report

LEMMA SettledMirrors ==
  ASSUME IInv, ~ghost.deceived, NEW p \in Path, Mirrored(p)
  PROVE  MirrorsDisk(p)
<1>1. CASE disk[p] = Nothing
  BY <1>1 DEF Mirrored, MirrorsDisk
<1>2. CASE disk[p] # Nothing
  <2> DEFINE i == row[p].asset
  <2>1. row[p] # Nothing /\ asset[i].content = disk[p].content /\ FullyPrinted(asset[i])
    BY <1>2 DEF Mirrored, Settled
  <2>2. i \in Id /\ asset[i] # Nothing /\ asset[i].broken \in BOOLEAN
    BY <2>1, RowParts, AssetParts DEF IInv, Typed, Refs
  <2>3. asset[i].print = Printed(asset[i].content) /\ (asset[i].broken <=> asset[i].content \in Broken)
    BY <2>1, <2>2 DEF IInv, Truth, Prints
  <2>4. asset[i].broken = (asset[i].content \in Broken)
    BY <2>2, <2>3
  <2> QED
    BY <1>2, <2>1, <2>3, <2>4 DEF MirrorsDisk
<1> QED
  BY <1>1, <1>2

\* Whatever fails to list or to read, and wherever the pass is stopped, a scan never
\* drops the row of a file that stayed on disk (RootScan's KeepsWhatStayed).
THEOREM KeepsWhatStayedHolds == Spec => KeepsWhatStayed
<1>1. IInv /\ [Next]_vars =>
        [Scanning => \A p \in Path : row[p] # Nothing /\ p \notin ghost.away => row'[p] # Nothing]_vars
  BY ScanningSpares
<1> QED
  BY <1>1, Inductive, PTL DEF Spec, KeepsWhatStayed

\* A pass over a root nobody disturbs, that meets no error, leaves the catalog equal
\* to the disk, unless a stamp deceived it (RootScan's CatchesUp).
THEOREM CatchesUpHolds == Spec => []CatchesUp
<1>1. IInv => CatchesUp
  <2> SUFFICES ASSUME IInv, QuietPass, ~ghost.deceived, NEW p \in Files(Current)
               PROVE  MirrorsDisk(p)
    BY DEF CatchesUp
  <2>1. p \in Path /\ Mirrored(p)
    BY RootsFiles DEF IInv, Caught, QuietPass, Undisturbed
  <2> QED
    BY <2>1, SettledMirrors
<1> QED
  BY <1>1, Inductive, PTL

\* The problem files a finished scan reports of a root it scanned undisturbed are the
\* undecodable files that lie in it (RootScan's ReportIsCurrent).
THEOREM ReportIsCurrentHolds == Spec => ReportIsCurrent
<1>1. IInv /\ [Next]_vars =>
        [Report => \A r \in ghost.quiet : ~ghost.deceived =>
           report'[r] = {p \in Files(r) : disk[p] # Nothing /\ disk[p].content \in Broken}]_vars
  <2> SUFFICES ASSUME IInv, Report, NEW r \in ghost.quiet, ~ghost.deceived
               PROVE  report'[r] = {p \in Files(r) : disk[p] # Nothing /\ disk[p].content \in Broken}
    OBVIOUS
  <2>1. r \in job.done /\ r \in Root /\ \A p \in Files(r) : p \in Path /\ Mirrored(p)
    BY Fields, RootsFiles DEF IInv, Quieted, Report, Idle, Typed
  <2>2. report'[r] = Undecodable(r)
    BY <2>1 DEF Report
  <2>3. ASSUME NEW p \in Files(r)
        PROVE  row[p] # Nothing /\ asset[row[p].asset].broken
               <=> disk[p] # Nothing /\ disk[p].content \in Broken
    <3>1. MirrorsDisk(p)
      BY <2>1, SettledMirrors
    <3> QED
      BY <3>1 DEF MirrorsDisk
  <2> QED
    BY <2>2, <2>3 DEF Undecodable
<1> QED
  BY <1>1, Inductive, PTL DEF Spec, ReportIsCurrent
=============================================================================
