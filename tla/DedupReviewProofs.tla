------------------------- MODULE DedupReviewProofs -------------------------
(***************************************************************************)
(* Proofs about the two models of a dedup review.                          *)
(*                                                                         *)
(* DedupReview, for any libraries, files, contents and bounds on what goes *)
(* wrong: the user decides which files go, stage 1 spares a copy, the      *)
(* rollback spares committed runs, and the deletions are counted once and  *)
(* remembered.  NearDup, for any collections, thresholds and knobs of the  *)
(* matcher: the groups are the components of the near pairs, the lead is   *)
(* the best of its group, the figures add up and pairs are shown once.     *)
(***************************************************************************)
EXTENDS DedupReview, NearDup, FiniteSetTheorems, SequenceTheorems, WellFoundedInduction, TLAPS

RunType == [status : {"none", "pending", "completed", "cancelled"}, stage : Stages,
            phase : {"staged", "applied"}]
Ends == {"idle", "mark", "advance", "complete", "discarded", "rolled"}

Typed ==
    /\ lib \in Libraries
    /\ rows \subseteq Files /\ live \subseteq Files
    /\ fate \in [Assets -> {"active", "trashed", "forgotten"}]
    /\ run \in RunType
    /\ plan \in [Stages -> SUBSET Files]
    /\ lnk \in [Stages -> SUBSET Files] /\ unticked \in [Stages -> SUBSET Files]
    /\ pick \in [Assets -> Files \cup {None}] /\ surv \in [Assets -> Files \cup {None}]
    /\ at \in Stages /\ sweep \subseteq Stages /\ after \in Ends
    /\ todo \subseteq Files /\ staged \subseteq Files /\ group \subseteq Files
    /\ count \in Nat /\ tally \in Nat /\ drained \in Nat /\ reported \in Nat
    /\ halts \in Nat /\ errors \in Nat /\ cancels \in Nat
    /\ recycled \in [Files -> 0 .. 3]
    /\ job \in {"none", "analyze", "confirm", "keep", "discard"}

\* where the handler of a confirm is between reading the folder and its marker
Applying == pc \in {"apply", "record"}
Marking  == pc = "mark" \/ (pc = "sweep" /\ after = "mark")
Moving   == pc = "advance" \/ (pc = "sweep" /\ after = "advance")
Rolling  == pc = "rolled" \/ (pc = "sweep" /\ after = "rolled")
Staging  == pc \in {"stat", "link"}

(***************************************************************************)
(* What the place of the handler says about the run.                       *)
(***************************************************************************)
Flow ==
    /\ group # {} => Applying
    /\ pc = "record" => group # {}
    /\ Applying \/ Marking => job \in {"confirm", "keep"}
    /\ Applying \/ Marking \/ Moving => run.stage = at
    /\ Applying /\ job = "keep" => at = 2
    /\ Applying => todo \cup group \subseteq plan[at]
    /\ pc = "sweep" => after # "idle"
    /\ Rolling => job = "analyze" /\ run.status = "pending"
    /\ Rolling \/ pc \in {"down", "reconcile"} => halts # 0
    /\ job = "analyze" /\ run.status = "pending" => spent = {}
    /\ Staging /\ at = run.stage => plan[at] = {}
    /\ drained # 0 => pc = "land"
    /\ tally # 0 => Applying \/ Marking

(***************************************************************************)
(* The survivor of a content is never among the files that go; it is on    *)
(* disk, or went since it was looked for.                                  *)
(***************************************************************************)
Spares ==
    /\ \A a \in Assets : surv[a] \notin plan[1] /\ (surv[a] # None => lib.assetOf[surv[a]] = a)
    /\ Staging /\ at = 1 =>
          \A a \in Assets : /\ pick[a] \notin todo \cup staged
                            /\ pick[a] # None => lib.assetOf[pick[a]] = a
    /\ pc = "stat" => todo \cap staged = {}
    /\ at = 1 => \A f \in group \cap (live \cup slipped) :
                    \E g \in (live \cup slipped) \ group : lib.assetOf[g] = lib.assetOf[f]
    /\ pc = "record" /\ at = 1 =>
          \E g \in (live \cup slipped) \ group : lib.assetOf[g] = lib.assetOf[First(group)]
    /\ slipped \subseteq Files \ (live \cup Recycled)

(***************************************************************************)
(* What the staging folder says, as long as no daemon died.                *)
(***************************************************************************)
Told(s) == s \in dir => plan[s] \subseteq lnk[s] \cup unticked[s]

Decided ==
    /\ lnk[1] \cap unticked[1] = {}
    /\ Staging /\ at = 1 => unticked[1] = {}
    /\ pc = "link" => staged \ todo \subseteq lnk[at]
    /\ pc = "cursor" /\ staged # {} => plan[at] = staged /\ staged \subseteq lnk[at]
    /\ Uninterrupted /\ run.status = "pending" /\ run.phase = "staged" /\ run.stage # 1
          => Told(run.stage) \/ (pc = "sweep" /\ run.stage \in sweep)
    /\ Uninterrupted /\ Applying => \A f \in todo \cup group : Condemned(f)

(***************************************************************************)
(* The files recycled, and how many of them are counted where.             *)
(***************************************************************************)
OnItsWay == IF pc = "record" THEN 1 ELSE 0
Tallied == reported + drained + count + tally + OnItsWay
Undisturbed == Uninterrupted /\ cancels = 0

Counts ==
    /\ live \cap Recycled = {}
    /\ Tallied <= Cardinality(Recycled)
    /\ Undisturbed =>
          /\ ~cancelled
          /\ Tallied = Cardinality(Recycled)
          /\ pc \in {"idle", "begin", "land"} \/ job \in {"none", "analyze", "discard"}
                => count = 0

(***************************************************************************)
(* The rows of what is recycled, and what becomes of its content.          *)
(***************************************************************************)
Remembered(a) ==
    LET F == {f \in Files : lib.assetOf[f] = a} IN
    F \subseteq Recycled \ rows /\ (\E f \in F : recycled[f] > 1) => fate[a] = "trashed"

Discards ==
    /\ live \subseteq rows
    /\ pc = "record" => First(group) \in Recycled
    /\ Uninterrupted => \A f \in Recycled \cap rows : pc = "record" /\ f = First(group)
    /\ Uninterrupted => \A a \in Assets : Remembered(a)

IInv == Typed /\ Flow /\ Spares /\ Decided /\ Counts /\ Discards

(***************************************************************************)
(* Numbers of files, and the first of them                                 *)
(***************************************************************************)
LEMMA FirstIsFirst ==
  ASSUME NEW S \in SUBSET Nat, IsFiniteSet(S), S # {}
  PROVE  First(S) \in S
<1> DEFINE R == StrictSubsetOrdering(S)
           Below(x) == {y \in S : y <= x}
           T == {Below(x) : x \in S}
<1>1. \A x \in S : x \in Nat
  OBVIOUS
<1>2. T # {} /\ T \subseteq FiniteSubsetsOf(S)
  <2>1. ASSUME NEW x \in S PROVE Below(x) \in SUBSET S /\ IsFiniteSet(Below(x))
    BY FS_Subset
  <2> HIDE DEF Below
  <2> QED
    BY <2>1 DEF FiniteSubsetsOf
<1>3. PICK U \in T : \A V \in T : <<V, U>> \notin R
  <2> HIDE DEF R, T
  <2>1. IsWellFoundedOn(R, FiniteSubsetsOf(S))
    BY FS_StrictSubsetOrderingWellFounded DEF R
  <2> QED
    BY <1>2, <2>1, WFMin
<1>4. PICK x \in S : U = Below(x)
  BY <1>3
<1>5. ASSUME NEW y \in S PROVE x <= y
  <2> SUFFICES ASSUME y < x PROVE FALSE
    BY <1>1
  <2>1. x \in Nat /\ y \in Nat
    BY <1>1
  <2>2. ASSUME NEW z \in S, z <= y PROVE z <= x
    BY <1>1, <2>1, <2>2
  <2>3. Below(y) \subseteq Below(x)
    BY <2>2, Zenon
  <2>4. x \notin Below(y) /\ x <= x
    BY <2>1
  <2>5. x \in Below(x)
    BY <2>4, Zenon
  <2>6. <<Below(y), U>> \in R
    BY <1>4, <2>3, <2>4, <2>5 DEF StrictSubsetOrdering
  <2> QED
    BY <1>3, <2>6
<1> QED
  BY <1>5 DEF First

LEMMA FirstFile ==
  ASSUME NEW S \in SUBSET Files, S # {}
  PROVE  First(S) \in S
<1>1. S \in SUBSET Nat /\ IsFiniteSet(S)
  BY DedupAssumption, FS_Subset
<1> QED
  BY <1>1, FirstIsFirst

LEMMA FirstStageOf ==
  ASSUME NEW S \in SUBSET Stages, S # {}
  PROVE  First(S) \in S
<1>1. IsFiniteSet(Stages)
  BY 1 \in Int, 3 \in Int, FS_Interval DEF Stages
<1>2. S \in SUBSET Nat
  BY DEF Stages
<1>3. IsFiniteSet(S)
  BY <1>1, FS_Subset
<1> QED
  BY <1>2, <1>3, FirstIsFirst

LEMMA RecycledFinite ==
  IsFiniteSet(Recycled) /\ Cardinality(Recycled) \in Nat
<1>1. IsFiniteSet(Recycled)
  BY DedupAssumption, FS_Subset DEF Recycled
<1> QED
  BY <1>1, FS_CardinalityType

LEMMA NoFile == None \notin Files /\ 1 \in Stages /\ 2 \in Stages
BY DedupAssumption DEF None, Stages

(***************************************************************************)
(* Every step keeps the invariant                                          *)
(***************************************************************************)
LEMMA BeginKeeps ==
  ASSUME IInv, NEW k \in {"analyze", "confirm", "keep", "discard"}, Begin(k)
  PROVE  IInv'
<1>1. Typed /\ Flow /\ Spares /\ Decided /\ Counts /\ Discards
  BY DEF IInv
<1>2. /\ pc = "idle"
      /\ k = "analyze" => run.status # "pending"
      /\ job' = k
      /\ pc' = "begin"
      /\ UNCHANGED <<lib, rows, fate, run, count, plan, surv, leads, live, lnk, dir, at, pick, todo,
                   staged, group, tally, sweep, after, drained, cancelled, halts, cancels, errors,
                   unticked, recycled, spent, reported, slipped>>
  BY DEF Begin, catalog, review, disk, handler, bounds, history
<1>3. Recycled' = Recycled
  BY <1>2 DEF Recycled
<1>11. Typed'
  BY <1>1, <1>2, NoFile DEF Typed, Ends
<1>12. Flow'
  BY <1>1, <1>2 DEF Typed, Flow, Applying, Marking, Moving, Rolling, Staging
<1>13. Spares'
  BY <1>1, <1>2, <1>3 DEF Spares, Staging
<1>14. Decided'
  BY <1>1, <1>2 DEF Decided, Staging, Applying, Told, Uninterrupted, Condemned
<1>15. Counts'
  BY <1>1, <1>2, RecycledFinite, <1>3 DEF Typed, Flow, Applying, Marking, Counts, Tallied, OnItsWay, Undisturbed, Uninterrupted
<1>16. Discards'
  BY <1>1, <1>2, <1>3 DEF Discards, Remembered, Uninterrupted
<1> QED
  BY <1>11, <1>12, <1>13, <1>14, <1>15, <1>16 DEF IInv

LEMMA AnalyzeCleanKeeps ==
  ASSUME IInv, AnalyzeClean
  PROVE  IInv'
<1>1. Typed /\ Flow /\ Spares /\ Decided /\ Counts /\ Discards
  BY DEF IInv
<1>2. /\ pc = "begin"
      /\ job = "analyze"
      /\ run' = [status |-> "completed", stage |-> 1, phase |-> "applied"]
      /\ count' = 0
      /\ plan' = Nobody
      /\ leads' = {}
      /\ spent' = {}
      /\ pc' = "result"
      /\ UNCHANGED <<lib, rows, fate, surv, live, lnk, dir, job, at, pick, todo, staged, group,
                   tally, sweep, after, drained, cancelled, halts, cancels, errors, unticked,
                   recycled, reported, slipped>>
  BY DEF AnalyzeClean, catalog, review, disk, handler, bounds, history
<1>3. Recycled' = Recycled
  BY <1>2 DEF Recycled
<1>11. Typed'
  <2>1. run' \in RunType
    BY <1>1, <1>2 DEF Typed, RunType, Stages
  <2> QED
    BY <1>1, <1>2, <2>1, NoFile DEF Typed, Ends, Nobody
<1>12. Flow'
  BY <1>1, <1>2 DEF Typed, Flow, Applying, Marking, Moving, Rolling, Staging
<1>13. Spares'
  <2>1. plan'[1] = {}
    BY <1>2, NoFile DEF Nobody
  <2> QED
    BY <1>1, <1>2, <1>3, <2>1 DEF Spares, Staging
<1>14. Decided'
  BY <1>1, <1>2 DEF Decided, Staging, Applying, Told, Uninterrupted, Condemned
<1>15. Counts'
  BY <1>1, <1>2, RecycledFinite, <1>3 DEF Typed, Flow, Applying, Marking, Counts, Tallied, OnItsWay, Undisturbed, Uninterrupted
<1>16. Discards'
  BY <1>1, <1>2, <1>3 DEF Discards, Remembered, Uninterrupted
<1> QED
  BY <1>11, <1>12, <1>13, <1>14, <1>15, <1>16 DEF IInv

LEMMA RestartKeeps ==
  ASSUME IInv, Restart
  PROVE  IInv'
<1>1. Typed /\ Flow /\ Spares /\ Decided /\ Counts /\ Discards
  BY DEF IInv
<1>2. /\ pc = "down"
      /\ pc' = "reconcile"
      /\ UNCHANGED <<lib, rows, fate, run, count, plan, surv, leads, live, lnk, dir, job, at, pick,
                   todo, staged, group, tally, sweep, after, drained, cancelled, halts, cancels,
                   errors, unticked, recycled, spent, reported, slipped>>
  BY DEF Restart, catalog, review, disk, handler, bounds, history
<1>3. Recycled' = Recycled
  BY <1>2 DEF Recycled
<1>11. Typed'
  BY <1>1, <1>2, NoFile DEF Typed, Ends
<1>12. Flow'
  BY <1>1, <1>2 DEF Typed, Flow, Applying, Marking, Moving, Rolling, Staging
<1>13. Spares'
  BY <1>1, <1>2, <1>3 DEF Spares, Staging
<1>14. Decided'
  BY <1>1, <1>2 DEF Decided, Staging, Applying, Told, Uninterrupted, Condemned
<1>15. Counts'
  BY <1>1, <1>2, RecycledFinite, <1>3 DEF Typed, Flow, Applying, Marking, Counts, Tallied, OnItsWay, Undisturbed, Uninterrupted
<1>16. Discards'
  BY <1>1, <1>2, <1>3 DEF Discards, Remembered, Uninterrupted
<1> QED
  BY <1>11, <1>12, <1>13, <1>14, <1>15, <1>16 DEF IInv

LEMMA ConfirmBeginsKeeps ==
  ASSUME IInv, ConfirmBegins
  PROVE  IInv'
<1>1. Typed /\ Flow /\ Spares /\ Decided /\ Counts /\ Discards
  BY DEF IInv
<1>2. /\ pc = "begin"
      /\ job \in {"confirm", "keep"}
      /\ run.status = "pending"
      /\ job = "keep" => run.stage = 2
      /\ at' = run.stage
      /\ \/ run.phase = "applied" /\ pc' = "advance" /\ todo' = todo
         \/ /\ run.phase # "applied" /\ ~FolderGone(run.stage) /\ pc' = "apply"
            /\ todo' = Intended(run.stage)
      /\ UNCHANGED <<lib, rows, fate, run, count, plan, surv, leads, live, lnk, dir, job, pick,
                   staged, group, tally, sweep, after, drained, cancelled, halts, cancels, errors,
                   unticked, recycled, spent, reported, slipped>>
  BY DEF ConfirmBegins, catalog, review, disk, handler, bounds, history
<1>4. Intended(run.stage) \subseteq plan[run.stage]
  BY DEF Intended, PresentMeansDelete, PresentMeansKeep
<1>5. run.stage \in Stages /\ plan[run.stage] \subseteq Files /\ group = {}
  BY <1>1, <1>2 DEF Typed, RunType, Flow, Applying
<1>3. Recycled' = Recycled
  BY <1>2 DEF Recycled
<1>11. Typed'
  <2>1. todo' \subseteq Files
    BY <1>1, <1>2, <1>4, <1>5 DEF Typed
  <2> QED
    BY <1>1, <1>2, <1>5, <2>1 DEF Typed
<1>12. Flow'
  BY <1>1, <1>2, <1>4 DEF Flow, Applying, Marking, Moving, Rolling, Staging
<1>13. Spares'
  BY <1>1, <1>2, <1>3, <1>5 DEF Spares, Staging
<1>14. Decided'
  <2>1. CASE run.phase = "applied"
    BY <1>1, <1>2, <2>1 DEF Decided, Staging, Applying, Told, Uninterrupted
  <2>2. CASE run.phase # "applied"
    <3>1. run.phase = "staged"
      BY <1>1, <2>2 DEF Typed, RunType
    <3>2. ASSUME Uninterrupted, NEW f \in Intended(run.stage)
          PROVE  Condemned(f)'
      <4>1. f \in plan[run.stage] /\ ~FolderGone(run.stage)
        BY <1>2, <1>4, <2>2, <3>2
      <4>2. run.stage \in dir
        BY <4>1 DEF FolderGone
      <4>3. CASE job = "keep"
        BY <1>2, <3>2, <4>3 DEF Intended, Lead, Condemned
      <4>4. CASE job # "keep" /\ run.stage = 1
        BY <1>1, <1>2, <3>2, <4>4 DEF Intended, PresentMeansDelete, Condemned, Decided
      <4>5. CASE job # "keep" /\ run.stage # 1
        <5>1. f \notin lnk[run.stage]
          BY <3>2, <4>5 DEF Intended, PresentMeansKeep
        <5>2. Told(run.stage)
          BY <1>1, <1>2, <3>1, <3>2, <4>5 DEF Decided
        <5> QED
          BY <1>2, <4>1, <4>2, <4>5, <5>1, <5>2 DEF Told, Condemned
      <4> QED
        BY <4>3, <4>4, <4>5
    <3>3. todo' = Intended(run.stage) /\ group' = {} /\ pc' = "apply"
      BY <1>2, <1>5, <2>2
    <3>4. Uninterrupted' => Uninterrupted
      BY <1>2 DEF Uninterrupted
    <3> QED
      BY <1>1, <1>2, <3>2, <3>3, <3>4 DEF Decided, Staging, Applying, Told
  <2> QED
    BY <2>1, <2>2
<1>15. Counts'
  BY <1>1, <1>2, RecycledFinite, <1>3 DEF Typed, Flow, Applying, Marking, Counts, Tallied, OnItsWay, Undisturbed, Uninterrupted
<1>16. Discards'
  BY <1>1, <1>2, <1>3 DEF Discards, Remembered, Uninterrupted
<1> QED
  BY <1>11, <1>12, <1>13, <1>14, <1>15, <1>16 DEF IInv

LEMMA RefusedKeeps ==
  ASSUME IInv, Refused
  PROVE  IInv'
<1>1. Typed /\ Flow /\ Spares /\ Decided /\ Counts /\ Discards
  BY DEF IInv
<1>2. /\ pc = "begin"
      /\ job # "analyze"
      /\ at' = 1
      /\ pick' = [a \in Assets |-> None]
      /\ todo' = {}
      /\ staged' = {}
      /\ group' = {}
      /\ tally' = 0
      /\ sweep' = {}
      /\ after' = "idle"
      /\ drained' = 0
      /\ cancelled' = FALSE
      /\ job' = "none"
      /\ pc' = "idle"
      /\ UNCHANGED <<lib, rows, fate, run, count, plan, surv, leads, live, lnk, dir, halts, cancels,
                   errors, unticked, recycled, spent, reported, slipped>>
  BY DEF Refused, catalog, review, disk, handler, bounds, history, Forgotten
<1>3. Recycled' = Recycled
  BY <1>2 DEF Recycled
<1>11. Typed'
  BY <1>1, <1>2, NoFile DEF Typed, Ends
<1>12. Flow'
  BY <1>1, <1>2 DEF Typed, Flow, Applying, Marking, Moving, Rolling, Staging
<1>13. Spares'
  BY <1>1, <1>2, <1>3 DEF Spares, Staging
<1>14. Decided'
  BY <1>1, <1>2 DEF Decided, Staging, Applying, Told, Uninterrupted, Condemned
<1>15. Counts'
  BY <1>1, <1>2, RecycledFinite, <1>3 DEF Typed, Flow, Applying, Marking, Counts, Tallied, OnItsWay, Undisturbed, Uninterrupted
<1>16. Discards'
  BY <1>1, <1>2, <1>3 DEF Discards, Remembered, Uninterrupted
<1> QED
  BY <1>11, <1>12, <1>13, <1>14, <1>15, <1>16 DEF IInv

LEMMA StatDoneKeeps ==
  ASSUME IInv, StatDone
  PROVE  IInv'
<1>1. Typed /\ Flow /\ Spares /\ Decided /\ Counts /\ Discards
  BY DEF IInv
<1>2. /\ pc = "stat"
      /\ todo = {}
      /\ pc' = IF staged = {} THEN "cursor" ELSE "link"
      /\ dir' = IF staged = {} THEN dir ELSE dir \cup {at}
      /\ todo' = staged
      /\ UNCHANGED <<lib, rows, fate, run, count, plan, surv, leads, live, lnk, job, at, pick,
                   staged, group, tally, sweep, after, drained, cancelled, halts, cancels, errors,
                   unticked, recycled, spent, reported, slipped>>
  BY DEF StatDone, catalog, review, disk, handler, bounds, history, MadeFolder
<1>3. Recycled' = Recycled
  BY <1>2 DEF Recycled
<1>11. Typed'
  BY <1>1, <1>2, NoFile DEF Typed, Ends
<1>12. Flow'
  BY <1>1, <1>2 DEF Typed, Flow, Applying, Marking, Moving, Rolling, Staging
<1>13. Spares'
  BY <1>1, <1>2, <1>3 DEF Spares, Staging
<1>14. Decided'
  BY <1>1, <1>2 DEF Typed, Flow, Decided, Staging, Applying, Told, Uninterrupted, Condemned
<1>15. Counts'
  BY <1>1, <1>2, RecycledFinite, <1>3 DEF Typed, Flow, Applying, Marking, Counts, Tallied, OnItsWay, Undisturbed, Uninterrupted
<1>16. Discards'
  BY <1>1, <1>2, <1>3 DEF Discards, Remembered, Uninterrupted
<1> QED
  BY <1>11, <1>12, <1>13, <1>14, <1>15, <1>16 DEF IInv

LEMMA PersistKeeps ==
  ASSUME IInv, Persist
  PROVE  IInv'
<1>1. Typed /\ Flow /\ Spares /\ Decided /\ Counts /\ Discards
  BY DEF IInv
<1>2. /\ pc = "link"
      /\ todo = {}
      /\ plan' = [plan EXCEPT ![at] = staged]
      /\ surv' = IF at = 1 THEN pick ELSE surv
      /\ pc' = "cursor"
      /\ UNCHANGED <<lib, rows, fate, run, count, live, lnk, dir, job, at, pick, todo, staged,
                   group, tally, sweep, after, drained, cancelled, halts, cancels, errors,
                   unticked, recycled, spent, reported, slipped>>
  BY DEF Persist, catalog, review, disk, handler, bounds, history, WithShortcut
<1>3. Recycled' = Recycled
  BY <1>2 DEF Recycled
<1>11. Typed'
  BY <1>1, <1>2, NoFile DEF Typed, Ends
<1>12. Flow'
  BY <1>1, <1>2 DEF Typed, Flow, Applying, Marking, Moving, Rolling, Staging
<1>13. Spares'
  <2>1. plan'[1] = IF at = 1 THEN staged ELSE plan[1]
    BY <1>1, <1>2, NoFile DEF Typed
  <2> QED
    BY <1>1, <1>2, <1>3, <2>1 DEF Spares, Staging, Flow, Applying
<1>14. Decided'
  <2>1. plan'[at] = staged /\ \A s \in Stages \ {at} : plan'[s] = plan[s]
    BY <1>1, <1>2 DEF Typed
  <2>2. run.stage \in Stages /\ staged \subseteq lnk[at]
    BY <1>1, <1>2 DEF Typed, RunType, Decided
  <2> QED
    BY <1>1, <1>2, <2>1, <2>2 DEF Decided, Staging, Applying, Told, Uninterrupted, Condemned
<1>15. Counts'
  BY <1>1, <1>2, RecycledFinite, <1>3 DEF Typed, Flow, Applying, Marking, Counts, Tallied, OnItsWay, Undisturbed, Uninterrupted
<1>16. Discards'
  BY <1>1, <1>2, <1>3 DEF Discards, Remembered, Uninterrupted
<1> QED
  BY <1>11, <1>12, <1>13, <1>14, <1>15, <1>16 DEF IInv

LEMMA CursorKeeps ==
  ASSUME IInv, Cursor
  PROVE  IInv'
<1>1. Typed /\ Flow /\ Spares /\ Decided /\ Counts /\ Discards
  BY DEF IInv
<1>2. /\ pc = "cursor"
      /\ run' = [run EXCEPT !.stage = at, !.phase = "staged"]
      /\ pc' = IF staged = {} THEN "sweep" ELSE "result"
      /\ sweep' = IF staged = {} THEN {at} ELSE sweep
      /\ after' = IF staged = {} THEN "advance" ELSE after
      /\ UNCHANGED <<lib, rows, fate, count, plan, surv, leads, live, lnk, dir, job, at, pick, todo,
                   staged, group, tally, drained, cancelled, halts, cancels, errors, unticked,
                   recycled, spent, reported, slipped>>
  BY DEF Cursor, catalog, review, disk, handler, bounds, history, NothingStaged
<1>3. Recycled' = Recycled
  BY <1>2 DEF Recycled
<1>11. Typed'
  <2>1. run' \in RunType
    BY <1>1, <1>2 DEF Typed, RunType, Stages
  <2> QED
    BY <1>1, <1>2, <2>1, NoFile DEF Typed, Ends, Nobody
<1>12. Flow'
  BY <1>1, <1>2 DEF Typed, Flow, Applying, Marking, Moving, Rolling, Staging
<1>13. Spares'
  BY <1>1, <1>2, <1>3 DEF Spares, Staging
<1>14. Decided'
  BY <1>1, <1>2 DEF Decided, Staging, Applying, Told, Uninterrupted, Condemned
<1>15. Counts'
  BY <1>1, <1>2, RecycledFinite, <1>3 DEF Typed, Flow, Applying, Marking, Counts, Tallied, OnItsWay, Undisturbed, Uninterrupted
<1>16. Discards'
  BY <1>1, <1>2, <1>3 DEF Discards, Remembered, Uninterrupted
<1> QED
  BY <1>11, <1>12, <1>13, <1>14, <1>15, <1>16 DEF IInv

LEMMA RecycleFailsKeeps ==
  ASSUME IInv, RecycleFails
  PROVE  IInv'
<1>1. Typed /\ Flow /\ Spares /\ Decided /\ Counts /\ Discards
  BY DEF IInv
<1>2. /\ pc = "apply"
      /\ group # {}
      /\ group' = group \ {First(group)}
      /\ UNCHANGED <<lib, rows, fate, run, count, plan, surv, leads, live, lnk, dir, job, pc, at,
                   pick, todo, staged, tally, sweep, after, drained, cancelled, halts, cancels,
                   errors, unticked, recycled, spent, reported, slipped>>
  BY DEF RecycleFails, catalog, review, disk, handler, bounds, history
<1>3. Recycled' = Recycled
  BY <1>2 DEF Recycled
<1>11. Typed'
  BY <1>1, <1>2, NoFile DEF Typed, Ends
<1>12. Flow'
  BY <1>1, <1>2 DEF Typed, Flow, Applying, Marking, Moving, Rolling, Staging
<1>13. Spares'
  BY <1>1, <1>2, <1>3 DEF Spares, Staging
<1>14. Decided'
  BY <1>1, <1>2 DEF Decided, Staging, Applying, Told, Uninterrupted, Condemned
<1>15. Counts'
  BY <1>1, <1>2, RecycledFinite, <1>3 DEF Typed, Flow, Applying, Marking, Counts, Tallied, OnItsWay, Undisturbed, Uninterrupted
<1>16. Discards'
  BY <1>1, <1>2, <1>3 DEF Discards, Remembered, Uninterrupted
<1> QED
  BY <1>11, <1>12, <1>13, <1>14, <1>15, <1>16 DEF IInv

LEMMA AppliedKeeps ==
  ASSUME IInv, Applied
  PROVE  IInv'
<1>1. Typed /\ Flow /\ Spares /\ Decided /\ Counts /\ Discards
  BY DEF IInv
<1>2. /\ pc = "apply"
      /\ group = {}
      /\ todo = {}
      /\ pc' = "sweep"
      /\ sweep' = {at}
      /\ after' = "mark"
      /\ UNCHANGED <<lib, rows, fate, run, count, plan, surv, leads, live, lnk, dir, job, at, pick,
                   todo, staged, group, tally, drained, cancelled, halts, cancels, errors,
                   unticked, recycled, spent, reported, slipped>>
  BY DEF Applied, catalog, review, disk, handler, bounds, history
<1>3. Recycled' = Recycled
  BY <1>2 DEF Recycled
<1>11. Typed'
  BY <1>1, <1>2, NoFile DEF Typed, Ends
<1>12. Flow'
  BY <1>1, <1>2 DEF Typed, Flow, Applying, Marking, Moving, Rolling, Staging
<1>13. Spares'
  BY <1>1, <1>2, <1>3 DEF Spares, Staging
<1>14. Decided'
  BY <1>1, <1>2 DEF Decided, Staging, Applying, Told, Uninterrupted, Condemned
<1>15. Counts'
  BY <1>1, <1>2, RecycledFinite, <1>3 DEF Typed, Flow, Applying, Marking, Counts, Tallied, OnItsWay, Undisturbed, Uninterrupted
<1>16. Discards'
  BY <1>1, <1>2, <1>3 DEF Discards, Remembered, Uninterrupted
<1> QED
  BY <1>11, <1>12, <1>13, <1>14, <1>15, <1>16 DEF IInv

LEMMA MarkAppliedKeeps ==
  ASSUME IInv, MarkApplied
  PROVE  IInv'
<1>1. Typed /\ Flow /\ Spares /\ Decided /\ Counts /\ Discards
  BY DEF IInv
<1>2. /\ pc = "mark"
      /\ run' = [run EXCEPT !.phase = "applied"]
      /\ count' = count + tally
      /\ tally' = 0
      /\ pc' = "advance"
      /\ UNCHANGED <<lib, rows, fate, plan, surv, leads, live, lnk, dir, job, at, pick, todo,
                   staged, group, sweep, after, drained, cancelled, halts, cancels, errors,
                   unticked, recycled, spent, reported, slipped>>
  BY DEF MarkApplied, catalog, review, disk, handler, bounds, history, StageDeleted
<1>3. Recycled' = Recycled
  BY <1>2 DEF Recycled
<1>11. Typed'
  <2>1. run' \in RunType
    BY <1>1, <1>2 DEF Typed, RunType, Stages
  <2> QED
    BY <1>1, <1>2, <2>1, NoFile DEF Typed, Ends, Nobody
<1>12. Flow'
  BY <1>1, <1>2 DEF Typed, Flow, Applying, Marking, Moving, Rolling, Staging
<1>13. Spares'
  BY <1>1, <1>2, <1>3 DEF Spares, Staging
<1>14. Decided'
  BY <1>1, <1>2 DEF Decided, Staging, Applying, Told, Uninterrupted, Condemned
<1>15. Counts'
  BY <1>1, <1>2, RecycledFinite, <1>3 DEF Typed, Flow, Applying, Marking, Counts, Tallied, OnItsWay, Undisturbed, Uninterrupted
<1>16. Discards'
  BY <1>1, <1>2, <1>3 DEF Discards, Remembered, Uninterrupted
<1> QED
  BY <1>11, <1>12, <1>13, <1>14, <1>15, <1>16 DEF IInv

LEMMA SweepEntryKeeps ==
  ASSUME IInv, SweepEntry
  PROVE  IInv'
<1>1. Typed /\ Flow /\ Spares /\ Decided /\ Counts /\ Discards
  BY DEF IInv
<1>2. /\ pc = "sweep"
      /\ \E s \in sweep : \E f \in lnk[s] : lnk' = [lnk EXCEPT ![s] = @ \ {f}]
      /\ UNCHANGED <<lib, rows, fate, run, count, plan, surv, leads, live, dir, job, pc, at, pick,
                   todo, staged, group, tally, sweep, after, drained, cancelled, halts, cancels,
                   errors, unticked, recycled, spent, reported, slipped>>
  BY DEF SweepEntry, catalog, review, disk, handler, bounds, history
<1>3. Recycled' = Recycled
  BY <1>2 DEF Recycled
<1>11. Typed'
  BY <1>1, <1>2, NoFile DEF Typed, Ends
<1>12. Flow'
  BY <1>1, <1>2 DEF Typed, Flow, Applying, Marking, Moving, Rolling, Staging
<1>13. Spares'
  BY <1>1, <1>2, <1>3 DEF Spares, Staging
<1>14. Decided'
  BY <1>1, <1>2 DEF Decided, Staging, Applying, Told, Uninterrupted, Condemned
<1>15. Counts'
  BY <1>1, <1>2, RecycledFinite, <1>3 DEF Typed, Flow, Applying, Marking, Counts, Tallied, OnItsWay, Undisturbed, Uninterrupted
<1>16. Discards'
  BY <1>1, <1>2, <1>3 DEF Discards, Remembered, Uninterrupted
<1> QED
  BY <1>11, <1>12, <1>13, <1>14, <1>15, <1>16 DEF IInv

LEMMA SweepFolderKeeps ==
  ASSUME IInv, SweepFolder
  PROVE  IInv'
<1>1. Typed /\ Flow /\ Spares /\ Decided /\ Counts /\ Discards
  BY DEF IInv
<1>2. /\ pc = "sweep"
      /\ dir' = dir \ sweep
      /\ sweep' = {}
      /\ pc' = after
      /\ UNCHANGED <<lib, rows, fate, run, count, plan, surv, leads, live, lnk, job, at, pick, todo,
                   staged, group, tally, after, drained, cancelled, halts, cancels, errors,
                   unticked, recycled, spent, reported, slipped>>
  BY DEF SweepFolder, catalog, review, disk, handler, bounds, history
<1>4. after \in {"mark", "advance", "complete", "discarded", "rolled"}
  BY <1>1, <1>2 DEF Typed, Flow, Ends
<1>3. Recycled' = Recycled
  BY <1>2 DEF Recycled
<1>11. Typed'
  BY <1>1, <1>2, NoFile DEF Typed, Ends
<1>12. Flow'
  BY <1>1, <1>2, <1>4 DEF Flow, Applying, Marking, Moving, Rolling, Staging
<1>13. Spares'
  BY <1>1, <1>2, <1>3, <1>4 DEF Spares, Staging
<1>14. Decided'
  BY <1>1, <1>2, <1>4 DEF Decided, Staging, Applying, Told, Uninterrupted, Condemned
<1>15. Counts'
  BY <1>1, <1>2, <1>3, <1>4 DEF Counts, Tallied, OnItsWay, Undisturbed, Uninterrupted
<1>16. Discards'
  BY <1>1, <1>2, <1>3, <1>4 DEF Discards, Remembered, Uninterrupted
<1> QED
  BY <1>11, <1>12, <1>13, <1>14, <1>15, <1>16 DEF IInv

LEMMA DiscardKeeps ==
  ASSUME IInv, Discard
  PROVE  IInv'
<1>1. Typed /\ Flow /\ Spares /\ Decided /\ Counts /\ Discards
  BY DEF IInv
<1>2. /\ pc = "begin"
      /\ job = "discard"
      /\ run.status = "pending"
      /\ pc' = "sweep"
      /\ sweep' = Stages
      /\ after' = "discarded"
      /\ UNCHANGED <<lib, rows, fate, run, count, plan, surv, leads, live, lnk, dir, job, at, pick,
                   todo, staged, group, tally, drained, cancelled, halts, cancels, errors,
                   unticked, recycled, spent, reported, slipped>>
  BY DEF Discard, catalog, review, disk, handler, bounds, history
<1>3. Recycled' = Recycled
  BY <1>2 DEF Recycled
<1>11. Typed'
  BY <1>1, <1>2, NoFile DEF Typed, Ends
<1>12. Flow'
  BY <1>1, <1>2 DEF Typed, Flow, Applying, Marking, Moving, Rolling, Staging
<1>13. Spares'
  BY <1>1, <1>2, <1>3 DEF Spares, Staging
<1>14. Decided'
  BY <1>1, <1>2 DEF Decided, Staging, Applying, Told, Uninterrupted, Condemned
<1>15. Counts'
  BY <1>1, <1>2, RecycledFinite, <1>3 DEF Typed, Flow, Applying, Marking, Counts, Tallied, OnItsWay, Undisturbed, Uninterrupted
<1>16. Discards'
  BY <1>1, <1>2, <1>3 DEF Discards, Remembered, Uninterrupted
<1> QED
  BY <1>11, <1>12, <1>13, <1>14, <1>15, <1>16 DEF IInv

LEMMA CloseKeeps ==
  ASSUME IInv, Close
  PROVE  IInv'
<1>1. Typed /\ Flow /\ Spares /\ Decided /\ Counts /\ Discards
  BY DEF IInv
<1>2. /\ pc \in {"complete", "discarded"}
      /\ \/ run' = [run EXCEPT !.status = "completed"]
         \/ run' = [run EXCEPT !.status = "cancelled"]
      /\ pc' = "result"
      /\ UNCHANGED <<lib, rows, fate, count, plan, surv, leads, live, lnk, dir, job, at, pick, todo,
                   staged, group, tally, sweep, after, drained, cancelled, halts, cancels, errors,
                   unticked, recycled, spent, reported, slipped>>
  BY DEF Close, catalog, review, disk, handler, bounds, history
<1>4. /\ run'.stage = run.stage /\ run'.phase = run.phase /\ run'.status # "pending"
      /\ run' \in RunType
  BY <1>1, <1>2 DEF Typed, RunType
<1>3. Recycled' = Recycled
  BY <1>2 DEF Recycled
<1>11. Typed'
  BY <1>1, <1>2, <1>4 DEF Typed, Ends
<1>12. Flow'
  BY <1>1, <1>2, <1>4 DEF Flow, Applying, Marking, Moving, Rolling, Staging
<1>13. Spares'
  BY <1>1, <1>2, <1>3 DEF Spares, Staging
<1>14. Decided'
  BY <1>1, <1>2, <1>4 DEF Decided, Staging, Applying, Told, Uninterrupted, Condemned
<1>15. Counts'
  BY <1>1, <1>2, RecycledFinite, <1>3 DEF Typed, Flow, Applying, Marking, Counts, Tallied, OnItsWay, Undisturbed, Uninterrupted
<1>16. Discards'
  BY <1>1, <1>2, <1>3 DEF Discards, Remembered, Uninterrupted
<1> QED
  BY <1>11, <1>12, <1>13, <1>14, <1>15, <1>16 DEF IInv

LEMMA ResultKeeps ==
  ASSUME IInv, Result
  PROVE  IInv'
<1>1. Typed /\ Flow /\ Spares /\ Decided /\ Counts /\ Discards
  BY DEF IInv
<1>2. /\ pc = "result"
      /\ count' = IF job \in {"confirm", "keep"} THEN 0 ELSE count
      /\ drained' = IF job \in {"confirm", "keep"} THEN count ELSE drained
      /\ pc' = "land"
      /\ UNCHANGED <<lib, rows, fate, run, plan, surv, leads, live, lnk, dir, job, at, pick, todo,
                   staged, group, tally, sweep, after, cancelled, halts, cancels, errors,
                   unticked, recycled, spent, reported, slipped>>
  BY DEF Result, catalog, review, disk, handler, bounds, history, CountLeft
<1>3. Recycled' = Recycled
  BY <1>2 DEF Recycled
<1>11. Typed'
  BY <1>1, <1>2, NoFile DEF Typed, Ends
<1>12. Flow'
  BY <1>1, <1>2 DEF Typed, Flow, Applying, Marking, Moving, Rolling, Staging
<1>13. Spares'
  BY <1>1, <1>2, <1>3 DEF Spares, Staging
<1>14. Decided'
  BY <1>1, <1>2 DEF Decided, Staging, Applying, Told, Uninterrupted, Condemned
<1>15. Counts'
  BY <1>1, <1>2, RecycledFinite, <1>3 DEF Typed, Flow, Applying, Marking, Counts, Tallied, OnItsWay, Undisturbed, Uninterrupted
<1>16. Discards'
  BY <1>1, <1>2, <1>3 DEF Discards, Remembered, Uninterrupted
<1> QED
  BY <1>11, <1>12, <1>13, <1>14, <1>15, <1>16 DEF IInv

LEMMA LandKeeps ==
  ASSUME IInv, Land
  PROVE  IInv'
<1>1. Typed /\ Flow /\ Spares /\ Decided /\ Counts /\ Discards
  BY DEF IInv
<1>2. /\ pc = "land"
      /\ at' = 1
      /\ pick' = [a \in Assets |-> None]
      /\ todo' = {}
      /\ staged' = {}
      /\ group' = {}
      /\ tally' = 0
      /\ sweep' = {}
      /\ after' = "idle"
      /\ drained' = 0
      /\ cancelled' = FALSE
      /\ reported' = reported + drained
      /\ job' = "none"
      /\ pc' = "idle"
      /\ UNCHANGED <<lib, rows, fate, run, count, plan, surv, leads, live, lnk, dir, halts, cancels,
                   errors, unticked, recycled, spent, slipped>>
  BY DEF Land, catalog, review, disk, handler, bounds, history, Forgotten
<1>3. Recycled' = Recycled
  BY <1>2 DEF Recycled
<1>11. Typed'
  BY <1>1, <1>2, NoFile DEF Typed, Ends
<1>12. Flow'
  BY <1>1, <1>2 DEF Typed, Flow, Applying, Marking, Moving, Rolling, Staging
<1>13. Spares'
  BY <1>1, <1>2, <1>3 DEF Spares, Staging
<1>14. Decided'
  BY <1>1, <1>2 DEF Decided, Staging, Applying, Told, Uninterrupted, Condemned
<1>15. Counts'
  BY <1>1, <1>2, RecycledFinite, <1>3 DEF Typed, Flow, Applying, Marking, Counts, Tallied, OnItsWay, Undisturbed, Uninterrupted
<1>16. Discards'
  BY <1>1, <1>2, <1>3 DEF Discards, Remembered, Uninterrupted
<1> QED
  BY <1>11, <1>12, <1>13, <1>14, <1>15, <1>16 DEF IInv

LEMMA SeesCancelKeeps ==
  ASSUME IInv, SeesCancel
  PROVE  IInv'
<1>1. Typed /\ Flow /\ Spares /\ Decided /\ Counts /\ Discards
  BY DEF IInv
<1>2. /\ cancelled
      /\ pc = "stat" \/ (pc = "apply" /\ group = {})
      /\ at' = 1
      /\ pick' = [a \in Assets |-> None]
      /\ todo' = {}
      /\ staged' = {}
      /\ group' = {}
      /\ tally' = 0
      /\ sweep' = {}
      /\ after' = "idle"
      /\ drained' = 0
      /\ cancelled' = FALSE
      /\ job' = "none"
      /\ pc' = "idle"
      /\ UNCHANGED <<lib, rows, fate, run, count, plan, surv, leads, live, lnk, dir, halts, cancels,
                   errors, unticked, recycled, spent, reported, slipped>>
  BY DEF SeesCancel, catalog, review, disk, handler, bounds, history, Forgotten
<1>3. Recycled' = Recycled
  BY <1>2 DEF Recycled
<1>11. Typed'
  BY <1>1, <1>2, NoFile DEF Typed, Ends
<1>12. Flow'
  BY <1>1, <1>2 DEF Typed, Flow, Applying, Marking, Moving, Rolling, Staging
<1>13. Spares'
  BY <1>1, <1>2, <1>3 DEF Spares, Staging
<1>14. Decided'
  BY <1>1, <1>2 DEF Decided, Staging, Applying, Told, Uninterrupted, Condemned
<1>15. Counts'
  BY <1>1, <1>2, RecycledFinite, <1>3 DEF Typed, Flow, Applying, Marking, Counts, Tallied, OnItsWay, Undisturbed, Uninterrupted
<1>16. Discards'
  BY <1>1, <1>2, <1>3 DEF Discards, Remembered, Uninterrupted
<1> QED
  BY <1>11, <1>12, <1>13, <1>14, <1>15, <1>16 DEF IInv

LEMMA RaisesKeeps ==
  ASSUME IInv, Raises
  PROVE  IInv'
<1>1. Typed /\ Flow /\ Spares /\ Decided /\ Counts /\ Discards
  BY DEF IInv
<1>2. /\ Running
      /\ at' = 1
      /\ pick' = [a \in Assets |-> None]
      /\ todo' = {}
      /\ staged' = {}
      /\ group' = {}
      /\ tally' = 0
      /\ sweep' = {}
      /\ after' = "idle"
      /\ drained' = 0
      /\ cancelled' = FALSE
      /\ errors' = errors + 1
      /\ job' = "none"
      /\ pc' = "idle"
      /\ UNCHANGED <<lib, rows, fate, run, count, plan, surv, leads, live, lnk, dir, halts, cancels,
                   unticked, recycled, spent, reported, slipped>>
  BY DEF Raises, catalog, review, disk, handler, bounds, history, Forgotten
<1>4. ~Uninterrupted'
  BY <1>1, <1>2 DEF Typed, Uninterrupted
<1>3. Recycled' = Recycled
  BY <1>2 DEF Recycled
<1>11. Typed'
  BY <1>1, <1>2, NoFile DEF Typed, Ends
<1>12. Flow'
  BY <1>1, <1>2 DEF Typed, Flow, Applying, Marking, Moving, Rolling, Staging
<1>13. Spares'
  BY <1>1, <1>2, <1>3 DEF Spares, Staging
<1>14. Decided'
  BY <1>1, <1>2, <1>4 DEF Decided, Staging, Applying
<1>15. Counts'
  <2>1. Tallied' <= Tallied
    BY <1>1, <1>2 DEF Typed, Tallied, OnItsWay
  <2>2. Tallied' \in Nat /\ Tallied \in Nat
    BY <1>1, <1>2 DEF Typed, Tallied, OnItsWay
  <2> QED
    BY <1>1, <1>2, <1>3, <1>4, <2>1, <2>2, RecycledFinite DEF Counts, Undisturbed
<1>16. Discards'
  BY <1>1, <1>2, <1>3, <1>4 DEF Discards
<1> QED
  BY <1>11, <1>12, <1>13, <1>14, <1>15, <1>16 DEF IInv

LEMMA HaltKeeps ==
  ASSUME IInv, Halt
  PROVE  IInv'
<1>1. Typed /\ Flow /\ Spares /\ Decided /\ Counts /\ Discards
  BY DEF IInv
<1>2. /\ pc # "idle"
      /\ at' = 1
      /\ pick' = [a \in Assets |-> None]
      /\ todo' = {}
      /\ staged' = {}
      /\ group' = {}
      /\ tally' = 0
      /\ sweep' = {}
      /\ after' = "idle"
      /\ drained' = 0
      /\ cancelled' = FALSE
      /\ halts' = halts + 1
      /\ job' = IF Running THEN job ELSE "none"
      /\ pc' = "down"
      /\ UNCHANGED <<lib, rows, fate, run, count, plan, surv, leads, live, lnk, dir, cancels,
                   errors, unticked, recycled, spent, reported, slipped>>
  BY DEF Halt, catalog, review, disk, handler, bounds, history, Forgotten
<1>4. ~Uninterrupted'
  BY <1>1, <1>2 DEF Typed, Uninterrupted
<1>3. Recycled' = Recycled
  BY <1>2 DEF Recycled
<1>11. Typed'
  BY <1>1, <1>2, NoFile DEF Typed, Ends
<1>12. Flow'
  BY <1>1, <1>2 DEF Typed, Flow, Applying, Marking, Moving, Rolling, Staging
<1>13. Spares'
  BY <1>1, <1>2, <1>3 DEF Spares, Staging
<1>14. Decided'
  BY <1>1, <1>2, <1>4 DEF Decided, Staging, Applying
<1>15. Counts'
  <2>1. Tallied' <= Tallied
    BY <1>1, <1>2 DEF Typed, Tallied, OnItsWay
  <2>2. Tallied' \in Nat /\ Tallied \in Nat
    BY <1>1, <1>2 DEF Typed, Tallied, OnItsWay
  <2> QED
    BY <1>1, <1>2, <1>3, <1>4, <2>1, <2>2, RecycledFinite DEF Counts, Undisturbed
<1>16. Discards'
  BY <1>1, <1>2, <1>3, <1>4 DEF Discards
<1> QED
  BY <1>11, <1>12, <1>13, <1>14, <1>15, <1>16 DEF IInv

LEMMA ReconcileKeeps ==
  ASSUME IInv, Reconcile
  PROVE  IInv'
<1>1. Typed /\ Flow /\ Spares /\ Decided /\ Counts /\ Discards
  BY DEF IInv
<1>2. /\ pc = "reconcile"
      /\ pc' = IF RollsBack THEN "sweep" ELSE "idle"
      /\ sweep' = IF RollsBack THEN Stages ELSE sweep
      /\ after' = IF RollsBack THEN "rolled" ELSE after
      /\ job' = IF RollsBack THEN job ELSE "none"
      /\ UNCHANGED <<lib, rows, fate, run, count, plan, surv, leads, live, lnk, dir, at, pick, todo,
                   staged, group, tally, drained, cancelled, halts, cancels, errors, unticked,
                   recycled, spent, reported, slipped>>
  BY DEF Reconcile, catalog, review, disk, handler, bounds, history
<1>3. Recycled' = Recycled
  BY <1>2 DEF Recycled
<1>11. Typed'
  BY <1>1, <1>2, NoFile DEF Typed, Ends
<1>12. Flow'
  BY <1>1, <1>2 DEF Typed, Flow, Applying, Marking, Moving, Rolling, Staging, RollsBack, FirstStage
<1>13. Spares'
  BY <1>1, <1>2, <1>3 DEF Spares, Staging
<1>14. Decided'
  BY <1>1, <1>2 DEF Decided, Staging, Applying, Told, Uninterrupted, Condemned
<1>15. Counts'
  BY <1>1, <1>2, RecycledFinite, <1>3 DEF Typed, Flow, Applying, Marking, Counts, Tallied, OnItsWay, Undisturbed, Uninterrupted
<1>16. Discards'
  BY <1>1, <1>2, <1>3 DEF Discards, Remembered, Uninterrupted
<1> QED
  BY <1>11, <1>12, <1>13, <1>14, <1>15, <1>16 DEF IInv

LEMMA RollbackKeeps ==
  ASSUME IInv, Rollback
  PROVE  IInv'
<1>1. Typed /\ Flow /\ Spares /\ Decided /\ Counts /\ Discards
  BY DEF IInv
<1>2. /\ pc = "rolled"
      /\ at' = 1
      /\ pick' = [a \in Assets |-> None]
      /\ todo' = {}
      /\ staged' = {}
      /\ group' = {}
      /\ tally' = 0
      /\ sweep' = {}
      /\ after' = "idle"
      /\ drained' = 0
      /\ cancelled' = FALSE
      /\ run' = [run EXCEPT !.status = "cancelled"]
      /\ job' = "none"
      /\ pc' = "idle"
      /\ UNCHANGED <<lib, rows, fate, count, plan, surv, leads, live, lnk, dir, halts, cancels,
                   errors, unticked, recycled, spent, reported, slipped>>
  BY DEF Rollback, catalog, review, disk, handler, bounds, history, Forgotten
<1>4. ~Uninterrupted'
  BY <1>1, <1>2 DEF Typed, Flow, Rolling, Uninterrupted
<1>3. Recycled' = Recycled
  BY <1>2 DEF Recycled
<1>11. Typed'
  <2>1. run' \in RunType
    BY <1>1, <1>2 DEF Typed, RunType, Stages
  <2> QED
    BY <1>1, <1>2, <2>1, NoFile DEF Typed, Ends, Nobody
<1>12. Flow'
  BY <1>1, <1>2 DEF Typed, Flow, Applying, Marking, Moving, Rolling, Staging
<1>13. Spares'
  BY <1>1, <1>2, <1>3 DEF Spares, Staging
<1>14. Decided'
  BY <1>1, <1>2 DEF Decided, Staging, Applying, Told, Uninterrupted, Condemned
<1>15. Counts'
  <2>1. Tallied' <= Tallied
    BY <1>1, <1>2 DEF Typed, Tallied, OnItsWay
  <2>2. Tallied' \in Nat /\ Tallied \in Nat
    BY <1>1, <1>2 DEF Typed, Tallied, OnItsWay
  <2> QED
    BY <1>1, <1>2, <1>3, <1>4, <2>1, <2>2, RecycledFinite DEF Counts, Undisturbed
<1>16. Discards'
  BY <1>1, <1>2, <1>3 DEF Discards, Remembered, Uninterrupted
<1> QED
  BY <1>11, <1>12, <1>13, <1>14, <1>15, <1>16 DEF IInv

LEMMA CancelKeeps ==
  ASSUME IInv, Cancel
  PROVE  IInv'
<1>1. Typed /\ Flow /\ Spares /\ Decided /\ Counts /\ Discards
  BY DEF IInv
<1>2. /\ ~cancelled
      /\ cancels' = cancels + 1
      /\ cancelled' = TRUE
      /\ UNCHANGED <<lib, rows, fate, run, count, plan, surv, leads, live, lnk, dir, job, pc, at,
                   pick, todo, staged, group, tally, sweep, after, drained, halts, errors,
                   unticked, recycled, spent, reported, slipped>>
  BY DEF Cancel, catalog, review, disk, handler, bounds, history
<1>3. Recycled' = Recycled
  BY <1>2 DEF Recycled
<1>11. Typed'
  BY <1>1, <1>2, NoFile DEF Typed, Ends
<1>12. Flow'
  BY <1>1, <1>2 DEF Typed, Flow, Applying, Marking, Moving, Rolling, Staging
<1>13. Spares'
  BY <1>1, <1>2, <1>3 DEF Spares, Staging
<1>14. Decided'
  BY <1>1, <1>2 DEF Decided, Staging, Applying, Told, Uninterrupted, Condemned
<1>15. Counts'
  BY <1>1, <1>2, RecycledFinite, <1>3 DEF Typed, Flow, Applying, Marking, Counts, Tallied, OnItsWay, Undisturbed, Uninterrupted
<1>16. Discards'
  BY <1>1, <1>2, <1>3 DEF Discards, Remembered, Uninterrupted
<1> QED
  BY <1>11, <1>12, <1>13, <1>14, <1>15, <1>16 DEF IInv

LEMMA UntickKeeps ==
  ASSUME IInv, NEW f \in Files, Untick(f)
  PROVE  IInv'
<1>1. Typed /\ Flow /\ Spares /\ Decided /\ Counts /\ Discards
  BY DEF IInv
<1>2. /\ pc = "idle"
      /\ f \in lnk[run.stage]
      /\ lnk' = [lnk EXCEPT ![run.stage] = @ \ {f}]
      /\ unticked' = [unticked EXCEPT ![run.stage] = @ \cup {f}]
      /\ UNCHANGED <<lib, rows, fate, run, count, plan, surv, leads, live, dir, job, pc, at, pick,
                   todo, staged, group, tally, sweep, after, drained, cancelled, halts, cancels,
                   errors, recycled, spent, reported, slipped>>
  BY DEF Untick, catalog, review, disk, handler, bounds, history
<1>3. Recycled' = Recycled
  BY <1>2 DEF Recycled
<1>11. Typed'
  BY <1>1, <1>2, NoFile DEF Typed, Ends
<1>12. Flow'
  BY <1>1, <1>2 DEF Typed, Flow, Applying, Marking, Moving, Rolling, Staging
<1>13. Spares'
  BY <1>1, <1>2, <1>3 DEF Spares, Staging
<1>14. Decided'
  <2>1. run.stage \in Stages /\ 1 \in Stages
    BY <1>1, NoFile DEF Typed, RunType
  <2>2. \A s \in Stages : lnk'[s] = IF s = run.stage THEN lnk[s] \ {f} ELSE lnk[s]
    BY <1>1, <1>2, <2>1 DEF Typed
  <2>3. \A s \in Stages : unticked'[s] = IF s = run.stage THEN unticked[s] \cup {f} ELSE unticked[s]
    BY <1>1, <1>2, <2>1 DEF Typed
  <2>4. Told(run.stage) => Told(run.stage)'
    BY <1>2, <2>1, <2>2, <2>3 DEF Told
  <2> QED
    BY <1>1, <1>2, <2>1, <2>2, <2>3, <2>4 DEF Decided, Staging, Applying, Uninterrupted
<1>15. Counts'
  BY <1>1, <1>2, RecycledFinite, <1>3 DEF Typed, Flow, Applying, Marking, Counts, Tallied, OnItsWay, Undisturbed, Uninterrupted
<1>16. Discards'
  BY <1>1, <1>2, <1>3 DEF Discards, Remembered, Uninterrupted
<1> QED
  BY <1>11, <1>12, <1>13, <1>14, <1>15, <1>16 DEF IInv

LEMMA DropFolderKeeps ==
  ASSUME IInv, DropFolder
  PROVE  IInv'
<1>1. Typed /\ Flow /\ Spares /\ Decided /\ Counts /\ Discards
  BY DEF IInv
<1>2. /\ pc = "idle"
      /\ dir' = dir \ {run.stage}
      /\ lnk' = [lnk EXCEPT ![run.stage] = {}]
      /\ UNCHANGED <<lib, rows, fate, run, count, plan, surv, leads, live, job, pc, at, pick, todo,
                   staged, group, tally, sweep, after, drained, cancelled, halts, cancels, errors,
                   unticked, recycled, spent, reported, slipped>>
  BY DEF DropFolder, catalog, review, disk, handler, bounds, history
<1>3. Recycled' = Recycled
  BY <1>2 DEF Recycled
<1>11. Typed'
  BY <1>1, <1>2, NoFile DEF Typed, Ends
<1>12. Flow'
  BY <1>1, <1>2 DEF Typed, Flow, Applying, Marking, Moving, Rolling, Staging
<1>13. Spares'
  BY <1>1, <1>2, <1>3 DEF Spares, Staging
<1>14. Decided'
  BY <1>1, <1>2 DEF Decided, Staging, Applying, Told, Uninterrupted, Condemned
<1>15. Counts'
  BY <1>1, <1>2, RecycledFinite, <1>3 DEF Typed, Flow, Applying, Marking, Counts, Tallied, OnItsWay, Undisturbed, Uninterrupted
<1>16. Discards'
  BY <1>1, <1>2, <1>3 DEF Discards, Remembered, Uninterrupted
<1> QED
  BY <1>11, <1>12, <1>13, <1>14, <1>15, <1>16 DEF IInv

LEMMA VanishKeeps ==
  ASSUME IInv, NEW f \in Files, Vanish(f)
  PROVE  IInv'
<1>1. Typed /\ Flow /\ Spares /\ Decided /\ Counts /\ Discards
  BY DEF IInv
<1>2. /\ f \in live
      /\ live' = live \ {f}
      /\ slipped' = slipped \cup {f}
      /\ UNCHANGED <<lib, rows, fate, run, count, plan, surv, leads, lnk, dir, job, pc, at, pick,
                   todo, staged, group, tally, sweep, after, drained, cancelled, halts, cancels,
                   errors, unticked, recycled, spent, reported>>
  BY DEF Vanish, catalog, review, disk, handler, bounds, history
<1>3. Recycled' = Recycled
  BY <1>2 DEF Recycled
<1>11. Typed'
  BY <1>1, <1>2, NoFile DEF Typed, Ends
<1>12. Flow'
  BY <1>1, <1>2 DEF Typed, Flow, Applying, Marking, Moving, Rolling, Staging
<1>13. Spares'
  <2>1. live' \cup slipped' = live \cup slipped /\ f \notin Recycled
    BY <1>1, <1>2 DEF Counts
  <2>2. slipped' \subseteq Files \ (live' \cup Recycled')
    BY <1>1, <1>2, <1>3, <2>1 DEF Spares
  <2> QED
    BY <1>1, <1>2, <1>3, <2>1, <2>2 DEF Spares, Staging
<1>14. Decided'
  BY <1>1, <1>2 DEF Decided, Staging, Applying, Told, Uninterrupted, Condemned
<1>15. Counts'
  BY <1>1, <1>2, RecycledFinite, <1>3 DEF Typed, Flow, Applying, Marking, Counts, Tallied, OnItsWay, Undisturbed, Uninterrupted
<1>16. Discards'
  BY <1>1, <1>2, <1>3 DEF Discards, Remembered, Uninterrupted
<1> QED
  BY <1>11, <1>12, <1>13, <1>14, <1>15, <1>16 DEF IInv


(***************************************************************************)
(* What is planned for a stage, and what it spares                         *)
(***************************************************************************)
LEMMA SurvivorIsCopy ==
  ASSUME Typed, NEW a \in Targets
  PROVE  Survivor(a) \in Files /\ lib.assetOf[Survivor(a)] = a
<1>1. /\ Internal(a) # {} /\ Internal(a) \subseteq Copies(a) /\ Copies(a) \subseteq Files
      /\ \A f \in Copies(a) : lib.assetOf[f] = a
  BY DEF Typed, Targets, Internal, Copies
<1>2. First(Internal(a)) \in Internal(a)
  BY <1>1, FirstFile
<1>3. ASSUME ~(Copies(a) \subseteq Internal(a))
      PROVE  First(Copies(a) \ Internal(a)) \in Copies(a)
  BY <1>1, <1>3, FirstFile
<1>4. Survivor(a) \in Copies(a)
  BY <1>1, <1>2, <1>3 DEF Survivor
<1> QED
  BY <1>1, <1>4

LEMMA PlansFiles ==
  ASSUME Typed, NEW s \in Stages
  PROVE  PlanOf(s) \subseteq Files
<1>1. ExactPlan \subseteq Files
  BY DEF ExactPlan, Typed
<1>2. ASSUME NEW c, NEW a \in Members(c)
      PROVE  Representative(a) \in Files
  <2>1. Internal(a) \subseteq Files /\ Copies(a) \subseteq Files /\ Copies(a) # {}
    BY DEF Typed, Members, Internal, Copies
  <2> QED
    BY <2>1, FirstFile DEF Representative
<1> QED
  BY <1>1, <1>2 DEF PlanOf

LEMMA Loads ==
  ASSUME Typed, NEW s \in Stages, Load(s)
  PROVE  /\ at' = s /\ pc' = "stat" /\ staged' = {} /\ todo' \subseteq Files
         /\ pick' \in [Assets -> Files \cup {None}]
         /\ s = 1 => \A a \in Assets : /\ pick'[a] \notin todo'
                                       /\ pick'[a] # None => lib.assetOf[pick'[a]] = a
<1>1. /\ at' = s /\ pc' = "stat" /\ staged' = {} /\ todo' = PlanOf(s)
      /\ pick' = [a \in Assets |-> IF s = 1 /\ a \in Targets THEN Survivor(a) ELSE None]
  BY DEF Load
<1>2. todo' \subseteq Files
  BY <1>1, PlansFiles
<1>3. pick' \in [Assets -> Files \cup {None}]
  BY <1>1, SurvivorIsCopy
<1>4. ASSUME s = 1, NEW a \in Assets
      PROVE  pick'[a] \notin todo' /\ (pick'[a] # None => lib.assetOf[pick'[a]] = a)
  <2>1. CASE a \in Targets
    <3>1. pick'[a] = Survivor(a) /\ lib.assetOf[pick'[a]] = a
      BY <1>1, <1>4, <2>1, SurvivorIsCopy
    <3>2. pick'[a] \notin ExactPlan
      BY <3>1 DEF ExactPlan
    <3> QED
      BY <1>1, <1>4, <3>1, <3>2 DEF PlanOf
  <2>2. CASE a \notin Targets
    BY <1>1, <1>2, <2>2, NoFile
  <2> QED
    BY <2>1, <2>2
<1> QED
  BY <1>1, <1>2, <1>3, <1>4

LEMMA FirstOfStages ==
  ASSUME NEW s \in Nat, NonEmpty(s) # {}
  PROVE  First(NonEmpty(s)) \in Stages /\ First(NonEmpty(s)) >= s
<1>1. NonEmpty(s) \subseteq Stages
  BY DEF NonEmpty
<1>2. First(NonEmpty(s)) \in NonEmpty(s)
  BY <1>1, FirstStageOf
<1> QED
  BY <1>2 DEF NonEmpty

\* a row that goes belongs to a file that is gone, and that nobody recycled
LEMMA RowsGo ==
  ASSUME Discards, pc # "record", pc' # "record", rows' \subseteq rows, live \subseteq rows',
         \A a \in Assets : fate[a] = "trashed" => fate'[a] = "trashed",
         UNCHANGED <<lib, live, recycled, halts, errors>>
  PROVE  Discards'
<1>1. Recycled' = Recycled /\ (Uninterrupted' <=> Uninterrupted)
  BY DEF Recycled, Uninterrupted
<1>2. ASSUME Uninterrupted, NEW a \in Assets
      PROVE  Remembered(a)'
  BY <1>1, <1>2 DEF Discards, Remembered
<1>3. Uninterrupted => Recycled \cap rows = {}
  BY DEF Discards
<1> QED
  BY <1>1, <1>2, <1>3 DEF Discards

LEMMA Loses ==
  ASSUME Typed, live \subseteq rows, NEW f \in Files \ live, Lose(f)
  PROVE  /\ rows' \subseteq rows /\ live \subseteq rows'
         /\ fate' \in [Assets -> {"active", "trashed", "forgotten"}]
         /\ \A a \in Assets : fate[a] = "trashed" => fate'[a] = "trashed"
BY DEF Typed, Lose

LEMMA AnalyzeOpensKeeps ==
  ASSUME IInv, AnalyzeOpens
  PROVE  IInv'
<1>1. Typed /\ Flow /\ Spares /\ Decided /\ Counts /\ Discards
  BY DEF IInv
<1>2. /\ pc = "begin"
      /\ job = "analyze"
      /\ NonEmpty(1) # {}
      /\ Load(First(NonEmpty(1)))
      /\ run' = [status |-> "pending", stage |-> First(NonEmpty(1)), phase |-> "staged"]
      /\ count' = 0
      /\ plan' = Nobody
      /\ surv' = [a \in Assets |-> None]
      /\ unticked' = Nobody
      /\ spent' = {}
      /\ UNCHANGED <<lib, rows, fate, live, lnk, dir, job, group, tally, sweep, after, drained,
                   cancelled, halts, cancels, errors, recycled, reported, slipped>>
  BY DEF AnalyzeOpens, catalog, review, disk, handler, bounds, history
<1>4. /\ at' = First(NonEmpty(1)) /\ at' \in Stages /\ pc' = "stat" /\ staged' = {}
      /\ todo' \subseteq Files /\ pick' \in [Assets -> Files \cup {None}]
      /\ at' = 1 => \A a \in Assets : /\ pick'[a] \notin todo'
                                      /\ pick'[a] # None => lib.assetOf[pick'[a]] = a
  BY <1>1, <1>2, FirstOfStages, Loads
<1>5. plan' \in [Stages -> SUBSET Files] /\ \A s \in Stages : plan'[s] = {} /\ unticked'[s] = {}
  BY <1>2 DEF Nobody
<1>6. run' \in RunType /\ run'.stage = at' /\ run'.status = "pending"
  BY <1>2, <1>4 DEF RunType
<1>7. group = {}
  BY <1>1, <1>2 DEF Flow, Applying
<1>3. Recycled' = Recycled
  BY <1>2 DEF Recycled
<1>11. Typed'
  <2>1. surv' \in [Assets -> Files \cup {None}] /\ unticked' \in [Stages -> SUBSET Files]
    BY <1>2 DEF Nobody
  <2> QED
    BY <1>1, <1>2, <1>4, <1>5, <1>6, <2>1 DEF Typed
<1>12. Flow'
  BY <1>1, <1>2, <1>4, <1>5, <1>6, <1>7 DEF Flow, Applying, Marking, Moving, Rolling, Staging
<1>13. Spares'
  BY <1>1, <1>2, <1>3, <1>4, <1>5, <1>7, NoFile DEF Spares, Staging
<1>14. Decided'
  BY <1>1, <1>2, <1>4, <1>5, <1>6, NoFile DEF Decided, Staging, Applying, Told
<1>15. Counts'
  BY <1>1, <1>2, <1>3, <1>4, RecycledFinite DEF Typed, Flow, Applying, Marking, Counts, Tallied, OnItsWay, Undisturbed, Uninterrupted
<1>16. Discards'
  BY <1>1, <1>2, <1>3, <1>4 DEF Discards, Remembered, Uninterrupted
<1> QED
  BY <1>11, <1>12, <1>13, <1>14, <1>15, <1>16 DEF IInv

LEMMA StatKeeps ==
  ASSUME IInv, Stat
  PROVE  IInv'
<1>1. Typed /\ Flow /\ Spares /\ Decided /\ Counts /\ Discards
  BY DEF IInv
<1>2. /\ pc = "stat"
      /\ todo # {}
      /\ todo' = todo \ {First(todo)}
      /\ UNCHANGED <<lib, run, count, plan, surv, leads, live, lnk, dir, job, pc, at, group, tally,
                   sweep, after, drained, cancelled, halts, cancels, errors, unticked, recycled,
                   spent, reported, slipped>>
  BY DEF Stat, catalog, review, disk, handler, bounds, history
<1> DEFINE f == First(todo)
           a == lib.assetOf[f]
<1>4. f \in todo /\ f \in Files /\ a \in Assets
  <2>1. todo \subseteq Files /\ lib \in Libraries
    BY <1>1 DEF Typed
  <2>2. f \in todo
    BY <1>2, <2>1, FirstFile
  <2>3. lib.assetOf \in [Files -> Assets]
    BY <2>1, DedupAssumption
  <2> HIDE DEF f
  <2> QED
    BY <2>1, <2>2, <2>3
<1>5. \/ f \notin live /\ Lose(f) /\ pick' = pick /\ staged' = staged
      \/ /\ f \in live /\ at = 1 /\ pick[a] \notin live
         /\ rows' = rows \ ({pick[a]} \ batch)
         /\ pick' = [pick EXCEPT ![a] = f] /\ fate' = fate /\ staged' = staged
      \/ f \in live /\ staged' = staged \cup {f} /\ rows' = rows /\ fate' = fate /\ pick' = pick
  BY DEF Stat, catalog
<1>6. /\ rows' \subseteq rows /\ live \subseteq rows'
      /\ fate' \in [Assets -> {"active", "trashed", "forgotten"}]
      /\ \A b \in Assets : fate[b] = "trashed" => fate'[b] = "trashed"
  <2> HIDE DEF f, a
  <2>1. live \subseteq rows /\ fate \in [Assets -> {"active", "trashed", "forgotten"}]
    BY <1>1 DEF Discards, Typed
  <2> QED
    BY <1>1, <1>4, <1>5, <2>1, Loses
<1>7. pick' \in [Assets -> Files \cup {None}] /\ staged' \subseteq Files
  <2> HIDE DEF f, a
  <2> QED
    BY <1>1, <1>4, <1>5 DEF Typed
<1>3. Recycled' = Recycled
  BY <1>2 DEF Recycled
<1>11. Typed'
  BY <1>1, <1>2, <1>6, <1>7 DEF Typed
<1>12. Flow'
  BY <1>1, <1>2 DEF Typed, Flow, Applying, Marking, Moving, Rolling, Staging
<1>13. Spares'
  <2> HIDE DEF f, a
  <2>1. todo' = todo \ {f} /\ a = lib.assetOf[f]
    BY <1>2 DEF f, a
  <2> QED
    BY <1>1, <1>2, <1>3, <1>4, <1>5, <2>1 DEF Spares, Staging, Typed
<1>14. Decided'
  BY <1>1, <1>2 DEF Decided, Staging, Applying, Told, Uninterrupted, Condemned
<1>15. Counts'
  BY <1>1, <1>2, <1>3 DEF Typed, Flow, Applying, Marking, Counts, Tallied, OnItsWay, Undisturbed, Uninterrupted
<1>16. Discards'
  BY <1>1, <1>2, <1>6, RowsGo
<1> QED
  BY <1>11, <1>12, <1>13, <1>14, <1>15, <1>16 DEF IInv

LEMMA LinkKeeps ==
  ASSUME IInv, Link
  PROVE  IInv'
<1>1. Typed /\ Flow /\ Spares /\ Decided /\ Counts /\ Discards
  BY DEF IInv
<1>2. /\ pc = "link"
      /\ todo # {}
      /\ todo' = todo \ {First(todo)}
      /\ UNCHANGED <<lib, rows, fate, run, count, plan, surv, leads, live, dir, job, pc, at, pick,
                   group, tally, sweep, after, drained, cancelled, halts, cancels, errors,
                   unticked, recycled, spent, reported, slipped>>
  BY DEF Link, catalog, review, disk, handler, bounds, history
<1> DEFINE f == First(todo)
<1>4. f \in todo /\ f \in Files
  BY <1>1, <1>2, FirstFile DEF Typed
<1>5. \/ staged' = staged \ {f} /\ lnk' = lnk
      \/ lnk' = [lnk EXCEPT ![at] = @ \cup {f}] /\ staged' = staged
  BY DEF Link
<1>6. /\ staged' \subseteq staged /\ lnk' \in [Stages -> SUBSET Files]
      /\ \A s \in Stages : lnk[s] \subseteq lnk'[s] /\ (s # at => lnk'[s] = lnk[s])
      /\ \/ staged' = staged \ {f} /\ lnk' = lnk
         \/ f \in lnk'[at] /\ staged' = staged
  <2> HIDE DEF f
  <2> QED
    BY <1>1, <1>4, <1>5 DEF Typed
<1>3. Recycled' = Recycled
  BY <1>2 DEF Recycled
<1>11. Typed'
  BY <1>1, <1>2, <1>6 DEF Typed
<1>12. Flow'
  BY <1>1, <1>2 DEF Typed, Flow, Applying, Marking, Moving, Rolling, Staging
<1>13. Spares'
  BY <1>1, <1>2, <1>3, <1>6 DEF Spares, Staging
<1>14. Decided'
  <2> HIDE DEF f
  <2>1. todo' = todo \ {f} /\ at \in Stages /\ run.stage \in Stages
    BY <1>1, <1>2 DEF Typed, RunType, f
  <2>2. Told(run.stage) => Told(run.stage)'
    BY <1>2, <1>6, <2>1 DEF Told
  <2>3. staged' \ todo' \subseteq lnk'[at]
    BY <1>1, <1>2, <1>6, <2>1 DEF Decided
  <2>4. lnk'[1] \cap unticked'[1] = {}
    BY <1>1, <1>2, <1>6, NoFile DEF Decided, Staging
  <2> QED
    BY <1>1, <1>2, <2>2, <2>3, <2>4 DEF Decided, Staging, Applying, Uninterrupted
<1>15. Counts'
  BY <1>1, <1>2, <1>3 DEF Typed, Flow, Applying, Marking, Counts, Tallied, OnItsWay, Undisturbed, Uninterrupted
<1>16. Discards'
  BY <1>1, <1>2, <1>3 DEF Discards, Remembered, Uninterrupted
<1> QED
  BY <1>11, <1>12, <1>13, <1>14, <1>15, <1>16 DEF IInv

LEMMA AdvanceKeeps ==
  ASSUME IInv, Advance
  PROVE  IInv'
<1>1. Typed /\ Flow /\ Spares /\ Decided /\ Counts /\ Discards
  BY DEF IInv
<1>2. /\ pc = "advance"
      /\ UNCHANGED <<lib, rows, fate, run, count, plan, surv, leads, live, lnk, dir, job, group,
                   tally, drained, cancelled, halts, cancels, errors, unticked, recycled, spent,
                   reported, slipped>>
  BY DEF Advance, catalog, review, disk, handler, bounds, history
<1>3. Recycled' = Recycled
  BY <1>2 DEF Recycled
<1>4. run.stage = at /\ group = {} /\ tally = 0 /\ drained = 0
  BY <1>1, <1>2 DEF Flow, Applying, Marking, Moving
<1>5. CASE NonEmpty(at + 1) # {}
  <2>1. /\ at' \in Stages /\ at' > at /\ pc' = "stat" /\ staged' = {}
        /\ todo' \subseteq Files /\ pick' \in [Assets -> Files \cup {None}]
        /\ UNCHANGED <<sweep, after>>
    <3>1. Load(First(NonEmpty(at + 1))) /\ UNCHANGED <<sweep, after>>
      BY <1>5 DEF Advance, AdvanceFrom
    <3>2. at \in Nat /\ at + 1 \in Nat
      BY <1>1 DEF Typed, Stages
    <3>3. First(NonEmpty(at + 1)) \in Stages /\ First(NonEmpty(at + 1)) >= at + 1
      BY <1>5, <3>2, FirstOfStages
    <3>4. First(NonEmpty(at + 1)) \in Nat
      BY <3>3 DEF Stages
    <3> QED
      BY <1>1, <3>1, <3>2, <3>3, <3>4, Loads
  <2>2. at' # 1 /\ at' # run.stage
    BY <1>1, <1>4, <2>1 DEF Typed, Stages
  <2>11. Typed'
    BY <1>1, <1>2, <1>4, <2>1, <2>2 DEF Typed, Ends
  <2>12. Flow'
    BY <1>1, <1>2, <1>4, <2>1, <2>2 DEF Typed, Flow, Applying, Marking, Moving, Rolling, Staging
  <2>13. Spares'
    BY <1>1, <1>2, <1>3, <1>4, <2>1, <2>2 DEF Spares, Staging
  <2>14. Decided'
    BY <1>1, <1>2, <1>4, <2>1, <2>2 DEF Decided, Staging, Applying, Told, Uninterrupted
  <2>15. Counts'
    BY <1>1, <1>2, <1>4, <2>1, <2>2, <1>3, RecycledFinite DEF Typed, Flow, Applying, Marking, Counts, Tallied, OnItsWay, Undisturbed, Uninterrupted
  <2>16. Discards'
    BY <1>1, <1>2, <1>4, <2>1, <2>2, <1>3 DEF Discards, Remembered, Uninterrupted
  <2> QED
    BY <2>11, <2>12, <2>13, <2>14, <2>15, <2>16 DEF IInv
<1>6. CASE NonEmpty(at + 1) = {}
  <2>1. /\ pc' = "sweep" /\ sweep' = Stages /\ after' = "complete"
        /\ UNCHANGED <<at, pick, todo, staged>>
    BY <1>6 DEF Advance, AdvanceFrom
  <2>11. Typed'
    BY <1>1, <1>2, <1>4, <2>1 DEF Typed, Ends
  <2>12. Flow'
    BY <1>1, <1>2, <1>4, <2>1 DEF Typed, Flow, Applying, Marking, Moving, Rolling, Staging
  <2>13. Spares'
    BY <1>1, <1>2, <1>3, <1>4, <2>1 DEF Spares, Staging
  <2>14. Decided'
    BY <1>1, <1>2, <1>4, <2>1 DEF Decided, Staging, Applying, Told, Uninterrupted
  <2>15. Counts'
    BY <1>1, <1>2, <1>4, <2>1, <1>3, RecycledFinite DEF Typed, Flow, Applying, Marking, Counts, Tallied, OnItsWay, Undisturbed, Uninterrupted
  <2>16. Discards'
    BY <1>1, <1>2, <1>4, <2>1, <1>3 DEF Discards, Remembered, Uninterrupted
  <2> QED
    BY <2>11, <2>12, <2>13, <2>14, <2>15, <2>16 DEF IInv
<1> QED
  BY <1>5, <1>6

LEMMA ContentOf ==
  ASSUME Typed, NEW f \in Files
  PROVE  lib.assetOf[f] \in Assets
BY DedupAssumption DEF Typed

LEMMA TakeGroupKeeps ==
  ASSUME IInv, TakeGroup
  PROVE  IInv'
<1>1. Typed /\ Flow /\ Spares /\ Decided /\ Counts /\ Discards
  BY DEF IInv
<1>2. /\ pc = "apply"
      /\ group = {}
      /\ todo # {}
      /\ UNCHANGED <<lib, fate, run, count, plan, surv, leads, live, lnk, dir, job, pc, at, pick,
                   staged, tally, sweep, after, drained, cancelled, halts, cancels, errors,
                   unticked, recycled, spent, reported>>
      /\ slipped' = {}
  BY DEF TakeGroup, catalog, review, disk, handler, bounds, history
<1> DEFINE a == lib.assetOf[First(todo)]
           G == IF at = 1 THEN {f \in todo : lib.assetOf[f] = a} ELSE {First(todo)}
           spare == IF at = 1 /\ ~SurvivorLives(a) /\ G \cap live # {}
                    THEN {First(G \cap live)} ELSE {}
<1>4. /\ group' = G \ spare /\ todo' = todo \ G
      /\ rows' = IF at = 1 /\ ~SurvivorLives(a) THEN rows \ {surv[a]} ELSE rows
  BY DEF TakeGroup
<1>5. /\ First(todo) \in todo /\ todo \subseteq Files /\ todo \subseteq plan[at]
      /\ lib.assetOf[First(todo)] \in Assets /\ live \subseteq rows /\ rows \subseteq Files
  BY <1>1, <1>2, FirstFile, ContentOf DEF Typed, Flow, Applying, Discards
<1>6. /\ G \subseteq todo /\ (at = 1 => \A f \in G : lib.assetOf[f] = a) /\ a \in Assets
      /\ a = lib.assetOf[First(todo)]
  BY <1>5
<1>7. /\ at = 1 /\ SurvivorLives(a) => rows' = rows
      /\ at = 1 /\ ~SurvivorLives(a) /\ G \cap live # {} =>
            /\ First(G \cap live) \in G \cap live
            /\ spare = {First(G \cap live)}
  <2>1. G \cap live \subseteq Files
    BY <1>5, <1>6
  <2>2. G \cap live # {} => First(G \cap live) \in G \cap live
    <3> HIDE DEF G
    <3> QED
      BY <2>1, FirstFile
  <2> QED
    BY <1>4, <2>2
<1>8. group' \subseteq todo /\ todo' \subseteq todo /\ rows' \subseteq rows /\ live \subseteq rows'
  <2> HIDE DEF a, G, spare
  <2> QED
    BY <1>4, <1>5, <1>6 DEF SurvivorLives
<1>3. Recycled' = Recycled
  BY <1>2 DEF Recycled
<1>11. Typed'
  BY <1>1, <1>2, <1>8 DEF Typed
<1>12. Flow'
  BY <1>1, <1>2, <1>5, <1>8 DEF Flow, Applying, Marking, Moving, Rolling, Staging
<1>13. Spares'
  <2>1. ASSUME at = 1, NEW f \in group' \cap live
        PROVE  \E g \in live \ group' : lib.assetOf[g] = lib.assetOf[f]
    <3>1. f \in G /\ f \in live /\ lib.assetOf[f] = a
      <4> HIDE DEF a, G, spare
      <4> QED
        BY <1>4, <1>6, <2>1
    <3>2. CASE SurvivorLives(a)
      <4>1. surv[a] \in live /\ surv[a] # None
        BY <1>5, <3>2, NoFile DEF SurvivorLives
      <4>2. lib.assetOf[surv[a]] = a /\ surv[a] \notin plan[1]
        BY <1>1, <1>6, <4>1 DEF Spares
      <4>3. surv[a] \notin group'
        BY <1>5, <1>8, <2>1, <4>2
      <4> QED
        BY <3>1, <4>1, <4>2, <4>3
    <3>3. CASE ~SurvivorLives(a)
      <4> HIDE DEF a, G, spare
      <4>1. First(G \cap live) \in G \cap live /\ spare = {First(G \cap live)}
        BY <1>7, <2>1, <3>1, <3>3
      <4>2. lib.assetOf[First(G \cap live)] = a /\ First(G \cap live) \notin group'
        BY <1>4, <1>6, <2>1, <4>1
      <4> QED
        BY <3>1, <4>1, <4>2
    <3> QED
      BY <3>2, <3>3
  <2>2. at = 1 => \A f \in group' \cap (live \cup slipped') :
             \E g \in (live \cup slipped') \ group' : lib.assetOf[g] = lib.assetOf[f]
    <3> HIDE DEF a, G, spare
    <3> QED
      BY <1>2, <2>1
  <2> QED
    BY <1>1, <1>2, <1>3, <2>2 DEF Spares, Staging
<1>14. Decided'
  BY <1>1, <1>2, <1>8 DEF Decided, Staging, Applying, Told, Uninterrupted, Condemned
<1>15. Counts'
  BY <1>1, <1>2, <1>3 DEF Counts, Tallied, OnItsWay, Undisturbed, Uninterrupted
<1>16. Discards'
  BY <1>1, <1>2, <1>8, RowsGo
<1> QED
  BY <1>11, <1>12, <1>13, <1>14, <1>15, <1>16 DEF IInv

LEMMA AlreadyGoneKeeps ==
  ASSUME IInv, AlreadyGone
  PROVE  IInv'
<1>1. Typed /\ Flow /\ Spares /\ Decided /\ Counts /\ Discards
  BY DEF IInv
<1>2. /\ pc = "apply"
      /\ group # {}
      /\ First(group) \notin live
      /\ Lose(First(group))
      /\ group' = group \ {First(group)}
      /\ UNCHANGED <<lib, run, count, plan, surv, leads, live, lnk, dir, job, pc, at, pick, todo,
                   staged, tally, sweep, after, drained, cancelled, halts, cancels, errors,
                   unticked, recycled, spent, reported, slipped>>
  BY DEF AlreadyGone, review, disk, bounds, history
<1>4. First(group) \in Files \ live
  BY <1>1, <1>2, FirstFile DEF Typed
<1>5. /\ rows' \subseteq rows /\ live \subseteq rows'
      /\ fate' \in [Assets -> {"active", "trashed", "forgotten"}]
      /\ \A a \in Assets : fate[a] = "trashed" => fate'[a] = "trashed"
  <2>1. live \subseteq rows
    BY <1>1 DEF Discards
  <2> QED
    BY <1>1, <1>2, <1>4, <2>1, Loses
<1>3. Recycled' = Recycled
  BY <1>2 DEF Recycled
<1>11. Typed'
  BY <1>1, <1>2, <1>5 DEF Typed
<1>12. Flow'
  BY <1>1, <1>2 DEF Typed, Flow, Applying, Marking, Moving, Rolling, Staging
<1>13. Spares'
  BY <1>1, <1>2, <1>3 DEF Spares, Staging
<1>14. Decided'
  BY <1>1, <1>2 DEF Decided, Staging, Applying, Told, Uninterrupted, Condemned
<1>15. Counts'
  BY <1>1, <1>2, <1>3 DEF Counts, Tallied, OnItsWay, Undisturbed, Uninterrupted
<1>16. Discards'
  BY <1>1, <1>2, <1>5, RowsGo
<1> QED
  BY <1>11, <1>12, <1>13, <1>14, <1>15, <1>16 DEF IInv

LEMMA RecycleKeeps ==
  ASSUME IInv, Recycle
  PROVE  IInv'
<1>1. Typed /\ Flow /\ Spares /\ Decided /\ Counts /\ Discards
  BY DEF IInv
<1> DEFINE f == First(group)
<1>2. /\ pc = "apply"
      /\ group # {}
      /\ f \in live
      /\ live' = live \ {f}
      /\ recycled' = [recycled EXCEPT ![f] = at]
      /\ pc' = "record"
      /\ UNCHANGED <<lib, rows, fate, run, count, plan, surv, leads, lnk, dir, job, at, pick, todo,
                   staged, group, tally, sweep, after, drained, cancelled, halts, cancels, errors,
                   unticked, reported, slipped>>
  BY DEF Recycle, catalog, review, handler, bounds
<1>4. f \in group /\ f \in Files /\ f = First(group)
  BY <1>1, <1>2, FirstFile DEF Typed
<1>5. job \in {"confirm", "keep"} /\ at \in Stages /\ f \in rows /\ f \notin Recycled
  BY <1>1, <1>2 DEF Typed, Flow, Applying, Counts, Discards
<1> HIDE DEF f
<1>6. at # 0 /\ recycled' \in [Files -> 0 .. 3]
  BY <1>1, <1>2, <1>5 DEF Typed, Stages
<1>3. Recycled' = Recycled \cup {f}
  BY <1>1, <1>2, <1>4, <1>6 DEF Typed, Recycled
<1>7. Cardinality(Recycled') = Cardinality(Recycled) + 1
  BY <1>3, <1>5, RecycledFinite, FS_AddElement
<1>11. Typed'
  BY <1>1, <1>2, <1>6 DEF Typed
<1>12. Flow'
  BY <1>1, <1>2, <1>5 DEF Typed, Flow, Applying, Marking, Moving, Rolling, Staging
<1>13. Spares'
  <2>1. ASSUME at = 1, NEW h \in group \cap (live \cup slipped)
        PROVE  \E g \in (live' \cup slipped) \ group : lib.assetOf[g] = lib.assetOf[h]
    BY <1>1, <1>2, <1>3, <1>4, <2>1 DEF Spares
  <2>2. slipped \subseteq Files \ (live' \cup Recycled')
    BY <1>1, <1>2, <1>3 DEF Spares
  <2> QED
    BY <1>1, <1>2, <1>3, <1>4, <2>1, <2>2 DEF Spares, Staging
<1>14. Decided'
  BY <1>1, <1>2 DEF Decided, Staging, Applying, Told, Uninterrupted, Condemned
<1>15. Counts'
  <2>1. live' \cap Recycled' = {}
    BY <1>1, <1>2, <1>3 DEF Counts
  <2>2. Tallied' = Tallied + 1
    BY <1>1, <1>2 DEF Typed, Tallied, OnItsWay
  <2>3. Tallied \in Nat /\ Cardinality(Recycled) \in Nat
    BY <1>1, RecycledFinite DEF Typed, Tallied, OnItsWay
  <2>4. Undisturbed' => Undisturbed
    BY <1>2 DEF Undisturbed, Uninterrupted
  <2> QED
    BY <1>1, <1>2, <1>5, <1>7, <2>1, <2>2, <2>3, <2>4 DEF Counts
<1>16. Discards'
  <2>1. live' \subseteq rows' /\ First(group)' \in Recycled'
    BY <1>1, <1>2, <1>3, <1>4 DEF Discards
  <2>2. Uninterrupted' => Uninterrupted
    BY <1>2 DEF Uninterrupted
  <2>3. Uninterrupted => \A h \in Recycled' \cap rows : h = f
    BY <1>1, <1>2, <1>3 DEF Discards
  <2>4. ASSUME Uninterrupted, NEW a \in Assets
        PROVE  Remembered(a)'
    <3>1. CASE lib.assetOf[f] = a
      BY <1>2, <1>4, <1>5, <3>1 DEF Remembered
    <3>2. CASE lib.assetOf[f] # a
      <4>1. \A h \in Files : lib.assetOf[h] = a => recycled'[h] = recycled[h] /\ h # f
        BY <1>1, <1>2, <3>2 DEF Typed
      <4>2. Remembered(a)
        BY <1>1, <2>4 DEF Discards
      <4> QED
        BY <1>2, <1>3, <4>1, <4>2 DEF Remembered
    <3> QED
      BY <3>1, <3>2
  <2> QED
    BY <1>2, <1>4, <2>1, <2>2, <2>3, <2>4 DEF Discards
<1> QED
  BY <1>11, <1>12, <1>13, <1>14, <1>15, <1>16 DEF IInv

LEMMA RecordKeeps ==
  ASSUME IInv, Record
  PROVE  IInv'
<1>1. Typed /\ Flow /\ Spares /\ Decided /\ Counts /\ Discards
  BY DEF IInv
<1> DEFINE f == First(group)
           a == lib.assetOf[f]
<1>2. /\ pc = "record"
      /\ rows' = rows \ {f}
      /\ fate' = [fate EXCEPT ![a] = IF RecordsTrash(a, f) THEN "trashed" ELSE @]
      /\ group' = group \ {f}
      /\ tally' = tally + 1
      /\ pc' = "apply"
      /\ UNCHANGED <<lib, run, count, plan, surv, leads, live, lnk, dir, job, at, pick, todo, staged,
                   sweep, after, drained, cancelled, halts, cancels, errors, unticked, recycled,
                   spent, reported, slipped>>
  BY DEF Record, review, disk, bounds, history
<1>3. Recycled' = Recycled
  BY <1>2 DEF Recycled
<1>4. group \subseteq Files /\ group # {}
  BY <1>1, <1>2 DEF Typed, Flow
<1>5. f \in Files /\ f \in group /\ f = First(group)
  BY <1>4, FirstFile
<1>6. a \in Assets /\ a = lib.assetOf[f]
  BY <1>1, <1>5, ContentOf
<1>7. f \in Recycled /\ f \notin live
  BY <1>1, <1>2 DEF Counts, Discards
<1> HIDE DEF f, a
<1>8. /\ fate' \in [Assets -> {"active", "trashed", "forgotten"}]
      /\ \A b \in Assets \ {a} : fate'[b] = fate[b]
      /\ RecordsTrash(a, f) => fate'[a] = "trashed"
  BY <1>1, <1>2, <1>6 DEF Typed
<1>11. Typed'
  BY <1>1, <1>2, <1>8 DEF Typed
<1>12. Flow'
  BY <1>1, <1>2 DEF Typed, Flow, Applying, Marking, Moving, Rolling, Staging
<1>13. Spares'
  BY <1>1, <1>2, <1>3 DEF Spares, Staging
<1>14. Decided'
  BY <1>1, <1>2 DEF Decided, Staging, Applying, Told, Uninterrupted, Condemned
<1>15. Counts'
  <2>1. Tallied' = Tallied
    BY <1>1, <1>2 DEF Typed, Tallied, OnItsWay
  <2> QED
    BY <1>1, <1>2, <1>3, <2>1 DEF Flow, Applying, Counts, Undisturbed, Uninterrupted
<1>16. Discards'
  <2>1. live' \subseteq rows'
    BY <1>1, <1>2, <1>7 DEF Discards
  <2>2. Uninterrupted' => Uninterrupted
    BY <1>2 DEF Uninterrupted
  <2>3. Uninterrupted => Recycled \cap rows' = {}
    BY <1>1, <1>2, <1>5 DEF Discards
  <2>4. ASSUME Uninterrupted, NEW b \in Assets
        PROVE  Remembered(b)'
    <3>1. CASE b = a /\ RecordsTrash(a, f)
      BY <1>8, <3>1 DEF Remembered
    <3>2. CASE b = a /\ at = 1
      <4>1. PICK g \in live \cup slipped : lib.assetOf[g] = a
        BY <1>1, <1>2, <1>5, <1>6, <3>2 DEF Spares
      <4>2. g \in Files /\ g \notin Recycled
        BY <1>1, <4>1 DEF Typed, Counts, Spares
      <4> QED
        BY <1>2, <1>3, <3>2, <4>1, <4>2 DEF Remembered
    <3>3. CASE b = a /\ at # 1 /\ ~RecordsTrash(a, f)
      <4>1. PICK g \in rows : lib.assetOf[g] = a /\ g # f
        BY <3>3 DEF RecordsTrash, Copies
      <4>2. g \in Files /\ g \in rows'
        BY <1>1, <1>2, <4>1 DEF Typed
      <4> QED
        BY <1>2, <3>3, <4>1, <4>2 DEF Remembered
    <3>4. CASE b # a
      <4>1. Remembered(b) /\ fate'[b] = fate[b]
        BY <1>1, <1>8, <2>4, <3>4 DEF Discards
      <4>2. \A g \in Files : lib.assetOf[g] = b => g # f
        BY <1>6, <3>4
      <4> QED
        BY <1>2, <1>3, <4>1, <4>2 DEF Remembered
    <3> QED
      BY <3>1, <3>2, <3>3, <3>4
  <2> QED
    BY <1>2, <1>3, <2>1, <2>2, <2>3, <2>4 DEF Discards
<1> QED
  BY <1>11, <1>12, <1>13, <1>14, <1>15, <1>16 DEF IInv

(***************************************************************************)
(* The invariant holds                                                     *)
(***************************************************************************)
LEMMA InitHolds == Init => IInv
<1> SUFFICES ASSUME Init PROVE IInv
  OBVIOUS
<1>1. Recycled = {} /\ Cardinality({}) = 0
  BY FS_EmptySet DEF Init, Recycled
<1>2. Typed
  <2>1. run \in RunType /\ 1 \in Stages
    BY DEF Init, NoRow, RunType, Stages
  <2> QED
    BY <2>1 DEF Init, Typed, Nobody, Ends
<1>3. Flow
  BY DEF Init, NoRow, Flow, Applying, Marking, Moving, Rolling, Staging
<1>4. Spares
  BY <1>1, NoFile DEF Init, Spares, Staging, Nobody, None
<1>5. Decided
  BY NoFile DEF Init, NoRow, Decided, Staging, Applying, Nobody
<1>6. Counts
  BY <1>1 DEF Init, Counts, Tallied, OnItsWay, Undisturbed, Uninterrupted
<1>7. Discards
  BY <1>1 DEF Init, Discards, Remembered
<1> QED
  BY <1>2, <1>3, <1>4, <1>5, <1>6, <1>7 DEF IInv

LEMMA StutterKeeps ==
  ASSUME IInv, UNCHANGED vars
  PROVE  IInv'
<1>1. UNCHANGED <<lib, rows, fate, run, count, plan, surv, leads, live, lnk, dir, job, pc, at, pick,
                  todo, staged, group, tally, sweep, after, drained, cancelled, halts, cancels,
                  errors, unticked, recycled, spent, reported, slipped>>
  BY DEF vars, catalog, review, disk, handler, bounds, history
<1>2. Typed' /\ Flow'
  BY <1>1 DEF IInv, Typed, Flow, Applying, Marking, Moving, Rolling, Staging
<1>4. Recycled' = Recycled
  BY <1>1 DEF Recycled
<1>3. Spares' /\ Decided'
  BY <1>1, <1>4 DEF IInv, Spares, Decided, Staging, Applying, Told, Uninterrupted, Condemned
<1>5. Counts' /\ Discards'
  BY <1>1, <1>4 DEF IInv, Counts, Tallied, OnItsWay, Undisturbed, Uninterrupted, Discards, Remembered
<1> QED
  BY <1>2, <1>3, <1>5 DEF IInv

LEMMA WorkerKeeps ==
  ASSUME IInv, Worker
  PROVE  IInv'
BY AnalyzeCleanKeeps, AnalyzeOpensKeeps, StatKeeps, StatDoneKeeps, LinkKeeps, PersistKeeps,
   CursorKeeps, AdvanceKeeps, RefusedKeeps, ConfirmBeginsKeeps, TakeGroupKeeps, AlreadyGoneKeeps,
   RecycleKeeps, RecycleFailsKeeps, RecordKeeps, AppliedKeeps, MarkAppliedKeeps, SweepEntryKeeps,
   SweepFolderKeeps, DiscardKeeps, CloseKeeps, ResultKeeps, LandKeeps, SeesCancelKeeps
   DEF Worker

LEMMA NextKeeps ==
  ASSUME IInv, [Next]_vars
  PROVE  IInv'
<1>1. CASE UNCHANGED vars
  BY <1>1, StutterKeeps
<1>2. CASE Worker
  BY <1>2, WorkerKeeps
<1>3. ASSUME NEW k \in {"analyze", "confirm", "keep", "discard"}, Begin(k)
      PROVE  IInv'
  BY <1>3, BeginKeeps
<1>4. CASE Raises \/ Halt \/ Restart \/ Reconcile \/ Rollback \/ Cancel \/ DropFolder
  BY <1>4, RaisesKeeps, HaltKeeps, RestartKeeps, ReconcileKeeps, RollbackKeeps, CancelKeeps,
     DropFolderKeeps
<1>5. ASSUME NEW f \in Files, Untick(f) \/ Vanish(f)
      PROVE  IInv'
  BY <1>5, UntickKeeps, VanishKeeps
<1> QED
  BY <1>1, <1>2, <1>3, <1>4, <1>5 DEF Next

LEMMA Inductive == Spec => []IInv
<1>1. IInv /\ [Next]_vars => IInv'
  BY NextKeeps
<1> QED
  BY InitHolds, <1>1, PTL DEF Spec

(***************************************************************************)
(* The lifetime metric counts no file twice, and misses none between jobs  *)
(* unless one was cut short: every file recycled is in exactly one of the  *)
(* tally of a running confirm, the run's deleted_count, the result being   *)
(* built and the results stored (dedup.py:125-132).                        *)
(***************************************************************************)
THEOREM DeletesCountedOnceHolds == Spec => []DeletesCountedOnce
<1>1. IInv => DeletesCountedOnce
  <2> SUFFICES ASSUME IInv PROVE DeletesCountedOnce
    OBVIOUS
  <2>1. /\ reported \in Nat /\ drained \in Nat /\ count \in Nat /\ tally \in Nat
        /\ Cardinality(Recycled) \in Nat
    BY RecycledFinite DEF IInv, Typed
  <2>2. reported + drained + count + tally <= Cardinality(Recycled)
    BY <2>1 DEF IInv, Counts, Tallied, OnItsWay
  <2>3. ASSUME pc = "idle", Uninterrupted, cancels = 0
        PROVE  reported + count = Cardinality(Recycled)
    <3>1. drained = 0 /\ tally = 0
      BY <2>3 DEF IInv, Flow, Applying, Marking
    <3> QED
      BY <2>1, <2>3, <3>1 DEF IInv, Counts, Undisturbed, Tallied, OnItsWay
  <2> QED
    BY <2>2, <2>3 DEF DeletesCountedOnce
<1> QED
  BY Inductive, <1>1, PTL

(***************************************************************************)
(* A content all of whose copies packrat recycled, one of them as an       *)
(* unwanted look-alike, is remembered as trash, unless a crash or an       *)
(* exception came between a recycling and its record (dedup.py:982-989).   *)
(***************************************************************************)
THEOREM DiscardsAreRememberedHolds == Spec => []DiscardsAreRemembered
<1>1. IInv => DiscardsAreRemembered
  BY DEF IInv, Discards, Remembered, DiscardsAreRemembered
<1> QED
  BY Inductive, <1>1, PTL

\* only Recycle recycles, the first file of the group being applied
LEMMA OnlyRecycleRecycles ==
  ASSUME IInv, [Next]_vars, NEW f \in NewlyRecycled
  PROVE  Recycle /\ pc = "apply" /\ group # {} /\ f = First(group) /\ f \in group
<1>1. recycled' # recycled /\ f \in Files /\ recycled[f] = 0 /\ recycled'[f] # 0
  BY DEF NewlyRecycled
<1>2. Recycle
  <2>1. ~UNCHANGED recycled
    BY <1>1
  <2> QED
    BY <2>1 DEF Next, Worker, vars, history, Begin, AnalyzeClean, AnalyzeOpens, Stat, StatDone, Link,
       Persist, Cursor, Advance, Refused, ConfirmBegins, TakeGroup, AlreadyGone, RecycleFails,
       Record, Applied, MarkApplied, SweepEntry, SweepFolder, Discard, Close, Result, Land,
       SeesCancel, Raises, Halt, Restart, Reconcile, Rollback, Cancel, Untick, DropFolder, Vanish
<1>3. pc = "apply" /\ group # {} /\ recycled' = [recycled EXCEPT ![First(group)] = at]
  BY <1>2 DEF Recycle
<1>4. f = First(group)
  BY <1>1, <1>3 DEF IInv, Typed
<1>5. group \subseteq Files
  BY DEF IInv, Typed
<1> QED
  BY <1>2, <1>3, <1>4, <1>5, FirstFile

(***************************************************************************)
(* The user decides which files go, whatever could not be staged, vanished *)
(* or was cancelled, as long as no daemon died and no handler raised       *)
(* (dedup.py:868-899).                                                     *)
(***************************************************************************)
THEOREM UserDecidesHolds == Spec => UserDecides
<1>1. ASSUME IInv, [Next]_vars, Uninterrupted, NEW f \in NewlyRecycled
      PROVE  Condemned(f)
  <2>1. pc = "apply" /\ f \in group
    BY <1>1, OnlyRecycleRecycles
  <2> QED
    BY <1>1, <2>1 DEF IInv, Decided, Applying
<1>2. IInv /\ [Next]_vars => [Uninterrupted => \A f \in NewlyRecycled : Condemned(f)]_vars
  BY <1>1
<1> QED
  BY Inductive, <1>2, PTL DEF Spec, UserDecides

(***************************************************************************)
(* Stage 1 never takes the last copy of a content, however often the       *)
(* confirm was interrupted or repeated and whatever vanished before the    *)
(* survivor was looked for; what vanishes after that look, while the       *)
(* asset's files go one by one, is not seen (dedup.py:917-938).            *)
(***************************************************************************)
THEOREM StageOneSparesACopyHolds == Spec => StageOneSparesACopy
<1>1. ASSUME IInv, [Next]_vars, NEW f \in NewlyRecycled, at = 1
      PROVE  \E g \in (live' \cup slipped) \ group : lib.assetOf[g] = lib.assetOf[f]
  <2>1. Recycle /\ f = First(group) /\ f \in group
    BY <1>1, OnlyRecycleRecycles
  <2>2. f \in live /\ live' = live \ {f}
    BY <2>1 DEF Recycle
  <2>3. PICK g \in (live \cup slipped) \ group : lib.assetOf[g] = lib.assetOf[f]
    BY <1>1, <2>1, <2>2 DEF IInv, Spares
  <2> QED
    BY <2>1, <2>2, <2>3
<1>2. IInv /\ [Next]_vars =>
        [\A f \in NewlyRecycled :
            at = 1 => \E g \in (live' \cup slipped) \ group :
                          lib.assetOf[g] = lib.assetOf[f]]_vars
  BY <1>1
<1> QED
  BY Inductive, <1>2, PTL DEF Spec, StageOneSparesACopy

(***************************************************************************)
(* The rollback of a restart closes a run only while that run has deleted  *)
(* nothing, whatever jobs ran and died in between (reconcile.py:86-89).    *)
(***************************************************************************)
THEOREM RollbackSparesCommittedHolds == Spec => RollbackSparesCommitted
<1>1. IInv => (pc = "rolled" /\ run'.status = "cancelled" => spent = {})
  BY DEF IInv, Flow, Rolling
<1>2. IInv => [pc = "rolled" /\ run'.status = "cancelled" => spent = {}]_vars
  BY <1>1
<1> QED
  BY Inductive, <1>2, PTL DEF Spec, RollbackSparesCommitted

-----------------------------------------------------------------------------
(***************************************************************************)
(* NearDup.  What its proofs need of finite sets.                          *)
(***************************************************************************)

(***************************************************************************)
(* Induction over a finite set, on a set of good subsets.                  *)
(***************************************************************************)
LEMMA SetInduction ==
  ASSUME NEW S, IsFiniteSet(S), NEW Good, {} \in Good,
         \A T \in SUBSET S : \A x \in S \ T : T \in Good => T \cup {x} \in Good
  PROVE  S \in Good
<1> DEFINE R == StrictSubsetOrdering(S)
           Bad == {T \in SUBSET S : T \notin Good}
<1>1. SUFFICES ASSUME Bad # {} PROVE FALSE
  OBVIOUS
<1>2. Bad \subseteq FiniteSubsetsOf(S)
  BY FS_FiniteSubsetsOfFinite
<1>3. PICK T \in Bad : \A U \in Bad : <<U, T>> \notin R
  <2> HIDE DEF R, Bad
  <2>1. IsWellFoundedOn(R, FiniteSubsetsOf(S))
    BY FS_StrictSubsetOrderingWellFounded DEF R
  <2> QED
    BY <1>1, <1>2, <2>1, WFMin
<1>4. PICK x \in T : TRUE
  BY <1>3
<1> DEFINE U == T \ {x}
<1>5. U \in SUBSET S /\ x \in S \ U /\ U \cup {x} = T /\ U # T
  BY <1>4
<1>6. U \notin Good
  BY <1>3, <1>5
<1>7. <<U, T>> \in R
  BY <1>5 DEF StrictSubsetOrdering
<1> QED
  BY <1>3, <1>5, <1>6, <1>7

(***************************************************************************)
(* A finite set under a strict order R is enumerated from the least on.    *)
(***************************************************************************)
Ordered(R, S) ==
    /\ \A a \in S, b \in S : a # b => <<a, b>> \in R \/ <<b, a>> \in R
    /\ \A a \in S, b \in S, c \in S : <<a, b>> \in R /\ <<b, c>> \in R => <<a, c>> \in R

LEMMA Greatest ==
  ASSUME NEW R, NEW S, IsFiniteSet(S), S # {}, Ordered(R, S)
  PROVE  \E m \in S : \A a \in S \ {m} : <<a, m>> \in R
<1> DEFINE Good == {T \in SUBSET S : T # {} => \E m \in T : \A a \in T \ {m} : <<a, m>> \in R}
<1>1. {} \in Good
  OBVIOUS
<1>2. ASSUME NEW T \in SUBSET S, NEW x \in S \ T, T \in Good
      PROVE  T \cup {x} \in Good
  <2>1. CASE T = {}
    BY <2>1
  <2>2. CASE T # {}
    <3>1. PICK m \in T : \A a \in T \ {m} : <<a, m>> \in R
      BY <1>2, <2>2
    <3>2. CASE <<m, x>> \in R
      <4>1. \A a \in T : <<a, x>> \in R
        BY <3>1, <3>2 DEF Ordered
      <4> QED
        BY <4>1
    <3>3. CASE <<x, m>> \in R
      BY <3>1, <3>3
    <3> QED
      BY <3>2, <3>3 DEF Ordered
  <2> QED
    BY <2>1, <2>2
<1>3. S \in Good
  <2> HIDE DEF Good
  <2> QED
    BY <1>1, <1>2, SetInduction, Zenon
<1> QED
  BY <1>3

Sorts(R, s, S) ==
    /\ s \in [1 .. Cardinality(S) -> S]
    /\ \A i \in 1 .. Cardinality(S), j \in 1 .. Cardinality(S) : i < j => <<s[i], s[j]>> \in R
    /\ \A x \in S : \E i \in 1 .. Cardinality(S) : s[i] = x

LEMMA SortExists ==
  ASSUME NEW R, NEW S, IsFiniteSet(S), Ordered(R, S)
  PROVE  \E s : Sorts(R, s, S)
<1> DEFINE Good == {T \in SUBSET S : \A U \in SUBSET S :
                        Cardinality(U) = Cardinality(T) => \E s : Sorts(R, s, U)}
<1>1. {} \in Good
  <2>1. ASSUME NEW U \in SUBSET S, Cardinality(U) = Cardinality({})
        PROVE  \E s : Sorts(R, s, U)
    <3>1. Cardinality(U) = 0 /\ U = {}
      BY <2>1, FS_EmptySet, FS_Subset
    <3>2. Sorts(R, [i \in 1 .. 0 |-> 0], U)
      BY <3>1 DEF Sorts
    <3> QED
      BY <3>2
  <2> QED
    BY <2>1
<1>2. ASSUME NEW T \in SUBSET S, NEW x \in S \ T, T \in Good
      PROVE  T \cup {x} \in Good
  <2>1. IsFiniteSet(T) /\ Cardinality(T) \in Nat /\ Cardinality(T \cup {x}) = Cardinality(T) + 1
    BY FS_Subset, FS_CardinalityType, FS_AddElement
  <2>2. ASSUME NEW U \in SUBSET S, Cardinality(U) = Cardinality(T \cup {x})
        PROVE  \E s : Sorts(R, s, U)
    <3> DEFINE n == Cardinality(T)
    <3>1. IsFiniteSet(U) /\ Cardinality(U) = n + 1 /\ U # {}
      BY <2>1, <2>2, FS_Subset, FS_EmptySet
    <3>2. Ordered(R, U)
      BY DEF Ordered
    <3>3. PICK m \in U : \A a \in U \ {m} : <<a, m>> \in R
      BY <3>1, <3>2, Greatest
    <3>4. U \ {m} \in SUBSET S /\ Cardinality(U \ {m}) = n
      <4>1. Cardinality(U \ {m}) = Cardinality(U) - 1
        BY <3>1, <3>3, FS_RemoveElement
      <4> QED
        BY <2>1, <3>1, <4>1
    <3>5. PICK s : Sorts(R, s, U \ {m})
      BY <1>2, <3>4
    <3> DEFINE t == [i \in 1 .. n + 1 |-> IF i = n + 1 THEN m ELSE s[i]]
    <3>6. s \in [1 .. n -> U \ {m}]
      BY <3>4, <3>5 DEF Sorts
    <3>7. t \in [1 .. Cardinality(U) -> U]
      BY <2>1, <3>1, <3>6
    <3>8. ASSUME NEW i \in 1 .. Cardinality(U), NEW j \in 1 .. Cardinality(U), i < j
          PROVE  <<t[i], t[j]>> \in R
      <4>1. i \in 1 .. n /\ t[i] = s[i] /\ s[i] \in U \ {m}
        BY <2>1, <3>1, <3>6, <3>8
      <4>2. CASE j = n + 1
        BY <2>1, <3>1, <3>3, <4>1, <4>2
      <4>3. CASE j # n + 1
        <5>1. j \in 1 .. n /\ t[j] = s[j]
          BY <2>1, <3>1, <4>3
        <5> QED
          BY <3>4, <3>5, <3>8, <4>1, <5>1 DEF Sorts
      <4> QED
        BY <4>2, <4>3
    <3>9. ASSUME NEW y \in U PROVE \E i \in 1 .. Cardinality(U) : t[i] = y
      <4>1. CASE y = m
        <5>1. n + 1 \in 1 .. Cardinality(U) /\ t[n + 1] = y
          BY <2>1, <3>1, <4>1
        <5> QED
          BY <5>1
      <4>2. CASE y # m
        <5>1. PICK i \in 1 .. n : s[i] = y
          BY <3>4, <3>5, <4>2 DEF Sorts
        <5>2. i \in 1 .. Cardinality(U) /\ t[i] = y
          BY <2>1, <3>1, <5>1
        <5> QED
          BY <5>2
      <4> QED
        BY <4>1, <4>2
    <3>10. Sorts(R, t, U)
      <4> HIDE DEF t
      <4> QED
        BY <3>7, <3>8, <3>9 DEF Sorts
    <3> QED
      BY <3>10
  <2> QED
    BY <2>2
<1>3. S \in Good
  <2> HIDE DEF Good
  <2> QED
    BY <1>1, <1>2, SetInduction, Zenon
<1> QED
  BY <1>3

(***************************************************************************)
(* The rows of a group: all of its members, each once, by id.              *)
(***************************************************************************)
LEMMA RowsSort ==
  ASSUME NEW G \in SUBSET Nat, IsFiniteSet(G)
  PROVE  /\ Rows(G) \in [1 .. Cardinality(G) -> G]
         /\ \A x \in G : \E i \in 1 .. Cardinality(G) : Rows(G)[i] = x
<1> DEFINE n == Cardinality(G)
           R == {p \in G \X G : p[1] < p[2]}
           Up(s) == \A i, j \in DOMAIN s : i < j => s[i] < s[j]
<1>1. Ordered(R, G)
  BY DEF Ordered
<1>2. PICK s : Sorts(R, s, G)
  BY <1>1, SortExists
<1>3. n \in Nat
  BY FS_CardinalityType
<1>4. s \in [1 .. n -> G] /\ \A i, j \in 1 .. n : i < j => s[i] < s[j]
  BY <1>2 DEF Sorts
<1>5. \A i, j \in 1 .. n : i # j => s[i] # s[j]
  <2> SUFFICES ASSUME NEW i \in 1 .. n, NEW j \in 1 .. n, i # j PROVE s[i] # s[j]
    OBVIOUS
  <2>1. s[i] \in Nat /\ s[j] \in Nat
    BY <1>4
  <2>2. i < j \/ j < i
    BY <1>3
  <2> QED
    BY <1>4, <2>1, <2>2
<1>6. s \in SetToSeqs(G)
  BY <1>4, <1>5 DEF SetToSeqs
<1>7. Up(s)
  BY <1>4
<1> DEFINE t == Rows(G)
<1>8. t \in SetToSeqs(G) /\ Up(t)
  BY <1>6, <1>7, Zenon DEF Rows
<1>9. t \in [1 .. n -> G] /\ \A i, j \in 1 .. n : i # j => t[i] # t[j]
  BY <1>8 DEF SetToSeqs
<1>10. t \in Injection(1 .. n, G)
  BY <1>9 DEF Injection, IsInjective
<1>11. Cardinality(1 .. n) = n
  BY <1>3, FS_Interval
<1>12. t \in Surjection(1 .. n, G)
  <2> HIDE DEF t
  <2> QED
    BY <1>10, <1>11, FS_Injection
<1>13. ASSUME NEW x \in G PROVE \E i \in 1 .. n : t[i] = x
  <2> HIDE DEF t
  <2> QED
    BY <1>12 DEF Surjection
<1> QED
  BY <1>9, <1>13

\* Counting up to n.
LEMMA CountingUp ==
  ASSUME NEW n \in Nat, NEW Good, 0 \in Good,
         \A k \in 0 .. n - 1 : k \in Good => k + 1 \in Good
  PROVE  n \in Good
<1> DEFINE S == 1 .. n
           Sets == {T \in SUBSET S : Cardinality(T) \in Good}
<1>1. IsFiniteSet(S) /\ Cardinality(S) = n
  BY FS_Interval
<1>2. {} \in Sets
  BY FS_EmptySet
<1>3. ASSUME NEW T \in SUBSET S, NEW x \in S \ T, T \in Sets PROVE T \cup {x} \in Sets
  <2>1. IsFiniteSet(T) /\ Cardinality(T) \in Nat /\ Cardinality(T \cup {x}) = Cardinality(T) + 1
    BY <1>1, FS_Subset, FS_CardinalityType, FS_AddElement
  <2>2. Cardinality(T \cup {x}) <= n
    BY <1>1, FS_Subset
  <2> QED
    BY <1>3, <2>1, <2>2
<1>4. S \in Sets
  <2> HIDE DEF Sets, S
  <2> QED
    BY <1>1, <1>2, <1>3, SetInduction, Zenon
<1> QED
  BY <1>1, <1>4

(***************************************************************************)
(* The order among the members of a group.                                 *)
(***************************************************************************)
KeyLength == IF coll.medium = "photo" THEN 3 ELSE 4

LEMMA KeysOf ==
  ASSUME coll \in Collections
  PROVE  /\ coll.key \in [Pool -> [1 .. KeyLength -> Int]]
         /\ KeyLength \in {3, 4}
         /\ IsFiniteSet(Pool) /\ Pool \subseteq Nat \ {0}
         /\ \A a \in Pool : coll.home[a] \in {"in", "out"}
<1>1. /\ IsFiniteSet(Pool) /\ Pool \subseteq Nat \ {0}
      /\ coll.home \in [Pool -> {"in", "out"}]
  BY CollectionAssumption DEF Pool
<1>2. \/ coll.medium = "photo" /\ PhotoCollection(coll)
      \/ coll.medium = "video" /\ VideoCollection(coll)
  BY CollectionAssumption
<1>3. coll.key \in [Pool -> [1 .. KeyLength -> Int]] /\ KeyLength \in {3, 4}
  BY <1>2 DEF PhotoCollection, VideoCollection, KeyLength, Pool
<1> QED
  BY <1>1, <1>3

LEMMA KeyOrder ==
  ASSUME NEW n \in {3, 4}
  PROVE  /\ \A k, l \in [1 .. n -> Int] : k # l => KeyGreater(k, l) \/ KeyGreater(l, k)
         /\ \A k, l \in [1 .. n -> Int] : KeyGreater(k, l) => ~KeyGreater(l, k)
         /\ \A k, l, m \in [1 .. n -> Int] :
               KeyGreater(k, l) /\ KeyGreater(l, m) => KeyGreater(k, m)
         /\ \A k, l \in [1 .. n -> Int] : KeyGreater(k, l) => k # l
<1>1. ASSUME NEW k \in [1 .. n -> Int], NEW l \in [1 .. n -> Int], k # l
      PROVE  KeyGreater(k, l) \/ KeyGreater(l, k)
  <2>1. PICK i \in 1 .. n : k[i] # l[i] /\ \A j \in 1 .. i - 1 : k[j] = l[j]
    <3>1. \E i \in 1 .. n : k[i] # l[i]
      BY <1>1
    <3>2. CASE k[1] # l[1]
      <4>1. 1 \in 1 .. n /\ \A j \in 1 .. 1 - 1 : k[j] = l[j]
        OBVIOUS
      <4> QED
        BY <3>2, <4>1
    <3>3. CASE k[1] = l[1] /\ k[2] # l[2]
      <4>1. 2 \in 1 .. n /\ \A j \in 1 .. 2 - 1 : k[j] = l[j]
        BY <3>3
      <4> QED
        BY <3>3, <4>1
    <3>4. CASE k[1] = l[1] /\ k[2] = l[2] /\ k[3] # l[3]
      <4>1. 3 \in 1 .. n /\ \A j \in 1 .. 3 - 1 : k[j] = l[j]
        BY <3>4
      <4> QED
        BY <3>4, <4>1
    <3>5. CASE k[1] = l[1] /\ k[2] = l[2] /\ k[3] = l[3]
      <4>1. n = 4 /\ k[4] # l[4]
        BY <3>1, <3>5
      <4>2. 4 \in 1 .. n /\ \A j \in 1 .. 4 - 1 : k[j] = l[j]
        BY <3>5, <4>1
      <4> QED
        BY <4>1, <4>2
    <3> QED
      BY <3>2, <3>3, <3>4, <3>5
  <2>2. k[i] \in Int /\ l[i] \in Int
    OBVIOUS
  <2>3. CASE k[i] > l[i]
    BY <2>1, <2>3 DEF KeyGreater
  <2>4. CASE l[i] > k[i]
    BY <2>1, <2>4 DEF KeyGreater
  <2> QED
    BY <2>1, <2>2, <2>3, <2>4
<1>2. ASSUME NEW k \in [1 .. n -> Int], NEW l \in [1 .. n -> Int], KeyGreater(k, l),
             KeyGreater(l, k)
      PROVE  FALSE
  <2>1. PICK i \in 1 .. n : k[i] > l[i] /\ \A j \in 1 .. i - 1 : k[j] = l[j]
    BY <1>2 DEF KeyGreater
  <2>2. PICK h \in 1 .. n : l[h] > k[h] /\ \A j \in 1 .. h - 1 : l[j] = k[j]
    BY <1>2 DEF KeyGreater
  <2>3. k[i] \in Int /\ l[i] \in Int /\ k[h] \in Int /\ l[h] \in Int
    OBVIOUS
  <2>4. CASE i < h
    BY <2>1, <2>2, <2>3, <2>4
  <2>5. CASE h < i
    BY <2>1, <2>2, <2>3, <2>5
  <2>6. CASE h = i
    BY <2>1, <2>2, <2>3, <2>6
  <2> QED
    BY <2>4, <2>5, <2>6
<1>3. ASSUME NEW k \in [1 .. n -> Int], NEW l \in [1 .. n -> Int], NEW m \in [1 .. n -> Int],
             KeyGreater(k, l), KeyGreater(l, m)
      PROVE  KeyGreater(k, m)
  <2>1. PICK i \in 1 .. n : k[i] > l[i] /\ \A j \in 1 .. i - 1 : k[j] = l[j]
    BY <1>3 DEF KeyGreater
  <2>2. PICK h \in 1 .. n : l[h] > m[h] /\ \A j \in 1 .. h - 1 : l[j] = m[j]
    BY <1>3 DEF KeyGreater
  <2>3. \A j \in 1 .. n : k[j] \in Int /\ l[j] \in Int /\ m[j] \in Int
    OBVIOUS
  <2>4. CASE i <= h
    <3>1. \A j \in 1 .. i - 1 : k[j] = m[j]
      BY <2>1, <2>2, <2>4
    <3>2. l[i] >= m[i]
      BY <2>2, <2>3, <2>4
    <3>3. k[i] > m[i]
      BY <2>1, <2>3, <3>2
    <3> QED
      BY <3>1, <3>3 DEF KeyGreater
  <2>5. CASE h < i
    <3>1. \A j \in 1 .. h - 1 : k[j] = m[j]
      BY <2>1, <2>2, <2>5
    <3>2. k[h] > m[h]
      BY <2>1, <2>2, <2>5
    <3> QED
      BY <3>1, <3>2 DEF KeyGreater
  <2> QED
    BY <2>4, <2>5
<1>4. ASSUME NEW k \in [1 .. n -> Int], NEW l \in [1 .. n -> Int], KeyGreater(k, l), k = l
      PROVE  FALSE
  BY <1>2, <1>4
<1> QED
  BY <1>1, <1>2, <1>3, <1>4

\* One copy is better than another, and never both ways.
LEMMA BetterOrder ==
  ASSUME coll \in Collections
  PROVE  /\ \A a, b \in Pool : a # b => Better(a, b) \/ Better(b, a)
         /\ \A a, b, c \in Pool : Better(a, b) /\ Better(b, c) => Better(a, c)
         /\ \A a, b \in Pool : Better(a, b) => ~Better(b, a)
<1> DEFINE K == [1 .. KeyLength -> Int]
<1>1. /\ \A k, l \in K : k # l => KeyGreater(k, l) \/ KeyGreater(l, k)
      /\ \A k, l \in K : KeyGreater(k, l) => ~KeyGreater(l, k)
      /\ \A k, l, m \in K : KeyGreater(k, l) /\ KeyGreater(l, m) => KeyGreater(k, m)
      /\ \A k, l \in K : KeyGreater(k, l) => k # l
  BY KeysOf, KeyOrder
<1>2. \A a \in Pool : coll.key[a] \in K /\ PrefRank(a) \in {0, 1} /\ a \in Nat
  BY KeysOf DEF PrefRank
<1> HIDE DEF K
<1>3. ASSUME NEW a \in Pool, NEW b \in Pool, a # b PROVE Better(a, b) \/ Better(b, a)
  <2>1. CASE coll.key[a] # coll.key[b]
    BY <1>1, <1>2, <2>1 DEF Better
  <2>2. CASE coll.key[a] = coll.key[b]
    BY <1>2, <1>3, <2>2 DEF Better
  <2> QED
    BY <2>1, <2>2
<1>4. ASSUME NEW a \in Pool, NEW b \in Pool, NEW c \in Pool, Better(a, b), Better(b, c)
      PROVE  Better(a, c)
  <2>1. CASE KeyGreater(coll.key[a], coll.key[b]) \/ KeyGreater(coll.key[b], coll.key[c])
    <3>1. KeyGreater(coll.key[a], coll.key[c])
      BY <1>1, <1>2, <1>4, <2>1 DEF Better
    <3> QED
      BY <3>1 DEF Better
  <2>2. CASE coll.key[a] = coll.key[b] /\ coll.key[b] = coll.key[c]
    BY <1>1, <1>2, <1>4, <2>2 DEF Better
  <2> QED
    BY <1>4, <2>1, <2>2 DEF Better
<1>5. ASSUME NEW a \in Pool, NEW b \in Pool, Better(a, b), Better(b, a) PROVE FALSE
  BY <1>1, <1>2, <1>5 DEF Better
<1> QED
  BY <1>3, <1>4, <1>5

(***************************************************************************)
(* The loop over the rows ends with a member better than all the others.   *)
(***************************************************************************)
LeadStep(line, f, i) == IF i = 1 \/ Better(line[i], f[i - 1]) THEN line[i] ELSE f[i - 1]

LEMMA LeadsDefined ==
  ASSUME NEW n \in Nat, NEW line, DOMAIN line = 1 .. n
  PROVE  Leads(line) = [i \in 1 .. n |-> LeadStep(line, Leads(line), i)]
<1> DEFINE Has(k) == \E f : f = [i \in 1 .. k |-> LeadStep(line, f, i)]
           Good == {k \in 0 .. n : Has(k)}
<1>1. 0 \in Good
  <2>1. Has(0)
    <3> DEFINE f == [i \in 1 .. 0 |-> 0]
    <3>1. f = [i \in 1 .. 0 |-> LeadStep(line, f, i)]
      OBVIOUS
    <3> QED
      BY <3>1
  <2> HIDE DEF Has
  <2> QED
    BY <2>1
<1>2. ASSUME NEW k \in 0 .. n - 1, k \in Good PROVE k + 1 \in Good
  <2>1. PICK f : f = [i \in 1 .. k |-> LeadStep(line, f, i)]
    BY <1>2
  <2> DEFINE g == [i \in 1 .. k + 1 |-> IF i = k + 1 THEN LeadStep(line, f, k + 1) ELSE f[i]]
  <2>2. ASSUME NEW i \in 1 .. k + 1 PROVE g[i] = LeadStep(line, g, i)
    <3>1. i # 1 => g[i - 1] = f[i - 1]
      OBVIOUS
    <3>2. LeadStep(line, g, i) = LeadStep(line, f, i)
      BY <3>1 DEF LeadStep
    <3>3. CASE i = k + 1
      BY <3>2, <3>3
    <3>4. CASE i # k + 1
      <4>1. i \in 1 .. k
        BY <3>4
      <4>2. f[i] = LeadStep(line, f, i)
        BY <2>1, <4>1
      <4> QED
        BY <3>2, <3>4, <4>2
    <3> QED
      BY <3>3, <3>4
  <2>3. g = [i \in 1 .. k + 1 |-> LeadStep(line, g, i)]
    <3>1. DOMAIN g = 1 .. k + 1 /\ g = [i \in 1 .. k + 1 |-> g[i]]
      OBVIOUS
    <3> HIDE DEF g
    <3> QED
      BY <2>2, <3>1
  <2>4. Has(k + 1)
    BY <2>3
  <2>5. k + 1 \in 0 .. n
    OBVIOUS
  <2> HIDE DEF Has
  <2> QED
    BY <2>4, <2>5
<1>3. n \in Good
  <2>1. n \in Nat
    OBVIOUS
  <2> HIDE DEF Good
  <2> QED
    BY <1>1, <1>2, <2>1, CountingUp, Zenon
<1>4. \E f : f = [i \in 1 .. n |-> LeadStep(line, f, i)]
  BY <1>3
<1>5. Leads(line) = CHOOSE f : f = [i \in 1 .. n |-> LeadStep(line, f, i)]
  BY DEF Leads, LeadStep
<1> QED
  BY <1>4, <1>5

LEMMA LeadIsBest ==
  ASSUME coll \in Collections, NEW g, NEW G \in SUBSET Pool, G = Filed(g), G # {},
         stage = Recompress
  PROVE  /\ Suggestion(g) \in G
         /\ \A a \in G \ {Suggestion(g)} : Better(Suggestion(g), a)
<1> DEFINE n == Cardinality(G)
           line == Rows(G)
           lead == Leads(line)
<1>1. IsFiniteSet(G) /\ G \in SUBSET Nat /\ n \in Nat /\ n # 0
  BY KeysOf, FS_Subset, FS_EmptySet, FS_CardinalityType
<1>2. line \in [1 .. n -> G] /\ \A x \in G : \E i \in 1 .. n : line[i] = x
  BY <1>1, RowsSort
<1>3. \A i \in 1 .. n : lead[i] = LeadStep(line, lead, i)
  <2>1. lead = [i \in 1 .. n |-> LeadStep(line, lead, i)]
    <3> HIDE DEF line, n
    <3>1. n \in Nat /\ DOMAIN line = 1 .. n
      BY <1>1, <1>2
    <3> QED
      BY <3>1, LeadsDefined
  <2> HIDE DEF lead
  <2> QED
    BY <2>1
<1> HIDE DEF line, lead, n
<1> DEFINE Ahead(k) == /\ lead[k] \in G
                       /\ \A i \in 1 .. k : line[i] # lead[k] => Better(lead[k], line[i])
           Good == {k \in 0 .. n : k # 0 => Ahead(k)}
<1>4. 0 \in Good
  BY <1>1
<1>5. ASSUME NEW k \in 0 .. n - 1, k \in Good PROVE k + 1 \in Good
  <2>1. k + 1 \in 1 .. n /\ line[k + 1] \in G
    BY <1>1, <1>2
  <2>2. lead[k + 1] = IF k + 1 = 1 \/ Better(line[k + 1], lead[k + 1 - 1]) THEN line[k + 1]
                      ELSE lead[k + 1 - 1]
    BY <1>3, <2>1 DEF LeadStep
  <2>3. CASE k = 0
    <3>1. lead[1] = line[1] /\ k + 1 = 1
      BY <2>2, <2>3
    <3>2. Ahead(k + 1)
      BY <2>1, <3>1
    <3> QED
      BY <2>1, <3>2
  <2>4. CASE k # 0
    <3>1. Ahead(k) /\ k + 1 # 1 /\ k + 1 - 1 = k
      BY <1>5, <2>4
    <3>2. G \subseteq Pool
      OBVIOUS
    <3>3. CASE Better(line[k + 1], lead[k])
      <4>1. lead[k + 1] = line[k + 1]
        BY <2>2, <3>1, <3>3
      <4>2. ASSUME NEW i \in 1 .. k + 1, line[i] # line[k + 1]
            PROVE  Better(line[k + 1], line[i])
        <5>4. i # k + 1 /\ k \in Nat /\ n \in Nat /\ k <= n - 1
          BY <1>1, <4>2
        <5>5. i \in 1 .. k /\ i \in 1 .. n
          BY <4>2, <5>4
        <5>1. i \in 1 .. k /\ line[i] \in G
          BY <1>2, <5>5
        <5>2. CASE line[i] = lead[k]
          BY <3>3, <5>2
        <5>3. CASE line[i] # lead[k]
          <6>1. Better(lead[k], line[i])
            BY <3>1, <5>1, <5>3
          <6> QED
            BY <2>1, <3>1, <3>2, <3>3, <5>1, <6>1, BetterOrder
        <5> QED
          BY <5>2, <5>3
      <4>3. Ahead(k + 1)
        BY <2>1, <4>1, <4>2
      <4> QED
        BY <2>1, <4>3
    <3>4. CASE ~Better(line[k + 1], lead[k])
      <4>1. lead[k + 1] = lead[k]
        BY <2>2, <3>1, <3>4
      <4>2. ASSUME NEW i \in 1 .. k + 1, line[i] # lead[k]
            PROVE  Better(lead[k], line[i])
        <5>1. CASE i = k + 1
          BY <2>1, <3>1, <3>2, <3>4, <4>2, <5>1, BetterOrder
        <5>2. CASE i # k + 1
          <6>1. i \in 1 .. k
            BY <1>1, <5>2
          <6> QED
            BY <3>1, <4>2, <6>1
        <5> QED
          BY <5>1, <5>2
      <4>3. Ahead(k + 1)
        BY <3>1, <4>1, <4>2
      <4> QED
        BY <2>1, <4>3
    <3> QED
      BY <3>3, <3>4
  <2> QED
    BY <2>3, <2>4
<1>6. n \in Good
  <2> HIDE DEF Good
  <2> QED
    BY <1>1, <1>4, <1>5, CountingUp, Zenon
<1>7. Ahead(n)
  BY <1>1, <1>6
<1>8. Suggestion(g) = lead[n]
  BY DEF Suggestion, lead, line, n
<1> QED
  BY <1>2, <1>7, <1>8

(***************************************************************************)
(* Distances                                                               *)
(***************************************************************************)
LEMMA SumFunctionBounds ==
  ASSUME NEW D, IsFiniteSet(D), NEW g \in [D -> 0 .. 256]
  PROVE  SumFunction(g) \in 0 .. 256 * Cardinality(D)
<1> DEFINE chosen(s) == CHOOSE x \in s : TRUE
           Step(f, s) == IF s = {} THEN 0 ELSE g[chosen(s)] + f[s \ {chosen(s)}]
           Sum == CHOOSE f : f = [s \in SUBSET D |-> Step(f, s)]
           Upto(k) == {s \in SUBSET D : Cardinality(s) <= k}
           Has(k) == \E f : f = [s \in Upto(k) |-> Step(f, s)]
           n == Cardinality(D)
<1>1. SumFunction(g) = Sum[D]
  BY DEF SumFunction, SumFunctionOnSet, FoldFunctionOnSet, MapThenFoldSet
<1>2. n \in Nat
  BY FS_CardinalityType
<1>3. ASSUME NEW s \in SUBSET D
      PROVE  /\ IsFiniteSet(s) /\ Cardinality(s) \in Nat /\ Cardinality(s) <= n
             /\ s = {} <=> Cardinality(s) = 0
             /\ s # {} => /\ chosen(s) \in s /\ s \ {chosen(s)} \in SUBSET D
                          /\ Cardinality(s \ {chosen(s)}) = Cardinality(s) - 1
  <2>1. /\ IsFiniteSet(s) /\ Cardinality(s) \in Nat /\ Cardinality(s) <= n
        /\ s = {} <=> Cardinality(s) = 0
    BY FS_Subset, FS_CardinalityType, FS_EmptySet
  <2>2. ASSUME s # {} PROVE chosen(s) \in s
    BY <2>2
  <2> HIDE DEF chosen
  <2>3. ASSUME s # {} PROVE Cardinality(s \ {chosen(s)}) = Cardinality(s) - 1
    BY <2>1, <2>2, <2>3, FS_RemoveElement
  <2> QED
    BY <2>1, <2>2, <2>3
<1> HIDE DEF chosen
<1>4. ASSUME NEW k \in 0 .. n - 1, Has(k) PROVE Has(k + 1)
  <2>1. PICK f : f = [s \in Upto(k) |-> Step(f, s)]
    BY <1>4
  <2> DEFINE h == [s \in Upto(k + 1) |-> IF s \in Upto(k) THEN f[s] ELSE Step(f, s)]
  <2>2. ASSUME NEW s \in Upto(k + 1) PROVE h[s] = Step(h, s)
    <3>1. s # {} => s \ {chosen(s)} \in Upto(k) /\ s \ {chosen(s)} \in Upto(k + 1)
      BY <1>3
    <3>2. s # {} => h[s \ {chosen(s)}] = f[s \ {chosen(s)}]
      BY <3>1
    <3>3. Step(h, s) = Step(f, s)
      BY <3>2
    <3>4. h[s] = IF s \in Upto(k) THEN f[s] ELSE Step(f, s)
      BY <2>2
    <3>5. s \in Upto(k) => f[s] = Step(f, s)
      <4> HIDE DEF Step, Upto
      <4> QED
        BY <2>1
    <3> HIDE DEF h, Step
    <3> QED
      BY <3>3, <3>4, <3>5
  <2>3. h = [s \in Upto(k + 1) |-> Step(h, s)]
    <3>1. h = [s \in Upto(k + 1) |-> h[s]]
      OBVIOUS
    <3> HIDE DEF h, Step
    <3> QED
      BY <2>2, <3>1
  <2> HIDE DEF h
  <2> QED
    BY <2>3
<1>5. Has(0)
  <2> DEFINE f == [s \in Upto(0) |-> 0]
  <2>1. \A s \in Upto(0) : Step(f, s) = 0
    BY <1>3
  <2>2. f = [s \in Upto(0) |-> Step(f, s)]
    <3> HIDE DEF Step, Upto
    <3> QED
      BY <2>1
  <2> HIDE DEF f
  <2> QED
    BY <2>2
<1>6. Has(n)
  <2> DEFINE Good == {k \in 0 .. n : Has(k)}
  <2> HIDE DEF Has, n
  <2>1. 0 \in Good
    BY <1>2, <1>5
  <2>2. \A k \in 0 .. n - 1 : k \in Good => k + 1 \in Good
    BY <1>2, <1>4
  <2>3. n \in Good
    <3> HIDE DEF Good
    <3> QED
      BY <1>2, <2>1, <2>2, CountingUp, Zenon
  <2> QED
    BY <2>3
<1>7. Upto(n) = SUBSET D
  BY <1>3
<1>8. Sum = [s \in SUBSET D |-> Step(Sum, s)]
  <2>1. \E f : f = [s \in SUBSET D |-> Step(f, s)]
    BY <1>6, <1>7
  <2> HIDE DEF Step
  <2> QED
    BY <2>1
<1> DEFINE Bounded(k) == \A s \in SUBSET D : Cardinality(s) = k => Sum[s] \in 0 .. 256 * k
<1>9. \A s \in SUBSET D : Sum[s] = Step(Sum, s)
  <2> HIDE DEF Step, Sum
  <2> QED
    BY <1>8
<1> HIDE DEF Sum
<1>10. Bounded(0)
  <2> SUFFICES ASSUME NEW s \in SUBSET D, Cardinality(s) = 0 PROVE Sum[s] \in 0 .. 256 * 0
    OBVIOUS
  <2>1. s = {} /\ Sum[s] = Step(Sum, s)
    BY <1>3, <1>9
  <2> QED
    BY <2>1
<1>11. ASSUME NEW k \in 0 .. n - 1, Bounded(k) PROVE Bounded(k + 1)
  <2> SUFFICES ASSUME NEW s \in SUBSET D, Cardinality(s) = k + 1
               PROVE  Sum[s] \in 0 .. 256 * (k + 1)
    OBVIOUS
  <2> DEFINE r == s \ {chosen(s)}
  <2>1. /\ s # {} /\ chosen(s) \in s /\ r \in SUBSET D /\ Cardinality(r) = k
    BY <1>3
  <2>2. Sum[r] \in 0 .. 256 * k
    BY <1>11, <2>1
  <2>3. Sum[s] = g[chosen(s)] + Sum[r]
    BY <1>9, <2>1
  <2>4. g[chosen(s)] \in 0 .. 256
    BY <2>1
  <2> HIDE DEF r
  <2> QED
    BY <2>2, <2>3, <2>4
<1>12. Bounded(n)
  <2> DEFINE Good == {k \in 0 .. n : Bounded(k)}
  <2> HIDE DEF Bounded, n
  <2>1. 0 \in Good
    BY <1>2, <1>10
  <2>2. \A k \in 0 .. n - 1 : k \in Good => k + 1 \in Good
    BY <1>2, <1>11
  <2>3. n \in Good
    <3> HIDE DEF Good
    <3> QED
      BY <1>2, <2>1, <2>2, CountingUp, Zenon
  <2> QED
    BY <2>3
<1> QED
  BY <1>1, <1>12

LEMMA Rounded ==
  ASSUME NEW n \in Nat, n # 0, NEW s \in 0 .. 256 * n
  PROVE  /\ s \div n \in 0 .. 256
         /\ s % n > 0 => s \div n + 1 \in 0 .. 256
<1> DEFINE q == s \div n
           r == s % n
<1>1. q \in Int /\ r \in 0 .. n - 1 /\ s = n * q + r
  OBVIOUS
<1> HIDE DEF q, r
<1>2. ASSUME q >= 257 PROVE FALSE
  <2>1. n * q >= n * 257
    BY <1>1, <1>2
  <2> QED
    BY <1>1, <2>1
<1>3. ASSUME q < 0 PROVE FALSE
  <2>1. n * (q + 1) <= 0
    BY <1>1, <1>3
  <2>2. n * (q + 1) = n * q + n
    BY <1>1
  <2> QED
    BY <1>1, <2>1, <2>2
<1>4. ASSUME q = 256, r > 0 PROVE FALSE
  <2>1. n * q = 256 * n
    BY <1>1, <1>4
  <2> QED
    BY <1>1, <1>4, <2>1
<1>5. q \in 0 .. 256 /\ (r > 0 => q + 1 \in 0 .. 256)
  BY <1>1, <1>2, <1>3, <1>4
<1> QED
  BY <1>5 DEF q, r

LEMMA GapFacts ==
  \A x, y \in 0 .. 256 : Gap(x, y) \in 0 .. 256 /\ Gap(x, y) = Gap(y, x)
BY DEF Gap

LEMMA ComparableFacts ==
  ASSUME coll \in Collections, coll.medium = "video", NEW a \in Pool, NEW b \in Pool
  PROVE  /\ Comparable(a, b) = Comparable(b, a)
         /\ IsFiniteSet(Comparable(a, b))
         /\ \A f \in Comparable(a, b) : FrameGap(a, b, f) \in 0 .. 256
                                        /\ FrameGap(a, b, f) = FrameGap(b, a, f)
<1>1. VideoCollection(coll)
  BY CollectionAssumption
<1>2. \A c \in Pool : /\ IsFiniteSet(DOMAIN coll.frames[c])
                        /\ \A f \in DOMAIN coll.frames[c] : coll.frames[c][f].hash \in 0 .. 256
  BY <1>1 DEF VideoCollection, Pool
<1>3. Comparable(a, b) = Comparable(b, a)
  BY DEF Comparable
<1>4. Comparable(a, b) \in SUBSET DOMAIN coll.frames[a]
  BY DEF Comparable
<1>5. Comparable(a, b) \in SUBSET DOMAIN coll.frames[b]
  BY DEF Comparable
<1>6. IsFiniteSet(Comparable(a, b))
  BY <1>2, <1>4, FS_Subset
<1>7. ASSUME NEW f \in Comparable(a, b)
      PROVE  FrameGap(a, b, f) \in 0 .. 256 /\ FrameGap(a, b, f) = FrameGap(b, a, f)
  <2>1. coll.frames[a][f].hash \in 0 .. 256 /\ coll.frames[b][f].hash \in 0 .. 256
    BY <1>2, <1>4, <1>5
  <2> QED
    BY <2>1, GapFacts DEF FrameGap
<1> QED
  BY <1>3, <1>6, <1>7

\* Neither end of a pair is special.
LEMMA PairFacts ==
  ASSUME coll \in Collections, NEW a \in Pool, NEW b \in Pool
  PROVE  /\ Matches(a, b) <=> Matches(b, a)
         /\ Distance(a, b) = Distance(b, a)
         /\ Matches(a, b) => Distance(a, b) \in 0 .. 256
<1>1. CASE coll.medium = "photo"
  <2>1. PhotoCollection(coll)
    BY <1>1, CollectionAssumption
  <2>2. coll.hash[a] \in 0 .. 256 /\ coll.hash[b] \in 0 .. 256
    BY <2>1 DEF PhotoCollection, Pool
  <2>3. /\ Gap(coll.hash[a], coll.hash[b]) \in 0 .. 256
        /\ Gap(coll.hash[a], coll.hash[b]) = Gap(coll.hash[b], coll.hash[a])
    BY <2>2, GapFacts
  <2> QED
    BY <1>1, <2>3 DEF Matches, PhotoMatches, Distance
<1>2. CASE coll.medium # "photo"
  <2>1. coll.medium = "video" /\ VideoCollection(coll)
    BY <1>2, CollectionAssumption
  <2> DEFINE C == Comparable(a, b)
             g == [f \in C |-> FrameGap(a, b, f)]
  <2>2. /\ C = Comparable(b, a) /\ IsFiniteSet(C)
        /\ \A f \in C : FrameGap(a, b, f) \in 0 .. 256 /\ FrameGap(a, b, f) = FrameGap(b, a, f)
    BY <2>1, ComparableFacts
  <2>3. g = [f \in Comparable(b, a) |-> FrameGap(b, a, f)]
    BY <2>2
  <2>4. VideoDistance(a, b) = Mean(g) /\ VideoDistance(b, a) = Mean(g)
    BY <2>3 DEF VideoDistance
  <2>5. DurationsClose(a, b) <=> DurationsClose(b, a)
    <3>1. coll.duration[a] \in Nat /\ coll.duration[b] \in Nat
      BY <2>1 DEF VideoCollection, Pool
    <3> QED
      BY <3>1 DEF DurationsClose, Gap
  <2>6. {f \in Comparable(a, b) : FrameGap(a, b, f) <= Video.match}
           = {f \in Comparable(b, a) : FrameGap(b, a, f) <= Video.match}
    BY <2>2
  <2>7. VideoMatches(a, b) <=> VideoMatches(b, a)
    BY <2>2, <2>5, <2>6 DEF VideoMatches
  <2>8. ASSUME VideoMatches(a, b) PROVE Mean(g) \in 0 .. 256
    <3>1. Cardinality(C) \in Nat /\ Cardinality(C) # 0
      BY <2>2, <2>8, FS_CardinalityType, VideoAssumption DEF VideoMatches
    <3>2. g \in [C -> 0 .. 256] /\ DOMAIN g = C
      BY <2>2
    <3> HIDE DEF g, C
    <3>3. SumFunction(g) \in 0 .. 256 * Cardinality(C)
      BY <2>2, <3>2, SumFunctionBounds
    <3> DEFINE n == Cardinality(C)
               s == SumFunction(g)
    <3>4. Mean(g) = IF 2 * (s % n) > n \/ (2 * (s % n) = n /\ (s \div n) % 2 = 1)
                    THEN s \div n + 1 ELSE s \div n
      BY <3>2 DEF Mean
    <3> HIDE DEF n, s
    <3>5. n \in Nat /\ n # 0 /\ s \in 0 .. 256 * n
      BY <3>1, <3>3 DEF n, s
    <3>6. s \div n \in 0 .. 256 /\ (s % n > 0 => s \div n + 1 \in 0 .. 256)
      BY <3>5, Rounded
    <3>7. s % n \in Nat
      BY <3>5
    <3> QED
      BY <3>4, <3>5, <3>6, <3>7
  <2> HIDE DEF g
  <2> QED
    BY <1>2, <2>4, <2>7, <2>8 DEF Matches, Distance
<1> QED
  BY <1>1, <1>2

(***************************************************************************)
(* The inductive invariant.                                                *)
(***************************************************************************)
NearTyped ==
    /\ coll \in Collections
    /\ loaded \subseteq Pool
    /\ present \subseteq loaded
    /\ config \in Configs /\ opened \in Configs /\ cfg \in Configs
    /\ stage \in {Recompress, Edit}
    /\ phase \in {"match", "cluster", "staged", "over"}
    /\ unmatched \subseteq LoadedTargets
    /\ search = [start |-> search.start, stack |-> search.stack,
                 comp |-> search.comp, seen |-> search.seen]

NearFlow ==
    /\ phase # "match" => unmatched = {}
    /\ phase = "match" => groups = {}
    /\ phase # "cluster" => search = Nowhere
    /\ phase = "over" => stage = Edit

\* The pairs found are those of the targets compared so far, at their distance.
PairsRight ==
    /\ \A p \in DOMAIN edges : \E a \in loaded, b \in loaded : a # b /\ p = {a, b}
    /\ \A a \in loaded, b \in loaded : a # b =>
          ({a, b} \in DOMAIN edges
              <=> Matches(a, b) /\ (a \in LoadedTargets \ unmatched \/ b \in LoadedTargets \ unmatched))
    /\ \A a \in loaded, b \in loaded : a # b /\ {a, b} \in DOMAIN edges =>
          edges[{a, b}] = Distance(a, b)

Closed(S) == \A x \in S : Neighbours(x) \subseteq S

Component(g) ==
    /\ g # {} /\ g \subseteq Paired
    /\ Closed(g)
    /\ \A S \in SUBSET g : S # {} /\ Closed(S) => S = g

Placed  == UNION groups
Stacked == ToSet(search.stack)
Reached == search.comp \cup Stacked

\* What the search has reached from where it started, and what it has left behind.
Searched ==
    /\ search.stack \in Seq(Paired)
    /\ search.comp \subseteq Paired
    /\ search.seen = Placed \cup Reached
    /\ Reached \cap Placed = {}
    /\ \A x \in search.comp : Neighbours(x) \subseteq Reached
    /\ Reached # {} =>
          /\ search.start \in Reached
          /\ \A S \in SUBSET Paired : search.start \in S /\ Closed(S) => Reached \subseteq S

Grouped ==
    /\ \A g \in groups : Component(g)
    /\ phase = "staged" => Placed = Paired /\ listed \subseteq Placed \ coll.bare

\* The files that are never dropped from a stage while they are there.
Sound == Pool \ (coll.bare \cup coll.unlinkable)

\* The stage that shows a pair at distance d, and whether it has been staged.
StageOf(d) == IF coll.medium = "video" \/ d <= opened.recompress THEN Recompress ELSE Edit
Staged(s)  == \/ s = Recompress /\ stage = Edit
              \/ s = stage /\ phase \in {"staged", "over"}

ShownOnce ==
    \A e \in shown : \E a \in Pool, b \in Pool :
        a # b /\ e = <<{a, b}, StageOf(Distance(a, b))>>

ShownAll ==
    \A a \in InRoot \cap Sound : \A b \in (present \cap Sound) \ {a} :
        Matches(a, b) /\ Staged(StageOf(Distance(a, b)))
            => <<{a, b}, StageOf(Distance(a, b))>> \in shown

Shown == config = opened => cfg = opened /\ ShownOnce /\ ShownAll

NearInv ==
    /\ NearTyped
    /\ NearFlow
    /\ phase # "over" => PairsRight
    /\ phase = "cluster" => Searched
    /\ phase \in {"cluster", "staged"} => Grouped
    /\ Shown

(***************************************************************************)
(* The graph of the pairs.                                                 *)
(***************************************************************************)
LEMMA Neighbourhood ==
  ASSUME NearTyped, PairsRight
  PROVE  /\ Paired \subseteq loaded
         /\ \A x \in Paired : Neighbours(x) # {} /\ Neighbours(x) \subseteq Paired
         /\ \A x \in Paired, y \in Paired : y \in Neighbours(x) <=> x \in Neighbours(y)
         /\ \A a \in loaded, b \in loaded : a # b =>
               ({a, b} \in Banded <=> {a, b} \in DOMAIN edges /\ InBand(Distance(a, b)))
         /\ \A a \in loaded, b \in loaded :
               b \in Neighbours(a) <=> a # b /\ {a, b} \in Banded
<1>1. \A p \in Banded : \E a \in loaded, b \in loaded : a # b /\ p = {a, b}
  BY DEF PairsRight, Banded
<1>2. Paired \subseteq loaded
  BY <1>1 DEF Paired
<1>3. ASSUME NEW x \in Paired PROVE Neighbours(x) # {} /\ Neighbours(x) \subseteq Paired
  <2>1. PICK p \in Banded : x \in p
    BY <1>3 DEF Paired
  <2>2. PICK y \in loaded : y # x /\ p = {x, y}
    BY <1>1, <2>1
  <2>3. y \in Neighbours(x)
    BY <2>1, <2>2 DEF Neighbours, Paired
  <2> QED
    BY <2>3 DEF Neighbours
<1>4. \A x \in Paired, y \in Paired : y \in Neighbours(x) <=> x \in Neighbours(y)
  <2>1. \A x, y : {x, y} = {y, x}
    OBVIOUS
  <2> QED
    BY <2>1 DEF Neighbours
<1>5. ASSUME NEW a \in loaded, NEW b \in loaded, a # b
      PROVE  {a, b} \in Banded <=> {a, b} \in DOMAIN edges /\ InBand(Distance(a, b))
  BY <1>5 DEF Banded, PairsRight
<1>6. ASSUME NEW a \in loaded, NEW b \in loaded
      PROVE  b \in Neighbours(a) <=> a # b /\ {a, b} \in Banded
  BY DEF Neighbours, Paired
<1> QED
  BY <1>2, <1>3, <1>4, <1>5, <1>6

\* A set that meets a component without leaving itself holds all of it.
LEMMA ComponentsApart ==
  ASSUME NEW g, NEW h, Component(g), Component(h), g \cap h # {}
  PROVE  g = h
<1> DEFINE S == g \cap h
<1>1. Closed(S)
  BY DEF Component, Closed
<1>2. S = g /\ S = h
  BY <1>1 DEF Component
<1> QED
  BY <1>2

\* What the search knows when its stack is empty makes a component.
LEMMA ReachedIsComponent ==
  ASSUME NearTyped, PairsRight, Searched, Stacked = {}, search.comp # {}
  PROVE  Component(search.comp)
<1> DEFINE C == search.comp
<1>1. C \subseteq Paired /\ Reached = C /\ search.start \in C
  BY DEF Searched, Reached
<1>2. Closed(C)
  BY <1>1 DEF Searched, Closed
<1>3. ASSUME NEW S \in SUBSET C, S # {}, Closed(S) PROVE S = C
  <2>1. \A T \in SUBSET Paired : search.start \in T /\ Closed(T) => C \subseteq T
    BY <1>1 DEF Searched
  <2>2. CASE search.start \in S
    BY <1>1, <1>3, <2>1, <2>2
  <2>3. CASE search.start \notin S
    <3> DEFINE T == C \ S
    <3>1. ASSUME NEW x \in T, NEW y \in Neighbours(x) PROVE y \in T
      <4>1. y \in C /\ x \in Paired /\ y \in Paired
        BY <1>1, <1>2, <3>1 DEF Closed
      <4>2. x \in Neighbours(y)
        BY <3>1, <4>1, Neighbourhood
      <4> QED
        BY <1>3, <3>1, <4>1, <4>2 DEF Closed
    <3>2. Closed(T)
      BY <3>1 DEF Closed
    <3>3. C \subseteq T
      BY <1>1, <2>1, <2>3, <3>2
    <3> QED
      BY <1>3, <3>3
  <2> QED
    BY <2>2, <2>3
<1> QED
  BY <1>1, <1>2, <1>3 DEF Component

\* The graph depends on these variables only.
LEMMA SameGraph ==
  ASSUME coll' = coll, edges' = edges, stage' = stage, cfg' = cfg
  PROVE  /\ Banded' = Banded /\ Paired' = Paired
         /\ \A a : Neighbours(a)' = Neighbours(a)
         /\ \A S : Closed(S)' <=> Closed(S)
         /\ \A g : Component(g)' <=> Component(g)
<1>1. \A d : InBand(d)' <=> InBand(d)
  BY DEF InBand
<1>2. Banded' = Banded
  BY <1>1 DEF Banded
<1>3. Paired' = Paired
  BY <1>2 DEF Paired
<1>4. \A a : Neighbours(a)' = Neighbours(a)
  BY <1>2, <1>3 DEF Neighbours
<1>5. \A S : Closed(S)' <=> Closed(S)
  BY <1>4 DEF Closed
<1>6. \A g : Component(g)' <=> Component(g)
  BY <1>3, <1>5 DEF Component
<1> QED
  BY <1>2, <1>3, <1>4, <1>5, <1>6

LEMMA SameDistances ==
  ASSUME coll' = coll, cfg' = cfg
  PROVE  /\ Pool' = Pool
         /\ \A a, b : Matches(a, b)' <=> Matches(a, b)
         /\ \A a, b : Distance(a, b)' = Distance(a, b)
<1>1. \A a, b : Comparable(a, b)' = Comparable(a, b)
  BY DEF Comparable
<1>2. \A a, b, f : FrameGap(a, b, f)' = FrameGap(a, b, f)
  BY DEF FrameGap
<1>3. \A a, b : VideoDistance(a, b)' = VideoDistance(a, b)
  <2> SUFFICES ASSUME NEW a, NEW b PROVE VideoDistance(a, b)' = VideoDistance(a, b)
    OBVIOUS
  <2>1. [f \in Comparable(a, b) |-> FrameGap(a, b, f)]'
           = [f \in Comparable(a, b) |-> FrameGap(a, b, f)]
    BY <1>1, <1>2
  <2> QED
    BY <2>1 DEF VideoDistance
<1>4. \A a, b : VideoMatches(a, b)' <=> VideoMatches(a, b)
  BY <1>1, <1>2 DEF VideoMatches, DurationsClose
<1> QED
  BY <1>3, <1>4 DEF Pool, Matches, Distance, PhotoMatches

(***************************************************************************)
(* The stack of the search.                                                *)
(***************************************************************************)
LEMMA SetAsSequence ==
  ASSUME NEW S, IsFiniteSet(S)
  PROVE  /\ SetToSeq(S) \in Seq(S)
         /\ ToSet(SetToSeq(S)) = S
<1> DEFINE n == Cardinality(S)
           s == SetToSeq(S)
<1>1. n \in Nat /\ ExistsBijection(1 .. n, S)
  BY FS_CardinalityType
<1>2. PICK f \in Bijection(1 .. n, S) : TRUE
  BY <1>1 DEF ExistsBijection
<1>3. f \in [1 .. n -> S] /\ IsInjective(f)
  BY <1>2 DEF Bijection, Injection
<1>4. s \in [1 .. n -> S] /\ IsInjective(s)
  BY <1>3, Zenon DEF SetToSeq
<1> HIDE DEF s
<1>5. s \in Injection(1 .. n, S)
  BY <1>4 DEF Injection
<1>6. s \in Surjection(1 .. n, S)
  BY <1>1, <1>5, FS_Injection, FS_Interval
<1>7. {s[i] : i \in DOMAIN s} = S
  BY <1>4, <1>6 DEF Surjection
<1>8. s \in Seq(S)
  BY <1>1, <1>4
<1> QED
  BY <1>7, <1>8 DEF s, ToSet

LEMMA PopAndPush ==
  ASSUME NEW P, NEW s \in Seq(P), s # <<>>, NEW t \in Seq(P)
  PROVE  /\ Last(s) \in P /\ Last(s) \in ToSet(s)
         /\ Front(s) \o t \in Seq(P)
         /\ ToSet(Front(s) \o t) \cup {Last(s)} = ToSet(s) \cup ToSet(t)
<1> DEFINE n == Len(s)
           m == Len(t)
           r == Front(s)
           q == r \o t
<1>1. n \in Nat /\ n # 0 /\ DOMAIN s = 1 .. n /\ \A i \in 1 .. n : s[i] \in P
  OBVIOUS
<1>2. r \in Seq(P) /\ Len(r) = n - 1 /\ \A i \in 1 .. n - 1 : r[i] = s[i]
  BY <1>1 DEF Front
<1>3. m \in Nat /\ DOMAIN t = 1 .. m
  OBVIOUS
<1>5. Last(s) = s[n]
  BY DEF Last
<1> HIDE DEF r
<1>4. /\ q \in Seq(P) /\ Len(q) = n - 1 + m
      /\ \A i \in 1 .. n - 1 + m : q[i] = IF i <= n - 1 THEN s[i] ELSE t[i - (n - 1)]
  <2> HIDE DEF n, m
  <2>1. q \in Seq(P) /\ Len(q) = Len(r) + Len(t)
    BY <1>2
  <2>2. \A i \in 1 .. Len(r) + Len(t) : q[i] = IF i <= Len(r) THEN r[i] ELSE t[i - Len(r)]
    BY <1>2
  <2>3. Len(t) = m
    BY DEF m
  <2>4. \A i \in 1 .. n - 1 + m : q[i] = IF i <= n - 1 THEN r[i] ELSE t[i - (n - 1)]
    BY <1>2, <2>2, <2>3
  <2> HIDE DEF q
  <2> QED
    BY <1>1, <1>2, <1>3, <2>1, <2>3, <2>4
<1> HIDE DEF q, n, m
<1>6. DOMAIN q = 1 .. n - 1 + m
  BY <1>4
<1>7. ASSUME NEW x \in {q[i] : i \in DOMAIN q}
      PROVE  x \in {s[i] : i \in DOMAIN s} \cup {t[i] : i \in DOMAIN t}
  <2>1. PICK i \in 1 .. n - 1 + m : x = q[i]
    BY <1>6, <1>7
  <2>2. CASE i <= n - 1
    <3>1. i \in DOMAIN s /\ x = s[i]
      BY <1>1, <1>3, <1>4, <2>1, <2>2
    <3> QED
      BY <3>1
  <2>3. CASE i > n - 1
    <3>1. i - (n - 1) \in DOMAIN t /\ x = t[i - (n - 1)]
      BY <1>1, <1>3, <1>4, <2>1, <2>3
    <3> QED
      BY <3>1
  <2> QED
    BY <1>1, <2>2, <2>3
<1>8. ASSUME NEW i \in 1 .. n, i # n PROVE s[i] \in {q[j] : j \in DOMAIN q}
  <2>1. i \in 1 .. n - 1 + m /\ i <= n - 1
    BY <1>1, <1>3, <1>8
  <2>2. i \in DOMAIN q /\ q[i] = s[i]
    BY <1>4, <1>6, <2>1
  <2> QED
    BY <2>2
<1>9. ASSUME NEW i \in 1 .. m PROVE t[i] \in {q[j] : j \in DOMAIN q}
  <2> DEFINE k == i + (n - 1)
  <2>1. k \in 1 .. n - 1 + m /\ ~(k <= n - 1) /\ k - (n - 1) = i
    BY <1>1, <1>3, <1>9
  <2> HIDE DEF k
  <2>2. k \in DOMAIN q /\ q[k] = t[i]
    BY <1>4, <1>6, <2>1
  <2> QED
    BY <2>2
<1>10. {q[i] : i \in DOMAIN q} \cup {s[n]} = {s[i] : i \in DOMAIN s} \cup {t[i] : i \in DOMAIN t}
  <2> DEFINE Q == {q[i] : i \in DOMAIN q}
  <2>1. \A i \in DOMAIN s : s[i] \in Q \cup {s[n]}
    BY <1>1, <1>8
  <2>2. s[n] \in {s[i] : i \in DOMAIN s}
    BY <1>1
  <2>3. \A i \in DOMAIN t : t[i] \in Q
    BY <1>3, <1>9
  <2>4. Q \subseteq {s[i] : i \in DOMAIN s} \cup {t[i] : i \in DOMAIN t}
    BY <1>7
  <2> HIDE DEF Q
  <2>5. Q \cup {s[n]} = {s[i] : i \in DOMAIN s} \cup {t[i] : i \in DOMAIN t}
    BY <2>1, <2>2, <2>3, <2>4
  <2> QED
    BY <2>5 DEF Q
<1>11. s[n] \in P /\ s[n] \in {s[i] : i \in DOMAIN s}
  BY <1>1
<1>12. q = Front(s) \o t
  BY DEF q, r
<1>13. ToSet(q) \cup {Last(s)} = ToSet(s) \cup ToSet(t) /\ Last(s) \in ToSet(s)
  BY <1>5, <1>10, <1>11 DEF ToSet
<1> QED
  BY <1>4, <1>5, <1>11, <1>12, <1>13

(***************************************************************************)
(* The initial states, and what the steps leave alone.                     *)
(***************************************************************************)
LEMMA NearInitHolds == NearInit => NearInv
<1> SUFFICES ASSUME NearInit PROVE NearInv
  OBVIOUS
<1>1. NearTyped
  BY DEF NearInit, NearTyped, InRoot, LoadedTargets, Recompress, Edit, Nowhere
<1>2. NearFlow
  BY DEF NearInit, NearFlow
<1>3. PairsRight
  <2>1. DOMAIN edges = {} /\ LoadedTargets \ unmatched = {}
    BY DEF NearInit, InRoot, LoadedTargets
  <2> QED
    BY <2>1 DEF PairsRight
<1>4. Shown
  BY DEF NearInit, Shown, ShownOnce, ShownAll, Staged, Recompress, Edit
<1> QED
  BY <1>1, <1>2, <1>3, <1>4 DEF NearInit, NearInv

LEMMA PairsStay ==
  ASSUME PairsRight,
         UNCHANGED <<coll, loaded, cfg, unmatched, edges>>
  PROVE  PairsRight'
<1>1. /\ \A a, b : Matches(a, b)' <=> Matches(a, b)
      /\ \A a, b : Distance(a, b)' = Distance(a, b)
  BY SameDistances
<1>2. LoadedTargets' = LoadedTargets
  BY DEF LoadedTargets
<1> QED
  BY <1>1, <1>2 DEF PairsRight

LEMMA ShownStays ==
  ASSUME Shown,
         UNCHANGED <<coll, present, config, opened, cfg, shown>>,
         \A s : Staged(s)' => Staged(s)
  PROVE  Shown'
<1>1. /\ Pool' = Pool
      /\ \A a, b : Matches(a, b)' <=> Matches(a, b)
      /\ \A a, b : Distance(a, b)' = Distance(a, b)
  BY SameDistances
<1>2. InRoot' = InRoot /\ Sound' = Sound
  BY DEF InRoot, Sound, Pool
<1>3. \A d : StageOf(d)' = StageOf(d)
  BY DEF StageOf
<1>4. \A a, b : StageOf(Distance(a, b))' = StageOf(Distance(a, b))
  BY <1>1, <1>3
<1>5. ShownOnce => ShownOnce'
  BY <1>1, <1>4 DEF ShownOnce
<1>6. \A a, b : Staged(StageOf(Distance(a, b)))' => Staged(StageOf(Distance(a, b)))
  BY <1>1, <1>3
<1>7. ShownAll => ShownAll'
  BY <1>1, <1>2, <1>4, <1>6 DEF ShownAll
<1> QED
  BY <1>5, <1>7 DEF Shown

(***************************************************************************)
(* The matcher.                                                            *)
(***************************************************************************)
LEMMA MatchEdges ==
  ASSUME NearTyped, PairsRight, NEW t, Match(t)
  PROVE  PairsRight'
<1> DEFINE H    == {o \in loaded \ {t} : Matches(t, o)}
           hits == {{t, o} : o \in H}
           far(p) == LET o == CHOOSE o \in p : o # t IN Distance(t, o)
           D(p) == IF p \notin hits THEN edges[p]
                   ELSE IF p \notin DOMAIN edges THEN far(p)
                   ELSE Min({edges[p], far(p)})
<1>1. edges' = [p \in DOMAIN edges \cup hits |-> D(p)]
  BY DEF Match
<1>2. /\ coll' = coll /\ loaded' = loaded /\ cfg' = cfg
      /\ t \in LoadedTargets /\ LoadedTargets' = LoadedTargets /\ unmatched' = unmatched \ {t}
  BY DEF Match, LoadedTargets, NearTyped
<1>3. t \in loaded /\ loaded \subseteq Pool /\ coll \in Collections
  BY <1>2 DEF LoadedTargets, NearTyped
<1>4. ASSUME NEW o \in H PROVE far({t, o}) = Distance(t, o) /\ Distance(t, o) \in 0 .. 256
  <2>1. (CHOOSE q \in {t, o} : q # t) = o
    OBVIOUS
  <2>2. Distance(t, o) \in 0 .. 256
    BY <1>3, PairFacts
  <2> QED
    BY <2>1, <2>2
<1> HIDE DEF far
<1>5. ASSUME NEW a \in loaded, NEW b \in loaded, a # b
      PROVE  {a, b} \in hits <=> Matches(a, b) /\ (a = t \/ b = t)
  <2>1. {a, b} \in hits <=> \/ a = t /\ b \in H
                            \/ b = t /\ a \in H
    BY <1>5
  <2>2. Matches(a, b) <=> Matches(b, a)
    BY <1>3, PairFacts
  <2> QED
    BY <1>5, <2>1, <2>2
<1>6. /\ \A a, b : Matches(a, b)' <=> Matches(a, b)
      /\ \A a, b : Distance(a, b)' = Distance(a, b)
  BY <1>2, SameDistances
<1>7. \A p \in DOMAIN edges : \E a \in loaded, b \in loaded : a # b /\ p = {a, b}
  BY DEF PairsRight
<1>8. \A p \in hits : \E a \in loaded, b \in loaded : a # b /\ p = {a, b}
  BY <1>3
<1>9. ASSUME NEW a \in loaded, NEW b \in loaded, a # b
      PROVE  {a, b} \in DOMAIN edges \cup hits
               <=> Matches(a, b) /\ (a \in LoadedTargets \ (unmatched \ {t}) \/ b \in LoadedTargets \ (unmatched \ {t}))
  <2>1. {a, b} \in DOMAIN edges
               <=> Matches(a, b) /\ (a \in LoadedTargets \ unmatched \/ b \in LoadedTargets \ unmatched)
    BY <1>9 DEF PairsRight
  <2> QED
    BY <1>2, <1>5, <1>9, <2>1
<1>10. ASSUME NEW a \in loaded, NEW b \in loaded, a # b, {a, b} \in DOMAIN edges \cup hits
       PROVE  D({a, b}) = Distance(a, b)
  <2>1. {a, b} \in DOMAIN edges => edges[{a, b}] = Distance(a, b)
    BY <1>10 DEF PairsRight
  <2>2. ASSUME {a, b} \in hits
        PROVE  far({a, b}) = Distance(a, b) /\ Distance(a, b) \in 0 .. 256
    <3>1. Distance(a, b) = Distance(b, a)
      BY <1>3, PairFacts
    <3>2. CASE a = t
      <4>1. b \in H
        BY <1>5, <1>10, <2>2, <3>2
      <4> QED
        BY <1>4, <3>2, <4>1
    <3>3. CASE b = t
      <4>1. a \in H
        BY <1>3, <1>5, <1>10, <2>2, <3>3, PairFacts
      <4>2. {a, b} = {t, a}
        BY <3>3
      <4> QED
        BY <1>4, <3>1, <3>3, <4>1, <4>2
    <3> QED
      BY <1>5, <1>10, <2>2, <3>2, <3>3
  <2>3. \A d \in 0 .. 256 : Min({d, d}) = d
    BY DEF Min
  <2>4. CASE {a, b} \notin hits
    BY <1>10, <2>1, <2>4
  <2>5. CASE {a, b} \in hits /\ {a, b} \notin DOMAIN edges
    BY <2>2, <2>5
  <2>6. CASE {a, b} \in hits /\ {a, b} \in DOMAIN edges
    BY <2>1, <2>2, <2>3, <2>6
  <2> QED
    BY <2>4, <2>5, <2>6
<1> HIDE DEF D, hits
<1>11. DOMAIN edges' = DOMAIN edges \cup hits /\ \A p \in DOMAIN edges' : edges'[p] = D(p)
  BY <1>1
<1> QED
  BY <1>2, <1>6, <1>7, <1>8, <1>9, <1>10, <1>11 DEF PairsRight

LEMMA MatchKeeps ==
  ASSUME NearInv, NEW t, Match(t)
  PROVE  NearInv'
<1>1. phase = "match" /\ PairsRight /\ NearTyped /\ NearFlow /\ Shown
  BY DEF NearInv, Match
<1>2. PairsRight'
  BY <1>1, MatchEdges
<1>3. LoadedTargets' = LoadedTargets /\ Pool' = Pool
  BY DEF Match, LoadedTargets, Pool
<1>4. NearTyped' /\ NearFlow'
  BY <1>1, <1>3 DEF Match, NearTyped, NearFlow
<1>5. Shown'
  <2>1. \A s : Staged(s)' => Staged(s)
    BY DEF Match, Staged
  <2> QED
    BY <1>1, <2>1, ShownStays DEF Match
<1> QED
  BY <1>1, <1>2, <1>4, <1>5 DEF NearInv, Match

LEMMA MatchedKeeps ==
  ASSUME NearInv, Matched
  PROVE  NearInv'
<1>1. phase = "match" /\ PairsRight /\ NearTyped /\ NearFlow /\ Shown
  BY DEF NearInv, Matched
<1>2. PairsRight'
  BY <1>1, PairsStay DEF Matched
<1>3. LoadedTargets' = LoadedTargets /\ Pool' = Pool
  BY DEF Matched, LoadedTargets, Pool
<1>4. NearTyped' /\ NearFlow'
  BY <1>1, <1>3 DEF Matched, NearTyped, NearFlow
<1>5. groups' = {} /\ search' = Nowhere
  BY <1>1 DEF Matched, NearFlow
<1>6. Searched'
  BY <1>5 DEF Searched, Reached, Stacked, ToSet, Placed, Nowhere
<1>7. Grouped'
  BY <1>5 DEF Grouped, Matched
<1>8. Shown'
  <2>1. CASE Banded # {}
    <3>1. \A s : Staged(s)' => Staged(s)
      BY <2>1 DEF Matched, Staged
    <3> QED
      BY <1>1, <3>1, ShownStays DEF Matched
  <2>2. CASE Banded = {}
    <3>1. /\ Pool' = Pool
          /\ \A a, b : Matches(a, b)' <=> Matches(a, b)
          /\ \A a, b : Distance(a, b)' = Distance(a, b)
      BY SameDistances DEF Matched
    <3>2. \A d : StageOf(d)' = StageOf(d)
      BY DEF StageOf, Matched
    <3>3. \A a, b : StageOf(Distance(a, b))' = StageOf(Distance(a, b))
      BY <3>1, <3>2
    <3>4. ShownOnce => ShownOnce'
      BY <3>1, <3>3 DEF ShownOnce, Matched
    <3>5. ASSUME cfg = opened, NEW a \in LoadedTargets, NEW b \in loaded \ {a}, Matches(a, b),
                 Staged(StageOf(Distance(a, b)))'
          PROVE  Staged(StageOf(Distance(a, b)))
      <4>1. a \in loaded /\ {a, b} \in DOMAIN edges /\ edges[{a, b}] = Distance(a, b)
        BY <1>1, <3>5 DEF PairsRight, LoadedTargets, Matched
      <4>2. ~InBand(Distance(a, b))
        BY <2>2, <4>1 DEF Banded
      <4>3. Distance(a, b) \in 0 .. 256 /\ opened.recompress \in Nat
        BY <1>1, <3>5, <4>1, PairFacts, ThresholdAssumption DEF NearTyped
      <4>4. StageOf(Distance(a, b)) # stage
        BY <3>5, <4>2, <4>3, <1>1 DEF InBand, StageOf, NearTyped, Recompress, Edit
      <4> QED
        BY <1>1, <2>2, <3>2, <3>3, <3>5, <4>4 DEF Staged, Matched, NearTyped, Recompress, Edit, StageOf
    <3>6. ASSUME cfg = opened, ShownAll PROVE ShownAll'
      <4>1. InRoot' = InRoot /\ Sound' = Sound /\ present' = present
        BY <3>1 DEF Matched, InRoot, Sound
      <4>2. InRoot \subseteq LoadedTargets /\ present \subseteq loaded
        BY <1>1 DEF NearTyped, InRoot, LoadedTargets
      <4> QED
        BY <3>1, <3>3, <3>5, <3>6, <4>1, <4>2 DEF ShownAll, Matched
    <3> QED
      BY <1>1, <3>4, <3>6 DEF Shown, Matched
  <2> QED
    BY <2>1, <2>2
<1> QED
  BY <1>1, <1>2, <1>4, <1>6, <1>7, <1>8 DEF NearInv, Matched

(***************************************************************************)
(* The search.                                                             *)
(***************************************************************************)
LEMMA SearchStays ==
  ASSUME NearInv, phase = "cluster",
         UNCHANGED <<coll, present, loaded, config, opened, cfg, stage, phase, unmatched, edges,
                     listed, shown>>,
         search' = [start |-> search'.start, stack |-> search'.stack,
                    comp |-> search'.comp, seen |-> search'.seen],
         Searched', \A g \in groups' : Component(g)
  PROVE  NearInv'
<1>1. PairsRight /\ NearTyped /\ NearFlow /\ Shown
  BY DEF NearInv
<1>2. PairsRight'
  BY <1>1, PairsStay
<1>3. LoadedTargets' = LoadedTargets /\ Pool' = Pool
  BY DEF LoadedTargets, Pool
<1>4. NearTyped' /\ NearFlow'
  BY <1>1, <1>3 DEF NearTyped, NearFlow
<1>5. Grouped'
  <2>1. \A g : Component(g)' <=> Component(g)
    BY SameGraph
  <2> QED
    BY <2>1 DEF Grouped
<1>6. Shown'
  <2>1. \A s : Staged(s)' => Staged(s)
    BY DEF Staged
  <2> QED
    BY <1>1, <2>1, ShownStays
<1> QED
  BY <1>2, <1>4, <1>5, <1>6 DEF NearInv

LEMMA StartComponentKeeps ==
  ASSUME NearInv, NEW a, StartComponent(a)
  PROVE  NearInv'
<1>1. Searched /\ Grouped /\ phase = "cluster"
  BY DEF NearInv, StartComponent
<1>2. search.stack = <<>> /\ search.comp = {} /\ a \in Paired \ search.seen
  BY DEF StartComponent
<1>3. search' = [start |-> a, stack |-> <<a>>, comp |-> {}, seen |-> search.seen \cup {a}]
      /\ groups' = groups
  BY DEF StartComponent
<1>4. Reached = {}
  BY <1>2 DEF Reached, Stacked, ToSet
<1>5. search.seen = Placed
  BY <1>1, <1>4 DEF Searched
<1>11. Placed' = Placed
  BY <1>3 DEF Placed
<1>6. Paired' = Paired /\ \A S : Closed(S)' <=> Closed(S)
  BY SameGraph DEF StartComponent
<1>7. Stacked' = {a}
  BY <1>3 DEF Stacked, ToSet
<1>8. Reached' = {a}
  BY <1>3, <1>7 DEF Reached
<1>9. Searched'
  <2>1. search'.stack = <<a>> /\ search'.comp = {} /\ search'.start = a
        /\ search'.seen = search.seen \cup {a}
    BY <1>3
  <2>2. search'.stack \in Seq(Paired)
    BY <1>2, <2>1
  <2>3. search'.seen = Placed' \cup Reached' /\ Reached' \cap Placed' = {}
    BY <1>2, <1>5, <1>8, <1>11, <2>1
  <2> QED
    BY <1>6, <1>8, <2>1, <2>2, <2>3 DEF Searched
<1>10. \A g \in groups' : Component(g)
  BY <1>1, <1>3 DEF Grouped
<1> QED
  BY <1>3, <1>9, <1>10, SearchStays DEF StartComponent

LEMMA VisitKeeps ==
  ASSUME NearInv, Visit
  PROVE  NearInv'
<1> DEFINE n   == Last(search.stack)
           new == Neighbours(n) \ search.seen
<1>1. Searched /\ Grouped /\ phase = "cluster" /\ NearTyped /\ PairsRight
  BY DEF NearInv, Visit
<1>2. search.stack # <<>> /\ search.stack \in Seq(Paired)
  BY <1>1 DEF Visit, Searched
<1>3. search' = [search EXCEPT !.stack = Front(search.stack) \o SetToSeq(new),
                               !.comp = search.comp \cup {n},
                               !.seen = search.seen \cup new]
      /\ groups' = groups
  BY DEF Visit
<1>4. IsFiniteSet(Paired)
  <2>1. Paired \in SUBSET Pool
    BY <1>1, Neighbourhood DEF NearTyped
  <2>2. IsFiniteSet(Pool)
    BY <1>1, KeysOf DEF NearTyped
  <2> QED
    BY <2>1, <2>2, FS_Subset
<1>5. new \subseteq Paired
  BY DEF Neighbours
<1>6. /\ SetToSeq(new) \in Seq(Paired)
      /\ ToSet(SetToSeq(new)) = new
  <2>1. IsFiniteSet(new)
    BY <1>4, <1>5, FS_Subset
  <2> HIDE DEF new
  <2>2. /\ SetToSeq(new) \in Seq(new)
        /\ ToSet(SetToSeq(new)) = new
    BY <2>1, SetAsSequence
  <2> QED
    BY <1>5, <2>2
<1>7. n \in Paired /\ n \in Stacked
  BY <1>2, <1>6, PopAndPush DEF Stacked
<1> HIDE DEF n, new
<1>8. search' = [start |-> search.start, stack |-> Front(search.stack) \o SetToSeq(new),
                 comp |-> search.comp \cup {n}, seen |-> search.seen \cup new]
  BY <1>1, <1>3 DEF NearTyped
<1>9. search'.stack \in Seq(Paired) /\ Stacked' \cup {n} = Stacked \cup new
  <2>1. /\ Front(search.stack) \o SetToSeq(new) \in Seq(Paired)
        /\ ToSet(Front(search.stack) \o SetToSeq(new)) \cup {Last(search.stack)}
              = ToSet(search.stack) \cup ToSet(SetToSeq(new))
    BY <1>2, <1>6, PopAndPush
  <2>2. search'.stack = Front(search.stack) \o SetToSeq(new)
    BY <1>8
  <2>3. Last(search.stack) = n
    BY DEF n
  <2> QED
    BY <1>6, <2>1, <2>2, <2>3 DEF Stacked
<1>10. search'.start = search.start /\ search'.comp = search.comp \cup {n}
       /\ search'.seen = search.seen \cup new
  BY <1>8
<1>11. Reached' = Reached \cup new
  BY <1>9, <1>10, <1>7 DEF Reached
<1>12. n \in Reached
  BY <1>7 DEF Reached
<1>13. Neighbours(n) \subseteq Reached \cup new
  <2> SUFFICES ASSUME NEW y \in Neighbours(n), y \in search.seen PROVE y \in Reached
    BY DEF new
  <2>1. ASSUME NEW g \in groups, y \in g PROVE FALSE
    <3>1. Closed(g) /\ g \subseteq Paired
      BY <1>1 DEF Grouped, Component
    <3>2. n \in Neighbours(y)
      BY <1>1, <1>7, <2>1, <3>1, Neighbourhood
    <3>3. n \in g
      BY <2>1, <3>1, <3>2 DEF Closed
    <3>4. n \in Placed
      BY <2>1, <3>3 DEF Placed
    <3> QED
      BY <1>1, <1>12, <3>4 DEF Searched
  <2>2. y \notin Placed
    BY <2>1 DEF Placed
  <2>3. search.seen = Placed \cup Reached
    BY <1>1 DEF Searched
  <2> QED
    BY <2>2, <2>3
<1>14. /\ Paired' = Paired
       /\ \A a : Neighbours(a)' = Neighbours(a)
       /\ \A S : Closed(S)' <=> Closed(S)
  BY SameGraph DEF Visit
<1>15. new \cap search.seen = {} /\ new \subseteq Neighbours(n)
  BY DEF new
<1>16. /\ search.comp \subseteq Paired
       /\ search.seen = Placed \cup Reached
       /\ Reached \cap Placed = {}
       /\ \A x \in search.comp : Neighbours(x) \subseteq Reached
       /\ search.start \in Reached
       /\ \A S \in SUBSET Paired : search.start \in S /\ Closed(S) => Reached \subseteq S
  BY <1>1, <1>12 DEF Searched
<1>17. ASSUME NEW S \in SUBSET Paired, search.start \in S, Closed(S)
       PROVE  Reached \cup new \subseteq S
  BY <1>12, <1>15, <1>16, <1>17 DEF Closed
<1>18. ASSUME NEW x \in search.comp \cup {n}
       PROVE  Neighbours(x) \subseteq Reached \cup new
  BY <1>13, <1>16
<1>19. (Reached \cup new) \cap Placed = {}
  BY <1>15, <1>16
<1>20. Placed' = Placed
  BY <1>3 DEF Placed
<1>21. /\ search'.start \in Reached'
       /\ \A S \in SUBSET Paired' : search'.start \in S /\ Closed(S)' => Reached' \subseteq S
  BY <1>10, <1>11, <1>14, <1>16, <1>17
<1>22. /\ search'.comp \subseteq Paired'
       /\ search'.seen = Placed' \cup Reached'
       /\ Reached' \cap Placed' = {}
       /\ \A x \in search'.comp : Neighbours(x)' \subseteq Reached'
  <2>1. search'.comp \subseteq Paired'
    BY <1>7, <1>10, <1>14, <1>16
  <2>2. search'.seen = Placed' \cup Reached'
    BY <1>10, <1>11, <1>16, <1>20
  <2>3. Reached' \cap Placed' = {}
    BY <1>11, <1>19, <1>20
  <2>4. \A x \in search'.comp : Neighbours(x)' \subseteq Reached'
    BY <1>10, <1>11, <1>14, <1>18
  <2> QED
    BY <2>1, <2>2, <2>3, <2>4
<1>24. Searched'
  BY <1>9, <1>14, <1>21, <1>22 DEF Searched
<1>23. \A g \in groups' : Component(g)
  BY <1>1, <1>3 DEF Grouped
<1> QED
  BY <1>8, <1>24, <1>23, SearchStays DEF Visit

LEMMA EndComponentKeeps ==
  ASSUME NearInv, EndComponent
  PROVE  NearInv'
<1>1. Searched /\ Grouped /\ phase = "cluster" /\ NearTyped /\ PairsRight
  BY DEF NearInv, EndComponent
<1>2. search.stack = <<>> /\ search.comp # {} /\ Stacked = {} /\ Reached = search.comp
  BY DEF EndComponent, Stacked, Reached, ToSet
<1>3. Component(search.comp)
  BY <1>1, <1>2, ReachedIsComponent
<1>4. groups' = groups \cup {search.comp}
      /\ search' = [start |-> NoLead, stack |-> search.stack, comp |-> {}, seen |-> search.seen]
  BY <1>1 DEF EndComponent, NearTyped
<1>5. Stacked' = {} /\ Reached' = {}
  BY <1>2, <1>4 DEF Stacked, Reached, ToSet
<1>6. Paired' = Paired
  BY SameGraph DEF EndComponent
<1>7. search.seen = Placed'
  <2>1. \A x : x \in Placed' <=> x \in Placed \cup search.comp
    BY <1>4 DEF Placed
  <2>2. search.seen = Placed \cup search.comp
    BY <1>1, <1>2 DEF Searched
  <2> QED
    BY <2>1, <2>2
<1>8. Searched'
  BY <1>2, <1>4, <1>5, <1>6, <1>7 DEF Searched
<1>9. \A g \in groups' : Component(g)
  BY <1>1, <1>3, <1>4 DEF Grouped
<1> QED
  BY <1>4, <1>8, <1>9, SearchStays DEF EndComponent

\* A stage that is done with, or passed over.
LEMMA NextStageKeeps ==
  ASSUME NearTyped, NearFlow, phase \in {"cluster", "staged"}, NextStage,
         UNCHANGED <<coll, config, opened>>,
         present' \in SUBSET present, cfg' \in Configs, search' = Nowhere, Shown'
  PROVE  NearInv'
<1>1. Pool' = Pool
  BY DEF Pool
<1>2. NearTyped'
  <2>1. loaded' \subseteq Pool /\ present' \subseteq loaded' /\ stage' \in {Recompress, Edit}
        /\ phase' \in {"match", "over"}
    BY DEF NextStage, NearTyped
  <2>2. unmatched' \subseteq LoadedTargets'
    BY DEF NextStage, NearFlow, LoadedTargets
  <2> QED
    BY <1>1, <2>1, <2>2 DEF NearTyped, Nowhere
<1>3. NearFlow'
  BY DEF NextStage, NearFlow, NearTyped
<1>4. ASSUME phase' # "over" PROVE PairsRight'
  <2>1. edges' = <<>> /\ unmatched' = LoadedTargets'
    BY <1>4 DEF NextStage, LoadedTargets
  <2>2. DOMAIN edges' = {} /\ LoadedTargets' \ unmatched' = {}
    BY <2>1
  <2> QED
    BY <2>2 DEF PairsRight
<1>5. phase' \notin {"cluster", "staged"}
  BY DEF NextStage
<1> QED
  BY <1>2, <1>3, <1>4, <1>5 DEF NearInv

\* Every file of a near pair is in a group, and the pairs of the stage are
\* shown whose files are there and got their shortcuts.
LEMMA StageKeeps ==
  ASSUME NearInv, NEW unwritten, Stage(unwritten)
  PROVE  NearInv'
<1>1. /\ Searched /\ Grouped /\ phase = "cluster" /\ NearTyped /\ NearFlow
      /\ PairsRight /\ Shown
  BY DEF NearInv, Stage
<1>2. /\ search' = Nowhere /\ UNCHANGED <<coll, config, opened, cfg>>
      /\ present' = present \ (Placed \cap gone)
      /\ unwritten \subseteq coll.unlinkable
  BY DEF Stage, Placed
<1>3. Placed = Paired
  <2>1. Reached = {} /\ search.seen = Paired
    BY DEF Stage, Reached, Stacked, ToSet
  <2> QED
    BY <1>1, <2>1 DEF Searched
<1>4. listed' = (Placed \ coll.bare) \ (gone \cup unwritten)
  <2>1. UNION {Filed(g) : g \in groups} = Placed \ coll.bare
    BY DEF Filed, Placed
  <2> QED
    BY <2>1 DEF Stage
<1>5. Shown'
  <2>1. /\ Pool' = Pool
        /\ \A a, b : Matches(a, b)' <=> Matches(a, b)
        /\ \A a, b : Distance(a, b)' = Distance(a, b)
    BY <1>2, SameDistances
  <2>2. \A d : StageOf(d)' = StageOf(d)
    BY <1>2 DEF StageOf
  <2>3. \A a, b : StageOf(Distance(a, b))' = StageOf(Distance(a, b))
    BY <2>1, <2>2
  <2>4. ASSUME cfg = opened, NEW d \in 0 .. 256 PROVE InBand(d) <=> StageOf(d) = stage
    <3>1. opened.recompress \in Nat
      BY <1>1, ThresholdAssumption DEF NearTyped
    <3> QED
      BY <1>1, <2>4, <3>1 DEF InBand, StageOf, NearTyped, Recompress, Edit
  <2>5. ASSUME cfg = opened, ShownOnce PROVE ShownOnce'
    <3>1. ASSUME NEW p \in Banded
          PROVE  \E a \in Pool, b \in Pool : a # b /\ <<p, stage>> = <<{a, b}, StageOf(Distance(a, b))>>
      <4>1. PICK a \in loaded, b \in loaded : a # b /\ p = {a, b}
        BY <1>1 DEF Banded, PairsRight
      <4>2. a \in Pool /\ b \in Pool /\ Matches(a, b) /\ InBand(Distance(a, b))
        BY <1>1, <4>1 DEF Banded, PairsRight, NearTyped
      <4>3. Distance(a, b) \in 0 .. 256
        BY <1>1, <4>2, PairFacts DEF NearTyped
      <4>4. StageOf(Distance(a, b)) = stage
        BY <2>4, <2>5, <4>2, <4>3
      <4> QED
        BY <4>1, <4>2, <4>4
    <3>2. shown' \subseteq shown \cup {<<p, stage>> : p \in Banded}
      BY DEF Stage
    <3> QED
      BY <2>1, <2>3, <2>5, <3>1, <3>2 DEF ShownOnce
  <2>6. \A s \in {Recompress, Edit} : Staged(s)' => Staged(s) \/ s = stage
    BY <1>1 DEF Staged, Stage, NextStage, NearTyped, Recompress, Edit
  <2>7. ASSUME cfg = opened, ShownAll PROVE ShownAll'
    <3>1. ASSUME NEW a \in InRoot' \cap Sound, NEW b \in (present' \cap Sound) \ {a}, Matches(a, b),
                 Staged(StageOf(Distance(a, b)))'
          PROVE  <<{a, b}, StageOf(Distance(a, b))>> \in shown'
      <4>1. a \in InRoot /\ a \in present' /\ a \in present /\ b \in present
        BY <1>2, <3>1 DEF InRoot
      <4>2. CASE Staged(StageOf(Distance(a, b)))
        <5>1. <<{a, b}, StageOf(Distance(a, b))>> \in shown
          BY <2>7, <3>1, <4>1, <4>2 DEF ShownAll
        <5> QED
          BY <5>1 DEF Stage
      <4>3. CASE StageOf(Distance(a, b)) = stage
        <5>1. a \in LoadedTargets /\ b \in loaded /\ a \in loaded /\ a # b /\ unmatched = {}
          BY <1>1, <3>1, <4>1 DEF InRoot, LoadedTargets, NearFlow, NearTyped
        <5>2. {a, b} \in DOMAIN edges /\ edges[{a, b}] = Distance(a, b)
          BY <1>1, <3>1, <5>1 DEF PairsRight
        <5>3. Distance(a, b) \in 0 .. 256
          BY <1>1, <3>1, <5>1, PairFacts DEF NearTyped
        <5>4. {a, b} \in Banded
          BY <2>4, <2>7, <4>3, <5>2, <5>3 DEF Banded
        <5>5. a \in Placed /\ b \in Placed
          BY <1>3, <5>4 DEF Paired
        <5>6. {a, b} \subseteq listed'
          BY <1>2, <1>4, <3>1, <4>1, <5>5 DEF Sound
        <5>7. shown' = shown \cup {<<p, stage>> : p \in {p \in Banded : p \subseteq listed'}}
          BY <5>6 DEF Stage
        <5> QED
          BY <4>3, <5>4, <5>6, <5>7
      <4>4. StageOf(Distance(a, b)) \in {Recompress, Edit}
        BY DEF StageOf
      <4>5. Staged(StageOf(Distance(a, b))) \/ StageOf(Distance(a, b)) = stage
        BY <2>2, <2>3, <2>6, <3>1, <4>4 DEF Staged
      <4> QED
        BY <4>2, <4>3, <4>5
    <3>2. Sound' = Sound
      BY <1>2, <2>1 DEF Sound
    <3> QED
      BY <2>1, <2>3, <3>1, <3>2 DEF ShownAll
  <2> QED
    BY <1>1, <1>2, <2>5, <2>7 DEF Shown
<1>6. CASE listed' # {}
  <2>1. phase' = "staged" /\ UNCHANGED <<stage, loaded, unmatched, edges, groups>>
    BY <1>6 DEF Stage
  <2>2. LoadedTargets' = LoadedTargets /\ Pool' = Pool /\ present' \subseteq loaded
    BY <1>1, <1>2, <2>1 DEF LoadedTargets, Pool, NearTyped
  <2>3. NearTyped' /\ NearFlow'
    BY <1>1, <1>2, <2>1, <2>2 DEF NearTyped, NearFlow, Nowhere
  <2>4. PairsRight'
    BY <1>1, <1>2, <2>1, PairsStay
  <2>5. Grouped'
    <3>1. Paired' = Paired /\ \A g : Component(g)' <=> Component(g)
      BY <1>2, <2>1, SameGraph
    <3>2. Placed' = Placed
      BY <2>1 DEF Placed
    <3> QED
      BY <1>1, <1>2, <1>3, <1>4, <2>1, <3>1, <3>2 DEF Grouped
  <2> QED
    BY <1>5, <2>1, <2>3, <2>4, <2>5 DEF NearInv
<1>7. CASE listed' = {}
  <2>1. NextStage
    BY <1>7 DEF Stage
  <2>2. cfg' \in Configs /\ present' \in SUBSET present
    BY <1>1, <1>2 DEF NearTyped
  <2> QED
    BY <1>1, <1>2, <1>5, <2>1, <2>2, NextStageKeeps
<1> QED
  BY <1>6, <1>7

(***************************************************************************)
(* The user, and the job that confirms.                                    *)
(***************************************************************************)
LEMMA EditConfigKeeps ==
  ASSUME NearInv, NEW c \in Configs, EditConfig(c)
  PROVE  NearInv'
<1>1. /\ Grouped /\ phase = "staged" /\ NearTyped /\ NearFlow /\ PairsRight
  BY DEF NearInv, EditConfig
<1>2. LoadedTargets' = LoadedTargets /\ Pool' = Pool
  BY DEF EditConfig, LoadedTargets, Pool
<1>3. NearTyped' /\ NearFlow'
  BY <1>1, <1>2 DEF NearTyped, NearFlow, EditConfig
<1>4. PairsRight'
  BY <1>1, PairsStay DEF EditConfig
<1>5. Grouped'
  <2>1. Paired' = Paired /\ \A g : Component(g)' <=> Component(g)
    BY SameGraph DEF EditConfig
  <2> QED
    BY <1>1, <2>1 DEF Grouped, Placed, EditConfig
<1>6. Shown'
  BY DEF EditConfig, Shown
<1> QED
  BY <1>1, <1>3, <1>4, <1>5, <1>6 DEF NearInv, EditConfig

LEMMA PlanNextKeeps ==
  ASSUME NearInv, phase = "staged", NEW deleted, PlanNext(deleted)
  PROVE  NearInv'
<1>1. NearTyped /\ NearFlow /\ Shown
  BY DEF NearInv
<1>2. /\ UNCHANGED <<coll, config, opened, search, shown>> /\ cfg' = config
      /\ present' \in SUBSET present /\ search' = Nowhere
  BY <1>1 DEF PlanNext, NearFlow
<1>3. InRoot' \subseteq InRoot
  BY <1>2 DEF InRoot
<1>4. ASSUME config = opened PROVE cfg' = cfg
  BY <1>1, <1>2, <1>4 DEF Shown
<1>5. Shown'
  <2> SUFFICES ASSUME config = opened, cfg = opened, cfg' = cfg PROVE Shown'
    BY <1>1, <1>2, <1>4 DEF Shown
  <2>1. /\ Pool' = Pool
        /\ \A a, b : Matches(a, b)' <=> Matches(a, b)
        /\ \A a, b : Distance(a, b)' = Distance(a, b)
    BY <1>2, SameDistances
  <2>2. \A d : StageOf(d)' = StageOf(d)
    BY <1>2 DEF StageOf
  <2>3. \A a, b : StageOf(Distance(a, b))' = StageOf(Distance(a, b))
    BY <2>1, <2>2
  <2>4. ShownOnce => ShownOnce'
    BY <1>2, <2>1, <2>3 DEF ShownOnce
  <2>5. \A s : Staged(s)' => Staged(s)
    BY <1>1 DEF Staged, PlanNext, NextStage, NearTyped, Recompress, Edit
  <2>6. \A a, b : Staged(StageOf(Distance(a, b)))' => Staged(StageOf(Distance(a, b)))
    BY <2>3, <2>5
  <2>8. Sound' = Sound
    BY <1>2, <2>1 DEF Sound
  <2>7. ShownAll => ShownAll'
    BY <1>2, <1>3, <2>1, <2>3, <2>6, <2>8 DEF ShownAll
  <2> QED
    BY <1>1, <1>2, <2>4, <2>7 DEF Shown
<1>6. NextStage /\ cfg' \in Configs
  BY <1>1, <1>2 DEF PlanNext, NearTyped
<1> QED
  BY <1>1, <1>2, <1>5, <1>6, NextStageKeeps

\* Nothing the invariant speaks of has changed.
LEMMA NearStutterKeeps ==
  ASSUME NearInv,
         UNCHANGED <<coll, present, loaded, config, opened, cfg, stage, phase, unmatched, edges,
                     search, groups, listed, shown>>
  PROVE  NearInv'
<1>1. /\ Paired' = Paired
      /\ \A a : Neighbours(a)' = Neighbours(a)
      /\ \A S : Closed(S)' <=> Closed(S)
      /\ \A g : Component(g)' <=> Component(g)
  BY SameGraph
<1>2. LoadedTargets' = LoadedTargets /\ Pool' = Pool
  BY DEF LoadedTargets, Pool
<1>3. NearTyped' /\ NearFlow'
  BY <1>2 DEF NearInv, NearTyped, NearFlow
<1>4. Shown'
  BY ShownStays DEF NearInv, Staged
<1>5. PairsRight => PairsRight'
  BY PairsStay
<1>6. Grouped => Grouped'
  BY <1>1 DEF Grouped, Placed
<1>7. Reached' = Reached /\ Placed' = Placed
  BY DEF Reached, Placed, Stacked
<1>8. Searched => Searched'
  BY <1>1, <1>7 DEF Searched
<1> QED
  BY <1>3, <1>4, <1>5, <1>6, <1>8 DEF NearInv

LEMMA NearInductive == NearSpec => []NearInv
<1>1. NearInit => NearInv
  BY NearInitHolds
<1>2. NearInv /\ [NearNext]_nearVars => NearInv'
  <2> SUFFICES ASSUME NearInv, [NearNext]_nearVars PROVE NearInv'
    OBVIOUS
  <2>1. ASSUME NEW t \in Pool, Match(t) PROVE NearInv'
    BY <2>1, MatchKeeps
  <2>2. ASSUME Matched PROVE NearInv'
    BY <2>2, MatchedKeeps
  <2>3. ASSUME NEW a \in Pool, StartComponent(a) PROVE NearInv'
    BY <2>3, StartComponentKeeps
  <2>4. ASSUME Visit PROVE NearInv'
    BY <2>4, VisitKeeps
  <2>5. ASSUME EndComponent PROVE NearInv'
    BY <2>5, EndComponentKeeps
  <2>6. ASSUME NEW unwritten, Stage(unwritten) PROVE NearInv'
    BY <2>6, StageKeeps
  <2>7. ASSUME NEW c \in Configs, EditConfig(c) PROVE NearInv'
    BY <2>7, EditConfigKeeps
  <2>8. ASSUME NEW deleted \in SUBSET Pool, Confirm(deleted) PROVE NearInv'
    BY <2>8, PlanNextKeeps DEF Confirm
  <2>9. ASSUME NEW held \in SUBSET Pool, KeepSuggested(held) PROVE NearInv'
    BY <2>9, PlanNextKeeps DEF KeepSuggested
  <2>11. ASSUME NEW a \in Pool, GoMissing(a) PROVE NearInv'
    BY <2>11, NearStutterKeeps DEF GoMissing
  <2>10. ASSUME UNCHANGED nearVars PROVE NearInv'
    BY <2>10, NearStutterKeeps DEF nearVars
  <2> QED
    BY <2>1, <2>2, <2>3, <2>4, <2>5, <2>6, <2>7, <2>8, <2>9, <2>10, <2>11 DEF NearNext, Over
<1> QED
  BY <1>1, <1>2, PTL DEF NearSpec

(***************************************************************************)
(* The groups.                                                             *)
(***************************************************************************)
LEMMA Pairs ==
  ASSUME NearInv, phase = "staged"
  PROVE  /\ \A x \in loaded, y \in loaded : NearPair(x, y) <=> y \in Neighbours(x)
         /\ \A x \in Paired : \A y \in Neighbours(x) :
               /\ x \in LoadedTargets \/ y \in LoadedTargets
               /\ Matches(x, y) /\ InBand(Distance(x, y))
               /\ {x, y} \in DOMAIN edges /\ edges[{x, y}] = Distance(x, y)
<1>1. PairsRight /\ NearTyped /\ unmatched = {}
  BY DEF NearInv, NearFlow
<1>2. /\ Paired \subseteq loaded
      /\ \A x \in Paired : Neighbours(x) \subseteq Paired
      /\ \A a \in loaded, b \in loaded : a # b =>
            ({a, b} \in Banded <=> {a, b} \in DOMAIN edges /\ InBand(Distance(a, b)))
      /\ \A a \in loaded, b \in loaded :
            b \in Neighbours(a) <=> a # b /\ {a, b} \in Banded
  BY <1>1, Neighbourhood
<1>3. \A a \in loaded, b \in loaded : a # b =>
          /\ {a, b} \in DOMAIN edges <=> Matches(a, b) /\ (a \in LoadedTargets \/ b \in LoadedTargets)
          /\ {a, b} \in DOMAIN edges => edges[{a, b}] = Distance(a, b)
  BY <1>1 DEF PairsRight
<1>4. \A a, b : {a, b} \cap LoadedTargets # {} <=> a \in LoadedTargets \/ b \in LoadedTargets
  OBVIOUS
<1>5. \A x \in loaded, y \in loaded : NearPair(x, y) <=> y \in Neighbours(x)
  BY <1>2, <1>3, <1>4 DEF NearPair
<1>6. ASSUME NEW x \in Paired, NEW y \in Neighbours(x)
      PROVE  /\ x \in LoadedTargets \/ y \in LoadedTargets
             /\ Matches(x, y) /\ InBand(Distance(x, y))
             /\ {x, y} \in DOMAIN edges /\ edges[{x, y}] = Distance(x, y)
  BY <1>2, <1>3
<1> QED
  BY <1>5, <1>6

\* From a member of a group its own group can be reached, and nothing else.
LEMMA GroupIsClass ==
  ASSUME NearInv, phase = "staged", NEW g \in groups, NEW a \in g
  PROVE  {b \in loaded : Linked(a, b)} = g
<1>1. Component(g) /\ NearTyped /\ PairsRight
  BY DEF NearInv, Grouped
<1>2. g \subseteq Paired /\ Paired \subseteq loaded
  BY <1>1, Neighbourhood DEF Component
<1>3. \A x \in loaded, y \in loaded : NearPair(x, y) <=> y \in Neighbours(x)
  BY Pairs
<1>4. ASSUME NEW b \in loaded, Linked(a, b) PROVE b \in g
  <2>1. \A x \in g : \A y \in loaded : NearPair(x, y) => y \in g
    BY <1>1, <1>2, <1>3 DEF Component, Closed
  <2> QED
    BY <1>2, <1>4, <2>1 DEF Linked
<1>5. ASSUME NEW b \in g, NEW S \in SUBSET loaded, a \in S,
             \A x \in S : \A y \in loaded : NearPair(x, y) => y \in S
      PROVE  b \in S
  <2> DEFINE T == S \cap g
  <2>1. ASSUME NEW x \in T, NEW y \in Neighbours(x) PROVE y \in T
    <3>1. y \in g
      BY <1>1, <2>1 DEF Component, Closed
    <3>2. NearPair(x, y)
      BY <1>2, <1>3, <2>1, <3>1
    <3> QED
      BY <1>2, <1>5, <3>1, <3>2
  <2>2. Closed(T)
    BY <2>1 DEF Closed
  <2>3. T \in SUBSET g /\ T # {}
    BY <1>5
  <2>4. T = g
    BY <1>1, <2>2, <2>3 DEF Component
  <2> QED
    BY <2>4
<1>6. \A b \in g : b \in loaded /\ Linked(a, b)
  BY <1>2, <1>5 DEF Linked
<1> QED
  BY <1>4, <1>6

LEMMA GroupsRight == NearInv => GroupsAreComponents
<1> SUFFICES ASSUME NearInv, phase = "staged" PROVE GroupsAreComponents
  BY DEF GroupsAreComponents
<1> DEFINE In == {a \in loaded : \E b \in loaded : NearPair(a, b)}
           Class(a) == {b \in loaded : Linked(a, b)}
<1>1. NearTyped /\ PairsRight /\ Placed = Paired /\ \A g \in groups : Component(g)
  BY DEF NearInv, Grouped
<1>2. /\ Paired \subseteq loaded
      /\ \A x \in Paired : Neighbours(x) # {} /\ Neighbours(x) \subseteq Paired
      /\ \A a \in loaded, b \in loaded :
            b \in Neighbours(a) <=> a # b /\ {a, b} \in Banded
  BY <1>1, Neighbourhood
<1>3. \A x \in loaded, y \in loaded : NearPair(x, y) <=> y \in Neighbours(x)
  BY Pairs
<1>4. In = Paired
  <2>1. ASSUME NEW a \in In PROVE a \in Paired
    <3>1. PICK b \in loaded : {a, b} \in Banded
      BY <1>2, <1>3, <2>1
    <3> QED
      BY <3>1 DEF Paired
  <2>2. ASSUME NEW a \in Paired PROVE a \in In
    BY <1>2, <1>3
  <2> QED
    BY <2>1, <2>2
<1>5. \A g \in groups : \A a \in g : Class(a) = g
  BY GroupIsClass
<1> HIDE DEF In, Class
<1>6. ASSUME NEW g \in groups PROVE g \in {Class(a) : a \in In}
  <2>1. PICK a \in g : TRUE
    BY <1>1 DEF Component
  <2>2. a \in In
    BY <1>1, <1>4 DEF Component
  <2> QED
    BY <1>5, <2>1, <2>2
<1>7. ASSUME NEW a \in In PROVE Class(a) \in groups
  <2>1. PICK g \in groups : a \in g
    BY <1>1, <1>4 DEF Placed
  <2> QED
    BY <1>5, <2>1
<1>8. groups = {Class(a) : a \in In}
  BY <1>6, <1>7
<1> QED
  BY <1>8 DEF GroupsAreComponents, Class, In

\* Members of a staged group: where they are, and that some are in the root.
LEMMA StagedGroups ==
  ASSUME NearInv, phase = "staged"
  PROVE  /\ coll \in Collections /\ IsFiniteSet(groups) /\ IsFiniteSet(UNION groups)
         /\ UNION groups = Paired
         /\ listed \subseteq (UNION groups) \ coll.bare
         /\ \A g \in groups : /\ g # {} /\ g \in SUBSET Pool /\ IsFiniteSet(g)
                              /\ \E a \in Filed(g) : coll.home[a] = "in"
                              /\ Filed(g) # {} /\ Filed(g) \in SUBSET Pool
         /\ \A g \in groups, h \in groups : g \cap h # {} => g = h
<1>1. NearTyped /\ PairsRight /\ Placed = Paired /\ \A g \in groups : Component(g)
  BY DEF NearInv, Grouped
<1>2. /\ Paired \subseteq loaded
      /\ \A x \in Paired : Neighbours(x) # {} /\ Neighbours(x) \subseteq Paired
  BY <1>1, Neighbourhood
<1>3. coll \in Collections /\ IsFiniteSet(Pool) /\ loaded \subseteq Pool
  BY <1>1, KeysOf DEF NearTyped
<1>4. ASSUME NEW g \in groups
      PROVE  g # {} /\ g \in SUBSET Pool /\ \E a \in g : coll.home[a] = "in"
  <2>1. g # {} /\ g \subseteq Paired /\ Closed(g)
    BY <1>1 DEF Component
  <2>2. PICK x \in g : TRUE
    BY <2>1
  <2>3. PICK y \in Neighbours(x) : TRUE
    BY <1>2, <2>1
  <2>4. y \in g
    BY <2>1, <2>2, <2>3 DEF Closed
  <2>5. x \in LoadedTargets \/ y \in LoadedTargets
    BY <2>1, <2>2, <2>3, Pairs
  <2> QED
    BY <1>2, <1>3, <2>1, <2>4, <2>5 DEF LoadedTargets
<1>5. IsFiniteSet(SUBSET Pool)
  BY <1>3, FS_SUBSET
<1>6. IsFiniteSet(groups)
  <2>1. groups \in SUBSET (SUBSET Pool)
    BY <1>4
  <2> QED
    BY <1>5, <2>1, FS_Subset
<1>7. \A g \in groups : IsFiniteSet(g)
  BY <1>3, <1>4, FS_Subset
<1>8. IsFiniteSet(UNION groups)
  BY <1>6, <1>7, FS_UNION
<1>10. ASSUME NEW g \in groups
       PROVE  /\ \E a \in Filed(g) : coll.home[a] = "in"
              /\ Filed(g) # {} /\ Filed(g) \in SUBSET Pool
  <2>1. PICK a \in g : coll.home[a] = "in"
    BY <1>4
  <2>2. coll.bare \subseteq {x \in Pool : coll.home[x] = "out"}
    BY <1>3, CollectionAssumption DEF Pool
  <2>3. a \in Filed(g)
    BY <2>1, <2>2 DEF Filed
  <2> QED
    BY <1>4, <2>1, <2>3 DEF Filed
<1>11. listed \subseteq (UNION groups) \ coll.bare
  BY DEF NearInv, Grouped, Placed
<1>9. \A g \in groups, h \in groups : g \cap h # {} => g = h
  BY <1>1, ComponentsApart
<1> QED
  BY <1>1, <1>3, <1>4, <1>6, <1>7, <1>8, <1>9, <1>10, <1>11 DEF Placed

(***************************************************************************)
(* The lead.                                                               *)
(***************************************************************************)
LEMMA LeastOf ==
  ASSUME NEW S \in SUBSET Nat, IsFiniteSet(S), S # {}
  PROVE  Min(S) \in S
<1> DEFINE R == {p \in S \X S : p[1] > p[2]}
<1>1. Ordered(R, S)
  BY DEF Ordered
<1>2. PICK m \in S : \A a \in S \ {m} : <<a, m>> \in R
  BY <1>1, Greatest
<1>3. ASSUME NEW a \in S PROVE m <= a
  <2>1. a \in Nat /\ m \in Nat
    OBVIOUS
  <2>2. CASE a # m
    <3>1. <<a, m>> \in R
      BY <1>2, <2>2
    <3>2. a > m
      BY <3>1
    <3> QED
      BY <2>1, <3>2
  <2> QED
    BY <2>1, <2>2
<1> QED
  BY <1>3 DEF Min

LEMMA WholeKey ==
  ASSUME NEW n \in {3, 4}, NEW k \in [1 .. n -> Int]
  PROVE  SubSeq(k, 1, n) = k /\ Len(k) = n /\ DOMAIN k = 1 .. n
<1>1. k \in Seq(Int) /\ Len(k) = n
  OBVIOUS
<1> QED
  BY <1>1

LEMMA FirstPart ==
  ASSUME NEW n \in {3, 4}, NEW k \in [1 .. n -> Int], NEW l \in [1 .. n -> Int],
         NEW m \in 1 .. n
  PROVE  /\ k = l => SubSeq(k, 1, m) = SubSeq(l, 1, m)
         /\ k[1] = l[1] => SubSeq(k, 1, 1) = SubSeq(l, 1, 1)
<1>1. k \in Seq(Int) /\ l \in Seq(Int) /\ Len(k) = n /\ Len(l) = n
  OBVIOUS
<1>2. ASSUME NEW x \in Seq(Int), Len(x) = n
      PROVE  /\ SubSeq(x, 1, 1) \in Seq(Int) /\ Len(SubSeq(x, 1, 1)) = 1
             /\ \A i \in 1 .. 1 : SubSeq(x, 1, 1)[i] = x[1]
  BY <1>2
<1>3. ASSUME k[1] = l[1]
      PROVE  SubSeq(k, 1, 1) = SubSeq(l, 1, 1)
  BY <1>1, <1>2, <1>3, SeqEqual
<1>4. k[1] = l[1] => SubSeq(k, 1, 1) = SubSeq(l, 1, 1)
  BY <1>3
<1> QED
  BY <1>4

LEMMA LeadRight == NearInv => LeadIsMaster
<1> SUFFICES ASSUME NearInv, phase = "staged", stage = Recompress, NEW h \in groups
             PROVE  LET g    == Filed(h)
                        lead == Suggestion(h)
                        tied == {a \in g : coll.key[a] = coll.key[lead]}
                        why  == LeadReason(h)
                    IN  /\ lead \in g
                        /\ \A a \in g : ~KeyGreater(coll.key[a], coll.key[lead])
                        /\ (why = "preference") = (Side(tied) = {"in", "out"})
                        /\ why = "preference" => PrefRank(lead) = 1
                        /\ why \in {"preference", "path"} => tied # {lead}
                        /\ why = "resolution" =>
                              \A a \in g \ {lead} : coll.key[a][1] < coll.key[lead][1]
  BY DEF LeadIsMaster
<1> DEFINE g == Filed(h)
           lead == Suggestion(h)
           K == KeyLength
           tied == {a \in g : coll.key[a] = coll.key[lead]}
           why  == LeadReason(h)
           same(n) == {a \in g : SubSeq(coll.key[a], 1, n) = SubSeq(coll.key[lead], 1, n)}
           alone == {n \in DOMAIN coll.key[lead] : same(n) = {lead}}
<1>1. coll \in Collections /\ g \in SUBSET Pool /\ g # {}
  BY StagedGroups
<1>2. lead \in g /\ \A a \in g \ {lead} : Better(lead, a)
  BY <1>1, LeadIsBest
<1>3. /\ K \in {3, 4}
      /\ \A a \in g : coll.key[a] \in [1 .. K -> Int] /\ coll.home[a] \in {"in", "out"}
  BY <1>1, KeysOf
<1>4. K = IF coll.medium = "photo" THEN 3 ELSE 4
  BY DEF KeyLength
<1> HIDE DEF lead, K, g
<1>5. /\ \A k, l \in [1 .. K -> Int] : KeyGreater(k, l) => ~KeyGreater(l, k)
      /\ \A k, l \in [1 .. K -> Int] : KeyGreater(k, l) => k # l
  BY <1>3, KeyOrder
<1>6. \A a \in g : ~KeyGreater(coll.key[a], coll.key[lead])
  <2> SUFFICES ASSUME NEW a \in g, KeyGreater(coll.key[a], coll.key[lead]) PROVE FALSE
    OBVIOUS
  <2>1. coll.key[a] # coll.key[lead]
    BY <1>2, <1>3, <1>5
  <2>2. Better(lead, a)
    BY <1>2, <2>1
  <2>3. KeyGreater(coll.key[lead], coll.key[a])
    BY <2>1, <2>2 DEF Better
  <2> QED
    BY <1>2, <1>3, <1>5, <2>3
<1>7. /\ DOMAIN coll.key[lead] = 1 .. K /\ Len(coll.key[lead]) = K
      /\ \A a \in g : SubSeq(coll.key[a], 1, K) = coll.key[a]
  BY <1>2, <1>3, WholeKey
<1>8. same(K) = tied /\ lead \in tied
  BY <1>2, <1>7
<1>9. why = IF alone # {} THEN Levels[Min(alone)]
            ELSE IF Cardinality({coll.home[a] : a \in same(K)}) > 1 THEN "preference" ELSE "path"
  BY <1>7 DEF LeadReason, lead, g
<1>10. \A n \in 1 .. K : /\ Levels[n] \notin {"preference", "path"}
                         /\ Levels[n] = "resolution" => n = 1
  <2>1. CASE coll.medium = "photo"
    <3>1. Levels = <<"resolution", "+ format", "+ size">> /\ K = 3
      BY <1>4, <2>1 DEF Levels
    <3>2. Levels[1] = "resolution" /\ Levels[2] = "+ format" /\ Levels[3] = "+ size"
      BY <3>1
    <3>3. K = 3
      BY <1>4, <2>1
    <3>4. \A n \in 1 .. K : n = 1 \/ n = 2 \/ n = 3
      BY <3>3
    <3> QED
      BY <3>2, <3>4
  <2>2. CASE coll.medium # "photo"
    <3>1. Levels = <<"resolution", "+ bitrate", "+ codec", "+ fine bitrate">> /\ K = 4
      BY <1>4, <2>2 DEF Levels
    <3>2. /\ Levels[1] = "resolution" /\ Levels[2] = "+ bitrate" /\ Levels[3] = "+ codec"
          /\ Levels[4] = "+ fine bitrate"
      BY <3>1
    <3>3. K = 4
      BY <1>4, <2>2
    <3>4. \A n \in 1 .. K : n = 1 \/ n = 2 \/ n = 3 \/ n = 4
      BY <3>3
    <3> QED
      BY <3>2, <3>4
  <2> QED
    BY <2>1, <2>2
<1> HIDE DEF same, why
<1>11. CASE alone # {}
  <2> DEFINE m == Min(alone)
  <2>1. m \in alone
    <3>1. alone \in SUBSET (1 .. K)
      BY <1>7
    <3>2. alone \in SUBSET Nat /\ IsFiniteSet(alone)
      <4>1. IsFiniteSet(1 .. K)
        <5>1. 1 \in Int /\ K \in Int
          BY <1>3
        <5> QED
          BY <5>1, FS_Interval
      <4>2. 1 .. K \subseteq Nat
        BY <1>3
      <4> HIDE DEF alone
      <4>3. IsFiniteSet(alone)
        BY <3>1, <4>1, FS_Subset
      <4> QED
        BY <3>1, <4>2, <4>3
    <3> HIDE DEF alone
    <3> QED
      BY <1>11, <3>2, LeastOf
  <2>2. m \in 1 .. K /\ same(m) = {lead}
    BY <1>7, <2>1
  <2>3. why = Levels[m]
    BY <1>9, <1>11
  <2> HIDE DEF m
  <2>4. tied \subseteq same(m)
    BY <1>2, <1>3, <2>2, FirstPart DEF same
  <2>5. tied = {lead}
    BY <1>8, <2>2, <2>4
  <2>6. why \notin {"preference", "path"}
    BY <1>10, <2>2, <2>3
  <2>7. Side(tied) = {coll.home[lead]}
    BY <2>5 DEF Side
  <2>8. ASSUME why = "resolution", NEW a \in g \ {lead}
        PROVE  coll.key[a][1] < coll.key[lead][1]
    <3>1. a \notin same(1)
      BY <1>10, <2>2, <2>3, <2>8
    <3>2. coll.key[a][1] # coll.key[lead][1]
      <4>1. 1 \in 1 .. K
        BY <1>3
      <4>2. SubSeq(coll.key[a], 1, 1) # SubSeq(coll.key[lead], 1, 1)
        BY <2>8, <3>1 DEF same
      <4> QED
        BY <1>2, <1>3, <2>8, <4>1, <4>2, FirstPart
    <3>3. ~(coll.key[a][1] > coll.key[lead][1])
      <4>1. 1 \in DOMAIN coll.key[a]
        BY <1>3, <2>8
      <4> QED
        BY <1>6, <2>8, <4>1 DEF KeyGreater
    <3>4. coll.key[a][1] \in Int /\ coll.key[lead][1] \in Int
      BY <1>2, <1>3, <2>8
    <3> QED
      BY <3>2, <3>3, <3>4
  <2>9. (why = "preference") = (Side(tied) = {"in", "out"})
    <3>1. Side(tied) # {"in", "out"}
      <4> DEFINE here == coll.home[lead]
      <4> HIDE DEF here
      <4>1. {here} # {"in", "out"}
        OBVIOUS
      <4> QED
        BY <2>7, <4>1 DEF here
    <3>2. why # "preference"
      BY <2>6
    <3> QED
      BY <3>1, <3>2
  <2> QED
    BY <1>2, <1>6, <2>6, <2>8, <2>9 DEF lead, why, g
<1>12. CASE alone = {}
  <2>1. why = IF Cardinality(Side(tied)) > 1 THEN "preference" ELSE "path"
    BY <1>8, <1>9, <1>12 DEF Side
  <2>2. tied # {lead}
    <3>1. K \in 1 .. K
      BY <1>3
    <3> QED
      BY <1>7, <1>8, <1>12, <3>1
  <2>3. Side(tied) \in SUBSET {"in", "out"} /\ Side(tied) # {}
    BY <1>3, <1>8 DEF Side
  <2>4. Cardinality({"in", "out"}) = 2 /\ Cardinality({"in"}) = 1 /\ Cardinality({"out"}) = 1
    <3>1. IsFiniteSet({"in"}) /\ Cardinality({"in"}) = 1 /\ Cardinality({"out"}) = 1
      BY FS_Singleton
    <3>2. {"in", "out"} = {"in"} \cup {"out"} /\ "out" \notin {"in"}
      OBVIOUS
    <3> QED
      BY <3>1, <3>2, FS_AddElement
  <2>5. Side(tied) = {"in", "out"} \/ Side(tied) = {"in"} \/ Side(tied) = {"out"}
    BY <2>3
  <2>6. (why = "preference") = (Side(tied) = {"in", "out"})
    <3> HIDE DEF tied
    <3>1. CASE Side(tied) = {"in", "out"}
      <4>1. why = "preference"
        BY <2>1, <2>4, <3>1
      <4> QED
        BY <3>1, <4>1
    <3>2. CASE Side(tied) # {"in", "out"}
      <4>1. why = "path"
        BY <2>1, <2>4, <2>5, <3>2
      <4>2. "path" # "preference"
        OBVIOUS
      <4> QED
        BY <3>2, <4>1, <4>2
    <3> QED
      BY <3>1, <3>2
  <2>7. ASSUME why = "preference" PROVE PrefRank(lead) = 1
    <3>1. Side(tied) = {"in", "out"}
      BY <2>6, <2>7
    <3>2. PICK a \in tied : coll.home[a] # coll.home[lead]
      <4>1. \E x \in Side(tied) : x # coll.home[lead]
        BY <3>1
      <4> QED
        BY <4>1 DEF Side
    <3>3. a \in g /\ a # lead /\ coll.key[a] = coll.key[lead]
      BY <3>2
    <3>4. Better(lead, a) /\ ~KeyGreater(coll.key[lead], coll.key[a])
      BY <1>2, <1>6, <3>3
    <3>5. PrefRank(lead) # PrefRank(a)
      <4>1. coll.prefer \in BOOLEAN
        BY <1>1, CollectionAssumption
      <4> QED
        BY <1>2, <1>3, <3>2, <3>3, <4>1 DEF PrefRank
    <3>6. PrefRank(lead) \in {0, 1} /\ PrefRank(a) \in {0, 1}
      BY DEF PrefRank
    <3> QED
      BY <3>4, <3>5, <3>6 DEF Better
  <2> QED
    BY <1>2, <1>6, <2>1, <2>2, <2>6, <2>7 DEF lead, why, g
<1> QED
  BY <1>11, <1>12

(***************************************************************************)
(* The figures.                                                            *)
(***************************************************************************)
LEMMA ThirdsCover ==
  ASSUME NEW lo \in Int, NEW hi \in Int, NEW d \in lo .. hi
  PROVE  \E bin \in Thirds(lo, hi) : bin[1] <= d /\ d <= bin[2]
<1> DEFINE span == hi - lo + 1
           a == lo + span \div 3 - 1
           b == lo + (2 * span) \div 3 - 1
<1>1. a \in Int /\ b \in Int
  OBVIOUS
<1>2. Thirds(lo, hi) = {<<lo, a>>, <<a + 1, b>>, <<b + 1, hi>>}
  BY DEF Thirds
<1> HIDE DEF a, b
<1>3. CASE d <= a
  <2>1. <<lo, a>> \in Thirds(lo, hi)
    BY <1>2
  <2> QED
    BY <1>3, <2>1
<1>4. CASE ~(d <= a) /\ d <= b
  <2>1. <<a + 1, b>> \in Thirds(lo, hi) /\ a + 1 <= d
    BY <1>1, <1>2, <1>4
  <2> QED
    BY <1>4, <2>1
<1>5. CASE ~(d <= b)
  <2>1. <<b + 1, hi>> \in Thirds(lo, hi) /\ b + 1 <= d
    BY <1>1, <1>2, <1>5
  <2> QED
    BY <2>1
<1> QED
  BY <1>3, <1>4, <1>5

\* A group that neither count of the make-up has lost its members in the root.
LEMMA MixedOrInternal ==
  ASSUME NearInv, phase = "staged", NEW g \in groups \ (AllInternal \cup Mixed)
  PROVE  \E a \in Filed(g) \ listed : coll.home[a] = "in"
<1>1. PICK a \in Filed(g) : coll.home[a] = "in"
  BY StagedGroups
<1>2. ASSUME a \in listed PROVE FALSE
  <2>1. \A x \in g : coll.home[x] \in {"in", "out"}
    <3>1. g \in SUBSET Pool /\ coll \in Collections
      BY StagedGroups
    <3> QED
      BY <3>1, KeysOf
  <2>2. a \in g \cap listed
    BY <1>2 DEF Filed
  <2>3. Side(g \cap listed) \in SUBSET {"in", "out"} /\ "in" \in Side(g \cap listed)
    BY <1>1, <2>1, <2>2 DEF Side
  <2>4. Side(g \cap listed) = {"in"} \/ Side(g \cap listed) = {"in", "out"}
    BY <2>3
  <2> QED
    BY <2>4 DEF AllInternal, Mixed
<1> QED
  BY <1>1, <1>2

\* The suggested copy of a group is a member of it, and has a home.
LEMMA LeadsAt ==
  ASSUME NearInv, phase = "staged", stage = Recompress, NEW g \in groups
  PROVE  /\ Suggestion(g) \in g /\ Suggestion(g) \in Pool
         /\ coll.home[Suggestion(g)] \in {"in", "out"}
<1>1. Filed(g) \in SUBSET Pool /\ Filed(g) # {} /\ coll \in Collections
  BY StagedGroups
<1>2. Suggestion(g) \in Filed(g)
  BY <1>1, LeadIsBest
<1> QED
  BY <1>1, <1>2, KeysOf DEF Filed

LEMMA LeadsOnOneSide ==
  ASSUME NearInv, phase = "staged", stage = Recompress
  PROVE  Cardinality(LeadsIn) + Cardinality(LeadsOut) = Cardinality({g \in Mixed : Led(g)})
<1> DEFINE M == {g \in Mixed : Led(g)}
<1>1. \A g \in groups : coll.home[Suggestion(g)] \in {"in", "out"}
  BY LeadsAt
<1>2. M = LeadsIn \cup LeadsOut
  BY <1>1 DEF Mixed, LeadsIn, LeadsOut
<1>3. LeadsIn \cap LeadsOut = {}
  BY DEF LeadsIn, LeadsOut
<1>4. LeadsIn \in SUBSET groups /\ LeadsOut \in SUBSET groups /\ IsFiniteSet(groups)
  BY StagedGroups DEF LeadsIn, LeadsOut, Mixed
<1>5. IsFiniteSet(LeadsIn) /\ IsFiniteSet(LeadsOut)
  BY <1>4, FS_Subset
<1> HIDE DEF M
<1>6. Cardinality(M) = Cardinality(LeadsIn) + Cardinality(LeadsOut) - Cardinality({})
  BY <1>2, <1>3, <1>5, FS_Union
<1>7. Cardinality(LeadsIn) \in Nat /\ Cardinality(LeadsOut) \in Nat /\ Cardinality({}) = 0
  BY <1>5, FS_EmptySet, FS_CardinalityType
<1> QED
  BY <1>6, <1>7 DEF M

\* No file is suggested for two groups.
LEMMA OneKeptPerGroup ==
  ASSUME NearInv, phase = "staged", stage = Recompress
  PROVE  Cardinality(KeepSuggestedDeletes)
            = Cardinality(listed) - Cardinality({g \in groups : Led(g)})
<1> DEFINE G == {g \in groups : Led(g)}
           f == [g \in G |-> Suggestion(g)]
           L == {Suggestion(g) : g \in G}
<1>1. IsFiniteSet(listed) /\ IsFiniteSet(G)
  <2>1. IsFiniteSet(UNION groups) /\ IsFiniteSet(groups) /\ listed \subseteq UNION groups
    BY StagedGroups
  <2> QED
    BY <2>1, FS_Subset
<1>2. \A g \in groups : Suggestion(g) \in g
  BY LeadsAt
<1>3. \A g \in G, h \in G : Suggestion(g) = Suggestion(h) => g = h
  <2>1. \A g \in groups, h \in groups : g \cap h # {} => g = h
    BY StagedGroups
  <2> QED
    BY <1>2, <2>1
<1>4. f \in Bijection(G, L)
  <2>1. f \in [G -> L] /\ \A l \in L : \E g \in G : f[g] = l
    OBVIOUS
  <2>2. \A g \in G, h \in G : f[g] = f[h] => g = h
    BY <1>3
  <2> HIDE DEF f, L, G
  <2> QED
    BY <2>1, <2>2 DEF Bijection, Injection, Surjection, IsInjective
<1>5. Cardinality(L) = Cardinality(G)
  BY <1>1, <1>4, FS_Bijection DEF ExistsBijection
<1>6. L \subseteq listed
  BY DEF Led
<1>7. KeepSuggestedDeletes = listed \ L
  BY DEF KeepSuggestedDeletes, Led
<1> HIDE DEF L, G
<1>8. listed \cap L = L
  BY <1>6
<1>9. Cardinality(listed \ L) = Cardinality(listed) - Cardinality(L)
  BY <1>1, <1>8, FS_Difference
<1> QED
  BY <1>5, <1>7, <1>9 DEF G

\* Of every group that has rows one is kept: its lead, or all of them.
LEMMA OneIsKept ==
  ASSUME NearInv, phase = "staged", stage = Recompress, NEW g \in groups, g \cap listed # {}
  PROVE  ~(g \cap listed \subseteq KeepSuggestedIntended)
<1>1. CASE Led(g)
  <2>1. Suggestion(g) \in g \cap listed
    BY <1>1, LeadsAt DEF Led
  <2>2. Suggestion(g) \notin KeepSuggestedIntended
    BY DEF KeepSuggestedIntended, KeepSuggestedDeletes
  <2> QED
    BY <2>1, <2>2
<1>2. CASE ~Led(g)
  <2>1. PICK a \in g \cap listed : TRUE
    OBVIOUS
  <2>2. a \notin KeepSuggestedIntended
    BY <1>2, <2>1 DEF KeepSuggestedIntended
  <2> QED
    BY <2>1, <2>2
<1> QED
  BY <1>1, <1>2

LEMMA NearestInBand ==
  ASSUME NearInv, phase = "staged", NEW a \in Paired
  PROVE  \E b \in Pool : /\ NearestDistance(a) = Distance(a, b)
                         /\ Distance(a, b) \in 0 .. 256
                         /\ Matches(a, b) /\ InBand(Distance(a, b))
<1> DEFINE D == {edges[{a, b}] : b \in Neighbours(a)}
<1>1. NearTyped /\ PairsRight /\ coll \in Collections
  BY DEF NearInv, NearTyped
<1>2. Neighbours(a) # {} /\ Neighbours(a) \subseteq Pool /\ a \in Pool
  BY <1>1, Neighbourhood DEF NearTyped
<1>3. ASSUME NEW b \in Neighbours(a)
      PROVE  /\ Matches(a, b) /\ InBand(Distance(a, b)) /\ edges[{a, b}] = Distance(a, b)
             /\ Distance(a, b) \in 0 .. 256
  <2>1. Matches(a, b) /\ InBand(Distance(a, b)) /\ edges[{a, b}] = Distance(a, b)
    BY Pairs
  <2> QED
    BY <1>1, <1>2, <2>1, PairFacts
<1>4. D \in SUBSET (0 .. 256) /\ D # {}
  BY <1>2, <1>3
<1>6. NearestDistance(a) = Min(D)
  BY DEF NearestDistance
<1>7. \A d \in D : \E b \in Neighbours(a) : d = edges[{a, b}]
  OBVIOUS
<1> HIDE DEF D
<1>5. D \in SUBSET Nat /\ \A d \in D : d <= 256
  BY <1>4
<1>8. IsFiniteSet(D)
  <2>1. 256 \in Nat
    OBVIOUS
  <2> QED
    BY <1>5, <2>1, FS_BoundedSetOfNaturals
<1>9. Min(D) \in D
  BY <1>4, <1>5, <1>8, LeastOf
<1>10. PICK b \in Neighbours(a) : NearestDistance(a) = edges[{a, b}]
  BY <1>6, <1>7, <1>9
<1> QED
  BY <1>2, <1>3, <1>10

LEMMA EveryoneCounted ==
  ASSUME NearInv, phase = "staged", cfg = opened
  PROVE  Counted = listed
<1>1. coll \in Collections /\ opened \in Configs /\ stage \in {Recompress, Edit}
      /\ listed \subseteq Paired
  BY StagedGroups DEF NearInv, NearTyped
<1>2. opened.recompress \in Nat /\ opened.edit \in Nat
  BY <1>1, ThresholdAssumption
<1>3. ASSUME NEW a \in Paired
      PROVE  \E bin \in Bins : bin[1] <= NearestDistance(a) /\ NearestDistance(a) <= bin[2]
  <2> DEFINE d == NearestDistance(a)
  <2>1. PICK b \in Pool : /\ d = Distance(a, b) /\ d \in 0 .. 256
                          /\ Matches(a, b) /\ InBand(Distance(a, b))
    BY NearestInBand
  <2> HIDE DEF d
  <2>2. CASE coll.medium = "video"
    <3>1. Bins = Thirds(0, Video.match) \cup {<<Video.match + 1, 1000>>}
      BY <2>2 DEF Bins, StageBins
    <3>2. Video.match \in Nat
      BY VideoAssumption
    <3>3. CASE d <= Video.match
      <4>1. d \in 0 .. Video.match
        BY <2>1, <3>2, <3>3
      <4> QED
        BY <3>1, <3>2, <4>1, ThirdsCover DEF d
    <3>4. CASE ~(d <= Video.match)
      <4>1. <<Video.match + 1, 1000>> \in Bins /\ Video.match + 1 <= d /\ d <= 1000
        BY <2>1, <3>1, <3>2, <3>4
      <4> QED
        BY <4>1 DEF d
    <3> QED
      BY <3>3, <3>4
  <2>3. CASE coll.medium # "video" /\ stage = Recompress
    <3>1. Bins = Thirds(0, opened.recompress)
      BY <2>3 DEF Bins, StageBins
    <3>2. d \in 0 .. opened.recompress
      BY <1>2, <2>1, <2>3 DEF InBand
    <3> QED
      BY <1>2, <3>1, <3>2, ThirdsCover DEF d
  <2>4. CASE coll.medium # "video" /\ stage # Recompress
    <3>1. Bins = Thirds(opened.recompress + 1, opened.edit)
      BY <2>4 DEF Bins, StageBins
    <3>2. coll.medium = "photo"
      BY <1>1, <2>4, CollectionAssumption
    <3>3. d <= opened.edit
      BY <2>1, <3>2 DEF Matches, PhotoMatches, Distance
    <3>4. d > opened.recompress
      BY <2>1, <2>4 DEF InBand
    <3>5. d \in opened.recompress + 1 .. opened.edit
      BY <1>2, <2>1, <3>3, <3>4
    <3> QED
      BY <1>2, <3>1, <3>5, ThirdsCover DEF d
  <2> QED
    BY <2>2, <2>3, <2>4
<1> QED
  BY <1>1, <1>3 DEF Counted

LEMMA FiguresRight == NearInv => FiguresAddUp
<1> SUFFICES ASSUME NearInv, phase = "staged" PROVE FiguresAddUp
  BY DEF FiguresAddUp
<1>1. (\A g \in groups : Led(g)) => KeepSuggestedIntended = KeepSuggestedDeletes
  BY DEF KeepSuggestedIntended, KeepSuggestedDeletes
<1> QED
  BY <1>1, MixedOrInternal, LeadsOnOneSide, OneKeptPerGroup, OneIsKept, EveryoneCounted
     DEF FiguresAddUp

(***************************************************************************)
(* What the user has seen.                                                 *)
(***************************************************************************)
LEMMA ShownRight == NearInv => PairsShownOnce
<1> SUFFICES ASSUME NearInv, config = opened PROVE PairsShownOnce
  BY DEF PairsShownOnce
<1>1. ShownOnce /\ ShownAll /\ NearTyped /\ NearFlow
  BY DEF NearInv, Shown
<1>2. ASSUME NEW p, <<p, Recompress>> \in shown, <<p, Edit>> \in shown PROVE FALSE
  <2>1. PICK a \in Pool, b \in Pool :
            a # b /\ <<p, Recompress>> = <<{a, b}, StageOf(Distance(a, b))>>
    BY <1>1, <1>2 DEF ShownOnce
  <2>2. PICK c \in Pool, d \in Pool :
            c # d /\ <<p, Edit>> = <<{c, d}, StageOf(Distance(c, d))>>
    BY <1>1, <1>2 DEF ShownOnce
  <2>3. {a, b} = {c, d} /\ StageOf(Distance(a, b)) = Recompress
        /\ StageOf(Distance(c, d)) = Edit
    BY <2>1, <2>2
  <2>4. (a = c /\ b = d) \/ (a = d /\ b = c)
    BY <2>1, <2>2, <2>3
  <2>5. Distance(a, b) = Distance(c, d)
    BY <1>1, <2>4, PairFacts DEF NearTyped
  <2> QED
    BY <2>3, <2>5 DEF Recompress, Edit
<1>3. ASSUME phase = "over", NEW a \in InRoot, NEW b \in present \ {a}, Matches(a, b),
             {a, b} \cap (coll.bare \cup coll.unlinkable) = {}
      PROVE  \E s \in {Recompress, Edit} : <<{a, b}, s>> \in shown
  <2>1. StageOf(Distance(a, b)) \in {Recompress, Edit}
    BY DEF StageOf
  <2>2. Staged(StageOf(Distance(a, b)))
    BY <1>1, <1>3, <2>1 DEF Staged, NearFlow
  <2>3. a \in Sound /\ b \in Sound
    BY <1>1, <1>3 DEF Sound, NearTyped, InRoot
  <2> QED
    BY <1>1, <1>3, <2>1, <2>2, <2>3 DEF ShownAll
<1> QED
  BY <1>2, <1>3 DEF PairsShownOnce

\* The groups staged are the connected components of the near pairs, for any
\* collection and any thresholds.
THEOREM GroupsAreComponentsHolds == NearSpec => []GroupsAreComponents
BY NearInductive, GroupsRight, PTL

\* No copy of a group is better by the key than the suggested one, and the
\* reason given for it is the one that decided.
THEOREM LeadIsMasterHolds == NearSpec => []LeadIsMaster
BY NearInductive, LeadRight, PTL

\* The figures of a staged review agree with each other and with what a confirm
\* does, but for what the members explain that got no row (review_stats.py,
\* _keep_suggested_intended).
THEOREM FiguresAddUpHolds == NearSpec => []FiguresAddUp
BY NearInductive, FiguresRight, PTL

\* With the thresholds left alone a pair is shown in one stage, and none that
\* remains has been skipped when the run is over, but for one with a member that
\* has no file or may have got no shortcut (_plan_perceptual, _materialize).
THEOREM PairsShownOnceHolds == NearSpec => []PairsShownOnce
BY NearInductive, ShownRight, PTL

=============================================================================
