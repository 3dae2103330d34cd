--------------------------- MODULE MergeRunProofs ---------------------------
(***************************************************************************)
(* Proofs about MergeRun, for any sources, destination and number of       *)
(* mishaps: what the catalog says of a merged file is true, a copy lands   *)
(* on a free name, a content comes in once, and a run that closes has      *)
(* catalogued its plan.                                                    *)
(***************************************************************************)
EXTENDS MergeRun, FiniteSetTheorems, WellFoundedInduction, TLAPS

Held == Contents \cup {Nothing}
Classes == {"none", "new", "dup-in-source", "trashed", "exact-known"}
Steps == {"none", "pending", "error", "copied", "registered", "copied-unindexed", "skipped"}
ItemType == [hash : Held, cls : Classes, prog : Steps, at : 0 .. MaxSuffix]

InHand == pc \in {"copy", "verify", "mark", "register"}
Loop   == pc = "items" \/ InHand

Typed ==
    /\ setting \in Settings
    /\ src \in [Sources -> [Rels -> Held]] /\ disk \in [Names -> Held]
    /\ inbox \subseteq Contents /\ bin \subseteq Contents
    /\ fate \in [Contents -> {"unknown", "active", "trashed"}]
    /\ inst \in [Names -> Held]
    /\ run \in {"none", "planning", "copying", "done"}
    /\ from \in Sources /\ arg \in Sources
    /\ item \in [Rels -> ItemType]
    /\ pc \in {"idle", "refresh", "scan", "hash"} \/ Loop
    /\ todo \subseteq Rels
    /\ InHand => cur \in Rels /\ name \in Names /\ name[1] = cur
    /\ new \in Nat /\ unindexed \in Nat
    /\ used \in [Mishaps -> Nat]
    /\ placed \subseteq Names /\ touched \subseteq Names

(***************************************************************************)
(* Where the handler of a run is, and what that says of its plan.          *)
(***************************************************************************)
Course ==
    /\ pc \in {"scan", "hash"} => run = "planning"
    /\ Loop => run = "copying"
    /\ ~Loop => new = 0 /\ unindexed = 0
    /\ run = "planning" => \A r \in Rels : /\ item[r].cls = "none"
                                           /\ item[r].prog \in {"none", "pending", "error"}
    /\ \A r \in Rels :
          /\ item[r].prog \in {"copied", "registered", "copied-unindexed"} => item[r].cls = "new"
          /\ item[r].hash # Nothing => item[r].prog # "none"
          /\ item[r].cls # "none" => item[r].hash # Nothing
    /\ \A q, r \in Rels :
          item[q].cls = "new" /\ item[r].cls = "new" /\ item[q].hash = item[r].hash => q = r
    /\ InHand => item[cur].cls = "new" /\ cur \notin todo /\ item[cur].prog \notin Terminal
    /\ pc = "register" => item[cur].prog = "copied" /\ item[cur].at = name[2]
    /\ used["cancels"] = 0 => cancelled = "no"

(***************************************************************************)
(* What the catalog and the plan say of the destination.                   *)
(***************************************************************************)
Truth ==
    /\ \A n \in Names \ touched : inst[n] # Nothing => disk[n] = inst[n]
    /\ pc \in {"copy", "verify"} => name \in touched \/ disk[name] = Nothing
    /\ pc \in {"mark", "register"} => name \in touched \/ disk[name] = item[cur].hash
    /\ \A r \in Rels : item[r].prog = "copied" =>
          <<r, item[r].at>> \in touched \/ disk[<<r, item[r].at>>] = item[r].hash
    /\ \A n \in Names : inst[n] # Nothing => fate[inst[n]] # "unknown"

(***************************************************************************)
(* What became of each content of a plan that is being copied.             *)
(***************************************************************************)
Dealt(r) == item[r].prog \in {"registered", "copied-unindexed", "error"}

Account ==
    /\ run = "copying" => \A r \in Rels :
          /\ item[r].hash # Nothing => \E q \in Rels :
                item[q].hash = item[r].hash /\ item[q].cls \in {"new", "trashed", "exact-known"}
          /\ item[r].cls = "trashed" => fate[item[r].hash] = "trashed"
          /\ item[r].cls = "exact-known" => fate[item[r].hash] # "unknown" \/ touched # {}
          /\ item[r].prog = "registered" => inst[<<r, item[r].at>>] = item[r].hash
          /\ item[r].prog = "copied-unindexed" => r \in setting.ignored
    /\ Loop =>
          /\ \A r \in Rels \ todo : item[r].cls = "new" => Dealt(r) \/ (InHand /\ r = cur)
          /\ new >= unindexed
          /\ (\E r \in Rels \ todo : item[r].prog = "registered") => new > unindexed

(***************************************************************************)
(* Which copies there are of a content that is still to be copied.         *)
(***************************************************************************)
Placed == placed \ (touched \cup setting.ignored \X (0 .. MaxSuffix))
Smooth == \A k \in {"halts", "cancels", "faults"} : used[k] = 0

Single ==
    /\ \A m \in placed \ touched : disk[m] # Nothing
    /\ used["halts"] = 0 /\ used["cancels"] = 0 /\ run = "copying" => Loop
    /\ GapClosed /\ (used["faults"] = 0 \/ pc = "hash") =>
          \A m \in Placed : inst[m] = disk[m] \/ (pc \in {"mark", "register"} /\ m = name)
    /\ GapClosed /\ run = "copying" =>
          \A r \in Rels : item[r].cls = "new" => \A m \in Placed : disk[m] = item[r].hash =>
             /\ m[1] = r
             /\ \/ item[r].prog \in Terminal
                \/ pc \in {"mark", "register"} /\ r = cur
                \/ /\ item[r].prog = "error" /\ used["faults"] = 1
                   /\ r \notin todo /\ ~(InHand /\ r = cur)
    /\ GapClosed => \A m, n \in Placed : disk[m] = disk[n] => m = n
    /\ Smooth /\ run = "copying" =>
          \A r \in Rels : item[r].cls = "new" => fate[item[r].hash] # "trashed"

IInv == Typed /\ Course /\ Truth /\ Account /\ Single

(***************************************************************************)
(* Paths, names, and the first of several                                  *)
(***************************************************************************)
LEMMA HasFirst ==
  ASSUME NEW S \in SUBSET Nat, IsFiniteSet(S), S # {}
  PROVE  First(S) \in S /\ \A y \in S : First(S) <= y
<1> DEFINE R == StrictSubsetOrdering(S)
           Below(x) == {y \in S : y <= x}
           T == {Below(x) : x \in S}
<1>1. \A x \in S : x \in Nat
  OBVIOUS
<1>2. T # {} /\ T \subseteq FiniteSubsetsOf(S)
  <2>1. ASSUME NEW x \in S PROVE Below(x) \in SUBSET S /\ IsFiniteSet(Below(x))
    BY FS_Subset
  <2> HIDE DEF Below
  <2> QED
    BY <2>1 DEF FiniteSubsetsOf
<1>3. PICK U \in T : \A V \in T : <<V, U>> \notin R
  <2> HIDE DEF R, T
  <2>1. IsWellFoundedOn(R, FiniteSubsetsOf(S))
    BY FS_StrictSubsetOrderingWellFounded DEF R
  <2> QED
    BY <1>2, <2>1, WFMin
<1>4. PICK x \in S : U = Below(x)
  BY <1>3
<1>5. ASSUME NEW y \in S PROVE x <= y
  <2> SUFFICES ASSUME y < x PROVE FALSE
    BY <1>1
  <2>1. x \in Nat /\ y \in Nat
    BY <1>1
  <2>2. ASSUME NEW z \in S, z <= y PROVE z <= x
    BY <1>1, <2>1, <2>2
  <2>3. Below(y) \subseteq Below(x)
    BY <2>2, Zenon
  <2>4. x \notin Below(y) /\ x <= x
    BY <2>1
  <2>5. x \in Below(x)
    BY <2>4, Zenon
  <2>6. <<Below(y), U>> \in R
    BY <1>4, <2>3, <2>4, <2>5 DEF StrictSubsetOrdering
  <2> QED
    BY <1>3, <2>6
<1> QED
  BY <1>5 DEF First

LEMMA FirstPath ==
  ASSUME NEW S \in SUBSET Rels, S # {}
  PROVE  First(S) \in S /\ \A y \in S : First(S) <= y
<1>1. S \in SUBSET Nat /\ IsFiniteSet(S)
  BY MergeAssumption, FS_Subset
<1> QED
  BY <1>1, HasFirst

LEMMA FirstSuffix ==
  ASSUME NEW S \in SUBSET (1 .. MaxSuffix), S # {}
  PROVE  First(S) \in S
<1>1. IsFiniteSet(1 .. MaxSuffix)
  BY MergeAssumption, FS_Interval
<1>2. IsFiniteSet(S)
  BY <1>1, FS_Subset
<1>3. 1 .. MaxSuffix \subseteq Nat
  BY MergeAssumption
<1> QED
  BY <1>2, <1>3, HasFirst

LEMMA NameParts ==
  /\ \A n \in Names : n[1] \in Rels /\ n[2] \in 0 .. MaxSuffix /\ n = <<n[1], n[2]>>
  /\ \A r \in Rels, k \in 0 .. MaxSuffix :
        <<r, k>> \in Names /\ <<r, k>>[1] = r /\ <<r, k>>[2] = k
BY DEF Names

LEMMA Spends ==
  ASSUME Typed, NEW k \in Mishaps, Spend(k)
  PROVE  /\ used' \in [Mishaps -> Nat] /\ setting' = setting
         /\ used'[k] = used[k] + 1
         /\ \A j \in Mishaps \ {k} : used'[j] = used[j]
BY DEF Typed, Spend

LEMMA Kinds ==
  /\ {"halts", "cancels", "faults", "drops", "edits", "moves"} \subseteq Mishaps
  /\ Nothing \notin Contents /\ Rels \subseteq Nat /\ MaxSuffix \in Nat
BY MergeAssumption DEF Mishaps

(***************************************************************************)
(* Every step keeps the invariant                                          *)
(***************************************************************************)
LEMMA BeginKeeps ==
  ASSUME IInv, NEW s \in Sources, NEW preview \in BOOLEAN, Begin(s, preview)
  PROVE  IInv'
<1>1. Typed /\ Course /\ Truth /\ Account /\ Single
  BY DEF IInv
<1>2. /\ pc = "idle"
      /\ arg' = s
      /\ pc' = "refresh"
      /\ bin' = inbox
      /\ UNCHANGED <<setting, src, disk, inbox, fate, inst, run, from, item, cancelled, todo, cur,
                   name, new, unindexed, used, placed, touched>>
  BY DEF Begin, files, catalog, plan, task, hand, tally, luck, history
<1>3. Placed' = Placed /\ (GapClosed' <=> GapClosed) /\ (Smooth' <=> Smooth)
  BY <1>2 DEF Placed, GapClosed, Smooth
<1>11. Typed'
  BY <1>1, <1>2, <1>3 DEF Typed, InHand, Loop
<1>12. Course'
  BY <1>1, <1>2, <1>3 DEF Typed, Course, InHand, Loop, Terminal
<1>13. Truth'
  BY <1>1, <1>2, <1>3 DEF Typed, Truth
<1>14. Account'
  BY <1>1, <1>2, <1>3 DEF Account, InHand, Loop, Dealt
<1>15. Single'
  BY <1>1, <1>2, <1>3 DEF Single, InHand, Loop
<1> QED
  BY <1>11, <1>12, <1>13, <1>14, <1>15 DEF IInv

LEMMA PreviewKeeps ==
  ASSUME IInv, Preview
  PROVE  IInv'
<1>1. Typed /\ Course /\ Truth /\ Account /\ Single
  BY DEF IInv
<1>2. /\ pc = "refresh"
      /\ pc' = "idle"
      /\ arg' = from
      /\ todo' = {}
      /\ bin' = {}
      /\ cur' = 0
      /\ name' = <<0, 0>>
      /\ new' = 0
      /\ unindexed' = 0
      /\ cancelled' = "no"
      /\ UNCHANGED <<setting, src, disk, inbox, fate, inst, run, from, item, used, placed, touched>>
  BY DEF Preview, files, catalog, plan, task, hand, tally, luck, history, Ends
<1>3. Placed' = Placed /\ (GapClosed' <=> GapClosed) /\ (Smooth' <=> Smooth)
  BY <1>2 DEF Placed, GapClosed, Smooth
<1>11. Typed'
  BY <1>1, <1>2, <1>3 DEF Typed, InHand, Loop
<1>12. Course'
  BY <1>1, <1>2, <1>3 DEF Typed, Course, InHand, Loop, Terminal
<1>13. Truth'
  BY <1>1, <1>2, <1>3 DEF Typed, Truth
<1>14. Account'
  BY <1>1, <1>2, <1>3 DEF Account, InHand, Loop, Dealt
<1>15. Single'
  BY <1>1, <1>2, <1>3 DEF Single, InHand, Loop
<1> QED
  BY <1>11, <1>12, <1>13, <1>14, <1>15 DEF IInv

LEMMA SeesCancelKeeps ==
  ASSUME IInv, SeesCancel
  PROVE  IInv'
<1>1. Typed /\ Course /\ Truth /\ Account /\ Single
  BY DEF IInv
<1>2. /\ cancelled # "no"
      /\ pc \in {"hash", "items", "refresh"}
      /\ pc' = "idle"
      /\ arg' = from
      /\ todo' = {}
      /\ bin' = {}
      /\ cur' = 0
      /\ name' = <<0, 0>>
      /\ new' = 0
      /\ unindexed' = 0
      /\ cancelled' = "no"
      /\ UNCHANGED <<setting, src, disk, inbox, fate, inst, run, from, item, used, placed, touched>>
  BY DEF SeesCancel, files, catalog, plan, task, hand, tally, luck, history, Ends
<1>3. Placed' = Placed /\ (GapClosed' <=> GapClosed) /\ (Smooth' <=> Smooth)
  BY <1>2 DEF Placed, GapClosed, Smooth
<1>4. used["cancels"] # 0 /\ "cancels" \in Mishaps
  BY <1>1, <1>2, Kinds DEF Course
<1>11. Typed'
  BY <1>1, <1>2, <1>3 DEF Typed, InHand, Loop
<1>12. Course'
  BY <1>1, <1>2, <1>3 DEF Typed, Course, InHand, Loop, Terminal
<1>13. Truth'
  BY <1>1, <1>2, <1>3 DEF Typed, Truth
<1>14. Account'
  BY <1>1, <1>2, <1>3 DEF Account, InHand, Loop, Dealt
<1>15. Single'
  <2>1. GapClosed => used["faults"] = 0
    BY <1>1, <1>4, Kinds DEF Typed, GapClosed
  <2> QED
    BY <1>1, <1>2, <1>3, <1>4, <2>1 DEF Single, InHand, Loop, Smooth
<1> QED
  BY <1>11, <1>12, <1>13, <1>14, <1>15 DEF IInv

LEMMA RaisesKeeps ==
  ASSUME IInv, Raises
  PROVE  IInv'
<1>1. Typed /\ Course /\ Truth /\ Account /\ Single
  BY DEF IInv
<1>2. /\ pc \in {"refresh", "scan", "hash"}
      /\ Spend("faults")
      /\ pc' = "idle"
      /\ arg' = from
      /\ todo' = {}
      /\ bin' = {}
      /\ cur' = 0
      /\ name' = <<0, 0>>
      /\ new' = 0
      /\ unindexed' = 0
      /\ cancelled' = "no"
      /\ UNCHANGED <<src, disk, inbox, fate, inst, run, from, item, placed, touched>>
  BY DEF Raises, files, catalog, plan, task, hand, tally, luck, history, Ends
<1>3. /\ used' \in [Mishaps -> Nat] /\ setting' = setting
      /\ used'["faults"] = used["faults"] + 1
      /\ \A k \in Mishaps \ {"faults"} : used'[k] = used[k]
  BY <1>1, <1>2, Spends, Kinds
<1>4. Placed' = Placed
  BY <1>2, <1>3 DEF Placed
<1>11. Typed'
  BY <1>1, <1>2, <1>3, <1>4 DEF Typed, InHand, Loop
<1>12. Course'
  BY <1>1, <1>2, <1>3, <1>4 DEF Typed, Course, InHand, Loop, Terminal, Mishaps
<1>13. Truth'
  BY <1>1, <1>2, <1>3, <1>4 DEF Typed, Truth
<1>14. Account'
  BY <1>1, <1>2, <1>3, <1>4 DEF Account, InHand, Loop, Dealt
<1>15. Single'
  <2>1. /\ ~Smooth' /\ used'["faults"] # 0 /\ (GapClosed' => GapClosed)
        /\ used'["halts"] = used["halts"] /\ used'["cancels"] = used["cancels"]
        /\ GapClosed' => used'["faults"] = 1 /\ used["faults"] = 0
    BY <1>1, <1>3, Kinds DEF Typed, GapClosed, Smooth
  <2> QED
    BY <1>1, <1>2, <1>3, <1>4, <2>1 DEF Single, InHand, Loop
<1> QED
  BY <1>11, <1>12, <1>13, <1>14, <1>15 DEF IInv

LEMMA HaltKeeps ==
  ASSUME IInv, Halt
  PROVE  IInv'
<1>1. Typed /\ Course /\ Truth /\ Account /\ Single
  BY DEF IInv
<1>2. /\ pc # "idle"
      /\ Spend("halts")
      /\ pc' = "idle"
      /\ arg' = from
      /\ todo' = {}
      /\ bin' = {}
      /\ cur' = 0
      /\ name' = <<0, 0>>
      /\ new' = 0
      /\ unindexed' = 0
      /\ cancelled' = "no"
      /\ UNCHANGED <<src, disk, inbox, fate, inst, run, from, item, placed, touched>>
  BY DEF Halt, files, catalog, plan, task, hand, tally, luck, history, Ends
<1>3. /\ used' \in [Mishaps -> Nat] /\ setting' = setting
      /\ used'["halts"] = used["halts"] + 1
      /\ \A k \in Mishaps \ {"halts"} : used'[k] = used[k]
  BY <1>1, <1>2, Spends, Kinds
<1>4. Placed' = Placed
  BY <1>2, <1>3 DEF Placed
<1>11. Typed'
  BY <1>1, <1>2, <1>3, <1>4 DEF Typed, InHand, Loop
<1>12. Course'
  BY <1>1, <1>2, <1>3, <1>4 DEF Typed, Course, InHand, Loop, Terminal, Mishaps
<1>13. Truth'
  BY <1>1, <1>2, <1>3, <1>4 DEF Typed, Truth
<1>14. Account'
  BY <1>1, <1>2, <1>3, <1>4 DEF Account, InHand, Loop, Dealt
<1>15. Single'
  <2>1. ~Smooth' /\ used'["halts"] # 0 /\ ~GapClosed'
    BY <1>1, <1>3, Kinds DEF Typed, GapClosed, Smooth
  <2> QED
    BY <1>1, <1>2, <1>3, <1>4, <2>1 DEF Single
<1> QED
  BY <1>11, <1>12, <1>13, <1>14, <1>15 DEF IInv

LEMMA CancelKeeps ==
  ASSUME IInv, Cancel
  PROVE  IInv'
<1>1. Typed /\ Course /\ Truth /\ Account /\ Single
  BY DEF IInv
<1>2. /\ pc # "idle"
      /\ Spend("cancels")
      /\ UNCHANGED <<src, disk, inbox, fate, inst, run, from, item, pc, arg, todo, bin, cur, name,
                   new, unindexed, placed, touched>>
  BY DEF Cancel, files, catalog, plan, task, hand, tally, luck, history
<1>3. /\ used' \in [Mishaps -> Nat] /\ setting' = setting
      /\ used'["cancels"] = used["cancels"] + 1
      /\ \A k \in Mishaps \ {"cancels"} : used'[k] = used[k]
  BY <1>1, <1>2, Spends, Kinds
<1>4. Placed' = Placed
  BY <1>2, <1>3 DEF Placed
<1>11. Typed'
  BY <1>1, <1>2, <1>3, <1>4 DEF Typed, InHand, Loop
<1>12. Course'
  BY <1>1, <1>2, <1>3, <1>4 DEF Typed, Course, InHand, Loop, Terminal, Mishaps
<1>13. Truth'
  BY <1>1, <1>2, <1>3, <1>4 DEF Typed, Truth
<1>14. Account'
  BY <1>1, <1>2, <1>3, <1>4 DEF Account, InHand, Loop, Dealt
<1>15. Single'
  <2>1. /\ ~Smooth' /\ used'["cancels"] # 0 /\ (GapClosed' => GapClosed)
        /\ used'["faults"] = used["faults"]
    BY <1>1, <1>3, Kinds DEF Typed, GapClosed, Smooth
  <2> QED
    BY <1>1, <1>2, <1>3, <1>4, <2>1 DEF Single, InHand, Loop
<1> QED
  BY <1>11, <1>12, <1>13, <1>14, <1>15 DEF IInv

LEMMA DedupRunsKeeps ==
  ASSUME IInv, DedupRuns
  PROVE  IInv'
<1>1. Typed /\ Course /\ Truth /\ Account /\ Single
  BY DEF IInv
<1>2. /\ pc = "idle"
      /\ UNCHANGED <<setting, src, disk, inbox, fate, inst, run, from, item, pc, arg, cancelled,
                   todo, bin, cur, name, new, unindexed, used, placed, touched>>
  BY DEF DedupRuns, files, catalog, plan, task, hand, tally, luck, history
<1>3. Placed' = Placed /\ (GapClosed' <=> GapClosed) /\ (Smooth' <=> Smooth)
  BY <1>2 DEF Placed, GapClosed, Smooth
<1>11. Typed'
  BY <1>1, <1>2, <1>3 DEF Typed, InHand, Loop
<1>12. Course'
  BY <1>1, <1>2, <1>3 DEF Typed, Course, InHand, Loop, Terminal
<1>13. Truth'
  BY <1>1, <1>2, <1>3 DEF Typed, Truth
<1>14. Account'
  BY <1>1, <1>2, <1>3 DEF Account, InHand, Loop, Dealt
<1>15. Single'
  BY <1>1, <1>2, <1>3 DEF Single, InHand, Loop
<1> QED
  BY <1>11, <1>12, <1>13, <1>14, <1>15 DEF IInv

LEMMA DropTrashKeeps ==
  ASSUME IInv, NEW c \in setting.brings, DropTrash(c)
  PROVE  IInv'
<1>1. Typed /\ Course /\ Truth /\ Account /\ Single
  BY DEF IInv
<1>2. /\ Spend("drops")
      /\ inbox' = inbox \cup {c}
      /\ UNCHANGED <<src, disk, fate, inst, run, from, item, pc, arg, cancelled, todo, bin, cur,
                   name, new, unindexed, placed, touched>>
  BY DEF DropTrash, files, catalog, plan, task, hand, tally, luck, history
<1>3. /\ used' \in [Mishaps -> Nat] /\ setting' = setting
      /\ used'["drops"] = used["drops"] + 1
      /\ \A k \in Mishaps \ {"drops"} : used'[k] = used[k]
  BY <1>1, <1>2, Spends, Kinds
<1>4. Placed' = Placed
  BY <1>2, <1>3 DEF Placed
<1>5. c \in Contents
  BY <1>1, MergeAssumption DEF Typed
<1>11. Typed'
  BY <1>1, <1>2, <1>3, <1>5 DEF Typed, InHand, Loop
<1>12. Course'
  BY <1>1, <1>2, <1>3, <1>4 DEF Typed, Course, InHand, Loop, Terminal, Mishaps
<1>13. Truth'
  BY <1>1, <1>2, <1>3, <1>4 DEF Typed, Truth
<1>14. Account'
  BY <1>1, <1>2, <1>3, <1>4 DEF Account, InHand, Loop, Dealt
<1>15. Single'
  BY <1>1, <1>2, <1>3, <1>4 DEF Single, InHand, Loop, GapClosed, Smooth, Mishaps
<1> QED
  BY <1>11, <1>12, <1>13, <1>14, <1>15 DEF IInv

LEMMA EditSourceKeeps ==
  ASSUME IInv, NEW s \in Sources, NEW r \in setting.edited, NEW c \in setting.brings \cup {Nothing}, EditSource(s, r, c)
  PROVE  IInv'
<1>1. Typed /\ Course /\ Truth /\ Account /\ Single
  BY DEF IInv
<1>2. /\ Spend("edits")
      /\ src' = [src EXCEPT ![s] = [@ EXCEPT ![r] = c]]
      /\ UNCHANGED <<disk, inbox, fate, inst, run, from, item, pc, arg, cancelled, todo, bin, cur,
                   name, new, unindexed, placed, touched>>
  BY DEF EditSource, files, catalog, plan, task, hand, tally, luck, history
<1>3. /\ used' \in [Mishaps -> Nat] /\ setting' = setting
      /\ used'["edits"] = used["edits"] + 1
      /\ \A k \in Mishaps \ {"edits"} : used'[k] = used[k]
  BY <1>1, <1>2, Spends, Kinds
<1>4. Placed' = Placed
  BY <1>2, <1>3 DEF Placed
<1>5. r \in Rels /\ c \in Held
  BY <1>1, MergeAssumption DEF Typed, Held
<1>11. Typed'
  <2>1. src' \in [Sources -> [Rels -> Held]]
    BY <1>1, <1>2, <1>5 DEF Typed
  <2> QED
    BY <1>1, <1>2, <1>3, <2>1 DEF Typed, InHand, Loop
<1>12. Course'
  BY <1>1, <1>2, <1>3, <1>4 DEF Typed, Course, InHand, Loop, Terminal, Mishaps
<1>13. Truth'
  BY <1>1, <1>2, <1>3, <1>4 DEF Typed, Truth
<1>14. Account'
  BY <1>1, <1>2, <1>3, <1>4 DEF Account, InHand, Loop, Dealt
<1>15. Single'
  BY <1>1, <1>2, <1>3, <1>4 DEF Single, InHand, Loop, GapClosed, Smooth, Mishaps
<1> QED
  BY <1>11, <1>12, <1>13, <1>14, <1>15 DEF IInv

LEMMA EditDestKeeps ==
  ASSUME IInv, NEW n \in Names, NEW c \in setting.brings \cup {Nothing}, EditDest(n, c)
  PROVE  IInv'
<1>1. Typed /\ Course /\ Truth /\ Account /\ Single
  BY DEF IInv
<1>2. /\ Spend("moves")
      /\ disk' = [disk EXCEPT ![n] = c]
      /\ touched' = touched \cup {n}
      /\ UNCHANGED <<src, inbox, fate, inst, run, from, item, pc, arg, cancelled, todo, bin, cur,
                   name, new, unindexed, placed>>
  BY DEF EditDest, files, catalog, plan, task, hand, tally, luck, history
<1>3. /\ used' \in [Mishaps -> Nat] /\ setting' = setting
      /\ used'["moves"] = used["moves"] + 1
      /\ \A k \in Mishaps \ {"moves"} : used'[k] = used[k]
  BY <1>1, <1>2, Spends, Kinds
<1>4. Placed' \subseteq Placed \ {n} /\ \A m \in Names \ {n} : disk'[m] = disk[m]
  BY <1>1, <1>2, <1>3 DEF Placed, Typed
<1>5. c \in Held /\ disk' \in [Names -> Held]
  BY <1>1, <1>2, MergeAssumption DEF Typed, Held
<1>6. \A m \in Placed' : m \in Placed /\ disk'[m] = disk[m]
  BY <1>1, <1>4 DEF Typed, Placed
<1>11. Typed'
  BY <1>1, <1>2, <1>3, <1>5 DEF Typed, InHand, Loop
<1>12. Course'
  BY <1>1, <1>2, <1>3, Kinds DEF Course, InHand, Loop
<1>13. Truth'
  <2>1. InHand => name \in Names
    BY <1>1 DEF Typed
  <2>2. \A r \in Rels : <<r, item[r].at>> \in Names
    BY <1>1, NameParts DEF Typed, ItemType
  <2> QED
    BY <1>1, <1>2, <1>4, <2>1, <2>2 DEF Truth, InHand
<1>14. Account'
  BY <1>1, <1>2, <1>3 DEF Account, InHand, Loop, Dealt
<1>15. Single'
  <2>1. \A m \in placed' \ touched' : m \in placed \ touched /\ disk'[m] = disk[m]
    BY <1>1, <1>2, <1>4 DEF Typed
  <2>2. (GapClosed' <=> GapClosed) /\ (Smooth' <=> Smooth)
    BY <1>3, Kinds DEF GapClosed, Smooth
  <2>3. used'["halts"] = used["halts"] /\ used'["cancels"] = used["cancels"] /\ used'["faults"] = used["faults"]
    BY <1>3, Kinds
  <2> QED
    BY <1>1, <1>2, <1>6, <2>1, <2>2, <2>3 DEF Single, InHand, Loop
<1> QED
  BY <1>11, <1>12, <1>13, <1>14, <1>15 DEF IInv

LEMMA CopyFileKeeps ==
  ASSUME IInv, CopyFile
  PROVE  IInv'
<1>1. Typed /\ Course /\ Truth /\ Account /\ Single
  BY DEF IInv
<1>2. /\ pc = "copy"
      /\ pc' = "verify"
      /\ UNCHANGED <<setting, src, disk, inbox, fate, inst, run, from, item, arg, cancelled, todo,
                   bin, cur, name, new, unindexed, used, placed, touched>>
  BY DEF CopyFile, files, catalog, plan, task, hand, tally, luck, history
<1>3. Placed' = Placed /\ (GapClosed' <=> GapClosed) /\ (Smooth' <=> Smooth)
  BY <1>2 DEF Placed, GapClosed, Smooth
<1>11. Typed'
  BY <1>1, <1>2, <1>3 DEF Typed, InHand, Loop
<1>12. Course'
  BY <1>1, <1>2, <1>3 DEF Typed, Course, InHand, Loop, Terminal
<1>13. Truth'
  BY <1>1, <1>2, <1>3 DEF Typed, Truth
<1>14. Account'
  BY <1>1, <1>2, <1>3 DEF Account, InHand, Loop, Dealt
<1>15. Single'
  BY <1>1, <1>2, <1>3 DEF Single, InHand, Loop
<1> QED
  BY <1>11, <1>12, <1>13, <1>14, <1>15 DEF IInv

LEMMA FinishKeeps ==
  ASSUME IInv, Finish
  PROVE  IInv'
<1>1. Typed /\ Course /\ Truth /\ Account /\ Single
  BY DEF IInv
<1>2. /\ pc = "items"
      /\ todo = {}
      /\ pc' = "idle"
      /\ arg' = from
      /\ todo' = {}
      /\ bin' = {}
      /\ cur' = 0
      /\ name' = <<0, 0>>
      /\ new' = 0
      /\ unindexed' = 0
      /\ cancelled' = "no"
      /\ run' = "done"
      /\ UNCHANGED <<setting, src, disk, inbox, fate, inst, from, item, used, placed, touched>>
  BY DEF Finish, files, catalog, plan, task, hand, tally, luck, history, Ends
<1>3. Placed' = Placed /\ (GapClosed' <=> GapClosed) /\ (Smooth' <=> Smooth)
  BY <1>2 DEF Placed, GapClosed, Smooth
<1>11. Typed'
  BY <1>1, <1>2, <1>3 DEF Typed, InHand, Loop
<1>12. Course'
  BY <1>1, <1>2, <1>3 DEF Typed, Course, InHand, Loop, Terminal
<1>13. Truth'
  BY <1>1, <1>2, <1>3 DEF Typed, Truth
<1>14. Account'
  BY <1>1, <1>2, <1>3 DEF Account, InHand, Loop, Dealt
<1>15. Single'
  BY <1>1, <1>2, <1>3 DEF Single, InHand, Loop
<1> QED
  BY <1>11, <1>12, <1>13, <1>14, <1>15 DEF IInv

LEMMA MarkCopiedKeeps ==
  ASSUME IInv, MarkCopied
  PROVE  IInv'
<1>1. Typed /\ Course /\ Truth /\ Account /\ Single
  BY DEF IInv
<1>2. /\ pc = "mark"
      /\ item' = [item EXCEPT ![cur] = [@ EXCEPT !.prog = "copied", !.at = name[2]]]
      /\ pc' = "register"
      /\ UNCHANGED <<setting, src, disk, inbox, fate, inst, run, from, arg, cancelled, todo, bin,
                   cur, name, new, unindexed, used, placed, touched>>
  BY DEF MarkCopied, files, catalog, plan, task, hand, tally, luck, history
<1>3. Placed' = Placed /\ (GapClosed' <=> GapClosed) /\ (Smooth' <=> Smooth)
  BY <1>2 DEF Placed, GapClosed, Smooth
<1>4. cur \in Rels /\ name \in Names /\ name[1] = cur /\ name[2] \in 0 .. MaxSuffix /\ name = <<cur, name[2]>>
  BY <1>1, <1>2, NameParts DEF Typed, InHand
<1>5. /\ item' \in [Rels -> ItemType]
      /\ item'[cur].prog = "copied" /\ item'[cur].at = name[2]
      /\ \A r \in Rels \ {cur} : item'[r] = item[r]
      /\ \A r \in Rels : item'[r].hash = item[r].hash /\ item'[r].cls = item[r].cls
  BY <1>1, <1>2, <1>4 DEF Typed, ItemType, Steps
<1>11. Typed'
  BY <1>1, <1>2, <1>5 DEF Typed, InHand, Loop
<1>12. Course'
  BY <1>1, <1>2, <1>4, <1>5 DEF Course, InHand, Loop, Terminal
<1>13. Truth'
  BY <1>1, <1>2, <1>4, <1>5 DEF Truth
<1>14. Account'
  BY <1>1, <1>2, <1>4, <1>5 DEF Account, Course, InHand, Loop, Dealt, Terminal
<1>15. Single'
  BY <1>1, <1>2, <1>3, <1>4, <1>5 DEF Single, Course, InHand, Loop, Terminal
<1> QED
  BY <1>11, <1>12, <1>13, <1>14, <1>15 DEF IInv

LEMMA FatesAfter ==
  ASSUME Typed, NEW i \in [Names -> Held], NEW S \in SUBSET Names,
         NEW c \in Contents
  PROVE  /\ FateAfter(i, S)[c] \in {"unknown", "active", "trashed"}
         /\ FateAfter(i, S)[c] = "trashed" <=> fate[c] = "trashed"
         /\ fate[c] # "unknown" /\ (\A n \in Names : inst[n] = c => \E m \in Names : i[m] = c)
               => FateAfter(i, S)[c] # "unknown"
         /\ (\E n \in S : i[n] = c) => FateAfter(i, S)[c] # "unknown"
<1>1. FateAfter(i, S)[c] =
        IF fate[c] = "unknown" /\ \E n \in S : i[n] = c THEN "active"
        ELSE IF /\ fate[c] = "active" /\ c \notin setting.known
                /\ \E n \in Names : inst[n] = c
                /\ \A n \in Names : i[n] # c
        THEN "unknown" ELSE fate[c]
  BY DEF FateAfter
<1>2. fate[c] \in {"unknown", "active", "trashed"}
  BY DEF Typed
<1> QED
  BY <1>1, <1>2

LEMMA ProgressSet ==
  ASSUME Typed, NEW r \in Rels, NEW p \in Steps,
         item' = [item EXCEPT ![r] = [@ EXCEPT !.prog = p]]
  PROVE  /\ item' \in [Rels -> ItemType] /\ item'[r].prog = p
         /\ \A q \in Rels \ {r} : item'[q] = item[q]
         /\ \A q \in Rels : /\ item'[q].hash = item[q].hash /\ item'[q].cls = item[q].cls
                            /\ item'[q].at = item[q].at
BY DEF Typed, ItemType

LEMMA AbsorbKeeps ==
  ASSUME IInv, Absorb
  PROVE  IInv'
<1>1. Typed /\ Course /\ Truth /\ Account /\ Single
  BY DEF IInv
<1>2. /\ pc = "refresh"
      /\ bin # {}
      /\ UNCHANGED <<setting, src, disk, inst, run, from, item, pc, arg, cancelled, todo, cur, name,
                   new, unindexed, used, placed, touched>>
  BY DEF Absorb, files, catalog, plan, task, hand, tally, luck, history
<1>3. Placed' = Placed /\ (GapClosed' <=> GapClosed) /\ (Smooth' <=> Smooth)
  BY <1>2 DEF Placed, GapClosed, Smooth
<1>4. PICK c \in bin : /\ fate' = [fate EXCEPT ![c] = "trashed"] /\ bin' = bin \ {c}
                       /\ inbox' \in {inbox, inbox \ {c}}
  BY DEF Absorb
<1>5. /\ c \in Contents /\ fate' \in [Contents -> {"unknown", "active", "trashed"}]
      /\ \A d \in Contents : fate'[d] = fate[d] \/ fate'[d] = "trashed"
  BY <1>1, <1>4 DEF Typed
<1>6. \A r \in Rels : item[r].hash \in Contents \cup {Nothing}
  BY <1>1 DEF Typed, ItemType, Held
<1>11. Typed'
  BY <1>1, <1>2, <1>4, <1>5 DEF Typed, InHand, Loop
<1>12. Course'
  BY <1>1, <1>2, <1>3 DEF Typed, Course, InHand, Loop, Terminal
<1>13. Truth'
  <2>1. \A n \in Names : inst[n] # Nothing => inst[n] \in Contents
    BY <1>1 DEF Typed, Held
  <2> QED
    BY <1>1, <1>2, <1>5, <2>1 DEF Truth
<1>14. Account'
  BY <1>1, <1>2, <1>5, <1>6 DEF Account, Course, InHand, Loop, Dealt
<1>15. Single'
  <2>1. ~(Smooth /\ run = "copying")
    BY <1>1, <1>2, Kinds DEF Single, InHand, Loop, Smooth
  <2> QED
    BY <1>1, <1>2, <1>3, <2>1 DEF Single, InHand, Loop
<1> QED
  BY <1>11, <1>12, <1>13, <1>14, <1>15 DEF IInv

LEMMA OpenRunKeeps ==
  ASSUME IInv, OpenRun
  PROVE  IInv'
<1>1. Typed /\ Course /\ Truth /\ Account /\ Single
  BY DEF IInv
<1>2. /\ pc = "refresh"
      /\ UNCHANGED <<setting, src, disk, inbox, fate, inst, arg, cancelled, bin, cur, name, new,
                   unindexed, used, placed, touched>>
  BY DEF OpenRun, files, catalog, task, hand, tally, luck, history
<1>3. Placed' = Placed /\ (GapClosed' <=> GapClosed) /\ (Smooth' <=> Smooth)
  BY <1>2 DEF Placed, GapClosed, Smooth
<1>4. CASE run = "copying"
  <2>1. pc' = "items" /\ todo' = {r \in Rels : item[r].prog # "none"} /\ UNCHANGED <<run, from, item>>
    BY <1>4 DEF OpenRun, Open, plan
  <2>2. \A r \in Rels \ todo' : item[r].cls = "none" /\ item[r].prog = "none"
    BY <1>1, <2>1 DEF Course
  <2>3. new = 0 /\ unindexed = 0
    BY <1>1, <1>2 DEF Course, Loop, InHand
  <2>4. GapClosed => used["faults"] = 0
    <3>1. used["halts"] # 0 \/ used["cancels"] # 0
      BY <1>1, <1>2, <1>4 DEF Single, Loop, InHand
    <3>2. used["faults"] \in Nat
      BY <1>1, Kinds DEF Typed
    <3> QED
      BY <3>1, <3>2 DEF GapClosed
  <2>11. Typed'
    BY <1>1, <1>2, <2>1 DEF Typed, InHand, Loop
  <2>12. Course'
    BY <1>1, <1>2, <1>4, <2>1 DEF Course, InHand, Loop
  <2>13. Truth'
    BY <1>1, <1>2, <2>1 DEF Truth
  <2>14. Account'
    BY <1>1, <1>2, <2>1, <2>2, <2>3 DEF Account, InHand, Loop, Dealt
  <2>15. Single'
    BY <1>1, <1>2, <1>3, <2>1, <2>4 DEF Single, InHand, Loop
  <2> QED
    BY <2>11, <2>12, <2>13, <2>14, <2>15 DEF IInv
<1>5. CASE run # "copying"
  <2>1. /\ pc' = "scan" /\ todo' = todo /\ run' = "planning" /\ from' \in Sources
        /\ \/ run = "planning" /\ item' = item
           \/ item' = [r \in Rels |-> NoItem]
    <3>1. CASE Open
      BY <1>1, <1>5, <3>1 DEF OpenRun, Open, plan, Typed
    <3>2. CASE ~Open
      BY <1>1, <1>5, <3>2 DEF OpenRun, Open, Typed
    <3> QED
      BY <3>1, <3>2
  <2>2. /\ item' \in [Rels -> ItemType]
        /\ \A r \in Rels : /\ item'[r].cls = "none" /\ item'[r].prog \in {"none", "pending", "error"}
                           /\ item'[r].hash # Nothing => item'[r].prog # "none"
    <3>1. CASE run = "planning" /\ item' = item
      BY <1>1, <3>1 DEF Typed, Course
    <3>2. CASE item' = [r \in Rels |-> NoItem]
      BY <3>2, Kinds DEF NoItem, ItemType, Held, Classes, Steps
    <3> QED
      BY <2>1, <3>1, <3>2
  <2>11. Typed'
    BY <1>1, <1>2, <2>1, <2>2 DEF Typed, InHand, Loop
  <2>12. Course'
    BY <1>1, <1>2, <2>1, <2>2 DEF Course, InHand, Loop
  <2>13. Truth'
    BY <1>1, <1>2, <2>1, <2>2 DEF Truth
  <2>14. Account'
    BY <1>1, <1>2, <2>1 DEF Account, InHand, Loop
  <2>15. Single'
    BY <1>1, <1>2, <1>3, <2>1 DEF Single, InHand, Loop
  <2> QED
    BY <2>11, <2>12, <2>13, <2>14, <2>15 DEF IInv
<1> QED
  BY <1>4, <1>5

LEMMA ScanDestKeeps ==
  ASSUME IInv, ScanDest
  PROVE  IInv'
<1>1. Typed /\ Course /\ Truth /\ Account /\ Single
  BY DEF IInv
<1>2. /\ pc = "scan"
      /\ pc' = "hash" /\ todo' = Enumerated
      /\ UNCHANGED <<src, disk, inbox, run, from, item, arg, cancelled, bin, cur, name, new,
                   unindexed, placed, touched>>
  BY DEF ScanDest, files, plan, task, hand, tally, history
<1>4. PICK whole \in BOOLEAN, S \in SUBSET Visible :
        /\ IF whole THEN S = Visible /\ UNCHANGED luck
                    ELSE IF cancelled # "no" THEN UNCHANGED luck ELSE Spend("faults")
        /\ inst' = [n \in Names |-> IF n \in S THEN disk[n]
                                    ELSE IF whole THEN Nothing ELSE inst[n]]
        /\ fate' = FateAfter(inst', S)
  BY DEF ScanDest
<1>5. /\ S \subseteq Names /\ inst' \in [Names -> Held]
      /\ \A n \in S : disk[n] # Nothing /\ inst'[n] = disk[n]
      /\ \A n \in Names \ S : inst'[n] = IF whole THEN Nothing ELSE inst[n]
  BY <1>1, <1>4 DEF Typed, Visible, Held
<1>6. /\ setting' = setting /\ used' \in [Mishaps -> Nat]
      /\ \/ used' = used /\ (whole => S = Visible) /\ (whole \/ cancelled # "no")
         \/ /\ used'["faults"] = used["faults"] + 1 /\ ~whole
            /\ \A k \in Mishaps \ {"faults"} : used'[k] = used[k]
  BY <1>1, <1>4, Spends, Kinds DEF luck, Typed
<1>3. Placed' = Placed
  BY <1>2, <1>6 DEF Placed
<1>7. /\ fate' \in [Contents -> {"unknown", "active", "trashed"}]
      /\ \A n \in Names : inst'[n] # Nothing => fate'[inst'[n]] # "unknown"
  <2>1. \A c \in Contents : FateAfter(inst', S)[c] \in {"unknown", "active", "trashed"}
    BY <1>1, <1>5, FatesAfter
  <2>2. ASSUME NEW n \in Names, inst'[n] # Nothing
        PROVE  inst'[n] \in Contents /\ FateAfter(inst', S)[inst'[n]] # "unknown"
    <3>1. inst'[n] \in Contents
      BY <1>5, <2>2 DEF Held
    <3>2. CASE n \in S
      BY <1>1, <1>5, <3>1, <3>2, FatesAfter
    <3>3. CASE n \notin S
      <4>1. inst[n] = inst'[n] /\ fate[inst'[n]] # "unknown"
        BY <1>1, <1>5, <2>2, <3>3 DEF Truth
      <4> QED
        BY <1>1, <1>5, <3>1, <4>1, FatesAfter
    <3> QED
      BY <3>2, <3>3
  <2>3. fate' = FateAfter(inst', S)
    BY <1>4
  <2>4. DOMAIN FateAfter(inst', S) = Contents
    BY DEF FateAfter
  <2>5. FateAfter(inst', S) \in [Contents -> {"unknown", "active", "trashed"}]
    <3>1. FateAfter(inst', S) = [c \in Contents |-> FateAfter(inst', S)[c]]
      BY DEF FateAfter
    <3> QED
      BY <2>1, <3>1
  <2> QED
    BY <2>2, <2>3, <2>5
<1>8. Enumerated \subseteq Rels
  BY DEF Enumerated
<1>11. Typed'
  BY <1>1, <1>2, <1>5, <1>6, <1>7, <1>8 DEF Typed, InHand, Loop
<1>12. Course'
  BY <1>1, <1>2, <1>6, Kinds DEF Course, InHand, Loop
<1>13. Truth'
  BY <1>1, <1>2, <1>5, <1>7 DEF Truth
<1>14. Account'
  BY <1>1, <1>2, Kinds DEF Course, Account, InHand, Loop
<1>15. Single'
  <2>1. run' = "planning"
    BY <1>1, <1>2 DEF Course
  <2>2. ASSUME GapClosed', NEW m \in Placed
        PROVE  inst'[m] = disk[m]
    <3>1. m \in Names /\ m \in placed \ touched /\ disk[m] # Nothing /\ m[1] \notin setting.ignored
      BY <1>1, NameParts DEF Typed, Placed, Single
    <3>2. CASE whole
      <4>1. m \in S
        BY <1>6, <3>1, <3>2 DEF Visible
      <4> QED
        BY <1>5, <4>1
    <3>3. CASE ~whole
      <4>1. GapClosed /\ used["faults"] = 0
        <5>1. CASE used' = used
          BY <1>1, <1>6, <2>2, <3>3, <5>1, Kinds DEF GapClosed, Course, Typed
        <5>2. CASE used' # used
          BY <1>1, <1>6, <2>2, <3>3, <5>2, Kinds DEF GapClosed, Typed
        <5> QED
          BY <5>1, <5>2
      <4>2. inst[m] = disk[m]
        BY <1>1, <1>2, <4>1 DEF Single
      <4> QED
        BY <1>5, <3>1, <3>3, <4>2
    <3> QED
      BY <3>2, <3>3
  <2>3. GapClosed' => GapClosed
    BY <1>1, <1>6, Kinds DEF GapClosed, Typed
  <2> QED
    BY <1>1, <1>2, <1>3, <2>1, <2>2, <2>3 DEF Single, InHand, Loop
<1> QED
  BY <1>11, <1>12, <1>13, <1>14, <1>15 DEF IInv

LEMMA MakesItem ==
  ASSUME NEW h \in Held, NEW p \in Steps
  PROVE  /\ [NoItem EXCEPT !.hash = h, !.prog = p] \in ItemType
         /\ [NoItem EXCEPT !.hash = h, !.prog = p].hash = h
         /\ [NoItem EXCEPT !.hash = h, !.prog = p].prog = p
         /\ [NoItem EXCEPT !.hash = h, !.prog = p].cls = "none"
<1>1. NoItem \in ItemType /\ NoItem.cls = "none"
  BY Kinds DEF NoItem, ItemType, Held, Classes, Steps
<1> QED
  BY <1>1 DEF ItemType

LEMMA HashKeeps ==
  ASSUME IInv, Hash
  PROVE  IInv'
<1>1. Typed /\ Course /\ Truth /\ Account /\ Single
  BY DEF IInv
<1>2. /\ pc = "hash"
      /\ todo # {}
      /\ UNCHANGED <<setting, src, disk, inbox, fate, inst, run, from, pc, arg, cancelled, bin, cur,
                   name, new, unindexed, used, placed, touched>>
  BY DEF Hash, files, catalog, plan, task, hand, tally, luck, history
<1>3. Placed' = Placed /\ (GapClosed' <=> GapClosed) /\ (Smooth' <=> Smooth)
  BY <1>2 DEF Placed, GapClosed, Smooth
<1> DEFINE r == First(todo)
<1>4. r \in todo /\ r \in Rels
  BY <1>1, <1>2, FirstPath DEF Typed
<1>5. \/ item' = item
      \/ item' = [item EXCEPT ![r] = [NoItem EXCEPT !.hash = src[from][r],
                                         !.prog = IF src[from][r] = Nothing THEN "error" ELSE "pending"]]
  BY DEF Hash
<1>6. todo' = todo \ {r} /\ run = "planning" /\ src[from][r] \in Held
  BY <1>1, <1>2, <1>4 DEF Hash, Course, Typed
<1> HIDE DEF r
<1>7. /\ item' \in [Rels -> ItemType]
      /\ \A q \in Rels : /\ item'[q].cls = "none" /\ item'[q].prog \in {"none", "pending", "error"}
                         /\ item'[q].hash # Nothing => item'[q].prog # "none"
  <2>1. CASE item' = item
    BY <1>1, <1>6, <2>1 DEF Typed, Course
  <2>2. CASE item' # item
    <3> DEFINE p == IF src[from][r] = Nothing THEN "error" ELSE "pending"
    <3>1. item'[r] = [NoItem EXCEPT !.hash = src[from][r], !.prog = p]
      BY <1>1, <1>4, <1>5, <2>2 DEF Typed
    <3>7. p \in Steps /\ p \in {"error", "pending"}
      BY DEF Steps
    <3> HIDE DEF p
    <3> DEFINE h == src[from][r]
               i == [NoItem EXCEPT !.hash = h, !.prog = p]
    <3>8. h \in Held /\ item'[r] = i
      BY <1>6, <3>1
    <3> HIDE DEF h
    <3>9. i \in ItemType /\ i.prog = p /\ i.cls = "none"
      BY <3>7, <3>8, MakesItem
    <3> HIDE DEF i
    <3>2. /\ item'[r] \in ItemType /\ item'[r].cls = "none"
          /\ item'[r].prog = p /\ p \in {"error", "pending"}
      BY <3>7, <3>8, <3>9
    <3>3. \A q \in Rels \ {r} : item'[q] = item[q]
      BY <1>1, <1>4, <1>5, <2>2 DEF Typed
    <3>4. item' = [q \in Rels |-> item'[q]]
      BY <1>1, <1>5, <2>2 DEF Typed
    <3>5. \A q \in Rels : item'[q] \in ItemType
      BY <1>1, <3>2, <3>3 DEF Typed
    <3>6. item' \in [Rels -> ItemType]
      BY <3>4, <3>5
    <3> QED
      BY <1>1, <1>6, <3>2, <3>3, <3>6 DEF Course
  <2> QED
    BY <2>1, <2>2
<1>11. Typed'
  BY <1>1, <1>2, <1>6, <1>7 DEF Typed, InHand, Loop
<1>12. Course'
  BY <1>1, <1>2, <1>6, <1>7 DEF Course, InHand, Loop
<1>13. Truth'
  BY <1>1, <1>2, <1>7 DEF Truth
<1>14. Account'
  BY <1>1, <1>2, <1>6 DEF Account, InHand, Loop
<1>15. Single'
  BY <1>1, <1>2, <1>3, <1>6 DEF Single, InHand, Loop
<1> QED
  BY <1>11, <1>12, <1>13, <1>14, <1>15 DEF IInv

LEMMA FreezeKeeps ==
  ASSUME IInv, Freeze
  PROVE  IInv'
<1>1. Typed /\ Course /\ Truth /\ Account /\ Single
  BY DEF IInv
<1>2. /\ pc = "hash"
      /\ todo = {}
      /\ item' = [r \in Rels |-> [item[r] EXCEPT !.cls = Class(r)]]
      /\ run' = "copying"
      /\ pc' = "items"
      /\ todo' = {r \in Rels : item[r].prog # "none"}
      /\ UNCHANGED <<setting, src, disk, inbox, fate, inst, from, arg, cancelled, bin, cur, name,
                   new, unindexed, used, placed, touched>>
  BY DEF Freeze, files, catalog, plan, task, hand, tally, luck, history, Frozen
<1>3. Placed' = Placed /\ (GapClosed' <=> GapClosed) /\ (Smooth' <=> Smooth)
  BY <1>2 DEF Placed, GapClosed, Smooth
<1>4. /\ \A r \in Rels : Class(r) \in Classes /\ (item[r].hash = Nothing => Class(r) = "none")
      /\ \A r \in Rels : item[r].hash # Nothing =>
            /\ Represents(r) => Class(r) \in {"new", "trashed", "exact-known"}
            /\ Class(r) = "new" => Represents(r) /\ fate[item[r].hash] = "unknown"
            /\ Class(r) = "trashed" => fate[item[r].hash] = "trashed"
            /\ Class(r) = "exact-known" => fate[item[r].hash] = "active"
  <2>1. \A r \in Rels : item[r].hash # Nothing => fate[item[r].hash] \in {"unknown", "active", "trashed"}
    BY <1>1 DEF Typed, ItemType, Held
  <2> QED
    BY <2>1 DEF Class, Classes
<1>5. /\ item' \in [Rels -> ItemType]
      /\ \A r \in Rels : /\ item'[r].cls = Class(r) /\ item'[r].hash = item[r].hash
                         /\ item'[r].prog = item[r].prog /\ item'[r].at = item[r].at
  <2>1. \A r \in Rels : item[r] \in ItemType
    BY <1>1 DEF Typed
  <2>2. \A r \in Rels : [item[r] EXCEPT !.cls = Class(r)] \in ItemType
    BY <1>4, <2>1 DEF ItemType
  <2> QED
    BY <1>2, <2>1, <2>2 DEF ItemType
<1>6. /\ run = "planning"
      /\ \A r \in Rels : /\ item[r].prog \in {"none", "pending", "error"}
                         /\ item[r].hash # Nothing => item[r].prog # "none"
  BY <1>1, <1>2 DEF Course
<1>7. ASSUME NEW r \in Rels, item[r].hash # Nothing
      PROVE  \E q \in Rels : item[q].hash = item[r].hash /\ Represents(q)
  <2> DEFINE T == {q \in Rels : item[q].hash = item[r].hash}
  <2>1. T \subseteq Rels /\ r \in T
    OBVIOUS
  <2>2. First(T) \in T /\ \A q \in T : First(T) <= q
    BY <2>1, FirstPath
  <2> QED
    BY <2>2 DEF Represents
<1>8. ASSUME NEW q \in Rels, NEW r \in Rels, Represents(q), Represents(r), item[q].hash = item[r].hash
      PROVE  q = r
  <2>1. q <= r /\ r <= q /\ q \in Nat /\ r \in Nat
    BY <1>8, Kinds DEF Represents
  <2> QED
    BY <2>1
<1>11. Typed'
  BY <1>1, <1>2, <1>5 DEF Typed, InHand, Loop
<1>12. Course'
  <2>1. \A q, r \in Rels : item'[q].cls = "new" /\ item'[r].cls = "new" /\ item'[q].hash = item'[r].hash
           => q = r
    BY <1>4, <1>5, <1>8
  <2> QED
    BY <1>1, <1>2, <1>4, <1>5, <1>6, <2>1 DEF Course, InHand, Loop
<1>13. Truth'
  BY <1>1, <1>2, <1>5, <1>6 DEF Truth
<1>14. Account'
  <2>1. \A r \in Rels : item'[r].hash # Nothing => \E q \in Rels :
           item'[q].hash = item'[r].hash /\ item'[q].cls \in {"new", "trashed", "exact-known"}
    BY <1>4, <1>5, <1>7
  <2>2. \A r \in Rels : /\ item'[r].cls = "trashed" => fate[item'[r].hash] = "trashed"
                        /\ item'[r].cls = "exact-known" => fate[item'[r].hash] # "unknown"
                        /\ item'[r].prog \in {"none", "pending", "error"}
    BY <1>4, <1>5, <1>6
  <2>3. \A r \in Rels \ todo' : item'[r].cls # "new" /\ item'[r].prog = "none"
    BY <1>2, <1>4, <1>5, <1>6
  <2>4. new = 0 /\ unindexed = 0
    BY <1>1, <1>2 DEF Course, InHand, Loop
  <2>5. pc' = "items" /\ UNCHANGED <<setting, fate, inst, new, unindexed, touched>>
    BY <1>2
  <2> QED
    BY <2>1, <2>2, <2>3, <2>4, <2>5 DEF Account, Dealt, Loop, InHand
<1>15. Single'
  <2>1. ASSUME GapClosed, NEW r \in Rels, item'[r].cls = "new", NEW m \in Placed
        PROVE  disk[m] # item'[r].hash
    <3>1. item[r].hash # Nothing /\ fate[item[r].hash] = "unknown"
      BY <1>4, <1>5, <2>1
    <3>2. inst[m] = disk[m] /\ m \in Names
      BY <1>1, <1>2, <2>1 DEF Single, Placed, Typed
    <3> QED
      BY <1>1, <1>5, <3>1, <3>2 DEF Truth
  <2>2. \A r \in Rels : item'[r].cls = "new" => fate[item'[r].hash] = "unknown"
    BY <1>4, <1>5
  <2> QED
    BY <1>1, <1>2, <1>3, <2>1, <2>2 DEF Single, InHand, Loop
<1> QED
  BY <1>11, <1>12, <1>13, <1>14, <1>15 DEF IInv
LEMMA PassItemKeeps ==
  ASSUME IInv, PassItem
  PROVE  IInv'
<1>1. Typed /\ Course /\ Truth /\ Account /\ Single
  BY DEF IInv
<1>2. /\ pc = "items"
      /\ todo # {}
      /\ UNCHANGED <<setting, src, disk, inbox, fate, inst, run, from, pc, arg, cancelled, bin, cur,
                   name, used, placed, touched>>
  BY DEF PassItem, files, catalog, plan, task, hand, tally, luck, history
<1>3. Placed' = Placed /\ (GapClosed' <=> GapClosed) /\ (Smooth' <=> Smooth)
  BY <1>2 DEF Placed, GapClosed, Smooth
<1> DEFINE r == First(todo)
<1>4. r \in todo /\ r \in Rels
  BY <1>1, <1>2, FirstPath DEF Typed
<1>5. /\ ~Wanted(r) \/ item[r].prog \in Terminal
      /\ todo' = todo \ {r}
      /\ item' = IF Wanted(r) \/ item[r].hash = Nothing THEN item
                 ELSE [item EXCEPT ![r] = [@ EXCEPT !.prog = "skipped"]]
      /\ new' = IF Wanted(r) THEN new + 1 ELSE new
      /\ unindexed' = IF item[r].prog = "copied-unindexed" THEN unindexed + 1 ELSE unindexed
  BY DEF PassItem, CountsAsNew
<1> HIDE DEF r
<1>6. /\ item' \in [Rels -> ItemType] /\ \A q \in Rels \ {r} : item'[q] = item[q]
      /\ \A q \in Rels : /\ item'[q].hash = item[q].hash /\ item'[q].cls = item[q].cls
                         /\ item'[q].at = item[q].at
      /\ \/ item'[r].prog = item[r].prog /\ (item[r].cls = "new" \/ item[r].hash = Nothing)
         \/ item'[r].prog = "skipped" /\ item[r].cls # "new"
  <2>1. CASE Wanted(r) \/ item[r].hash = Nothing
    BY <1>1, <1>5, <2>1 DEF Typed, Wanted
  <2>2. CASE ~(Wanted(r) \/ item[r].hash = Nothing)
    BY <1>1, <1>4, <1>5, <2>2, ProgressSet DEF Steps, Wanted
  <2> QED
    BY <2>1, <2>2
<1>7. /\ new \in Nat /\ unindexed \in Nat
      /\ item[r].prog \in {"registered", "copied-unindexed"} => item[r].cls = "new"
      /\ item[r].cls = "new" => item[r].prog \in {"registered", "copied-unindexed"}
  BY <1>1, <1>4, <1>5 DEF Typed, Course, Wanted, Terminal
<1>8. /\ new' = IF item[r].cls = "new" THEN new + 1 ELSE new
      /\ run = "copying" /\ Loop /\ ~InHand /\ ~InHand' /\ Loop'
  BY <1>1, <1>2, <1>5 DEF Wanted, Course, Loop, InHand
<1>11. Typed'
  <2>1. new' \in Nat /\ unindexed' \in Nat /\ todo' \subseteq Rels
    BY <1>1, <1>5, <1>7, <1>8 DEF Typed
  <2> QED
    BY <1>1, <1>2, <1>6, <2>1 DEF Typed, InHand, Loop
<1>12. Course'
  BY <1>1, <1>2, <1>4, <1>5, <1>6, <1>7, <1>8 DEF Course, InHand, Loop
<1>13. Truth'
  BY <1>1, <1>2, <1>4, <1>6 DEF Truth
<1>14. Account'
  <2>1. \A q \in Rels : item'[q].prog \in {"registered", "copied-unindexed"}
           => item'[q].prog = item[q].prog
    BY <1>4, <1>6
  <2>2. \A q \in Rels \ todo' : item'[q].cls = "new" => Dealt(q)'
    BY <1>1, <1>4, <1>5, <1>6, <1>7, <1>8 DEF Account, Dealt
  <2>3. new' >= unindexed' /\ ((\E q \in Rels \ todo' : item'[q].prog = "registered") => new' > unindexed')
    <3>1. new >= unindexed /\ ((\E q \in Rels \ todo : item[q].prog = "registered") => new > unindexed)
      BY <1>1, <1>8 DEF Account
    <3>2. CASE item[r].prog = "registered"
      <4>1. new' = new + 1 /\ unindexed' = unindexed
        BY <1>5, <1>7, <1>8, <3>2
      <4> QED
        BY <1>7, <3>1, <4>1
    <3>3. CASE item[r].prog # "registered"
      <4>1. (\E q \in Rels \ todo' : item'[q].prog = "registered")
               => \E q \in Rels \ todo : item[q].prog = "registered"
        BY <1>4, <1>5, <1>6, <3>3
      <4>2. new' - new = unindexed' - unindexed /\ new' \in Nat /\ unindexed' \in Nat
        BY <1>5, <1>7, <1>8, <3>3
      <4> QED
        BY <1>7, <3>1, <4>1, <4>2
    <3> QED
      BY <3>2, <3>3
  <2> QED
    BY <1>1, <1>2, <1>6, <1>8, <2>1, <2>2, <2>3 DEF Account
<1>15. Single'
  BY <1>1, <1>2, <1>3, <1>4, <1>5, <1>6, <1>8 DEF Single, Course, Terminal
<1> QED
  BY <1>11, <1>12, <1>13, <1>14, <1>15 DEF IInv

LEMMA TakeItemKeeps ==
  ASSUME IInv, TakeItem
  PROVE  IInv'
<1>1. Typed /\ Course /\ Truth /\ Account /\ Single
  BY DEF IInv
<1>2. /\ pc = "items" /\ todo # {}
      /\ UNCHANGED <<setting, src, disk, inbox, fate, inst, run, from, item, arg, cancelled, bin,
                   new, unindexed, used, placed, touched>>
  BY DEF TakeItem, files, catalog, plan, task, tally, luck, history
<1> DEFINE r == First(todo)
<1>3. Placed' = Placed /\ (GapClosed' <=> GapClosed) /\ (Smooth' <=> Smooth)
  BY <1>2 DEF Placed, GapClosed, Smooth
<1>4. r \in todo /\ r \in Rels
  BY <1>1, <1>2, FirstPath DEF Typed
<1>5. /\ item[r].cls = "new" /\ item[r].prog \notin Terminal
      /\ cur' = r /\ todo' = todo \ {r}
      /\ \/ item[r].prog = "copied" /\ name' = <<r, item[r].at>> /\ pc' = "register"
         \/ disk[<<r, 0>>] = item[r].hash /\ name' = <<r, 0>> /\ pc' = "mark"
         \/ /\ \E n \in 0 .. MaxSuffix : disk[<<r, n>>] = Nothing
            /\ name' = IF disk[<<r, 0>>] = Nothing THEN <<r, 0>> ELSE FreeName(r)
            /\ pc' = "copy"
  BY DEF TakeItem, Wanted, Identical
<1> HIDE DEF r
<1>6. /\ name' \in Names /\ name'[1] = r /\ pc' \in {"register", "mark", "copy"}
      /\ pc' = "copy" => disk[name'] = Nothing
      /\ pc' = "mark" => disk[name'] = item[r].hash
      /\ pc' = "register" => item[r].prog = "copied" /\ name' = <<r, item[r].at>> /\ item[r].at = name'[2]
  <2>1. 0 \in 0 .. MaxSuffix /\ item[r].at \in 0 .. MaxSuffix
    BY <1>1, <1>4, Kinds DEF Typed, ItemType
  <2>2. CASE item[r].prog = "copied" /\ name' = <<r, item[r].at>> /\ pc' = "register"
    BY <1>4, <2>1, <2>2, NameParts
  <2>3. CASE disk[<<r, 0>>] = item[r].hash /\ name' = <<r, 0>> /\ pc' = "mark"
    BY <1>4, <2>1, <2>3, NameParts
  <2>4. CASE /\ \E n \in 0 .. MaxSuffix : disk[<<r, n>>] = Nothing
             /\ name' = IF disk[<<r, 0>>] = Nothing THEN <<r, 0>> ELSE FreeName(r)
             /\ pc' = "copy"
    <3>1. CASE disk[<<r, 0>>] = Nothing
      BY <1>4, <2>1, <2>4, <3>1, NameParts
    <3>2. CASE disk[<<r, 0>>] # Nothing
      <4> DEFINE T == {n \in 1 .. MaxSuffix : disk[<<r, n>>] = Nothing}
      <4>1. PICK n \in 0 .. MaxSuffix : disk[<<r, n>>] = Nothing
        BY <2>4
      <4>2. n \in T
        BY <3>2, <4>1, Kinds
      <4>3. First(T) \in T
        BY <4>2, FirstSuffix
      <4>4. First(T) \in 0 .. MaxSuffix /\ disk[<<r, First(T)>>] = Nothing
        BY <4>3, Kinds
      <4>5. name' = <<r, First(T)>>
        BY <2>4, <3>2 DEF FreeName
      <4> DEFINE k == First(T)
      <4>6. k \in 0 .. MaxSuffix /\ disk[<<r, k>>] = Nothing /\ name' = <<r, k>>
        BY <4>4, <4>5
      <4> HIDE DEF k, T
      <4>7. <<r, k>> \in Names /\ <<r, k>>[1] = r
        BY <1>4, <4>6, NameParts
      <4> QED
        BY <2>4, <4>6, <4>7
    <3> QED
      BY <3>1, <3>2
  <2> QED
    BY <1>5, <2>2, <2>3, <2>4
<1>7. run = "copying" /\ Loop /\ ~InHand /\ InHand' /\ Loop' /\ pc' \notin {"scan", "hash", "verify", "items", "idle"}
  BY <1>1, <1>2, <1>6 DEF Course, Loop, InHand
<1>11. Typed'
  BY <1>1, <1>2, <1>4, <1>5, <1>6, <1>7 DEF Typed
<1>12. Course'
  BY <1>1, <1>2, <1>4, <1>5, <1>6, <1>7 DEF Course
<1>13. Truth'
  BY <1>1, <1>2, <1>4, <1>5, <1>6, <1>7 DEF Truth
<1>14. Account'
  <2>1. \A q \in Rels \ todo' : q \in Rels \ todo \/ q = cur'
    BY <1>5
  <2>2. item[r].prog # "registered"
    BY <1>5 DEF Terminal
  <2>3. (\E q \in Rels \ todo' : item[q].prog = "registered") => \E q \in Rels \ todo : item[q].prog = "registered"
    BY <1>5, <2>1, <2>2
  <2> QED
    BY <1>1, <1>2, <1>7, <2>1, <2>3 DEF Account, Dealt
<1>15. Single'
  <2>1. GapClosed => \A m \in Placed : disk[m] # item[r].hash
    BY <1>1, <1>2, <1>4, <1>5, <1>7 DEF Single
  <2> QED
    BY <1>1, <1>2, <1>3, <1>4, <1>5, <1>6, <1>7, <2>1 DEF Single
<1> QED
  BY <1>11, <1>12, <1>13, <1>14, <1>15 DEF IInv

LEMMA ReplaceKeeps ==
  ASSUME IInv, Replace
  PROVE  IInv'
<1>1. Typed /\ Course /\ Truth /\ Account /\ Single
  BY DEF IInv
<1>2. /\ pc = "verify"
      /\ disk' = [disk EXCEPT ![name] = item[cur].hash]
      /\ placed' = placed \cup {name}
      /\ pc' = "mark"
      /\ UNCHANGED <<setting, src, inbox, fate, inst, run, from, item, arg, cancelled, todo, bin, cur,
                   name, new, unindexed, used, touched>>
  BY DEF Replace, Verified, catalog, plan, task, hand, tally, luck
<1>3. /\ cur \in Rels /\ name \in Names /\ name[1] = cur /\ item[cur].cls = "new" /\ cur \notin todo
      /\ item[cur].prog \notin Terminal /\ item[cur].hash # Nothing /\ item[cur].hash \in Held
      /\ run = "copying" /\ InHand /\ Loop /\ InHand' /\ Loop'
      /\ name \in touched \/ disk[name] = Nothing
  BY <1>1, <1>2 DEF Typed, Course, Truth, InHand, Loop, ItemType
<1>4. disk'[name] = item[cur].hash /\ \A n \in Names \ {name} : disk'[n] = disk[n]
  BY <1>1, <1>2, <1>3 DEF Typed
<1>5. (GapClosed' <=> GapClosed) /\ (Smooth' <=> Smooth)
  BY <1>2 DEF GapClosed, Smooth
<1>6. /\ Placed' \subseteq Placed \cup {name} /\ name \notin Placed /\ Placed \subseteq Names
      /\ name \notin placed \ touched /\ (name \in Placed' => name \notin touched)
  BY <1>1, <1>2, <1>3 DEF Placed, Typed, Single
<1>11. Typed'
  BY <1>1, <1>2, <1>3 DEF Typed, InHand, Loop
<1>12. Course'
  BY <1>1, <1>2, <1>3 DEF Course, InHand, Loop
<1>13. Truth'
  <2>1. \A n \in Names \ touched : inst[n] # Nothing => disk'[n] = inst[n]
    BY <1>1, <1>3, <1>4 DEF Truth
  <2>2. \A r \in Rels : item[r].prog = "copied" => item[r].hash # Nothing /\ <<r, item[r].at>> \in Names
    BY <1>1, NameParts DEF Course, Typed, ItemType
  <2> QED
    BY <1>1, <1>2, <1>3, <1>4, <2>1, <2>2 DEF Truth
<1>14. Account'
  BY <1>1, <1>2, <1>3 DEF Account, Dealt
<1>15. Single'
  <2>1. GapClosed => \A m \in Placed : disk[m] # item[cur].hash
    BY <1>1, <1>2, <1>3 DEF Single
  <2>2. \A r \in Rels : item[r].cls = "new" /\ item[r].hash = item[cur].hash => r = cur
    BY <1>1, <1>3 DEF Course
  <2>3. \A m \in placed' \ touched : disk'[m] # Nothing
    BY <1>1, <1>2, <1>3, <1>4, <1>6 DEF Single, Typed
  <2>4. GapClosed /\ used["faults"] = 0 => \A m \in Placed' : inst[m] = disk'[m] \/ m = name
    BY <1>1, <1>2, <1>4, <1>6 DEF Single
  <2>5. ASSUME GapClosed, NEW r \in Rels, item[r].cls = "new", NEW m \in Placed', disk'[m] = item[r].hash
        PROVE  /\ m[1] = r
               /\ \/ item[r].prog \in Terminal
                  \/ r = cur
                  \/ item[r].prog = "error" /\ used["faults"] = 1 /\ r \notin todo /\ r # cur
    <3>1. CASE m = name
      BY <1>3, <1>4, <2>2, <2>5, <3>1
    <3>2. CASE m # name
      <4>1. m \in Placed /\ m \in Names /\ disk[m] = item[r].hash
        BY <1>4, <1>6, <2>5, <3>2
      <4> QED
        BY <1>1, <1>2, <1>3, <2>5, <4>1 DEF Single
    <3> QED
      BY <3>1, <3>2
  <2>6. GapClosed => \A m, n \in Placed' : disk'[m] = disk'[n] => m = n
    <3>1. ASSUME GapClosed, NEW m \in Placed', NEW n \in Placed', disk'[m] = disk'[n]
          PROVE  m = n
      <4>1. m = name \/ (m \in Placed /\ disk'[m] = disk[m])
        BY <1>4, <1>6
      <4>2. n = name \/ (n \in Placed /\ disk'[n] = disk[n])
        BY <1>4, <1>6
      <4> QED
        BY <1>1, <1>4, <2>1, <3>1, <4>1, <4>2 DEF Single
    <3> QED
      BY <3>1
  <2> QED
    BY <1>1, <1>2, <1>3, <1>5, <2>3, <2>4, <2>5, <2>6 DEF Single
<1> QED
  BY <1>11, <1>12, <1>13, <1>14, <1>15 DEF IInv

LEMMA RegisterKeeps ==
  ASSUME IInv, Register
  PROVE  IInv'
<1>1. Typed /\ Course /\ Truth /\ Account /\ Single
  BY DEF IInv
<1>2. /\ pc = "register" /\ pc' = "items" /\ new' = new + 1
      /\ UNCHANGED <<setting, src, disk, inbox, run, from, arg, cancelled, todo, bin, cur, name,
                   used, placed, touched>>
  BY DEF Register, files, task, hand, luck, history
<1> DEFINE c == item[cur].hash
<1>3. /\ cur \in Rels /\ name \in Names /\ name[1] = cur /\ item[cur].cls = "new" /\ cur \notin todo
      /\ item[cur].prog = "copied" /\ name = <<cur, item[cur].at>>
      /\ c # Nothing /\ c \in Contents
      /\ run = "copying" /\ InHand /\ Loop /\ ~InHand' /\ Loop'
      /\ name \in touched \/ disk[name] = c
  BY <1>1, <1>2, NameParts DEF Typed, Course, Truth, InHand, Loop, ItemType, Held
<1>4. Placed' = Placed /\ (GapClosed' <=> GapClosed) /\ (Smooth' <=> Smooth)
  BY <1>2 DEF Placed, GapClosed, Smooth
<1>5. \/ /\ cur \in setting.ignored
         /\ item' = [item EXCEPT ![cur] = [@ EXCEPT !.prog = "copied-unindexed"]]
         /\ unindexed' = unindexed + 1 /\ fate' = fate /\ inst' = inst
      \/ /\ cur \notin setting.ignored
         /\ item' = [item EXCEPT ![cur] = [@ EXCEPT !.prog = "registered"]]
         /\ inst' = [inst EXCEPT ![name] = c] /\ fate' = FateAfter(inst', {name})
         /\ unindexed' = unindexed
  BY DEF Register, Unindexed
<1> HIDE DEF c
<1>6. /\ item' \in [Rels -> ItemType] /\ \A q \in Rels \ {cur} : item'[q] = item[q]
      /\ \A q \in Rels : /\ item'[q].hash = item[q].hash /\ item'[q].cls = item[q].cls
                         /\ item'[q].at = item[q].at
      /\ item'[cur].prog = IF cur \in setting.ignored THEN "copied-unindexed" ELSE "registered"
  <2>1. "copied-unindexed" \in Steps /\ "registered" \in Steps
    BY DEF Steps
  <2>2. CASE cur \in setting.ignored
    BY <1>1, <1>3, <1>5, <2>1, <2>2, ProgressSet
  <2>3. CASE cur \notin setting.ignored
    BY <1>1, <1>3, <1>5, <2>1, <2>3, ProgressSet
  <2> QED
    BY <2>2, <2>3
<1>7. /\ inst' \in [Names -> Held] /\ \A n \in Names \ {name} : inst'[n] = inst[n]
      /\ cur \notin setting.ignored => inst'[name] = c
      /\ cur \in setting.ignored => inst'[name] = inst[name]
  BY <1>1, <1>3, <1>5 DEF Typed, Held
<1>8. /\ fate' \in [Contents -> {"unknown", "active", "trashed"}]
      /\ \A n \in Names : inst'[n] # Nothing => fate'[inst'[n]] # "unknown"
      /\ \A d \in Contents : fate'[d] = "trashed" <=> fate[d] = "trashed"
      /\ \A d \in Contents : fate[d] # "unknown" /\ touched = {} => fate'[d] # "unknown"
  <2>1. CASE cur \in setting.ignored
    BY <1>1, <1>5, <2>1 DEF Typed, Truth
  <2>2. CASE cur \notin setting.ignored
    <3>1. fate' = FateAfter(inst', {name})
      BY <1>5, <2>2
    <3>2. \A d \in Contents : /\ FateAfter(inst', {name})[d] \in {"unknown", "active", "trashed"}
                              /\ FateAfter(inst', {name})[d] = "trashed" <=> fate[d] = "trashed"
      BY <1>1, <1>3, <1>7, FatesAfter
    <3>3. fate' \in [Contents -> {"unknown", "active", "trashed"}]
      <4>1. FateAfter(inst', {name}) = [d \in Contents |-> FateAfter(inst', {name})[d]]
        BY DEF FateAfter
      <4> QED
        BY <3>1, <3>2, <4>1
    <3>4. ASSUME NEW n \in Names, inst'[n] # Nothing
          PROVE  FateAfter(inst', {name})[inst'[n]] # "unknown"
      <4>1. inst'[n] \in Contents
        BY <1>7, <3>4 DEF Held
      <4>2. CASE n = name
        BY <1>1, <1>3, <1>7, <4>1, <4>2, FatesAfter
      <4>3. CASE n # name
        <5>1. inst[n] = inst'[n] /\ fate[inst'[n]] # "unknown"
          BY <1>1, <1>7, <3>4, <4>3 DEF Truth
        <5> QED
          BY <1>1, <1>3, <1>7, <4>1, <5>1, FatesAfter
      <4> QED
        BY <4>2, <4>3
    <3>5. ASSUME NEW d \in Contents, fate[d] # "unknown", touched = {}
          PROVE  FateAfter(inst', {name})[d] # "unknown"
      <4>1. inst[name] = Nothing \/ inst[name] = c
        BY <1>1, <1>3, <3>5 DEF Truth
      <4>2. \A n \in Names : inst[n] = d => inst'[n] = d
        BY <1>7, <2>2, <4>1, Kinds
      <4> QED
        BY <1>1, <1>3, <1>7, <3>5, <4>2, FatesAfter
    <3> QED
      BY <3>1, <3>2, <3>3, <3>4, <3>5
  <2> QED
    BY <2>1, <2>2
<1>9. new \in Nat /\ unindexed \in Nat /\ unindexed' \in Nat /\ (unindexed' = unindexed \/ unindexed' = unindexed + 1)
  BY <1>1, <1>5 DEF Typed
<1>10. \A r \in Rels : item[r].hash \in Held /\ (item[r].cls # "none" => item[r].hash \in Contents)
  BY <1>1 DEF Typed, ItemType, Course, Held
<1>11. Typed'
  BY <1>1, <1>2, <1>3, <1>6, <1>7, <1>8, <1>9 DEF Typed, Loop, InHand
<1>12. Course'
  BY <1>1, <1>2, <1>3, <1>6 DEF Course, Loop, InHand
<1>13. Truth'
  <2>1. \A n \in Names \ touched : inst'[n] # Nothing => disk[n] = inst'[n]
    BY <1>1, <1>3, <1>7 DEF Truth
  <2>2. \A r \in Rels : item'[r].prog = "copied" => item[r].prog = "copied"
    BY <1>6
  <2> QED
    BY <1>1, <1>2, <1>3, <1>6, <1>8, <2>1, <2>2 DEF Truth, InHand, Loop
<1>14. Account'
  <2>1. \A r \in Rels :
          /\ item'[r].hash # Nothing => \E q \in Rels :
                item'[q].hash = item'[r].hash /\ item'[q].cls \in {"new", "trashed", "exact-known"}
          /\ item'[r].cls = "trashed" => fate'[item'[r].hash] = "trashed"
          /\ item'[r].cls = "exact-known" => fate'[item'[r].hash] # "unknown" \/ touched # {}
    <3>1. ASSUME NEW r \in Rels, item'[r].hash # Nothing
          PROVE  \E q \in Rels :
                    item'[q].hash = item'[r].hash /\ item'[q].cls \in {"new", "trashed", "exact-known"}
      <4>1. item[r].hash # Nothing
        BY <1>6, <3>1
      <4>2. PICK q \in Rels : item[q].hash = item[r].hash /\ item[q].cls \in {"new", "trashed", "exact-known"}
        BY <1>1, <1>3, <4>1 DEF Account
      <4> QED
        BY <1>6, <4>2
    <3>2. ASSUME NEW r \in Rels, item'[r].cls = "trashed"
          PROVE  fate'[item'[r].hash] = "trashed"
      <4>1. item[r].cls = "trashed" /\ item'[r].hash = item[r].hash
        BY <1>6, <3>2
      <4>2. fate[item[r].hash] = "trashed" /\ item[r].hash \in Contents
        BY <1>1, <1>3, <1>10, <4>1 DEF Account
      <4> QED
        BY <1>8, <4>1, <4>2
    <3>3. ASSUME NEW r \in Rels, item'[r].cls = "exact-known", touched = {}
          PROVE  fate'[item'[r].hash] # "unknown"
      <4>1. item[r].cls = "exact-known" /\ item'[r].hash = item[r].hash
        BY <1>6, <3>3
      <4>2. fate[item[r].hash] # "unknown" /\ item[r].hash \in Contents
        BY <1>1, <1>3, <1>10, <3>3, <4>1 DEF Account
      <4> QED
        BY <1>8, <3>3, <4>1, <4>2
    <3> QED
      BY <3>1, <3>2, <3>3
  <2>2. ASSUME NEW r \in Rels, item'[r].prog = "registered"
        PROVE  inst'[<<r, item'[r].at>>] = item'[r].hash
    <3>1. CASE r = cur
      BY <1>3, <1>6, <1>7, <2>2, <3>1 DEF c
    <3>2. CASE r # cur
      <4>1. inst[<<r, item[r].at>>] = item[r].hash /\ item[r].at \in 0 .. MaxSuffix
        BY <1>1, <1>3, <1>6, <2>2, <3>2 DEF Account, Typed, ItemType
      <4>2. <<r, item[r].at>> \in Names /\ <<r, item[r].at>> # name
        BY <1>3, <3>2, <4>1, NameParts
      <4> QED
        BY <1>6, <1>7, <4>1, <4>2
    <3> QED
      BY <3>1, <3>2
  <2>3. ASSUME NEW r \in Rels, item'[r].prog = "copied-unindexed"
        PROVE  r \in setting.ignored
    <3>1. CASE r = cur
      BY <1>6, <2>3, <3>1
    <3>2. CASE r # cur
      <4>1. item[r].prog = "copied-unindexed"
        BY <1>6, <2>3, <3>2
      <4> QED
        BY <1>1, <1>3, <4>1 DEF Account
    <3> QED
      BY <3>1, <3>2
  <2>4. \A r \in Rels \ todo : item'[r].cls = "new" => Dealt(r)'
    BY <1>1, <1>3, <1>6 DEF Account, Dealt
  <2>5. new' >= unindexed' /\ ((\E r \in Rels \ todo : item'[r].prog = "registered") => new' > unindexed')
    <3>1. new >= unindexed /\ ((\E q \in Rels \ todo : item[q].prog = "registered") => new > unindexed)
      BY <1>1, <1>3 DEF Account
    <3>2. CASE cur \in setting.ignored
      <4>1. (\E r \in Rels \ todo : item'[r].prog = "registered")
               => \E r \in Rels \ todo : item[r].prog = "registered"
        BY <1>6, <3>2
      <4> QED
        BY <1>2, <1>9, <3>1, <4>1
    <3>3. CASE cur \notin setting.ignored
      <4>1. unindexed' = unindexed
        BY <1>5, <3>3
      <4> QED
        BY <1>2, <1>9, <3>1, <4>1
    <3> QED
      BY <3>2, <3>3
  <2>6. setting' = setting /\ run' = run /\ todo' = todo /\ touched' = touched
    BY <1>2
  <2> QED
    BY <1>3, <2>1, <2>2, <2>3, <2>4, <2>5, <2>6 DEF Account
<1>15. Single'
  <2>1. GapClosed /\ used["faults"] = 0 => \A m \in Placed : inst'[m] = disk[m]
    <3>1. ASSUME GapClosed, used["faults"] = 0, NEW m \in Placed
          PROVE  inst'[m] = disk[m]
      <4>1. m \in Names /\ m \notin touched /\ m[1] \notin setting.ignored
        BY <1>1, NameParts DEF Placed, Typed
      <4>2. CASE m = name
        BY <1>3, <1>7, <4>1, <4>2
      <4>3. CASE m # name
        BY <1>1, <1>7, <3>1, <4>1, <4>3 DEF Single
      <4> QED
        BY <4>2, <4>3
    <3> QED
      BY <3>1
  <2>2. item'[cur].prog \in Terminal
    BY <1>6 DEF Terminal
  <2>3. Smooth => \A r \in Rels : item'[r].cls = "new" => fate'[item'[r].hash] # "trashed"
    BY <1>1, <1>3, <1>6, <1>8, <1>10 DEF Single
  <2> QED
    BY <1>1, <1>2, <1>3, <1>4, <1>6, <2>1, <2>2, <2>3 DEF Single
<1> QED
  BY <1>11, <1>12, <1>13, <1>14, <1>15 DEF IInv

LEMMA ItemFailsKeeps ==
  ASSUME IInv, ItemFails
  PROVE  IInv'
<1>1. Typed /\ Course /\ Truth /\ Account /\ Single
  BY DEF IInv
<1>2. /\ item' = [item EXCEPT ![cur] = [@ EXCEPT !.prog = "error"]]
      /\ pc' = "items" /\ InHand
      /\ \/ UNCHANGED luck /\ pc \in {"copy", "verify"}
         \/ Spend("faults")
      /\ UNCHANGED <<src, disk, inbox, fate, inst, run, from, arg, cancelled, todo, bin, cur, name,
                   new, unindexed, placed, touched>>
  BY DEF ItemFails, files, catalog, task, hand, tally, history, InHand
<1>3. /\ setting' = setting /\ used' \in [Mishaps -> Nat]
      /\ \/ used' = used /\ pc \in {"copy", "verify"}
         \/ /\ used'["faults"] = used["faults"] + 1
            /\ \A k \in Mishaps \ {"faults"} : used'[k] = used[k]
  BY <1>1, <1>2, Spends, Kinds DEF luck, Typed
<1>4. Placed' = Placed
  BY <1>2, <1>3 DEF Placed
<1>5. /\ cur \in Rels /\ item[cur].cls = "new" /\ cur \notin todo /\ item[cur].prog \notin Terminal
      /\ run = "copying" /\ Loop /\ ~InHand' /\ Loop'
  BY <1>1, <1>2 DEF Typed, Course, InHand, Loop
<1>6. /\ item' \in [Rels -> ItemType] /\ \A q \in Rels \ {cur} : item'[q] = item[q]
      /\ \A q \in Rels : /\ item'[q].hash = item[q].hash /\ item'[q].cls = item[q].cls
                         /\ item'[q].at = item[q].at
      /\ item'[cur].prog = "error"
  <2>1. "error" \in Steps
    BY DEF Steps
  <2> QED
    BY <1>1, <1>2, <1>5, <2>1, ProgressSet
<1>7. /\ GapClosed' => GapClosed
      /\ GapClosed' /\ pc \in {"mark", "register"} => used["faults"] = 0 /\ used'["faults"] = 1
      /\ GapClosed' /\ used["faults"] = 1 => used'["faults"] = 1
      /\ GapClosed' /\ used'["faults"] = 0 => used["faults"] = 0 /\ pc \in {"copy", "verify"}
      /\ Smooth' => Smooth
      /\ used'["halts"] = used["halts"] /\ used'["cancels"] = used["cancels"]
  <2>1. used["faults"] \in Nat
    BY <1>1, Kinds DEF Typed
  <2>2. used'["halts"] = used["halts"] /\ used'["cancels"] = used["cancels"]
    BY <1>3, Kinds
  <2>3. \/ used'["faults"] = used["faults"] /\ pc \in {"copy", "verify"}
        \/ used'["faults"] = used["faults"] + 1
    BY <1>3
  <2> QED
    BY <2>1, <2>2, <2>3 DEF GapClosed, Smooth
<1>11. Typed'
  BY <1>1, <1>2, <1>3, <1>5, <1>6 DEF Typed, Loop, InHand
<1>12. Course'
  BY <1>1, <1>2, <1>5, <1>6, <1>7 DEF Course, Loop, InHand
<1>13. Truth'
  BY <1>1, <1>2, <1>6 DEF Truth
<1>14. Account'
  <2>1. \A r \in Rels : item'[r].prog \in {"registered", "copied-unindexed"} => item[r].prog = item'[r].prog
    BY <1>6
  <2>2. \A r \in Rels \ todo : item'[r].cls = "new" => Dealt(r)'
    BY <1>1, <1>5, <1>6 DEF Account, Dealt
  <2>3. (\E r \in Rels \ todo : item'[r].prog = "registered") => new > unindexed
    BY <1>1, <1>5, <2>1 DEF Account
  <2>4. /\ setting' = setting /\ new' = new /\ unindexed' = unindexed /\ todo' = todo
        /\ run' = run /\ fate' = fate /\ touched' = touched /\ inst' = inst
    BY <1>2, <1>3
  <2> QED
    BY <1>1, <1>5, <1>6, <2>1, <2>2, <2>3, <2>4 DEF Account
<1>15. Single'
  <2>1. ASSUME GapClosed', NEW r \in Rels, item'[r].cls = "new", NEW m \in Placed, disk[m] = item'[r].hash
        PROVE  /\ m[1] = r
               /\ \/ item'[r].prog \in Terminal
                  \/ item'[r].prog = "error" /\ used'["faults"] = 1 /\ r \notin todo
    <3>1. /\ m[1] = r
          /\ \/ item[r].prog \in Terminal
             \/ pc \in {"mark", "register"} /\ r = cur
             \/ /\ item[r].prog = "error" /\ used["faults"] = 1
                /\ r \notin todo /\ ~(InHand /\ r = cur)
      BY <1>1, <1>5, <1>6, <1>7, <2>1 DEF Single
    <3>2. CASE r = cur
      BY <1>2, <1>5, <1>6, <1>7, <2>1, <3>1, <3>2
    <3>3. CASE r # cur
      BY <1>6, <1>7, <2>1, <3>1, <3>3
    <3> QED
      BY <3>2, <3>3
  <2>2. GapClosed' /\ used'["faults"] = 0 => \A m \in Placed : inst[m] = disk[m]
    BY <1>1, <1>7 DEF Single
  <2> QED
    BY <1>1, <1>2, <1>4, <1>5, <1>6, <1>7, <2>1, <2>2 DEF Single
<1> QED
  BY <1>11, <1>12, <1>13, <1>14, <1>15 DEF IInv

(***************************************************************************)
(* The invariant holds                                                     *)
(***************************************************************************)
LEMMA InitHolds == Init => IInv
<1> SUFFICES ASSUME Init PROVE IInv
  OBVIOUS
<1>1. /\ NoItem \in ItemType /\ NoItem.cls = "none" /\ NoItem.prog = "none" /\ NoItem.hash = Nothing
  BY Kinds DEF NoItem, ItemType, Held, Classes, Steps
<1>2. /\ setting.source \in [Sources -> [Rels -> Held]] /\ setting.dest \in [Names -> Held]
  BY MergeAssumption DEF Init, Held
<1>3. /\ item \in [Rels -> ItemType]
      /\ \A r \in Rels : item[r].cls = "none" /\ item[r].prog = "none" /\ item[r].hash = Nothing
  BY <1>1 DEF Init
<1>4. ~InHand /\ ~Loop /\ pc = "idle" /\ run = "none" /\ placed = {} /\ Placed = {}
  BY DEF Init, InHand, Loop, Placed
<1>5. Typed
  <2>1. /\ fate \in [Contents -> {"unknown", "active", "trashed"}] /\ inst \in [Names -> Held]
        /\ used \in [Mishaps -> Nat]
    BY DEF Init, Held
  <2> QED
    BY <1>2, <1>3, <1>4, <2>1 DEF Init, Typed
<1>6. Course
  BY <1>3, <1>4 DEF Init, Course
<1>7. Truth
  BY <1>3, <1>4 DEF Init, Truth
<1>8. Account /\ Single
  BY <1>4 DEF Account, Single
<1> QED
  BY <1>5, <1>6, <1>7, <1>8 DEF IInv

LEMMA StutterKeeps ==
  ASSUME IInv, UNCHANGED vars
  PROVE  IInv'
<1>1. UNCHANGED <<setting, src, disk, inbox, fate, inst, run, from, item, pc, arg, cancelled, todo,
                  bin, cur, name, new, unindexed, used, placed, touched>>
  BY DEF vars, files, catalog, plan, task, hand, tally, luck, history
<1>2. Typed' /\ Course'
  BY <1>1 DEF IInv, Typed, Course, InHand, Loop
<1>3. Truth' /\ Account'
  BY <1>1 DEF IInv, Truth, Account, Dealt, InHand, Loop
<1>4. Placed' = Placed /\ (GapClosed' <=> GapClosed) /\ (Smooth' <=> Smooth)
  BY <1>1 DEF Placed, GapClosed, Smooth
<1>5. Single'
  BY <1>1, <1>4 DEF IInv, Single, InHand, Loop
<1> QED
  BY <1>2, <1>3, <1>5 DEF IInv

LEMMA NextKeeps ==
  ASSUME IInv, [Next]_vars
  PROVE  IInv'
<1>1. CASE UNCHANGED vars
  BY <1>1, StutterKeeps
<1>2. ASSUME NEW s \in Sources, NEW p \in BOOLEAN, Begin(s, p)
      PROVE  IInv'
  BY <1>2, BeginKeeps
<1>3. CASE Worker
  BY <1>3, AbsorbKeeps, PreviewKeeps, OpenRunKeeps, ScanDestKeeps, HashKeeps, FreezeKeeps,
     PassItemKeeps, TakeItemKeeps, CopyFileKeeps, ReplaceKeeps, MarkCopiedKeeps, RegisterKeeps,
     ItemFailsKeeps, FinishKeeps, SeesCancelKeeps DEF Worker
<1>4. CASE Raises \/ Halt \/ Cancel \/ DedupRuns
  BY <1>4, RaisesKeeps, HaltKeeps, CancelKeeps, DedupRunsKeeps
<1>5. CASE User
  BY <1>5, DropTrashKeeps, EditSourceKeeps, EditDestKeeps DEF User
<1> QED
  BY <1>1, <1>2, <1>3, <1>4, <1>5 DEF Next

LEMMA Inductive == Spec => []IInv
<1>1. IInv /\ [Next]_vars => IInv'
  BY NextKeeps
<1> QED
  BY InitHolds, <1>1, PTL DEF Spec

(***************************************************************************)
(* What the catalog says of a file merge registered or scanned is what is  *)
(* on disk, whatever happened to the source between hash and copy          *)
(* (merge.py:396-405).                                                     *)
(***************************************************************************)
THEOREM CatalogTruthHolds == Spec => []CatalogTruth
<1>1. IInv => CatalogTruth
  BY DEF IInv, Truth, CatalogTruth
<1> QED
  BY Inductive, <1>1, PTL

(***************************************************************************)
(* Merge brings a content into the destination once: the least file of a   *)
(* content is the only one of class `new`, and what it placed is           *)
(* catalogued before the next run classifies (merge.py:265-300, 406-410).  *)
(***************************************************************************)
THEOREM OneCopyEachHolds == Spec => []OneCopyEach
<1>1. IInv => OneCopyEach
  BY DEF IInv, Single, Placed, OneCopyEach
<1> QED
  BY Inductive, <1>1, PTL

\* only Replace places a file
LEMMA OnlyReplacePlaces ==
  ASSUME [Next]_vars, placed' # placed
  PROVE  Replace
<1>1. ~UNCHANGED placed
  OBVIOUS
<1> QED
  BY <1>1 DEF Next, Worker, User, vars, history, Begin, Absorb, Preview, OpenRun, ScanDest, Hash,
     Freeze, PassItem, TakeItem, CopyFile, MarkCopied, Register, ItemFails, Finish, SeesCancel,
     Raises, Halt, Cancel, DedupRuns, DropTrash, EditSource, EditDest

(***************************************************************************)
(* A copy lands only on a name that is free, unless the user has put       *)
(* something there meanwhile, and a merge that goes through in one session *)
(* brings in nothing that is remembered as trash (merge.py:384-406).       *)
(***************************************************************************)
THEOREM CopiesLandSafelyHolds == Spec => CopiesLandSafely
<1>1. ASSUME IInv, [Next]_vars, placed' # placed
      PROVE  /\ name \notin touched => disk[name] = Nothing
             /\ (\A k \in {"halts", "cancels", "faults"} : used[k] = 0) => fate[tmp] # "trashed"
  <2>1. pc = "verify" /\ tmp = item[cur].hash
    BY <1>1, OnlyReplacePlaces DEF Replace, Verified
  <2>2. cur \in Rels /\ item[cur].cls = "new" /\ run = "copying"
    BY <1>1, <2>1 DEF IInv, Typed, Course, InHand, Loop
  <2> QED
    BY <1>1, <2>1, <2>2 DEF IInv, Truth, Single, Smooth
<1>2. IInv /\ [Next]_vars =>
        [placed' # placed =>
          /\ name \notin touched => disk[name] = Nothing
          /\ (\A k \in {"halts", "cancels", "faults"} : used[k] = 0)
                => fate[tmp] # "trashed"]_vars
  BY <1>1
<1> QED
  BY Inductive, <1>2, PTL DEF Spec, CopiesLandSafely

\* only Finish closes a run
LEMMA OnlyFinishCloses ==
  ASSUME [Next]_vars, run = "copying", run' = "done"
  PROVE  Finish
<1>1. ~UNCHANGED run
  BY Zenon
<1>2. "planning" # "done" /\ "copying" # "done"
  OBVIOUS
<1> QED
  BY <1>1, <1>2 DEF Next, Worker, User, vars, plan, Begin, Absorb, Preview, OpenRun, ScanDest, Hash,
     Freeze, Frozen, PassItem, TakeItem, CopyFile, Replace, MarkCopied, Register, ItemFails,
     SeesCancel, Raises, Halt, Cancel, DedupRuns, DropTrash, EditSource, EditDest

(***************************************************************************)
(* A run closes only when every content of its plan is catalogued or       *)
(* remembered as trash, lies at a path the rules exclude, failed, or was   *)
(* in the catalog until the user moved files; and when it registered       *)
(* anything the root then needs a dedup (merge.py:160-178).                *)
(***************************************************************************)
THEOREM DoneMeansCataloguedHolds == Spec => DoneMeansCatalogued
<1> DEFINE Covered ==
        /\ \A r \in Rels :
               item[r].hash # Nothing =>
                  \/ fate[item[r].hash] # "unknown"
                  \/ \E q \in Rels : /\ item[q].hash = item[r].hash
                                     /\ \/ q \in setting.ignored \/ item[q].prog = "error"
                                        \/ item[q].cls = "exact-known" /\ touched # {}
        /\ (\E r \in Rels : item[r].prog = "registered") => dirty'
<1>1. ASSUME IInv, [Next]_vars, run = "copying", run' = "done"
      PROVE  Covered
  <2>1. /\ pc = "items" /\ todo = {} /\ dirty' = (dirty \/ Registered)
    BY <1>1, OnlyFinishCloses DEF Finish
  <2>2. Loop /\ ~InHand /\ Rels \ todo = Rels
    BY <2>1 DEF Loop, InHand
  <2>3. ASSUME NEW r \in Rels, item[r].hash # Nothing
        PROVE  \/ fate[item[r].hash] # "unknown"
               \/ \E q \in Rels : /\ item[q].hash = item[r].hash
                                  /\ \/ q \in setting.ignored \/ item[q].prog = "error"
                                     \/ item[q].cls = "exact-known" /\ touched # {}
    <3>1. PICK q \in Rels : item[q].hash = item[r].hash /\ item[q].cls \in {"new", "trashed", "exact-known"}
      BY <1>1, <2>3 DEF IInv, Account
    <3>2. CASE item[q].cls # "new"
      BY <1>1, <3>1, <3>2 DEF IInv, Account
    <3>3. CASE item[q].cls = "new"
      <4>1. Dealt(q)
        BY <1>1, <2>2, <3>3 DEF IInv, Account
      <4>2. CASE item[q].prog = "registered"
        <5>1. <<q, item[q].at>> \in Names /\ inst[<<q, item[q].at>>] = item[q].hash
          BY <1>1, <4>2, NameParts DEF IInv, Account, Typed, ItemType
        <5> QED
          BY <1>1, <2>3, <3>1, <5>1 DEF IInv, Truth
      <4>3. CASE item[q].prog # "registered"
        BY <1>1, <3>1, <4>1, <4>3 DEF IInv, Account, Dealt
      <4> QED
        BY <4>2, <4>3
    <3> QED
      BY <3>2, <3>3
  <2>4. ASSUME NEW r \in Rels, item[r].prog = "registered"
        PROVE  dirty'
    <3>1. new > unindexed /\ new \in Nat /\ unindexed \in Nat
      BY <1>1, <2>2, <2>4 DEF IInv, Account, Typed
    <3>2. Registered
      BY <3>1 DEF Registered
    <3> QED
      BY <2>1, <3>2
  <2> QED
    BY <2>3, <2>4
<1>2. IInv /\ [Next]_vars => [run = "copying" /\ run' = "done" => Covered]_vars
  <2> HIDE DEF Covered
  <2> QED
    BY <1>1
<1> QED
  BY Inductive, <1>2, PTL DEF Spec, DoneMeansCatalogued

=============================================================================
