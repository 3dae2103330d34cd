------------------------------- MODULE NearDup ------------------------------
(***************************************************************************)
(* The perceptual stages of a dedup review: which files are near           *)
(* duplicates, how they are grouped, which one of a group is suggested to  *)
(* be kept and why, and the figures shown with it.  Stage 2 takes the      *)
(* photos within t_photo_recompress and the videos, stage 3 the photos up  *)
(* to t_photo_edit; each is planned by a job of its own that reads the     *)
(* configuration anew, while the run keeps the thresholds it was opened    *)
(* with for the figures.                                                   *)
(*                                                                         *)
(* A photo's hash is a number and two hashes are as far apart as the       *)
(* numbers; a video is a duration and a hash and quality for each frame.   *)
(* A content has one file, and files are numbered in the order of their    *)
(* paths.  A file may vanish, a shortcut or a recycle fail: not every      *)
(* member of a group found gets a row of the review.  What else a review   *)
(* does (editing the folder, confirming, crashing) is DedupReview.         *)
(***************************************************************************)
EXTENDS Integers, Sequences, FiniteSets, FiniteSetsExt, SequencesExt

CONSTANTS Collections,   \* the collections reviewed, each a record (see NearInit)
          Configs,       \* thresholds the configuration may hold
          Video          \* the knobs of the video matcher

ASSUME VideoAssumption ==
    /\ Video.tolerance \in Nat
    /\ Video.minQuality \in Nat
    /\ Video.minComparable \in Nat \ {0}
    /\ Video.match \in Nat
    /\ Video.fraction \in 0 .. 100

\* Hashes of 256 bits; the parts of a key are those of Levels.
PhotoCollection(c) ==
    /\ c.hash \in [DOMAIN c.home -> 0 .. 256]
    /\ c.key \in [DOMAIN c.home -> [1 .. 3 -> Int]]

VideoCollection(c) ==
    /\ c.duration \in [DOMAIN c.home -> Nat]
    /\ \A a \in DOMAIN c.home :
          /\ IsFiniteSet(DOMAIN c.frames[a])
          /\ c.frames[a] \in [DOMAIN c.frames[a] -> [hash : 0 .. 256, quality : Nat]]
    /\ c.key \in [DOMAIN c.home -> [1 .. 4 -> Int]]

ASSUME CollectionAssumption ==
    \A c \in Collections :
        /\ IsFiniteSet(DOMAIN c.home) /\ DOMAIN c.home \subseteq Nat \ {0}
        /\ c.home \in [DOMAIN c.home -> {"in", "out"}]
        /\ c.prefer \in BOOLEAN
        /\ c.bare \subseteq {a \in DOMAIN c.home : c.home[a] = "out"}
        /\ c.fragile \subseteq DOMAIN c.home \ c.bare
        /\ \/ c.medium = "photo" /\ PhotoCollection(c)
           \/ c.medium = "video" /\ VideoCollection(c)

ASSUME ThresholdAssumption == Configs \subseteq [recompress : Nat, edit : Nat]

Recompress == 2
Edit       == 3
NoLead     == 0

VARIABLES
    coll,      \* the collection: medium, hash, frames, key, home, prefer; bare:
               \* active without a file (untrashed in a review); fragile: files that
               \* may vanish; unlinkable: files whose shortcut may not be written
    present,   \* active assets of the catalog
    gone,      \* files that vanished from the disk
    loaded,    \* the active assets as the job that planned the stage read them
    config,    \* the configuration as it stands
    opened,    \* the thresholds the run was opened with
    cfg,       \* the thresholds the current job read
    stage,     \* the stage planned, staged or confirmed
    phase,     \* "match", "cluster", "staged" or "over"
    unmatched, \* targets not compared yet
    edges,     \* distance of each pair found
    search,    \* the depth-first search: start, stack, component, seen
    groups,    \* components found
    listed,    \* the members with a row of the staged review
    shown      \* the pairs the user has been shown in a group

nearVars == <<coll, present, gone, loaded, config, opened, cfg, stage, phase, unmatched,
          edges, search, groups, listed, shown>>

Pool == DOMAIN coll.home

Gap(x, y) == IF x < y THEN y - x ELSE x - y

(***************************************************************************)
(* The matcher.                                                            *)
(***************************************************************************)
DurationsClose(a, b) == Gap(coll.duration[a], coll.duration[b]) <= Video.tolerance

\* The frame positions at which both videos are sharp enough to tell.
Comparable(a, b) ==
    {f \in DOMAIN coll.frames[a] \cap DOMAIN coll.frames[b] :
        /\ coll.frames[a][f].quality >= Video.minQuality
        /\ coll.frames[b][f].quality >= Video.minQuality}

FrameGap(a, b, f) == Gap(coll.frames[a][f].hash, coll.frames[b][f].hash)

VideoMatches(a, b) ==
    LET seen == Comparable(a, b)
        near == {f \in seen : FrameGap(a, b, f) <= Video.match}
    IN  /\ DurationsClose(a, b)
        /\ Cardinality(seen) >= Video.minComparable
        /\ 100 * Cardinality(near) >= Video.fraction * Cardinality(seen)

\* To the nearest whole number, to the even one of two.
Mean(gaps) ==
    LET n == Cardinality(DOMAIN gaps)
        q == SumFunction(gaps) \div n
        r == SumFunction(gaps) % n
    IN  IF 2 * r > n \/ (2 * r = n /\ q % 2 = 1) THEN q + 1 ELSE q

VideoDistance(a, b) == Mean([f \in Comparable(a, b) |-> FrameGap(a, b, f)])

PhotoMatches(a, b) == Gap(coll.hash[a], coll.hash[b]) <= cfg.edit

Matches(a, b) == IF coll.medium = "photo" THEN PhotoMatches(a, b) ELSE VideoMatches(a, b)

Distance(a, b) == IF coll.medium = "photo" THEN Gap(coll.hash[a], coll.hash[b])
                  ELSE VideoDistance(a, b)

InRoot        == {a \in present : coll.home[a] = "in"}
LoadedTargets == {a \in loaded : coll.home[a] = "in"}

(***************************************************************************)
(* The stage's band.                                                       *)
(***************************************************************************)
\* Mutant: the pairs at the threshold belong to both stages.
InBandOverlapping(d) ==
    IF coll.medium = "video" THEN stage = Recompress
    ELSE IF stage = Recompress THEN d <= cfg.recompress ELSE d >= cfg.recompress

InBand(d) ==
    IF coll.medium = "video" THEN stage = Recompress
    ELSE IF stage = Recompress THEN d <= cfg.recompress ELSE d > cfg.recompress

Banded == {p \in DOMAIN edges : InBand(edges[p])}
Paired == UNION Banded
Neighbours(a) == {b \in Paired \ {a} : {a, b} \in Banded}

(***************************************************************************)
(* The lead of a group.  A key is compared from its first part on.         *)
(***************************************************************************)
Levels == IF coll.medium = "photo"
          THEN <<"resolution", "+ format", "+ size">>
          ELSE <<"resolution", "+ bitrate", "+ codec", "+ fine bitrate">>

KeyGreater(k, l) == \E i \in DOMAIN k : /\ k[i] > l[i]
                                        /\ \A j \in 1 .. i - 1 : k[j] = l[j]

\* 1 for the copy preferred in a tie: the external one unless told otherwise.
PrefRank(a) == IF (coll.home[a] = "out") # coll.prefer THEN 1 ELSE 0

\* Mutant: the preference comes before the last part of the key.
BetterByPreference(a, b) ==
    LET k == Front(coll.key[a])  l == Front(coll.key[b]) IN
    \/ KeyGreater(k, l)
    \/ k = l /\ PrefRank(a) > PrefRank(b)
    \/ k = l /\ PrefRank(a) = PrefRank(b) /\ KeyGreater(coll.key[a], coll.key[b])
    \/ coll.key[a] = coll.key[b] /\ PrefRank(a) = PrefRank(b) /\ a < b

\* (key, preference) decide, then the smallest path.
Better(a, b) ==
    \/ KeyGreater(coll.key[a], coll.key[b])
    \/ coll.key[a] = coll.key[b] /\ PrefRank(a) > PrefRank(b)
    \/ coll.key[a] = coll.key[b] /\ PrefRank(a) = PrefRank(b) /\ a < b

\* The members of a group in the order of their ids.
Rows(group) == CHOOSE s \in SetToSeqs(group) : \A i, j \in DOMAIN s : i < j => s[i] < s[j]

\* The lead of the first i rows, for every i.
Leads(rows) ==
    LET best[i \in DOMAIN rows] ==
            IF i = 1 \/ Better(rows[i], best[i - 1]) THEN rows[i] ELSE best[i - 1]
    IN  best

\* Only members with a file become actions of the plan.
Filed(group) == group \ coll.bare

Suggestion(group) ==
    IF stage # Recompress THEN NoLead
    ELSE Leads(Rows(Filed(group)))[Cardinality(Filed(group))]

\* The first level at which nobody shares the lead's key so far.
LeadReason(group) ==
    LET lead   == Suggestion(group)
        same(n) == {a \in Filed(group) : SubSeq(coll.key[a], 1, n) = SubSeq(coll.key[lead], 1, n)}
        alone  == {n \in DOMAIN coll.key[lead] : same(n) = {lead}}
        tied   == same(Len(coll.key[lead]))
    IN  IF alone # {} THEN Levels[Min(alone)]
        ELSE IF Cardinality({coll.home[a] : a \in tied}) > 1 THEN "preference" ELSE "path"

(***************************************************************************)
(* The figures shown with a staged review, over its rows.                  *)
(***************************************************************************)
NearestDistance(a) == Min({edges[{a, b}] : b \in Neighbours(a)})

\* Mutant: a bin starts after the end of the one before it.
ThirdsApart(lo, hi) ==
    LET span == hi - lo + 1
        a    == lo + span \div 3 - 1
        b    == lo + (2 * span) \div 3 - 1
    IN  {<<lo, a>>, <<a + 1, b - 1>>, <<b + 1, hi>>}

Thirds(lo, hi) ==
    LET span == hi - lo + 1
        a    == lo + span \div 3 - 1
        b    == lo + (2 * span) \div 3 - 1
    IN  {<<lo, a>>, <<a + 1, b>>, <<b + 1, hi>>}

\* A video's mean can exceed the threshold: its last bin is open.
StageBins(t) ==
    IF coll.medium = "video" THEN Thirds(0, Video.match) \cup {<<Video.match + 1, 1000>>}
    ELSE IF stage = Recompress THEN Thirds(0, t.recompress)
    ELSE Thirds(t.recompress + 1, t.edit)

\* The thresholds are those the run was opened with.
Bins == StageBins(opened)

Counted == {a \in listed :
              \E bin \in Bins : bin[1] <= NearestDistance(a) /\ NearestDistance(a) <= bin[2]}

Side(members) == {coll.home[a] : a \in members}
Mixed         == {g \in groups : Side(g \cap listed) = {"in", "out"}}
AllInternal   == {g \in groups : Side(g \cap listed) = {"in"}}
Led(g)        == Suggestion(g) \in listed
LeadsOut      == {g \in Mixed : Led(g) /\ coll.home[Suggestion(g)] = "out"}
LeadsIn       == {g \in Mixed : Led(g) /\ coll.home[Suggestion(g)] = "in"}

\* What --keep-suggested is said to delete.
KeepSuggestedDeletes == {a \in listed : \A g \in groups : Suggestion(g) # a}

\* What it sets out to delete: a group whose lead has no row is spared.
KeepSuggestedIntended == {a \in KeepSuggestedDeletes : \A g \in groups : a \in g => Led(g)}

(***************************************************************************)
(* A job plans a stage: the targets are compared with the collection, one  *)
(* after the other, then the pairs in the stage's band are grouped.        *)
(***************************************************************************)
Nowhere == [start |-> NoLead, stack |-> <<>>, comp |-> {}, seen |-> {}]

\* The thresholds are the file's at the time the job starts.
NearInit ==
    /\ coll \in Collections
    /\ present = Pool
    /\ gone = {}
    /\ loaded = Pool
    /\ config \in Configs
    /\ opened = config
    /\ cfg = config
    /\ stage = Recompress
    /\ phase = "match"
    /\ unmatched = InRoot
    /\ edges = <<>>
    /\ search = Nowhere
    /\ groups = {}
    /\ listed = {}
    /\ shown = {}

\* One row of a target against the pool; a pair seen from both ends keeps the
\* smaller distance.
Match(t) ==
    /\ phase = "match"
    /\ t \in unmatched
    /\ unmatched' = unmatched \ {t}
    /\ LET hits   == {{t, o} : o \in {o \in loaded \ {t} : Matches(t, o)}}
           far(p) == LET o == CHOOSE o \in p : o # t IN Distance(t, o)
       IN  edges' = [p \in DOMAIN edges \cup hits |->
                        IF p \notin hits THEN edges[p]
                        ELSE IF p \notin DOMAIN edges THEN far(p)
                        ELSE Min({edges[p], far(p)})]
    /\ UNCHANGED <<coll, present, gone, loaded, config, opened, cfg, stage, phase, search,
                   groups, listed, shown>>

\* The stage with candidates is staged, one without is passed over.
Matched ==
    /\ phase = "match"
    /\ unmatched = {}
    /\ IF Banded # {}
       THEN phase' = "cluster" /\ UNCHANGED stage
       ELSE IF stage = Recompress
       THEN stage' = Edit /\ UNCHANGED phase
       ELSE phase' = "over" /\ UNCHANGED stage
    /\ UNCHANGED <<coll, present, gone, loaded, config, opened, cfg, unmatched, edges, search,
                   groups, listed, shown>>

StartComponent(a) ==
    /\ phase = "cluster"
    /\ search.stack = <<>> /\ search.comp = {}
    /\ a \in Paired \ search.seen
    /\ search' = [start |-> a, stack |-> <<a>>, comp |-> {}, seen |-> search.seen \cup {a}]
    /\ UNCHANGED <<coll, present, gone, loaded, config, opened, cfg, stage, phase, unmatched,
                   edges, groups, listed, shown>>

\* Mutant: only the neighbours of the start join the component.
VisitStar ==
    /\ phase = "cluster"
    /\ search.stack # <<>>
    /\ LET n   == Last(search.stack)
           new == IF n = search.start THEN Neighbours(n) \ search.seen ELSE {}
       IN  search' = [search EXCEPT !.stack = Front(@) \o SetToSeq(new),
                                    !.comp = @ \cup {n}, !.seen = @ \cup new]
    /\ UNCHANGED <<coll, present, gone, loaded, config, opened, cfg, stage, phase, unmatched,
                   edges, groups, listed, shown>>

Visit ==
    /\ phase = "cluster"
    /\ search.stack # <<>>
    /\ LET n   == Last(search.stack)
           new == Neighbours(n) \ search.seen
       IN  search' = [search EXCEPT !.stack = Front(@) \o SetToSeq(new),
                                    !.comp = @ \cup {n}, !.seen = @ \cup new]
    /\ UNCHANGED <<coll, present, gone, loaded, config, opened, cfg, stage, phase, unmatched,
                   edges, groups, listed, shown>>

EndComponent ==
    /\ phase = "cluster"
    /\ search.stack = <<>> /\ search.comp # {}
    /\ groups' = groups \cup {search.comp}
    /\ search' = [search EXCEPT !.comp = {}, !.start = NoLead]
    /\ UNCHANGED <<coll, present, gone, loaded, config, opened, cfg, stage, phase, unmatched,
                   edges, listed, shown>>

\* The next stage is planned anew from the catalog, or the run closes.
NextStage ==
    IF stage = Edit
    THEN /\ phase' = "over"
         /\ UNCHANGED <<stage, loaded, unmatched, edges, groups>>
    ELSE /\ phase' = "match"
         /\ stage' = Edit
         /\ loaded' = present'
         /\ unmatched' = {a \in loaded' : coll.home[a] = "in"}
         /\ edges' = <<>>
         /\ groups' = {}

\* Every member is in a component.  A member whose file has vanished is
\* forgotten, one whose shortcut is not written has no row; a stage left
\* without rows is passed over.
Stage(unwritten) ==
    /\ phase = "cluster"
    /\ search.stack = <<>> /\ search.comp = {} /\ search.seen = Paired
    /\ unwritten \subseteq coll.unlinkable
    /\ present' = present \ ((UNION groups) \cap gone)
    /\ listed' = (UNION {Filed(g) : g \in groups}) \ (gone \cup unwritten)
    /\ IF listed' # {}
       THEN /\ phase' = "staged"
            /\ shown' = shown \cup {<<p, stage>> : p \in {p \in Banded : p \subseteq listed'}}
            /\ UNCHANGED <<stage, loaded, unmatched, edges, groups>>
       ELSE NextStage /\ UNCHANGED shown
    /\ search' = Nowhere
    /\ UNCHANGED <<coll, gone, config, opened, cfg>>

(***************************************************************************)
(* The user, and the job that confirms.                                    *)
(***************************************************************************)
EditConfig(c) ==
    /\ phase = "staged"
    /\ config = opened
    /\ config' = c
    /\ config' # config
    /\ UNCHANGED <<coll, present, gone, loaded, opened, cfg, stage, phase, unmatched, edges,
                   search, groups, listed, shown>>

\* A file vanishes, whatever the catalog says.
GoMissing(a) ==
    /\ phase # "over"
    /\ a \in (coll.fragile \cap present) \ gone
    /\ gone' = gone \cup {a}
    /\ UNCHANGED <<coll, present, loaded, config, opened, cfg, stage, phase, unmatched, edges,
                   search, groups, listed, shown>>

\* The members in deleted go, and a job under the configuration as it stands
\* goes on.
PlanNext(deleted) ==
    /\ present' = present \ deleted
    /\ listed' = {}
    /\ cfg' = config
    /\ NextStage
    /\ UNCHANGED <<coll, gone, config, opened, search, shown>>

\* The shortcuts removed are the files deleted, but for those that could not
\* be recycled.
Confirm(deleted) ==
    /\ phase = "staged"
    /\ deleted \subseteq listed
    /\ PlanNext(deleted)

\* The files in held could not be recycled.
KeepSuggested(held) ==
    /\ phase = "staged"
    /\ stage = Recompress
    /\ held \subseteq KeepSuggestedIntended \ gone
    /\ PlanNext(KeepSuggestedIntended \ held)

Over == phase = "over" /\ UNCHANGED nearVars

NearNext ==
    \/ \E t \in Pool : Match(t)
    \/ Matched
    \/ \E a \in Pool : StartComponent(a)
    \/ Visit
    \/ EndComponent
    \/ \E unwritten \in SUBSET coll.unlinkable : Stage(unwritten)
    \/ \E a \in Pool : GoMissing(a)
    \/ \E c \in Configs : EditConfig(c)
    \/ \E deleted \in SUBSET Pool : Confirm(deleted)
    \/ \E held \in SUBSET Pool : KeepSuggested(held)
    \/ Over

NearSpec == NearInit /\ [][NearNext]_nearVars

-----------------------------------------------------------------------------

\* A and b are near duplicates that the stage should show together, whichever
\* of them lies in the reviewed root.
NearPair(a, b) ==
    /\ a # b
    /\ {a, b} \cap LoadedTargets # {}
    /\ Matches(a, b)
    /\ InBand(Distance(a, b))

\* b can be reached from a over near pairs: it is in every set of files that
\* holds a and the near files of its own.
Linked(a, b) ==
    \A S \in SUBSET loaded :
        a \in S /\ (\A x \in S : \A y \in loaded : NearPair(x, y) => y \in S) => b \in S

\* The groups planned are the connected components of the near pairs: no file
\* is in two groups, none that belongs is missing, and neither the order of
\* the rows nor the end from which a pair was found matters.
GroupsAreComponents ==
    phase = "staged" =>
        groups = {{b \in loaded : Linked(a, b)} :
                     a \in {a \in loaded : \E b \in loaded : NearPair(a, b)}}

\* dedup_rank.py:30 the suggested copy is never worse by the key than another
\* of its group, the reason given names what decided (a difference at that
\* level from every copy that ties above it), and the preference for a side is
\* given as the reason only when an equal copy lies on the other side.
LeadIsMaster ==
    phase = "staged" /\ stage = Recompress =>
        \A g \in groups :
            LET lead == Suggestion(g)
                tied == {a \in Filed(g) : coll.key[a] = coll.key[lead]}
                why  == LeadReason(g)
            IN  /\ lead \in Filed(g)
                /\ \A a \in Filed(g) : ~KeyGreater(coll.key[a], coll.key[lead])
                /\ (why = "preference") = (Side(tied) = {"in", "out"})
                /\ why = "preference" => PrefRank(lead) = 1
                /\ why \in {"preference", "path"} => tied # {lead}
                /\ why = "resolution" =>
                      \A a \in Filed(g) \ {lead} : coll.key[a][1] < coll.key[lead][1]

\* review_stats.py: the figures agree with each other and with what a confirm
\* does, as far as every member got its row.  A group that is in neither count
\* of the make-up had a member in the root that got none; the mixed groups are
\* split by the side of their suggestion, but for those whose suggested copy
\* got none; --keep-suggested is said to delete all rows but those of the
\* leads, leaves a file of every group, and sets out to delete what it is said
\* to if every lead has its row; and every row is in a bin of the histogram if
\* the stage was planned under the thresholds the run was opened with.
FiguresAddUp ==
    phase = "staged" =>
        /\ \A g \in groups \ (AllInternal \cup Mixed) :
              \E a \in Filed(g) \ listed : coll.home[a] = "in"
        /\ stage = Recompress =>
             /\ Cardinality(LeadsIn) + Cardinality(LeadsOut) = Cardinality({g \in Mixed : Led(g)})
             /\ Cardinality(KeepSuggestedDeletes)
                  = Cardinality(listed) - Cardinality({g \in groups : Led(g)})
             /\ \A g \in groups : g \cap listed # {} => ~(g \cap listed \subseteq KeepSuggestedIntended)
             /\ (\A g \in groups : Led(g)) => KeepSuggestedIntended = KeepSuggestedDeletes
        /\ cfg = opened => Counted = listed

\* A run that no edit of the configuration interrupts shows each near pair in
\* one stage, and once it is over has shown every pair of which both are left.
\* Excepted is a pair of which one has no file or may have got no shortcut.
PairsShownOnce ==
    config = opened =>
        /\ \A p \in {e[1] : e \in shown} : ~({<<p, Recompress>>, <<p, Edit>>} \subseteq shown)
        /\ phase = "over" =>
             \A a \in InRoot : \A b \in present \ {a} :
                 Matches(a, b) /\ {a, b} \cap (coll.bare \cup coll.unlinkable) = {}
                    => \E s \in {Recompress, Edit} : <<{a, b}, s>> \in shown

\* jobs/dedup.py:221 "the run's stages and histogram bins derive from these
\* values": the bins, then, count every row of the stage whatever the
\* configuration says by now.
HistogramComplete == phase = "staged" => Counted = listed

\* review_stats.py:203 "a mixed group always has a suggested lead and these two
\* counts sum to `mixed` - for fresh data".
SplitSumsToMixed ==
    phase = "staged" /\ stage = Recompress =>
        Cardinality(LeadsIn) + Cardinality(LeadsOut) = Cardinality(Mixed)

\* review_stats.py:215 "--keep-suggested deletes every non-lead member".
KeepFigureIsKept ==
    phase = "staged" /\ stage = Recompress => KeepSuggestedIntended = KeepSuggestedDeletes
=============================================================================
