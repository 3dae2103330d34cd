------------------------------ MODULE MCNearDup -----------------------------
EXTENDS NearDup

Narrow == [recompress |-> 1, edit |-> 3]
Wide   == [recompress |-> 2, edit |-> 3]
TwoConfigs == {Narrow, Wide}

Knobs == [tolerance |-> 1, minQuality |-> 1, minComparable |-> 2, match |-> 1,
          fraction |-> 60]

Sides == {"in", "out"}

Whole == [bare |-> {}, unlinkable |-> {}, fragile |-> {}]
Flawed(c, flaws) == {c @@ f : f \in flaws}

\* Four photos on a line of hashes, all ties or none.
Line == {Whole @@ [medium |-> "photo", hash |-> h, home |-> o, prefer |-> FALSE,
          key |-> [a \in 1 .. 4 |-> <<1, 0, 0>>]] :
            h \in {h \in [1 .. 4 -> {0, 1, 3, 4}] : h[2] = 1},
            o \in {o \in [1 .. 4 -> Sides] : o[3] = "in"}}

\* Three photos that are one group, of every rank and side.
Ranks  == {<<2, 0, 0>>, <<1, 1, 0>>, <<1, 0, 1>>, <<1, 0, 0>>}
Ranked == {Whole @@ [medium |-> "photo", hash |-> [a \in 1 .. 3 |-> 0], home |-> o, prefer |-> p,
            key |-> k] :
            o \in [1 .. 3 -> Sides], k \in [1 .. 3 -> Ranks], p \in BOOLEAN}

\* Two videos of three frames.
Frames == [hash : {0, 1, 3}, quality : {1}] \cup {[hash |-> 0, quality |-> 0]}
Clips  == {Whole @@ [medium |-> "video", duration |-> (1 :> 10) @@ (2 :> d),
            frames |-> (1 :> [f \in 1 .. 3 |-> [hash |-> 0, quality |-> 1]])
                       @@ (2 :> fr),
            home |-> (1 :> "in") @@ (2 :> s), prefer |-> FALSE,
            key |-> [a \in 1 .. 2 |-> <<1, a, 0, 0>>]] :
            d \in {11, 12}, s \in Sides, fr \in [1 .. 3 -> Frames]}

\* A photo without a file, ones that may vanish and ones that may get no
\* shortcut, in a chain whose ends are near in the second stage.
Flaws  == [bare : {{}, {1}}, unlinkable : {{}, {2}, {1, 3}}, fragile : {{}, {4}, {2, 3}}]
Chain(o) == [medium |-> "photo", hash |-> <<0, 1, 2, 5>>, home |-> o, prefer |-> FALSE,
             key |-> <<<<1, 0, 0>>, <<2, 0, 0>>, <<2, 0, 0>>, <<1, 0, 0>>>>]
Chains == UNION {Flawed(Chain(o), Flaws) :
            o \in {o \in [1 .. 4 -> Sides] : o[1] = "out" /\ "in" \in {o[i] : i \in 2 .. 4}}}

Samples == Line \cup Ranked \cup Clips \cup Chains
=============================================================================
