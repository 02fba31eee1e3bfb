----------------------------- MODULE HistoryChart -----------------------------
(***************************************************************************)
(* The time axis of the history charts (buildCompressedTimeline() and      *)
(* selectTimeLabelIndexes() in sensorReadingsUtils.js): long pauses between*)
(* readings are cut to a mark, and within a cluster of readings time runs  *)
(* evenly.  t is the sequence of their times in seconds, never decreasing; *)
(* a place on the axis is in hundredths of a pixel, rounded down where the *)
(* code keeps the fraction.                                                *)
(***************************************************************************)
EXTENDS Integers, SequencesExt, FiniteSetsExt

Left  == 4200
Width == 50000

Deltas(t) == [i \in 1..(Len(t) - 1) |-> Max({1, t[i + 1] - t[i]})]

Percentile25(s) == SortSeq(s, <)[1 + (Len(s) - 1) \div 4]

\* Of less than three pauses none is typical yet.
TypicalGap(t) ==
    IF Len(t) > 3 THEN Percentile25(Deltas(t))
                  ELSE Min({60} \cup Range(Deltas(t)))

Gaps(t) ==
    LET pauses == Deltas(t)  threshold == Max({300, 8 * TypicalGap(t)})
    IN  {i \in DOMAIN pauses : pauses[i] > threshold}

\* The clusters of n readings with the long pauses G, each named by its last
\* reading.
Ends(n, G)         == G \cup {n}
ClusterOf(n, G, i) == Min({e \in Ends(n, G) : e >= i})
StartOf(G, e)      == Max({1} \cup {g + 1 : g \in {f \in G : f < e}})

\* However many marks there are, each is as wide as one alone.
FaultyBreakWidth(G) == Min({4200, Max({2800, (8 * Width) \div 100})})

\* From six marks on the axis is shared out.
BreakWidth(G) ==
    LET share == Width \div (2 * Cardinality(G) + 2)
    IN  Min({4200, Max({2800, (8 * Width) \div 100}), share})

RoomForClusters(G) == Max({Width - Cardinality(G) * BreakWidth(G), Width \div 4})

\* A lone reading counts as three quarters of a step.
Weight(G, e) == Max({4 * (e - StartOf(G, e)), 3})

\* The sums of the first numbers of f: of none, one, two, ...
Running(f) ==
    LET sum[i \in 0..Len(f)] == IF i = 0 THEN 0 ELSE sum[i - 1] + f[i]
    IN  sum

Weights(n, G) ==
    [i \in 1..n |-> IF i \in Ends(n, G) THEN Weight(G, i) ELSE 0]

ClusterWidths(n, G) ==
    LET total == Running(Weights(n, G))[n]
    IN  [e \in 1..n |-> (RoomForClusters(G) * Weight(G, e)) \div total]

ClusterWidth(n, G, e) == ClusterWidths(n, G)[e]

\* A cluster that ends at a pause, and the mark after it.
Advances(n, G) ==
    LET widths == ClusterWidths(n, G)
    IN  [i \in 1..n |-> IF i \in G THEN widths[i] + BreakWidth(G) ELSE 0]

Cursor(n, G, e) == Left + Running(Advances(n, G))[e - 1]

\* A lone reading stands at its neighbours' side of the axis's ends.
Alone(n, G, e) ==
    IF n = 1 THEN Width \div 2
    ELSE IF e = 1 THEN ClusterWidth(n, G, e)
    ELSE IF e = n THEN 0 ELSE ClusterWidth(n, G, e) \div 2

Within(t, G, s, e, i) ==
    ((t[i] - t[s]) * ClusterWidth(Len(t), G, e)) \div Max({1, t[e] - t[s]})

XPosition(t, G, i) ==
    LET e == ClusterOf(Len(t), G, i)
        s == StartOf(G, e)
        x == Cursor(Len(t), G, e)
                + (IF s = e THEN Alone(Len(t), G, e) ELSE Within(t, G, s, e, i))
    IN  Min({Left + Width, x})

\* SubSeq() takes all of it: TLC then computes every place once.
XPositions(t) == SubSeq([i \in 1..Len(t) |-> XPosition(t, Gaps(t), i)], 1, Len(t))

GapBreak(t, g) ==
    Cursor(Len(t), Gaps(t), g) + ClusterWidth(Len(t), Gaps(t), g) + BreakWidth(Gaps(t)) \div 2

\* Both are drawn about it: the mark so far to either side, and the lines from
\* the readings around it end so far before it.
MarkHalfWidth == 1500
LineHalfWidth == 1100

----------------------------------------------------------------------------
(* Which readings have their time written below the axis *)

LabelWidth == 9200

Candidates(t) ==
    {1, 1 + (Len(t) - 1) \div 2, Len(t)} \cup {g + 1 : g \in Gaps(t)}

\* The candidates C at x from left to right: each has as many to its left as
\* come before it.
FromLeft(C, x) ==
    LET left(i) == {j \in C : x[j] < x[i] \/ (x[j] = x[i] /\ j < i)}
    IN  [k \in 1..Cardinality(C) |-> CHOOSE i \in C : Cardinality(left(i)) = k - 1]

FaultyPushed(x, selected, i) ==
    \/ i \in {1, Len(x)} \/ selected = <<>>
    \/ x[i] - x[Last(selected)] >= LabelWidth
Pushed(x, selected, i) ==
    \/ i = 1 \/ selected = <<>>
    \/ x[i] - x[Last(selected)] >= LabelWidth

\* The last reading takes the place of a label too close to it.
Considered(x, selected, i) ==
    IF Pushed(x, selected, i) THEN Append(selected, i)
    ELSE IF i = Len(x) THEN Append(Front(selected), i) ELSE selected

\* What is selected of the first candidates c: of none, one, two, ...
Selections(c, x) ==
    LET selected[k \in 0..Len(c)] ==
            IF k = 0 THEN <<>> ELSE Considered(x, selected[k - 1], c[k])
    IN  selected

\* The last reading is then among them, and they are in order (LabelsApart):
\* adding it and sorting them again, the code changes nothing.
TimeLabels(t) ==
    LET c == FromLeft(Candidates(t), XPositions(t))
    IN  IF t = <<>> THEN <<>> ELSE Selections(c, XPositions(t))[Len(c)]
=============================================================================
