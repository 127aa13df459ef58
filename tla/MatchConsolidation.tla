-------------------------- MODULE MatchConsolidation --------------------------
(***************************************************************************)
(* consolidate_chunk_matches (src/src/core/match_consolidation.py): how    *)
(* the chunk pairs that are alike become the passages of a report, and how *)
(* much of the target document they cover.                                 *)
(*                                                                         *)
(* A match is the two ranges of its chunks, half open as in Python; its    *)
(* similarity and its texts are left out.                                  *)
(*                                                                         *)
(* An operator named after a slip stands above the definition it is a      *)
(* mutated form of; no behaviour uses it.                                  *)
(***************************************************************************)
EXTENDS Integers, Sequences, FiniteSetsExt, Folds

VARIABLES
    matches,   \* the matches of two documents
    todo,      \* those not in a group yet
    groups     \* the groups, each a set of matches

matchVars == <<matches, todo, groups>>

Match == [source_start : Nat, source_end : Nat, target_start : Nat, target_end : Nat]

\* The order of the loop.
Precedes(m, n) ==
    \/ m.source_start < n.source_start
    \/ m.source_start = n.source_start /\
         \/ m.target_start < n.target_start
         \/ m.target_start = n.target_start /\
              \/ m.source_end < n.source_end
              \/ m.source_end = n.source_end /\ m.target_end < n.target_end

TouchAcrossOneGap(a, b, c, d)  == a <= d + 1 /\ c <= b + 1
TouchOrOverlap(a, b, c, d)     == a <= d /\ c <= b

SourcesTouch(m, n) == TouchOrOverlap(m.source_start, m.source_end, n.source_start, n.source_end)
TargetsTouch(m, n) == TouchOrOverlap(m.target_start, m.target_end, n.target_start, n.target_end)

\* The two mappings do not cross.
Ordered(m, n) ==
    \/ m.source_start = n.source_start
    \/ m.target_start = n.target_start
    \/ m.source_start < n.source_start <=> m.target_start < n.target_start

Compatible(m, n) == SourcesTouch(m, n) /\ TargetsTouch(m, n) /\ Ordered(m, n)

\* _union_length: the ranges from left to right, each adding what lies behind
\* the end of those before it.
LeftOf(r, q)  == r[1] < q[1] \/ (r[1] = q[1] /\ r[2] < q[2])
Rightmost(ranges) == CHOOSE r \in ranges : \A q \in ranges \ {r} : LeftOf(q, r)
Extended(u, r) ==
    IF r[1] > u.end THEN [length |-> u.length + (r[2] - r[1]), end |-> r[2]]
    ELSE IF r[2] > u.end THEN [length |-> u.length + (r[2] - u.end), end |-> r[2]]
    ELSE u
UnionLengthOfAll(ranges) == MapThenSumSet(LAMBDA r : r[2] - r[1], ranges)
UnionLength(ranges) ==
    MapThenFoldSet(LAMBDA r, u : Extended(u, r), [length |-> 0, end |-> 0],
                   LAMBDA r : r, Rightmost, ranges).length

Sources(group) == {<<m.source_start, m.source_end>> : m \in group}
Targets(group) == {<<m.target_start, m.target_end>> : m \in group}

\* _build_segment
Segment(group) ==
    [source_start |-> Min({m.source_start : m \in group}),
     source_end   |-> Max({m.source_end : m \in group}),
     target_start |-> Min({m.target_start : m \in group}),
     target_end   |-> Max({m.target_end : m \in group})]

\* The numerators of a segment's coverage and of consolidated_target_coverage.
SourceCovered(group) == UnionLength(Sources(group))
TargetCovered(group) == UnionLength(Targets(group))
Covered == UnionLength(Targets({Segment(groups[i]) : i \in DOMAIN groups}))

-----------------------------------------------------------------------------
Joins(m) == groups # <<>> /\ \E n \in groups[Len(groups)] : Compatible(n, m)

\* One round of the loop: the next match joins the last group or starts one.
Place(m) ==
    groups' = IF Joins(m) THEN [groups EXCEPT ![Len(groups)] = @ \cup {m}]
              ELSE Append(groups, {m})

Consolidate ==
    \E m \in todo :
        /\ \A n \in todo \ {m} : Precedes(m, n)
        /\ Place(m)
        /\ todo' = todo \ {m}
        /\ UNCHANGED matches

-----------------------------------------------------------------------------
(* Properties *)

MatchTypeOK ==
    /\ matches \subseteq Match /\ todo \subseteq matches
    /\ groups \in Seq(SUBSET matches)

Positions(ranges) == UNION {r[1]..(r[2] - 1) : r \in ranges}

\* Every match stays as evidence, in one passage, and the two ranges of a passage
\* have no hole: it reports no stretch of either document that no match of its own
\* supports, however the matches arrived (the test against any match of the group).
SegmentsAreSolid ==
    /\ matches = todo \cup UNION {groups[i] : i \in DOMAIN groups}
    /\ \A i, k \in DOMAIN groups : i # k => groups[i] \cap groups[k] = {}
    /\ \A i \in DOMAIN groups :
         LET s == Segment(groups[i]) IN
         /\ s.source_start..(s.source_end - 1) = Positions(Sources(groups[i]))
         /\ s.target_start..(s.target_end - 1) = Positions(Targets(groups[i]))

\* A character counts once in every coverage of the report, however many matches
\* have it: those of a passage are the numbers of its positions, and the merged
\* length of the passages is the number of characters some match has.
CoverageCounts ==
    /\ \A i \in DOMAIN groups :
         /\ SourceCovered(groups[i]) = Cardinality(Positions(Sources(groups[i])))
         /\ TargetCovered(groups[i]) = Cardinality(Positions(Targets(groups[i])))
    /\ todo = {} => Covered = Cardinality(Positions(Targets(matches)))
=============================================================================
