--------------------------- MODULE PassageDetection ---------------------------
(***************************************************************************)
(* From a document to the passages of a report: the chunks of a document   *)
(* (TextChunking) are compared with those of another one, and the pairs    *)
(* above the threshold are consolidated (MatchConsolidation).  The code    *)
(* between the two is the loop over document pairs in                      *)
(* src/src/core/similarity.py.                                             *)
(***************************************************************************)
EXTENDS TextChunking, MatchConsolidation

CONSTANTS OtherChunks,    \* the ranges of the other document's chunks
          MaxMatches      \* bound: pairs above the threshold

ASSUME DetectionAssumption ==
    /\ OtherChunks \subseteq Nat \X Nat /\ IsFiniteSet(OtherChunks)
    /\ \A r \in OtherChunks : r[1] < r[2]
    /\ MaxMatches \in Nat

vars == <<chunkVars, matchVars>>

\* chunk_offsets: when one chunk has no usable positions, all are laid end to end.
Behind[k \in Nat] == IF k = 0 THEN 0 ELSE Behind[k - 1] + Length(result[k])
ChunkOffsets ==
    IF \A k \in DOMAIN result : result[k].end > result[k].start
    THEN {<<result[k].start, result[k].end>> : k \in DOMAIN result}
    ELSE {<<Behind[k - 1], Behind[k]>> : k \in DOMAIN result}

Init == ChunkInit /\ matches = {} /\ todo = {} /\ groups = <<>>

\* Any pairs may be above the threshold.  The text is not needed any more.
Compare ==
    /\ at = "done" /\ at' = "compared"
    /\ LET pairs == {[source_start |-> a[1], source_end |-> a[2],
                      target_start |-> b[1], target_end |-> b[2]] : a \in ChunkOffsets, b \in OtherChunks}
       IN matches' \in SUBSET pairs /\ Cardinality(matches') <= MaxMatches
    /\ todo' = matches' /\ groups' = <<>>
    /\ text' = <<>> /\ begin' = 0 /\ result' = <<>> /\ dropped' = {} /\ full' = FALSE
    /\ UNCHANGED <<size, section, lead, start, pieces>>

Next ==
    \/ ChunkNext /\ UNCHANGED matchVars
    \/ Compare
    \/ Consolidate /\ UNCHANGED chunkVars

Spec == Init /\ [][Next]_vars

TypeOK == ChunkTypeOK /\ MatchTypeOK
=============================================================================
