---------------------------- MODULE MCCorpusIndex ----------------------------
(* Small instances of CorpusIndex: a site by itself, one in each of two       *)
(* processes, and two in one process with a third in another; no clerks.      *)
EXTENDS CorpusIndex, TLC

CONSTANTS f1, f2, s1, s2, s3, essay, p1, p2

OneName  == [f \in Files |-> essay]
OneChunk == [f \in Files |-> 1]
Sizes    == [f \in Files |-> IF f = f1 THEN 2 ELSE 1]
Shared   == [s \in Sites |-> p1]
Apart    == [s \in Sites |-> IF s = s1 THEN p1 ELSE p2]
Third    == [s \in Sites |-> IF s = s3 THEN p2 ELSE p1]

Symmetry == Permutations(Files)
=============================================================================
