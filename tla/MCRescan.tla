------------------------------- MODULE MCRescan -------------------------------
(* A small instance of Rescan: one pair of similar documents.                 *)
EXTENDS Rescan, TLC

CONSTANTS a, b

TheDocs  == {a, b}
ThePairs == {{a, b}}

OneEach == [d \in TheDocs |-> 1]
\* A search with a chunk of a fetches three vectors, which may all be its own.
LongAndShort == [d \in TheDocs |-> IF d = a THEN 3 ELSE 1]

\* The scanners are alike and, with OneEach, so are the documents.
Symmetry == Permutations(Scanners) \cup Permutations(TheDocs)

\* Nothing but NoMatchMissed looks at unsure, and nothing but AlertArrives at heard.
WithoutUnsureAndHeard ==
    <<corpusVars, pc, timer, recent, flags, new, fileVars, rowVars, tasks, alerts, outagesLeft,
      faultsLeft, deathsLeft>>
=============================================================================
