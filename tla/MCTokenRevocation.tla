--------------------------- MODULE MCTokenRevocation ---------------------------
(* A small instance of TokenRevocation: two request threads that share the    *)
(* cache of one process, and another process that only revokes, cleans up and *)
(* changes the password.  Nothing reads the cache of the latter, so that      *)
(* states which differ in it alone are one.                                   *)
EXTENDS TokenRevocation, TLC

CONSTANTS p1, p2

TheProcessOf   == [h \in Threads |-> p1]
ThreadSymmetry == Permutations(Threads)

Seen == <<clock, tableVars, cache[p1], todo, lookupVars, said, history, faultsLeft>>
=============================================================================
