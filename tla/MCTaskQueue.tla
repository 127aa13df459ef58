----------------------------- MODULE MCTaskQueue -----------------------------
(* Small instances of TaskQueue: one worker process with two threads, and two *)
(* worker processes with one thread each.                                     *)
EXTENDS TaskQueue, TLC

CONSTANTS p1, p2, w1, w2

\* Rows differ only in their id; created_at is any permutation (see CreateJob).
JobSymmetry == Permutations(Jobs)

HomeShared == [w \in {w1, w2} |-> p1]
HomeApart  == (w1 :> p1) @@ (w2 :> p2)
=============================================================================
