----------------------------- MODULE MCFaissLock -----------------------------
(* Small instances of FaissLock: three callers, a timeout of one tick and a   *)
(* stale lock after two.                                                      *)
EXTENDS FaissLock, TLC

ProcSymmetry == Permutations(Procs)
=============================================================================
