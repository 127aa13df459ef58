------------------------------ MODULE WriteLock ------------------------------
(***************************************************************************)
(* What faiss_write_lock (src/src/core/concurrency.py) promises those who  *)
(* write the FAISS index file, without the way the lock file is made,      *)
(* judged and removed: module FaissLock implements it, CorpusIndex and     *)
(* Rescan use it.                                                          *)
(*                                                                         *)
(* A caller gets in when there is no lock file, and one that leaves        *)
(* removes whatever file has that name, unless it dies first or cannot     *)
(* remove it.  A file that was left behind so is removed by a waiter; two  *)
(* waiters may have judged it stale, and the second removes a file that    *)
(* the first has made since: from then on the file of a living holder can  *)
(* go at any time.                                                         *)
(***************************************************************************)
CONSTANT Callers

VARIABLES
    lockFile,  \* the lock file exists
    holders,   \* the callers in the with-body
    orphaned   \* a holder has left the lock file behind

lockVars == <<lockFile, holders, orphaned>>

Init == lockFile = FALSE /\ holders = {} /\ orphaned = FALSE

Enter(c) ==
    /\ ~lockFile /\ c \notin holders
    /\ lockFile' = TRUE
    /\ holders' = holders \cup {c}
    /\ orphaned' = orphaned

Leave(c) ==
    /\ c \in holders
    /\ lockFile' = FALSE
    /\ holders' = holders \ {c}
    /\ orphaned' = orphaned

Abandon(c) ==
    /\ c \in holders
    /\ holders' = holders \ {c}
    /\ orphaned' = TRUE
    /\ lockFile' = lockFile

Clear ==
    /\ orphaned /\ lockFile
    /\ lockFile' = FALSE
    /\ holders' = holders /\ orphaned' = orphaned

Next == Clear \/ \E c \in Callers : Enter(c) \/ Leave(c) \/ Abandon(c)
Spec == Init /\ [][Next]_lockVars

\* Until a holder leaves it behind, the file is there exactly while its one holder is.
Exclusive == ~orphaned => /\ \A c, d \in holders : c = d
                          /\ lockFile <=> holders # {}
=============================================================================
