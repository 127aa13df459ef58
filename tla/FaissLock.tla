------------------------------ MODULE FaissLock ------------------------------
(***************************************************************************)
(* FAISSLock and faiss_write_lock (src/src/core/concurrency.py): the lock  *)
(* file that rescans, sync-index and rebuilds of all processes take before *)
(* they write the FAISS index file.                                        *)
(*                                                                         *)
(* A system call on the lock file is one step.  Time passes in Ticks: age  *)
(* is what time.time() - getmtime(lock_file) yields, waited[p] what        *)
(* time.time() - start_time does in the acquire loop of p.                 *)
(*                                                                         *)
(* An operator named after a slip (CreateWithoutExcl, CheckOnly, ...) is a *)
(* mutated form of the one below it; no behaviour uses it.                 *)
(***************************************************************************)
EXTENDS Naturals

CONSTANTS Procs,       \* threads of any process that call faiss_write_lock
          NoOne,
          Timeout,     \* FAISSLock.timeout, in ticks
          Stale,       \* max(2 * timeout, 5.0), in ticks
          MaxHold,     \* the longest a with-body runs, in ticks
          MaxOrphans   \* bound: lock files that a caller leaves behind

ASSUME LockAssumption ==
    /\ NoOne \notin Procs
    /\ Timeout \in Nat /\ Stale \in Nat /\ Timeout < Stale
    /\ MaxHold \in Nat
    /\ MaxOrphans \in Nat

VARIABLES
    creator,   \* who created the lock file; NoOne when there is none (the file does not say)
    age,       \* of the lock file
    pc,        \* where p is
    waited,    \* since acquire was entered
    held,      \* since the with-body was entered
    orphansLeft

vars == <<creator, age, pc, waited, held, orphansLeft>>

Waiting(p) == pc[p] \in {"create", "check", "clear", "sleep"}
Inside(p)  == pc[p] = "inside"
Exists     == creator # NoOne

Init ==
    /\ creator = NoOne /\ age = 0
    /\ pc = [p \in Procs |-> "out"]
    /\ waited = [p \in Procs |-> 0]
    /\ held = [p \in Procs |-> 0]
    /\ orphansLeft = MaxOrphans

Goto(p, l) == pc' = [pc EXCEPT ![p] = l]
RemoveFile == creator' = NoOne /\ age' = 0

Start(p) ==
    /\ pc[p] = "out"
    /\ Goto(p, "create")
    /\ waited' = [waited EXCEPT ![p] = 0]
    /\ UNCHANGED <<creator, age, held, orphansLeft>>

\* os.open with O_CREAT | O_EXCL
CreateFile(p) ==
    /\ pc[p] = "create"
    /\ creator' = p /\ age' = 0
    /\ Goto(p, "inside")
    /\ held' = [held EXCEPT ![p] = 0]
    /\ UNCHANGED <<waited, orphansLeft>>
CreateWithoutExcl(p) == CreateFile(p)
Create(p)            == ~Exists /\ CreateFile(p)

FileExistsError(p) ==
    /\ pc[p] = "create" /\ Exists
    /\ Goto(p, "check")
    /\ UNCHANGED <<creator, age, waited, held, orphansLeft>>

\* _is_stale, and the timeout when it answers no.  A file that has gone
\* meanwhile is not stale.
IsStaleAtTimeout == Exists /\ age > Timeout
IsStaleWhenGone  == ~Exists /\ age > Stale
IsStale          == Exists /\ age > Stale

CheckOnly(p) ==
    /\ pc[p] = "check"
    /\ Goto(p, IF IsStale THEN "clear" ELSE "sleep")
    /\ UNCHANGED <<creator, age, waited, held, orphansLeft>>
Check(p) ==
    /\ pc[p] = "check"
    /\ Goto(p, IF IsStale THEN "clear"
               ELSE IF waited[p] >= Timeout THEN "out"   \* ConcurrencyTimeoutError
               ELSE "sleep")
    /\ UNCHANGED <<creator, age, waited, held, orphansLeft>>

Sleep(p) ==
    /\ pc[p] = "sleep"
    /\ Goto(p, "create")
    /\ UNCHANGED <<creator, age, waited, held, orphansLeft>>

\* _clear_stale_lock: whatever file has that name by now.
Clear(p) ==
    /\ pc[p] = "clear"
    /\ RemoveFile
    /\ Goto(p, "create")
    /\ UNCHANGED <<waited, held, orphansLeft>>

\* os.remove raises and the file stays: logged, and acquire goes round without a
\* look at the timeout, as often as this happens.
ClearFails(p) ==
    /\ pc[p] = "clear" /\ Exists
    /\ Goto(p, "create")
    /\ UNCHANGED <<creator, age, waited, held, orphansLeft>>

\* release, in the finally of the with-body
Release(p) ==
    /\ Inside(p)
    /\ RemoveFile
    /\ Goto(p, "out")
    /\ UNCHANGED <<waited, held, orphansLeft>>

\* The process of p dies, or os.remove raises in release: the file stays behind.
Abandon(p) ==
    /\ Inside(p) /\ orphansLeft > 0
    /\ orphansLeft' = orphansLeft - 1
    /\ Goto(p, "out")
    /\ UNCHANGED <<creator, age, waited, held>>

\* Counters stop one past the largest value that is compared with.
Tick ==
    /\ \A p \in Procs : Inside(p) => held[p] < MaxHold
    /\ age' = IF Exists /\ age <= Stale THEN age + 1 ELSE age
    /\ waited' = [p \in Procs |-> IF Waiting(p) /\ waited[p] < Timeout
                                  THEN waited[p] + 1 ELSE waited[p]]
    /\ held' = [p \in Procs |-> IF Inside(p) THEN held[p] + 1 ELSE held[p]]
    /\ UNCHANGED <<creator, pc, orphansLeft>>

Acquiring(p) == \/ Create(p) \/ FileExistsError(p) \/ Check(p) \/ Sleep(p)
                \/ Clear(p) \/ ClearFails(p)
Step(p)      == Start(p) \/ Acquiring(p) \/ Release(p) \/ Abandon(p)
Next         == Tick \/ \E p \in Procs : Step(p)
Spec         == Init /\ [][Next]_vars

\* Time passes, a with-body ends, a loop in acquire goes round, and a caller
\* that was let down comes back: the rescans are periodic.  Nothing here says
\* that a removal succeeds.
Fairness ==
    /\ WF_vars(Tick)
    /\ \A p \in Procs : WF_vars(Acquiring(p)) /\ WF_vars(Release(p)) /\ WF_vars(Start(p))
FairSpec == Spec /\ Fairness

-----------------------------------------------------------------------------
(* Properties *)

\* Every variable has its type; ages do not pass what they are compared with.
TypeOK ==
    /\ creator \in Procs \cup {NoOne} /\ age \in 0..(Stale + 1)
    /\ pc \in [Procs -> {"out", "create", "check", "clear", "sleep", "inside"}]
    /\ waited \in [Procs -> 0..Timeout] /\ held \in [Procs -> 0..MaxHold]
    /\ orphansLeft \in 0..MaxOrphans

NothingLeftBehind == orphansLeft = MaxOrphans

\* FAISSLock is multi-process safe: as long as no caller has left its lock file
\* behind, by dying inside or by a removal that failed, no two callers are in the
\* with-body.
ExclusiveUntilOrphaned ==
    NothingLeftBehind => \A p, q \in Procs : Inside(p) /\ Inside(q) => p = q

\* What the callers see is the abstract lock: until one of them leaves its file
\* behind, a lock file stays until its holder leaves, whoever judges it, times
\* out, clears or releases.
Lock == INSTANCE WriteLock WITH Callers <- Procs, lockFile <- Exists,
                                holders <- {p \in Procs : Inside(p)},
                                orphaned <- ~NothingLeftBehind
ImplementsWriteLock == Lock!Spec

\* A file that was left behind does not lock the index up for good: over and
\* over some caller gets in, unless removals of stale files go on failing.
NeverLockedUp ==
    []<><<\E p \in Procs : ClearFails(p)>>_vars \/ []<>(\E p \in Procs : Inside(p))

\* A call of acquire ends, with the lock or with the timeout, unless its own
\* removals of a stale file go on failing: then it goes round for ever.
AcquireEnds ==
    \A p \in Procs : []<><<ClearFails(p)>>_vars \/ (Waiting(p) ~> ~Waiting(p))
=============================================================================
