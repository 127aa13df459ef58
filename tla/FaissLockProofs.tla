--------------------------- MODULE FaissLockProofs ---------------------------
(***************************************************************************)
(* FaissLock excludes for any number of callers and any timeouts, until a  *)
(* caller leaves its file behind and provided none outlives the staleness  *)
(* threshold.  Both are needed: two waiters may find the same stale file,  *)
(* and the second clears the lock the first has just taken; a holder that  *)
(* stays longer is itself taken for dead.  Seen from outside it is the     *)
(* lock of module WriteLock, with and without that proviso.                *)
(***************************************************************************)
EXTENDS FaissLock, TLAPS

(* The lock file is there exactly while its creator is inside, and is as   *)
(* old as the stay; so it is never stale and nobody clears it.             *)
Orderly ==
    /\ \A p \in Procs : Inside(p) => creator = p /\ age = held[p]
    /\ Exists => Inside(creator)
    /\ \A p \in Procs : pc[p] # "clear"
LockInv == TypeOK /\ (NothingLeftBehind => Orderly)

\* The variables keep their types: no time that is compared with a timeout
\* runs past it, whatever callers do.
THEOREM TypeCorrect == Spec => []TypeOK
<1>1. Init => TypeOK
  BY LockAssumption DEF Init, TypeOK
<1>2. TypeOK /\ [Next]_vars => TypeOK'
  <2> SUFFICES ASSUME TypeOK, [Next]_vars
               PROVE  TypeOK'
    OBVIOUS
  <2> USE LockAssumption DEF TypeOK
  <2>1. CASE Tick
    BY <2>1 DEF Tick, Inside, Waiting, Exists
  <2>2. ASSUME NEW p \in Procs, Start(p)
        PROVE  TypeOK'
    BY <2>2 DEF Start, Goto
  <2>3. ASSUME NEW p \in Procs, Create(p)
        PROVE  TypeOK'
    BY <2>3 DEF Create, CreateFile, Goto
  <2>4. ASSUME NEW p \in Procs, FileExistsError(p) \/ Check(p) \/ Sleep(p) \/ ClearFails(p)
        PROVE  TypeOK'
    BY <2>4 DEF FileExistsError, Check, Sleep, ClearFails, Goto
  <2>5. ASSUME NEW p \in Procs, Clear(p) \/ Release(p)
        PROVE  TypeOK'
    BY <2>5 DEF Clear, Release, RemoveFile, Goto
  <2>6. ASSUME NEW p \in Procs, Abandon(p)
        PROVE  TypeOK'
    BY <2>6 DEF Abandon, Goto
  <2>7. CASE UNCHANGED vars
    BY <2>7 DEF vars
  <2> QED
    BY <2>1, <2>2, <2>3, <2>4, <2>5, <2>6, <2>7 DEF Next, Step, Acquiring
<1> QED
  BY <1>1, <1>2, PTL DEF Spec

\* When no with-body outlasts the threshold, a step keeps the lock orderly or
\* leaves a file behind.
LEMMA NextLockInv ==
    ASSUME MaxHold <= Stale, LockInv, TypeOK', [Next]_vars
    PROVE  LockInv'
<1> SUFFICES ASSUME NothingLeftBehind, Orderly, NothingLeftBehind'
             PROVE  Orderly'
  <2>1. NothingLeftBehind' => NothingLeftBehind
    BY DEF LockInv, NothingLeftBehind, TypeOK, Next, Step, Acquiring, Tick, Start, Create, CreateFile,
           FileExistsError, Check, Sleep, Clear, ClearFails, Release, Abandon, vars
  <2> QED
    BY <2>1 DEF LockInv
<1> USE LockAssumption DEF LockInv, Orderly, TypeOK, Inside, Exists
<1>1. CASE Tick
  BY <1>1 DEF Tick, Waiting
<1>2. ASSUME NEW p \in Procs, Start(p)
      PROVE  Orderly'
  BY <1>2 DEF Start, Goto
<1>3. ASSUME NEW p \in Procs, Create(p)
      PROVE  Orderly'
  BY <1>3 DEF Create, CreateFile, Goto
<1>4. ASSUME NEW p \in Procs, FileExistsError(p) \/ Sleep(p)
      PROVE  Orderly'
  BY <1>4 DEF FileExistsError, Sleep, Goto
<1>5. ASSUME NEW p \in Procs, Check(p)
      PROVE  Orderly'
  <2>1. ~IsStale
    BY DEF IsStale
  <2> QED
    BY <1>5, <2>1 DEF Check, Goto
<1>6. ASSUME NEW p \in Procs, Release(p)
      PROVE  Orderly'
  BY <1>6 DEF Release, RemoveFile, Goto
<1>7. ASSUME NEW p \in Procs, Clear(p) \/ ClearFails(p) \/ Abandon(p)
      PROVE  FALSE
  BY <1>7 DEF Clear, ClearFails, Abandon, NothingLeftBehind
<1>8. CASE UNCHANGED vars
  BY <1>8 DEF vars
<1> QED
  BY <1>1, <1>2, <1>3, <1>4, <1>5, <1>6, <1>7, <1>8 DEF Next, Step, Acquiring

LEMMA LockInvHolds == ASSUME MaxHold <= Stale
                      PROVE  Spec => []LockInv
<1>1. Init => LockInv
  BY LockAssumption DEF Init, LockInv, Orderly, TypeOK, Inside, Exists
<1>2. LockInv /\ TypeOK' /\ [Next]_vars => LockInv'
  BY NextLockInv
<1> QED
  BY <1>1, <1>2, TypeCorrect, PTL DEF Spec

\* Brief with-bodies: until a caller leaves its file behind, at most one caller is in the
\* with-body of faiss_write_lock, for any number of threads and processes.
THEOREM BriefHoldersExclude == ASSUME MaxHold <= Stale
                               PROVE  Spec => []ExclusiveUntilOrphaned
<1>1. LockInv => ExclusiveUntilOrphaned
  BY DEF LockInv, Orderly, ExclusiveUntilOrphaned
<1> QED
  BY <1>1, LockInvHolds, PTL

\* Under the same assumption the lock file, with all that is done to it, is the
\* lock its callers rely on: until a caller leaves its file behind, a lock file
\* stays until its holder leaves.
THEOREM BriefLockImplements == ASSUME MaxHold <= Stale
                               PROVE  Spec => ImplementsWriteLock
<1> DEFINE holders == {p \in Procs : Inside(p)}
<1>1. Init => Lock!Init
  BY LockAssumption DEF Init, Lock!Init, Exists, Inside, NothingLeftBehind
<1>2. ASSUME LockInv, LockInv', [Next]_vars
      PROVE  [Lock!Next]_(Lock!lockVars)
  <2> USE LockAssumption
  <2>1. creator \in Procs \cup {NoOne} /\ pc \in [Procs -> {"out", "create", "check", "clear", "sleep", "inside"}]
    BY <1>2 DEF LockInv, TypeOK
  <2>2. ASSUME UNCHANGED creator, UNCHANGED orphansLeft, holders' = holders
        PROVE  UNCHANGED Lock!lockVars
    BY <2>2 DEF Lock!lockVars, Exists, NothingLeftBehind
  <2>3. CASE Tick
    BY <2>2, <2>3 DEF Tick, Inside
  <2>4. ASSUME NEW p \in Procs, Start(p) \/ FileExistsError(p) \/ Check(p) \/ Sleep(p) \/ ClearFails(p)
        PROVE  UNCHANGED Lock!lockVars
    <3>1. UNCHANGED creator /\ UNCHANGED orphansLeft
      BY <2>4 DEF Start, FileExistsError, Check, Sleep, ClearFails
    <3>2. holders' = holders
      BY <2>1, <2>4 DEF Start, FileExistsError, Check, Sleep, ClearFails, Goto, Inside
    <3> QED
      BY <2>2, <3>1, <3>2
  <2>5. ASSUME NEW p \in Procs, Create(p)
        PROVE  Lock!Enter(p)
    <3>1. ~Exists /\ Exists' /\ UNCHANGED orphansLeft
      BY <2>5 DEF Create, CreateFile, Exists
    <3>2. p \notin holders /\ holders' = holders \cup {p}
      BY <2>1, <2>5 DEF Create, CreateFile, Goto, Inside
    <3> QED
      BY <3>1, <3>2 DEF Lock!Enter, NothingLeftBehind
  <2>6. ASSUME NEW p \in Procs, Release(p)
        PROVE  Lock!Leave(p)
    <3>1. ~Exists' /\ UNCHANGED orphansLeft
      BY <2>6 DEF Release, RemoveFile, Exists
    <3>2. p \in holders /\ holders' = holders \ {p}
      BY <2>1, <2>6 DEF Release, Goto, Inside
    <3> QED
      BY <3>1, <3>2 DEF Lock!Leave, NothingLeftBehind
  <2>7. ASSUME NEW p \in Procs, Abandon(p)
        PROVE  Lock!Abandon(p)
    <3>1. UNCHANGED creator /\ orphansLeft' = orphansLeft - 1 /\ orphansLeft \in 0..MaxOrphans
      BY <1>2, <2>7 DEF Abandon, LockInv, TypeOK
    <3>2. ~NothingLeftBehind'
      BY <3>1 DEF NothingLeftBehind
    <3>3. p \in holders /\ holders' = holders \ {p}
      BY <2>1, <2>7 DEF Abandon, Goto, Inside
    <3> QED
      BY <3>1, <3>2, <3>3 DEF Lock!Abandon, Exists
  <2>8. ASSUME NEW p \in Procs, Clear(p)
        PROVE  Lock!Clear \/ UNCHANGED Lock!lockVars
    <3>1. ~Exists' /\ UNCHANGED orphansLeft
      BY <2>8 DEF Clear, RemoveFile, Exists
    <3>2. holders' = holders
      BY <2>1, <2>8 DEF Clear, Goto, Inside
    <3>3. ~NothingLeftBehind /\ ~NothingLeftBehind'
      BY <1>2, <2>8, <3>1 DEF Clear, LockInv, Orderly, NothingLeftBehind
    <3>4. CASE Exists
      BY <3>1, <3>2, <3>3, <3>4 DEF Lock!Clear
    <3>5. CASE ~Exists
      <4>1. UNCHANGED creator
        BY <2>8, <3>5 DEF Clear, RemoveFile, Exists
      <4> QED
        BY <2>2, <3>1, <3>2, <4>1
    <3> QED
      BY <3>4, <3>5
  <2>9. CASE UNCHANGED vars
    BY <2>2, <2>9 DEF vars, Inside
  <2> QED
    BY <1>2, <2>3, <2>4, <2>5, <2>6, <2>7, <2>8, <2>9 DEF Next, Step, Acquiring, Lock!Next
<1>3. LockInv /\ LockInv' /\ [Next]_vars => [Lock!Next]_(Lock!lockVars)
  BY <1>2
<1> QED
  BY <1>1, <1>3, LockInvHolds, PTL DEF Spec, ImplementsWriteLock, Lock!Spec

\* What the callers of the lock rely on: from the abstract lock alone, for any
\* implementation of it, the file is there exactly while its one holder is,
\* until a holder leaves it behind.
THEOREM WriteLockExcludes == Lock!Spec => []Lock!Exclusive
<1> DEFINE holders == {p \in Procs : Inside(p)}
<1>1. Lock!Init => Lock!Exclusive
  BY Zenon DEF Lock!Init, Lock!Exclusive
<1>2. ASSUME Lock!Exclusive, [Lock!Next]_(Lock!lockVars)
      PROVE  Lock!Exclusive'
  <2> USE DEF Lock!Exclusive
  <2>1. ASSUME NEW p \in Procs, Lock!Enter(p)
        PROVE  Lock!Exclusive'
    BY <1>2, <2>1 DEF Lock!Enter
  <2>2. ASSUME NEW p \in Procs, Lock!Leave(p)
        PROVE  Lock!Exclusive'
    BY <1>2, <2>2 DEF Lock!Leave
  <2>3. ASSUME NEW p \in Procs, Lock!Abandon(p)
        PROVE  Lock!Exclusive'
    BY <2>3 DEF Lock!Abandon
  <2>4. CASE Lock!Clear
    BY <2>4 DEF Lock!Clear
  <2>5. CASE UNCHANGED Lock!lockVars
    BY <1>2, <2>5 DEF Lock!lockVars
  <2> QED
    BY <1>2, <2>1, <2>2, <2>3, <2>4, <2>5 DEF Lock!Next
<1> QED
  BY <1>1, <1>2, PTL DEF Lock!Spec

\* The lock when nothing bounds a with-body: any file may be taken for stale.
WeakLock == INSTANCE WriteLock WITH Callers <- Procs, lockFile <- Exists,
                                    holders <- {p \in Procs : Inside(p)}, orphaned <- TRUE
ImplementsWeakLock == [][WeakLock!Next]_(WeakLock!lockVars)

\* However long callers stay, whoever dies and whatever removal fails: each step
\* is one of the write lock at its weakest, on which the index is built.
THEOREM AnyLockImplements == Spec => ImplementsWeakLock
<1> DEFINE holders == {p \in Procs : Inside(p)}
<1>1. ASSUME TypeOK, [Next]_vars
      PROVE  [WeakLock!Next]_(WeakLock!lockVars)
  <2> USE LockAssumption
  <2>1. creator \in Procs \cup {NoOne} /\ pc \in [Procs -> {"out", "create", "check", "clear", "sleep", "inside"}]
    BY <1>1 DEF TypeOK
  <2>2. ASSUME UNCHANGED creator, holders' = holders
        PROVE  UNCHANGED WeakLock!lockVars
    BY <2>2 DEF WeakLock!lockVars, Exists
  <2>3. CASE Tick
    BY <2>2, <2>3 DEF Tick, Inside
  <2>4. ASSUME NEW p \in Procs, Start(p) \/ FileExistsError(p) \/ Check(p) \/ Sleep(p) \/ ClearFails(p)
        PROVE  UNCHANGED WeakLock!lockVars
    <3>1. UNCHANGED creator
      BY <2>4 DEF Start, FileExistsError, Check, Sleep, ClearFails
    <3>2. holders' = holders
      BY <2>1, <2>4 DEF Start, FileExistsError, Check, Sleep, ClearFails, Goto, Inside
    <3> QED
      BY <2>2, <3>1, <3>2
  <2>5. ASSUME NEW p \in Procs, Create(p)
        PROVE  WeakLock!Enter(p)
    <3>1. ~Exists /\ Exists'
      BY <2>5 DEF Create, CreateFile, Exists
    <3>2. p \notin holders /\ holders' = holders \cup {p}
      BY <2>1, <2>5 DEF Create, CreateFile, Goto, Inside
    <3> QED
      BY <3>1, <3>2 DEF WeakLock!Enter
  <2>6. ASSUME NEW p \in Procs, Release(p)
        PROVE  WeakLock!Leave(p)
    <3>1. ~Exists'
      BY <2>6 DEF Release, RemoveFile, Exists
    <3>2. p \in holders /\ holders' = holders \ {p}
      BY <2>1, <2>6 DEF Release, Goto, Inside
    <3> QED
      BY <3>1, <3>2 DEF WeakLock!Leave
  <2>7. ASSUME NEW p \in Procs, Abandon(p)
        PROVE  WeakLock!Abandon(p)
    <3>1. UNCHANGED creator
      BY <2>7 DEF Abandon
    <3>2. p \in holders /\ holders' = holders \ {p}
      BY <2>1, <2>7 DEF Abandon, Goto, Inside
    <3> QED
      BY <3>1, <3>2 DEF WeakLock!Abandon, Exists
  <2>8. ASSUME NEW p \in Procs, Clear(p)
        PROVE  WeakLock!Clear \/ UNCHANGED WeakLock!lockVars
    <3>1. ~Exists'
      BY <2>8 DEF Clear, RemoveFile, Exists
    <3>2. holders' = holders
      BY <2>1, <2>8 DEF Clear, Goto, Inside
    <3>3. CASE Exists
      BY <3>1, <3>2, <3>3 DEF WeakLock!Clear
    <3>4. CASE ~Exists
      <4>1. UNCHANGED creator
        BY <2>8, <3>4 DEF Clear, RemoveFile, Exists
      <4> QED
        BY <2>2, <3>2, <4>1
    <3> QED
      BY <3>3, <3>4
  <2>9. CASE UNCHANGED vars
    BY <2>2, <2>9 DEF vars, Inside
  <2> QED
    BY <1>1, <2>3, <2>4, <2>5, <2>6, <2>7, <2>8, <2>9 DEF Next, Step, Acquiring, WeakLock!Next
<1> QED
  BY <1>1, TypeCorrect, PTL DEF Spec, ImplementsWeakLock
=============================================================================
