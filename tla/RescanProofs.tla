----------------------------- MODULE RescanProofs -----------------------------
(***************************************************************************)
(* Alerts of Rescan are neither repeated nor forgotten, and decisions      *)
(* stand, for any number of scanners, documents, pairs, faults and deaths. *)
(***************************************************************************)
EXTENDS Rescan, FiniteSetTheorems, TLAPS

LEMMA OwingIsFinite ==
    ASSUME NEW p
    PROVE  IsFiniteSet(Owing(p)) /\ Cardinality(Owing(p)) \in Nat
<1>1. Owing(p) \subseteq Scanners
  BY DEF Owing
<1> QED
  BY <1>1, RescanAssumption, FS_Subset, FS_CardinalityType

LEMMA InitTypeOK == Init => TypeOK
<1> SUFFICES ASSUME Init
             PROVE  TypeOK
  OBVIOUS
<1>1. lockFile \in BOOLEAN /\ orphaned \in BOOLEAN
  BY Zenon DEF Init
<1>2. /\ age \in [Docs -> 0..Absent]
      /\ row \in [Pairs -> Statuses \cup {NoRow}]
  BY RescanAssumption DEF Init, Absent, OldAge
<1> QED
  BY <1>1, <1>2, RescanAssumption DEF Init, TypeOK

LEMMA LockFileType ==
    ASSUME TypeOK, [Next]_vars
    PROVE  lockFile' \in BOOLEAN /\ orphaned' \in BOOLEAN
<1> USE DEF corpusVars, passVars, fileVars, rowVars, alertVars
<1>1. lockFile \in BOOLEAN /\ orphaned \in BOOLEAN
  BY DEF TypeOK
<1>2. ASSUME UNCHANGED fileVars
      PROVE  lockFile' \in BOOLEAN /\ orphaned' \in BOOLEAN
  BY <1>1, <1>2
<1>3. ASSUME NEW s \in Scanners, Enter(s) \/ Lock!Leave(s) \/ Lock!Abandon(s)
      PROVE  lockFile' \in BOOLEAN /\ orphaned' \in BOOLEAN
  BY <1>1, <1>3, Zenon DEF Enter, Lock!Enter, Lock!Leave, Lock!Abandon
<1>4. CASE ClearStale
  BY <1>1, <1>4, Zenon DEF ClearStale, Lock!Clear
<1>5. ASSUME NEW s \in Scanners, Dispatch(s) \/ Fail(s) \/ Die(s)
      PROVE  UNCHANGED fileVars \/ Lock!Leave(s) \/ Lock!Abandon(s)
  BY <1>5, Zenon DEF Dispatch, Fail, Die, ReleaseLock, ReleaseFails
<1>6. ASSUME NEW s \in Scanners, Select(s) \/ Fetch(s) \/ Load(s) \/ Known(s) \/ Sync(s) \/ Restart(s)
      PROVE  UNCHANGED fileVars
  BY <1>6 DEF Select, Fetch, Load, Search, Known, Sync, Restart
<1>7. CASE Tick \/ UNCHANGED vars
  BY <1>2, <1>7 DEF Tick, vars
<1>8. ASSUME NEW d \in Docs, Upload(d) \/ DeleteDocument(d)
      PROVE  UNCHANGED fileVars
  BY <1>8 DEF Upload, DeleteDocument
<1>9. ASSUME NEW p \in Pairs, SessionSync(p) \/ \E status \in Statuses : Review(p, status)
      PROVE  UNCHANGED fileVars
  BY <1>9 DEF SessionSync, Review
<1>10. ASSUME NEW t \in tasks, Deliver(t) \/ TryAgain(t) \/ Refused(t)
       PROVE  UNCHANGED fileVars
  BY <1>10 DEF Deliver, TryAgain, Refused
<1> QED
  BY <1>2, <1>3, <1>4, <1>5, <1>6, <1>7, <1>8, <1>9, <1>10 DEF Next, PassStep

\* Every variable keeps its type.
THEOREM RescanTypeCorrect == Spec => []TypeOK
<1>1. Init => TypeOK
  BY InitTypeOK
<1>2. TypeOK /\ [Next]_vars => TypeOK'
  <2> SUFFICES ASSUME TypeOK, [Next]_vars
               PROVE  TypeOK'
    OBVIOUS
  <2> USE RescanAssumption DEF TypeOK, corpusVars, passVars, fileVars, rowVars, alertVars
  <2>a. lockFile' \in BOOLEAN /\ orphaned' \in BOOLEAN
    BY LockFileType
  <2>1. CASE Tick
    BY <2>1 DEF Tick, Absent, OldAge
  <2>2. ASSUME NEW d \in Docs, Upload(d) \/ DeleteDocument(d)
        PROVE  TypeOK'
    BY <2>2 DEF Upload, DeleteDocument, Absent, OldAge
  <2>3. ASSUME NEW p \in Pairs, SessionSync(p)
        PROVE  TypeOK'
    BY <2>3 DEF SessionSync, Upsert
  <2>4. ASSUME NEW p \in Pairs, NEW status \in Statuses, Review(p, status)
        PROVE  TypeOK'
    BY <2>4 DEF Review
  <2>5. ASSUME NEW s \in Scanners, Select(s) \/ Fetch(s) \/ Enter(s)
        PROVE  TypeOK'
    BY <2>a, <2>5 DEF Select, Fetch, Enter, Goto, Recent, InCorpus
  <2>6. ASSUME NEW s \in Scanners, Load(s) \/ Known(s)
        PROVE  TypeOK'
    BY <2>6 DEF Load, Known, Search, Goto, InReach
  <2>7. ASSUME NEW s \in Scanners, Sync(s)
        PROVE  TypeOK'
    BY <2>7 DEF Sync, Upsert, Goto
  <2>8. ASSUME NEW s \in Scanners, Dispatch(s)
        PROVE  TypeOK'
    <3>1. \A p \in new[s] : Task(s, p) \in
              [by : Scanners, pair : Pairs, number : Nat, left : 1..MaxAttempts]
      BY DEF Task
    <3> QED
      BY <2>a, <2>8, <3>1 DEF Dispatch, Hand, Pause
  <2>9. ASSUME NEW s \in Scanners, Fail(s)
        PROVE  TypeOK'
    BY <2>a, <2>9 DEF Fail, Pause
  <2>10. ASSUME NEW s \in Scanners, Die(s) \/ Restart(s)
         PROVE  TypeOK'
    BY <2>a, <2>10 DEF Die, Restart, Goto
  <2>11. CASE ClearStale
    BY <2>a, <2>11 DEF ClearStale
  <2>12. ASSUME NEW t \in tasks, Deliver(t) \/ TryAgain(t) \/ Refused(t)
         PROVE  TypeOK'
    BY <2>12 DEF Deliver, TryAgain, Refused
  <2>13. CASE UNCHANGED vars
    BY <2>13 DEF vars
  <2> QED
    BY <2>1, <2>2, <2>3, <2>4, <2>5, <2>6, <2>7, <2>8, <2>9, <2>10, <2>11, <2>12, <2>13
       DEF Next, PassStep
<1> QED
  BY <1>1, <1>2, PTL DEF Spec

-----------------------------------------------------------------------------
\* Until a scanner leaves the lock file behind, the one that holds the lock is alone.
LockInv ==
    /\ ~orphaned => \A s, q \in Scanners : Holds(s) /\ Holds(q) => s = q
    /\ ~orphaned => \A s \in Scanners : Holds(s) => lockFile
    /\ orphaned => deathsLeft < MaxDeaths \/ faultsLeft < MaxFaults

LEMMA LockStep ==
    ASSUME TypeOK, TypeOK', LockInv, [Next]_vars
    PROVE  LockInv' /\ (orphaned => orphaned')
<1> USE RescanAssumption DEF LockInv, Holds, corpusVars, passVars, fileVars, rowVars, alertVars
<1>1. ASSUME UNCHANGED <<pc, lockFile, orphaned, deathsLeft, faultsLeft>>
      PROVE  LockInv' /\ (orphaned => orphaned')
  BY <1>1
<1>2. ASSUME NEW s \in Scanners, Select(s) \/ Fetch(s) \/ Restart(s)
      PROVE  LockInv' /\ (orphaned => orphaned')
  BY <1>2 DEF Select, Fetch, Restart, Goto, WaitOver, Up, TypeOK
<1>3. ASSUME NEW s \in Scanners, Enter(s)
      PROVE  LockInv' /\ (orphaned => orphaned')
  BY <1>3 DEF Enter, Lock!Enter, Goto, TypeOK
<1>4. ASSUME NEW s \in Scanners, Load(s) \/ Known(s) \/ Sync(s)
      PROVE  LockInv' /\ (orphaned => orphaned')
  BY <1>4 DEF Load, Search, Known, Sync, Goto, TypeOK
<1>5. ASSUME NEW s \in Scanners, Dispatch(s) \/ Fail(s)
      PROVE  LockInv' /\ (orphaned => orphaned')
  BY <1>5 DEF Dispatch, Fail, Pause, ReleaseLock, ReleaseFails, Lock!Leave, Lock!Abandon, TypeOK
<1>6. ASSUME NEW s \in Scanners, Die(s)
      PROVE  LockInv' /\ (orphaned => orphaned')
  BY <1>6 DEF Die, Lock!Abandon, TypeOK
<1>7. CASE ClearStale
  BY <1>7 DEF ClearStale, Lock!Clear
<1>8. CASE Tick \/ UNCHANGED vars
  BY <1>1, <1>8 DEF Tick, vars
<1>9. ASSUME NEW d \in Docs, Upload(d) \/ DeleteDocument(d)
      PROVE  LockInv' /\ (orphaned => orphaned')
  BY <1>1, <1>9 DEF Upload, DeleteDocument
<1>10. ASSUME NEW p \in Pairs, SessionSync(p) \/ \E status \in Statuses : Review(p, status)
       PROVE  LockInv' /\ (orphaned => orphaned')
  BY <1>1, <1>10 DEF SessionSync, Review
<1>11. ASSUME NEW t \in tasks, Deliver(t) \/ TryAgain(t) \/ Refused(t)
       PROVE  LockInv' /\ (orphaned => orphaned')
  BY <1>11 DEF Deliver, TryAgain, Refused, TypeOK
<1> QED
  BY <1>2, <1>3, <1>4, <1>5, <1>6, <1>7, <1>8, <1>9, <1>10, <1>11 DEF Next, PassStep

LEMMA LockInvHolds == Spec => []LockInv
<1>1. Init => LockInv
  BY DEF Init, LockInv, Holds
<1>2. TypeOK /\ TypeOK' /\ LockInv /\ [Next]_vars => LockInv'
  BY LockStep
<1> QED
  BY <1>1, <1>2, RescanTypeCorrect, PTL DEF Spec

-----------------------------------------------------------------------------
Count(p) == Cardinality(Owing(p))

\* Nothing has gone wrong and nothing was deleted.
Quiet == Undisturbed /\ deletesLeft = MaxDeletes

(* What a scanner between the read of the known pairs and the commit knows: *)
(* a row that has appeared meanwhile is one more than there are alerts, and *)
(* a row that is missing still was missing when it looked.  No second       *)
(* scanner is at that place, since the lock excludes until its file is left  *)
(* behind.                                                                   *)
RescanInv ==
    /\ TypeOK
    /\ \A s \in Scanners : pc[s] = "sync" => new[s] \subseteq flags[s]
    /\ \A s \in Scanners : pc[s] \notin {"sync", "alert"} => new[s] = {}
    /\ ~orphaned => \A p \in Pairs : alerts[p] + Count(p) <= born[p]
    /\ ~orphaned => \A s \in Scanners : pc[s] = "sync" =>
          \A p \in new[s] : row[p] # NoRow => alerts[p] + Count(p) < born[p]
    /\ Quiet => \A p \in Pairs : found[p] <= alerts[p] + Count(p)
    /\ Quiet => \A s \in Scanners : pc[s] = "sync" =>
          \A p \in flags[s] : row[p] = NoRow => p \in new[s]

LEMMA CountIsNat == \A p \in Pairs : Count(p) \in Nat
  BY OwingIsFinite DEF Count

\* A step that leaves the owing scanners as they are keeps their number.
LEMMA SameCount ==
    ASSUME NEW p, Owing(p)' = Owing(p)
    PROVE  Count(p)' = Count(p)
  BY DEF Count

\* Tick, uploads, reviews, the pools and a lock that is cleared.
LEMMA OutsideSteps ==
    ASSUME RescanInv, TypeOK', orphaned => orphaned',
           \/ Tick \/ \E d \in Docs : Upload(d)
           \/ \E p \in Pairs, status \in Statuses : Review(p, status)
           \/ \E t \in tasks : Deliver(t) \/ TryAgain(t) \/ Refused(t)
           \/ ClearStale \/ UNCHANGED vars
    PROVE  RescanInv'
<1> USE RescanAssumption, CountIsNat DEF RescanInv, Holds, Quiet, Undisturbed,
        corpusVars, passVars, fileVars, rowVars, alertVars
<1>1. \A p \in Pairs : Count(p)' = Count(p)
  <2>1. UNCHANGED <<pc, new>>
    BY DEF Tick, Upload, Review, Deliver, TryAgain, Refused, ClearStale, vars
  <2>2. \A p \in Pairs : Owing(p)' = Owing(p)
    BY <2>1 DEF Owing
  <2> QED
    BY <2>2, SameCount
<1>a. \A s \in Scanners : new[s] \subseteq Pairs /\ flags[s] \subseteq Pairs
  BY DEF TypeOK
<1>2. CASE Tick
  BY <1>1, <1>a, <1>2 DEF Tick
<1>3. ASSUME NEW d \in Docs, Upload(d)
      PROVE  RescanInv'
  BY <1>1, <1>a, <1>3 DEF Upload
<1>4. ASSUME NEW p \in Pairs, NEW status \in Statuses, Review(p, status)
      PROVE  RescanInv'
  BY <1>1, <1>4 DEF Review, TypeOK
<1>5. ASSUME NEW t \in tasks, Deliver(t) \/ TryAgain(t) \/ Refused(t)
      PROVE  RescanInv'
  BY <1>1, <1>5 DEF Deliver, TryAgain, Refused, TypeOK
<1>6. CASE ClearStale
  BY <1>1, <1>6 DEF ClearStale, Lock!Clear
<1>7. CASE UNCHANGED vars
  BY <1>1, <1>a, <1>7 DEF vars
<1> QED
  BY <1>2, <1>3, <1>4, <1>5, <1>6, <1>7

\* Deletions and what sessions sync.
LEMMA RowSteps ==
    ASSUME RescanInv, TypeOK', orphaned => orphaned',
           \/ \E d \in Docs : DeleteDocument(d)
           \/ \E p \in Pairs : SessionSync(p)
    PROVE  RescanInv'
<1> USE RescanAssumption, CountIsNat DEF RescanInv, Holds, Quiet, Undisturbed,
        corpusVars, passVars, fileVars, rowVars, alertVars
<1>1. \A p \in Pairs : Count(p)' = Count(p)
  <2>1. UNCHANGED <<pc, new>>
    BY DEF DeleteDocument, SessionSync
  <2>2. \A p \in Pairs : Owing(p)' = Owing(p)
    BY <2>1 DEF Owing
  <2> QED
    BY <2>2, SameCount
<1>2. \A s \in Scanners : new[s] \subseteq Pairs /\ flags[s] \subseteq Pairs
  BY DEF TypeOK
<1>3. ASSUME NEW d \in Docs, DeleteDocument(d)
      PROVE  RescanInv'
  <2>1. ~Quiet'
    BY <1>3 DEF DeleteDocument, TypeOK
  <2> QED
    BY <1>1, <1>2, <1>3, <2>1 DEF DeleteDocument
<1>4. ASSUME NEW p \in Pairs, SessionSync(p)
      PROVE  RescanInv'
  BY <1>1, <1>2, <1>4 DEF SessionSync, Upsert, TypeOK
<1> QED
  BY <1>3, <1>4

\* A pass up to the read of the known pairs: no alert is owed yet.
LEMMA EarlySteps ==
    ASSUME RescanInv, TypeOK', orphaned => orphaned', NEW s \in Scanners,
           Select(s) \/ Fetch(s) \/ Enter(s) \/ Load(s) \/ Known(s) \/ Restart(s)
    PROVE  RescanInv'
<1> USE RescanAssumption, CountIsNat DEF RescanInv, Holds, Quiet, Undisturbed,
        corpusVars, passVars, fileVars, rowVars, alertVars, Goto, WaitOver, Up
<1>1. \A p \in Pairs : Count(p)' = Count(p)
  <2>1. \A p \in Pairs : Owing(p)' = Owing(p)
    BY DEF Owing, Select, Fetch, Enter, Load, Search, Known, Restart, TypeOK
  <2> QED
    BY <2>1, SameCount
<1>2. \A q \in Scanners : new[q] \subseteq Pairs /\ flags[q] \subseteq Pairs
  BY DEF TypeOK
<1>3. CASE Select(s) \/ Fetch(s) \/ Enter(s) \/ Restart(s)
  BY <1>1, <1>2, <1>3 DEF Select, Fetch, Enter, Restart, TypeOK
<1>4. CASE Load(s)
  BY <1>1, <1>2, <1>4 DEF Load, Search, TypeOK
<1>5. CASE Known(s)
  BY <1>1, <1>2, <1>5 DEF Known, TypeOK
<1> QED
  BY <1>3, <1>4, <1>5

\* The commit: what is new becomes owed, and its row is there at last.
LEMMA SyncStep ==
    ASSUME RescanInv, TypeOK', LockInv, NEW s \in Scanners, Sync(s)
    PROVE  RescanInv'
<1> USE RescanAssumption, CountIsNat DEF RescanInv, Holds, Quiet, Undisturbed,
        corpusVars, passVars, fileVars, rowVars, alertVars, Goto
<1>1. new[s] \subseteq Pairs /\ new[s] \subseteq flags[s] /\ orphaned' = orphaned
  BY DEF Sync, TypeOK
<1>2. \A p \in new[s] : Count(p)' = Count(p) + 1
  <2> SUFFICES ASSUME NEW p \in new[s]
               PROVE  Count(p)' = Count(p) + 1
    OBVIOUS
  <2>1. Owing(p)' = Owing(p) \cup {s} /\ s \notin Owing(p)
    BY DEF Sync, Owing, TypeOK
  <2> QED
    BY <2>1, OwingIsFinite, FS_AddElement DEF Count
<1>3. \A p \in Pairs \ new[s] : Count(p)' = Count(p)
  <2>1. \A p \in Pairs \ new[s] : Owing(p)' = Owing(p)
    BY DEF Sync, Owing, TypeOK
  <2> QED
    BY <2>1, SameCount
<1>4. /\ ~orphaned => \A q \in Scanners : pc'[q] # "sync"
      /\ Quiet => ~orphaned
  BY <1>1 DEF Sync, LockInv, TypeOK
<1>5. ~orphaned => \A p \in Pairs : alerts'[p] + Count(p)' <= born'[p]
  BY <1>1, <1>2, <1>3 DEF Sync, Upsert, TypeOK
<1>6. Quiet' => \A p \in Pairs : found'[p] <= alerts'[p] + Count(p)'
  BY <1>1, <1>2, <1>3 DEF Sync, Upsert, TypeOK
<1> QED
  BY <1>1, <1>4, <1>5, <1>6 DEF Sync, TypeOK

\* The dispatch: what was owed is alerted.
LEMMA DispatchStep ==
    ASSUME RescanInv, TypeOK', orphaned => orphaned', NEW s \in Scanners, Dispatch(s)
    PROVE  RescanInv'
<1> USE RescanAssumption, CountIsNat DEF RescanInv, Holds, Quiet, Undisturbed,
        corpusVars, passVars, fileVars, rowVars, alertVars, Pause, Hand, ReleaseLock, ReleaseFails
<1>1. new[s] \subseteq Pairs
  BY DEF TypeOK
<1>2. \A p \in new[s] : Count(p)' = Count(p) - 1
  <2> SUFFICES ASSUME NEW p \in new[s]
               PROVE  Count(p)' = Count(p) - 1
    OBVIOUS
  <2>1. Owing(p)' = Owing(p) \ {s} /\ s \in Owing(p)
    BY DEF Dispatch, Owing, TypeOK
  <2> QED
    BY <2>1, OwingIsFinite, FS_RemoveElement DEF Count
<1>3. \A p \in Pairs \ new[s] : Count(p)' = Count(p)
  <2>1. \A p \in Pairs \ new[s] : Owing(p)' = Owing(p)
    BY DEF Dispatch, Owing, TypeOK
  <2> QED
    BY <2>1, SameCount
<1>4. \A p \in Pairs : alerts'[p] + Count(p)' = alerts[p] + Count(p)
  BY <1>1, <1>2, <1>3 DEF Dispatch, TypeOK
<1> QED
  BY <1>1, <1>4 DEF Dispatch, TypeOK

\* A pass that ends early may leave alerts owed for ever: it never adds one.
LEMMA LostSteps ==
    ASSUME RescanInv, TypeOK', orphaned => orphaned', NEW s \in Scanners, Fail(s) \/ Die(s)
    PROVE  RescanInv'
<1> USE RescanAssumption, CountIsNat DEF RescanInv, Holds, Quiet, Undisturbed,
        corpusVars, passVars, fileVars, rowVars, alertVars, Pause, ReleaseLock, ReleaseFails, Passing, WaitOver, Up
<1>1. \A p \in Pairs : Count(p)' \in Nat /\ Count(p)' <= Count(p)
  <2> SUFFICES ASSUME NEW p \in Pairs
               PROVE  Count(p)' \in Nat /\ Count(p)' <= Count(p)
    OBVIOUS
  <2>1. Owing(p)' \subseteq Owing(p)
    BY DEF Owing, Fail, Die, TypeOK
  <2> QED
    BY <2>1, OwingIsFinite, FS_Subset, FS_CardinalityType DEF Count
<1>2. ~Quiet'
  BY DEF Fail, Die, TypeOK
<1>3. \A q \in Scanners : new[q] \subseteq Pairs /\ flags[q] \subseteq Pairs
  BY DEF TypeOK
<1>4. CASE Fail(s)
  BY <1>1, <1>2, <1>3, <1>4 DEF Fail, TypeOK
<1>5. CASE Die(s)
  BY <1>1, <1>2, <1>3, <1>5 DEF Die, TypeOK
<1> QED
  BY <1>4, <1>5

LEMMA RescanInvHolds == Spec => []RescanInv
<1>1. Init => RescanInv
  <2> SUFFICES ASSUME Init
               PROVE  RescanInv
    OBVIOUS
  <2>1. TypeOK
    BY InitTypeOK
  <2>2. \A p \in Pairs : Count(p) = 0
    <3>1. \A p \in Pairs : Owing(p) = {}
      BY DEF Init, Owing
    <3> QED
      BY <3>1, FS_EmptySet DEF Count
  <2> QED
    BY <2>1, <2>2 DEF Init, RescanInv, Holds
<1>2. RescanInv /\ TypeOK' /\ LockInv /\ [Next]_vars => RescanInv'
  <2> SUFFICES ASSUME RescanInv, TypeOK', LockInv, [Next]_vars
               PROVE  RescanInv'
    OBVIOUS
  <2>1. orphaned => orphaned'
    BY LockStep DEF RescanInv
  <2> QED
    BY <2>1, OutsideSteps, RowSteps, EarlySteps, SyncStep, DispatchStep, LostSteps
     DEF Next, PassStep
<1> QED
  BY <1>1, <1>2, RescanTypeCorrect, LockInvHolds, PTL DEF Spec

\* Until a lock file is left behind: whatever scanners, sessions, reviewers,
\* deletions, exceptions and deaths do, a pair is alerted at most once for each
\* time its incident was created.
THEOREM AlertsOnlyNew == Spec => []AlertsAreNew
<1>1. RescanInv => AlertsAreNew
  BY DEF RescanInv, AlertsAreNew, Count
<1> QED
  BY <1>1, RescanInvHolds, PTL

\* As long as nothing dies, raises or is deleted, every incident a rescan
\* creates has been alerted or is about to be.
THEOREM AlertsComplete == Spec => []NoAlertForgotten
<1>1. RescanInv => NoAlertForgotten
  BY DEF RescanInv, NoAlertForgotten, Quiet, Count
<1> QED
  BY <1>1, RescanInvHolds, PTL

\* No rescan and no session touches the decision about an incident.
THEOREM OnlyReviewersDecide == Spec => DecisionsStand
<1> DEFINE Stands == \A p \in Pairs : row[p] # NoRow /\ row'[p] # NoRow /\ row'[p] # row[p]
                            => \E status \in Statuses : Review(p, status)
<1>1. TypeOK /\ [Next]_vars => [Stands]_vars
  <2> SUFFICES ASSUME TypeOK, Next, NEW p \in Pairs,
                      row[p] # NoRow, row'[p] # NoRow, row'[p] # row[p]
               PROVE  \E status \in Statuses : Review(p, status)
    OBVIOUS
  <2> USE DEF TypeOK, corpusVars, passVars, fileVars, rowVars, alertVars
  <2>1. CASE Tick \/ ClearStale
    BY <2>1 DEF Tick, ClearStale
  <2>2. ASSUME NEW d \in Docs, Upload(d) \/ DeleteDocument(d)
        PROVE  FALSE
    BY <2>2 DEF Upload, DeleteDocument
  <2>3. ASSUME NEW q \in Pairs, SessionSync(q)
        PROVE  FALSE
    BY <2>3 DEF SessionSync, Upsert
  <2>4. ASSUME NEW q \in Pairs, NEW status \in Statuses, Review(q, status)
        PROVE  \E st \in Statuses : Review(p, st)
    <3>1. q = p
      BY <2>4 DEF Review
    <3> QED
      BY <2>4, <3>1
  <2>5. ASSUME NEW s \in Scanners, Select(s) \/ Fetch(s) \/ Enter(s) \/ Load(s) \/ Known(s)
        PROVE  FALSE
    BY <2>5 DEF Select, Fetch, Enter, Load, Search, Known
  <2>6. ASSUME NEW s \in Scanners, Sync(s)
        PROVE  FALSE
    BY <2>6 DEF Sync, Upsert
  <2>7. ASSUME NEW s \in Scanners, Dispatch(s) \/ Fail(s) \/ Die(s) \/ Restart(s)
        PROVE  FALSE
    BY <2>7 DEF Dispatch, Fail, Die, Restart
  <2>8. ASSUME NEW t \in tasks, Deliver(t) \/ TryAgain(t) \/ Refused(t)
        PROVE  FALSE
    BY <2>8 DEF Deliver, TryAgain, Refused
  <2> QED
    BY <2>1, <2>2, <2>3, <2>4, <2>5, <2>6, <2>7, <2>8 DEF Next, PassStep
<1> QED
  BY <1>1, RescanTypeCorrect, PTL DEF Spec, DecisionsStand

-----------------------------------------------------------------------------
(* Nothing is missed.  Each fault costs one interval and one pass.          *)
Cycle == Interval + PassTime
Slack == (MaxFaults - faultsLeft) * Cycle

SomeAge(p, n) == \E d \in p : age[d] <= n

(* How old the younger document of an unrecorded pair can be, by where the  *)
(* scanner is: it either came after the pass had selected, or was selected  *)
(* by it.                                                                   *)
Chances(s, p) ==
    /\ pc[s] = "sleep" => SomeAge(p, timer[s] + PassTime + Slack)
    /\ pc[s] \in {"fetch", "lock", "load"} =>
          \/ SomeAge(p, timer[s])
          \/ \E d \in p : d \in recent[s] /\ age[d] <= timer[s] + Cycle + Slack
    /\ pc[s] \in {"known", "sync"} =>
          \/ SomeAge(p, timer[s])
          \/ p \in flags[s] /\ SomeAge(p, timer[s] + Cycle + Slack)
    /\ pc[s] = "alert" => SomeAge(p, timer[s])

\* Not on record, and no pass was unsure to find it.
Missing(p) == p \subseteq InCorpus /\ row[p] = NoRow /\ p \notin unsure

Punctual(s) ==
    /\ Up(s)
    /\ pc[s] = "sleep" => timer[s] <= Interval
    /\ Passing(s) => timer[s] <= PassTime
    /\ \A p \in Similar \ Duplicates : Missing(p) => Chances(s, p)

TimeInv == deathsLeft = MaxDeaths => \A s \in Scanners : Punctual(s)

LEMMA SlackIsBounded ==
    ASSUME TypeOK
    PROVE  Slack \in Nat /\ Cycle \in Nat /\ Slack + Cycle <= Window
<1> DEFINE f == MaxFaults - faultsLeft
<1>1. f \in Nat /\ f <= MaxFaults /\ Cycle \in Nat
  BY RescanAssumption DEF TypeOK, Cycle
<1>2. \A i, j, k \in Nat : i <= j => i * k \in Nat /\ i * k + k <= (j + 1) * k
  <2> SUFFICES ASSUME NEW i \in Nat, NEW j \in Nat, NEW k \in Nat, i <= j
               PROVE  i * k \in Nat /\ i * k + k <= (j + 1) * k
    OBVIOUS
  <2>1. (j - i) * k >= 0 /\ i * k >= 0
    BY SMT
  <2>2. (j + 1) * k = (j - i) * k + (i * k + k)
    BY SMT
  <2> QED
    BY <2>1, <2>2
<1>3. Slack \in Nat /\ Slack + Cycle <= (MaxFaults + 1) * Cycle
  BY <1>1, <1>2, RescanAssumption DEF Slack
<1> QED
  BY <1>1, <1>3, WindowAssumption, RescanAssumption DEF Cycle

LEMMA FaultCostsACycle ==
    ASSUME TypeOK, faultsLeft > 0, faultsLeft' = faultsLeft - 1
    PROVE  Slack' = Slack + Cycle
<1>1. \A i, k \in Int : (i + 1) * k = i * k + k
  BY SMT
<1>2. MaxFaults - faultsLeft' = (MaxFaults - faultsLeft) + 1
  BY RescanAssumption DEF TypeOK
<1>3. MaxFaults - faultsLeft \in Int /\ Cycle \in Int
  BY RescanAssumption DEF TypeOK, Cycle
<1> QED
  BY <1>1, <1>2, <1>3 DEF Slack, Cycle

\* The steps of others leave a pass its chances: documents only grow missing
\* by being uploaded, and then are young.
LEMMA OthersKeepTime ==
    ASSUME TypeOK, TypeOK', TimeInv,
           \/ \E d \in Docs : Upload(d) \/ DeleteDocument(d)
           \/ \E p \in Pairs : SessionSync(p) \/ \E status \in Statuses : Review(p, status)
           \/ \E t \in tasks : Deliver(t) \/ TryAgain(t)
           \/ ClearStale \/ UNCHANGED vars
    PROVE  TimeInv'
<1> USE RescanAssumption DEF TimeInv, corpusVars, passVars, fileVars, rowVars, alertVars
<1> SUFFICES ASSUME deathsLeft' = MaxDeaths, NEW s \in Scanners
             PROVE  Punctual(s)'
  OBVIOUS
<1>1. UNCHANGED <<pc, timer, recent, flags, new, unsure, faultsLeft, deathsLeft>>
  BY DEF Upload, DeleteDocument, SessionSync, Review, Deliver, TryAgain, ClearStale, vars
<1>2. Punctual(s)
  BY <1>1
<1>3. Slack' = Slack /\ Slack \in Nat /\ Cycle \in Nat
  BY <1>1, SlackIsBounded DEF Slack, Cycle
<1>4. ASSUME NEW p \in Similar \ Duplicates, Missing(p)'
      PROVE  Chances(s, p)'
  <2> p \in Pairs /\ p \subseteq Docs
    OBVIOUS
  <2>1. CASE \E d \in p : age'[d] = 0
    BY <2>1, <1>1, <1>3 DEF Chances, SomeAge, TypeOK
  <2>2. CASE Missing(p) /\ \A d \in p : age'[d] = age[d]
    BY <2>2, <1>1, <1>2, <1>3 DEF Chances, SomeAge, Punctual
  <2>3. (\E d \in p : age'[d] = 0) \/ (Missing(p) /\ \A d \in p : age'[d] = age[d])
    <3>1. ASSUME NEW d \in Docs, Upload(d)
          PROVE  (\E e \in p : age'[e] = 0) \/ (Missing(p) /\ \A e \in p : age'[e] = age[e])
      BY <3>1, <1>4 DEF Upload, Missing, InCorpus, TypeOK
    <3>2. ASSUME NEW d \in Docs, DeleteDocument(d)
          PROVE  Missing(p) /\ \A e \in p : age'[e] = age[e]
      BY <3>2, <1>4 DEF DeleteDocument, Missing, InCorpus, TypeOK
    <3>3. ASSUME NEW q \in Pairs, SessionSync(q)
          PROVE  Missing(p) /\ \A e \in p : age'[e] = age[e]
      BY <3>3, <1>4 DEF SessionSync, Upsert, Missing, InCorpus, TypeOK
    <3>4. ASSUME NEW q \in Pairs, NEW status \in Statuses, Review(q, status)
          PROVE  Missing(p) /\ \A e \in p : age'[e] = age[e]
      BY <3>4, <1>4 DEF Review, Missing, InCorpus, TypeOK
    <3>5. CASE (\E t \in tasks : Deliver(t) \/ TryAgain(t)) \/ ClearStale \/ UNCHANGED vars
      BY <3>5, <1>4 DEF Deliver, TryAgain, ClearStale, vars, Missing, InCorpus
    <3> QED
      BY <3>1, <3>2, <3>3, <3>4, <3>5
  <2> QED
    BY <2>1, <2>2, <2>3
<1> QED
  BY <1>1, <1>2, <1>4 DEF Punctual, Up, Passing

\* A refused alert uses up a fault, which only lengthens the slack.
LEMMA RefusedKeepsTime ==
    ASSUME TypeOK, TypeOK', TimeInv, NEW t \in tasks, Refused(t)
    PROVE  TimeInv'
<1> USE RescanAssumption DEF TimeInv, corpusVars, passVars, fileVars, rowVars, alertVars
<1> SUFFICES ASSUME deathsLeft = MaxDeaths, NEW s \in Scanners
             PROVE  Punctual(s)'
  BY DEF Refused
<1>1. Slack' = Slack + Cycle /\ Slack \in Nat /\ Cycle \in Nat /\ Cycle' = Cycle
  BY FaultCostsACycle, SlackIsBounded DEF Refused, Cycle
<1>2. UNCHANGED <<pc, timer, recent, flags, unsure, age, row>>
  BY DEF Refused
<1>3. ASSUME NEW p \in Similar \ Duplicates, Missing(p)'
      PROVE  Chances(s, p)'
  <2> p \in Pairs /\ p \subseteq Docs
    OBVIOUS
  <2>1. Chances(s, p)
    BY <1>2, <1>3 DEF Punctual, Missing, InCorpus
  <2> QED
    BY <1>1, <1>2, <2>1 DEF Chances, SomeAge, TypeOK
<1> QED
  BY <1>2, <1>3 DEF Punctual, Up, Passing

\* Age and timer grow together.
LEMMA TickKeepsTime ==
    ASSUME TypeOK, TypeOK', TimeInv, Tick
    PROVE  TimeInv'
<1> USE RescanAssumption DEF TimeInv, corpusVars, passVars, fileVars, rowVars, alertVars
<1> SUFFICES ASSUME deathsLeft = MaxDeaths, NEW s \in Scanners
             PROVE  Punctual(s)'
  BY DEF Tick
<1>1. Slack' = Slack /\ Slack \in Nat /\ Cycle \in Nat /\ Cycle' = Cycle
  BY SlackIsBounded DEF Tick, Slack, Cycle
<1>2. UNCHANGED <<pc, recent, flags, unsure, row>> /\ timer'[s] = timer[s] + 1
  BY DEF Tick, TypeOK, Punctual
<1>3. \A d \in Docs : age'[d] \in Nat /\ age[d] \in Nat /\ age'[d] <= age[d] + 1
  BY DEF Tick, TypeOK
<1>4. InCorpus' = InCorpus
  BY DEF Tick, TypeOK, InCorpus, Absent, OldAge
<1>5. ASSUME NEW p \in Similar \ Duplicates, Missing(p)'
      PROVE  Chances(s, p)'
  <2> p \in Pairs /\ p \subseteq Docs
    OBVIOUS
  <2>1. Chances(s, p)
    BY <1>2, <1>4, <1>5 DEF Punctual, Missing
  <2>2. timer[s] \in Nat
    BY DEF TypeOK
  <2>3. \A n \in Nat : SomeAge(p, n) => SomeAge(p, n + 1)'
    BY <1>3 DEF SomeAge
  <2> QED
    BY <1>1, <1>2, <1>3, <2>1, <2>2, <2>3 DEF Chances, SomeAge
<1>6. (pc'[s] = "sleep" => timer'[s] <= Interval) /\ (Passing(s)' => timer'[s] <= PassTime)
  BY <1>2 DEF Tick, TypeOK, WaitOver, Passing
<1> QED
  BY <1>2, <1>5, <1>6 DEF Punctual, Up

\* A step of a scanner leaves the other scanners as they are, except that it
\* may add to the slack and to the rows.
LEMMA OtherScanner ==
    ASSUME TypeOK, TypeOK', NEW q \in Scanners, Punctual(q),
           InCorpus' = InCorpus, age' = age,
           \A p \in Pairs : row'[p] = NoRow => row[p] = NoRow, unsure \subseteq unsure',
           Slack' >= Slack, Slack' \in Nat,
           pc'[q] = pc[q], timer'[q] = timer[q], recent'[q] = recent[q], flags'[q] = flags[q]
    PROVE  Punctual(q)'
<1>1. Slack \in Nat /\ Cycle \in Nat /\ Cycle' = Cycle /\ PassTime \in Nat
  BY SlackIsBounded, RescanAssumption DEF Cycle
<1>2. ASSUME NEW p \in Similar \ Duplicates, Missing(p)'
      PROVE  Chances(q, p)'
  <2> p \in Pairs /\ p \subseteq Docs
    BY RescanAssumption
  <2>1. Chances(q, p)
    BY <1>2 DEF Punctual, Missing
  <2>2. \A d \in p : age[d] \in Nat
    BY DEF TypeOK
  <2>3. timer[q] \in Nat
    BY DEF TypeOK
  <2>4. \A m, n \in Nat : m <= n => (SomeAge(p, m) => SomeAge(p, n)')
    BY <2>2 DEF SomeAge
  <2>5. \A d \in p : age[d] <= timer[q] + Cycle + Slack => age'[d] <= timer'[q] + Cycle' + Slack'
    BY <1>1, <2>2, <2>3
  <2>6. CASE pc[q] = "sleep"
    BY <1>1, <2>1, <2>3, <2>4, <2>6 DEF Chances
  <2>7. CASE pc[q] \in {"fetch", "lock", "load"}
    BY <1>1, <2>1, <2>3, <2>4, <2>5, <2>7 DEF Chances
  <2>8. CASE pc[q] \in {"known", "sync", "alert"}
    BY <1>1, <2>1, <2>3, <2>4, <2>8 DEF Chances
  <2>9. pc[q] \in {"sleep", "fetch", "lock", "load", "known", "sync", "alert"}
    BY DEF Punctual, Up, TypeOK
  <2> QED
    BY <2>6, <2>7, <2>8, <2>9
<1> QED
  BY <1>2 DEF Punctual, Up, Passing

\* A pass begins: the younger document is still in the window.
LEMMA SelectKeepsTime ==
    ASSUME TypeOK, TypeOK', NEW s \in Scanners, Punctual(s), Select(s)
    PROVE  Punctual(s)'
<1>1. Slack \in Nat /\ Cycle \in Nat /\ Slack + Cycle <= Window /\ Slack' = Slack /\ Cycle' = Cycle
  BY SlackIsBounded DEF Select, Slack, Cycle
<1>2. pc[s] = "sleep" /\ timer'[s] = 0 /\ timer[s] \in Nat /\ timer[s] <= Interval
  BY DEF Select, WaitOver, Punctual, TypeOK
<1>3. pc'[s] = IF Recent = {} THEN "sleep" ELSE "fetch"
  BY <1>2 DEF Select, Goto, TypeOK
<1>4. ASSUME NEW p \in Similar \ Duplicates, Missing(p)'
      PROVE  Chances(s, p)'
  <2> p \in Pairs /\ p \subseteq Docs
    BY RescanAssumption
  <2>1. Missing(p) /\ p \subseteq InCorpus
    BY <1>4 DEF Select, Missing, InCorpus, corpusVars, rowVars
  <2>2. PICK d \in p : age[d] <= timer[s] + PassTime + Slack
    BY <1>2, <2>1 DEF Punctual, Chances, SomeAge
  <2>3. age[d] \in Nat /\ age[d] <= Cycle + Slack
    BY <1>1, <1>2, <2>2, RescanAssumption DEF TypeOK, Cycle
  <2>4. d \in Recent
    BY <1>1, <2>1, <2>3, RescanAssumption DEF Recent
  <2>5. pc'[s] = "fetch" /\ d \in recent'[s] /\ age' = age
    BY <1>3, <2>4 DEF Select, TypeOK, corpusVars
  <2> QED
    BY <1>1, <1>2, <2>3, <2>5 DEF Chances
<1> QED
  BY <1>2, <1>3, <1>4, RescanAssumption DEF Punctual, Up, Passing

\* A pass goes on: what it selected and still is there, it matches and commits.
LEMMA PassKeepsTime ==
    ASSUME TypeOK, TypeOK', NEW s \in Scanners, Punctual(s),
           Fetch(s) \/ Enter(s) \/ Load(s) \/ Known(s) \/ Sync(s)
    PROVE  Punctual(s)'
<1> USE DEF Goto, corpusVars, rowVars
<1>1. Slack \in Nat /\ Cycle \in Nat /\ Slack' = Slack /\ Cycle' = Cycle
  BY SlackIsBounded DEF Fetch, Enter, Load, Search, Known, Sync, Slack, Cycle
<1>2. timer'[s] = timer[s] /\ timer[s] \in Nat /\ age' = age /\ InCorpus' = InCorpus
      /\ Passing(s) /\ timer[s] <= PassTime /\ pc'[s] \in {"lock", "load", "known", "sync", "alert"}
  BY DEF Fetch, Enter, Load, Search, Known, Sync, InCorpus, Punctual, Passing, TypeOK
<1>3. ASSUME NEW p \in Similar \ Duplicates, Missing(p)'
      PROVE  Chances(s, p)'
  <2> p \in Pairs /\ p \subseteq Docs
    BY RescanAssumption
  <2>1. Missing(p) /\ p \subseteq InCorpus
    BY <1>2, <1>3 DEF Fetch, Enter, Load, Search, Known, Sync, Upsert, Missing, TypeOK
  <2>2. Chances(s, p)
    BY <2>1 DEF Punctual
  <2>3. CASE SomeAge(p, timer[s])
    <3>1. SomeAge(p, timer[s])'
      BY <1>2, <2>3 DEF SomeAge
    <3> QED
      BY <1>2, <3>1 DEF Chances
  <2>4. CASE ~SomeAge(p, timer[s]) /\ (Fetch(s) \/ Enter(s))
    <3>1. PICK d \in p : d \in recent[s] /\ age[d] <= timer[s] + Cycle + Slack
      BY <2>2, <2>4 DEF Chances, Fetch, Enter
    <3>2. d \in recent'[s]
      BY <2>1, <2>4, <3>1 DEF Fetch, Enter, TypeOK
    <3>3. pc'[s] \in {"lock", "load"}
      BY <2>4 DEF Fetch, Enter, TypeOK
    <3> QED
      BY <1>1, <1>2, <3>1, <3>2, <3>3 DEF Chances
  <2>5. CASE ~SomeAge(p, timer[s]) /\ Load(s)
    <3>1. PICK d \in p : d \in recent[s] /\ age[d] <= timer[s] + Cycle + Slack
      BY <2>2, <2>5 DEF Chances, Load
    <3>2. p \in InReach(s) /\ p \notin unsure'
      BY <1>3, <2>1, <3>1 DEF InReach, Missing
    <3>3. p \in Certain(s)
      BY <2>5, <3>2 DEF Load, Search
    <3>4. p \in flags'[s]
      BY <2>5, <3>3 DEF Load, Search, TypeOK
    <3>5. pc'[s] = "known"
      BY <2>5, <3>4 DEF Load, Search, TypeOK
    <3> QED
      BY <1>1, <1>2, <3>1, <3>4, <3>5 DEF Chances, SomeAge
  <2>6. CASE ~SomeAge(p, timer[s]) /\ Known(s)
    <3>1. p \in flags[s] /\ SomeAge(p, timer[s] + Cycle + Slack)
      BY <2>2, <2>6 DEF Chances, Known
    <3>2. pc'[s] = "sync" /\ p \in flags'[s]
      BY <2>6, <3>1 DEF Known, TypeOK
    <3> QED
      BY <1>1, <1>2, <3>1, <3>2 DEF Chances, SomeAge
  <2>7. CASE ~SomeAge(p, timer[s]) /\ Sync(s)
    <3>1. p \in flags[s]
      BY <2>2, <2>7 DEF Chances, Sync
    <3>2. row'[p] # NoRow
      BY <2>7, <3>1, RescanAssumption DEF Sync, Upsert, TypeOK
    <3> QED
      BY <1>3, <3>2 DEF Missing
  <2> QED
    BY <2>3, <2>4, <2>5, <2>6, <2>7
<1> QED
  BY <1>2, <1>3 DEF Punctual, Up, Passing

\* A pass is over; if it raised, the slack has grown by what it took.
LEMMA EndKeepsTime ==
    ASSUME TypeOK, TypeOK', NEW s \in Scanners, Punctual(s), Dispatch(s) \/ Fail(s)
    PROVE  Punctual(s)'
<1> USE DEF Pause, corpusVars, rowVars
<1>1. Slack \in Nat /\ Cycle \in Nat /\ Cycle' = Cycle /\ PassTime \in Nat /\ Interval \in Nat
      /\ Cycle = Interval + PassTime
  BY SlackIsBounded, RescanAssumption DEF Cycle
<1>2. pc'[s] = "sleep" /\ timer'[s] = 0 /\ timer[s] \in Nat /\ age' = age /\ InCorpus' = InCorpus
      /\ row' = row /\ unsure' = unsure
  BY DEF Dispatch, Fail, InCorpus, TypeOK
<1>3. ASSUME NEW p \in Similar \ Duplicates, Missing(p)'
      PROVE  Chances(s, p)'
  <2> p \in Pairs /\ p \subseteq Docs
    BY RescanAssumption
  <2>1. Chances(s, p)
    BY <1>2, <1>3 DEF Punctual, Missing
  <2>2. \A d \in p : age[d] \in Nat
    BY DEF TypeOK
  <2>3. \E d \in p : age[d] <= PassTime + Slack'
    <3>1. CASE Dispatch(s)
      <4>1. Slack' = Slack \/ Slack' = Slack + Cycle
        BY <3>1, FaultCostsACycle DEF Dispatch, Slack, Cycle
      <4>2. pc[s] = "alert" /\ timer[s] <= PassTime
        BY <3>1 DEF Dispatch, Punctual, Passing
      <4>3. PICK d \in p : age[d] <= timer[s]
        BY <2>1, <4>2 DEF Chances, SomeAge
      <4>4. age[d] <= PassTime + Slack'
        BY <1>1, <1>2, <2>2, <4>1, <4>2, <4>3
      <4> QED
        BY <4>4
    <3>2. CASE Fail(s)
      <4>1. Slack' = Slack + Cycle
        BY <3>2, FaultCostsACycle DEF Fail
      <4>2. pc[s] = "sleep" => timer[s] <= Interval
        BY DEF Punctual
      <4>3. pc[s] # "sleep" => timer[s] <= PassTime
        BY <3>2 DEF Fail, Punctual, Passing, WaitOver
      <4>4. pc[s] \in {"sleep", "fetch", "lock", "load", "known", "sync", "alert"}
        BY DEF Punctual, Up, TypeOK
      <4>5. CASE pc[s] = "sleep"
        <5>1. PICK d \in p : age[d] <= timer[s] + PassTime + Slack
          BY <2>1, <4>5 DEF Chances, SomeAge
        <5>2. age[d] <= PassTime + Slack'
          BY <1>1, <1>2, <2>2, <4>1, <4>2, <4>5, <5>1
        <5> QED
          BY <5>2
      <4>6. CASE pc[s] # "sleep"
        <5>1. PICK d \in p : age[d] <= timer[s] \/ age[d] <= timer[s] + Cycle + Slack
          BY <2>1, <4>4, <4>6 DEF Chances, SomeAge
        <5>2. age[d] <= PassTime + Slack'
          BY <1>1, <1>2, <2>2, <4>1, <4>3, <4>6, <5>1
        <5> QED
          BY <5>2
      <4> QED
        BY <4>5, <4>6
    <3> QED
      BY <3>1, <3>2
  <2>4. PassTime + Slack' = timer'[s] + PassTime + Slack'
    <3>1. Slack' \in Nat
      BY SlackIsBounded, FaultCostsACycle DEF Dispatch, Fail, Slack, Cycle
    <3> QED
      BY <1>1, <1>2, <3>1
  <2> QED
    BY <1>2, <2>3, <2>4 DEF Chances, SomeAge
<1> QED
  BY <1>1, <1>2, <1>3 DEF Punctual, Up, Passing

LEMMA ScannerKeepsTime ==
    ASSUME TypeOK, TypeOK', TimeInv, NEW s \in Scanners,
           PassStep(s) \/ Fail(s) \/ Die(s) \/ Restart(s)
    PROVE  TimeInv'
<1> SUFFICES ASSUME deathsLeft' = MaxDeaths, NEW q \in Scanners
             PROVE  Punctual(q)'
  BY DEF TimeInv
<1> USE DEF corpusVars, passVars, fileVars, rowVars, alertVars
<1>1. ~Die(s) /\ deathsLeft = MaxDeaths
  BY RescanAssumption DEF Die, PassStep, Select, Fetch, Enter, Load, Search, Known, Sync, Dispatch,
     Fail, Restart, TypeOK
<1>2. \A r \in Scanners : Punctual(r)
  BY <1>1 DEF TimeInv
<1>3. ~Restart(s)
  BY <1>2 DEF Restart, Punctual
<1>4. CASE q = s
  BY <1>1, <1>2, <1>3, <1>4, SelectKeepsTime, PassKeepsTime, EndKeepsTime DEF PassStep
<1>5. CASE q # s
  <2>1. InCorpus' = InCorpus /\ age' = age
    BY <1>1, <1>3 DEF PassStep, Select, Fetch, Enter, Load, Search, Known, Sync, Dispatch, Fail, InCorpus
  <2>2. \A p \in Pairs : row'[p] = NoRow => row[p] = NoRow
    BY <1>1, <1>3, RescanAssumption
       DEF PassStep, Select, Fetch, Enter, Load, Search, Known, Sync, Upsert, Dispatch, Fail
  <2>a. unsure \subseteq unsure'
    BY <1>1, <1>3 DEF PassStep, Select, Fetch, Enter, Load, Search, Known, Sync, Dispatch, Fail
  <2>3. pc'[q] = pc[q] /\ timer'[q] = timer[q] /\ recent'[q] = recent[q] /\ flags'[q] = flags[q]
    BY <1>1, <1>3, <1>5 DEF PassStep, Select, Fetch, Enter, Load, Search, Known, Sync, Dispatch, Fail,
       Pause, Goto, TypeOK
  <2>4. Slack' >= Slack /\ Slack' \in Nat
    <3>1. CASE Fail(s)
      BY <3>1, FaultCostsACycle, SlackIsBounded DEF Fail
    <3>2. CASE PassStep(s)
      <4>1. Slack' = Slack \/ Slack' = Slack + Cycle
        BY <3>2, FaultCostsACycle
           DEF PassStep, Select, Fetch, Enter, Load, Search, Known, Sync, Dispatch, Slack, Cycle
      <4> QED
        BY <4>1, SlackIsBounded
    <3> QED
      BY <1>1, <1>3, <3>1, <3>2
  <2> QED
    BY <1>2, <2>1, <2>2, <2>a, <2>3, <2>4, OtherScanner
<1> QED
  BY <1>4, <1>5

\* When no process dies, a pair of similar documents is on record once the
\* younger one has left the window, or some pass searched for it when neither
\* document was sure to have the other among its hits: for any window, interval
\* and number of failing passes that WindowAssumption allows, any number of
\* chunks and any top_k.
THEOREM NothingIsMissed == Spec => []NoMatchMissed
<1>1. Init => TimeInv
  <2> SUFFICES ASSUME Init, NEW s \in Scanners
               PROVE  Punctual(s)
    BY DEF TimeInv
  <2>1. ASSUME NEW p \in Pairs
        PROVE  ~Missing(p)
    <3>1. p # {} /\ p \subseteq Docs
      <4>1. Cardinality(p) = 2 /\ p \subseteq Docs
        BY RescanAssumption
      <4>2. Cardinality({}) = 0
        BY FS_EmptySet
      <4> QED
        BY <4>1, <4>2
    <3> QED
      BY <3>1 DEF Init, Missing, InCorpus
  <2> QED
    BY <2>1, RescanAssumption DEF Init, Punctual, Up, Passing
<1>2. TypeOK /\ TypeOK' /\ TimeInv /\ [Next]_vars => TimeInv'
  BY OthersKeepTime, RefusedKeepsTime, TickKeepsTime, ScannerKeepsTime DEF Next
<1>3. TypeOK /\ TimeInv => NoMatchMissed
  <2> SUFFICES ASSUME TypeOK, TimeInv, deathsLeft = MaxDeaths,
                      NEW p \in Similar \ (Duplicates \cup unsure), \A d \in p : age[d] = OldAge,
                      row[p] = NoRow
               PROVE  FALSE
    BY DEF NoMatchMissed
  <2>1. PICK s \in Scanners : Punctual(s)
    BY RescanAssumption DEF TimeInv
  <2>2. p \subseteq Docs /\ p \subseteq InCorpus
    BY RescanAssumption DEF InCorpus, OldAge, Absent
  <2>3. Chances(s, p)
    BY <2>1, <2>2 DEF Punctual, Missing
  <2>4. Slack \in Nat /\ Cycle \in Nat /\ Slack + Cycle <= Window /\ Cycle = Interval + PassTime
    BY SlackIsBounded DEF Cycle
  <2>5. timer[s] \in Nat /\ (pc[s] = "sleep" => timer[s] <= Interval)
        /\ (pc[s] # "sleep" => timer[s] <= PassTime)
        /\ pc[s] \in {"sleep", "fetch", "lock", "load", "known", "sync", "alert"}
    BY <2>1 DEF Punctual, Up, Passing, TypeOK
  <2>6. CASE pc[s] = "sleep"
    <3>1. PICK d \in p : age[d] <= timer[s] + PassTime + Slack
      BY <2>3, <2>6 DEF Chances, SomeAge
    <3> QED
      BY <2>4, <2>5, <2>6, <3>1, RescanAssumption DEF OldAge
  <2>7. CASE pc[s] # "sleep"
    <3>1. PICK d \in p : age[d] <= timer[s] \/ age[d] <= timer[s] + Cycle + Slack
      BY <2>3, <2>5, <2>7 DEF Chances, SomeAge
    <3> QED
      BY <2>4, <2>5, <2>7, <3>1, RescanAssumption DEF OldAge
  <2> QED
    BY <2>6, <2>7
<1> QED
  BY <1>1, <1>2, <1>3, RescanTypeCorrect, PTL DEF Spec
=============================================================================
