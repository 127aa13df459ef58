--------------------------- MODULE TaskQueueProofs ---------------------------
(***************************************************************************)
(* Theorems about TaskQueue for any jobs, workers, processes, retry limit  *)
(* and any number of faults.                                               *)
(***************************************************************************)
EXTENDS TaskQueue, TLAPS

USE QueueAssumption

\* The steps of Next under one head each, for the case splits below.
LEMMA NextCases ==
    ASSUME [Next]_vars
    PROVE  \/ \E j \in Jobs : SubmitBatchScan(j)
           \/ \E j, n \in Jobs : RetryDeadLetterJob(j, n)
           \/ \E p \in Procs : \/ StartProcess(p) \/ RequeueRead(p)
                               \/ RequeueWrite(p) \/ StartWorkers(p)
                               \/ Crash(p) \/ RequeueError(p)
           \/ \E w \in Workers : \/ Loop(w) \/ Get(w) \/ GetTimeout(w)
                                 \/ Claim(w) \/ ClaimNothing(w) \/ Execute(w)
                                 \/ Complete(w) \/ FailRead(w) \/ FailWrite(w)
                                 \/ ClaimError(w) \/ CompleteError(w) \/ FailError(w)
                                 \/ Stop(w)
           \/ UNCHANGED vars
  BY DEF Next, ProcessStep, WorkerStep, Fault

-----------------------------------------------------------------------------
(* Type correctness *)

LEMMA InitTypeOK == Init => TypeOK
  BY DEF Init, TypeOK, PcValues, Statuses

LEMMA CreateType ==
    ASSUME TypeOK, NEW j \in Jobs, Enqueue(j)
    PROVE  /\ status' \in [Jobs -> Statuses \cup {"ABSENT"}]
           /\ retry' \in [Jobs -> Nat]
           /\ created' \in [Jobs -> Nat]
           /\ inq' \in [Procs -> Seq({"wake", "stop"})]
  <1>1. status' \in [Jobs -> Statuses \cup {"ABSENT"}] /\ retry' \in [Jobs -> Nat]
    BY DEF TypeOK, Enqueue, CreateJob, Statuses
  <1>2. created' \in [Jobs -> Nat]
    BY DEF TypeOK, Enqueue, CreateJob, Stamps
  <1>3. inq' \in [Procs -> Seq({"wake", "stop"})]
    <2>1. CASE UNCHANGED inq
      BY <2>1 DEF TypeOK
    <2>2. ASSUME NEW p \in Procs, inq' = [inq EXCEPT ![p] = Append(@, "wake")]
          PROVE  inq' \in [Procs -> Seq({"wake", "stop"})]
      BY <2>2 DEF TypeOK
    <2>3. QED
      BY <2>1, <2>2 DEF Enqueue
  <1>4. QED BY <1>1, <1>2, <1>3

LEMMA MarkFailedType ==
    ASSUME TypeOK, NEW j \in Jobs, NEW r \in Nat, MarkFailed(j, r)
    PROVE  /\ status' \in [Jobs -> Statuses \cup {"ABSENT"}]
           /\ retry' \in [Jobs -> Nat]
           /\ created' \in [Jobs -> Nat]
           /\ failures' \in [Jobs -> Nat]
           /\ orphaned' \subseteq Jobs
  BY DEF TypeOK, MarkFailed, FailTo, Statuses

LEMMA DieType ==
    ASSUME TypeOK, NEW p \in Procs, Die(p), 
           crashesLeft' \in Nat, dbErrorsLeft' \in Nat, stopsLeft' \in Nat
    PROVE  TypeOK'
  <1> USE DEF Die, TypeOK, tableVars
  <1>1. /\ proc' \in [Procs -> {"down", "requeue", "write", "up"}]
        /\ stale' \in [Procs -> SUBSET Jobs]
        /\ pjob' \in [Procs -> Jobs \cup {NoJob}]
        /\ inq' \in [Procs -> Seq({"wake", "stop"})]
    OBVIOUS
  <1>2. /\ pc' \in [Workers -> PcValues]
        /\ job' \in [Workers -> Jobs \cup {NoJob}]
        /\ stopping' \in [Workers -> BOOLEAN]
    <2>1. "off" \in PcValues
      BY DEF PcValues
    <2>2. pc' \in [Workers -> PcValues]
      BY <2>1
    <2>3. job' \in [Workers -> Jobs \cup {NoJob}]
      OBVIOUS
    <2>4. stopping' \in [Workers -> BOOLEAN]
      <3>1. \A w \in Workers : stopping[w] \in BOOLEAN
        BY Zenon
      <3>2. \A w \in Workers :
              (IF w \in Crew(p) THEN FALSE ELSE stopping[w]) \in BOOLEAN
        BY <3>1, Zenon
      <3>3. QED
        BY <3>2, Zenon
    <2>5. QED
      BY <2>2, <2>3, <2>4
  <1>3. orphaned' \subseteq Jobs
    BY DEF With
  <1>4. \A w \in Workers :
          (job'[w] # NoJob) <=> (pc'[w] \in {"exec", "report", "fail", "write"})
    OBVIOUS
  <1>5. \A q \in Procs : (pjob'[q] # NoJob) <=> (proc'[q] = "write")
    OBVIOUS
  <1>6. \A w \in Workers : pc'[w] = "off" \/ proc'[Home[w]] = "up"
    BY DEF Crew
  <1>7. QED
    BY <1>1, <1>2, <1>3, <1>4, <1>5, <1>6

LEMMA NextTypeOK == TypeOK /\ [Next]_vars => TypeOK'
<1> SUFFICES ASSUME TypeOK, [Next]_vars PROVE TypeOK'
  OBVIOUS
<1> USE DEF PcValues, budget
<1>1. ASSUME NEW j \in Jobs, SubmitBatchScan(j) PROVE TypeOK'
  BY <1>1, CreateType DEF SubmitBatchScan, TypeOK, procVars, workVars, histVars
<1>2. ASSUME NEW j \in Jobs, NEW n \in Jobs, RetryDeadLetterJob(j, n) PROVE TypeOK'
  <2>1. Resubmit(j, n)
    BY <1>2 DEF RetryDeadLetterJob
  <2>2. origin' \in [Jobs -> Jobs \cup {NoJob}]
    BY <2>1 DEF Resubmit, TypeOK
  <2>3. QED
    BY <2>1, <2>2, CreateType DEF Resubmit, TypeOK, procVars, workVars
<1>3. ASSUME NEW p \in Procs, StartProcess(p) PROVE TypeOK'
  BY <1>3 DEF StartProcess, TypeOK, tableVars, workVars, histVars
<1>4. ASSUME NEW p \in Procs, RequeueRead(p) PROVE TypeOK'
  BY <1>4 DEF RequeueRead, Newest, TypeOK, tableVars, workVars, histVars
<1>5. ASSUME NEW p \in Procs, RequeueWrite(p) PROVE TypeOK'
  <2>1. pjob[p] \in Jobs /\ pseen[p] \in Nat
    BY <1>5 DEF RequeueWrite, TypeOK
  <2>2. /\ status' \in [Jobs -> Statuses \cup {"ABSENT"}]
        /\ retry' \in [Jobs -> Nat]
        /\ created' \in [Jobs -> Nat]
        /\ failures' \in [Jobs -> Nat]
        /\ orphaned' \subseteq Jobs
    BY <1>5, <2>1, MarkFailedType DEF RequeueWrite
  <2>3. QED
    BY <1>5, <2>2 DEF RequeueWrite, TypeOK, workVars
<1>6. ASSUME NEW p \in Procs, StartWorkers(p) PROVE TypeOK'
  <2>1. pc' \in [Workers -> PcValues]
    BY <1>6 DEF StartWorkers, TypeOK
  <2>2. \A w \in Workers :
          (job'[w] # NoJob) <=> (pc'[w] \in {"exec", "report", "fail", "write"})
    BY <1>6 DEF StartWorkers, TypeOK, Crew
  <2>3. /\ proc' \in [Procs -> {"down", "requeue", "write", "up"}]
        /\ \A q \in Procs : (pjob'[q] # NoJob) <=> (proc'[q] = "write")
    BY <1>6 DEF StartWorkers, TypeOK
  <2>4. \A w \in Workers : pc'[w] = "off" \/ proc'[Home[w]] = "up"
    BY <1>6 DEF StartWorkers, TypeOK, Crew
  <2>5. QED
    BY <1>6, <2>1, <2>2, <2>3, <2>4 DEF StartWorkers, TypeOK, tableVars, histVars
<1>7. ASSUME NEW p \in Procs, Crash(p) PROVE TypeOK'
  <2>1. crashesLeft' \in Nat /\ dbErrorsLeft' \in Nat /\ stopsLeft' \in Nat
    BY <1>7 DEF Crash, TypeOK
  <2>2. QED
    BY <1>7, <2>1, DieType DEF Crash
<1>8. ASSUME NEW p \in Procs, RequeueError(p) PROVE TypeOK'
  <2>1. crashesLeft' \in Nat /\ dbErrorsLeft' \in Nat /\ stopsLeft' \in Nat
    BY <1>8 DEF RequeueError, DbError, TypeOK
  <2>2. QED
    BY <1>8, <2>1, DieType DEF RequeueError
<1>9. ASSUME NEW w \in Workers, Loop(w) \/ GetTimeout(w) \/ ClaimNothing(w) \/ Execute(w)
      PROVE  TypeOK'
  <2>1. \E from, to \in PcValues :
          /\ Moves(w, from, to)
          /\ from # "off"
          /\ from \in {"exec", "report", "fail", "write"}
               <=> to \in {"exec", "report", "fail", "write"}
    BY <1>9, Zenon DEF Loop, GetTimeout, ClaimNothing, Execute
  <2>2. QED
    BY <2>1 DEF Moves, Step, TypeOK, tableVars, procVars, histVars
<1>10. ASSUME NEW w \in Workers, Get(w) PROVE TypeOK'
  BY <1>10 DEF Get, Step, TypeOK, tableVars, procVars, histVars
<1>11. ASSUME NEW w \in Workers, Claim(w) PROVE TypeOK'
  BY <1>11 DEF Claim, ClaimNextJob, ClaimOldest, Oldest, With, TypeOK, procVars, Statuses
<1>12. ASSUME NEW w \in Workers, Complete(w) PROVE TypeOK'
  BY <1>12 DEF Complete, MarkCompleted, Step, TypeOK, procVars, Statuses
<1>13. ASSUME NEW w \in Workers, ClaimError(w) \/ CompleteError(w) PROVE TypeOK'
  <2>1. CASE ClaimError(w)
    BY <1>13, <2>1 DEF ClaimError, DbError, TypeOK, tableVars, procVars, histVars
  <2>2. CASE CompleteError(w)
    BY <1>13, <2>2 DEF CompleteError, DbError, Step, TypeOK, tableVars, procVars, histVars
  <2>3. QED
    BY <1>13, <2>1, <2>2
<1>14. ASSUME NEW w \in Workers, FailRead(w) PROVE TypeOK'
  BY <1>14 DEF FailRead, Step, TypeOK, tableVars, procVars, histVars
<1>15. ASSUME NEW w \in Workers, FailWrite(w) PROVE TypeOK'
  <2>1. job[w] \in Jobs /\ seen[w] \in Nat
    BY <1>15 DEF FailWrite, Step, TypeOK
  <2>2. /\ status' \in [Jobs -> Statuses \cup {"ABSENT"}]
        /\ retry' \in [Jobs -> Nat]
        /\ created' \in [Jobs -> Nat]
        /\ failures' \in [Jobs -> Nat]
        /\ orphaned' \subseteq Jobs
    BY <1>15, <2>1, MarkFailedType DEF FailWrite
  <2>3. /\ pc' \in [Workers -> PcValues]
        /\ job' \in [Workers -> Jobs \cup {NoJob}]
        /\ \A v \in Workers :
             (job'[v] # NoJob) <=> (pc'[v] \in {"exec", "report", "fail", "write"})
        /\ \A v \in Workers : pc'[v] = "off" \/ proc[Home[v]] = "up"
    BY <1>15 DEF FailWrite, Step, TypeOK
  <2>4. QED
    BY <1>15, <2>2, <2>3 DEF FailWrite, TypeOK, procVars
<1>16. ASSUME NEW w \in Workers, FailError(w) PROVE TypeOK'
  BY <1>16 DEF FailError, DbError, TypeOK, tableVars, procVars
<1>17. ASSUME NEW w \in Workers, Stop(w) PROVE TypeOK'
  BY <1>17 DEF Stop, TypeOK, tableVars, procVars, histVars
<1>18. CASE UNCHANGED vars
  BY <1>18 DEF vars, tableVars, procVars, workVars, histVars, TypeOK
<1>19. QED
  BY <1>1, <1>2, <1>3, <1>4, <1>5, <1>6, <1>7, <1>8, <1>9, <1>10, <1>11, <1>12,
     <1>13, <1>14, <1>15, <1>16, <1>17, <1>18, NextCases

\* Every reachable state has the shape TypeOK gives it; in particular a worker
\* has a job in hand exactly while it is between claim and report.
THEOREM TypeCorrect == Spec => []TypeOK
  BY InitTypeOK, NextTypeOK, PTL DEF Spec

-----------------------------------------------------------------------------
(* Retries and failures, for any number of racing processes *)

\* NeverDeadEarly and ClaimableHasRetryLeft are not inductive: what a thread is
\* about to write depends on the retry_count it selected earlier.  Lost updates
\* make retry_count lag behind the failures, never run ahead of them.
CountInv ==
    /\ \A j \in Jobs : retry[j] <= failures[j]
    /\ \A w \in Workers : pc[w] = "write" => seen[w] <= failures[job[w]]
    /\ \A p \in Procs : proc[p] = "write" => pseen[p] <= failures[pjob[p]]
    /\ \A j \in Jobs : status[j] = "ABSENT" => retry[j] = 0
    /\ \A j \in Jobs : status[j] \in {"PENDING", "PROCESSING"} =>
                          retry[j] = 0 \/ retry[j] < MaxRetries
    /\ \A j \in Jobs : status[j] = "DEAD_LETTER" =>
                          retry[j] >= 1 /\ retry[j] >= MaxRetries

LEMMA MarkFailedCount ==
    ASSUME TypeOK, CountInv, NEW j \in Jobs, NEW r \in Nat, r <= failures[j],
           MarkFailed(j, r)
    PROVE  /\ \A k \in Jobs : retry'[k] <= failures'[k]
           /\ \A k \in Jobs : failures[k] <= failures'[k]
           /\ \A k \in Jobs : status'[k] = "ABSENT" => retry'[k] = 0
           /\ \A k \in Jobs : status'[k] \in {"PENDING", "PROCESSING"} =>
                                retry'[k] = 0 \/ retry'[k] < MaxRetries
           /\ \A k \in Jobs : status'[k] = "DEAD_LETTER" =>
                                retry'[k] >= 1 /\ retry'[k] >= MaxRetries
  BY DEF TypeOK, CountInv, MarkFailed, FailTo

LEMMA NextCountInv == TypeOK /\ TypeOK' /\ CountInv /\ [Next]_vars => CountInv'
<1> SUFFICES ASSUME TypeOK, TypeOK', CountInv, [Next]_vars PROVE CountInv'
  OBVIOUS
<1>1. ASSUME NEW j \in Jobs, Enqueue(j), UNCHANGED <<procVars, workVars, failures>>
      PROVE  CountInv'
  BY <1>1 DEF Enqueue, CreateJob, CountInv, TypeOK, procVars, workVars
<1>2. ASSUME NEW j \in Jobs, SubmitBatchScan(j) PROVE CountInv'
  BY <1>1, <1>2 DEF SubmitBatchScan, histVars
<1>3. ASSUME NEW j \in Jobs, NEW n \in Jobs, RetryDeadLetterJob(j, n) PROVE CountInv'
  BY <1>1, <1>3 DEF RetryDeadLetterJob, Resubmit
<1>4. ASSUME NEW p \in Procs, StartProcess(p) \/ StartWorkers(p) PROVE CountInv'
  BY <1>4 DEF StartProcess, StartWorkers, CountInv, TypeOK, tableVars, workVars, histVars
<1>5. ASSUME NEW p \in Procs, RequeueRead(p) PROVE CountInv'
  BY <1>5 DEF RequeueRead, Newest, CountInv, TypeOK, tableVars, workVars, histVars
<1>6. ASSUME NEW p \in Procs, RequeueWrite(p) PROVE CountInv'
  <2>1. pjob[p] \in Jobs /\ pseen[p] \in Nat /\ pseen[p] <= failures[pjob[p]]
    BY <1>6 DEF RequeueWrite, CountInv, TypeOK
  <2>2. MarkFailed(pjob[p], pseen[p])
    BY <1>6 DEF RequeueWrite
  <2>3. \A k \in Jobs : failures[k] <= failures'[k]
    BY <2>1, <2>2, MarkFailedCount
  <2>4. \A w \in Workers : pc'[w] = "write" => seen'[w] <= failures'[job'[w]]
    BY <1>6, <2>3 DEF RequeueWrite, CountInv, TypeOK, workVars
  <2>5. \A q \in Procs : proc'[q] = "write" => pseen'[q] <= failures'[pjob'[q]]
    BY <1>6, <2>3 DEF RequeueWrite, CountInv, TypeOK, workVars
  <2>6. QED
    BY <2>1, <2>2, <2>4, <2>5, MarkFailedCount DEF CountInv
<1>7. ASSUME NEW p \in Procs, Crash(p) \/ RequeueError(p) PROVE CountInv'
  <2>1. Die(p)
    BY <1>7 DEF Crash, RequeueError
  <2>2. UNCHANGED <<status, retry, failures, seen, pseen>>
    BY <2>1 DEF Die, tableVars
  <2>3. \A w \in Workers : pc'[w] = "write" => pc[w] = "write" /\ job'[w] = job[w]
    BY <2>1 DEF Die
  <2>4. \A q \in Procs : proc'[q] = "write" => proc[q] = "write" /\ pjob'[q] = pjob[q]
    BY <2>1 DEF Die, TypeOK
  <2>5. QED
    BY <2>2, <2>3, <2>4 DEF CountInv
<1>8. ASSUME NEW w \in Workers, Loop(w) \/ GetTimeout(w) \/ ClaimNothing(w) \/ Execute(w)
      PROVE  CountInv'
  <2>1. \E from, to \in PcValues : Moves(w, from, to) /\ to # "write"
    BY <1>8, Zenon DEF Loop, GetTimeout, ClaimNothing, Execute, PcValues
  <2>2. QED
    BY <2>1 DEF Moves, Step, CountInv, TypeOK, tableVars, procVars, histVars
<1>9. ASSUME NEW w \in Workers, Get(w) \/ ClaimError(w) \/ CompleteError(w) PROVE CountInv'
  BY <1>9 DEF Get, ClaimError, CompleteError, Step, CountInv, TypeOK, tableVars, procVars, histVars
<1>10. ASSUME NEW w \in Workers, Claim(w) PROVE CountInv'
  BY <1>10 DEF Claim, ClaimNextJob, ClaimOldest, Oldest, With, CountInv, TypeOK, procVars
<1>11. ASSUME NEW w \in Workers, Complete(w) PROVE CountInv'
  BY <1>11 DEF Complete, MarkCompleted, Step, CountInv, TypeOK, procVars
<1>12. ASSUME NEW w \in Workers, FailRead(w) PROVE CountInv'
  BY <1>12 DEF FailRead, Step, CountInv, TypeOK, tableVars, procVars, histVars
<1>13. ASSUME NEW w \in Workers, FailWrite(w) PROVE CountInv'
  <2>1. job[w] \in Jobs /\ seen[w] \in Nat /\ seen[w] <= failures[job[w]]
    BY <1>13 DEF FailWrite, Step, CountInv, TypeOK
  <2>2. MarkFailed(job[w], seen[w])
    BY <1>13 DEF FailWrite
  <2>3. \A k \in Jobs : failures[k] <= failures'[k]
    BY <2>1, <2>2, MarkFailedCount
  <2>4. \A v \in Workers : pc'[v] = "write" => seen'[v] <= failures'[job'[v]]
    BY <1>13, <2>3 DEF FailWrite, Step, CountInv, TypeOK
  <2>5. \A q \in Procs : proc'[q] = "write" => pseen'[q] <= failures'[pjob'[q]]
    BY <1>13, <2>3 DEF FailWrite, CountInv, TypeOK, procVars
  <2>6. QED
    BY <2>1, <2>2, <2>4, <2>5, MarkFailedCount DEF CountInv
<1>14. ASSUME NEW w \in Workers, FailError(w) \/ Stop(w) PROVE CountInv'
  <2>1. CASE FailError(w)
    BY <2>1 DEF FailError, CountInv, TypeOK, tableVars, procVars
  <2>2. CASE Stop(w)
    BY <2>2 DEF Stop, CountInv, TypeOK, tableVars, procVars, histVars
  <2>3. QED
    BY <1>14, <2>1, <2>2
<1>15. CASE UNCHANGED vars
  BY <1>15 DEF vars, tableVars, procVars, workVars, histVars, CountInv
<1>16. QED
  BY <1>2, <1>3, <1>4, <1>5, <1>6, <1>7, <1>8, <1>9, <1>10, <1>11, <1>12, <1>13,
     <1>14, <1>15, NextCases

LEMMA CountInvariant == Spec => []CountInv
  <1>1. Init => CountInv
    BY DEF Init, CountInv
  <1>2. QED
    BY <1>1, NextCountInv, TypeCorrect, PTL DEF Spec

\* mark_failed's read-then-write races never dead-letter a job before it was
\* reported failed max_retries times, whatever the number of processes.
THEOREM DeadLetterIsEarned == Spec => []NeverDeadEarly
  <1>1. TypeOK /\ CountInv => NeverDeadEarly
    BY DEF TypeOK, CountInv, NeverDeadEarly, With
  <1>2. QED
    BY <1>1, TypeCorrect, CountInvariant, PTL

\* Nor do they leave a job claimable with its retries used up.
THEOREM ClaimableWithinRetries == Spec => []ClaimableHasRetryLeft
  <1>1. CountInv => ClaimableHasRetryLeft
    BY DEF CountInv, ClaimableHasRetryLeft, With
  <1>2. QED
    BY <1>1, CountInvariant, PTL

-----------------------------------------------------------------------------
(* No job is left behind silently, for any number of processes *)

LEMMA NextNoSilentOrphan ==
    TypeOK /\ NoSilentOrphan /\ [Next]_vars => NoSilentOrphan'
<1> SUFFICES ASSUME TypeOK, NoSilentOrphan, [Next]_vars,
                    NEW j \in Jobs, status'[j] = "PROCESSING"
             PROVE  (\E w \in Workers : Holds(w, j)') \/ j \in orphaned'
  BY DEF NoSilentOrphan, With
<1> DEFINE InHand == {"exec", "report", "fail", "write"}
<1>1. ASSUME status[j] = "PROCESSING", orphaned \subseteq orphaned', UNCHANGED job,
             \A w \in Workers : pc[w] \in InHand => pc'[w] \in InHand
      PROVE  (\E w \in Workers : Holds(w, j)') \/ j \in orphaned'
  BY <1>1 DEF NoSilentOrphan, With, Holds
<1>2. ASSUME NEW k \in Jobs, Enqueue(k), UNCHANGED <<pc, job, orphaned>>
      PROVE  (\E w \in Workers : Holds(w, j)') \/ j \in orphaned'
  BY <1>1, <1>2 DEF Enqueue, CreateJob, TypeOK
<1>3. ASSUME NEW k \in Jobs, SubmitBatchScan(k)
      PROVE  (\E w \in Workers : Holds(w, j)') \/ j \in orphaned'
  BY <1>2, <1>3 DEF SubmitBatchScan, workVars, histVars
<1>4. ASSUME NEW k \in Jobs, NEW n \in Jobs, RetryDeadLetterJob(k, n)
      PROVE  (\E w \in Workers : Holds(w, j)') \/ j \in orphaned'
  BY <1>2, <1>4 DEF RetryDeadLetterJob, Resubmit, workVars
<1>5. ASSUME NEW p \in Procs, StartProcess(p) \/ RequeueRead(p)
      PROVE  (\E w \in Workers : Holds(w, j)') \/ j \in orphaned'
  BY <1>1, <1>5 DEF StartProcess, RequeueRead, tableVars, workVars, histVars
<1>6. ASSUME NEW p \in Procs, StartWorkers(p)
      PROVE  (\E w \in Workers : Holds(w, j)') \/ j \in orphaned'
  <2>1. \A w \in Workers : pc[w] \in InHand => pc'[w] \in InHand
    BY <1>6 DEF StartWorkers, Crew, TypeOK
  <2>2. QED
    BY <1>1, <1>6, <2>1 DEF StartWorkers, tableVars, histVars
<1>7. ASSUME NEW p \in Procs, RequeueWrite(p)
      PROVE  (\E w \in Workers : Holds(w, j)') \/ j \in orphaned'
  <2>1. pjob[p] \in Jobs /\ pseen[p] \in Nat /\ MarkFailed(pjob[p], pseen[p])
    BY <1>7 DEF RequeueWrite, TypeOK
  <2>2. j # pjob[p] /\ status[j] = "PROCESSING"
    BY <2>1 DEF MarkFailed, FailTo, TypeOK
  <2>3. QED
    BY <1>7, <2>1, <2>2 DEF RequeueWrite, MarkFailed, FailTo, NoSilentOrphan, With,
                            Holds, workVars
<1>8. ASSUME NEW p \in Procs, Crash(p) \/ RequeueError(p)
      PROVE  (\E w \in Workers : Holds(w, j)') \/ j \in orphaned'
  <2>1. Die(p) /\ status[j] = "PROCESSING"
    BY <1>8 DEF Crash, RequeueError, Die, tableVars
  <2>2. CASE j \in orphaned
    BY <2>1, <2>2 DEF Die
  <2>3. CASE \E w \in Crew(p) : Holds(w, j)
    BY <2>1, <2>3 DEF Die, With
  <2>4. ASSUME NEW w \in Workers, w \notin Crew(p), Holds(w, j)
        PROVE  Holds(w, j)'
    BY <2>1, <2>4 DEF Die, Holds, TypeOK
  <2>5. QED
    BY <2>1, <2>2, <2>3, <2>4 DEF NoSilentOrphan, With, Crew
<1>9. ASSUME NEW w \in Workers, Loop(w) \/ GetTimeout(w) \/ ClaimNothing(w) \/ Execute(w)
      PROVE  (\E v \in Workers : Holds(v, j)') \/ j \in orphaned'
  <2>1. \E from, to \in PcValues : Moves(w, from, to) /\ (from \in InHand => to \in InHand)
    BY <1>9, Zenon DEF Loop, GetTimeout, ClaimNothing, Execute, PcValues
  <2>2. QED
    BY <1>1, <2>1 DEF Moves, Step, TypeOK, tableVars, histVars
<1>10. ASSUME NEW w \in Workers, Get(w) \/ ClaimError(w) \/ CompleteError(w) \/ FailRead(w) \/ Stop(w)
       PROVE  (\E v \in Workers : Holds(v, j)') \/ j \in orphaned'
  BY <1>1, <1>10 DEF Get, ClaimError, CompleteError, FailRead, Stop, Step, TypeOK, tableVars, histVars
<1>11. ASSUME NEW w \in Workers, Claim(w)
       PROVE  (\E v \in Workers : Holds(v, j)') \/ j \in orphaned'
  <2>1. PICK k \in Jobs : /\ status' = [status EXCEPT ![k] = "PROCESSING"]
                          /\ orphaned' = orphaned \ {k}
                          /\ job' = [job EXCEPT ![w] = k]
    BY <1>11 DEF Claim, ClaimNextJob, ClaimOldest
  <2>2. CASE j = k
    BY <1>11, <2>1, <2>2 DEF Claim, Holds, TypeOK
  <2>3. CASE j # k
    BY <1>11, <2>1, <2>3 DEF Claim, Holds, TypeOK, NoSilentOrphan, With
  <2>4. QED
    BY <2>2, <2>3
<1>12. ASSUME NEW w \in Workers, Complete(w) \/ FailWrite(w)
       PROVE  (\E v \in Workers : Holds(v, j)') \/ j \in orphaned'
  <2>1. job[w] \in Jobs /\ (seen[w] \in Nat)
    BY <1>12 DEF Complete, FailWrite, Step, TypeOK
  <2>2. j # job[w] /\ status[j] = "PROCESSING" /\ orphaned' = orphaned \ {job[w]}
    BY <1>12, <2>1 DEF Complete, FailWrite, MarkCompleted, MarkFailed, FailTo, TypeOK
  <2>3. QED
    BY <1>12, <2>1, <2>2 DEF Complete, FailWrite, Step, NoSilentOrphan, With, Holds, TypeOK
<1>13. ASSUME NEW w \in Workers, FailError(w)
       PROVE  (\E v \in Workers : Holds(v, j)') \/ j \in orphaned'
  <2>1. status[j] = "PROCESSING"
    BY <1>13 DEF FailError, tableVars
  <2>2. CASE j = job[w]
    BY <1>13, <2>1, <2>2 DEF FailError
  <2>3. CASE j # job[w]
    BY <1>13, <2>1, <2>3 DEF FailError, NoSilentOrphan, With, Holds, TypeOK
  <2>4. QED
    BY <2>2, <2>3
<1>14. CASE UNCHANGED vars
  BY <1>1, <1>14 DEF vars, tableVars, workVars, histVars
<1>15. QED
  BY <1>3, <1>4, <1>5, <1>6, <1>7, <1>8, <1>9, <1>10, <1>11, <1>12, <1>13, <1>14,
     NextCases

\* A PROCESSING job always has a worker that will report on it, unless the one
\* it had was lost to a crash or to a failed write.
THEOREM OrphansAreExplained == Spec => []NoSilentOrphan
  <1>1. Init => NoSilentOrphan
    BY DEF Init, NoSilentOrphan, With
  <1>2. QED
    BY <1>1, NextNoSilentOrphan, TypeCorrect, PTL DEF Spec

-----------------------------------------------------------------------------
(* One worker process: exclusive processing, and JobLifecycle is kept *)

\* The strengthening that makes ExclusiveProcessing inductive.  With one process
\* nothing else runs while stale jobs are re-queued, so a retry_count that was
\* selected is still there when it is written, and counts the failed attempts.
OneInv ==
    /\ ExclusiveProcessing
    /\ \A w \in Workers : pc[w] = "write" => seen[w] = retry[job[w]]
    /\ \A p \in Procs : proc[p] = "write" =>
                           pseen[p] = retry[pjob[p]] /\ pjob[p] \in stale[p]
    /\ \A p \in Procs : stale[p] \subseteq With("PROCESSING")
    /\ \A p \in Procs : proc[p] \in {"up", "down"} => stale[p] = {}
    /\ \A j \in Jobs : status[j] \in {"ABSENT", "PENDING"} => attempts[j] = retry[j]
    /\ \A j \in Jobs : status[j] = "PROCESSING" => attempts[j] = retry[j] + 1

LEMMA CrewIsAll ==
    ASSUME OneProcess, TypeOK, NEW p \in Procs, proc[p] # "up"
    PROVE  \A w \in Workers : pc[w] = "off" /\ job[w] = NoJob
  <1>1. \A w \in Workers : Home[w] = p
    BY DEF OneProcess, QueueAssumption
  <1>2. \A w \in Workers : proc[Home[w]] # "up"
    BY <1>1
  <1>3. \A w \in Workers : pc[w] = "off"
    BY <1>2, Zenon DEF TypeOK
  <1>4. \A w \in Workers : job[w] = NoJob
    BY <1>3 DEF TypeOK
  <1>5. QED
    BY <1>3, <1>4

\* A worker that lets go of its job leaves the others' hands as they are.
LEMMA LetGo ==
    ASSUME TypeOK, ExclusiveProcessing, NEW w \in Workers, job[w] \in Jobs,
           pc[w] \in {"exec", "report", "fail", "write"},
           pc' = [pc EXCEPT ![w] = "loop"], job' = [job EXCEPT ![w] = NoJob],
           \A j \in Jobs \ {job[w]} : status'[j] = status[j]
    PROVE  ExclusiveProcessing'
  <1>1. Holds(w, job[w])
    BY DEF Holds
  <1>2. \A v \in Workers, j \in Jobs : Holds(v, j)' => v # w /\ Holds(v, j)
    BY DEF Holds, TypeOK
  <1>3. \A v \in Workers, j \in Jobs : Holds(v, j)' => j # job[w]
    BY <1>1, <1>2 DEF ExclusiveProcessing
  <1>4. QED
    BY <1>2, <1>3 DEF ExclusiveProcessing

\* A step that leaves the rows and the lists alone and gives nobody a new job.
LEMMA Quiet ==
    ASSUME OneInv,
           UNCHANGED <<status, retry, proc, stale, pjob, pseen, seen, attempts>>,
           \A v \in Workers, j \in Jobs : Holds(v, j)' => Holds(v, j),
           \A v \in Workers : pc'[v] = "write" => pc[v] = "write" /\ job'[v] = job[v]
    PROVE  OneInv'
  <1>1. ExclusiveProcessing'
    BY DEF OneInv, ExclusiveProcessing
  <1>2. QED
    BY <1>1 DEF OneInv, With

LEMMA NextOneInv ==
    OneProcess /\ TypeOK /\ TypeOK' /\ CountInv /\ OneInv /\ [Next]_vars => OneInv'
<1> SUFFICES ASSUME OneProcess, TypeOK, TypeOK', CountInv, OneInv, [Next]_vars
             PROVE  OneInv'
  OBVIOUS
<1>1. ASSUME NEW j \in Jobs, Enqueue(j), UNCHANGED <<procVars, workVars, attempts>>
      PROVE  OneInv'
  <2>1. /\ status[j] = "ABSENT" /\ status' = [status EXCEPT ![j] = "PENDING"]
        /\ UNCHANGED <<retry, proc, stale, pjob, pseen, pc, job, seen, attempts>>
    BY <1>1 DEF Enqueue, CreateJob, procVars, workVars
  <2>2. ExclusiveProcessing'
    <3>1. \A v \in Workers, k \in Jobs : Holds(v, k)' => Holds(v, k)
      BY <2>1 DEF Holds
    <3>2. \A k \in Jobs : status[k] = "PROCESSING" => status'[k] = "PROCESSING"
      BY <2>1 DEF TypeOK
    <3>3. QED
      BY <3>1, <3>2 DEF OneInv, ExclusiveProcessing
  <2>3. \A p \in Procs : stale'[p] \subseteq With("PROCESSING")'
    BY <2>1 DEF OneInv, With, TypeOK
  <2>4. QED
    BY <2>1, <2>2, <2>3 DEF OneInv, TypeOK
<1>2. ASSUME NEW j \in Jobs, SubmitBatchScan(j) PROVE OneInv'
  BY <1>1, <1>2 DEF SubmitBatchScan, histVars
<1>3. ASSUME NEW j \in Jobs, NEW n \in Jobs, RetryDeadLetterJob(j, n) PROVE OneInv'
  BY <1>1, <1>3 DEF RetryDeadLetterJob, Resubmit
<1>4. ASSUME NEW p \in Procs, StartProcess(p) PROVE OneInv'
  <2>1. /\ UNCHANGED <<status, retry, pjob, pseen, pc, job, seen, attempts>>
        /\ proc' = [proc EXCEPT ![p] = "requeue"]
        /\ \E S \in SUBSET With("PROCESSING") : stale' = [stale EXCEPT ![p] = S]
    BY <1>4 DEF StartProcess, StaleList, NewestOf, tableVars, workVars, histVars
  <2>2. ExclusiveProcessing'
    BY <2>1 DEF OneInv, ExclusiveProcessing, Holds
  <2>3. QED
    BY <2>1, <2>2 DEF OneInv, With, TypeOK
<1>5. ASSUME NEW p \in Procs, StartWorkers(p) PROVE OneInv'
  <2>1. \A w \in Workers : pc'[w] \in {"off", "loop"}
    BY <1>5, CrewIsAll DEF StartWorkers, TypeOK
  <2>2. /\ UNCHANGED <<status, retry, stale, pjob, pseen, seen, attempts>>
        /\ proc' = [proc EXCEPT ![p] = "up"] /\ stale[p] = {}
    BY <1>5 DEF StartWorkers, tableVars, histVars
  <2>3. ExclusiveProcessing'
    BY <2>1 DEF ExclusiveProcessing, Holds
  <2>4. \A w \in Workers : pc'[w] # "write"
    BY <2>1
  <2>5. \A q \in Procs : q = p
    BY DEF OneProcess
  <2>6. \A q \in Procs : stale'[q] = {} /\ proc'[q] = "up"
    BY <2>2, <2>5 DEF TypeOK
  <2>7. QED
    BY <2>2, <2>3, <2>4, <2>6 DEF OneInv, With
<1>6. ASSUME NEW p \in Procs, RequeueRead(p) PROVE OneInv'
  <2>1. /\ UNCHANGED <<status, retry, stale, pc, job, seen, attempts>>
        /\ proc' = [proc EXCEPT ![p] = "write"]
        /\ \E j \in stale[p] : /\ pjob' = [pjob EXCEPT ![p] = j]
                               /\ pseen' = [pseen EXCEPT ![p] = retry[j]]
    BY <1>6 DEF RequeueRead, tableVars, workVars, histVars
  <2>2. ExclusiveProcessing'
    BY <2>1 DEF OneInv, ExclusiveProcessing, Holds
  <2>3. \A q \in Procs : /\ proc'[q] = "write"
                         /\ pseen'[q] = retry'[pjob'[q]] /\ pjob'[q] \in stale'[q]
    BY <2>1 DEF TypeOK, OneProcess
  <2>4. \A q \in Procs : stale'[q] \subseteq With("PROCESSING")'
    BY <2>1 DEF OneInv, With
  <2>5. \A v \in Workers : pc'[v] = "write" => seen'[v] = retry'[job'[v]]
    BY <2>1 DEF OneInv
  <2>6. QED
    BY <2>1, <2>2, <2>3, <2>4, <2>5 DEF OneInv
<1>7. ASSUME NEW p \in Procs, RequeueWrite(p) PROVE OneInv'
  <2>1. \A w \in Workers : pc[w] = "off"
    BY <1>7, CrewIsAll DEF RequeueWrite
  <2>2. pjob[p] \in Jobs /\ pjob[p] \in stale[p] /\ status[pjob[p]] = "PROCESSING"
    BY <1>7 DEF RequeueWrite, OneInv, TypeOK, With
  <2>3. /\ status' = [status EXCEPT ![pjob[p]] = IF retry[pjob[p]] + 1 < MaxRetries
                                                 THEN "PENDING" ELSE "DEAD_LETTER"]
        /\ retry' = [retry EXCEPT ![pjob[p]] = retry[pjob[p]] + 1]
    BY <1>7 DEF RequeueWrite, MarkFailed, FailTo, OneInv
  <2>4. \A q \in Procs : q = p
    BY DEF OneProcess
  <2>5. \A q \in Procs : stale'[q] \subseteq With("PROCESSING")'
    BY <1>7, <2>2, <2>3, <2>4 DEF RequeueWrite, OneInv, TypeOK, With
  <2>6. \A j \in Jobs : status'[j] \in {"ABSENT", "PENDING"} => attempts'[j] = retry'[j]
    BY <1>7, <2>2, <2>3 DEF RequeueWrite, OneInv, TypeOK
  <2>7. \A j \in Jobs : status'[j] = "PROCESSING" => attempts'[j] = retry'[j] + 1
    BY <1>7, <2>2, <2>3 DEF RequeueWrite, OneInv, TypeOK
  <2>8. \A w \in Workers : pc'[w] = "off"
    BY <1>7, <2>1 DEF RequeueWrite, workVars
  <2>9. ExclusiveProcessing'
    BY <2>8 DEF ExclusiveProcessing, Holds
  <2>10. QED
    BY <1>7, <2>4, <2>5, <2>6, <2>7, <2>8, <2>9 DEF RequeueWrite, OneInv, TypeOK
<1>8. ASSUME NEW p \in Procs, Crash(p) \/ RequeueError(p) PROVE OneInv'
  <2>1. Die(p)
    BY <1>8 DEF Crash, RequeueError
  <2>2. \A w \in Workers : Home[w] = p
    BY QueueAssumption DEF OneProcess
  <2>3. \A w \in Workers : pc'[w] = "off"
    BY <2>1, <2>2 DEF Die, Crew
  <2>4. /\ UNCHANGED <<status, retry, seen, attempts>>
        /\ \A q \in Procs : proc'[q] = "down" /\ stale'[q] = {}
    BY <2>1 DEF Die, TypeOK, tableVars, OneProcess
  <2>5. ExclusiveProcessing'
    BY <2>3 DEF ExclusiveProcessing, Holds
  <2>6. QED
    BY <2>3, <2>4, <2>5 DEF OneInv, With
<1>9. ASSUME NEW w \in Workers, Loop(w) \/ GetTimeout(w) \/ ClaimNothing(w) \/ Execute(w)
      PROVE  OneInv'
  <2>1. \E from, to \in PcValues :
          /\ Moves(w, from, to) /\ to # "write"
          /\ to \in {"exec", "report", "fail"} => from \in {"exec", "report", "fail"}
    BY <1>9, Zenon DEF Loop, GetTimeout, ClaimNothing, Execute, PcValues
  <2>2. PICK from, to \in PcValues :
          /\ Moves(w, from, to) /\ to # "write"
          /\ to \in {"exec", "report", "fail"} => from \in {"exec", "report", "fail"}
    BY <2>1
  <2>3. /\ UNCHANGED <<status, retry, proc, stale, pjob, pseen, job, seen, attempts>>
        /\ pc[w] = from /\ pc' = [pc EXCEPT ![w] = to]
    BY <2>2 DEF Moves, Step, tableVars, procVars, histVars
  <2>4. \A v \in Workers, j \in Jobs : Holds(v, j)' => Holds(v, j)
    BY <2>2, <2>3 DEF Holds, TypeOK
  <2>5. \A v \in Workers : pc'[v] = "write" => pc[v] = "write" /\ job'[v] = job[v]
    BY <2>2, <2>3 DEF TypeOK
  <2>6. QED
    BY <2>3, <2>4, <2>5, Quiet
<1>10. ASSUME NEW w \in Workers, Get(w) \/ ClaimError(w) \/ CompleteError(w) PROVE OneInv'
  <2>1. PICK to \in PcValues :
          /\ pc' = [pc EXCEPT ![w] = to] /\ to # "write"
          /\ to \in {"exec", "report", "fail"} => pc[w] \in {"exec", "report", "fail"}
    BY <1>10, Zenon DEF Get, ClaimError, CompleteError, Step, PcValues
  <2>2. UNCHANGED <<status, retry, proc, stale, pjob, pseen, job, seen, attempts>>
    BY <1>10 DEF Get, ClaimError, CompleteError, tableVars, procVars, histVars
  <2>3. \A v \in Workers, j \in Jobs : Holds(v, j)' => Holds(v, j)
    BY <2>1, <2>2 DEF Holds, TypeOK
  <2>4. \A v \in Workers : pc'[v] = "write" => pc[v] = "write" /\ job'[v] = job[v]
    BY <2>1, <2>2 DEF TypeOK
  <2>5. QED
    BY <2>2, <2>3, <2>4, Quiet
<1>11. ASSUME NEW w \in Workers, FailRead(w) PROVE OneInv'
  <2>1. /\ pc[w] = "fail" /\ pc' = [pc EXCEPT ![w] = "write"]
        /\ seen' = [seen EXCEPT ![w] = retry[job[w]]]
        /\ UNCHANGED <<status, retry, proc, stale, pjob, pseen, job, attempts>>
    BY <1>11 DEF FailRead, Step, tableVars, procVars, histVars
  <2>2. \A v \in Workers, j \in Jobs : Holds(v, j)' => Holds(v, j)
    BY <2>1 DEF Holds, TypeOK
  <2>3. ExclusiveProcessing'
    BY <2>1, <2>2 DEF OneInv, ExclusiveProcessing
  <2>4. \A v \in Workers : pc'[v] = "write" => seen'[v] = retry'[job'[v]]
    BY <2>1 DEF OneInv, TypeOK
  <2>5. QED
    BY <2>1, <2>3, <2>4 DEF OneInv, With
<1>12. ASSUME NEW w \in Workers, Stop(w) PROVE OneInv'
  <2>1. UNCHANGED <<status, retry, proc, stale, pjob, pseen, pc, job, seen, attempts>>
    BY <1>12 DEF Stop, tableVars, procVars, histVars
  <2>2. \A v \in Workers, j \in Jobs : Holds(v, j)' => Holds(v, j)
    BY <2>1 DEF Holds
  <2>3. QED
    BY <2>1, <2>2, Quiet
<1>13. ASSUME NEW w \in Workers, FailError(w) PROVE OneInv'
  <2>1. /\ pc' = [pc EXCEPT ![w] = "loop"] /\ job' = [job EXCEPT ![w] = NoJob]
        /\ UNCHANGED <<status, retry, proc, stale, pjob, pseen, seen, attempts>>
    BY <1>13 DEF FailError, tableVars, procVars
  <2>2. \A v \in Workers, j \in Jobs : Holds(v, j)' => Holds(v, j)
    BY <2>1 DEF Holds, TypeOK
  <2>3. \A v \in Workers : pc'[v] = "write" => pc[v] = "write" /\ job'[v] = job[v]
    BY <2>1 DEF TypeOK
  <2>4. QED
    BY <2>1, <2>2, <2>3, Quiet
<1>14. ASSUME NEW w \in Workers, Claim(w) PROVE OneInv'
  <2>1. PICK k \in Jobs : /\ status[k] = "PENDING"
                          /\ status' = [status EXCEPT ![k] = "PROCESSING"]
                          /\ attempts' = [attempts EXCEPT ![k] = @ + 1]
                          /\ job' = [job EXCEPT ![w] = k]
                          /\ retry' = retry
    BY <1>14 DEF Claim, ClaimNextJob, ClaimOldest, Oldest, With
  <2>2. proc[Home[w]] = "up"
    BY <1>14 DEF Claim, TypeOK
  <2>3. \A p \in Procs : stale[p] = {} /\ proc[p] = "up"
    BY <2>2, QueueAssumption DEF OneInv, OneProcess
  <2>4. \A v \in Workers, j \in Jobs : Holds(v, j) => j # k
    BY <2>1 DEF OneInv, ExclusiveProcessing
  <2>5. \A v \in Workers \ {w}, j \in Jobs : Holds(v, j)' => Holds(v, j)
    BY <1>14, <2>1 DEF Claim, Holds, TypeOK
  <2>6. \A j \in Jobs : Holds(w, j)' => j = k
    BY <2>1 DEF Holds, TypeOK
  <2>7. \A j \in Jobs : status'[j] = IF j = k THEN "PROCESSING" ELSE status[j]
    BY <2>1 DEF TypeOK
  <2>8. ExclusiveProcessing'
    BY <2>4, <2>5, <2>6, <2>7 DEF OneInv, ExclusiveProcessing
  <2>9. \A v \in Workers : pc'[v] = "write" => seen'[v] = retry'[job'[v]]
    BY <1>14, <2>1 DEF Claim, OneInv, TypeOK
  <2>10. attempts[k] = retry[k] /\ attempts'[k] = attempts[k] + 1
    BY <2>1 DEF OneInv, TypeOK
  <2>11. \A j \in Jobs \ {k} : attempts'[j] = attempts[j]
    BY <2>1 DEF TypeOK
  <2>12. /\ \A j \in Jobs : status'[j] \in {"ABSENT", "PENDING"} => attempts'[j] = retry'[j]
         /\ \A j \in Jobs : status'[j] = "PROCESSING" => attempts'[j] = retry'[j] + 1
    BY <2>1, <2>7, <2>10, <2>11 DEF OneInv
  <2>13. QED
    BY <1>14, <2>3, <2>8, <2>9, <2>12 DEF Claim, OneInv, procVars
<1>15. ASSUME NEW w \in Workers, Complete(w) \/ FailWrite(w) PROVE OneInv'
  <2>1. /\ job[w] \in Jobs /\ Holds(w, job[w]) /\ status[job[w]] = "PROCESSING"
        /\ pc[w] \in {"report", "write"} /\ proc[Home[w]] = "up"
        /\ \A v \in Workers : v # w /\ pc[v] \in {"exec", "report", "fail", "write"}
                                => job[v] # job[w]
    <3>1. pc[w] \in {"report", "write"} /\ job[w] \in Jobs /\ proc[Home[w]] = "up"
      BY <1>15 DEF Complete, FailWrite, Step, TypeOK
    <3>2. Holds(w, job[w])
      BY <3>1 DEF Holds
    <3>3. \A v \in Workers : v # w => ~Holds(v, job[w])
      BY <3>1, <3>2 DEF OneInv, ExclusiveProcessing
    <3>4. QED
      BY <3>1, <3>2, <3>3 DEF OneInv, ExclusiveProcessing, Holds
  <2>2. \A p \in Procs : stale[p] = {} /\ proc[p] = "up"
    BY <2>1, QueueAssumption DEF OneInv, OneProcess
  <2>3. /\ \A j \in Jobs \ {job[w]} : status'[j] = status[j] /\ retry'[j] = retry[j]
        /\ status'[job[w]] # "PROCESSING"
        /\ status'[job[w]] # "ABSENT"
        /\ status'[job[w]] = "PENDING" => retry'[job[w]] = retry[job[w]] + 1
    <3>1. CASE Complete(w)
      BY <2>1, <3>1 DEF Complete, MarkCompleted, TypeOK
    <3>2. CASE FailWrite(w)
      <4>1. seen[w] = retry[job[w]]
        BY <3>2 DEF FailWrite, Step, OneInv
      <4>2. QED
        BY <2>1, <3>2, <4>1 DEF FailWrite, MarkFailed, FailTo, TypeOK
    <3>3. QED
      BY <1>15, <3>1, <3>2
  <2>4. /\ pc' = [pc EXCEPT ![w] = "loop"] /\ job' = [job EXCEPT ![w] = NoJob]
        /\ UNCHANGED <<procVars, seen, attempts>>
    BY <1>15 DEF Complete, FailWrite, Step
  <2>5. ExclusiveProcessing'
    BY <2>1, <2>3, <2>4, LetGo DEF OneInv
  <2>6. \A v \in Workers : pc'[v] = "write" => seen'[v] = retry'[job'[v]]
    BY <2>1, <2>3, <2>4 DEF OneInv, TypeOK
  <2>7. /\ \A j \in Jobs : status'[j] \in {"ABSENT", "PENDING"} => attempts'[j] = retry'[j]
        /\ \A j \in Jobs : status'[j] = "PROCESSING" => attempts'[j] = retry'[j] + 1
    BY <2>1, <2>3, <2>4 DEF OneInv
  <2>8. QED
    BY <2>2, <2>4, <2>5, <2>6, <2>7 DEF OneInv, procVars
<1>16. CASE UNCHANGED vars
  <2>1. UNCHANGED <<status, retry, proc, stale, pjob, pseen, pc, job, seen, attempts>>
    BY <1>16 DEF vars, tableVars, procVars, workVars, histVars
  <2>2. \A v \in Workers, j \in Jobs : Holds(v, j)' => Holds(v, j)
    BY <2>1 DEF Holds
  <2>3. QED
    BY <2>1, <2>2, Quiet
<1>17. QED
  BY <1>2, <1>3, <1>4, <1>5, <1>6, <1>7, <1>8, <1>9, <1>10, <1>11, <1>12, <1>13,
     <1>14, <1>15, <1>16, NextCases

LEMMA OneInvariant == ASSUME OneProcess PROVE Spec => []OneInv
  <1>1. Init => OneInv
    BY DEF Init, OneInv, ExclusiveProcessing, Holds, With
  <1>2. OneProcess
    OBVIOUS
  <1>3. QED
    BY <1>1, <1>2, NextOneInv, TypeCorrect, CountInvariant, PTL DEF Spec

\* One worker process, any number of threads and crashes: no job is ever in two
\* hands, so the unconditional UPDATEs of the reports never overwrite another's.
THEOREM OneProcessExclusive ==
    ASSUME OneProcess PROVE Spec => []ExclusiveProcessing
  <1>1. OneInv => ExclusiveProcessing
    BY DEF OneInv
  <1>2. QED
    BY <1>1, OneInvariant, PTL

-----------------------------------------------------------------------------
(* One worker process: TaskQueue implements JobLifecycle *)

\* A committed failure of a job in hand is a Retry or a GiveUp of the job.
LEMMA FailureMaps ==
    ASSUME TypeOK, CountInv, OneInv, NEW j \in Jobs, status[j] = "PROCESSING",
           MarkFailed(j, retry[j]), UNCHANGED attempts
    PROVE  Life!Retry(j) \/ Life!GiveUp(j)
  <1>1. attempts[j] = retry[j] + 1 /\ retry[j] \in Nat
    BY DEF OneInv, TypeOK
  <1>2. retry[j] = 0 \/ retry[j] < MaxRetries
    BY DEF CountInv
  <1>3. CASE retry[j] + 1 < MaxRetries
    <2>1. attempts[j] < Life!Budget
      BY <1>1, <1>3 DEF Life!Budget
    <2>2. status' = [status EXCEPT ![j] = "PENDING"]
      BY <1>3 DEF MarkFailed, FailTo
    <2>3. QED
      BY <2>1, <2>2 DEF Life!Retry, Life!Move
  <1>4. CASE ~(retry[j] + 1 < MaxRetries)
    <2>1. attempts[j] = Life!Budget
      BY <1>1, <1>2, <1>4 DEF Life!Budget
    <2>2. status' = [status EXCEPT ![j] = "DEAD_LETTER"]
      BY <1>4 DEF MarkFailed, FailTo
    <2>3. QED
      BY <2>1, <2>2 DEF Life!GiveUp, Life!Move
  <1>5. QED
    BY <1>3, <1>4

LEMMA NextMaps ==
    OneProcess /\ TypeOK /\ CountInv /\ OneInv /\ [Next]_vars
        => [Life!LNext]_(Life!lifecycleVars)
<1> SUFFICES ASSUME OneProcess, TypeOK, CountInv, OneInv, [Next]_vars
             PROVE  Life!LNext \/ UNCHANGED <<status, attempts>>
  BY DEF Life!lifecycleVars
<1>1. ASSUME NEW j \in Jobs, Enqueue(j), UNCHANGED attempts PROVE Life!LNext
  BY <1>1 DEF Enqueue, CreateJob, Life!LNext, Life!Submitted, Life!Move
<1>2. ASSUME NEW j \in Jobs, SubmitBatchScan(j) PROVE Life!LNext
  BY <1>1, <1>2 DEF SubmitBatchScan, histVars
<1>3. ASSUME NEW j \in Jobs, NEW n \in Jobs, RetryDeadLetterJob(j, n) PROVE Life!LNext
  BY <1>1, <1>3 DEF RetryDeadLetterJob, Resubmit
<1>4. ASSUME NEW p \in Procs,
             \/ StartProcess(p) \/ RequeueRead(p) \/ StartWorkers(p)
             \/ Crash(p) \/ RequeueError(p)
      PROVE  UNCHANGED <<status, attempts>>
  BY <1>4 DEF StartProcess, RequeueRead, StartWorkers, Crash, RequeueError, Die,
              tableVars, histVars
<1>5. ASSUME NEW p \in Procs, RequeueWrite(p) PROVE Life!LNext
  <2>1. pjob[p] \in Jobs /\ status[pjob[p]] = "PROCESSING" /\ pseen[p] = retry[pjob[p]]
    BY <1>5 DEF RequeueWrite, OneInv, TypeOK, With
  <2>2. MarkFailed(pjob[p], retry[pjob[p]]) /\ UNCHANGED attempts
    BY <1>5, <2>1 DEF RequeueWrite
  <2>3. QED
    BY <2>1, <2>2, FailureMaps DEF Life!LNext
<1>6. ASSUME NEW w \in Workers,
             \/ Loop(w) \/ Get(w) \/ GetTimeout(w) \/ ClaimNothing(w) \/ Execute(w)
             \/ FailRead(w) \/ ClaimError(w) \/ CompleteError(w) \/ FailError(w) \/ Stop(w)
      PROVE  UNCHANGED <<status, attempts>>
  BY <1>6 DEF Loop, Get, GetTimeout, ClaimNothing, Execute, FailRead, ClaimError, CompleteError,
              FailError, Stop, Moves, tableVars, histVars
<1>7. ASSUME NEW w \in Workers, Claim(w) PROVE Life!LNext
  <2>1. PICK k \in Jobs : /\ status[k] = "PENDING"
                          /\ status' = [status EXCEPT ![k] = "PROCESSING"]
                          /\ attempts' = [attempts EXCEPT ![k] = @ + 1]
    BY <1>7 DEF Claim, ClaimNextJob, ClaimOldest, Oldest, With
  <2>2. retry[k] \in Nat /\ attempts[k] = retry[k] /\ (retry[k] = 0 \/ retry[k] < MaxRetries)
    BY <2>1 DEF OneInv, CountInv, TypeOK
  <2>3. attempts[k] < Life!Budget
    BY <2>2 DEF Life!Budget
  <2>4. Life!Attempt(k)
    BY <2>1, <2>3 DEF Life!Attempt, Life!Move
  <2>5. QED
    BY <2>4 DEF Life!LNext
<1>8. ASSUME NEW w \in Workers, Complete(w) \/ FailWrite(w) PROVE Life!LNext
  <2>1. pc[w] \in {"report", "write"} /\ job[w] \in Jobs /\ Holds(w, job[w])
    BY <1>8 DEF Complete, FailWrite, Step, Holds, TypeOK
  <2>2. status[job[w]] = "PROCESSING"
    BY <2>1 DEF OneInv, ExclusiveProcessing
  <2>3. CASE Complete(w)
    <3>1. Life!Finish(job[w])
      BY <2>2, <2>3 DEF Complete, MarkCompleted, Life!Finish, Life!Move
    <3>2. QED
      BY <2>1, <3>1 DEF Life!LNext
  <2>4. CASE FailWrite(w)
    <3>1. MarkFailed(job[w], retry[job[w]]) /\ UNCHANGED attempts
      BY <2>4 DEF FailWrite, Step, OneInv
    <3>2. QED
      BY <2>1, <2>2, <3>1, FailureMaps DEF Life!LNext
  <2>5. QED
    BY <1>8, <2>3, <2>4
<1>9. CASE UNCHANGED vars
  BY <1>9 DEF vars, tableVars, histVars
<1>10. QED
  BY <1>2, <1>3, <1>4, <1>5, <1>6, <1>7, <1>8, <1>9, NextCases

\* With one worker process the queue implements JobLifecycle: a job is handed to
\* one worker at a time, at most max_retries times (once if that is 0), and what
\* has ended does not move again.
THEOREM OneProcessKeepsLifecycle == ASSUME OneProcess PROVE Spec => KeepsLifecycle
  <1>1. Init => Life!LInit
    BY DEF Init, Life!LInit
  <1>2. OneProcess
    OBVIOUS
  <1>3. QED
    BY <1>1, <1>2, NextMaps, TypeCorrect, CountInvariant, OneInvariant, PTL
       DEF Spec, KeepsLifecycle, Life!LSpec

LEMMA LifeEnds ==
    [Life!LNext]_(Life!lifecycleVars)
        => [\A j \in Jobs : status[j] \in Ended => status'[j] = status[j]]_vars
<1> SUFFICES ASSUME [Life!LNext]_(Life!lifecycleVars), NEW j \in Jobs, status[j] \in Ended
             PROVE  status'[j] = status[j]
  OBVIOUS
<1>1. CASE UNCHANGED Life!lifecycleVars
  BY <1>1 DEF Life!lifecycleVars
<1>2. ASSUME NEW k \in Jobs, \/ Life!Submitted(k) \/ Life!Attempt(k) \/ Life!Finish(k)
                             \/ Life!Retry(k) \/ Life!GiveUp(k)
      PROVE  status'[j] = status[j]
  <2>1. j # k /\ \E s \in Statuses : status' = [status EXCEPT ![k] = s]
    BY <1>2 DEF Life!Submitted, Life!Attempt, Life!Finish, Life!Retry, Life!GiveUp,
                Life!Move, Ended, Statuses
  <2>2. QED
    BY <2>1
<1>3. QED
  BY <1>1, <1>2 DEF Life!LNext

\* One worker process: COMPLETED and DEAD_LETTER are final, whatever crashes, is
\* re-queued or reports late.
THEOREM OneProcessEndedIsFinal == ASSUME OneProcess PROVE Spec => EndedIsFinal
  BY OneProcessKeepsLifecycle, LifeEnds, PTL DEF KeepsLifecycle, Life!LSpec, EndedIsFinal

LEMMA NextOrigin ==
    TypeOK /\ RetriedStaysDead /\ [Next]_vars
    /\ [\A j \in Jobs : status[j] \in Ended => status'[j] = status[j]]_vars
    => RetriedStaysDead'
<1> SUFFICES ASSUME TypeOK, RetriedStaysDead, [Next]_vars,
                    [\A j \in Jobs : status[j] \in Ended => status'[j] = status[j]]_vars,
                    NEW m \in Jobs, origin'[m] # NoJob
             PROVE  status'[origin'[m]] = "DEAD_LETTER"
  BY DEF RetriedStaysDead
<1>1. \A j \in Jobs : status[j] = "DEAD_LETTER" => status'[j] = "DEAD_LETTER"
  BY DEF Ended, vars, tableVars
<1>2. CASE \E j, n \in Jobs : RetryDeadLetterJob(j, n)
  <2>1. PICK j, n \in Jobs : /\ status[j] = "DEAD_LETTER"
                             /\ origin' = [origin EXCEPT ![n] = j]
    BY <1>2 DEF RetryDeadLetterJob, Resubmit
  <2>2. CASE m = n
    BY <1>1, <2>1, <2>2 DEF TypeOK
  <2>3. CASE m # n
    BY <1>1, <2>1, <2>3 DEF TypeOK, RetriedStaysDead
  <2>4. QED
    BY <2>2, <2>3
<1>3. CASE UNCHANGED origin
  <2>1. origin[m] \in Jobs
    BY <1>3 DEF TypeOK
  <2>2. status[origin[m]] = "DEAD_LETTER"
    BY <1>3 DEF RetriedStaysDead
  <2>3. QED
    BY <1>1, <1>3, <2>1, <2>2
<1>4. CASE \E j \in Jobs : SubmitBatchScan(j)
  BY <1>3, <1>4 DEF SubmitBatchScan, histVars
<1>5. ASSUME NEW p \in Procs,
             \/ StartProcess(p) \/ RequeueRead(p) \/ RequeueWrite(p)
             \/ StartWorkers(p) \/ Crash(p) \/ RequeueError(p)
      PROVE  UNCHANGED origin
  BY <1>5 DEF StartProcess, RequeueRead, RequeueWrite, StartWorkers, Crash,
              RequeueError, Die, histVars
<1>6. ASSUME NEW w \in Workers,
             \/ Loop(w) \/ Get(w) \/ GetTimeout(w) \/ Claim(w) \/ ClaimNothing(w)
             \/ Execute(w) \/ Complete(w) \/ FailRead(w) \/ FailWrite(w)
             \/ ClaimError(w) \/ CompleteError(w) \/ FailError(w) \/ Stop(w)
      PROVE  UNCHANGED origin
  BY <1>6 DEF Loop, Get, GetTimeout, Claim, ClaimNothing, Execute, Complete, FailRead,
              FailWrite, ClaimError, CompleteError, FailError, Stop, Moves, histVars
<1>7. CASE UNCHANGED vars
  BY <1>3, <1>7 DEF vars, histVars
<1>8. QED
  BY <1>2, <1>3, <1>4, <1>5, <1>6, <1>7, NextCases

\* One worker process: the dead job behind a retried one never comes back to
\* life, so the two never both deliver a result.
THEOREM OneProcessRetriedStaysDead == ASSUME OneProcess PROVE Spec => []RetriedStaysDead
  <1>1. Init => RetriedStaysDead
    BY DEF Init, RetriedStaysDead
  <1>2. QED
    BY <1>1, NextOrigin, TypeCorrect, OneProcessEndedIsFinal, PTL DEF Spec, EndedIsFinal
=============================================================================
