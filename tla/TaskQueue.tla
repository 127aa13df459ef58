------------------------------ MODULE TaskQueue ------------------------------
(***************************************************************************)
(* The batch-scan queue: the task_jobs table (src/src/db/task_db.py), the  *)
(* TaskQueue object of each process (src/src/workers/task_queue.py), the   *)
(* ScanWorker threads that drain it (src/src/workers/scan_worker.py) and   *)
(* the endpoints that submit and re-submit (src/src/api/endpoints/tasks.py)*)
(*                                                                         *)
(* A commit on task_jobs is one step.  Everything a thread carries from    *)
(* one commit or read to the next (the claimed job, the retry_count that   *)
(* mark_failed selected, the list that requeue_stale_processing is going   *)
(* through) is state of that thread, so every interleaving of threads and  *)
(* processes, and a crash between any two accesses, is a behaviour.        *)
(*                                                                         *)
(* An operator named after a slip (MarkFailedOnceMore, StartWithoutRequeue *)
(* ...) is a mutated form of the one below it; no behaviour uses it.       *)
(***************************************************************************)
EXTENDS Naturals, FiniteSets, Sequences

CONSTANTS Jobs,           \* identities of task_jobs rows
          NoJob,          \* no job in hand
          Procs,          \* processes that run scan_worker.main
          Workers,        \* ScanWorker threads
          Home,           \* Home[w] : the process of worker w
          MaxRetries,     \* task_jobs.max_retries of every job
          StaleLimit,     \* the LIMIT of requeue_stale_processing
          MaxCrashes,     \* bound: process deaths in a behaviour
          MaxDbErrors,    \* bound: failed writes to task_jobs in a behaviour
          MaxStops        \* bound: calls of ScanWorker.stop in a behaviour

ASSUME QueueAssumption ==
    /\ NoJob \notin Jobs
    /\ Home \in [Workers -> Procs]
    /\ MaxRetries \in Nat
    /\ StaleLimit \in Nat \ {0}
    /\ MaxCrashes \in Nat /\ MaxDbErrors \in Nat /\ MaxStops \in Nat

VARIABLES
    \* --- the task_jobs table
    status,      \* status[j], "ABSENT" before the row is inserted
    retry,       \* retry_count
    created,     \* created_at, 0 before the row is inserted
    \* --- a process: main() and its TaskQueue
    proc,        \* "down", "requeue", "write" (inside mark_failed) or "up"
    stale,       \* what is left of the list of requeue_stale_processing
    pjob, pseen, \* the job its mark_failed is at, the retry_count it selected
    inq,         \* the in-memory queue: "wake" for a job id, "stop" for _SHUTDOWN
    \* --- a ScanWorker thread
    pc, job, seen,
    stopping,    \* _stop_event
    \* --- bounds and history
    crashesLeft, dbErrorsLeft, stopsLeft,   \* faults left of the bounds above
    attempts,    \* history: times j was claimed
    failures,    \* history: times mark_failed was committed for j
    orphaned,    \* history: PROCESSING jobs a holder of which was lost unreported
    origin       \* history: origin[n] = j when n was made by retrying j

tableVars == <<status, retry, created>>
procVars  == <<proc, stale, pjob, pseen>>
workVars  == <<pc, job, seen, stopping>>
histVars  == <<attempts, failures, orphaned, origin>>
budget    == <<crashesLeft, dbErrorsLeft, stopsLeft>>
vars      == <<tableVars, procVars, inq, workVars, budget, histVars>>

Statuses == {"PENDING", "PROCESSING", "COMPLETED", "DEAD_LETTER"}
Ended    == {"COMPLETED", "DEAD_LETTER"}
Stamps   == 1..Cardinality(Jobs)
Inserted == {j \in Jobs : status[j] # "ABSENT"}
With(s)  == {j \in Jobs : status[j] = s}
Crew(p)  == {w \in Workers : Home[w] = p}

\* Worker w has claimed j and has not yet reported on it.
Holds(w, j) == job[w] = j /\ pc[w] \in {"exec", "report", "fail", "write"}

\* j is the first (last) of S in the order of created_at.
Oldest(j, S) == j \in S /\ \A k \in S : created[j] <= created[k]
Newest(j, S) == j \in S /\ \A k \in S : created[k] <= created[j]

Init ==
    /\ status = [j \in Jobs |-> "ABSENT"]
    /\ retry = [j \in Jobs |-> 0]
    /\ created = [j \in Jobs |-> 0]
    /\ proc = [p \in Procs |-> "down"]
    /\ stale = [p \in Procs |-> {}]
    /\ pjob = [p \in Procs |-> NoJob]
    /\ pseen = [p \in Procs |-> 0]
    /\ inq = [p \in Procs |-> <<>>]
    /\ pc = [w \in Workers |-> "off"]
    /\ job = [w \in Workers |-> NoJob]
    /\ seen = [w \in Workers |-> 0]
    /\ stopping = [w \in Workers |-> FALSE]
    /\ crashesLeft = MaxCrashes /\ dbErrorsLeft = MaxDbErrors /\ stopsLeft = MaxStops
    /\ attempts = [j \in Jobs |-> 0]
    /\ failures = [j \in Jobs |-> 0]
    /\ orphaned = {}
    /\ origin = [j \in Jobs |-> NoJob]

-----------------------------------------------------------------------------
(* Producers *)

\* create_job.  now is read before the row is inserted, and several threads
\* and processes insert, so the stamp need not be the largest so far.
CreateJob(j) ==
    /\ status[j] = "ABSENT"
    /\ status' = [status EXCEPT ![j] = "PENDING"]
    /\ \E t \in Stamps : /\ \A k \in Jobs : created[k] # t
                         /\ created' = [created EXCEPT ![j] = t]
    /\ UNCHANGED retry

\* enqueue: persist, then wake.  A process that runs workers puts the id in the
\* queue they block on; the API server's own queue has no consumer.
Enqueue(j) ==
    /\ CreateJob(j)
    /\ \/ UNCHANGED inq
       \/ \E p \in Procs : /\ proc[p] = "up"
                           /\ inq' = [inq EXCEPT ![p] = Append(@, "wake")]

SubmitBatchScan(j) ==
    /\ Enqueue(j)
    /\ UNCHANGED <<procVars, workVars, budget, histVars>>

\* POST /tasks/{j}/retry : a new row n with j's payload; j itself is only read.
Resubmit(j, n) ==
    /\ Enqueue(n)
    /\ origin' = [origin EXCEPT ![n] = j]
    /\ UNCHANGED <<procVars, workVars, budget, attempts, failures, orphaned>>

RetryJobOfAnyStatus(j, n) == status[j] # "ABSENT" /\ Resubmit(j, n)
RetryDeadLetterJob(j, n)  == status[j] = "DEAD_LETTER" /\ Resubmit(j, n)

-----------------------------------------------------------------------------
(* Operations on a row that workers and restarting processes share *)

\* claim_next_job for worker w: the oldest of the claimable jobs.
ClaimOldest(w, claimable) ==
    \E j \in Jobs :
        /\ Oldest(j, claimable)
        /\ status' = [status EXCEPT ![j] = "PROCESSING"]
        /\ attempts' = [attempts EXCEPT ![j] = @ + 1]
        /\ orphaned' = orphaned \ {j}
        /\ job' = [job EXCEPT ![w] = j]
        /\ UNCHANGED <<retry, created>>

ClaimNextJobOfAnyStatus(w) == ClaimOldest(w, With("PENDING") \cup With("PROCESSING"))
ClaimNextJob(w)            == ClaimOldest(w, With("PENDING"))

\* mark_completed : no condition on the row's status.
MarkCompleted(j) ==
    /\ status' = [status EXCEPT ![j] = "COMPLETED"]
    /\ orphaned' = orphaned \ {j}
    /\ UNCHANGED <<retry, created>>

\* The write of mark_failed, r being the retry_count it selected earlier.
FailTo(j, r, again) ==
    /\ retry' = [retry EXCEPT ![j] = r + 1]
    /\ status' = [status EXCEPT ![j] = IF again THEN "PENDING" ELSE "DEAD_LETTER"]
    /\ failures' = [failures EXCEPT ![j] = @ + 1]
    /\ orphaned' = orphaned \ {j}
    /\ UNCHANGED created

MarkFailedOnceMore(j, r)  == FailTo(j, r, r + 1 <= MaxRetries)
MarkFailedOnceLess(j, r)  == FailTo(j, r, r + 2 < MaxRetries)
MarkFailed(j, r)          == FailTo(j, r, r + 1 < MaxRetries)

DbError == /\ dbErrorsLeft > 0
           /\ dbErrorsLeft' = dbErrorsLeft - 1
           /\ UNCHANGED <<crashesLeft, stopsLeft>>

-----------------------------------------------------------------------------
(* A process: scan_worker.main *)

\* The list of requeue_stale_processing: the StaleLimit newest PROCESSING rows.
NewestOf(S, rows) ==
    /\ S \subseteq rows
    /\ \/ S = rows /\ Cardinality(S) <= StaleLimit
       \/ /\ Cardinality(S) = StaleLimit
          /\ \A j \in S, k \in rows \ S : created[k] < created[j]

StaleListUnfiltered(S) == NewestOf(S, Inserted)
StaleList(S)           == NewestOf(S, With("PROCESSING"))

StartWithoutRequeue(p) ==
    /\ proc[p] = "down"
    /\ proc' = [proc EXCEPT ![p] = "requeue"]
    /\ stale' = [stale EXCEPT ![p] = {}]
    /\ UNCHANGED <<tableVars, pjob, pseen, inq, workVars, budget, histVars>>

StartProcess(p) ==
    /\ proc[p] = "down"
    /\ proc' = [proc EXCEPT ![p] = "requeue"]
    /\ \E S \in SUBSET Jobs : StaleList(S) /\ stale' = [stale EXCEPT ![p] = S]
    /\ UNCHANGED <<tableVars, pjob, pseen, inq, workVars, budget, histVars>>

\* mark_failed of the next listed job: its SELECT ...
RequeueRead(p) ==
    /\ proc[p] = "requeue"
    /\ \E j \in stale[p] : /\ Newest(j, stale[p])
                           /\ pjob' = [pjob EXCEPT ![p] = j]
                           /\ pseen' = [pseen EXCEPT ![p] = retry[j]]
    /\ proc' = [proc EXCEPT ![p] = "write"]
    /\ UNCHANGED <<tableVars, stale, inq, workVars, budget, histVars>>

\* ... and its UPDATE.
RequeueWrite(p) ==
    /\ proc[p] = "write"
    /\ MarkFailed(pjob[p], pseen[p])
    /\ stale' = [stale EXCEPT ![p] = @ \ {pjob[p]}]
    /\ pjob' = [pjob EXCEPT ![p] = NoJob]
    /\ proc' = [proc EXCEPT ![p] = "requeue"]
    /\ UNCHANGED <<pseen, inq, workVars, budget, attempts, origin>>

\* The list is done: main starts the workers.
StartWorkers(p) ==
    /\ proc[p] = "requeue" /\ stale[p] = {}
    /\ proc' = [proc EXCEPT ![p] = "up"]
    /\ pc' = [w \in Workers |-> IF w \in Crew(p) THEN "loop" ELSE pc[w]]
    /\ UNCHANGED <<tableVars, stale, pjob, pseen, inq, job, seen, stopping,
                   budget, histVars>>

DieKeepsInHand(p) ==
    /\ proc' = [proc EXCEPT ![p] = "down"]
    /\ stale' = [stale EXCEPT ![p] = {}]
    /\ inq' = [inq EXCEPT ![p] = <<>>]
    /\ pc' = [w \in Workers |-> IF w \in Crew(p) THEN "off" ELSE pc[w]]
    /\ stopping' = [w \in Workers |-> IF w \in Crew(p) THEN FALSE ELSE stopping[w]]
    /\ UNCHANGED <<tableVars, pjob, pseen, job, seen, histVars>>

\* What dies with a process: its threads, its in-memory queue, its stop events.
Die(p) ==
    /\ proc' = [proc EXCEPT ![p] = "down"]
    /\ stale' = [stale EXCEPT ![p] = {}]
    /\ pjob' = [pjob EXCEPT ![p] = NoJob]
    /\ inq' = [inq EXCEPT ![p] = <<>>]
    /\ pc' = [w \in Workers |-> IF w \in Crew(p) THEN "off" ELSE pc[w]]
    /\ job' = [w \in Workers |-> IF w \in Crew(p) THEN NoJob ELSE job[w]]
    /\ stopping' = [w \in Workers |-> IF w \in Crew(p) THEN FALSE ELSE stopping[w]]
    /\ orphaned' = orphaned \cup {j \in With("PROCESSING") :
                                    \E w \in Crew(p) : Holds(w, j)}
    /\ UNCHANGED <<tableVars, pseen, seen, attempts, failures, origin>>

\* A kill, or main returning after stop()'s join timed out (daemon threads).
Crash(p) ==
    /\ proc[p] # "down"
    /\ crashesLeft > 0
    /\ crashesLeft' = crashesLeft - 1
    /\ UNCHANGED <<dbErrorsLeft, stopsLeft>>
    /\ Die(p)

\* An exception out of requeue_stale_processing is not caught: main dies.
RequeueError(p) == proc[p] \in {"requeue", "write"} /\ DbError /\ Die(p)

-----------------------------------------------------------------------------
(* A worker thread: ScanWorker._run, _process_job *)

Step(w, from, to) == pc[w] = from /\ pc' = [pc EXCEPT ![w] = to]

\* A step of w that only moves w.
Moves(w, from, to) ==
    /\ Step(w, from, to)
    /\ UNCHANGED <<tableVars, procVars, inq, job, seen, stopping, budget, histVars>>

\* The while test of _run.
LoopForever(w) == Moves(w, "loop", "wait")
Loop(w)        == Moves(w, "loop", IF stopping[w] THEN "stopped" ELSE "wait")

\* dequeue: an item arrives before the timeout ...
Get(w) ==
    LET q == inq[Home[w]] IN
    /\ q # <<>>
    /\ Step(w, "wait", IF Head(q) = "stop" THEN "loop" ELSE "claim")
    /\ inq' = [inq EXCEPT ![Home[w]] = Tail(q)]
    /\ UNCHANGED <<tableVars, procVars, job, seen, stopping, budget, histVars>>

\* ... or queue.Empty is raised and the table is polled.
GetTimeout(w) == inq[Home[w]] = <<>> /\ Moves(w, "wait", "poll")

Claim(w) ==
    /\ pc[w] \in {"claim", "poll"}
    /\ pc' = [pc EXCEPT ![w] = "exec"]
    /\ ClaimNextJob(w)
    /\ UNCHANGED <<procVars, inq, seen, stopping, budget, failures, origin>>

\* claim_next_job returned None: woken workers poll a second time.
ClaimNothing(w) ==
    /\ With("PENDING") = {}
    /\ Moves(w, "claim", "poll") \/ Moves(w, "poll", "loop")

\* claim_next_job raised: rolled back, logged by _run, the wake-up is spent.
ClaimError(w) ==
    /\ pc[w] \in {"claim", "poll"}
    /\ pc' = [pc EXCEPT ![w] = "loop"]
    /\ DbError
    /\ UNCHANGED <<tableVars, procVars, inq, job, seen, stopping, histVars>>

\* execute_scan_job returns a result or raises.
Execute(w) == Moves(w, "exec", "report") \/ Moves(w, "exec", "fail")

Complete(w) ==
    /\ Step(w, "report", "loop")
    /\ MarkCompleted(job[w])
    /\ job' = [job EXCEPT ![w] = NoJob]
    /\ UNCHANGED <<procVars, inq, seen, stopping, budget, attempts, failures, origin>>

\* mark_completed raised: the same except clause turns it into a failure.
CompleteErrorEscapes(w) ==
    /\ Step(w, "report", "loop")
    /\ DbError
    /\ job' = [job EXCEPT ![w] = NoJob]
    /\ UNCHANGED <<tableVars, procVars, inq, seen, stopping, histVars>>

CompleteError(w) ==
    /\ Step(w, "report", "fail")
    /\ DbError
    /\ UNCHANGED <<tableVars, procVars, inq, job, seen, stopping, histVars>>

\* fail -> mark_failed: its SELECT ...
FailRead(w) ==
    /\ Step(w, "fail", "write")
    /\ seen' = [seen EXCEPT ![w] = retry[job[w]]]
    /\ UNCHANGED <<tableVars, procVars, inq, job, stopping, budget, histVars>>

\* ... and its UPDATE.
FailWriteKeepsJob(w) ==
    /\ Step(w, "write", "loop")
    /\ MarkFailed(job[w], seen[w])
    /\ UNCHANGED <<procVars, inq, job, seen, stopping, budget, attempts, origin>>

FailWrite(w) ==
    /\ Step(w, "write", "loop")
    /\ MarkFailed(job[w], seen[w])
    /\ job' = [job EXCEPT ![w] = NoJob]
    /\ UNCHANGED <<procVars, inq, seen, stopping, budget, attempts, origin>>

\* fail raised: _run logs the exception and goes on, the report is gone.
FailError(w) ==
    /\ pc[w] \in {"fail", "write"}
    /\ pc' = [pc EXCEPT ![w] = "loop"]
    /\ job' = [job EXCEPT ![w] = NoJob]
    /\ DbError
    /\ orphaned' = IF status[job[w]] = "PROCESSING" THEN orphaned \cup {job[w]}
                                                    ELSE orphaned
    /\ UNCHANGED <<tableVars, procVars, inq, seen, stopping,
                   attempts, failures, origin>>

\* ScanWorker.stop : set the event, put one sentinel for whoever takes it.
Stop(w) ==
    /\ proc[Home[w]] = "up" /\ ~stopping[w]
    /\ stopsLeft > 0
    /\ stopsLeft' = stopsLeft - 1
    /\ UNCHANGED <<crashesLeft, dbErrorsLeft>>
    /\ stopping' = [stopping EXCEPT ![w] = TRUE]
    /\ inq' = [inq EXCEPT ![Home[w]] = Append(@, "stop")]
    /\ UNCHANGED <<tableVars, procVars, pc, job, seen, histVars>>

-----------------------------------------------------------------------------
ProcessStep(p) == \/ StartProcess(p)
                  \/ RequeueRead(p)
                  \/ RequeueWrite(p)
                  \/ StartWorkers(p)

WorkerStep(w) == \/ Loop(w)
                 \/ Get(w)
                 \/ GetTimeout(w)
                 \/ Claim(w)
                 \/ ClaimNothing(w)
                 \/ Execute(w)
                 \/ Complete(w)
                 \/ FailRead(w)
                 \/ FailWrite(w)

Fault == \/ \E p \in Procs : Crash(p) \/ RequeueError(p)
         \/ \E w \in Workers : ClaimError(w) \/ CompleteError(w) \/ FailError(w) \/ Stop(w)

Next == \/ \E j \in Jobs : SubmitBatchScan(j)
        \/ \E j, n \in Jobs : RetryDeadLetterJob(j, n)
        \/ \E p \in Procs : ProcessStep(p)
        \/ \E w \in Workers : WorkerStep(w)
        \/ Fault

Spec == Init /\ [][Next]_vars

\* Threads keep being scheduled, and whoever runs the worker process starts it
\* again when it is down.
Fairness == /\ \A p \in Procs : WF_vars(ProcessStep(p))
            /\ \A w \in Workers : WF_vars(WorkerStep(w))

FairSpec == Spec /\ Fairness

-----------------------------------------------------------------------------
(* Properties *)

PcValues == {"off", "loop", "wait", "claim", "poll", "exec", "report", "fail",
             "write", "stopped"}

\* The shape of every variable; threads live only in a running process, and have
\* a job in hand exactly while they are between claim and report.
TypeOK ==
    /\ status \in [Jobs -> Statuses \cup {"ABSENT"}]
    /\ retry \in [Jobs -> Nat]
    /\ created \in [Jobs -> Nat]
    /\ proc \in [Procs -> {"down", "requeue", "write", "up"}]
    /\ stale \in [Procs -> SUBSET Jobs]
    /\ pjob \in [Procs -> Jobs \cup {NoJob}]
    /\ pseen \in [Procs -> Nat]
    /\ inq \in [Procs -> Seq({"wake", "stop"})]
    /\ pc \in [Workers -> PcValues]
    /\ job \in [Workers -> Jobs \cup {NoJob}]
    /\ seen \in [Workers -> Nat]
    /\ stopping \in [Workers -> BOOLEAN]
    /\ crashesLeft \in Nat /\ dbErrorsLeft \in Nat /\ stopsLeft \in Nat
    /\ attempts \in [Jobs -> Nat]
    /\ failures \in [Jobs -> Nat]
    /\ orphaned \subseteq Jobs
    /\ origin \in [Jobs -> Jobs \cup {NoJob}]
    /\ \A w \in Workers :
         (job[w] # NoJob) <=> (pc[w] \in {"exec", "report", "fail", "write"})
    /\ \A w \in Workers : pc[w] = "off" \/ proc[Home[w]] = "up"
    /\ \A p \in Procs : (pjob[p] # NoJob) <=> (proc[p] = "write")

\* A job that a worker can still pick up has a retry left (or has not failed yet),
\* however many processes race in mark_failed.
ClaimableHasRetryLeft ==
    \A j \in With("PENDING") : retry[j] = 0 \/ retry[j] < MaxRetries

\* No interleaving of mark_failed's SELECT and UPDATE gives a job up before it
\* has been reported failed max_retries times (once when max_retries is 0).
NeverDeadEarly ==
    \A j \in With("DEAD_LETTER") : failures[j] >= 1 /\ failures[j] >= MaxRetries

\* A PROCESSING row is being processed, or its worker was lost to a crash or to
\* a failed write of its report: _run leaves no other job behind.
NoSilentOrphan ==
    \A j \in With("PROCESSING") : (\E w \in Workers : Holds(w, j)) \/ j \in orphaned

\* The deployment of scan_worker.main's docstring: one standalone worker process.
OneProcess == \A p, q \in Procs : p = q

\* A job is in the hands of at most one worker, and its row says PROCESSING as
\* long as it is: reports do not race.  (One worker process.)
ExclusiveProcessing ==
    \A v, w \in Workers, j \in Jobs :
        Holds(v, j) /\ Holds(w, j) => v = w /\ status[j] = "PROCESSING"

\* A dead-lettered job that was re-submitted stays dead: the old and the new
\* row never both deliver a result.  (One worker process.)
RetriedStaysDead ==
    \A n \in Jobs : origin[n] # NoJob => status[origin[n]] = "DEAD_LETTER"

\* An ended job never moves again: the lifecycle of the task_db docstring.
EndedIsFinal ==
    [][\A j \in Jobs : status[j] \in Ended => status'[j] = status[j]]_vars

\* With one worker process the queue keeps the promises of JobLifecycle.
Life == INSTANCE JobLifecycle WITH phase <- status, tries <- attempts
KeepsLifecycle == Life!LSpec

\* Every submitted job is eventually completed or dead-lettered, across crashes
\* and restarts of the worker processes (no failed writes, no stops).
SubmittedJobEnds ==
    \A j \in Jobs : status[j] \in {"PENDING", "PROCESSING"} ~> status[j] \in Ended

\* A worker told to stop does stop, whoever takes its sentinel.
StopTakesEffect ==
    \A w \in Workers : stopping[w] ~> pc[w] \in {"stopped", "off"}
=============================================================================
