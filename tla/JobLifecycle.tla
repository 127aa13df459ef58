---------------------------- MODULE JobLifecycle ----------------------------
(***************************************************************************)
(* What the batch-scan queue promises about one job, with no word on       *)
(* workers, processes, SQLite or the wake-up queue: a submitted job is     *)
(* attempted by one worker at a time, at most Budget times, and ends done  *)
(* or, once the budget is spent, dead; an ended job never moves again.     *)
(***************************************************************************)
EXTENDS Naturals

CONSTANTS Jobs,        \* identities of task_jobs rows
          MaxRetries   \* task_jobs.max_retries, the same for every job

VARIABLES phase,   \* phase[j] : where job j stands
          tries    \* tries[j] : how many times j has been handed to a worker

lifecycleVars == <<phase, tries>>

\* A job is handed out once even when max_retries is 0 (nothing looks at the
\* limit before the first failure).
Budget == IF MaxRetries = 0 THEN 1 ELSE MaxRetries

LInit == /\ phase = [j \in Jobs |-> "ABSENT"]
         /\ tries = [j \in Jobs |-> 0]

Move(j, from, to) == /\ phase[j] = from
                     /\ phase' = [phase EXCEPT ![j] = to]

Submitted(j) == Move(j, "ABSENT", "PENDING") /\ UNCHANGED tries

Attempt(j) == /\ tries[j] < Budget
              /\ Move(j, "PENDING", "PROCESSING")
              /\ tries' = [tries EXCEPT ![j] = @ + 1]

Finish(j) == Move(j, "PROCESSING", "COMPLETED") /\ UNCHANGED tries

Retry(j) == /\ tries[j] < Budget
            /\ Move(j, "PROCESSING", "PENDING")
            /\ UNCHANGED tries

GiveUp(j) == /\ tries[j] = Budget
             /\ Move(j, "PROCESSING", "DEAD_LETTER")
             /\ UNCHANGED tries

LNext == \E j \in Jobs : \/ Submitted(j)
                         \/ Attempt(j)
                         \/ Finish(j)
                         \/ Retry(j)
                         \/ GiveUp(j)

LSpec == LInit /\ [][LNext]_lifecycleVars
=============================================================================
