------------------------------ MODULE JobQueue ------------------------------
(***************************************************************************)
(* The queue of deadline jobs and the workers that drain it:               *)
(* PostgresJobScheduler (the table scheduled_jobs and its dead letter      *)
(* queue) and JobWorkerService.                                            *)
(*                                                                         *)
(* One action is one SQL transaction of the scheduler or one step of a     *)
(* worker between two awaits.  Covered: several workers on one table, a    *)
(* batch that is stale when its jobs are claimed, handlers that raise,     *)
(* mark_completed raising after a handler that succeeded, a worker whose   *)
(* loop ends in the middle of a job, and system halt, which a worker asks  *)
(* about once per poll.  Time is the action DeadlinePasses; the order of   *)
(* two due jobs is left open.                                              *)
(***************************************************************************)
EXTENDS Naturals, FiniteSets

CONSTANTS
  Jobs,           \* identifiers of scheduled_jobs rows
  Workers,        \* worker loops, each started at most once
  NoJob,          \* what a worker between two jobs holds
  MaxAttempts,    \* ScheduledJob.MAX_ATTEMPTS
  BatchSize       \* the limit of get_pending_jobs

ASSUME QueueAssumption ==
  /\ NoJob \notin Jobs
  /\ MaxAttempts \in Nat \ {0}
  /\ BatchSize \in Nat \ {0}

VARIABLES
  status,     \* status[j]: the row of j, "none" when there is no row
  attempts,   \* attempts[j]: the row's attempt counter
  due,        \* due[j]: scheduled_for has passed
  handled,    \* the jobs whose type has a registered handler
  wpc,        \* wpc[w]: where worker w is
  batch,      \* batch[w]: jobs of w's poll not yet looked at
  current,    \* current[w]: the job w has claimed
  halted,     \* what the halt checker answers
  runs        \* runs[j]: how often j's handler was entered (history)

queueVars == <<status, attempts, due, handled, wpc, batch, current, halted, runs>>

JobStatus == {"none", "pending", "processing", "completed", "dead"}
Executing == {"handler", "completing", "failing"}
WorkerPc  == {"new", "idle", "batch", "stopped"} \cup Executing

QueueTypeOK ==
  /\ status \in [Jobs -> JobStatus]
  /\ attempts \in [Jobs -> 0..MaxAttempts]
  /\ due \in [Jobs -> BOOLEAN]
  /\ handled \in SUBSET Jobs
  /\ wpc \in [Workers -> WorkerPc]
  /\ batch \in [Workers -> SUBSET Jobs]
  /\ current \in [Workers -> Jobs \cup {NoJob}]
  /\ halted \in BOOLEAN
  /\ runs \in [Jobs -> 0..MaxAttempts]

\* A worker that is stopped from the start has no part in the behaviour.
QueueInit ==
  /\ status \in [Jobs -> {"none", "pending", "completed"}]
  /\ attempts = [j \in Jobs |-> 0]
  /\ due = [j \in Jobs |-> FALSE]
  /\ handled \in SUBSET Jobs
  /\ wpc \in [Workers -> {"new", "stopped"}]
  /\ batch = [w \in Workers |-> {}]
  /\ current = [w \in Workers |-> NoJob]
  /\ halted = FALSE
  /\ runs = [j \in Jobs |-> 0]

-----------------------------------------------------------------------------
(***************************************************************************)
(* The scheduler as its callers see it.                                    *)
(***************************************************************************)

\* schedule: insert a pending row with no attempts.
ScheduleJob(j) ==
  /\ status[j] = "none"
  /\ status' = [status EXCEPT ![j] = "pending"]
  /\ attempts' = [attempts EXCEPT ![j] = 0]
  /\ due' = [due EXCEPT ![j] = FALSE]
  /\ runs' = [runs EXCEPT ![j] = 0]
  /\ UNCHANGED <<handled, wpc, batch, current, halted>>

\* cancel: delete the row, but only while it is pending.
CancelJob(j) ==
  /\ status[j] = "pending"
  /\ status' = [status EXCEPT ![j] = "none"]
  /\ UNCHANGED <<attempts, due, handled, wpc, batch, current, halted, runs>>

DeadlinePasses(j) ==
  /\ status[j] = "pending" /\ ~due[j]
  /\ due' = [due EXCEPT ![j] = TRUE]
  /\ UNCHANGED <<status, attempts, handled, wpc, batch, current, halted, runs>>

-----------------------------------------------------------------------------
(***************************************************************************)
(* A worker.                                                               *)
(***************************************************************************)

RegisterHandler(j) ==
  /\ j \notin handled
  /\ handled' = handled \cup {j}
  /\ UNCHANGED <<status, attempts, due, wpc, batch, current, halted, runs>>

StartWorker(w) ==
  /\ wpc[w] = "new"
  /\ wpc' = [wpc EXCEPT ![w] = "idle"]
  /\ UNCHANGED <<status, attempts, due, handled, batch, current, halted, runs>>

\* Mutant: the query leaves out jobs that have failed before.
DueJobsOnce == {j \in Jobs : status[j] = "pending" /\ due[j] /\ attempts[j] = 0}

\* get_pending_jobs: WHERE status = 'pending' AND scheduled_for <= now.
DueJobs == {j \in Jobs : status[j] = "pending" /\ due[j]}

Batches == {B \in SUBSET DueJobs :
              Cardinality(B) = IF Cardinality(DueJobs) < BatchSize
                               THEN Cardinality(DueJobs) ELSE BatchSize}

(***************************************************************************)
(* _poll_cycle: the only place where a worker asks for the halt.  Nothing  *)
(* is locked for the worker: the rows of its batch stay pending.           *)
(***************************************************************************)
Poll(w) ==
  /\ wpc[w] = "idle"
  /\ ~halted
  /\ \E B \in Batches :
       /\ B # {}
       /\ batch' = [batch EXCEPT ![w] = B]
  /\ wpc' = [wpc EXCEPT ![w] = "batch"]
  /\ UNCHANGED <<status, attempts, due, handled, current, halted, runs>>

\* The loop over the batch goes on with the jobs B, or the cycle ends.
NextJob(w, B) == wpc' = [wpc EXCEPT ![w] = IF B = {} THEN "idle" ELSE "batch"]

\* Mutant: the claim does not ask whether the row is still pending.
ClaimableBlind(j) == status[j] \in {"pending", "processing"}

\* claim_job: UPDATE ... WHERE status = 'pending'.
Claimable(j) == status[j] = "pending"

(***************************************************************************)
(* _process_job up to the handler's entry: a job that was claimed or       *)
(* cancelled meanwhile is skipped, one without a handler is failed.        *)
(***************************************************************************)
Claim(w, j) ==
  /\ wpc[w] = "batch" /\ j \in batch[w]
  /\ Claimable(j)
  /\ batch' = [batch EXCEPT ![w] = @ \ {j}]
  /\ status' = [status EXCEPT ![j] = "processing"]
  /\ current' = [current EXCEPT ![w] = j]
  /\ wpc' = [wpc EXCEPT ![w] = IF j \in handled THEN "handler" ELSE "failing"]
  /\ runs' = [runs EXCEPT ![j] = IF j \in handled THEN @ + 1 ELSE @]
  /\ UNCHANGED <<attempts, due, handled, halted>>

SkipClaimed(w, j) ==
  /\ wpc[w] = "batch" /\ j \in batch[w]
  /\ ~Claimable(j)
  /\ batch' = [batch EXCEPT ![w] = @ \ {j}]
  /\ NextJob(w, batch[w] \ {j})
  /\ UNCHANGED <<status, attempts, due, handled, current, halted, runs>>

HandlerReturns(w) ==
  /\ wpc[w] = "handler"
  /\ wpc' = [wpc EXCEPT ![w] = "completing"]
  /\ UNCHANGED <<status, attempts, due, handled, batch, current, halted, runs>>

HandlerRaises(w) ==
  /\ wpc[w] = "handler"
  /\ wpc' = [wpc EXCEPT ![w] = "failing"]
  /\ UNCHANGED <<status, attempts, due, handled, batch, current, halted, runs>>

MarkCompleted(w) ==
  /\ wpc[w] = "completing"
  /\ status' = [status EXCEPT ![current[w]] = "completed"]
  /\ current' = [current EXCEPT ![w] = NoJob]
  /\ NextJob(w, batch[w])
  /\ UNCHANGED <<attempts, due, handled, batch, halted, runs>>

\* mark_completed is inside the handler's try: when it raises, the job fails.
MarkCompletedRaises(w) ==
  /\ wpc[w] = "completing"
  /\ wpc' = [wpc EXCEPT ![w] = "failing"]
  /\ UNCHANGED <<status, attempts, due, handled, batch, current, halted, runs>>

\* Mutant: one attempt too many before the dead letter queue.
AfterFailureLate(n) == IF n > MaxAttempts THEN "dead" ELSE "pending"

\* Mutant: the row is not set back to pending for the retry.
AfterFailureStuck(n) == IF n >= MaxAttempts THEN "dead" ELSE "processing"

\* Where a job goes after its n-th failed attempt.
AfterFailure(n) == IF n >= MaxAttempts THEN "dead" ELSE "pending"

MarkFailed(w) ==
  LET j == current[w]
      n == attempts[j] + 1 IN
  /\ wpc[w] = "failing"
  /\ attempts' = [attempts EXCEPT ![j] = n]
  /\ status' = [status EXCEPT ![j] = AfterFailure(n)]
  /\ current' = [current EXCEPT ![w] = NoJob]
  /\ NextJob(w, batch[w])
  /\ UNCHANGED <<due, handled, batch, halted, runs>>

(***************************************************************************)
(* The loop of a worker ends: its process dies, claim_job or mark_failed   *)
(* raises (neither is inside a try), or stop() gives up waiting and        *)
(* cancels it.  A claimed job stays "processing": no query asks for such   *)
(* rows again.                                                             *)
(***************************************************************************)
StopWorker(w) ==
  /\ wpc[w] \notin {"new", "stopped"}
  /\ wpc' = [wpc EXCEPT ![w] = "stopped"]
  /\ UNCHANGED <<status, attempts, due, handled, batch, current, halted, runs>>

\* The system halt is declared, or lifted by a ceremony.
ToggleHalt ==
  /\ halted' = ~halted
  /\ UNCHANGED <<status, attempts, due, handled, wpc, batch, current, runs>>

QueueNext ==
  \/ \E j \in Jobs : \/ ScheduleJob(j)
                     \/ CancelJob(j)
                     \/ DeadlinePasses(j)
                     \/ RegisterHandler(j)
  \/ \E w \in Workers :
       \/ StartWorker(w)
       \/ Poll(w)
       \/ \E j \in Jobs : Claim(w, j) \/ SkipClaimed(w, j)
       \/ HandlerReturns(w)
       \/ HandlerRaises(w)
       \/ MarkCompleted(w)
       \/ MarkCompletedRaises(w)
       \/ MarkFailed(w)
       \/ StopWorker(w)
  \/ ToggleHalt

QueueSpec == QueueInit /\ [][QueueNext]_queueVars

-----------------------------------------------------------------------------
(***************************************************************************)
(* A job is executed by one worker at a time: two workers that polled the  *)
(* same row cannot both be inside its handler or about to mark it          *)
(* (claim_job is the only arbiter; the poll locks nothing).                *)
(***************************************************************************)
OneExecution ==
  \A w, v \in Workers :
    /\ wpc[w] \in Executing /\ wpc[v] \in Executing
    /\ current[w] = current[v]
    => w = v

(***************************************************************************)
(* The handler of a job is entered at most once per attempt: never more    *)
(* than MaxAttempts times, and with no attempt left the row is in the dead *)
(* letter queue, also when mark_completed raised after the handler had     *)
(* done its work.                                                          *)
(***************************************************************************)
RunsBounded ==
  \A j \in Jobs :
    /\ status[j] = "pending" => runs[j] <= attempts[j] /\ attempts[j] < MaxAttempts
    /\ status[j] = "processing" => runs[j] <= attempts[j] + 1
    /\ status[j] = "dead" => attempts[j] = MaxAttempts

(***************************************************************************)
(* A row in "processing" belongs to exactly the worker that claimed it,    *)
(* and is there for good only if that worker's loop ended: a job is        *)
(* stranded by a dead worker and in no other way.                          *)
(***************************************************************************)
HeldByItsWorker ==
  \A j \in Jobs :
    status[j] = "processing" <=>
      \E w \in Workers : current[w] = j /\ wpc[w] \in Executing \cup {"stopped"}

Stranded(j) == \E w \in Workers : wpc[w] = "stopped" /\ current[w] = j
=============================================================================
