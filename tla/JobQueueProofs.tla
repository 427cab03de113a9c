--------------------------- MODULE JobQueueProofs ---------------------------
(***************************************************************************)
(* Safety of the job queue for any number of jobs, workers, attempts and   *)
(* any batch size.                                                         *)
(***************************************************************************)
EXTENDS JobQueue, TLAPS

Holding == Executing \cup {"stopped"}

(***************************************************************************)
(* The inductive invariant: a worker that executes holds a job, one that   *)
(* is between two jobs holds none, no two hold the same, ...               *)
(***************************************************************************)
HoldsWhatItExecutes ==
  \A w \in Workers : /\ wpc[w] \in Executing => current[w] \in Jobs
                     /\ wpc[w] \notin Holding => current[w] = NoJob

HoldsAlone ==
  \A w, v \in Workers : current[w] \in Jobs /\ current[w] = current[v] => w = v

(***************************************************************************)
(* ... and a row in "processing" has an attempt left to fail.              *)
(***************************************************************************)
AttemptLeft == \A j \in Jobs : status[j] = "processing" => attempts[j] < MaxAttempts

QueueInv ==
  /\ QueueTypeOK /\ HoldsWhatItExecutes /\ HoldsAlone /\ HeldByItsWorker
  /\ RunsBounded /\ AttemptLeft

-----------------------------------------------------------------------------
LEMMA QueueInitInv == QueueInit => QueueInv
<1> SUFFICES ASSUME QueueInit PROVE QueueInv
  OBVIOUS
<1>1. QueueTypeOK
  <2>1. 0 \in 0..MaxAttempts
    BY QueueAssumption
  <2>2. status \in [Jobs -> JobStatus] /\ wpc \in [Workers -> WorkerPc]
    BY DEF QueueInit, JobStatus, WorkerPc
  <2> QED
    BY <2>1, <2>2 DEF QueueInit, QueueTypeOK
<1>2. HoldsWhatItExecutes /\ HoldsAlone
  BY QueueAssumption DEF QueueInit, HoldsWhatItExecutes, HoldsAlone, Executing, Holding
<1>3. \A j \in Jobs : status[j] \in {"none", "pending", "completed"}
  BY DEF QueueInit
<1>4. HeldByItsWorker
  BY <1>3, QueueAssumption DEF QueueInit, HeldByItsWorker
<1>5. RunsBounded /\ AttemptLeft
  BY <1>3, QueueAssumption DEF QueueInit, RunsBounded, AttemptLeft
<1> QED
  BY <1>1, <1>2, <1>4, <1>5 DEF QueueInv

(***************************************************************************)
(* The scheduler's actions touch rows that no worker holds.                *)
(***************************************************************************)
LEMMA ScheduleInv ==
  ASSUME QueueInv, NEW j \in Jobs, ScheduleJob(j)
  PROVE  QueueInv'
  BY QueueAssumption
  DEF ScheduleJob, QueueInv, QueueTypeOK, HoldsWhatItExecutes, HoldsAlone, HeldByItsWorker,
      RunsBounded, AttemptLeft, JobStatus

LEMMA CancelInv ==
  ASSUME QueueInv, NEW j \in Jobs, CancelJob(j)
  PROVE  QueueInv'
  BY QueueAssumption
  DEF CancelJob, QueueInv, QueueTypeOK, HoldsWhatItExecutes, HoldsAlone, HeldByItsWorker,
      RunsBounded, AttemptLeft, JobStatus

(***************************************************************************)
(* The steps that leave every row and every held job alone.                *)
(***************************************************************************)
RowsAlone == UNCHANGED <<status, attempts, current, runs>>

LEMMA RowsAloneInv ==
  ASSUME QueueInv, RowsAlone, QueueTypeOK',
         \A w \in Workers : \/ wpc'[w] = wpc[w]
                            \/ wpc[w] \in Executing /\ wpc'[w] \in Executing
                            \/ wpc[w] \notin Holding /\ wpc'[w] \notin Holding
                            \/ wpc'[w] = "stopped"
  PROVE  QueueInv'
<1> USE DEF RowsAlone, QueueInv
<1>1. HoldsWhatItExecutes'
  BY DEF HoldsWhatItExecutes, Holding, Executing
<1>2. HoldsAlone' /\ RunsBounded' /\ AttemptLeft'
  BY DEF HoldsAlone, RunsBounded, AttemptLeft
<1>3. \A w \in Workers, j \in Jobs :
        (current'[w] = j /\ wpc'[w] \in Holding) <=> (current[w] = j /\ wpc[w] \in Holding)
  BY QueueAssumption DEF HoldsWhatItExecutes, Holding, Executing
<1>4. HeldByItsWorker'
  BY <1>3 DEF HeldByItsWorker, Holding
<1> QED
  BY <1>1, <1>2, <1>4

LEMMA QuietStepsInv ==
  ASSUME QueueInv, NEW w \in Workers,
         \/ StartWorker(w) \/ Poll(w) \/ (\E j \in Jobs : SkipClaimed(w, j))
         \/ HandlerReturns(w) \/ HandlerRaises(w) \/ MarkCompletedRaises(w) \/ StopWorker(w)
  PROVE  QueueInv'
<1>1. QueueTypeOK
  BY DEF QueueInv
<1>2. RowsAlone
  BY DEF RowsAlone, StartWorker, Poll, SkipClaimed, HandlerReturns, HandlerRaises,
     MarkCompletedRaises, StopWorker
<1>3. QueueTypeOK'
  <2>1. CASE Poll(w)
    BY <1>1, <2>1 DEF Poll, Batches, DueJobs, QueueTypeOK, WorkerPc
  <2>2. CASE \E j \in Jobs : SkipClaimed(w, j)
    BY <1>1, <2>2 DEF SkipClaimed, NextJob, QueueTypeOK, WorkerPc
  <2>3. CASE \/ StartWorker(w) \/ HandlerReturns(w) \/ HandlerRaises(w)
             \/ MarkCompletedRaises(w) \/ StopWorker(w)
    BY <1>1, <2>3 DEF StartWorker, HandlerReturns, HandlerRaises, MarkCompletedRaises,
       StopWorker, QueueTypeOK, WorkerPc, Executing
  <2> QED
    BY <2>1, <2>2, <2>3
<1>4. \A v \in Workers : \/ wpc'[v] = wpc[v]
                         \/ wpc[v] \in Executing /\ wpc'[v] \in Executing
                         \/ wpc[v] \notin Holding /\ wpc'[v] \notin Holding
                         \/ wpc'[v] = "stopped"
  BY <1>1 DEF QueueTypeOK, Executing, Holding, StartWorker,
     Poll, SkipClaimed, NextJob, HandlerReturns, HandlerRaises, MarkCompletedRaises, StopWorker
<1> QED
  BY <1>2, <1>3, <1>4, RowsAloneInv

(***************************************************************************)
(* A claim: nobody holds a pending row, so the claimer holds it alone.     *)
(***************************************************************************)
LEMMA ClaimInv ==
  ASSUME QueueInv, NEW w \in Workers, NEW j \in Jobs, Claim(w, j)
  PROVE  QueueInv'
<1> USE DEF QueueInv
<1>1. /\ status[j] = "pending" /\ wpc[w] = "batch"
      /\ runs[j] <= attempts[j] /\ attempts[j] < MaxAttempts
      /\ attempts[j] \in Nat /\ runs[j] \in Nat
  BY QueueAssumption DEF Claim, Claimable, RunsBounded, QueueTypeOK
<1>2. \A v \in Workers : current[v] # j
  <2> SUFFICES ASSUME NEW v \in Workers, current[v] = j PROVE FALSE
    OBVIOUS
  <2>1. wpc[v] \in Holding
    BY QueueAssumption DEF HoldsWhatItExecutes
  <2> QED
    BY <1>1, <2>1 DEF HeldByItsWorker, Holding
<1>3. /\ wpc' = [wpc EXCEPT ![w] = IF j \in handled THEN "handler" ELSE "failing"]
      /\ current' = [current EXCEPT ![w] = j]
      /\ status' = [status EXCEPT ![j] = "processing"]
      /\ attempts' = attempts
      /\ runs' = [runs EXCEPT ![j] = IF j \in handled THEN @ + 1 ELSE @]
  BY DEF Claim
<1>4. QueueTypeOK'
  BY <1>1, QueueAssumption DEF Claim, QueueTypeOK, JobStatus, WorkerPc, Executing
<1>5. /\ wpc'[w] \in Executing /\ current'[w] = j /\ status'[j] = "processing"
      /\ \A v \in Workers \ {w} : wpc'[v] = wpc[v] /\ current'[v] = current[v]
      /\ \A k \in Jobs \ {j} : status'[k] = status[k] /\ runs'[k] = runs[k]
      /\ runs'[j] \in {runs[j], runs[j] + 1}
  BY <1>3 DEF QueueTypeOK, Executing
<1>6. HoldsWhatItExecutes' /\ HoldsAlone'
  BY <1>2, <1>5 DEF HoldsWhatItExecutes, HoldsAlone, Holding
<1>7. HeldByItsWorker'
  <2>1. current[w] = NoJob
    BY <1>1 DEF HoldsWhatItExecutes, Holding, Executing
  <2> QED
    BY <1>2, <1>5, <2>1, QueueAssumption DEF HeldByItsWorker
<1>8. RunsBounded' /\ AttemptLeft'
  BY <1>1, <1>3, <1>5 DEF RunsBounded, AttemptLeft
<1> QED
  BY <1>4, <1>6, <1>7, <1>8

(***************************************************************************)
(* What becomes of a row when its worker lets go of it.                    *)
(***************************************************************************)
LEMMA LetsGo ==
  ASSUME QueueInv, NEW w \in Workers, wpc[w] \in Executing,
         NEW s \in JobStatus \ {"processing"},
         status' = [status EXCEPT ![current[w]] = s],
         current' = [current EXCEPT ![w] = NoJob],
         NextJob(w, batch[w])
  PROVE  /\ HoldsWhatItExecutes' /\ HoldsAlone' /\ HeldByItsWorker'
         /\ wpc' \in [Workers -> WorkerPc] /\ status' \in [Jobs -> JobStatus]
         /\ current' \in [Workers -> Jobs \cup {NoJob}]
<1> USE DEF QueueInv
<1>1. /\ wpc' \in [Workers -> WorkerPc] /\ status' \in [Jobs -> JobStatus]
      /\ current' \in [Workers -> Jobs \cup {NoJob}]
  BY DEF NextJob, QueueTypeOK, WorkerPc, HoldsWhatItExecutes
<1> DEFINE j == current[w]
<1>2. j \in Jobs /\ \A v \in Workers \ {w} : current[v] # j
  BY DEF HoldsWhatItExecutes, HoldsAlone
<1>3. /\ wpc'[w] \in {"idle", "batch"} /\ current'[w] = NoJob /\ status'[j] = s
      /\ \A v \in Workers \ {w} : wpc'[v] = wpc[v] /\ current'[v] = current[v]
      /\ \A k \in Jobs \ {j} : status'[k] = status[k]
  BY <1>2 DEF NextJob, QueueTypeOK
<1>4. HoldsWhatItExecutes'
  BY <1>3 DEF HoldsWhatItExecutes, Holding, Executing
<1>5. HoldsAlone'
  BY <1>3, QueueAssumption DEF HoldsAlone
<1>6. HeldByItsWorker'
  <2>1. \A k \in Jobs \ {j}, v \in Workers :
          (current'[v] = k /\ wpc'[v] \in Holding) <=> (current[v] = k /\ wpc[v] \in Holding)
    BY <1>3, QueueAssumption
  <2>2. \A v \in Workers : current'[v] # j
    BY <1>2, <1>3, QueueAssumption
  <2> QED
    BY <1>2, <1>3, <2>1, <2>2 DEF HeldByItsWorker, Holding
<1> QED
  BY <1>1, <1>4, <1>5, <1>6

LEMMA CompleteInv ==
  ASSUME QueueInv, NEW w \in Workers, MarkCompleted(w)
  PROVE  QueueInv'
<1> USE DEF QueueInv
<1>1. wpc[w] \in Executing /\ "completed" \in JobStatus \ {"processing"}
  BY DEF MarkCompleted, Executing, JobStatus
<1>2. /\ HoldsWhatItExecutes' /\ HoldsAlone' /\ HeldByItsWorker'
      /\ wpc' \in [Workers -> WorkerPc] /\ status' \in [Jobs -> JobStatus]
      /\ current' \in [Workers -> Jobs \cup {NoJob}]
  BY <1>1, LetsGo DEF MarkCompleted
<1>3. QueueTypeOK'
  BY <1>2 DEF MarkCompleted, QueueTypeOK
<1>4. RunsBounded' /\ AttemptLeft'
  BY <1>1 DEF MarkCompleted, RunsBounded, AttemptLeft, HoldsWhatItExecutes, QueueTypeOK
<1> QED
  BY <1>2, <1>3, <1>4

LEMMA FailInv ==
  ASSUME QueueInv, NEW w \in Workers, MarkFailed(w)
  PROVE  QueueInv'
<1> USE DEF QueueInv
<1> DEFINE j == current[w]
           n == attempts[j] + 1
<1>1. wpc[w] \in Executing /\ j \in Jobs /\ status[j] = "processing"
  BY DEF MarkFailed, Executing, HoldsWhatItExecutes, HeldByItsWorker
<1>2. /\ attempts[j] \in Nat /\ runs[j] \in Nat /\ n <= MaxAttempts /\ runs[j] <= n
      /\ MaxAttempts \in Nat
  BY <1>1, QueueAssumption DEF QueueTypeOK, AttemptLeft, RunsBounded
<1>3. AfterFailure(n) \in JobStatus \ {"processing"}
  BY DEF AfterFailure, JobStatus
<1>4. /\ HoldsWhatItExecutes' /\ HoldsAlone' /\ HeldByItsWorker'
      /\ wpc' \in [Workers -> WorkerPc] /\ status' \in [Jobs -> JobStatus]
      /\ current' \in [Workers -> Jobs \cup {NoJob}]
  BY <1>1, <1>3, LetsGo DEF MarkFailed
<1>5. /\ attempts' = [attempts EXCEPT ![j] = n] /\ runs' = runs
      /\ status' = [status EXCEPT ![j] = AfterFailure(n)]
  BY DEF MarkFailed
<1>6. QueueTypeOK'
  BY <1>1, <1>2, <1>4 DEF MarkFailed, QueueTypeOK
<1>7. /\ attempts'[j] = n /\ status'[j] = AfterFailure(n)
      /\ \A k \in Jobs \ {j} : attempts'[k] = attempts[k] /\ status'[k] = status[k]
  BY <1>1, <1>5 DEF QueueTypeOK
<1>8. /\ status'[j] = "pending" => n < MaxAttempts
      /\ status'[j] = "dead" => n = MaxAttempts
      /\ status'[j] \in {"pending", "dead"}
  BY <1>2, <1>7 DEF AfterFailure
<1>9. RunsBounded' /\ AttemptLeft'
  BY <1>1, <1>2, <1>5, <1>7, <1>8 DEF RunsBounded, AttemptLeft
<1> QED
  BY <1>4, <1>6, <1>9

LEMMA QueueNextInv == QueueInv /\ [QueueNext]_queueVars => QueueInv'
<1> SUFFICES ASSUME QueueInv, [QueueNext]_queueVars PROVE QueueInv'
  OBVIOUS
<1>1. CASE UNCHANGED queueVars
  BY <1>1 DEF queueVars, QueueInv, QueueTypeOK, HoldsWhatItExecutes, HoldsAlone,
     HeldByItsWorker, RunsBounded, AttemptLeft
<1>2. ASSUME NEW j \in Jobs, ScheduleJob(j) \/ CancelJob(j) PROVE QueueInv'
  BY <1>2, ScheduleInv, CancelInv
<1>3. ASSUME NEW j \in Jobs, DeadlinePasses(j) \/ RegisterHandler(j) PROVE QueueInv'
  <2>1. QueueTypeOK' /\ RowsAlone /\ wpc' = wpc
    BY <1>3 DEF QueueInv, DeadlinePasses, RegisterHandler, QueueTypeOK, RowsAlone
  <2> QED
    BY <2>1, RowsAloneInv
<1>4. ASSUME NEW w \in Workers,
             \/ StartWorker(w) \/ Poll(w) \/ HandlerReturns(w) \/ HandlerRaises(w)
             \/ MarkCompletedRaises(w) \/ StopWorker(w)
      PROVE  QueueInv'
  BY <1>4, QuietStepsInv
<1>5. ASSUME NEW w \in Workers, NEW j \in Jobs, Claim(w, j) PROVE QueueInv'
  BY <1>5, ClaimInv
<1>6. ASSUME NEW w \in Workers, NEW j \in Jobs, SkipClaimed(w, j) PROVE QueueInv'
  BY <1>6, QuietStepsInv
<1>7. ASSUME NEW w \in Workers, MarkCompleted(w) \/ MarkFailed(w) PROVE QueueInv'
  BY <1>7, CompleteInv, FailInv
<1>8. CASE ToggleHalt
  BY <1>8 DEF ToggleHalt, QueueInv, QueueTypeOK, HoldsWhatItExecutes, HoldsAlone,
     HeldByItsWorker, RunsBounded, AttemptLeft
<1> QED
  BY <1>1, <1>2, <1>3, <1>4, <1>5, <1>6, <1>7, <1>8 DEF QueueNext

-----------------------------------------------------------------------------
(***************************************************************************)
(* The rows, the counters and the workers of the queue are always what     *)
(* they should be; in particular no job is tried more than MaxAttempts     *)
(* times.                                                                  *)
(***************************************************************************)
THEOREM QueueInvariant == QueueSpec => []QueueInv
<1>1. QueueInit => QueueInv
  BY QueueInitInv
<1>2. QueueInv /\ [QueueNext]_queueVars => QueueInv'
  BY QueueNextInv
<1> QED
  BY <1>1, <1>2, PTL DEF QueueSpec

(***************************************************************************)
(* The invariant says what the checked properties say.                     *)
(***************************************************************************)
LEMMA QueueInvImplies == QueueInv => OneExecution /\ RunsBounded /\ HeldByItsWorker
  BY DEF QueueInv, HoldsWhatItExecutes, HoldsAlone, OneExecution
=============================================================================
