----------------------------- MODULE TaskService -----------------------------
(***************************************************************************)
(* The services that move governance tasks through their life, over one    *)
(* task store and one ledger: activation, consent (accept, decline, halt), *)
(* results and problem reports, settlement, the timeout scheduler, the     *)
(* system halt and the release of a Cluster's obligations.                 *)
(*                                                                         *)
(* Every call is a coroutine.  It reads a task, checks what it read, and   *)
(* saves the new TaskState with save_task, which overwrites whatever is    *)
(* there; batches work from a list they read once.  Between two awaits     *)
(* anything may happen, so each read, save and append is a step of its     *)
(* own.                                                                    *)
(***************************************************************************)
EXTENDS TaskRules, TwoPhaseEmitter

CONSTANTS
  Tasks,
  NoTask,        \* no task
  Scheduler,     \* the background loop of TaskTimeoutScheduler
  Ops,           \* the operations the calls of this instance may perform
  InitStatus,    \* the statuses tasks may be loaded with from a manifest
  Scheduled,     \* is the timeout scheduler started?
  Overlap,       \* may two calls be in flight at once?
  RemoteStore,   \* does the TaskStatePort do I/O (a database), so that its
                 \* calls suspend and may fail and its contents survive a
                 \* restart, or is it the in-memory adapter?
  Faults,        \* may ledger, store and messenger raise?
  Crashes        \* may the process restart?

ASSUME TaskServiceAssumption ==
  /\ NoTask \notin Tasks
  /\ Scheduler \notin Calls
  /\ Ops \subseteq CallOps
  /\ InitStatus \subseteq (PreConsent \cup PostConsent \cup {"none"})
  /\ {Scheduled, Overlap, RemoteStore, Faults, Crashes} \subseteq BOOLEAN

Actor == Calls \cup {Scheduler}

VARIABLES
  status,     \* the task store
  expired,    \* the tasks whose time in their present status has run out
  naive,      \* the tasks whose state_entered_at carries no timezone
  pc,         \* where each actor stands
  op,         \* what it is doing
  task,       \* the task it is doing it to
  snap,       \* the statuses it has read and not yet acted on
  consented,  \* history: the tasks their Cluster has accepted
  reported,   \* history: the tasks their Cluster has submitted a result for
  wrote,      \* history: <<a, t>> when a has written the status of t
  events,     \* ledger: <<a, t>> when a has appended its event about t
  failed      \* <<c, t>> when the halt c recorded t as FAILED

store   == <<status, expired, naive>>
control == <<pc, op, task, snap>>
history == <<consented, reported, wrote>>
records == <<events, failed>>
vars    == <<store, control, history, records, emitter>>

PC == {"idle", "intent", "read", "write", "filter", "send", "event",
       "commit", "failing", "batch", "done"}

NothingRead == [t \in Tasks |-> "none"]

TypeOK ==
  /\ status \in [Tasks -> Slot]
  /\ expired \subseteq Tasks
  /\ naive \subseteq Tasks
  /\ pc \in [Actor -> PC]
  /\ op \in [Actor -> CallOps \cup ScanOps \cup {"none"}]
  /\ task \in [Actor -> Tasks \cup {NoTask}]
  /\ snap \in [Actor -> [Tasks -> Slot]]
  /\ consented \subseteq Tasks
  /\ reported \subseteq Tasks
  /\ wrote \subseteq Actor \X Tasks
  /\ events \subseteq Actor \X Tasks
  /\ failed \subseteq Actor \X Tasks
  /\ EmitterTypeOK

(***************************************************************************)
(* A task is created by create_activation, or loaded from a manifest with  *)
(* the status it had, by the scripts that run one stage of the pipeline.   *)
(***************************************************************************)
Init ==
  /\ status \in [Tasks -> InitStatus]
  /\ expired = {} /\ naive = {}
  /\ pc = [a \in Actor |-> "idle"]
  /\ op = [a \in Actor |-> "none"]
  /\ task = [a \in Actor |-> NoTask]
  /\ snap = [a \in Actor |-> NothingRead]
  /\ consented = {t \in Tasks : status[t] \in PostConsent}
  /\ reported = {t \in Tasks : status[t] \in {"reported", "aggregated"}}
  /\ wrote = {} /\ events = {} /\ failed = {}
  /\ EmitterInit

-----------------------------------------------------------------------------
(***************************************************************************)
(* The event loop.  A call to the in-memory store never suspends, so a     *)
(* coroutine that is about to use it keeps the loop.                       *)
(***************************************************************************)
CanRun(a) ==
  RemoteStore \/ \A b \in Actor \ {a} : pc[b] \notin {"read", "write", "batch"}

Quiet(a) == pc[a] \in {"idle", "done"}

Free(a) == Overlap \/ \A b \in Actor : Quiet(b)

Goto(a, p) == pc' = [pc EXCEPT ![a] = p]

Forget(a) ==
  /\ task' = [task EXCEPT ![a] = NoTask]
  /\ snap' = [snap EXCEPT ![a] = NothingRead]
  /\ UNCHANGED op

\* Mutant: emit_commit and emit_failure do not look for the intent.
LeaveUnchecked(c, p) ==
  /\ Goto(c, p)
  /\ Forget(c)
  /\ UNCHANGED emitter

(***************************************************************************)
(* TwoPhaseExecution.__aexit__: append the commit or the failure, unless   *)
(* the intent has been resolved meanwhile.                                 *)
(***************************************************************************)
Leave(c, p) ==
  /\ Goto(c, IF c \in pending THEN p ELSE "done")
  /\ Forget(c)
  /\ UNCHANGED emitter

(***************************************************************************)
(* save_task(task.transition(s)): overwrite, with a new state_entered_at.  *)
(* TaskActivationService takes it from datetime.utcnow(), without a        *)
(* timezone, and the in-memory store keeps it so (a database column        *)
(* returns it with one); everybody else takes it from the time authority.  *)
(***************************************************************************)
SaveTask(a, t, s) ==
  /\ status' = [status EXCEPT ![t] = s]
  /\ expired' = expired \ {t}
  /\ naive' = IF op[a] \in {"activate", "route"} /\ ~RemoteStore
                THEN naive \cup {t} ELSE naive \ {t}
  /\ consented' = IF op[a] = "accept" THEN consented \cup {t} ELSE consented
  /\ reported' = IF op[a] = "result" THEN reported \cup {t} ELSE reported
  /\ wrote' = wrote \cup {<<a, t>>}

-----------------------------------------------------------------------------
(***************************************************************************)
(* accept_task, decline_task, halt_task, submit_result,                    *)
(* submit_problem_report, settle_accept and settle_aggregate: the intent   *)
(* is appended, ...                                                        *)
(***************************************************************************)
Begin(c, o, t) ==
  /\ pc[c] = "idle" /\ Free(c) /\ CanRun(c)
  /\ o \in Ops \cap (ClusterOps \cup SettleOps)
  /\ EmitIntent(c)
  /\ Goto(c, "read")
  /\ op' = [op EXCEPT ![c] = o]
  /\ task' = [task EXCEPT ![c] = t]
  /\ UNCHANGED <<store, snap, history, records>>

(***************************************************************************)
(* route_to_cluster and start_work: no intent and no event.                *)
(***************************************************************************)
BeginPlain(c, o, t) ==
  /\ pc[c] = "idle" /\ Free(c) /\ CanRun(c)
  /\ o \in Ops \cap PlainOps
  /\ Goto(c, "read")
  /\ op' = [op EXCEPT ![c] = o]
  /\ task' = [task EXCEPT ![c] = t]
  /\ UNCHANGED <<store, snap, history, records, emitter>>

\* Mutant: the status that was read is not checked.
ReadUnchecked(c) ==
  /\ pc[c] = "read" /\ CanRun(c)
  /\ snap' = [snap EXCEPT ![c][task[c]] = status[task[c]]]
  /\ Goto(c, IF op[c] = "problem" THEN "event" ELSE "write")
  /\ UNCHANGED <<op, task, store, history, records, emitter>>

(***************************************************************************)
(* ... the task is read and checked, ...                                   *)
(***************************************************************************)
Read(c) ==
  /\ pc[c] = "read" /\ CanRun(c)
  /\ status[task[c]] \in Accepts(op[c])
  /\ snap' = [snap EXCEPT ![c][task[c]] = status[task[c]]]
  /\ Goto(c, IF op[c] = "problem" THEN "event" ELSE "write")
  /\ UNCHANGED <<op, task, store, history, records, emitter>>

(***************************************************************************)
(* (the task is not in a status the operation starts from, does not exist, *)
(* or is addressed to another Cluster: the operation raises)               *)
(***************************************************************************)
Refuse(c) ==
  /\ pc[c] = "read" /\ CanRun(c)
  /\ status[task[c]] \notin Accepts(op[c]) \/ op[c] \in ClusterOps
  /\ IF op[c] \in PlainOps
       THEN Goto(c, "done") /\ Forget(c) /\ UNCHANGED emitter
       ELSE Leave(c, "failing")
  /\ UNCHANGED <<store, history, records>>

(***************************************************************************)
(* ... the new state, computed from what was read, is saved, ...           *)
(***************************************************************************)
Write(c) ==
  /\ pc[c] = "write" /\ op[c] \notin PlainOps \cup {"activate"} /\ CanRun(c)
  /\ SaveTask(c, task[c], Target(op[c], snap[c][task[c]]))
  /\ snap' = [snap EXCEPT ![c] = NothingRead]
  /\ Goto(c, "event")
  /\ UNCHANGED <<op, task, records, emitter>>

WritePlain(c) ==
  /\ pc[c] = "write" /\ op[c] \in PlainOps /\ CanRun(c)
  /\ SaveTask(c, task[c], Target(op[c], snap[c][task[c]]))
  /\ Forget(c)
  /\ Goto(c, "done")
  /\ UNCHANGED <<records, emitter>>

(***************************************************************************)
(* ... the event is appended, and the execution is left with a commit.     *)
(***************************************************************************)
Event(c) ==
  /\ pc[c] = "event" /\ op[c] \in ClusterOps \cup SettleOps
  /\ CanRun(c)
  /\ events' = events \cup {<<c, task[c]>>}
  /\ Leave(c, "commit")
  /\ UNCHANGED <<store, history, failed>>

\* Mutant: __aexit__ commits although the body raised.
BodyRaisesCommits(c) ==
  /\ Faults /\ CanRun(c)
  /\ \/ pc[c] = "write" /\ RemoteStore
     \/ pc[c] \in {"event", "filter", "send"} /\ op[c] \notin BatchOps
  /\ IF op[c] \in PlainOps
       THEN Goto(c, "done") /\ Forget(c) /\ UNCHANGED emitter
       ELSE Leave(c, "commit")
  /\ UNCHANGED <<store, history, records>>

(***************************************************************************)
(* Any await of the body may raise; what was saved before stays saved.     *)
(***************************************************************************)
BodyRaises(c) ==
  /\ Faults /\ CanRun(c)
  /\ \/ pc[c] = "write" /\ RemoteStore
     \/ pc[c] \in {"event", "filter", "send"} /\ op[c] \notin BatchOps
  /\ IF op[c] \in PlainOps
       THEN Goto(c, "done") /\ Forget(c) /\ UNCHANGED emitter
       ELSE Leave(c, "failing")
  /\ UNCHANGED <<store, history, records>>

Commit(c) ==
  /\ pc[c] = "commit" /\ CanRun(c)
  /\ AppendOutcome(c, "commit")
  /\ Goto(c, "done")
  /\ UNCHANGED <<op, task, snap, store, history, records, intents, aged, orphans, resolving, lost>>

Failure(c) ==
  /\ pc[c] = "failing" /\ CanRun(c)
  /\ AppendOutcome(c, "failure")
  /\ Goto(c, "done")
  /\ UNCHANGED <<op, task, snap, store, history, records, intents, aged, orphans, resolving, lost>>

OutcomeRefused(c) ==
  /\ Faults
  /\ pc[c] \in {"commit", "failing"} /\ CanRun(c)
  /\ Goto(c, "done")
  /\ UNCHANGED <<op, task, snap, store, history, records, emitter>>

-----------------------------------------------------------------------------
(***************************************************************************)
(* create_activation: create the task, then inside a two-phase execution   *)
(* save it as activated, pass the content through the Coercion Filter and, *)
(* if it is accepted, save it as routed and send the message.  The two     *)
(* saves are made from the TaskState this call holds, not from the store.  *)
(***************************************************************************)
Create(c, t) ==
  /\ pc[c] = "idle" /\ Free(c) /\ CanRun(c)
  /\ "activate" \in Ops
  /\ status[t] = "none"
  /\ status' = [status EXCEPT ![t] = "authorized"]
  /\ Goto(c, "intent")
  /\ op' = [op EXCEPT ![c] = "activate"]
  /\ task' = [task EXCEPT ![c] = t]
  /\ snap' = [snap EXCEPT ![c][t] = "authorized"]
  /\ UNCHANGED <<expired, naive, history, records, emitter>>

ActivationIntent(c) ==
  /\ pc[c] = "intent" /\ CanRun(c)
  /\ EmitIntent(c)
  /\ Goto(c, "write")
  /\ UNCHANGED <<op, task, snap, store, history, records>>

ActivationIntentFails(c) ==
  /\ Faults /\ pc[c] = "intent" /\ CanRun(c)
  /\ Goto(c, "done") /\ Forget(c)
  /\ UNCHANGED <<store, history, records, emitter>>

Activate(c) ==
  /\ pc[c] = "write" /\ op[c] = "activate" /\ CanRun(c)
  /\ SaveTask(c, task[c], "activated")
  /\ snap' = [snap EXCEPT ![c][task[c]] = "activated"]
  /\ Goto(c, "filter")
  /\ UNCHANGED <<op, task, records, emitter>>

(***************************************************************************)
(* The filter rejects or blocks the content: the task stays activated and  *)
(* the execution commits.                                                  *)
(***************************************************************************)
FilterRejects(c) ==
  /\ pc[c] = "filter" /\ CanRun(c)
  /\ Leave(c, "commit")
  /\ UNCHANGED <<store, history, records>>

Route(c) ==
  /\ pc[c] = "filter" /\ CanRun(c)
  /\ SaveTask(c, task[c], "routed")
  /\ snap' = [snap EXCEPT ![c] = NothingRead]
  /\ Goto(c, "send")
  /\ UNCHANGED <<op, task, records, emitter>>

Send(c) ==
  /\ pc[c] = "send" /\ CanRun(c)
  /\ Leave(c, "commit")
  /\ UNCHANGED <<store, history, records>>

-----------------------------------------------------------------------------
(***************************************************************************)
(* Batches: transition_all_tasks_on_halt, release_all and the three passes *)
(* of process_all_timeouts.  Each reads a list of tasks once and then      *)
(* works through it, one save and one event per task.                      *)
(***************************************************************************)
Active == PreConsent \cup PostConsent

Drained(a) == snap[a] = NothingRead

\* Mutant: the list leaves out the tasks no Cluster has been sent yet.
BeginBatchShort(c, o, mine) ==
  /\ pc[c] = "idle" /\ Free(c) /\ CanRun(c)
  /\ o \in Ops \cap BatchOps
  /\ o = "system_halt" => mine = Tasks
  /\ Goto(c, "batch")
  /\ op' = [op EXCEPT ![c] = o]
  /\ snap' = [snap EXCEPT ![c] =
       [t \in Tasks |-> IF t \in mine /\ status[t] \in PostConsent \cup {"routed"}
                          THEN status[t] ELSE "none"]]
  /\ UNCHANGED <<task, store, history, records, emitter>>

(***************************************************************************)
(* The halt lists every active task, the exit of a Cluster those that are  *)
(* its own (mine).                                                         *)
(***************************************************************************)
BeginBatch(c, o, mine) ==
  /\ pc[c] = "idle" /\ Free(c) /\ CanRun(c)
  /\ o \in Ops \cap BatchOps
  /\ o = "system_halt" => mine = Tasks
  /\ Goto(c, "batch")
  /\ op' = [op EXCEPT ![c] = o]
  /\ snap' = [snap EXCEPT ![c] =
       [t \in Tasks |-> IF t \in mine /\ status[t] \in Active THEN status[t] ELSE "none"]]
  /\ UNCHANGED <<task, store, history, records, emitter>>

\* Mutant: the deadline is not looked at.
DueOrNot(o) == {t \in Tasks : status[t] = ScanStatus(o)}

(***************************************************************************)
(* The tasks a pass of the scheduler works on: those in its status whose   *)
(* time has run out.  The ttl pass compares a deadline with the time       *)
(* authority's now(); at the first routed task whose state_entered_at has  *)
(* no timezone that raises TypeError, outside the try of a single task,    *)
(* and the pass ends there: it reaches only what the list holds before     *)
(* that task.                                                              *)
(***************************************************************************)
Due(o) == {t \in Tasks : status[t] = ScanStatus(o) /\ t \in expired}

Reached(o) ==
  IF o = "ttl" /\ \E t \in naive : status[t] = "routed"
    THEN SUBSET (Due(o) \ naive) ELSE {Due(o)}

Scan(o) ==
  /\ CanRun(Scheduler)
  /\ Goto(Scheduler, "batch")
  /\ op' = [op EXCEPT ![Scheduler] = o]
  /\ \E list \in Reached(o) :
       snap' = [snap EXCEPT ![Scheduler] =
         [t \in Tasks |-> IF t \in list THEN status[t] ELSE "none"]]
  /\ UNCHANGED <<task, store, history, records, emitter>>

Wake ==
  /\ Scheduled
  /\ pc[Scheduler] = "idle" /\ Free(Scheduler)
  /\ Scan("ttl")

NextScan ==
  /\ pc[Scheduler] = "batch" /\ Drained(Scheduler)
  /\ \/ op[Scheduler] = "ttl" /\ Scan("inactivity")
     \/ op[Scheduler] = "inactivity" /\ Scan("reporting")

Sleep ==
  /\ pc[Scheduler] = "batch" /\ Drained(Scheduler)
  /\ op[Scheduler] = "reporting"
  /\ Goto(Scheduler, "idle")
  /\ UNCHANGED <<op, task, snap, store, history, records, emitter>>

(***************************************************************************)
(* Work on the next task of the list ends: with its event still to append  *)
(* (t), or without (NoTask).                                               *)
(***************************************************************************)
Strike(a, t, next, p) ==
  /\ snap' = [snap EXCEPT ![a][t] = "none"]
  /\ task' = [task EXCEPT ![a] = next]
  /\ Goto(a, p)
  /\ UNCHANGED <<op, emitter>>

(***************************************************************************)
(* _auto_decline, _auto_start, _auto_quarantine: the TaskState of the list *)
(* is transitioned and saved.  transition_task of the exit: the target is  *)
(* computed from the list.                                                 *)
(***************************************************************************)
Expel(a, t) ==
  /\ pc[a] = "batch" /\ op[a] \in ScanOps \cup {"release"} /\ CanRun(a)
  /\ snap[a][t] # "none"
  /\ SaveTask(a, t, Target(op[a], snap[a][t]))
  /\ Strike(a, t, t, "event")
  /\ UNCHANGED records

(***************************************************************************)
(* save_task or transition_task raises: the scheduler logs it and goes on  *)
(* to the next task, the exit is abandoned.                                *)
(***************************************************************************)
ExpelFails(a, t) ==
  /\ Faults /\ RemoteStore
  /\ pc[a] = "batch" /\ snap[a][t] # "none"
  /\ \/ op[a] \in ScanOps /\ Strike(a, t, NoTask, "batch")
     \/ op[a] = "release" /\ Goto(a, "done") /\ Forget(a) /\ UNCHANGED emitter
  /\ UNCHANGED <<store, history, records>>

\* Mutant: the transition is not a compare-and-set.
HaltTaskBlind(c, t) ==
  /\ pc[c] = "batch" /\ op[c] = "system_halt" /\ CanRun(c)
  /\ snap[c][t] # "none"
  /\ SaveTask(c, t, HaltTarget(snap[c][t]))
  /\ Strike(c, t, t, "event")
  /\ UNCHANGED records

(***************************************************************************)
(* atomic_transition(from, to) of the halt: a compare-and-set on the       *)
(* status of the list.  When it fails the task is recorded as FAILED and   *)
(* left alone.                                                             *)
(***************************************************************************)
HaltTask(c, t) ==
  /\ pc[c] = "batch" /\ op[c] = "system_halt" /\ CanRun(c)
  /\ snap[c][t] # "none" /\ status[t] = snap[c][t]
  /\ SaveTask(c, t, HaltTarget(snap[c][t]))
  /\ Strike(c, t, t, "event")
  /\ UNCHANGED records

\* Mutant: a conflict is skipped and not recorded.
HaltConflictSilent(c, t) ==
  /\ pc[c] = "batch" /\ op[c] = "system_halt" /\ CanRun(c)
  /\ snap[c][t] # "none"
  /\ status[t] # snap[c][t] \/ (Faults /\ RemoteStore)
  /\ Strike(c, t, NoTask, "batch")
  /\ UNCHANGED <<store, history, records>>

HaltConflict(c, t) ==
  /\ pc[c] = "batch" /\ op[c] = "system_halt" /\ CanRun(c)
  /\ snap[c][t] # "none"
  /\ status[t] # snap[c][t] \/ (Faults /\ RemoteStore)
  /\ failed' = failed \cup {<<c, t>>}
  /\ Strike(c, t, NoTask, "batch")
  /\ UNCHANGED <<store, history, events>>

BatchEvent(a) ==
  /\ pc[a] = "event" /\ op[a] \in BatchOps \cup ScanOps /\ CanRun(a)
  /\ events' = events \cup {<<a, task[a]>>}
  /\ task' = [task EXCEPT ![a] = NoTask]
  /\ Goto(a, "batch")
  /\ UNCHANGED <<op, snap, store, history, failed, emitter>>

(***************************************************************************)
(* The ledger refuses the event: logged by the scheduler, recorded as      *)
(* FAILED by the halt, fatal to the exit.                                  *)
(***************************************************************************)
BatchEventFails(a) ==
  /\ Faults
  /\ pc[a] = "event" /\ op[a] \in BatchOps \cup ScanOps /\ CanRun(a)
  /\ failed' = IF op[a] = "system_halt" THEN failed \cup {<<a, task[a]>>} ELSE failed
  /\ Goto(a, IF op[a] = "release" THEN "done" ELSE "batch")
  /\ IF op[a] = "release"
       THEN Forget(a)
       ELSE task' = [task EXCEPT ![a] = NoTask] /\ UNCHANGED <<op, snap>>
  /\ UNCHANGED <<store, history, events, emitter>>

EndBatch(c) ==
  /\ pc[c] = "batch" /\ op[c] \in BatchOps /\ CanRun(c)
  /\ Drained(c)
  /\ Goto(c, "done")
  /\ UNCHANGED <<op, task, snap, store, history, records, emitter>>

-----------------------------------------------------------------------------
(***************************************************************************)
(* The ttl, the inactivity limit or the reporting deadline of a task       *)
(* passes.                                                                 *)
(***************************************************************************)
Expire(t) ==
  /\ status[t] \in {"routed", "accepted", "in_progress"}
  /\ t \notin expired
  /\ expired' = expired \cup {t}
  /\ UNCHANGED <<status, naive, control, history, records, emitter>>

(***************************************************************************)
(* A restart: the coroutines and what they had read are gone.              *)
(***************************************************************************)
Crash ==
  /\ Crashes /\ RemoteStore
  /\ EmitterCrash
  /\ pc' = [a \in Actor |-> IF a = Scheduler \/ pc[a] = "idle" THEN "idle" ELSE "done"]
  /\ task' = [a \in Actor |-> NoTask]
  /\ snap' = [a \in Actor |-> NothingRead]
  /\ UNCHANGED <<op, store, history, records>>

Call(c) ==
  \/ Read(c) \/ Refuse(c) \/ Write(c) \/ WritePlain(c) \/ Event(c) \/ BodyRaises(c)
  \/ Commit(c) \/ Failure(c) \/ OutcomeRefused(c)
  \/ ActivationIntent(c) \/ ActivationIntentFails(c) \/ Activate(c)
  \/ FilterRejects(c) \/ Route(c) \/ Send(c)
  \/ EndBatch(c)

Batch(a) ==
  \/ \E t \in Tasks : Expel(a, t) \/ ExpelFails(a, t) \/ HaltTask(a, t) \/ HaltConflict(a, t)
  \/ BatchEvent(a) \/ BatchEventFails(a)

Start(c) ==
  \/ \E o \in Ops, t \in Tasks : Begin(c, o, t) \/ BeginPlain(c, o, t)
  \/ \E t \in Tasks : Create(c, t)
  \/ \E o \in Ops, mine \in SUBSET Tasks : BeginBatch(c, o, mine)

Detector ==
  /\ \/ OrphanScan
     \/ \E c \in Calls :
          \/ Age(c) \/ OrphanCheck(c) \/ OrphanAppend(c)
          \/ Faults /\ OrphanAppendFails(c)
  /\ UNCHANGED <<store, control, history, records>>

Loop == Wake \/ NextScan \/ Sleep

Next ==
  \/ \E c \in Calls : Start(c) \/ Call(c)
  \/ \E a \in Actor : Batch(a)
  \/ Loop
  \/ \E t \in Tasks : Expire(t)
  \/ Detector
  \/ Crash

Spec == Init /\ [][Next]_vars

(***************************************************************************)
(* asyncio resumes every coroutine that is ready, the scheduler wakes at   *)
(* its interval, and the clock advances.  Nobody is obliged to make a      *)
(* call.                                                                   *)
(***************************************************************************)
Fairness ==
  /\ \A c \in Calls : WF_vars(Call(c))
  /\ \A a \in Actor : WF_vars(Batch(a))
  /\ WF_vars(Loop)
  /\ \A t \in Tasks : WF_vars(Expire(t))

FairSpec == Spec /\ Fairness

-----------------------------------------------------------------------------
(***************************************************************************)
(* No work without consent: a task is never accepted, in progress,         *)
(* reported, aggregated or completed unless its Cluster has accepted it,   *)
(* whatever stale read some other operation writes from and whatever runs  *)
(* out while nobody answers.                                               *)
(***************************************************************************)
ConsentBeforeWork ==
  \A t \in Tasks : status[t] \in PostConsent \cup {"completed"} => t \in consented

(***************************************************************************)
(* Nothing is settled that was not reported: a task is aggregated or       *)
(* completed only after its Cluster submitted a result.                    *)
(***************************************************************************)
SettledWasReported ==
  \A t \in Tasks :
    status[t] \in {"reported", "aggregated", "completed"} => t \in reported

(***************************************************************************)
(* A commit in the ledger tells the truth: the call that committed had     *)
(* saved its task (a problem report saves nothing) and its event is in the *)
(* ledger too, across lost updates, refused appends and restarts.          *)
(***************************************************************************)
CommitMeansRecorded ==
  \A c \in Calls :
    "commit" \in outcome[c] /\ op[c] # "activate" =>
      \E t \in Tasks : /\ <<c, t>> \in events
                       /\ op[c] = "problem" \/ <<c, t>> \in wrote

(***************************************************************************)
(* A task the halt has moved was active at that moment, and was nullified  *)
(* if and only if its Cluster had not consented: the category the halt     *)
(* computed from its list still applied (FR24, FR25, FR26).                *)
(***************************************************************************)
HaltMovesByConsent ==
  \A c \in Calls :
    op[c] = "system_halt" /\ pc[c] = "batch" /\ pc'[c] = "event" =>
      \A t \in Tasks : status'[t] # status[t] =>
        /\ status[t] \in Active
        /\ status'[t] = "nullified" <=> status[t] \in PreConsent

HaltRespectsConsent == [][HaltMovesByConsent]_vars

(***************************************************************************)
(* When the halt has worked through its list, every task still active is   *)
(* one it recorded as FAILED.                                              *)
(***************************************************************************)
HaltAccountsForAll ==
  \A c \in Calls :
    op[c] = "system_halt" /\ pc[c] = "batch" /\ Drained(c) =>
      \A t \in Tasks : status[t] \in Active => <<c, t>> \in failed

(***************************************************************************)
(* "All in-flight tasks transition": what the halt has moved has stayed    *)
(* where it put it when the halt has worked through its list.              *)
(***************************************************************************)
HaltStopsEveryTask ==
  [][\A c \in Calls :
       op[c] = "system_halt" /\ pc[c] = "batch" /\ pc'[c] = "done" =>
         \A t \in Tasks : <<c, t>> \in wrote => status[t] \in Terminal]_vars

(***************************************************************************)
(* A timeout moves only a task that is still in the status of the pass and *)
(* whose time has run out.                                                 *)
(***************************************************************************)
TimeoutsAreDue ==
  [][pc[Scheduler] = "batch" /\ pc'[Scheduler] = "event" =>
       \A t \in Tasks : status'[t] # status[t] =>
         t \in expired /\ status[t] = ScanStatus(op[Scheduler])]_vars

(***************************************************************************)
(* "Terminal states - no transitions out".                                 *)
(***************************************************************************)
TerminalIsFinal ==
  [][\A t \in Tasks : status[t] \in Terminal => status'[t] = status[t]]_vars

(***************************************************************************)
(* A task that waits on its Cluster does not wait for ever: the timeouts   *)
(* carry it out of routed, accepted and in_progress (FR8, FR9, FR10).      *)
(***************************************************************************)
EveryTaskSettles ==
  \A t \in Tasks :
    status[t] \in {"routed", "accepted", "in_progress"} ~>
      status[t] \in Terminal \cup {"reported", "aggregated"}

-----------------------------------------------------------------------------
(***************************************************************************)
(* The task store, seen alone, is the state machine of TaskFsm.            *)
(***************************************************************************)
Fsm == INSTANCE TaskFsm
ImplementsFsm == Fsm!Spec

(***************************************************************************)
(* The services use the emitter as TwoPhaseExecution does: one intent per  *)
(* call before anything is done, and the two-phase guarantees proved or    *)
(* checked there carry over.                                               *)
(***************************************************************************)
StageOf(c) ==
  IF c \notin intents THEN "new"
  ELSE IF pc[c] \in {"commit", "failing"} THEN pc[c]
  ELSE IF pc[c] = "done" THEN "closed" ELSE "open"

TwoPhase == INSTANCE TwoPhaseExecution WITH stage <- [c \in Calls |-> StageOf(c)]
ImplementsTwoPhase == TwoPhase!Spec
=============================================================================
