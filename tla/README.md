# Archon 72 in TLA+

Archon 72 is a governance system in Python (about 290,000 lines, hexagonal:
`src/domain`, `src/application/services`, `src/application/ports`,
`src/infrastructure/adapters`, `src/workers`, `scripts`, all under the
repository's `src/`). Its services are `asyncio` coroutines over ports: a task
store, a petition repository, an append-only ledger, a job table, Kafka topics.
There are few locks. What makes it hard is what happens between two `await`s:
a service reads a record, checks it, awaits something, and saves a record computed
from what it read.

These modules model the three parts that carry most of the system's promises:
the consent-governed life of a task, with the two-phase protocol by which every
consequential operation witnesses itself in the ledger; the life of a petition,
with the job queue that expires its referral; and the Conclave's votes, with
their validation inside the process or over Kafka.

## 1. Inventory

Paths are relative to the repository; `G/` is `src/application/services/governance/`.

### A. Two-phase event emission (modelled)
`G/two_phase_event_emitter.py`, `G/two_phase_execution.py`, `G/orphan_intent_detector.py`

- State: the ledger's intents and outcomes (durable); `_pending_intents`, a
  dictionary of the emitter's process (not durable, never rebuilt).
- Operations: `emit_intent` (append, then register), `emit_commit` and
  `emit_failure` (check the dictionary, append, delete), the context manager
  `TwoPhaseExecution`, and `scan_and_resolve_orphans`, which works through a
  snapshot of the intents older than a timeout.
- Hard: check and deletion are separated by an await; the detector runs beside
  the execution it may write off; a restart empties the dictionary; an append may
  raise, in an `__aexit__` that swallows the error of a failure and not of a commit.
- Correct when: an intent that is tracked has no outcome, an intent without
  outcome is tracked, an execution never leaves both verdicts, only an old intent
  becomes an orphan, and every intent in reach of the detector gets an outcome.

### B. The life of a task (modelled)
Domain `src/domain/governance/task/task_state.py`, `task_state_rules.py`; services
`G/task_activation_service.py`, `G/task_consent_service.py`,
`G/task_result_service.py`, `G/task_timeout_service.py`,
`G/halt_task_transition_service.py`, `G/obligation_release_service.py`; scripts
`run_result_submission.py`, `run_earl_settlement.py`, `run_ttl_enforcement.py`.

- State: one `TaskState` per task (status, `state_entered_at`, ttl) in a
  `TaskStatePort`, overwritten as a whole by `save_task`; the ledger; in each
  coroutine, the `TaskState` it read.
- Operations: create and activate (create, intent, save, Coercion Filter, save,
  send, outcome), route, accept, decline, halt, submit result, report a problem,
  start work, settle (accept, aggregate), the three timeout passes of the
  background scheduler, the system halt over all active tasks, the release of a
  Cluster's tasks when it exits.
- Interaction: all of them read and save the same store and append to the same
  ledger; the consent and result services and the activation wrap themselves in A.
- Hard: stale reads and lost updates; batches that work from a list; a save that
  succeeds and an event that fails; a halt during an activation; a timeout
  racing an answer; times with and without timezone.
- Correct when: nobody works without having consented, nothing is settled that
  was not reported, a commit in the ledger is true, the halt moves tasks by their
  consent and accounts for each, timeouts hit only what is due, statuses move
  along `VALID_TRANSITIONS`, and no task waits for ever.

### C. Petitions (modelled; the referral and the start of deliberation partly)
In `src/application/services/`: `petition_submission_service.py`,
`co_sign_submission_service.py`, `escalation_threshold_service.py`,
`auto_escalation_executor_service.py`, `archon_assignment_service.py`,
`acknowledgment_execution_service.py`, `referral_execution_service.py`,
`knight_concurrent_limit_service.py`, `extension_request_service.py`,
`recommendation_submission_service.py`, `referral_timeout_service.py`; the
repositories and stubs they write to.

- State: the petition's row (received, deliberating, then one of the fates), its
  deliberation session, acknowledgment, referral and co-signatures; the ledger.
- Operations: submit, withdraw, co-sign (which may escalate), assign archons,
  acknowledge, refer, assign a Knight, extend, recommend, expire.
- Hard: `assign_fate_transactional` compares and sets, emits, and rolls back with
  an unconditional `update_state`; acknowledgment, referral and the archons'
  assignment write with `update` after several awaits; the Knight's services and
  the timeout all write back a referral they read before computing a hash;
  escalation compares and sets from the state it read and gives up silently.
- Correct when: a petition gets one fate, the ledger agrees with it, one
  acknowledgment is published, the threshold leads to an escalation, a referral
  ends once, and its deadline is kept and answered.

### D. Conclave votes and their validation (modelled in part)
`src/workers/{validation_dispatcher,validator_worker,consensus_aggregator}.py`,
`src/application/services/{conclave_service,async_vote_validator,reconciliation_service,vote_override_service}.py`,
`scripts/run_conclave.py`

- State: the session (motions, votes, phase) with its checkpoint files; the jobs
  of the in-process validator; Kafka topics and committed offsets; the
  aggregator's `VoteAggregation` per vote, in memory; the reconciliation records.
- Operations: propose, second, debate, call, vote, tally, adjourn, resume; submit
  a job, deliberate, adjudicate, drain, override; dispatch, determine, aggregate,
  witness, publish, commit; register, await, fall back.
- Hard: at-least-once delivery to an aggregator that forgets; a produce that
  times out and arrives; a circuit breaker asked twice; a drain and a gate
  with a timeout; checkpoints that hold less than the process knows.
- Correct when: a published choice was determined by both secretaries, every
  response counts once, a tally waits for its votes, a result is the tally of its
  votes, and only validation changes a vote.

### E. Job queue (modelled)
`src/infrastructure/adapters/job_queue/postgres_job_scheduler.py`,
`src/application/services/job_queue/job_worker_service.py`

- State: the table `scheduled_jobs` and its dead letter queue; each worker's batch.
- Operations: schedule, cancel, poll, claim, execute, mark completed, mark failed.
- Hard: `get_pending_jobs` locks nothing; `mark_completed` is inside the `try` of
  the handler; a worker that stops leaves its job in processing.
- Correct when: a job is not run by two workers at once, is entered at most once
  per attempt, and is stranded only by a worker that stopped.

### F. Halt circuit, recovery, event writer, cessation (not modelled)
Three-channel halt propagation, recovery waiting period, the single event writer
with its chain, the one-way cessation. Correct when nothing is written while
halted or after cessation, and a halt once signalled is seen by everyone. What
tasks, petitions and job workers do with a halt is in their modules.

### G. Legitimacy, panels, Knight observer, exit, preservation, projections (not modelled)
Read-modify-write services over small ports. Legitimacy (automatic decay,
acknowledged restoration by one band) is worth a small module; the rest appends
or folds records without concurrent writers of their own.

### H. Motion pipeline, executive planning, HTTP and observer API, keys, metrics (not modelled)
Scripts driven by language models and files, one at a time, and input and output
around the services above.

## 2. Modules and how they correspond to the code

| module | models | role |
|---|---|---|
| `TaskRules` | domain layer: statuses, transitions, what each operation accepts and writes | constant operators |
| `TwoPhaseEmitter` | emitter, ledger of intents and outcomes, orphan detector | variables and actions, no `Next` of its own |
| `TwoPhaseExecution` | A as a caller sees it: the body of an execution is abstract | component, and abstract specification for B |
| `TaskFsm` | what the services promise of a status | abstract specification |
| `TaskService` | B, composed with `TwoPhaseEmitter` | component |
| `MCTwoPhase`, `MCTaskService` | instances for TLC | model values, symmetry |
| `TwoPhaseProofs`, `TaskServiceProofs`, `TaskRefinementProofs` | theorems | proofs |
| `JobQueue` | E | component of its own, with its own `Next`; abstract specification for C |
| `PetitionRules` | domain layer of petitions and referrals: states, matrix, what each operation accepts | constant operators |
| `PetitionSystem` | C, composed with `JobQueue` | component |
| `VoteRules` | choices, agreement of the secretaries, adjudication, two thirds | constant operators |
| `VoteAggregator` | the Kafka pipeline of D | component, with its own `PipelineNext` |
| `ConclaveVoting` | the session, in-process validation and gate of D, composed with `VoteAggregator` | component |
| `MCPetitions`, `MCVotes` | instances for TLC | families of initial states |
| `JobQueueProofs`, `PetitionProofs`, `PetitionFateProofs`, `PetitionReferralProofs`, `VotesProofs` | theorems | proofs |

### TwoPhaseEmitter and TwoPhaseExecution
A call and the correlation id of its intent are the same value. `outcome[c]` is
the set of outcomes in the ledger for `c`; "orphan" is a failure with the reason
ORPHAN_TIMEOUT. The check of `emit_commit` or `emit_failure` is the step that
enters stage "commit" or "failing" (`Succeed`, `Raise`, `OrphanCheck`), the append
and the deletion are a later step (`AppendCommit`, `AppendFailure`,
`OrphanAppend`); no await lies between an append and its deletion. `Age`
is the clock passing the timeout for an intent. A restart (`Crash`) keeps
the ledger, empties the dictionary and ends every execution; `lost` is a history
variable that remembers which entries it dropped.

### TaskService
An *actor* is a call of a service or the scheduler. `pc`, `op`, `task` and `snap`
are its program counter, operation, the task it is at, and the statuses it has
read and will compute from: one status for a call, a list for a batch. Every
await that something else can run in is a step boundary. A service call goes

    Begin (intent) -> Read -> Write -> Event -> Commit
                      |-> Refuse -> Failure
                      (Write or Event) |-> BodyRaises -> Failure

and `create_activation` goes `Create -> ActivationIntent -> Activate -> Route ->
Send -> Commit`, with `FilterRejects` on the way. Batches are `BeginBatch` (or
`Wake`, `NextScan` for the passes of the scheduler), then per task `Expel` or
`HaltTask` and `BatchEvent`, then `EndBatch` or `Sleep`.

- `save_task` overwrites: `SaveTask` sets the status whatever it is. The
  domain check (`TaskState.transition`) applies to the `TaskState` the caller
  holds, so it is a condition on `snap`, fulfilled at `Read`, never on `status`.
- The halt's `atomic_transition` compares and sets: `HaltTask` needs
  `status[t] = snap[c][t]`, `HaltConflict` records FAILED otherwise.
- `RemoteStore` tells the two stores apart. The in-memory store never
  suspends, so a coroutine about to use it keeps the event loop: `CanRun` forbids
  anyone else to step between a read and the save that follows. A database store
  suspends, may raise, and survives a restart.
- Durations are one bit per task, `expired`: the limit of the present status has
  passed. `Expire` sets it, any save clears it (the limits run from `state_entered_at`).
- `naive` holds the tasks whose `state_entered_at` has no timezone:
  `TaskActivationService` stamps it with `datetime.utcnow()`, and the in-memory
  store keeps it so. The comparison with an aware `now()` in the ttl pass then raises
  at that task and ends the pass; how many tasks come first in the list is open
  (`Reached`).
- `consented`, `reported`, `wrote` and `events` are history or ledger: who
  accepted, who submitted, which call saved and appended what.

Which store methods exist where: nothing in the repository implements `transition_task`,
`atomic_transition` and `get_tasks_for_cluster`, which the exit and the halt call.
They are modelled from their ports' contracts: the first takes only a target and
so overwrites, the second is documented as a compare-and-set. The
scheduler, the halt and the exit are not started by any script; the model
starts them where a run says so.

### JobQueue
One action is one SQL transaction or one step of a worker between two awaits:
`Poll` reads a batch, locks nothing and is the only place that asks for the halt;
`Claim` is the conditional update, `SkipClaimed` its failure; the handler returns
or raises; `MarkCompleted`, `MarkFailed` follow, and `MarkCompletedRaises` is the
path on which an executed job counts as failed. `StopWorker` ends a loop anywhere.
A row past its attempts is "dead"; `runs` counts entries into the handler (history).

### PetitionSystem
An *actor* is a request in flight or a worker inside `process_timeout`. `op`,
`pet`, `pc` are its operation, its petition and its next step; `seen` and
`seenRef` the petition state and the referral it has read and will write from.
The deadline job of a petition carries the petition's name, so
`TimeoutClaim` is `JobQueue`'s `Claim` with the handler entered, and the end of
the handler is `HandlerReturns` or `HandlerRaises`. An acknowledgment
(`AckFind`, `AckSave`, `AckWrite`, `AckEvent`) is shared by the three operations
that call the service: the Marquis' request, a recommendation, the timeout.

- `Swaps` is `assign_fate_cas`. Every other write is unconditional: `Write` and
  `WriteReferral` store what the actor computed and note in `stale` and `refStale`
  when what they overwrite is not what it had read. The code really loses the
  other write then; the properties that cannot survive it say so by name.
- `fates` and `announced` are history: who gave which fate that stands, and which
  of them have an event. `dropped` holds the steps at which an operation was
  given up, by a fault or by the executor of an escalation.
- `saveReplaces` is which referral storage there is. The only one in the
  repository, the stub, refuses a second `save` for a petition, so with it
  `process_timeout` raises until its job is dead; the storage the tests assume replaces.
- `overlap` says whether operations run side by side or one after another.

Where the repository has no implementation, the ports decide: the
acknowledgment and archon services call `get_by_id` and `update`, which no
petition repository defines; nothing registers a handler for the deadline job
(`handled` may hold it or not); no service calls `with_in_review`, so `Review` is
a step of the environment. An extension reschedules nothing, because it cancels a
job under a name no job has and passes arguments `schedule` does not take; both
errors are logged. The escalation event is built and never written.

### VoteAggregator
Topics are per-vote logs with offsets (`results`/`rpos`, `asked`/`wpos`,
`events`/`epos`, `finals`). Processing a message and committing it are two steps
(`inflight`, `CommitMessage`); `AggregatorCrashes` between them delivers it again
to an empty `agg`, since `reconstruct_state` rebuilds nothing. A produce is
delivered, refused, or times out and arrives all the same (`Produces`). The workers
log a failed produce and commit (`DetermineFails`, `WitnessFails`). Both
secretaries read one consumer group and the dispatcher sets no role, so
`Determine` lets either answer a request. `Redispatch` is the caller of a second
attempt that the source does not have (external).

### ConclaveVoting
`mode` is the configured way of validation. *In process*: `CastParsed` collects
payloads, `SubmitBatch` starts jobs and the motion is tallied as parsed;
`DeliberatorReturns` and `Adjudicate` are the jobs, `BeginDrain` and
`FinishAdjourn` are `adjourn()` with its overrides. *Kafka*: `CastDispatched`
records ABSTAIN and registers the vote (`track`), `CastFallsBack` and `CastSync`
are its ways out, `TallyGated` is `await_all_validations` with overrides,
`TallyUngated` the tally past an open breaker. *Direct*: neither. `saved` is the
last checkpoint; `Ends` is what the end of a process leaves of memory, and
`Resume` is `--resume`. `Mark` is the consumer of final messages that should call
`mark_validated` and `mark_dlq`, which nothing in the source does (external).
`ungated`, `submitted` and `lost` are history. `LagReports` follows
`_get_consumer_lag`: no provider, or one that fails, counts as no lag.

## 3. Runs

| run | instance | shows |
|---|---|---|
| `two_phase` | 3 executions, all may age, refused appends, restarts (32,805 states) | the emitter's safety, and `TrackedIsResolved`: each intent gets an outcome or was lost in a restart |
| `two_phase_restart` | 1 execution, finding | "No intent remains unresolved indefinitely" fails after a restart |
| `two_phase_double` | 1 execution, finding | one intent with a commit and an ORPHAN_TIMEOUT failure |
| `tasks_inmemory` | 3 overlapping calls, 2 tasks, in-memory store (49,439) | statuses follow the state machine because read, check and save are one step there; the halt accounts for every task |
| `tasks_remote` | 2 overlapping calls and the scheduler, 1 task, database store, faults, restarts, an ageing intent (963,225) | consent, reports, commits and the halt's category survive lost updates; the services refine `TwoPhaseExecution` |
| `tasks_serial` | every operation, 2 calls one after another, 2 tasks, faults (331,821) | failures at any point between steps leave only legal transitions; timeouts are due |
| `tasks_live` | 2 calls, 2 tasks, scheduler, database store, fairness (179,564) | every waiting task settles, and silence is never consent |
| `tasks_naive` | 1 activation, in-memory store, finding | a task activated there waits for ever |
| `tasks_stale_scan` | 2 tasks, the scheduler and declines, finding | a declined task comes back to life |
| `tasks_halt_race` | an activation and a halt, finding | a halt that reports success, a task on its way to its Cluster |
| `petitions` | one petition at any stage with its deadline job, a second job; two requests and a worker, or two workers; one fault (879,020) | fates, acknowledgments, referrals, deadlines and jobs, `FateFinal` without overlap, and `DeadlineAnswered` |
| `votes` | two motions, two archons, each mode, one fault (834,557) | the pipeline, the gate, results and overrides, and `ValidationAnswers` |

**Bounds and why they are enough.** Two calls on one task already show every
pairwise interleaving of the operations, and the scheduler is a third actor
beside them. Two tasks are needed where a batch matters: its list has something
left while another actor runs. Three calls appear where calls are cheap (in
memory) and for the emitter, whose scan may hold two intents while a third
finishes. Each call is made once: a Cluster that tries again is another call.
`tasks_remote` has one task because it has everything else at once;
`tasks_serial` and `tasks_live` carry the second task.
`InitStatus` holds the statuses from which the operations of the run start, as
loaded from a manifest; "none" is a task still to be created. Nothing in
the models of tasks counts, so there is no other bound there. Symmetry is used in the safety runs
`tasks_inmemory` and `tasks_serial` and not with liveness. Deadlock is not checked: calls end, and a
system without calls has nothing left to do.

`petitions`: `MaxAttempts = 2` stands for the code's 3: one retry, then the dead
letter queue. `Threshold = 2` with two signers, so that the request that reaches
it may race with the one before; `BatchSize = 2` so that a batch holds a job
another worker may claim first. Two requests over every operation are every pair,
each beside the deadline; the second family has the workers compete instead.
`MaxFaults = 1` keeps liveness within reach; without the liveness properties the
same instance was also checked with two faults (2.3 million states).

`votes`: `MaxAttempt = 2` and `MaxRetries = 1` (default 3) give one retry and one
dead letter; only the votes of one archon are retried. Two motions are needed
because the reconciliation records outlive a motion, two archons because a tally
with one cannot tell an override from a replacement. The families (two votes of
one motion, or one of each of two) keep the pipeline, which has a log per vote,
small. `Readings` is aye and nay: abstain comes from failures and placeholders.
Votes are collected one after another (`voting_concurrency = 1`).

**Fairness.** In `TwoPhaseExecution`: a body ends, the event loop runs every
ready coroutine, the clock advances, the detector is called periodically (its
documentation makes that the operator's duty), and a ledger that is asked again and again takes
an orphan's failure some time (strong fairness on `OrphanAppend`, the only strong
fairness assumed: without it "resolved by a later scan" means nothing). In
`TaskService`: weak fairness of each call, each batch, the scheduler's loop and
the clock. No fairness makes anyone start a call, accept or report.
In `PetitionSystem`: weak fairness of each worker's loop and of each request once
made; nobody must call, start a worker or let a deadline pass. In
`ConclaveVoting`: weak fairness of the event loop that runs the jobs, and of the
aggregator's and the witness' loops; no archon, secretary or script must act.

**What is not claimed.** `HaltAccountsForAll` is checked and proved where no
activation is in flight together with a halt, since `create_activation` never asks
whether a halt is in force and such a task is in nobody's list. `EveryTaskSettles` assumes
no faults and no naive times: `tasks_naive` shows what the latter do. `ImplementsFsm`
holds one call at a time over either store, and over the in-memory store as long as
neither the scheduler nor an exit or activation overlaps; `TimeoutsAreDue` one call
at a time (section 5 proves each under these conditions). Otherwise both fail:
`tasks_stale_scan` shows it even in memory, since a batch awaits the ledger between two tasks.
`SingleFate`, `OneOutcome` and `ExpiryAcknowledges` ask nothing of a petition or
referral after a stale write, and `FateFinal` asks only where calls do not
overlap: with overlap the code loses fates. `DeadlineAnswered` is about a job
with a registered handler. `ValidationKept` excuses what a restart forgot, and
`GateHolds` the tally past an open breaker; both exceptions are the code's.

## 4. Findings

1. *Restart*: `_pending_intents` is never rebuilt, so an intent in the ledger can
   stay without outcome for ever (`two_phase_restart`).
2. *Two outcomes*: both parties pass the check before either deletes
   (`two_phase_double`).
3. *Stale list*: a timeout pass saves a task from its list over what happened to it
   during an await of the ledger (`tasks_stale_scan`).
4. *Halt race*: an activation in flight overwrites the halt's nullification
   (`tasks_halt_race`).
5. *Naive time*: a `TypeError` ends the ttl pass at the first task activated over
   the in-memory store, in every round (`tasks_naive`). The same comparison is made in a query of
   `task_activation_service.py`, which is not modelled.

Seen while modelling petitions and votes, each visible in the models but not the
subject of a run of its own:

- Nothing registers a handler for the deadline job, and the only referral storage
  of the repository refuses what `process_timeout` saves: as the source stands, no
  referral expires; its job ends in the dead letter queue.
- A handler that fails after saving EXPIRED finds the referral expired when it is
  retried and returns: the petition stays REFERRED (`dropped` in `ExpiryAcknowledges`).
- A referral whose petition update or job failed is returned as done by later
  calls, without a deadline (`dropped` in `DeadlineKept`). A co-signature may be
  recorded on a petition that got its fate after the check.
- No caller of `mark_validated`, `mark_dlq` or of a second attempt exists: over
  Kafka every gate runs into its timeout, and a disagreement stays RETRY_PENDING.
  `run_conclave.py` uses only the in-process validator (`enable_async_validation`
  is False at line 340).
- A second attempt's first response is compared with the other secretary's first
  attempt (`Latest`), and a witness' verdict decides nothing.
- Checkpoints hold pending jobs only: overrides of finished ones are lost in a
  restart (`lost`). A motion interrupted while voting stays "voting" after resume.
- Reconciliation records are per session and applied per archon: the choice
  validated for an earlier motion overrides the vote on a later one (`Overrides`).

## 5. Proofs

`TwoPhaseProofs` (any number of executions, with or without faults and restarts).
`PendingIsUnresolved` is not inductive: the step that
appends an outcome could leave another actor about to append a second and keep the
entry. The strengthening `Inv` adds that what the emitter and the detector hold
are intents of the ledger (`IntentsAreEntered`), that the detector holds only aged
ones (`DetectorHoldsAged`, for `VerdictsAgree`), and that an execution whose own
verdict is in the ledger is over (`VerdictEndsExecution`, without which it could
append the other one). `OneOutcome`, which `two_phase_double` refutes, is proved
exactly as far as it is true: for every intent that has not aged
(`OneOutcomeUnlessAged`), so for all where nothing outlives the timeout
(`OneOutcomeWithoutAging`).

`TaskServiceProofs` (any number of calls and tasks, either store, with or without
overlap, faults, restarts, scheduler), in three layers:

- `Control`: an actor that works on a task holds one (`TaskHeld`), stands only
  where its operation leads (`OpFits`), and has read a status its operation goes
  ahead from (`SnapFits`). Gives `TypeCorrect`: the type of `status` depends on it,
  since a save writes `Target(op, snap)`.
- `Consent`: the two safety properties and what makes them inductive over lost
  updates, `SnapTold`: what an actor *has read* is as truthful as the store was.
  Since consent and reports are never withdrawn, a stale read still speaks of a
  task that had consented. Gives `NoWorkWithoutConsent` and
  `NoSettlementWithoutReport`.
- `Backed`: a call about to commit has its event in the ledger and its save done,
  one about to append its event has its save done. Gives `CommitsTellTheTruth`.

`HaltKeepsToConsent` is an action property: in the one step by which a halt
moves a task, the compare-and-set makes the category of the list that of the store.

`TaskRefinementProofs` relates `TaskService` to its two abstract specifications
and proves what the halt and the timeouts promise.

- `ServicesImplementTwoPhase`: `TaskService` implements `TwoPhaseExecution`
  under the mapping of `StageOf`, action by action, with `IntentsFit`: a call has an
  intent exactly when its operation is two-phase and it is past `__aenter__`.
  `ServicesKeepTheGuarantees` then instantiates `TwoPhaseProofs` with the same mapping
  and carries its theorems over to the services.
- `StepFollows`: a step moves statuses along `TaskFsm` whenever each actor that is
  about to save has read the status that is stored (`Current`). The code does not
  make it so in general. The two ways in which it is so are two invariants.
- `InTurn` (`~Overlap`, either store): whoever is in the middle of an operation is
  alone, so what it has read is current, its list holds every active task it has
  not dealt with (`Accounted`), and what it has moved has stayed (`Stopped`). It gives
  `ImplementsFsm`, `TerminalIsFinal`, `HaltAccountsForAll`, `HaltStopsEveryTask`
  and `TimeoutsAreDue`, with every operation, faults and restarts.
- `OneAtStore` (in memory, no scheduler, no activation, calls overlap): whoever
  stands between its read and its save is the only one there. A halt does await
  between two tasks and others run then; `Accounted` and `Stopped` survive since no
  operation left makes an inactive task active again, and the compare-and-set records what moved.
  It gives `HaltAccountsForAll` and `HaltStopsEveryTask`; without exits also
  `ImplementsFsm` and `TerminalIsFinal`, since an exit saves from a list that ages.

The hypotheses are those under which the properties are true:
`tasks_stale_scan` refutes `TerminalIsFinal` with overlap and the scheduler, and
`tasks_halt_race` refutes `HaltStopsEveryTask` with an activation beside the halt.

`JobQueueProofs` (any number of jobs and workers). `OneExecution` alone is not
inductive: a claim must know that a pending row is in nobody's hands. The
invariant adds `HeldByItsWorker` and what a worker holds at each of its steps;
`RunsBounded` needs them too. The lemmas are stated about single actions of the
queue, so that `PetitionProofs` can cite them.

`PetitionProofs` proves `UsesTheQueue`, that `PetitionSystem` implements
`QueueSpec` under the identity on the queue's variables, and from it the queue's
invariants and types for petitions. `PetitionFateProofs` shows
`SingleFate`, `FateWitnessed` and `OneAcknowledgment` together: what an actor at
each step has decided and announced, and that `ack` names at most one actor past
`ack_save`, is what makes them inductive. `FatesFinal` and `StaleOnlyByOverlap` need
another invariant, `Undisturbed`: without overlap one actor at a time is busy, what
it has read still stands, and nothing was written over unseen. `PetitionReferralProofs` does the same
for `OneOutcome`, `DeadlineKept`, `ExpiryAcknowledges` and `ThresholdNotMissed`,
tying each step of a timeout or a recommendation to the referral and the job.
`ExactWithoutOverlap` puts both together: without overlap the exceptions for stale
writes fall away, so those exceptions hide no other way to lose a fate.

`VotesProofs` (any number of motions, archons, attempts and faults, each mode).
`PipelineInv` ties the aggregator's memory to the logs: a remembered reply is in
the topic, a choice awaiting its witness was determined by both, retries count
remembered responses. The converse, that what is in the topic is remembered, is false
after a restart of the aggregator; `BothHeardIsDecided` proves it for as long as
there was no fault: every committed result is remembered or its vote closed
(`Remembered`), so a vote both secretaries have answered is decided.
`SessionInv` adds what the session needs: payloads are fresh (`PayloadFresh`),
jobs are of recorded votes (`JobsKnown`), verdicts follow from what was heard
(`VerdictsSound`), a validated record from a final message (`TrackSound`), and
motions are taken in order, without which a second vote on a decided motion would
break `GateHolds`.

The assumptions are `AgingAssumption`, `FaultsAssumption`, `TaskServiceAssumption`,
`QueueAssumption`, `PetitionAssumption`, `VoteAssumption`, `AggregatorAssumption`
and `SessionAssumption` (the constants are what their comments say); TLC evaluates
them on every run of their component.

Only model-checked: the liveness properties `TrackedIsResolved`,
`EveryTaskSettles`, `DeadlineAnswered` and `ValidationAnswers`, which need fairness
and so `ENABLED`, out of reach of the prover. Every safety and action property of
a passing run is the subject of a theorem, some under the conditions named above.

## 6. Not modelled

Components F to H above: either their state has one writer at a time (projections,
the motion pipeline, planning), or they are input and output (HTTP, metrics,
keys), or they come next in the plan.

Within A and B: the payloads and hashes of events, field
validation, read-only queries, the identity of Clusters (a call of the wrong
Cluster is `Refuse`), `_cancel_pending_requests` (its port has no implementation),
`settle_escalate`, the limit of 100 tasks per list, and the printing and files of
the scripts. In the exit, which tasks belong to the Cluster is any set of tasks.

Within C and E: content, realms, duplicates, rate limits and identities, which
refuse before anything changes; the deliberation itself (its phases and the votes
of the Fates); the King's adoption and acknowledgment; the capacity of a Knight
and the deferral of an assignment; heartbeats and the queries of the dead letter
queue. The halt is asked for only where the code does: submission, withdrawal,
co-signing, the executor and the poll.

Within D: the content of the debate (speeches, red team, stances, digests),
quorum, agenda and transcripts; `ValidatorWorker` and the result path of the older
protocol; the audit topics and the witness statements; the tally invariant check;
concurrent casting; the write-back of results to the motion queue in
`run_conclave.py`, which uses the result from before validation.

## 7. Plan

Done: the task services with their two-phase emission, the petition system with
its job queue, and the Conclave's votes with both ways of validation. Next:

1. `HaltCircuit`: the channels of the halt, recovery and its waiting period, and
   the window between a service's check and its write; then petitions and tasks
   over it instead of over one bit.
2. `EventWriter`: the single writer with its chain, halt check and witnesses;
   what the atomic writer promises under a failing append.
3. `Legitimacy`: decay and restoration over read-modify-write.
4. Of what exists: `ImplementsFsm` in memory with exits excluded task by task
   instead of as a whole; the King's operations and the deliberation in
   `PetitionSystem`; concurrent casting in `ConclaveVoting`.
