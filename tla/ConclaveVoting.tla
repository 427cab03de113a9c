--------------------------- MODULE ConclaveVoting ---------------------------
(***************************************************************************)
(* The Conclave session: ConclaveService and scripts/run_conclave.py take  *)
(* motions to a vote, AsyncVoteValidator or the Kafka pipeline validates   *)
(* the votes, and the validated choices override the recorded ones.        *)
(*                                                                         *)
(* The way of validation ("mode") is configuration:                        *)
(*   inprocess  the votes of a motion are tallied as parsed and validated  *)
(*              in the background; adjourn() drains the jobs and overrides *)
(*   kafka      each vote is dispatched and recorded as ABSTAIN; the gate  *)
(*              of ReconciliationService holds the tally                   *)
(*   direct     the recorded choice is the last word (synchronous          *)
(*              consensus, or skip_async_validation_batch)                 *)
(*                                                                         *)
(* The session survives its process in checkpoints; the jobs' results and  *)
(* the reconciliation records do not.                                      *)
(***************************************************************************)
EXTENDS VoteAggregator

CONSTANTS
  Modes         \* ways of validation that are configured

ASSUME SessionAssumption == Modes \subseteq {"inprocess", "kafka", "direct"}

NoMotion == 0

VARIABLES
  mode,       \* configuration
  present,    \* present_participants, fixed by the roll call
  phase,      \* where the session is; "down" when its process has ended
  current,    \* the motion the script is at
  mstatus,    \* mstatus[m]: status of motion m
  votes,      \* votes[m][a]: recorded choice
  payload,    \* votes collected for the validation batch, not submitted
  job,        \* job[v]: AsyncVoteValidator's job for v
  heard,      \* heard[v]: what its deliberators returned
  verdict,    \* verdict[v]: the final vote of a finished job
  saved,      \* the last checkpoint
  track,      \* track[v]: ReconciliationService's record of v
  validated,  \* validated[v]: its validated_choice
  mpos,       \* mpos[v]: final messages passed on to the reconciliation
  breaker,    \* the dispatcher's circuit breaker is open
  ungated,    \* motions tallied past an open breaker (history)
  submitted,  \* standing votes that have had a job (history)
  lost        \* those of them whose finished job a restart forgot (history)

motionVars == <<current, mstatus, votes, payload>>
jobVars    == <<job, heard, verdict>>
trackVars  == <<track, validated, mpos, breaker>>
history    == <<ungated, submitted, lost>>
vars == <<aggVars, mode, present, phase, motionVars, jobVars, saved, trackVars, history>>

Deliberators == Roles \cup {"witness"}
Decided == {"passed", "failed"}
MotionStatus == {"none", "proposed", "seconded", "debating", "called", "voting"} \cup Decided
NotHeard == [d \in Deliberators |-> "unread"]
Empty == [m \in Motions |-> [a \in Archons |-> NoChoice]]

Checkpoints == [mstatus : [Motions -> MotionStatus],
                votes : [Motions -> [Archons -> Choices \cup {NoChoice}]],
                pending : SUBSET VoteIds]

SessionTypeOK ==
  /\ mode \in Modes
  /\ present \in SUBSET Archons
  /\ phase \in {"open", "draining", "adjourned", "down"}
  /\ current \in Motions \cup {NoMotion}
  /\ mstatus \in [Motions -> MotionStatus]
  /\ votes \in [Motions -> [Archons -> Choices \cup {NoChoice}]]
  /\ payload \in SUBSET VoteIds
  /\ job \in [VoteIds -> {"none", "running", "done"}]
  /\ heard \in [VoteIds -> [Deliberators -> Readings \cup {"unread", "observed", NoChoice}]]
  /\ verdict \in [VoteIds -> Choices \cup {NoChoice}]
  /\ saved \in Checkpoints
  /\ track \in [VoteIds -> {"none", "pending", "validated", "dlq", "fallback"}]
  /\ validated \in [VoteIds -> Choices \cup {NoChoice}]
  /\ mpos \in [VoteIds -> Nat]
  /\ breaker \in BOOLEAN
  /\ ungated \in SUBSET Motions
  /\ submitted \in SUBSET VoteIds
  /\ lost \in SUBSET VoteIds

VotesTypeOK == AggregatorTypeOK /\ SessionTypeOK

\* A session that was loaded may hold motions that found no second.
Init ==
  /\ AggregatorInit
  /\ mode \in Modes
  /\ present \in SUBSET Archons
  /\ phase = "open"
  /\ current = NoMotion
  /\ mstatus \in [Motions -> {"none", "proposed"}]
  /\ votes = Empty
  /\ payload = {}
  /\ job = [v \in VoteIds |-> "none"]
  /\ heard = [v \in VoteIds |-> NotHeard]
  /\ verdict = [v \in VoteIds |-> NoChoice]
  /\ saved = [mstatus |-> mstatus, votes |-> Empty, pending |-> {}]
  /\ track = [v \in VoteIds |-> "none"]
  /\ validated = [v \in VoteIds |-> NoChoice]
  /\ mpos = [v \in VoteIds |-> 0]
  /\ breaker = FALSE
  /\ ungated = {} /\ submitted = {} /\ lost = {}

Running == {v \in VoteIds : job[v] = "running"}

\* The votes that are recorded in vs.
Standing(vs) == {v \in VoteIds : vs[v[1]][v[2]] # NoChoice}

\* save_checkpoint: motions, votes and pending jobs; nothing of finished jobs.
Snapshot(ms, vs) == [mstatus |-> ms, votes |-> vs, pending |-> Running]

-----------------------------------------------------------------------------
(***************************************************************************)
(* The way of a motion to its vote.                                        *)
(***************************************************************************)

ProposeMotion(m) ==
  /\ phase = "open" /\ current = NoMotion
  /\ mstatus[m] = "none"
  /\ \A x \in Motions : x < m => mstatus[x] # "none"
  /\ mstatus' = [mstatus EXCEPT ![m] = "proposed"]
  /\ current' = m
  /\ UNCHANGED <<aggVars, mode, present, phase, votes, payload, jobVars, saved, trackVars, history>>

SecondMotion(m) ==
  /\ phase = "open" /\ current = m
  /\ mstatus[m] = "proposed"
  /\ mstatus' = [mstatus EXCEPT ![m] = "seconded"]
  /\ UNCHANGED <<aggVars, mode, present, phase, current, votes, payload, jobVars, saved, trackVars, history>>

\* seek_second: every King declined, the script goes on to the next motion.
NoSecond(m) ==
  /\ phase = "open" /\ current = m
  /\ mstatus[m] = "proposed"
  /\ current' = NoMotion
  /\ UNCHANGED <<aggVars, mode, present, phase, mstatus, votes, payload, jobVars, saved, trackVars, history>>

\* A round of debate ends in a checkpoint; the first one begins the debate.
DebateRound(m) ==
  /\ phase = "open" /\ current = m
  /\ mstatus[m] \in {"seconded", "debating"}
  /\ mstatus' = [mstatus EXCEPT ![m] = "debating"]
  /\ saved' = Snapshot(mstatus', votes)
  /\ UNCHANGED <<aggVars, mode, present, phase, current, votes, payload, jobVars, trackVars, history>>

CallQuestion(m) ==
  /\ phase = "open" /\ current = m
  /\ mstatus[m] = "debating"
  /\ mstatus' = [mstatus EXCEPT ![m] = "called"]
  /\ UNCHANGED <<aggVars, mode, present, phase, current, votes, payload, jobVars, saved, trackVars, history>>

BeginVoting(m) ==
  /\ phase = "open" /\ current = m
  /\ mstatus[m] = "called"
  /\ mstatus' = [mstatus EXCEPT ![m] = "voting"]
  /\ UNCHANGED <<aggVars, mode, present, phase, current, votes, payload, jobVars, saved, trackVars, history>>

-----------------------------------------------------------------------------
(***************************************************************************)
(* Collecting votes (voting_concurrency = 1: each is cast as it comes).    *)
(***************************************************************************)

Awaited(m, a) ==
  /\ phase = "open" /\ current = m
  /\ mstatus[m] = "voting"
  /\ a \in present /\ votes[m][a] = NoChoice

Recorded(m, a, c) == votes' = [votes EXCEPT ![m][a] = c]

\* The parsed choice is recorded; in-process validation also keeps the payload.
CastParsed(m, a) ==
  /\ Awaited(m, a) /\ mode # "kafka"
  /\ \E c \in Readings : Recorded(m, a, c)
  /\ payload' = IF mode = "inprocess" THEN payload \cup {<<m, a>>} ELSE payload
  /\ UNCHANGED <<aggVars, mode, present, phase, current, mstatus, jobVars, saved, trackVars, history>>

\* The archon's invocation failed: an abstention that nobody validates.
CastFailed(m, a) ==
  /\ Awaited(m, a)
  /\ Fault
  /\ Recorded(m, a, "abstain")
  /\ UNCHANGED <<topics, offsets, agg, inflight, mode, present, phase, current, mstatus, payload,
                 jobVars, saved, trackVars, history>>

\* _handle_async_vote: dispatched to every validator, registered as pending.
CastDispatched(m, a) ==
  /\ Awaited(m, a) /\ mode = "kafka" /\ ~breaker
  /\ Dispatch(<<m, a>>, 1, Validators)
  /\ track' = [track EXCEPT ![<<m, a>>] = "pending"]
  /\ Recorded(m, a, "abstain")
  /\ UNCHANGED <<answered, results, asked, events, finals, offsets, agg, inflight, faults,
                 mode, present, phase, current, mstatus, payload, jobVars, saved,
                 validated, mpos, breaker, history>>

(***************************************************************************)
(* Some produce failed: the vote falls back to synchronous consensus (or   *)
(* abstention) and is not registered, but the requests that did go out     *)
(* stay out (a flush that timed out tells nobody).  The failures may open  *)
(* the breaker.                                                            *)
(***************************************************************************)
CastFallsBack(m, a) ==
  /\ Awaited(m, a) /\ mode = "kafka" /\ ~breaker
  /\ Fault
  /\ \E to \in SUBSET Validators : Dispatch(<<m, a>>, 1, to)
  /\ \E c \in Readings \cup {"abstain"} : Recorded(m, a, c)
  /\ breaker' \in BOOLEAN
  /\ UNCHANGED <<answered, results, asked, events, finals, offsets, agg, inflight,
                 mode, present, phase, current, mstatus, payload, jobVars, saved,
                 track, validated, mpos, history>>

\* _should_use_async_validation says no: synchronous consensus or abstention.
CastSync(m, a) ==
  /\ Awaited(m, a) /\ mode = "kafka" /\ breaker
  /\ \E c \in Readings \cup {"abstain"} : Recorded(m, a, c)
  /\ UNCHANGED <<aggVars, mode, present, phase, current, mstatus, payload, jobVars, saved, trackVars, history>>

BreakerCloses ==
  /\ breaker
  /\ breaker' = FALSE
  /\ UNCHANGED <<aggVars, mode, present, phase, motionVars, jobVars, saved, track, validated, mpos, history>>

AllCast(m) ==
  /\ phase = "open" /\ current = m
  /\ mstatus[m] = "voting"
  /\ \A a \in present : votes[m][a] # NoChoice

\* Phase 2 of conduct_vote: a job for every payload.
SubmitBatch(m) ==
  /\ AllCast(m)
  /\ payload # {}
  /\ job' = [v \in VoteIds |-> IF v \in payload THEN "running" ELSE job[v]]
  /\ submitted' = submitted \cup payload
  /\ payload' = {}
  /\ UNCHANGED <<aggVars, mode, present, phase, current, mstatus, votes, heard, verdict, saved,
                 trackVars, ungated, lost>>

\* The tally, its checkpoint, and back to the script.
Concludes(m, ballot) ==
  /\ votes' = [votes EXCEPT ![m] = ballot]
  /\ mstatus' = [mstatus EXCEPT ![m] = Tally(ballot)]
  /\ saved' = Snapshot(mstatus', votes')
  /\ current' = NoMotion

TallyParsed(m) ==
  /\ AllCast(m)
  /\ payload = {} /\ mode # "kafka"
  /\ Concludes(m, votes[m])
  /\ UNCHANGED <<aggVars, mode, present, phase, payload, jobVars, trackVars, history>>

-----------------------------------------------------------------------------
(***************************************************************************)
(* The reconciliation gate of the Kafka mode.  Nothing in the source calls *)
(* mark_validated and mark_dlq: Mark stands for the consumer of the final  *)
(* messages the gate needs (external).                                     *)
(***************************************************************************)
Mark(v) ==
  /\ phase # "down"
  /\ mpos[v] < Len(finals[v])
  /\ mpos' = [mpos EXCEPT ![v] = @ + 1]
  /\ LET x == finals[v][mpos[v] + 1] IN
     IF track[v] = "none" THEN UNCHANGED <<track, validated>>
     ELSE /\ track' = [track EXCEPT ![v] = IF x = Dead THEN "dlq" ELSE "validated"]
          /\ validated' = IF x = Dead THEN validated ELSE [validated EXCEPT ![v] = x]
  /\ UNCHANGED <<aggVars, mode, present, phase, motionVars, jobVars, saved, breaker, history>>

\* Consumer lag on the topic of results.
Lag == \E v \in VoteIds : rpos[v] < Len(results[v])

\* _get_consumer_lag: no lag without a provider, -1 when the provider fails.
LagReports == {Lag, FALSE}

\* Mutant: the gate asks for the consumer lag only.
GateOpensOnLag(lag) == ~lag

\* await_all_validations: no vote of the session pending, no lag reported.
GateOpens(lag) == ~lag /\ \A v \in VoteIds : track[v] # "pending"

(***************************************************************************)
(* What the gate has for archon a: the validated choices that differ from  *)
(* the placeholder ABSTAIN, of every vote of the session.  The records are *)
(* kept by session and applied by archon, so those of earlier motions      *)
(* count too, in the order of a set.                                       *)
(***************************************************************************)
Overrides(a) == {validated[v] : v \in {x \in VoteIds : x[2] = a /\ track[x] = "validated"}}
                  \ {"abstain"}

\* The gate opens: dead letters fall back, overrides are applied, the tally follows.
TallyGated(m) ==
  /\ AllCast(m)
  /\ mode = "kafka" /\ ~breaker
  /\ \E lag \in LagReports : GateOpens(lag)
  /\ track' = [v \in VoteIds |-> IF track[v] = "dlq" THEN "fallback" ELSE track[v]]
  /\ \E ballot \in [Archons -> Choices \cup {NoChoice}] :
       /\ \A a \in Archons :
            IF Overrides(a) = {} \/ a \notin present THEN ballot[a] = votes[m][a] ELSE ballot[a] \in Overrides(a)
       /\ Concludes(m, ballot)
  /\ UNCHANGED <<aggVars, mode, present, phase, payload, jobVars, validated, mpos, breaker, history>>

\* The breaker is asked again before the gate: when it is open there is no gate.
TallyUngated(m) ==
  /\ AllCast(m)
  /\ mode = "kafka" /\ breaker
  /\ Concludes(m, votes[m])
  /\ ungated' = ungated \cup {m}
  /\ UNCHANGED <<aggVars, mode, present, phase, payload, jobVars, trackVars, submitted, lost>>

-----------------------------------------------------------------------------
(***************************************************************************)
(* AsyncVoteValidator: three deliberators per job, then the adjudication.  *)
(***************************************************************************)

\* What the witness says decides nothing.
Outcomes(d) == IF d = "witness" THEN {"observed"} ELSE Readings

\* _run_deliberator: a choice, or none (unparsed, or every attempt failed).
DeliberatorReturns(v, d) ==
  /\ phase # "down"
  /\ job[v] = "running" /\ heard[v][d] = "unread"
  /\ \E c \in Outcomes(d) \cup {NoChoice} : heard' = [heard EXCEPT ![v][d] = c]
  /\ UNCHANGED <<aggVars, mode, present, phase, motionVars, job, verdict, saved, trackVars, history>>

\* Mutant: a deliberator without a choice is waited for.
AllAnswered(v) == \A d \in Deliberators : heard[v][d] \notin {"unread", NoChoice}

\* gather: every deliberator returned or failed.
Gathered(v) == \A d \in Deliberators : heard[v][d] # "unread"

\* _witness_adjudicate and the finally of the pipeline.
Adjudicate(v) ==
  /\ phase # "down"
  /\ job[v] = "running"
  /\ Gathered(v)
  /\ verdict' = [verdict EXCEPT
       ![v] = Adjudicated(votes[v[1]][v[2]], heard[v]["text"], heard[v]["json"])]
  /\ job' = [job EXCEPT ![v] = "done"]
  /\ UNCHANGED <<aggVars, mode, present, phase, motionVars, heard, saved, trackVars, history>>

-----------------------------------------------------------------------------
(***************************************************************************)
(* Adjournment, and the end of the process.                                *)
(***************************************************************************)

ReadyToAdjourn == phase = "open" /\ current = NoMotion

\* Without jobs there is nothing to drain.
AdjournDirectly ==
  /\ ReadyToAdjourn
  /\ mode # "inprocess"
  /\ phase' = "adjourned"
  /\ saved' = Snapshot(mstatus, votes)
  /\ UNCHANGED <<aggVars, mode, present, motionVars, jobVars, trackVars, history>>

BeginDrain ==
  /\ ReadyToAdjourn
  /\ mode = "inprocess"
  /\ phase' = "draining"
  /\ UNCHANGED <<aggVars, mode, present, motionVars, jobVars, saved, trackVars, history>>

\* Mutant: drain returns what has completed so far.
DrainedSoFar == TRUE

\* drain waits for the jobs that are pending.
Drained == Running = {}

Overriding(v) == job[v] = "done" /\ verdict[v] # votes[v[1]][v[2]]

\* Mutant: motions that had passed are not tallied again.
AffectedFailed(ms) == {m \in ms : mstatus[m] = "failed"}

\* The motions _recompute_motion_result is called for.
Affected(ms) == ms

\* _apply_validation_overrides and the rest of adjourn().
FinishAdjourn ==
  /\ phase = "draining"
  /\ Drained
  /\ votes' = [m \in Motions |-> [a \in Archons |->
                 IF Overriding(<<m, a>>) THEN verdict[<<m, a>>] ELSE votes[m][a]]]
  /\ mstatus' = [m \in Motions |->
                   IF m \in Affected({v[1] : v \in {x \in VoteIds : Overriding(x)}})
                   THEN Tally(votes'[m]) ELSE mstatus[m]]
  /\ phase' = "adjourned"
  /\ saved' = Snapshot(mstatus', votes')
  /\ UNCHANGED <<aggVars, mode, present, current, payload, jobVars, trackVars, history>>

(***************************************************************************)
(* The process ends and with it everything in memory.  What cp does not    *)
(* hold as pending of the finished jobs is lost.  A vote that cp does not  *)
(* have yet was never cast.                                                *)
(***************************************************************************)
Ends(cp) ==
  /\ phase' = "down"
  /\ saved' = cp
  /\ lost' = Standing(cp.votes) \cap
               (lost \cup {v \in VoteIds : job[v] = "done" /\ v \notin cp.pending})
  /\ submitted' = submitted \cap Standing(cp.votes)
  /\ current' = NoMotion
  /\ mstatus' = cp.mstatus
  /\ votes' = cp.votes
  /\ payload' = {}
  /\ job' = [v \in VoteIds |-> "none"]
  /\ heard' = [v \in VoteIds |-> NotHeard]
  /\ verdict' = [v \in VoteIds |-> NoChoice]
  /\ track' = [v \in VoteIds |-> "none"]
  /\ validated' = [v \in VoteIds |-> NoChoice]
  /\ breaker' = FALSE
  /\ ungated' = ungated \cap {m \in Motions : cp.mstatus[m] \in Decided}
  /\ UNCHANGED <<topics, offsets, agg, inflight, mode, present, mpos>>

InSession == phase \in {"open", "draining"}

\* Killed: the last checkpoint is what is left.
Crash ==
  /\ InSession
  /\ Fault
  /\ Ends(saved)

\* An interrupt or an exception reaches the script: it saves a checkpoint.
Interrupted ==
  /\ InSession
  /\ Fault
  /\ Ends(Snapshot(mstatus, votes))

\* The drain times out: ReconciliationIncompleteError, and the same checkpoint.
DrainTimesOut ==
  /\ phase = "draining" /\ ~Drained
  /\ Fault
  /\ Ends(Snapshot(mstatus, votes))

\* The gate times out; the time is looked at before the votes.
GateTimesOut(m) ==
  /\ AllCast(m)
  /\ mode = "kafka" /\ ~breaker
  /\ Fault
  /\ Ends(Snapshot(mstatus, votes))

\* run_conclave --resume: load_session, resume_pending_validations, new motions.
Resume ==
  /\ phase = "down"
  /\ phase' = "open"
  /\ job' = [v \in VoteIds |-> IF v \in saved.pending THEN "running" ELSE "none"]
  /\ UNCHANGED <<aggVars, mode, present, motionVars, heard, verdict, saved, trackVars, history>>

PipelineStep ==
  /\ mode = "kafka"
  /\ PipelineNext
  /\ UNCHANGED <<mode, present, phase, motionVars, jobVars, saved, trackVars, history>>

Next ==
  \/ \E m \in Motions :
       \/ ProposeMotion(m) \/ SecondMotion(m) \/ NoSecond(m)
       \/ DebateRound(m) \/ CallQuestion(m) \/ BeginVoting(m)
       \/ \E a \in Archons :
            \/ CastParsed(m, a) \/ CastFailed(m, a) \/ CastDispatched(m, a)
            \/ CastFallsBack(m, a) \/ CastSync(m, a)
       \/ SubmitBatch(m) \/ TallyParsed(m) \/ TallyGated(m) \/ TallyUngated(m)
       \/ GateTimesOut(m)
  \/ \E v \in VoteIds :
       \/ Mark(v)
       \/ \E d \in Deliberators : DeliberatorReturns(v, d)
       \/ Adjudicate(v)
  \/ BreakerCloses
  \/ AdjournDirectly \/ BeginDrain \/ FinishAdjourn
  \/ Crash \/ Interrupted \/ DrainTimesOut \/ Resume
  \/ PipelineStep

Spec == Init /\ [][Next]_vars

(***************************************************************************)
(* The event loop runs the tasks of the jobs and the loop of the           *)
(* aggregator; the witness answers.  Nothing obliges an archon, a          *)
(* secretary or the script.                                                *)
(***************************************************************************)
JobStep == \E v \in VoteIds :
  \/ \E d \in Deliberators : DeliberatorReturns(v, d)
  \/ Adjudicate(v)

Aggregating ==
  /\ mode = "kafka"
  /\ CommitMessage \/ \E v \in VoteIds : AggregatorStep(v) \/ WitnessObserves(v)
  /\ UNCHANGED <<mode, present, phase, motionVars, jobVars, saved, trackVars, history>>

Fairness == WF_vars(JobStep) /\ WF_vars(Aggregating)

FairSpec == Spec /\ Fairness

-----------------------------------------------------------------------------
(***************************************************************************)
(* With the Kafka pipeline a motion is tallied when every vote registered  *)
(* in the session is validated or has its fallback, unless the breaker was *)
(* open and there was no gate.                                             *)
(***************************************************************************)
GateHolds ==
  \A v \in VoteIds :
    mstatus[v[1]] \in Decided /\ track[v] = "pending" => v[1] \in ungated

(***************************************************************************)
(* A decided motion's result is the tally of the votes that stand in its   *)
(* record, also after overrides, checkpoints and restarts.                 *)
(***************************************************************************)
ResultMatchesVotes ==
  \A m \in Motions : mstatus[m] \in Decided => mstatus[m] = Tally(votes[m])

(***************************************************************************)
(* At adjournment every vote that was submitted for validation stands as   *)
(* its adjudication left it, except where a restart forgot a finished job: *)
(* resuming loses results in no other way.                                 *)
(***************************************************************************)
ValidationKept ==
  phase = "adjourned" =>
    \A v \in submitted \ lost : job[v] = "done" /\ votes[v[1]][v[2]] = verdict[v]

(***************************************************************************)
(* A recorded vote is changed by nothing but validation: both secretaries  *)
(* of its job gave the new choice, or a final message of the pipeline for  *)
(* a vote of the same archon holds it.                                     *)
(***************************************************************************)
ChangedByValidation(m, a) ==
  LET old == votes[m][a]
      new == votes'[m][a] IN
  old # NoChoice /\ new # old /\ phase' # "down" =>
    \/ Agreed(heard[<<m, a>>]["text"], heard[<<m, a>>]["json"]) /\ heard[<<m, a>>]["text"] = new
    \/ \E x \in Motions : \E i \in 1..Len(finals[<<x, a>>]) : finals[<<x, a>>][i] = new

VotesOnlyValidated == [][\A m \in Motions, a \in Archons : ChangedByValidation(m, a)]_vars

(***************************************************************************)
(* Validation comes to an end: no job of a living process runs forever,    *)
(* and, as long as nothing fails, no vote waits for its witness forever.   *)
(***************************************************************************)
ValidationAnswers == <>[](
  /\ phase = "down" \/ Running = {}
  /\ faults > 0 \/ \A v \in VoteIds : agg[v].status # "witness_pending")
=============================================================================
