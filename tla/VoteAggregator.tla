--------------------------- MODULE VoteAggregator ---------------------------
(***************************************************************************)
(* The validation of votes over Kafka: ValidationDispatcher, the secretary *)
(* and witness workers, and ConsensusAggregator.                           *)
(*                                                                         *)
(*   dispatcher --> requests --> secretaries --> results --> aggregator    *)
(*   aggregator --> asked --> witness --> events --> aggregator --> finals *)
(*                                                                         *)
(* Topics are keyed by vote, so each vote has its own ordered log.  Every  *)
(* consumer commits by hand after it has processed a message: a crash in   *)
(* between delivers the message again.  The aggregator keeps its state in  *)
(* memory (reconstruct_state rebuilds nothing).  A produce is delivered,   *)
(* refused (open breaker, serializer, broker), or times out in flush() and *)
(* arrives although the caller is told that it failed.                     *)
(***************************************************************************)
EXTENDS VoteRules, Sequences

CONSTANTS
  MaxAttempt,     \* bound on dispatch_vote's parameter "attempt"
  Retried,        \* votes that are dispatched again (a bound)
  MaxRetries,     \* max_retries of the aggregator
  MaxFaults       \* bound on crashes, redeliveries and failed produces

ASSUME AggregatorAssumption ==
  /\ MaxAttempt \in Nat \ {0}
  /\ Retried \subseteq VoteIds
  /\ MaxRetries \in Nat
  /\ MaxFaults \in Nat

VARIABLES
  queued,     \* requests no secretary has committed yet
  answered,   \* requests a secretary has committed
  results,    \* results[v]: log of secretary results of vote v
  rpos,       \* rpos[v]: how many of them the aggregator has committed
  asked,      \* asked[v]: log of witness requests (the consensus choice)
  wpos,       \* wpos[v]: how many of them the witness has committed
  events,     \* events[v]: log of witness verdicts (the choice observed)
  epos,       \* epos[v]: how many of them the aggregator has committed
  finals,     \* finals[v]: log of validated and dead letter messages
  agg,        \* agg[v]: the aggregator's VoteAggregation
  inflight,   \* the message processed and not yet committed, if any
  faults      \* faults so far

topics  == <<queued, answered, results, asked, events, finals>>
offsets == <<rpos, wpos, epos>>
aggVars == <<topics, offsets, agg, inflight, faults>>

Attempts   == 1..MaxAttempt
Validators == {"first", "second"}      \* the dispatcher's validator_ids
Dead       == "dead letter"
Statuses   == {"unknown", "pending", "consensus", "witness_pending",
               "disagreement", "retry_pending", "validated", "dead_letter"}
Finalised  == {"validated", "dead_letter"}
Idle       == <<"none">>

Requests == [vote : VoteIds, to : Validators, attempt : Attempts]
Results  == [role : Roles, choice : Readings, attempt : Attempts]

NoReplies == [r \in Roles |-> [n \in Attempts |-> NoChoice]]

\* A vote that is not in _vote_state.
Unknown == [replies |-> NoReplies, status |-> "unknown", retries |-> 0, choice |-> NoChoice]

AggregatorTypeOK ==
  /\ queued \in SUBSET Requests
  /\ answered \in SUBSET Requests
  /\ results \in [VoteIds -> Seq(Results)]
  /\ asked \in [VoteIds -> Seq(Readings)]
  /\ events \in [VoteIds -> Seq(Readings)]
  /\ finals \in [VoteIds -> Seq(Readings \cup {Dead})]
  /\ rpos \in [VoteIds -> Nat]
  /\ wpos \in [VoteIds -> Nat]
  /\ epos \in [VoteIds -> Nat]
  /\ \A v \in VoteIds : rpos[v] <= Len(results[v]) /\ epos[v] <= Len(events[v])
                        /\ wpos[v] <= Len(asked[v])
  /\ agg \in [VoteIds -> [replies : [Roles -> [Attempts -> Readings \cup {NoChoice}]],
                          status : Statuses,
                          retries : 0..MaxRetries,
                          choice : Readings \cup {NoChoice}]]
  /\ inflight \in {Idle} \cup ({"result", "event"} \X VoteIds)
  /\ faults \in 0..MaxFaults

AggregatorInit ==
  /\ queued = {} /\ answered = {}
  /\ results = [v \in VoteIds |-> <<>>]
  /\ asked = [v \in VoteIds |-> <<>>]
  /\ events = [v \in VoteIds |-> <<>>]
  /\ finals = [v \in VoteIds |-> <<>>]
  /\ rpos = [v \in VoteIds |-> 0]
  /\ wpos = [v \in VoteIds |-> 0]
  /\ epos = [v \in VoteIds |-> 0]
  /\ agg = [v \in VoteIds |-> Unknown]
  /\ inflight = Idle
  /\ faults = 0

Fault == faults < MaxFaults /\ faults' = faults + 1

\* What a produce comes to: is it in the topic, and is the caller told so.
Produces == {"delivered", "refused", "timed_out"}
Arrives(o)  == o # "refused"
Reported(o) == o = "delivered"
Produced(o) == IF o = "delivered" THEN UNCHANGED faults ELSE Fault

Logged(log, v, x, o) == IF Arrives(o) THEN [log EXCEPT ![v] = Append(@, x)] ELSE log

-----------------------------------------------------------------------------
(***************************************************************************)
(* The dispatcher and the workers.                                         *)
(***************************************************************************)

\* dispatch_vote: one request per validator; the produce may fail for some.
Dispatch(v, n, to) ==
  queued' = queued \cup {[vote |-> v, to |-> d, attempt |-> n] : d \in to}

(***************************************************************************)
(* A vote in RETRY_PENDING waits to be dispatched under the next attempt   *)
(* number.  dispatch_vote takes one; who calls it so is not in the source. *)
(***************************************************************************)
Redispatch(v, n) ==
  /\ n > 1 /\ v \in Retried /\ agg[v].status = "retry_pending"
  /\ \E q \in queued \cup answered : q.vote = v /\ q.attempt = n - 1
  /\ ~ \E q \in queued \cup answered : q.vote = v /\ q.attempt = n
  /\ Dispatch(v, n, Validators)
  /\ UNCHANGED <<answered, results, asked, events, finals, offsets, agg, inflight, faults>>

(***************************************************************************)
(* A secretary determines a vote.  Both secretaries are in one consumer    *)
(* group and the dispatcher sets no target_role, so a request reaches      *)
(* whichever of them owns its partition.                                   *)
(***************************************************************************)
Determine(q, role, c) ==
  /\ q \in queued
  /\ queued' = queued \ {q}
  /\ answered' = answered \cup {q}
  /\ results' = [results EXCEPT ![q.vote] =
                   Append(@, [role |-> role, choice |-> c, attempt |-> q.attempt])]
  /\ UNCHANGED <<asked, events, finals, offsets, agg, inflight, faults>>

\* The determination or its produce fails: it is logged, and committed.
DetermineFails(q) ==
  /\ q \in queued
  /\ Fault
  /\ queued' = queued \ {q}
  /\ answered' = answered \cup {q}
  /\ UNCHANGED <<results, asked, events, finals, offsets, agg, inflight>>

\* A secretary's process ended before the commit: the request comes again.
RequestRedelivered(q) ==
  /\ q \in answered
  /\ Fault
  /\ queued' = queued \cup {q}
  /\ answered' = answered \ {q}
  /\ UNCHANGED <<results, asked, events, finals, offsets, agg, inflight>>

WitnessObserves(v) ==
  /\ wpos[v] < Len(asked[v])
  /\ wpos' = [wpos EXCEPT ![v] = @ + 1]
  /\ events' = [events EXCEPT ![v] = Append(@, asked[v][wpos[v] + 1])]
  /\ UNCHANGED <<queued, answered, results, asked, finals, rpos, epos, agg, inflight, faults>>

WitnessFails(v) ==
  /\ wpos[v] < Len(asked[v])
  /\ Fault
  /\ wpos' = [wpos EXCEPT ![v] = @ + 1]
  /\ UNCHANGED <<topics, rpos, epos, agg, inflight>>

\* The verdict is in the topic, the commit is not: the witness observes again.
VerdictRepeated(v) ==
  /\ wpos[v] < Len(asked[v])
  /\ Fault
  /\ events' = [events EXCEPT ![v] = Append(@, asked[v][wpos[v] + 1])]
  /\ UNCHANGED <<queued, answered, results, asked, finals, offsets, agg, inflight>>

-----------------------------------------------------------------------------
(***************************************************************************)
(* The aggregator: one message at a time, then its commit.                 *)
(***************************************************************************)

\* Mutant: a response seen before is counted again.
SeenNever(a, r) == FALSE

\* add_secretary_response: the key is role and attempt.
Seen(a, r) == a.replies[r.role][r.attempt] # NoChoice

With(a, r) == [a EXCEPT !.replies = [@ EXCEPT ![r.role][r.attempt] = r.choice],
                        !.status = IF @ = "unknown" THEN "pending" ELSE @]

\* get_secretary_responses: the reply of a role with the greatest attempt.
Latest(a, role) ==
  LET given == {n \in Attempts : a.replies[role][n] # NoChoice} IN
  IF given = {} THEN NoChoice
  ELSE a.replies[role][CHOOSE n \in given : \A k \in given : k <= n]

\* The aggregator is between two messages, and a result of v is its next.
ResultWaits(v) == inflight = Idle /\ rpos[v] < Len(results[v])

\* The next result of vote v is being processed.
Receives(v, r) ==
  /\ ResultWaits(v)
  /\ r = results[v][rpos[v] + 1]
  /\ inflight' = <<"result", v>>

\* Mutant: a vote that is validated or dead takes further results.
ClosedNever(a) == FALSE

\* _process_secretary_result looks at nothing more of such a vote.
Closed(a) == a.status \in Finalised

SkipResult(v) ==
  \E r \in Results :
    /\ Receives(v, r)
    /\ Closed(agg[v]) \/ Seen(agg[v], r)
    /\ UNCHANGED <<topics, offsets, agg, faults>>

\* The result is new; a is the vote with it.
Takes(v, r, a) ==
  /\ Receives(v, r)
  /\ ~Closed(agg[v]) /\ ~Seen(agg[v], r)
  /\ a = With(agg[v], r)

TakeFirst(v) ==
  \E r \in Results : LET a == With(agg[v], r) IN
    /\ Takes(v, r, a)
    /\ \E role \in Roles : Latest(a, role) = NoChoice
    /\ ~Agreed(Latest(a, "text"), Latest(a, "json"))
    /\ agg' = [agg EXCEPT ![v] = a]
    /\ UNCHANGED <<topics, offsets, faults>>

\* Consensus: publish the witness request; only a delivered one changes the status.
TakeConsensus(v) ==
  \E r \in Results, o \in Produces : LET a == With(agg[v], r) IN
    /\ Takes(v, r, a)
    /\ Agreed(Latest(a, "text"), Latest(a, "json"))
    /\ LET c == IF Latest(a, "text") # NoChoice THEN Latest(a, "text") ELSE Latest(a, "json") IN
       /\ agg' = [agg EXCEPT ![v] = [a EXCEPT
                    !.choice = c,
                    !.status = IF Reported(o) THEN "witness_pending" ELSE "consensus"]]
       /\ asked' = Logged(asked, v, c, o)
    /\ Produced(o)
    /\ UNCHANGED <<queued, answered, results, events, finals, offsets>>

Disagrees(a) ==
  /\ \A role \in Roles : Latest(a, role) # NoChoice
  /\ ~Agreed(Latest(a, "text"), Latest(a, "json"))

\* Mutant: one retry more than max_retries.
ExhaustedLate(a) == a.retries > MaxRetries

\* The retries of the vote are used up.
Exhausted(a) == a.retries >= MaxRetries

\* Disagreement with retries left: the retry is counted, nobody is told.
TakeRetry(v) ==
  \E r \in Results : LET a == With(agg[v], r) IN
    /\ Takes(v, r, a)
    /\ Disagrees(a)
    /\ ~Exhausted(a)
    /\ agg' = [agg EXCEPT ![v] = [a EXCEPT !.retries = @ + 1, !.status = "retry_pending"]]
    /\ UNCHANGED <<topics, offsets, faults>>

TakeDeadLetter(v) ==
  \E r \in Results, o \in Produces : LET a == With(agg[v], r) IN
    /\ Takes(v, r, a)
    /\ Disagrees(a)
    /\ Exhausted(a)
    /\ agg' = [agg EXCEPT ![v] = [a EXCEPT
                 !.status = IF Reported(o) THEN "dead_letter" ELSE "disagreement"]]
    /\ finals' = Logged(finals, v, Dead, o)
    /\ Produced(o)
    /\ UNCHANGED <<queued, answered, results, asked, events, offsets>>

\* _process_witness_verdict: the vote is known and awaits its witness.
AwaitsWitness(a) == a.status = "witness_pending"

ReceivesEvent(v) ==
  /\ inflight = Idle
  /\ epos[v] < Len(events[v])
  /\ inflight' = <<"event", v>>

IgnoreVerdict(v) ==
  /\ ReceivesEvent(v)
  /\ ~AwaitsWitness(agg[v])
  /\ UNCHANGED <<topics, offsets, agg, faults>>

\* The verdict's own choice is not looked at: the vote's consensus is published.
TakeVerdict(v) ==
  /\ ReceivesEvent(v)
  /\ AwaitsWitness(agg[v])
  /\ \E o \in Produces :
       /\ agg' = [agg EXCEPT ![v].status = IF Reported(o) THEN "validated" ELSE @]
       /\ finals' = Logged(finals, v, agg[v].choice, o)
       /\ Produced(o)
  /\ UNCHANGED <<queued, answered, results, asked, events, offsets>>

CommitMessage ==
  /\ inflight # Idle
  /\ rpos' = IF inflight[1] = "result" THEN [rpos EXCEPT ![inflight[2]] = @ + 1] ELSE rpos
  /\ epos' = IF inflight[1] = "event" THEN [epos EXCEPT ![inflight[2]] = @ + 1] ELSE epos
  /\ inflight' = Idle
  /\ UNCHANGED <<topics, wpos, agg, faults>>

\* The aggregator restarts: its state is gone, its offsets are not.
AggregatorCrashes ==
  /\ Fault
  /\ agg' = [v \in VoteIds |-> Unknown]
  /\ inflight' = Idle
  /\ UNCHANGED <<topics, offsets>>

AggregatorStep(v) ==
  \/ /\ ResultWaits(v)
     /\ SkipResult(v) \/ TakeFirst(v) \/ TakeConsensus(v) \/ TakeRetry(v) \/ TakeDeadLetter(v)
  \/ IgnoreVerdict(v) \/ TakeVerdict(v)

PipelineNext ==
  \/ \E v \in VoteIds :
       \/ \E n \in Attempts : Redispatch(v, n)
       \/ WitnessObserves(v) \/ WitnessFails(v) \/ VerdictRepeated(v)
       \/ AggregatorStep(v)
  \/ \E q \in queued \cup answered :
       \/ \E role \in Roles, c \in Readings : Determine(q, role, c)
       \/ DetermineFails(q) \/ RequestRedelivered(q)
  \/ CommitMessage
  \/ AggregatorCrashes

-----------------------------------------------------------------------------
(***************************************************************************)
(* A choice published as validated was determined by both secretaries and  *)
(* was put to the witness, whatever was delivered twice, refused or lost.  *)
(***************************************************************************)
Determined(v, role, c) == \E i \in 1..Len(results[v]) :
                            results[v][i].role = role /\ results[v][i].choice = c

DeterminedByBoth ==
  \A v \in VoteIds : \A i \in 1..Len(finals[v]) :
    finals[v][i] # Dead =>
      /\ \A role \in Roles : Determined(v, role, finals[v][i])
      /\ \E k \in 1..Len(asked[v]) : asked[v][k] = finals[v][i]

(***************************************************************************)
(* A vote has one final message, validated or dead letter: every further   *)
(* one has its own fault (a crash of the aggregator, a produce that timed  *)
(* out and arrived).                                                       *)
(***************************************************************************)
OneFinalMessage ==
  \A v \in VoteIds : Len(finals[v]) <= 1 + faults

(***************************************************************************)
(* A response that is delivered twice counts once: every retry counted,    *)
(* and the dead letter after them, stands for a result by a further role   *)
(* and attempt.                                                            *)
(***************************************************************************)
Heard(v) == {x \in Roles \X Attempts : \E i \in 1..Len(results[v]) :
               results[v][i].role = x[1] /\ results[v][i].attempt = x[2]}

CountedOnce ==
  \A v \in VoteIds :
    /\ agg[v].retries > 0 => agg[v].retries < Cardinality(Heard(v))
    /\ agg[v].status = "dead_letter" => agg[v].retries + 1 < Cardinality(Heard(v))
=============================================================================
