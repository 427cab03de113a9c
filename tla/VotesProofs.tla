----------------------------- MODULE VotesProofs -----------------------------
(***************************************************************************)
(* The validation of votes and the Conclave session, for any number of     *)
(* motions, archons, attempts and retries and any number of faults.        *)
(* First the pipeline: what is published was determined by both            *)
(* secretaries, a vote has one final message, a response counts once.      *)
(* Then the session: results match votes, the gate holds, validation is    *)
(* kept and only validation changes a vote.                                *)
(***************************************************************************)
EXTENDS ConclaveVoting, FiniteSetTheorems, TLAPS

LEMMA Words ==
  /\ NoChoice \notin Readings /\ Dead \notin Readings
  /\ Readings \subseteq Choices /\ NoChoice \notin Choices
  /\ "unread" \notin Choices /\ "observed" \notin Choices
  BY VoteAssumption DEF Choices, NoChoice, Dead

(***************************************************************************)
(* A set of attempts has a greatest one.                                   *)
(***************************************************************************)
LEMMA Greatest ==
  ASSUME NEW S \in SUBSET Attempts, S # {}
  PROVE  \E n \in S : \A k \in S : k <= n
<1> DEFINE T == {MaxAttempt - n : n \in S}
<1>0. MaxAttempt \in Nat /\ \A n \in S : n \in Nat /\ n <= MaxAttempt
  BY AggregatorAssumption DEF Attempts
<1>1. T \subseteq Nat /\ T # {}
  BY <1>0
<1>2. PICK m \in T : \A k \in T : <<k, m>> \notin OpToRel(<, Nat)
  BY <1>1, WFMin, NatLessThanWellFounded, Zenon
<1>3. \A k \in T : ~(k < m)
  BY <1>1, <1>2, Zenon DEF OpToRel
<1>4. PICK n \in S : m = MaxAttempt - n
  OBVIOUS
<1>5. ASSUME NEW k \in S PROVE k <= n
  <2>1. ~(MaxAttempt - k < MaxAttempt - n)
    BY <1>3, <1>4
  <2> QED
    BY <1>0, <2>1
<1> QED
  BY <1>5

-----------------------------------------------------------------------------
(***************************************************************************)
(* The records of the aggregator.                                          *)
(***************************************************************************)
Replies == [Roles -> [Attempts -> Readings \cup {NoChoice}]]
Aggregations == [replies : Replies, status : Statuses, retries : 0..MaxRetries,
                 choice : Readings \cup {NoChoice}]

\* The responses that have been counted.
Given(a) == {x \in Roles \X Attempts : a.replies[x[1]][x[2]] # NoChoice}

LEMMA UnknownTyped == Unknown \in Aggregations /\ Given(Unknown) = {}
  BY AggregatorAssumption
  DEF Unknown, NoReplies, Aggregations, Replies, Statuses, Given

LEMMA WithAdds ==
  ASSUME NEW a \in Aggregations, NEW r \in Results
  PROVE  /\ With(a, r) \in Aggregations
         /\ \A role \in Roles, n \in Attempts :
              With(a, r).replies[role][n] = IF role = r.role /\ n = r.attempt THEN r.choice
                                            ELSE a.replies[role][n]
         /\ With(a, r).retries = a.retries /\ With(a, r).choice = a.choice
         /\ With(a, r).status = IF a.status = "unknown" THEN "pending" ELSE a.status
         /\ Given(With(a, r)) = Given(a) \cup {<<r.role, r.attempt>>}
<1> DEFINE b == With(a, r)
<1>0. /\ r.role \in Roles /\ r.attempt \in Attempts /\ r.choice \in Readings
      /\ a.replies \in Replies /\ a.status \in Statuses
      /\ a.retries \in 0..MaxRetries /\ a.choice \in Readings \cup {NoChoice}
  BY DEF Results, Aggregations
<1> DEFINE rs == [a.replies EXCEPT ![r.role][r.attempt] = r.choice]
           st == IF a.status = "unknown" THEN "pending" ELSE a.status
<1>1. b = [a EXCEPT !.replies = rs, !.status = st]
  BY DEF With
<1>a. a = [replies |-> a.replies, status |-> a.status, retries |-> a.retries, choice |-> a.choice]
  BY DEF Aggregations
<1>b. b = [replies |-> rs, status |-> st, retries |-> a.retries, choice |-> a.choice]
  <2> HIDE DEF rs, st, b
  <2> QED
    BY <1>1, <1>a
<1>2. /\ [a.replies EXCEPT ![r.role][r.attempt] = r.choice] \in Replies
      /\ \A role \in Roles, n \in Attempts :
           [a.replies EXCEPT ![r.role][r.attempt] = r.choice][role][n] =
             IF role = r.role /\ n = r.attempt THEN r.choice ELSE a.replies[role][n]
  BY <1>0 DEF Replies
<1>3. b \in Aggregations
  BY <1>0, <1>1, <1>2 DEF Aggregations, Statuses
<1>4. Given(b) = Given(a) \cup {<<r.role, r.attempt>>}
  BY <1>0, <1>1, <1>2, Words DEF Given
<1> QED
  BY <1>1, <1>2, <1>3, <1>4

(***************************************************************************)
(* The reply of a role that counts is one that was given.                  *)
(***************************************************************************)
LEMMA LatestGiven ==
  ASSUME NEW a \in Aggregations, NEW role \in Roles
  PROVE  /\ Latest(a, role) \in Readings \cup {NoChoice}
         /\ Latest(a, role) # NoChoice
            => \E n \in Attempts : /\ a.replies[role][n] = Latest(a, role)
                                   /\ <<role, n>> \in Given(a)
<1> DEFINE S == {n \in Attempts : a.replies[role][n] # NoChoice}
<1>0. a.replies \in Replies
  BY DEF Aggregations
<1>1. CASE S = {}
  BY <1>1 DEF Latest
<1>2. CASE S # {}
  <2> DEFINE g == CHOOSE i \in S : \A k \in S : k <= i
  <2>1. g \in S
    BY <1>2, Greatest
  <2>2. Latest(a, role) = a.replies[role][g]
    BY <1>2 DEF Latest
  <2>3. g \in Attempts /\ a.replies[role][g] # NoChoice
    BY <2>1
  <2> HIDE DEF g
  <2>4. a.replies[role][g] \in Readings \cup {NoChoice} /\ <<role, g>> \in Given(a)
    BY <1>0, <2>3 DEF Replies, Given
  <2> QED
    BY <2>2, <2>3, <2>4
<1> QED
  BY <1>1, <1>2

-----------------------------------------------------------------------------
(***************************************************************************)
(* The logs of the topics.                                                 *)
(***************************************************************************)

LogsOf(S) == [VoteIds -> Seq(S)]

\* What was in the log stays where it is.
Extends(old, new) ==
  \A w \in VoteIds : /\ Len(old[w]) <= Len(new[w])
                     /\ \A i \in 1..Len(old[w]) : i \in 1..Len(new[w]) /\ new[w][i] = old[w][i]

\* Nothing came to it but x, for vote v.
AddsOnly(old, new, v, x) ==
  \A w \in VoteIds : \A i \in 1..Len(new[w]) :
    \/ i \in 1..Len(old[w]) /\ new[w][i] = old[w][i]
    \/ w = v /\ new[w][i] = x

Occurs(log, v, x) == \E i \in 1..Len(log[v]) : log[v][i] = x

LEMMA Appended ==
  ASSUME NEW S, NEW s \in Seq(S), NEW x \in S
  PROVE  /\ Append(s, x) \in Seq(S) /\ Len(s) \in Nat
         /\ Len(Append(s, x)) = Len(s) + 1
         /\ \A i \in 1..Len(s) : Append(s, x)[i] = s[i]
         /\ Append(s, x)[Len(s) + 1] = x
  OBVIOUS

LEMMA Grown ==
  ASSUME NEW S, NEW log \in LogsOf(S), NEW v \in VoteIds, NEW x \in S
  PROVE  LET new == Logged(log, v, x, "delivered") IN
         /\ new \in LogsOf(S)
         /\ Extends(log, new) /\ AddsOnly(log, new, v, x) /\ Occurs(new, v, x)
         /\ \A w \in VoteIds : Len(new[w]) = IF w = v THEN Len(log[w]) + 1 ELSE Len(log[w])
<1> DEFINE new == Logged(log, v, x, "delivered")
<1>0. new = [log EXCEPT ![v] = Append(@, x)]
  BY DEF Logged, Arrives
<1> HIDE DEF new
<1>1. /\ Append(log[v], x) \in Seq(S) /\ Len(log[v]) \in Nat
      /\ Len(Append(log[v], x)) = Len(log[v]) + 1
      /\ \A i \in 1..Len(log[v]) : Append(log[v], x)[i] = log[v][i]
      /\ Append(log[v], x)[Len(log[v]) + 1] = x
  BY Appended DEF LogsOf
<1>2. /\ new \in LogsOf(S)
      /\ new[v] = Append(log[v], x) /\ \A w \in VoteIds \ {v} : new[w] = log[w]
  BY <1>0, <1>1 DEF LogsOf
<1>3. \A w \in VoteIds : Len(log[w]) \in Nat
  BY DEF LogsOf
<1>4. Extends(log, new)
  <2> SUFFICES ASSUME NEW w \in VoteIds
               PROVE  /\ Len(log[w]) <= Len(new[w])
                      /\ \A i \in 1..Len(log[w]) : i \in 1..Len(new[w]) /\ new[w][i] = log[w][i]
    BY DEF Extends
  <2>1. CASE w = v
    BY <1>1, <1>2, <2>1
  <2>2. CASE w # v
    <3>1. new[w] = log[w] /\ Len(log[w]) \in Nat
      BY <1>2, <1>3, <2>2
    <3> QED
      BY <3>1
  <2> QED
    BY <2>1, <2>2
<1>5. AddsOnly(log, new, v, x)
  <2> SUFFICES ASSUME NEW w \in VoteIds, NEW i \in 1..Len(new[w])
               PROVE  \/ i \in 1..Len(log[w]) /\ new[w][i] = log[w][i]
                      \/ w = v /\ new[w][i] = x
    BY DEF AddsOnly
  <2>1. CASE w = v
    BY <1>1, <1>2, <2>1
  <2>2. CASE w # v
    BY <1>2, <2>2
  <2> QED
    BY <2>1, <2>2
<1>6. Occurs(new, v, x)
  BY <1>1, <1>2 DEF Occurs
<1>7. \A w \in VoteIds : Len(new[w]) = IF w = v THEN Len(log[w]) + 1 ELSE Len(log[w])
  BY <1>1, <1>2
<1> QED
  BY <1>2, <1>4, <1>5, <1>6, <1>7 DEF new

LEMMA Still ==
  ASSUME NEW S, NEW log \in LogsOf(S), NEW v, NEW x
  PROVE  Extends(log, log) /\ AddsOnly(log, log, v, x)
  BY DEF Extends, AddsOnly, LogsOf

\* What a produce leaves in the topic.
LEMMA LoggedGrows ==
  ASSUME NEW S, NEW log \in LogsOf(S), NEW v \in VoteIds, NEW x \in S,
         NEW o \in Produces
  PROVE  LET new == Logged(log, v, x, o) IN
         /\ new \in LogsOf(S)
         /\ Extends(log, new) /\ AddsOnly(log, new, v, x)
         /\ Reported(o) => Occurs(new, v, x)
         /\ \A w \in VoteIds : Len(new[w]) = IF w = v /\ o # "refused" THEN Len(log[w]) + 1
                                             ELSE Len(log[w])
<1>1. CASE Arrives(o)
  <2>1. Logged(log, v, x, o) = Logged(log, v, x, "delivered") /\ o # "refused"
    BY <1>1 DEF Logged, Arrives
  <2> QED
    BY <2>1, Grown
<1>2. CASE ~Arrives(o)
  <2>1. ~Reported(o) /\ Logged(log, v, x, o) = log /\ o = "refused"
    BY <1>2 DEF Logged, Arrives, Reported
  <2> QED
    BY <2>1, Still
<1> QED
  BY <1>1, <1>2

LEMMA LoggedAdds ==
  ASSUME NEW S, NEW log \in LogsOf(S), NEW v \in VoteIds, NEW x \in S,
         NEW o \in Produces
  PROVE  AddsOnly(log, Logged(log, v, x, o), v, x)
  BY LoggedGrows

LEMMA LoggedLengths ==
  ASSUME NEW S, NEW log \in LogsOf(S), NEW v \in VoteIds, NEW x \in S,
         NEW o \in Produces
  PROVE  \A w \in VoteIds : Len(Logged(log, v, x, o)[w]) =
           IF w = v /\ o # "refused" THEN Len(log[w]) + 1 ELSE Len(log[w])
  BY LoggedGrows

-----------------------------------------------------------------------------
(***************************************************************************)
(* Types of the pipeline.                                                  *)
(***************************************************************************)
Logs ==
  /\ results \in LogsOf(Results) /\ asked \in LogsOf(Readings)
  /\ events \in LogsOf(Readings) /\ finals \in LogsOf(Readings \cup {Dead})

\* A log of which no more is committed than is in it.
Within(pos, log) == \A v \in VoteIds : pos[v] \in Nat /\ pos[v] <= Len(log[v])

Offsets ==
  /\ rpos \in [VoteIds -> Nat] /\ wpos \in [VoteIds -> Nat] /\ epos \in [VoteIds -> Nat]
  /\ Within(rpos, results) /\ Within(wpos, asked) /\ Within(epos, events)

\* What is being processed is the next message of its log.
InFlight ==
  /\ inflight \in {Idle} \cup ({"result", "event"} \X VoteIds)
  /\ \A v \in VoteIds : /\ inflight = <<"result", v>> => rpos[v] < Len(results[v])
                        /\ inflight = <<"event", v>> => epos[v] < Len(events[v])

PipelineTyped ==
  /\ queued \in SUBSET Requests /\ answered \in SUBSET Requests
  /\ Logs
  /\ Offsets
  /\ agg \in [VoteIds -> Aggregations]
  /\ InFlight
  /\ faults \in 0..MaxFaults

LEMMA TypedImplies == PipelineTyped => AggregatorTypeOK
  BY DEF PipelineTyped, AggregatorTypeOK, Logs, LogsOf, Offsets, Within, InFlight,
         Aggregations, Replies

\* The requests of a dispatch, and those that are taken from the topic.
LEMMA DispatchTyped ==
  ASSUME PipelineTyped, NEW v \in VoteIds, NEW n \in Attempts, NEW to \in SUBSET Validators,
         Dispatch(v, n, to)
  PROVE  queued' \in SUBSET Requests
  BY DEF PipelineTyped, Dispatch, Requests

LEMMA FaultTyped ==
  ASSUME PipelineTyped, Fault
  PROVE  faults' \in 0..MaxFaults /\ faults' = faults + 1 /\ faults \in Nat
  BY AggregatorAssumption DEF PipelineTyped, Fault

LEMMA ProducedTyped ==
  ASSUME PipelineTyped, NEW o \in Produces, Produced(o)
  PROVE  faults' \in 0..MaxFaults /\ faults \in Nat
         /\ faults' = IF o = "delivered" THEN faults ELSE faults + 1
  BY AggregatorAssumption DEF PipelineTyped, Produced, Fault

\* A longer log moves no offset past its end.
LEMMA StillWithin ==
  ASSUME NEW pos, NEW S, NEW old \in LogsOf(S), NEW new \in LogsOf(S), Extends(old, new)
  PROVE  /\ Within(pos, old) => Within(pos, new)
         /\ \A v \in VoteIds : pos[v] \in Nat /\ pos[v] < Len(old[v]) => pos[v] < Len(new[v])
<1>1. \A v \in VoteIds : Len(old[v]) \in Nat /\ Len(new[v]) \in Nat /\ Len(old[v]) <= Len(new[v])
  BY DEF Extends, LogsOf
<1> QED
  BY <1>1 DEF Within

LEMMA WithinMoves ==
  ASSUME NEW S, NEW log \in LogsOf(S), NEW pos \in [VoteIds -> Nat], Within(pos, log),
         NEW v \in VoteIds, pos[v] < Len(log[v]), NEW new, new = [pos EXCEPT ![v] = @ + 1]
  PROVE  new \in [VoteIds -> Nat] /\ Within(new, log)
<1>1. \A w \in VoteIds : Len(log[w]) \in Nat
  BY DEF LogsOf
<1> QED
  BY <1>1 DEF Within

LEMMA QueueTyped ==
  ASSUME PipelineTyped,
         \/ \E v \in VoteIds, n \in Attempts : Redispatch(v, n)
         \/ \E q \in queued \cup answered : DetermineFails(q) \/ RequestRedelivered(q)
  PROVE  PipelineTyped' /\ UNCHANGED <<results, asked, finals, agg>> /\ faults <= faults'
<1>0. /\ UNCHANGED <<results, asked, events, finals, rpos, wpos, epos, agg, inflight>>
      /\ UNCHANGED faults \/ Fault
  BY DEF Redispatch, DetermineFails, RequestRedelivered, offsets
<1>1. queued' \in SUBSET Requests /\ answered' \in SUBSET Requests
  <2>1. ASSUME NEW v \in VoteIds, NEW n \in Attempts, Redispatch(v, n)
        PROVE  queued' \in SUBSET Requests /\ answered' \in SUBSET Requests
    BY <2>1, DispatchTyped DEF Redispatch, PipelineTyped, Validators
  <2>2. ASSUME NEW q \in queued \cup answered, DetermineFails(q) \/ RequestRedelivered(q)
        PROVE  queued' \in SUBSET Requests /\ answered' \in SUBSET Requests
    BY <2>2 DEF DetermineFails, RequestRedelivered, PipelineTyped
  <2> QED
    BY <2>1, <2>2
<1>2. faults' \in 0..MaxFaults /\ faults <= faults'
  BY <1>0, FaultTyped, AggregatorAssumption DEF PipelineTyped
<1> QED
  BY <1>0, <1>1, <1>2 DEF PipelineTyped, Logs, Offsets, Within, InFlight

LEMMA DetermineTyped ==
  ASSUME PipelineTyped, NEW q \in queued \cup answered, NEW role \in Roles, NEW c \in Readings,
         Determine(q, role, c)
  PROVE  /\ PipelineTyped'
         /\ UNCHANGED <<asked, finals, agg, faults>>
         /\ results' = Logged(results, q.vote,
                              [role |-> role, choice |-> c, attempt |-> q.attempt], "delivered")
<1> DEFINE x == [role |-> role, choice |-> c, attempt |-> q.attempt]
<1>0. /\ UNCHANGED <<asked, events, finals, rpos, wpos, epos, agg, inflight, faults>>
      /\ q \in Requests /\ q.vote \in VoteIds /\ x \in Results
      /\ results \in LogsOf(Results)
  BY DEF Determine, offsets, PipelineTyped, Requests, Results, Logs
<1>1. queued' \in SUBSET Requests /\ answered' \in SUBSET Requests
  BY <1>0 DEF Determine, PipelineTyped
<1>2. results' = Logged(results, q.vote, x, "delivered")
  BY DEF Determine, Logged, Arrives
<1> HIDE DEF x
<1>3. results' \in LogsOf(Results) /\ Extends(results, results')
  BY <1>0, <1>2, Grown
<1>4. Within(rpos, results) => Within(rpos, results')
  BY <1>0, <1>3, StillWithin
<1>5. \A v \in VoteIds : rpos[v] \in Nat /\ rpos[v] < Len(results[v]) => rpos[v] < Len(results'[v])
  BY <1>0, <1>3, StillWithin
<1>6. Logs' /\ Offsets'
  BY <1>0, <1>3, <1>4 DEF PipelineTyped, Logs, Offsets, Within
<1>7. InFlight'
  BY <1>0, <1>5 DEF PipelineTyped, InFlight, Offsets
<1>8. PipelineTyped'
  BY <1>0, <1>1, <1>6, <1>7 DEF PipelineTyped
<1> QED
  BY <1>0, <1>2, <1>8 DEF x

LEMMA WitnessTyped ==
  ASSUME PipelineTyped, NEW v \in VoteIds,
         WitnessObserves(v) \/ WitnessFails(v) \/ VerdictRepeated(v)
  PROVE  PipelineTyped' /\ UNCHANGED <<results, asked, finals, agg>> /\ faults <= faults'
<1> DEFINE x == asked[v][wpos[v] + 1]
<1>0. /\ UNCHANGED <<queued, answered, results, asked, finals, rpos, epos, agg, inflight>>
      /\ UNCHANGED faults \/ Fault
      /\ wpos[v] < Len(asked[v])
      /\ asked \in LogsOf(Readings) /\ events \in LogsOf(Readings)
      /\ wpos \in [VoteIds -> Nat]
  BY DEF WitnessObserves, WitnessFails, VerdictRepeated, topics, offsets, PipelineTyped,
         Logs, Offsets
<1>1. x \in Readings
  <2>1. asked[v] \in Seq(Readings) /\ wpos[v] \in Nat
    BY <1>0 DEF LogsOf
  <2> QED
    BY <1>0, <2>1
<1>2. events' = Logged(events, v, x, "delivered") \/ events' = events
  BY DEF WitnessObserves, WitnessFails, VerdictRepeated, topics, Logged, Arrives
<1> HIDE DEF x
<1>3. events' \in LogsOf(Readings) /\ Extends(events, events')
  BY <1>0, <1>1, <1>2, Grown, Still
<1>4. Within(epos, events) => Within(epos, events')
  BY <1>0, <1>3, StillWithin
<1>5. \A w \in VoteIds : epos[w] \in Nat /\ epos[w] < Len(events[w]) => epos[w] < Len(events'[w])
  BY <1>0, <1>3, StillWithin
<1>6. wpos' \in [VoteIds -> Nat] /\ Within(wpos', asked)
  <2>1. wpos' = wpos \/ wpos' = [wpos EXCEPT ![v] = @ + 1]
    BY DEF WitnessObserves, WitnessFails, VerdictRepeated, offsets
  <2>2. Within(wpos, asked)
    BY DEF PipelineTyped, Offsets
  <2> QED
    BY <1>0, <2>1, <2>2, WithinMoves
<1>7. Logs' /\ Offsets'
  BY <1>0, <1>3, <1>4, <1>6 DEF PipelineTyped, Logs, Offsets, Within
<1>8. InFlight'
  BY <1>0, <1>5 DEF PipelineTyped, InFlight, Offsets
<1>9. faults' \in 0..MaxFaults /\ faults <= faults'
  BY <1>0, FaultTyped, AggregatorAssumption DEF PipelineTyped
<1> QED
  BY <1>0, <1>7, <1>8, <1>9 DEF PipelineTyped

LEMMA CommitTyped ==
  ASSUME PipelineTyped, CommitMessage
  PROVE  PipelineTyped' /\ UNCHANGED <<results, asked, finals, agg, faults>>
<1>0. /\ UNCHANGED <<queued, answered, results, asked, events, finals, wpos, agg, faults>>
      /\ inflight' = Idle /\ inflight \in {"result", "event"} \X VoteIds
  BY DEF CommitMessage, topics, PipelineTyped, InFlight
<1>1. PICK w \in VoteIds : inflight = <<"result", w>> \/ inflight = <<"event", w>>
  BY <1>0
<1>2. /\ results \in LogsOf(Results) /\ events \in LogsOf(Readings)
      /\ rpos \in [VoteIds -> Nat] /\ epos \in [VoteIds -> Nat]
      /\ Within(rpos, results) /\ Within(epos, events)
  BY DEF PipelineTyped, Logs, Offsets
<1>3. /\ rpos' \in [VoteIds -> Nat] /\ Within(rpos', results)
      /\ epos' \in [VoteIds -> Nat] /\ Within(epos', events)
  <2>1. CASE inflight = <<"result", w>>
    <3>1. rpos[w] < Len(results[w])
      BY <2>1 DEF PipelineTyped, InFlight
    <3>2. rpos' = [rpos EXCEPT ![w] = @ + 1] /\ epos' = epos
      BY <2>1 DEF CommitMessage
    <3> QED
      BY <1>2, <3>1, <3>2, WithinMoves
  <2>2. CASE inflight = <<"event", w>>
    <3>1. epos[w] < Len(events[w])
      BY <2>2 DEF PipelineTyped, InFlight
    <3>2. epos' = [epos EXCEPT ![w] = @ + 1] /\ rpos' = rpos
      BY <2>2 DEF CommitMessage
    <3> QED
      BY <1>2, <3>1, <3>2, WithinMoves
  <2> QED
    BY <1>1, <2>1, <2>2
<1>4. Logs' /\ Offsets'
  BY <1>0, <1>3 DEF PipelineTyped, Logs, Offsets, Within
<1>5. InFlight'
  BY <1>0 DEF InFlight, Idle
<1> QED
  BY <1>0, <1>4, <1>5 DEF PipelineTyped

LEMMA CrashTyped ==
  ASSUME PipelineTyped, AggregatorCrashes
  PROVE  /\ PipelineTyped'
         /\ UNCHANGED <<results, asked, finals>> /\ agg' = [v \in VoteIds |-> Unknown]
         /\ faults' = faults + 1
<1>0. /\ UNCHANGED <<queued, answered, results, asked, events, finals, rpos, wpos, epos>>
      /\ agg' = [v \in VoteIds |-> Unknown] /\ inflight' = Idle
      /\ faults' \in 0..MaxFaults /\ faults' = faults + 1
  BY FaultTyped DEF AggregatorCrashes, topics, offsets
<1>1. agg' \in [VoteIds -> Aggregations]
  BY <1>0, UnknownTyped
<1>2. Logs' /\ Offsets'
  BY <1>0 DEF PipelineTyped, Logs, Offsets, Within
<1>3. InFlight'
  BY <1>0 DEF InFlight, Idle
<1> QED
  BY <1>0, <1>1, <1>2, <1>3 DEF PipelineTyped

\* A message that is taken up is one of its log.
LEMMA ReceivesTyped ==
  ASSUME PipelineTyped, NEW v \in VoteIds, NEW r \in Results,
         UNCHANGED <<results, events, rpos, epos>>, Receives(v, r)
  PROVE  InFlight' /\ Occurs(results, v, r)
<1>0. rpos \in [VoteIds -> Nat] /\ results \in LogsOf(Results)
  BY DEF PipelineTyped, Offsets, Logs
<1>1. /\ inflight' = <<"result", v>> /\ rpos[v] < Len(results[v])
      /\ r = results[v][rpos[v] + 1]
  BY DEF Receives, ResultWaits
<1>2. rpos[v] \in Nat /\ Len(results[v]) \in Nat
  BY <1>0 DEF LogsOf
<1> QED
  BY <1>1, <1>2 DEF InFlight, Occurs

LEMMA ReceivesEventTyped ==
  ASSUME NEW v \in VoteIds, UNCHANGED <<events, epos>>, ReceivesEvent(v)
  PROVE  InFlight'
  BY DEF ReceivesEvent, InFlight

LEMMA SkipTyped ==
  ASSUME PipelineTyped, NEW v \in VoteIds, SkipResult(v) \/ IgnoreVerdict(v)
  PROVE  PipelineTyped' /\ UNCHANGED <<results, asked, finals, agg, faults>>
<1>0. UNCHANGED <<queued, answered, results, asked, events, finals, rpos, wpos, epos, agg, faults>>
  BY DEF SkipResult, IgnoreVerdict, topics, offsets
<1>1. InFlight'
  BY <1>0, ReceivesTyped, ReceivesEventTyped DEF SkipResult, IgnoreVerdict
<1>2. Logs' /\ Offsets'
  BY <1>0 DEF PipelineTyped, Logs, Offsets, Within
<1> QED
  BY <1>0, <1>1, <1>2 DEF PipelineTyped

\* A vote's record changes, and a message about it may be produced.
LEMMA ChangeTyped ==
  ASSUME PipelineTyped, NEW v \in VoteIds, NEW y \in Aggregations,
         agg' = [agg EXCEPT ![v] = y],
         UNCHANGED <<queued, answered, results, events, rpos, wpos, epos>>,
         InFlight', faults' \in 0..MaxFaults,
         \/ UNCHANGED <<asked, finals>>
         \/ \E o \in Produces, c \in Readings : asked' = Logged(asked, v, c, o) /\ finals' = finals
         \/ \E o \in Produces, c \in Readings \cup {Dead} :
              finals' = Logged(finals, v, c, o) /\ asked' = asked
  PROVE  PipelineTyped' /\ Extends(asked, asked')
<1>0. /\ asked \in LogsOf(Readings) /\ finals \in LogsOf(Readings \cup {Dead})
      /\ Within(wpos, asked)
  BY DEF PipelineTyped, Logs, Offsets
<1>1. /\ asked' \in LogsOf(Readings) /\ finals' \in LogsOf(Readings \cup {Dead})
      /\ Extends(asked, asked')
  <2>1. CASE UNCHANGED <<asked, finals>>
    BY <1>0, <2>1, Still
  <2>2. ASSUME NEW o \in Produces, NEW c \in Readings, asked' = Logged(asked, v, c, o), finals' = finals
        PROVE  <1>1!1 /\ <1>1!2
    BY <1>0, <2>2, LoggedGrows
  <2>3. ASSUME NEW o \in Produces, NEW c \in Readings \cup {Dead},
               finals' = Logged(finals, v, c, o), asked' = asked
        PROVE  <1>1!1 /\ <1>1!2
    BY <1>0, <2>3, LoggedGrows, Still
  <2> QED
    BY <2>1, <2>2, <2>3
<1>2. Within(wpos, asked')
  BY <1>0, <1>1, StillWithin
<1>3. Logs' /\ Offsets'
  BY <1>1, <1>2 DEF PipelineTyped, Logs, Offsets, Within
<1>4. agg' \in [VoteIds -> Aggregations]
  BY DEF PipelineTyped
<1> QED
  BY <1>1, <1>3, <1>4 DEF PipelineTyped

-----------------------------------------------------------------------------
(***************************************************************************)
(* What a result that counts does to the record of its vote.               *)
(***************************************************************************)
Counted(v, r, y) ==
  /\ Occurs(results, v, r) /\ ~Closed(agg[v]) /\ ~Seen(agg[v], r)
  /\ agg' = [agg EXCEPT ![v] = y] /\ y.replies = With(agg[v], r).replies
  /\ results' = results

FirstOf(v, y) ==
  /\ y.status \notin Finalised /\ y.retries = agg[v].retries /\ y.choice = agg[v].choice
  /\ y.status = "witness_pending" => agg[v].status = "witness_pending"
  /\ UNCHANGED <<asked, finals, faults>>

ConsensusOf(v, r, y) ==
  /\ y.status \notin Finalised /\ y.retries = agg[v].retries /\ y.choice \in Readings
  /\ \A role \in Roles : Latest(With(agg[v], r), role) = y.choice
  /\ \E o \in Produces : /\ y.status = "witness_pending" => Reported(o)
                         /\ asked' = Logged(asked, v, y.choice, o) /\ Produced(o)
  /\ finals' = finals

BothSpoke(v, r) == \A role \in Roles : Latest(With(agg[v], r), role) # NoChoice

RetryOf(v, r, y) ==
  /\ BothSpoke(v, r)
  /\ y.status = "retry_pending" /\ y.retries = agg[v].retries + 1
  /\ UNCHANGED <<asked, finals, faults>>

DeadOf(v, r, y) ==
  /\ BothSpoke(v, r)
  /\ y.retries = agg[v].retries
  /\ \E o \in Produces : /\ y.status = IF Reported(o) THEN "dead_letter" ELSE "disagreement"
                         /\ finals' = Logged(finals, v, Dead, o) /\ Produced(o)
  /\ asked' = asked

LEMMA TakesTyped ==
  ASSUME PipelineTyped, NEW v \in VoteIds, NEW r \in Results, Takes(v, r, With(agg[v], r)),
         UNCHANGED <<results, events, rpos, epos>>
  PROVE  /\ InFlight' /\ Occurs(results, v, r)
         /\ ~Closed(agg[v]) /\ ~Seen(agg[v], r)
         /\ agg[v] \in Aggregations /\ With(agg[v], r) \in Aggregations
         /\ \A role \in Roles : Latest(With(agg[v], r), role) \in Readings \cup {NoChoice}
<1>1. Receives(v, r) /\ ~Closed(agg[v]) /\ ~Seen(agg[v], r)
  BY DEF Takes
<1>2. agg[v] \in Aggregations
  BY DEF PipelineTyped
<1>3. With(agg[v], r) \in Aggregations
  BY <1>2, WithAdds
<1> QED
  BY <1>1, <1>2, <1>3, ReceivesTyped, LatestGiven

LEMMA FirstTyped ==
  ASSUME PipelineTyped, NEW v \in VoteIds, TakeFirst(v)
  PROVE  PipelineTyped' /\ \E r \in Results, y \in Aggregations : Counted(v, r, y) /\ FirstOf(v, y)
<1>1. PICK r \in Results : /\ Takes(v, r, With(agg[v], r))
                           /\ agg' = [agg EXCEPT ![v] = With(agg[v], r)]
                           /\ UNCHANGED <<topics, offsets, faults>>
  BY DEF TakeFirst
<1> DEFINE y == With(agg[v], r)
<1>2. UNCHANGED <<queued, answered, results, asked, events, finals, rpos, wpos, epos, faults>>
  BY <1>1 DEF topics, offsets
<1>3. /\ InFlight' /\ Occurs(results, v, r) /\ ~Closed(agg[v]) /\ ~Seen(agg[v], r)
      /\ agg[v] \in Aggregations /\ y \in Aggregations
  BY <1>1, <1>2, TakesTyped
<1>4. /\ y.retries = agg[v].retries /\ y.choice = agg[v].choice
      /\ y.status = IF agg[v].status = "unknown" THEN "pending" ELSE agg[v].status
  BY <1>3, WithAdds
<1>5. FirstOf(v, y)
  BY <1>2, <1>3, <1>4 DEF FirstOf, Closed, Finalised
<1>6. Counted(v, r, y)
  BY <1>1, <1>2, <1>3 DEF Counted
<1>7. PipelineTyped'
  <2>1. faults' \in 0..MaxFaults
    BY <1>2 DEF PipelineTyped
  <2> HIDE DEF y
  <2>2. agg' = [agg EXCEPT ![v] = y]
    BY <1>6 DEF Counted
  <2> QED
    BY <1>2, <1>3, <2>1, <2>2, ChangeTyped
<1> QED
  BY <1>3, <1>5, <1>6, <1>7

LEMMA ConsensusTyped ==
  ASSUME PipelineTyped, NEW v \in VoteIds, TakeConsensus(v)
  PROVE  PipelineTyped' /\ \E r \in Results, y \in Aggregations : Counted(v, r, y) /\ ConsensusOf(v, r, y)
<1>1. PICK r \in Results, o \in Produces :
        /\ Takes(v, r, With(agg[v], r))
        /\ Agreed(Latest(With(agg[v], r), "text"), Latest(With(agg[v], r), "json"))
        /\ LET c == IF Latest(With(agg[v], r), "text") # NoChoice THEN Latest(With(agg[v], r), "text")
                    ELSE Latest(With(agg[v], r), "json") IN
           /\ agg' = [agg EXCEPT ![v] = [With(agg[v], r) EXCEPT
                        !.choice = c,
                        !.status = IF Reported(o) THEN "witness_pending" ELSE "consensus"]]
           /\ asked' = Logged(asked, v, c, o)
        /\ Produced(o)
        /\ UNCHANGED <<queued, answered, results, events, finals, offsets>>
  BY DEF TakeConsensus
<1> DEFINE a == With(agg[v], r)
           c == Latest(a, "text")
           s == IF Reported(o) THEN "witness_pending" ELSE "consensus"
           y == [a EXCEPT !.choice = c, !.status = s]
<1>2. UNCHANGED <<queued, answered, results, events, finals, rpos, wpos, epos>>
  BY <1>1 DEF offsets
<1>3. /\ InFlight' /\ Occurs(results, v, r) /\ ~Closed(agg[v]) /\ ~Seen(agg[v], r)
      /\ agg[v] \in Aggregations /\ a \in Aggregations
      /\ \A role \in Roles : Latest(a, role) \in Readings \cup {NoChoice}
  BY <1>1, <1>2, TakesTyped
<1>4. c \in Readings /\ \A role \in Roles : Latest(a, role) = c
  BY <1>1, <1>3 DEF Agreed, Roles
<1>5. a.replies = With(agg[v], r).replies /\ a.retries = agg[v].retries
  BY <1>3, WithAdds
<1>6. agg' = [agg EXCEPT ![v] = y] /\ asked' = Logged(asked, v, c, o)
  BY <1>1, <1>4, Words
<1>7. s \in Statuses /\ s \notin Finalised /\ (s = "witness_pending" => Reported(o))
  BY DEF Statuses, Finalised
<1> HIDE DEF a, c, s
<1>8. y \in Aggregations /\ y.replies = a.replies /\ y.status = s
      /\ y.retries = a.retries /\ y.choice = c
  BY <1>3, <1>4, <1>7 DEF Aggregations
<1> HIDE DEF y
<1>9. Counted(v, r, y)
  BY <1>2, <1>3, <1>5, <1>6, <1>8 DEF Counted
<1>10. ConsensusOf(v, r, y)
  BY <1>1, <1>2, <1>4, <1>5, <1>6, <1>7, <1>8 DEF ConsensusOf, a
<1>11. faults' \in 0..MaxFaults
  BY <1>1, ProducedTyped
<1>12. PipelineTyped'
  BY <1>2, <1>3, <1>4, <1>6, <1>8, <1>11, ChangeTyped
<1> QED
  BY <1>8, <1>9, <1>10, <1>12

LEMMA RetryTyped ==
  ASSUME PipelineTyped, NEW v \in VoteIds, TakeRetry(v)
  PROVE  PipelineTyped' /\ \E r \in Results, y \in Aggregations : Counted(v, r, y) /\ RetryOf(v, r, y)
<1>1. PICK r \in Results :
        /\ Takes(v, r, With(agg[v], r))
        /\ Disagrees(With(agg[v], r)) /\ ~Exhausted(With(agg[v], r))
        /\ agg' = [agg EXCEPT ![v] = [With(agg[v], r) EXCEPT !.retries = @ + 1,
                                                             !.status = "retry_pending"]]
        /\ UNCHANGED <<topics, offsets, faults>>
  BY DEF TakeRetry
<1> DEFINE a == With(agg[v], r)
           y == [a EXCEPT !.retries = @ + 1, !.status = "retry_pending"]
<1>2. UNCHANGED <<queued, answered, results, asked, events, finals, rpos, wpos, epos, faults>>
  BY <1>1 DEF topics, offsets
<1>3. /\ InFlight' /\ Occurs(results, v, r) /\ ~Closed(agg[v]) /\ ~Seen(agg[v], r)
      /\ agg[v] \in Aggregations /\ a \in Aggregations
  BY <1>1, <1>2, TakesTyped
<1>4. a.replies = With(agg[v], r).replies /\ a.retries = agg[v].retries
  BY <1>3, WithAdds
<1>5. agg' = [agg EXCEPT ![v] = y] /\ BothSpoke(v, r)
  BY <1>1 DEF Disagrees, BothSpoke
<1>6. a.retries \in 0..MaxRetries /\ a.retries + 1 \in 0..MaxRetries
  <2>1. a.retries \in 0..MaxRetries /\ ~(a.retries >= MaxRetries)
    BY <1>1, <1>3 DEF Exhausted, Aggregations
  <2> QED
    BY <2>1, AggregatorAssumption
<1> HIDE DEF a
<1>7. y \in Aggregations /\ y.replies = a.replies /\ y.status = "retry_pending"
      /\ y.retries = a.retries + 1
  BY <1>3, <1>6 DEF Aggregations, Statuses
<1> HIDE DEF y
<1>8. Counted(v, r, y)
  BY <1>2, <1>3, <1>4, <1>5, <1>7 DEF Counted
<1>9. RetryOf(v, r, y)
  BY <1>2, <1>4, <1>5, <1>7 DEF RetryOf
<1>10. faults' \in 0..MaxFaults
  BY <1>2 DEF PipelineTyped
<1>11. PipelineTyped'
  BY <1>2, <1>3, <1>5, <1>7, <1>10, ChangeTyped
<1> QED
  BY <1>7, <1>8, <1>9, <1>11

LEMMA DeadTyped ==
  ASSUME PipelineTyped, NEW v \in VoteIds, TakeDeadLetter(v)
  PROVE  PipelineTyped' /\ \E r \in Results, y \in Aggregations : Counted(v, r, y) /\ DeadOf(v, r, y)
<1>1. PICK r \in Results, o \in Produces :
        /\ Takes(v, r, With(agg[v], r))
        /\ Disagrees(With(agg[v], r))
        /\ agg' = [agg EXCEPT ![v] = [With(agg[v], r) EXCEPT
                     !.status = IF Reported(o) THEN "dead_letter" ELSE "disagreement"]]
        /\ finals' = Logged(finals, v, Dead, o)
        /\ Produced(o)
        /\ UNCHANGED <<queued, answered, results, asked, events, offsets>>
  BY DEF TakeDeadLetter
<1> DEFINE a == With(agg[v], r)
           s == IF Reported(o) THEN "dead_letter" ELSE "disagreement"
           y == [a EXCEPT !.status = s]
<1>2. UNCHANGED <<queued, answered, results, asked, events, rpos, wpos, epos>>
  BY <1>1 DEF offsets
<1>3. /\ InFlight' /\ Occurs(results, v, r) /\ ~Closed(agg[v]) /\ ~Seen(agg[v], r)
      /\ agg[v] \in Aggregations /\ a \in Aggregations
  BY <1>1, <1>2, TakesTyped
<1>4. a.replies = With(agg[v], r).replies /\ a.retries = agg[v].retries
  BY <1>3, WithAdds
<1>5. agg' = [agg EXCEPT ![v] = y] /\ BothSpoke(v, r) /\ s \in Statuses
  BY <1>1 DEF Disagrees, BothSpoke, Statuses
<1> HIDE DEF a
<1>6. DeadOf(v, r, y) /\ y \in Aggregations /\ y.replies = a.replies
  <2> HIDE DEF s
  <2>1. y \in Aggregations /\ y.replies = a.replies /\ y.status = s /\ y.retries = a.retries
    BY <1>3, <1>5 DEF Aggregations
  <2> HIDE DEF y
  <2>2. y.status = IF Reported(o) THEN "dead_letter" ELSE "disagreement"
    BY <2>1 DEF s
  <2>3. DeadOf(v, r, y)
    BY <1>1, <1>2, <1>4, <1>5, <2>1, <2>2 DEF DeadOf
  <2> QED
    BY <2>1, <2>3
<1> HIDE DEF y
<1>7. Counted(v, r, y)
  BY <1>2, <1>3, <1>4, <1>5, <1>6 DEF Counted
<1>8. faults' \in 0..MaxFaults
  BY <1>1, ProducedTyped
<1>9. PipelineTyped'
  BY <1>1, <1>2, <1>3, <1>5, <1>6, <1>8, ChangeTyped
<1> QED
  BY <1>6, <1>7, <1>9

\* The witness's verdict publishes the choice of the consensus.
VerdictOf(v) ==
  /\ AwaitsWitness(agg[v])
  /\ \E o \in Produces :
       /\ agg' = [agg EXCEPT ![v].status = IF Reported(o) THEN "validated" ELSE @]
       /\ finals' = Logged(finals, v, agg[v].choice, o)
       /\ Produced(o)
  /\ UNCHANGED <<results, asked>>

LEMMA VerdictTyped ==
  ASSUME PipelineTyped, NEW v \in VoteIds, TakeVerdict(v), agg[v].choice \in Readings
  PROVE  PipelineTyped' /\ VerdictOf(v)
<1>1. UNCHANGED <<queued, answered, results, asked, events, rpos, wpos, epos>>
  BY DEF TakeVerdict, offsets
<1>2. VerdictOf(v)
  BY <1>1 DEF TakeVerdict, VerdictOf
<1>3. InFlight'
  BY <1>1, ReceivesEventTyped DEF TakeVerdict
<1>4. PICK o \in Produces :
        /\ agg' = [agg EXCEPT ![v].status = IF Reported(o) THEN "validated" ELSE @]
        /\ finals' = Logged(finals, v, agg[v].choice, o)
        /\ Produced(o)
  BY <1>2 DEF VerdictOf
<1> DEFINE s == IF Reported(o) THEN "validated" ELSE agg[v].status
           y == [agg[v] EXCEPT !.status = s]
<1>5. agg[v] \in Aggregations /\ s \in Statuses
  BY DEF PipelineTyped, Aggregations, Statuses
<1>6. agg' = [agg EXCEPT ![v] = y]
  BY <1>4
<1>7. y \in Aggregations
  <2> HIDE DEF s
  <2> QED
    BY <1>5 DEF Aggregations
<1> HIDE DEF y
<1>8. faults' \in 0..MaxFaults
  BY <1>4, ProducedTyped
<1> QED
  BY <1>1, <1>2, <1>3, <1>4, <1>6, <1>7, <1>8, ChangeTyped

-----------------------------------------------------------------------------
(***************************************************************************)
(* The inductive invariant of the pipeline: what the aggregator knows was  *)
(* received, what the witness was asked was determined by both, a final    *)
(* message that is not told of has its fault, and each response that       *)
(* counted is by a further role and attempt.                               *)
(***************************************************************************)
Reply(role, n, c) == [role |-> role, choice |-> c, attempt |-> n]

RepliesReceived ==
  \A v \in VoteIds, role \in Roles, n \in Attempts :
    agg[v].replies[role][n] # NoChoice =>
      Occurs(results, v, Reply(role, n, agg[v].replies[role][n]))

AskedDetermined ==
  \A v \in VoteIds, role \in Roles : \A k \in 1..Len(asked[v]) : Determined(v, role, asked[v][k])

AwaitingAsked ==
  \A v \in VoteIds : agg[v].status = "witness_pending" =>
    agg[v].choice \in Readings /\ Occurs(asked, v, agg[v].choice)

OneEach ==
  \A v \in VoteIds :
    Len(finals[v]) <= faults + (IF agg[v].status \in Finalised THEN 1 ELSE 0)

CountsOnce ==
  \A v \in VoteIds :
    /\ agg[v].retries > 0 => agg[v].retries < Cardinality(Given(agg[v]))
    /\ agg[v].status = "dead_letter" => agg[v].retries + 1 < Cardinality(Given(agg[v]))

PipelineInv ==
  /\ PipelineTyped
  /\ RepliesReceived
  /\ AskedDetermined
  /\ AwaitingAsked
  /\ DeterminedByBoth
  /\ OneEach
  /\ CountsOnce

LEMMA OccursStays ==
  ASSUME NEW old, NEW new, Extends(old, new), NEW v \in VoteIds, NEW x, Occurs(old, v, x)
  PROVE  Occurs(new, v, x)
  BY DEF Extends, Occurs

\* Determined, in a log of results.
Said(log, v, role, c) == \E i \in 1..Len(log[v]) : log[v][i].role = role /\ log[v][i].choice = c

LEMMA SaidStays ==
  ASSUME NEW old, NEW new, Extends(old, new), NEW v \in VoteIds, NEW role, NEW c,
         Said(old, v, role, c)
  PROVE  Said(new, v, role, c)
  BY DEF Extends, Said

LEMMA Unmoved ==
  ASSUME PipelineTyped
  PROVE  Extends(results, results) /\ Extends(asked, asked) /\ Extends(finals, finals)
  BY Still DEF PipelineTyped, Logs

\* Replies come from results.
LEMMA RepliesCounted ==
  ASSUME PipelineTyped, RepliesReceived, NEW v \in VoteIds, NEW r \in Results,
         NEW y \in Aggregations, Counted(v, r, y)
  PROVE  RepliesReceived'
<1> SUFFICES ASSUME NEW w \in VoteIds, NEW role \in Roles, NEW n \in Attempts,
                    agg'[w].replies[role][n] # NoChoice
             PROVE  Occurs(results, w, Reply(role, n, agg'[w].replies[role][n]))
  BY DEF RepliesReceived, Counted
<1>0. agg \in [VoteIds -> Aggregations]
  BY DEF PipelineTyped
<1>1. CASE w # v
  <2>1. agg'[w] = agg[w]
    BY <1>0, <1>1 DEF Counted
  <2> QED
    BY <2>1 DEF RepliesReceived
<1>2. CASE w = v
  <2>1. agg'[w].replies[role][n] =
          IF role = r.role /\ n = r.attempt THEN r.choice ELSE agg[v].replies[role][n]
    BY <1>0, <1>2, WithAdds DEF Counted
  <2>2. CASE role = r.role /\ n = r.attempt
    <3>1. r = Reply(role, n, r.choice)
      BY <2>2 DEF Results, Reply
    <3> QED
      BY <1>2, <2>1, <2>2, <3>1 DEF Counted
  <2>3. CASE ~(role = r.role /\ n = r.attempt)
    BY <1>2, <2>1, <2>3 DEF RepliesReceived
  <2> QED
    BY <2>2, <2>3
<1> QED
  BY <1>1, <1>2

\* The latest replies of a vote were determined.
LEMMA LatestDetermined ==
  ASSUME PipelineTyped, RepliesReceived, NEW v \in VoteIds, NEW r \in Results,
         NEW y \in Aggregations, Counted(v, r, y), NEW role \in Roles,
         Latest(With(agg[v], r), role) # NoChoice
  PROVE  Determined(v, role, Latest(With(agg[v], r), role))
<1> DEFINE a == With(agg[v], r)
<1>1. agg[v] \in Aggregations /\ a \in Aggregations
  BY WithAdds DEF PipelineTyped
<1>2. PICK n \in Attempts : a.replies[role][n] = Latest(a, role)
  BY <1>1, LatestGiven
<1>3. RepliesReceived'
  BY RepliesCounted
<1>4. agg'[v].replies = a.replies
  BY DEF Counted, PipelineTyped
<1>5. Occurs(results', v, Reply(role, n, Latest(a, role)))
  <2>1. agg'[v].replies[role][n] = Latest(a, role)
    BY <1>2, <1>4
  <2> HIDE DEF a
  <2>2. agg'[v].replies[role][n] # NoChoice
    BY <2>1 DEF a
  <2> QED
    BY <1>3, <2>1, <2>2 DEF RepliesReceived
<1> HIDE DEF a
<1>6. Determined(v, role, Latest(a, role))
  <2>1. results' = results
    BY DEF Counted
  <2> DEFINE c == Latest(a, role)
  <2>2. PICK i \in 1..Len(results'[v]) : results'[v][i] = Reply(role, n, c)
    BY <1>5 DEF Occurs
  <2>3. results'[v][i].role = role /\ results'[v][i].choice = c
    BY <2>2 DEF Reply
  <2> HIDE DEF c
  <2>4. \E k \in 1..Len(results'[v]) : results'[v][k].role = role /\ results'[v][k].choice = c
    BY <2>3
  <2> QED
    BY <2>1, <2>4 DEF Determined, c
<1> QED
  BY <1>6 DEF a

\* What is asked of the witness is what both determined.
LEMMA AskedKept ==
  ASSUME PipelineTyped, RepliesReceived, AskedDetermined, NEW v \in VoteIds, NEW r \in Results,
         NEW y \in Aggregations, Counted(v, r, y),
         asked' = asked \/ ConsensusOf(v, r, y)
  PROVE  AskedDetermined'
<1>0. results' = results
  BY DEF Counted
<1>1. CASE asked' = asked
  BY <1>0, <1>1 DEF AskedDetermined, Determined
<1>2. CASE ConsensusOf(v, r, y)
  <2>1. y.choice \in Readings /\ \A role \in Roles : Latest(With(agg[v], r), role) = y.choice
    BY <1>2 DEF ConsensusOf
  <2>2. \A role \in Roles : Determined(v, role, y.choice)
    BY <2>1, LatestDetermined, Words
  <2>3. asked \in LogsOf(Readings)
    BY DEF PipelineTyped, Logs
  <2>4. AddsOnly(asked, asked', v, y.choice)
    BY <1>2, <2>1, <2>3, LoggedGrows DEF ConsensusOf
  <2>5. ASSUME NEW w \in VoteIds, NEW role \in Roles, NEW k \in 1..Len(asked'[w])
        PROVE  Determined(w, role, asked'[w][k])
    BY <2>2, <2>4, <2>5 DEF AddsOnly, AskedDetermined
  <2> QED
    BY <1>0, <2>5 DEF AskedDetermined, Determined
<1> QED
  BY <1>1, <1>2

LEMMA AwaitingKept ==
  ASSUME PipelineTyped, AwaitingAsked, NEW v \in VoteIds, NEW r \in Results,
         NEW y \in Aggregations, Counted(v, r, y), Extends(asked, asked'),
         \/ FirstOf(v, y) \/ ConsensusOf(v, r, y)
         \/ y.status # "witness_pending"
  PROVE  AwaitingAsked'
<1> SUFFICES ASSUME NEW w \in VoteIds, agg'[w].status = "witness_pending"
             PROVE  agg'[w].choice \in Readings /\ Occurs(asked', w, agg'[w].choice)
  BY DEF AwaitingAsked, Occurs
<1>0. agg \in [VoteIds -> Aggregations] /\ agg' = [agg EXCEPT ![v] = y]
  BY DEF PipelineTyped, Counted
<1>1. CASE agg'[w] = agg[w] \/ (w = v /\ FirstOf(v, y))
  <2>1. agg[w].status = "witness_pending" /\ agg'[w].choice = agg[w].choice
    BY <1>0, <1>1 DEF FirstOf
  <2> QED
    BY <2>1, OccursStays DEF AwaitingAsked
<1>2. CASE w = v /\ ConsensusOf(v, r, y)
  <2>0. agg'[w] = y
    BY <1>0, <1>2
  <2>1. PICK o \in Produces : Reported(o) /\ asked' = Logged(asked, v, y.choice, o)
    BY <1>2, <2>0 DEF ConsensusOf
  <2>2. y.choice \in Readings /\ asked \in LogsOf(Readings)
    BY <1>2 DEF ConsensusOf, PipelineTyped, Logs
  <2> QED
    BY <1>2, <2>0, <2>1, <2>2, LoggedGrows
<1> QED
  BY <1>0, <1>1, <1>2

\* A published choice was put to the witness.
LEMMA PublishedKept ==
  ASSUME PipelineTyped, DeterminedByBoth, Extends(results, results'), Extends(asked, asked'),
         NEW v \in VoteIds, NEW c, AddsOnly(finals, finals', v, c),
         c = Dead \/ (Occurs(asked', v, c) /\ \A role \in Roles : Said(results', v, role, c))
  PROVE  DeterminedByBoth'
<1> SUFFICES ASSUME NEW w \in VoteIds, NEW i \in 1..Len(finals'[w]), finals'[w][i] # Dead
             PROVE  /\ \A role \in Roles : Said(results', w, role, finals'[w][i])
                    /\ Occurs(asked', w, finals'[w][i])
  BY DEF DeterminedByBoth, Occurs, Determined, Said
<1>1. CASE i \in 1..Len(finals[w]) /\ finals'[w][i] = finals[w][i]
  <2>1. /\ \A role \in Roles : Said(results, w, role, finals[w][i])
        /\ Occurs(asked, w, finals[w][i])
    BY <1>1 DEF DeterminedByBoth, Occurs, Said, Determined
  <2>2. Occurs(asked', w, finals[w][i])
    BY <2>1, OccursStays
  <2>3. \A role \in Roles : Said(results', w, role, finals[w][i])
    BY <2>1, <1>1, SaidStays
  <2> QED
    BY <1>1, <2>2, <2>3
<1>2. CASE w = v /\ finals'[w][i] = c
  BY <1>2
<1> QED
  BY <1>1, <1>2 DEF AddsOnly

\* A further final message has its fault, or its vote is finalised with it.
LEMMA OneEachKept ==
  ASSUME PipelineTyped, OneEach, NEW v \in VoteIds, NEW y \in Aggregations,
         agg' = [agg EXCEPT ![v] = y], agg[v].status \notin Finalised, faults' \in 0..MaxFaults,
         \/ finals' = finals /\ faults <= faults'
         \/ \E o \in Produces, c \in Readings \cup {Dead} :
              /\ finals' = Logged(finals, v, c, o) /\ Produced(o)
              /\ Reported(o) => y.status \in Finalised
  PROVE  OneEach'
<1>0. /\ agg \in [VoteIds -> Aggregations] /\ finals \in LogsOf(Readings \cup {Dead})
      /\ faults \in Nat /\ faults' \in Nat
      /\ \A w \in VoteIds : Len(finals[w]) \in Nat
  BY AggregatorAssumption DEF PipelineTyped, Logs, LogsOf
<1>1. CASE finals' = finals /\ faults <= faults'
  BY <1>0, <1>1 DEF OneEach
<1>2. ASSUME NEW o \in Produces, NEW c \in Readings \cup {Dead},
             finals' = Logged(finals, v, c, o), Produced(o),
             Reported(o) => y.status \in Finalised
      PROVE  OneEach'
  <2>1. \A w \in VoteIds : Len(finals'[w]) = IF w = v /\ o # "refused" THEN Len(finals[w]) + 1
                                             ELSE Len(finals[w])
    <3>1. finals \in LogsOf(Readings \cup {Dead}) /\ finals' = Logged(finals, v, c, o)
      BY <1>0, <1>2
    <3> QED
      BY <3>1, LoggedLengths
  <2>2. faults' = IF o = "delivered" THEN faults ELSE faults + 1
    BY <1>2, ProducedTyped
  <2>3. ASSUME NEW w \in VoteIds
        PROVE  Len(finals'[w]) <= faults' + (IF agg'[w].status \in Finalised THEN 1 ELSE 0)
    <3>1. CASE w # v
      <4>1. agg'[w] = agg[w] /\ Len(finals'[w]) = Len(finals[w]) /\ faults <= faults'
        BY <1>0, <2>1, <2>2, <3>1
      <4> QED
        BY <1>0, <4>1 DEF OneEach
    <3>2. CASE w = v
      <4>1. agg'[w] = y /\ Len(finals[w]) <= faults
        BY <1>0, <3>2 DEF OneEach
      <4>2. CASE o = "delivered"
        BY <1>0, <1>2, <2>1, <2>2, <3>2, <4>1, <4>2 DEF Reported
      <4>3. CASE o # "delivered"
        BY <1>0, <2>1, <2>2, <4>1, <4>3
      <4> QED
        BY <4>2, <4>3
    <3> QED
      BY <3>1, <3>2
  <2> QED
    BY <2>3 DEF OneEach
<1> QED
  BY <1>1, <1>2

LEMMA PairsFinite == IsFiniteSet(Roles \X Attempts)
<1>1. IsFiniteSet({"text"}) /\ IsFiniteSet({"text"} \cup {"json"})
  BY FS_Singleton, FS_AddElement
<1>2. IsFiniteSet(1..MaxAttempt)
  BY FS_Interval, AggregatorAssumption
<1>3. IsFiniteSet(Roles) /\ IsFiniteSet(Attempts)
  BY <1>1, <1>2 DEF Roles, Attempts
<1> QED
  BY <1>3, FS_Product

\* A response that counts is one more, and when both spoke they are two.
LEMMA GivenGrows ==
  ASSUME PipelineTyped, NEW v \in VoteIds, NEW r \in Results, NEW y \in Aggregations,
         Counted(v, r, y)
  PROVE  /\ Cardinality(Given(agg[v])) \in Nat /\ Cardinality(Given(y)) \in Nat
         /\ Cardinality(Given(y)) = Cardinality(Given(agg[v])) + 1
         /\ BothSpoke(v, r) => 1 < Cardinality(Given(y))
<1> DEFINE a == With(agg[v], r)
           p == <<r.role, r.attempt>>
<1>0. agg[v] \in Aggregations /\ a \in Aggregations /\ Given(a) = Given(agg[v]) \cup {p}
  BY WithAdds DEF PipelineTyped
<1>1. Given(y) = Given(a)
  BY DEF Counted, Given
<1>2. p \notin Given(agg[v])
  BY DEF Counted, Seen, Given
<1>3. ASSUME NEW b \in Aggregations PROVE IsFiniteSet(Given(b))
  <2>1. Given(b) \in SUBSET (Roles \X Attempts)
    BY DEF Given
  <2> QED
    BY <2>1, PairsFinite, FS_Subset
<1> HIDE DEF a, p
<1>4. Cardinality(Given(y)) = Cardinality(Given(agg[v])) + 1
  BY <1>0, <1>1, <1>2, <1>3, FS_AddElement
<1>5. ASSUME BothSpoke(v, r) PROVE 1 < Cardinality(Given(y))
  <2>1. Latest(a, "text") # NoChoice /\ Latest(a, "json") # NoChoice
    BY <1>5 DEF BothSpoke, Roles, a
  <2>2. PICK n \in Attempts : <<"text", n>> \in Given(a)
    BY <1>0, <2>1, LatestGiven DEF Roles
  <2>3. PICK k \in Attempts : <<"json", k>> \in Given(a)
    BY <1>0, <2>1, LatestGiven DEF Roles
  <2> DEFINE T == {<<"text", n>>}
             U == T \cup {<<"json", k>>}
  <2>4. Cardinality(T) = 1 /\ IsFiniteSet(T) /\ <<"json", k>> \notin T
    BY FS_Singleton
  <2>5. Cardinality(U) = 2
    <3> DEFINE q == <<"json", k>>
    <3> HIDE DEF T, q
    <3>1. q \notin T
      BY <2>4 DEF q
    <3>2. Cardinality(T \cup {q}) = Cardinality(T) + 1
      BY <2>4, <3>1, FS_AddElement
    <3> QED
      BY <2>4, <3>2 DEF q
  <2>6. U \subseteq Given(y)
    BY <1>1, <2>2, <2>3
  <2> HIDE DEF U
  <2>7. Cardinality(U) <= Cardinality(Given(y)) /\ Cardinality(Given(y)) \in Nat
    BY <1>3, <2>6, FS_Subset, FS_CardinalityType
  <2> QED
    BY <2>5, <2>7
<1> QED
  BY <1>0, <1>3, <1>4, <1>5, FS_CardinalityType

LEMMA CountsKept ==
  ASSUME PipelineTyped, CountsOnce, NEW v \in VoteIds, NEW r \in Results, NEW y \in Aggregations,
         Counted(v, r, y),
         \/ FirstOf(v, y) \/ ConsensusOf(v, r, y) \/ RetryOf(v, r, y) \/ DeadOf(v, r, y)
  PROVE  CountsOnce'
<1> DEFINE g == Cardinality(Given(agg[v]))
           h == Cardinality(Given(y))
<1>0. /\ agg \in [VoteIds -> Aggregations] /\ agg' = [agg EXCEPT ![v] = y]
      /\ agg[v].retries \in Nat /\ y.retries \in Nat
  BY AggregatorAssumption DEF PipelineTyped, Counted, Aggregations
<1>1. g \in Nat /\ h \in Nat /\ h = g + 1 /\ (BothSpoke(v, r) => 1 < h)
  BY GivenGrows
<1>2. /\ agg[v].retries > 0 => agg[v].retries < g
      /\ agg[v].status # "dead_letter"
  BY DEF CountsOnce, Counted, Closed, Finalised
<1>3. /\ y.retries > 0 => y.retries < h
      /\ y.status = "dead_letter" => y.retries + 1 < h
  <2> HIDE DEF g, h
  <2>1. CASE FirstOf(v, y) \/ ConsensusOf(v, r, y)
    <3>1. y.retries = agg[v].retries /\ y.status # "dead_letter"
      BY <2>1 DEF FirstOf, ConsensusOf, Finalised
    <3> QED
      BY <1>0, <1>1, <1>2, <3>1
  <2>2. CASE RetryOf(v, r, y)
    <3>1. y.retries = agg[v].retries + 1 /\ y.status # "dead_letter" /\ BothSpoke(v, r)
      BY <2>2 DEF RetryOf
    <3> QED
      BY <1>0, <1>1, <1>2, <3>1
  <2>3. CASE DeadOf(v, r, y)
    <3>1. y.retries = agg[v].retries /\ BothSpoke(v, r)
      BY <2>3 DEF DeadOf
    <3> QED
      BY <1>0, <1>1, <1>2, <3>1
  <2> QED
    BY <2>1, <2>2, <2>3
<1>4. ASSUME NEW w \in VoteIds
      PROVE  /\ agg'[w].retries > 0 => agg'[w].retries < Cardinality(Given(agg'[w]))
             /\ agg'[w].status = "dead_letter" =>
                  agg'[w].retries + 1 < Cardinality(Given(agg'[w]))
  <2>1. CASE w = v
    <3>1. agg'[w] = y
      BY <1>0, <2>1
    <3> QED
      BY <1>3, <3>1
  <2>2. CASE w # v
    <3>1. agg'[w] = agg[w]
      BY <1>0, <2>2
    <3> QED
      BY <3>1 DEF CountsOnce
  <2> QED
    BY <2>1, <2>2
<1> QED
  BY <1>4 DEF CountsOnce, Given

-----------------------------------------------------------------------------
(***************************************************************************)
(* Every step of the pipeline keeps its invariant.                         *)
(***************************************************************************)
LEMMA QuietKept ==
  ASSUME PipelineInv, PipelineTyped', UNCHANGED <<results, asked, finals, agg>>, faults <= faults'
  PROVE  PipelineInv'
<1>1. OneEach'
  <2>1. /\ faults \in Nat /\ faults' \in Nat
        /\ \A w \in VoteIds : Len(finals[w]) \in Nat
    BY AggregatorAssumption DEF PipelineInv, PipelineTyped, Logs, LogsOf
  <2> QED
    BY <2>1 DEF PipelineInv, OneEach
<1>2. /\ RepliesReceived' /\ AskedDetermined' /\ AwaitingAsked'
      /\ DeterminedByBoth' /\ CountsOnce'
  BY DEF PipelineInv, RepliesReceived, AskedDetermined, AwaitingAsked, DeterminedByBoth,
         CountsOnce, Occurs, Determined, Given
<1> QED
  BY <1>1, <1>2 DEF PipelineInv

LEMMA DetermineKept ==
  ASSUME PipelineInv, PipelineTyped', UNCHANGED <<asked, finals, agg, faults>>,
         Extends(results, results')
  PROVE  PipelineInv'
<1>1. OneEach' /\ CountsOnce' /\ AwaitingAsked'
  BY DEF PipelineInv, OneEach, CountsOnce, AwaitingAsked, Given, Occurs
<1>2. RepliesReceived'
  BY OccursStays DEF PipelineInv, RepliesReceived
<1>3. AskedDetermined'
  <2>1. \A v \in VoteIds, role \in Roles : \A k \in 1..Len(asked[v]) :
           Said(results, v, role, asked[v][k])
    BY DEF PipelineInv, AskedDetermined, Determined, Said
  <2>2. \A v \in VoteIds, role \in Roles : \A k \in 1..Len(asked[v]) :
           Said(results', v, role, asked[v][k])
    BY <2>1, SaidStays
  <2> QED
    BY <2>2 DEF AskedDetermined, Determined, Said
<1>4. DeterminedByBoth'
  <2>1. \A v \in VoteIds, role \in Roles : \A k \in 1..Len(finals[v]) : finals[v][k] # Dead =>
           Said(results, v, role, finals[v][k])
    BY DEF PipelineInv, DeterminedByBoth, Determined, Said
  <2>2. \A v \in VoteIds, role \in Roles : \A k \in 1..Len(finals[v]) : finals[v][k] # Dead =>
           Said(results', v, role, finals[v][k])
    BY <2>1, SaidStays
  <2> QED
    BY <2>2 DEF PipelineInv, DeterminedByBoth, Determined, Said
<1> QED
  BY <1>1, <1>2, <1>3, <1>4 DEF PipelineInv

LEMMA CrashKept ==
  ASSUME PipelineInv, AggregatorCrashes
  PROVE  PipelineInv'
<1>0. /\ PipelineTyped' /\ UNCHANGED <<results, asked, finals>>
      /\ agg' = [v \in VoteIds |-> Unknown] /\ faults' = faults + 1
  BY CrashTyped DEF PipelineInv
<1>1. \A v \in VoteIds : /\ agg'[v].status = "unknown" /\ agg'[v].retries = 0
                         /\ \A role \in Roles, n \in Attempts : agg'[v].replies[role][n] = NoChoice
  BY <1>0 DEF Unknown, NoReplies
<1>2. RepliesReceived' /\ AwaitingAsked' /\ CountsOnce'
  BY <1>1 DEF RepliesReceived, AwaitingAsked, CountsOnce
<1>3. AskedDetermined' /\ DeterminedByBoth'
  BY <1>0 DEF PipelineInv, AskedDetermined, DeterminedByBoth, Determined
<1>4. OneEach'
  <2>1. /\ faults \in Nat
        /\ \A w \in VoteIds : Len(finals[w]) \in Nat
    BY AggregatorAssumption DEF PipelineInv, PipelineTyped, Logs, LogsOf
  <2>2. ASSUME NEW w \in VoteIds PROVE Len(finals[w]) <= faults'
    <3>1. Len(finals[w]) <= faults + (IF agg[w].status \in Finalised THEN 1 ELSE 0)
      BY DEF PipelineInv, OneEach
    <3> QED
      BY <1>0, <2>1, <3>1
  <2>3. ASSUME NEW w \in VoteIds PROVE agg'[w].status \notin Finalised
    BY <1>1 DEF Finalised
  <2>4. \A w \in VoteIds : faults' + (IF agg'[w].status \in Finalised THEN 1 ELSE 0) = faults'
    BY <1>0, <2>1, <2>3
  <2> QED
    BY <1>0, <2>2, <2>4 DEF OneEach
<1> QED
  BY <1>0, <1>2, <1>3, <1>4 DEF PipelineInv

LEMMA CountedKept ==
  ASSUME PipelineInv, PipelineTyped', NEW v \in VoteIds, NEW r \in Results, NEW y \in Aggregations,
         Counted(v, r, y),
         \/ FirstOf(v, y) \/ ConsensusOf(v, r, y) \/ RetryOf(v, r, y) \/ DeadOf(v, r, y)
  PROVE  PipelineInv'
<1>0. /\ PipelineTyped /\ RepliesReceived /\ AskedDetermined /\ AwaitingAsked
      /\ DeterminedByBoth /\ OneEach /\ CountsOnce
      /\ asked \in LogsOf(Readings) /\ finals \in LogsOf(Readings \cup {Dead})
      /\ faults \in Nat /\ faults' \in 0..MaxFaults
  BY AggregatorAssumption DEF PipelineInv, PipelineTyped, Logs
<1>1. Extends(asked, asked') /\ Extends(results, results')
  <2>1. Extends(results, results')
    BY <1>0, Unmoved DEF Counted
  <2>2. CASE asked' = asked
    BY <1>0, <2>1, <2>2, Unmoved
  <2>3. CASE ConsensusOf(v, r, y)
    BY <1>0, <2>1, <2>3, LoggedGrows DEF ConsensusOf
  <2> QED
    BY <2>2, <2>3 DEF FirstOf, RetryOf, DeadOf
<1>2. RepliesReceived'
  BY <1>0, RepliesCounted
<1>3. AskedDetermined'
  BY <1>0, AskedKept DEF FirstOf, RetryOf, DeadOf
<1>4. AwaitingAsked'
  <2>1. \/ FirstOf(v, y) \/ ConsensusOf(v, r, y) \/ y.status # "witness_pending"
    BY DEF RetryOf, DeadOf
  <2> QED
    BY <1>0, <1>1, <2>1, AwaitingKept
<1>5. DeterminedByBoth'
  <2>1. AddsOnly(finals, finals', v, Dead)
    <3>1. CASE finals' = finals
      BY <1>0, <3>1, Still
    <3>2. CASE DeadOf(v, r, y)
      <4>1. PICK o \in Produces : finals' = Logged(finals, v, Dead, o)
        BY <3>2 DEF DeadOf
      <4> QED
        BY <1>0, <4>1, LoggedAdds
    <3> QED
      BY <3>1, <3>2 DEF FirstOf, RetryOf, ConsensusOf
  <2> QED
    BY <1>0, <1>1, <2>1, PublishedKept
<1>6. OneEach'
  <2>1. /\ agg' = [agg EXCEPT ![v] = y] /\ agg[v].status \notin Finalised
    BY DEF Counted, Closed
  <2>2. \/ finals' = finals /\ faults <= faults'
        \/ \E o \in Produces, c \in Readings \cup {Dead} :
             /\ finals' = Logged(finals, v, c, o) /\ Produced(o)
             /\ Reported(o) => y.status \in Finalised
    <3>1. CASE FirstOf(v, y) \/ RetryOf(v, r, y)
      BY <1>0, <3>1 DEF FirstOf, RetryOf
    <3>2. CASE ConsensusOf(v, r, y)
      BY <1>0, <3>2, ProducedTyped DEF ConsensusOf
    <3>3. CASE DeadOf(v, r, y)
      BY <3>3 DEF DeadOf, Finalised
    <3> QED
      BY <3>1, <3>2, <3>3
  <2> QED
    BY <1>0, <2>1, <2>2, OneEachKept
<1>7. CountsOnce'
  BY <1>0, CountsKept
<1> QED
  BY <1>2, <1>3, <1>4, <1>5, <1>6, <1>7 DEF PipelineInv

LEMMA VerdictKept ==
  ASSUME PipelineInv, NEW v \in VoteIds, TakeVerdict(v)
  PROVE  PipelineInv'
<1>0. /\ PipelineTyped /\ RepliesReceived /\ AskedDetermined /\ AwaitingAsked
      /\ DeterminedByBoth /\ OneEach /\ CountsOnce
      /\ asked \in LogsOf(Readings) /\ finals \in LogsOf(Readings \cup {Dead})
      /\ agg \in [VoteIds -> Aggregations] /\ agg[v] \in Aggregations
  BY DEF PipelineInv, PipelineTyped, Logs
<1> DEFINE c == agg[v].choice
<1>1. agg[v].status = "witness_pending" /\ c \in Readings /\ Occurs(asked, v, c)
  BY <1>0 DEF TakeVerdict, AwaitsWitness, AwaitingAsked
<1>2. PipelineTyped' /\ VerdictOf(v)
  BY <1>0, <1>1, VerdictTyped
<1>3. PICK o \in Produces :
        /\ agg' = [agg EXCEPT ![v].status = IF Reported(o) THEN "validated" ELSE @]
        /\ finals' = Logged(finals, v, c, o)
        /\ Produced(o)
  BY <1>2 DEF VerdictOf
<1>4. results' = results /\ asked' = asked
  BY <1>2 DEF VerdictOf
<1> DEFINE y == [agg[v] EXCEPT !.status = IF Reported(o) THEN "validated" ELSE @]
<1>5. /\ agg' = [agg EXCEPT ![v] = y]
      /\ y.replies = agg[v].replies /\ y.retries = agg[v].retries /\ y.choice = c
      /\ y.status = IF Reported(o) THEN "validated" ELSE "witness_pending"
      /\ y \in Aggregations
  BY <1>0, <1>1, <1>3 DEF Aggregations, Statuses
<1> HIDE DEF y
<1>6. \A w \in VoteIds : /\ agg'[w].replies = agg[w].replies
                         /\ agg'[w].retries = agg[w].retries /\ agg'[w].choice = agg[w].choice
                         /\ agg'[w].status = agg[w].status
                            \/ (w = v /\ agg'[w].status \in {"validated", "witness_pending"})
  BY <1>0, <1>5
<1>7. RepliesReceived' /\ AskedDetermined'
  BY <1>0, <1>4, <1>6 DEF RepliesReceived, AskedDetermined, Determined
<1>8. AwaitingAsked'
  BY <1>0, <1>1, <1>4, <1>6 DEF AwaitingAsked
<1>9. CountsOnce'
  <2>1. \A w \in VoteIds : Given(agg'[w]) = Given(agg[w])
    BY <1>6 DEF Given
  <2>2. ASSUME NEW w \in VoteIds
        PROVE  /\ agg'[w].retries > 0 => agg'[w].retries < Cardinality(Given(agg'[w]))
               /\ agg'[w].status = "dead_letter" =>
                    agg'[w].retries + 1 < Cardinality(Given(agg'[w]))
    BY <1>0, <1>6, <2>1 DEF CountsOnce
  <2> QED
    BY <2>2 DEF CountsOnce, Given
<1>10. DeterminedByBoth'
  <2>1. AddsOnly(finals, finals', v, c)
    BY <1>0, <1>1, <1>3, LoggedAdds
  <2>2. \A role \in Roles : Said(results, v, role, c)
    BY <1>0, <1>1 DEF AskedDetermined, Occurs, Determined, Said
  <2> QED
    BY <1>0, <1>1, <1>4, <2>1, <2>2, Unmoved, PublishedKept
<1>11. OneEach'
  <2>1. agg[v].status \notin Finalised /\ (Reported(o) => y.status \in Finalised)
    BY <1>1, <1>5 DEF Finalised
  <2>2. faults' \in 0..MaxFaults
    BY <1>2 DEF PipelineTyped
  <2> QED
    BY <1>0, <1>1, <1>3, <1>5, <2>1, <2>2, OneEachKept
<1> QED
  BY <1>2, <1>7, <1>8, <1>9, <1>10, <1>11 DEF PipelineInv

LEMMA PipelineKept ==
  ASSUME PipelineInv, PipelineNext
  PROVE  PipelineInv'
<1>0. PipelineTyped /\ faults \in Nat
  BY AggregatorAssumption DEF PipelineInv, PipelineTyped
<1>1. ASSUME NEW v \in VoteIds, NEW n \in Attempts, Redispatch(v, n) PROVE PipelineInv'
  BY <1>0, <1>1, QueueTyped, QuietKept
<1>2. ASSUME NEW q \in queued \cup answered, DetermineFails(q) \/ RequestRedelivered(q)
      PROVE  PipelineInv'
  BY <1>0, <1>2, QueueTyped, QuietKept
<1>3. ASSUME NEW q \in queued \cup answered, NEW role \in Roles, NEW c \in Readings,
             Determine(q, role, c)
      PROVE  PipelineInv'
  <2> DEFINE x == [role |-> role, choice |-> c, attempt |-> q.attempt]
  <2>1. /\ PipelineTyped' /\ UNCHANGED <<asked, finals, agg, faults>>
        /\ results' = Logged(results, q.vote, x, "delivered")
    BY <1>0, <1>3, DetermineTyped
  <2>2. results \in LogsOf(Results) /\ q.vote \in VoteIds /\ x \in Results
    BY <1>0 DEF PipelineTyped, Logs, Requests, Results
  <2> HIDE DEF x
  <2>3. Extends(results, results')
    BY <2>1, <2>2, Grown
  <2> QED
    BY <2>1, <2>3, DetermineKept
<1>4. ASSUME NEW v \in VoteIds, WitnessObserves(v) \/ WitnessFails(v) \/ VerdictRepeated(v)
      PROVE  PipelineInv'
  BY <1>0, <1>4, WitnessTyped, QuietKept
<1>5. ASSUME NEW v \in VoteIds, SkipResult(v) \/ IgnoreVerdict(v) PROVE PipelineInv'
  BY <1>0, <1>5, SkipTyped, QuietKept
<1>6. ASSUME NEW v \in VoteIds, TakeFirst(v) PROVE PipelineInv'
  BY <1>0, <1>6, FirstTyped, CountedKept
<1>7. ASSUME NEW v \in VoteIds, TakeConsensus(v) PROVE PipelineInv'
  BY <1>0, <1>7, ConsensusTyped, CountedKept
<1>8. ASSUME NEW v \in VoteIds, TakeRetry(v) PROVE PipelineInv'
  BY <1>0, <1>8, RetryTyped, CountedKept
<1>9. ASSUME NEW v \in VoteIds, TakeDeadLetter(v) PROVE PipelineInv'
  BY <1>0, <1>9, DeadTyped, CountedKept
<1>10. CASE CommitMessage
  BY <1>0, <1>10, CommitTyped, QuietKept
<1> QED
  BY <1>1, <1>2, <1>3, <1>4, <1>5, <1>6, <1>7, <1>8, <1>9, <1>10, VerdictKept, CrashKept
  DEF PipelineNext, AggregatorStep

LEMMA PipelineStarts == AggregatorInit => PipelineInv
<1> SUFFICES ASSUME AggregatorInit PROVE PipelineInv
  OBVIOUS
<1>1. /\ \A v \in VoteIds : agg[v] = Unknown /\ asked[v] = <<>> /\ finals[v] = <<>>
                            /\ Len(asked[v]) = 0 /\ Len(finals[v]) = 0 /\ Len(events[v]) = 0
                            /\ Len(results[v]) = 0
                            /\ rpos[v] = 0 /\ wpos[v] = 0 /\ epos[v] = 0
      /\ faults = 0
  BY DEF AggregatorInit
<1>2. PipelineTyped
  <2>1. Logs
    BY DEF AggregatorInit, Logs, LogsOf
  <2>2. Offsets
    BY <1>1 DEF AggregatorInit, Offsets, Within
  <2>3. InFlight
    BY DEF AggregatorInit, InFlight, Idle
  <2>4. agg \in [VoteIds -> Aggregations]
    BY UnknownTyped DEF AggregatorInit
  <2> QED
    BY <2>1, <2>2, <2>3, <2>4, AggregatorAssumption DEF AggregatorInit, PipelineTyped
<1>3. RepliesReceived /\ AwaitingAsked /\ CountsOnce
  BY <1>1 DEF RepliesReceived, AwaitingAsked, CountsOnce, Unknown, NoReplies
<1>4. AskedDetermined /\ DeterminedByBoth
  BY <1>1 DEF AskedDetermined, DeterminedByBoth
<1>5. OneEach
  BY <1>1 DEF OneEach, Unknown, Finalised
<1> QED
  BY <1>2, <1>3, <1>4, <1>5 DEF PipelineInv

-----------------------------------------------------------------------------
(***************************************************************************)
(* The session leaves the pipeline alone but for its requests: it          *)
(* dispatches votes, and its faults count with the pipeline's.             *)
(***************************************************************************)
OutsideKept ==
  /\ UNCHANGED <<answered, results, asked, events, finals, rpos, wpos, epos, agg, inflight>>
  /\ \/ UNCHANGED queued
     \/ \E v \in VoteIds, to \in SUBSET Validators : Dispatch(v, 1, to)
  /\ UNCHANGED faults \/ Fault

\* The steps of one motion.
MotionStep(m) ==
  \/ ProposeMotion(m) \/ SecondMotion(m) \/ NoSecond(m)
  \/ DebateRound(m) \/ CallQuestion(m) \/ BeginVoting(m)
  \/ SubmitBatch(m) \/ TallyParsed(m) \/ TallyGated(m) \/ TallyUngated(m)

CastStep(m, a) ==
  \/ CastParsed(m, a) \/ CastFailed(m, a) \/ CastDispatched(m, a)
  \/ CastFallsBack(m, a) \/ CastSync(m, a)

ValidationStep(v) ==
  Mark(v) \/ (\E d \in Deliberators : DeliberatorReturns(v, d)) \/ Adjudicate(v)

ClosingStep == AdjournDirectly \/ BeginDrain \/ FinishAdjourn

\* The end of the process, with the checkpoint that is left of it.
EndStep == InSession /\ Fault /\ (Ends(saved) \/ Ends(Snapshot(mstatus, votes)))

LEMMA Steps ==
  ASSUME Next
  PROVE  \/ \E m \in Motions : MotionStep(m)
         \/ \E m \in Motions, a \in Archons : CastStep(m, a)
         \/ \E v \in VoteIds : ValidationStep(v)
         \/ BreakerCloses \/ ClosingStep \/ EndStep \/ Resume \/ PipelineStep
<1>1. ASSUME Crash \/ Interrupted \/ DrainTimesOut \/ \E m \in Motions : GateTimesOut(m)
      PROVE  EndStep
  BY <1>1 DEF Crash, Interrupted, DrainTimesOut, GateTimesOut, AllCast, InSession, EndStep
<1> QED
  BY <1>1, Zenon DEF Next, MotionStep, CastStep, ValidationStep, ClosingStep

LEMMA Outside ==
  ASSUME Next, ~PipelineStep
  PROVE  OutsideKept
<1>1. ASSUME NEW m \in Motions, MotionStep(m) PROVE OutsideKept
  BY <1>1
  DEF MotionStep, ProposeMotion, SecondMotion, NoSecond, DebateRound, CallQuestion, BeginVoting,
      SubmitBatch, TallyParsed, TallyGated, TallyUngated, OutsideKept, aggVars, topics, offsets
<1>2. ASSUME NEW m \in Motions, NEW a \in Archons, CastStep(m, a) PROVE OutsideKept
  <2>1. <<m, a>> \in VoteIds
    BY DEF VoteIds
  <2>2. CASE CastDispatched(m, a)
    BY <2>1, <2>2 DEF CastDispatched, OutsideKept, offsets
  <2>3. CASE CastFallsBack(m, a)
    BY <2>1, <2>3 DEF CastFallsBack, OutsideKept, offsets
  <2>4. CASE CastParsed(m, a) \/ CastFailed(m, a) \/ CastSync(m, a)
    BY <2>4 DEF CastParsed, CastFailed, CastSync, OutsideKept, aggVars, topics, offsets
  <2> QED
    BY <1>2, <2>2, <2>3, <2>4 DEF CastStep
<1>3. ASSUME NEW v \in VoteIds, ValidationStep(v) PROVE OutsideKept
  BY <1>3 DEF ValidationStep, Mark, DeliberatorReturns, Adjudicate, OutsideKept, aggVars, topics, offsets
<1>4. CASE BreakerCloses \/ ClosingStep \/ Resume
  BY <1>4
  DEF BreakerCloses, ClosingStep, AdjournDirectly, BeginDrain, FinishAdjourn, Resume,
      OutsideKept, aggVars, topics, offsets
<1>5. CASE EndStep
  BY <1>5 DEF EndStep, Ends, OutsideKept, topics, offsets
<1> QED
  BY Steps, <1>1, <1>2, <1>3, <1>4, <1>5

LEMMA OutsideTyped ==
  ASSUME PipelineInv, OutsideKept
  PROVE  PipelineInv'
<1>1. PipelineTyped
  BY DEF PipelineInv
<1>2. queued' \in SUBSET Requests
  <2>1. 1 \in Attempts
    BY AggregatorAssumption DEF Attempts
  <2> QED
    BY <1>1, <2>1, DispatchTyped DEF OutsideKept, PipelineTyped
<1>3. faults' \in 0..MaxFaults /\ faults <= faults'
  BY <1>1, FaultTyped, AggregatorAssumption DEF OutsideKept, PipelineTyped
<1>4. PipelineTyped'
  BY <1>1, <1>2, <1>3 DEF PipelineTyped, OutsideKept, Logs, Offsets, Within, InFlight
<1> QED
  BY <1>3, <1>4, QuietKept DEF OutsideKept

(***************************************************************************)
(* The invariant of the pipeline holds throughout the session.             *)
(***************************************************************************)
THEOREM PipelineInvariant == Spec => []PipelineInv
<1>1. Init => PipelineInv
  BY PipelineStarts DEF Init
<1>2. PipelineInv /\ [Next]_vars => PipelineInv'
  <2> SUFFICES ASSUME PipelineInv, [Next]_vars PROVE PipelineInv'
    OBVIOUS
  <2>1. CASE PipelineStep
    BY <2>1, PipelineKept DEF PipelineStep
  <2>2. CASE Next /\ ~PipelineStep
    BY <2>2, Outside, OutsideTyped
  <2>3. CASE UNCHANGED vars
    <3>1. OutsideKept
      BY <2>3 DEF vars, aggVars, topics, offsets, OutsideKept
    <3> QED
      BY <3>1, OutsideTyped
  <2> QED
    BY <2>1, <2>2, <2>3
<1> QED
  BY <1>1, <1>2, PTL DEF Spec

(***************************************************************************)
(* A choice that is published as validated was determined by both          *)
(* secretaries and put to the witness (_check_consensus and                *)
(* _publish_validated_with_witness of the aggregator).                     *)
(***************************************************************************)
THEOREM PublishedWasDetermined == Spec => []DeterminedByBoth
<1>1. PipelineInv => DeterminedByBoth
  BY DEF PipelineInv
<1> QED
  BY <1>1, PipelineInvariant, PTL

(***************************************************************************)
(* A vote has one final message, and one more for every fault at most      *)
(* (redelivery, a produce that timed out, a restart of the aggregator).    *)
(***************************************************************************)
THEOREM FinalOnce == Spec => []OneFinalMessage
<1>1. PipelineInv => OneFinalMessage
  <2> SUFFICES ASSUME PipelineInv, NEW v \in VoteIds PROVE Len(finals[v]) <= 1 + faults
    BY DEF OneFinalMessage
  <2>1. /\ faults \in Nat /\ Len(finals[v]) \in Nat
        /\ Len(finals[v]) <= faults + (IF agg[v].status \in Finalised THEN 1 ELSE 0)
    BY AggregatorAssumption DEF PipelineInv, PipelineTyped, Logs, LogsOf, OneEach
  <2> QED
    BY <2>1
<1> QED
  BY <1>1, PipelineInvariant, PTL

(***************************************************************************)
(* Every retry the aggregator counts, and the dead letter after them,      *)
(* stands for a response by a further role and attempt, whatever is        *)
(* delivered again.                                                        *)
(***************************************************************************)
THEOREM ResponsesCountOnce == Spec => []CountedOnce
<1>1. PipelineInv => CountedOnce
  <2> SUFFICES ASSUME PipelineInv, NEW v \in VoteIds
               PROVE  /\ agg[v].retries > 0 => agg[v].retries < Cardinality(Heard(v))
                      /\ agg[v].status = "dead_letter" =>
                           agg[v].retries + 1 < Cardinality(Heard(v))
    BY DEF CountedOnce
  <2>0. agg[v] \in Aggregations /\ agg[v].retries \in Nat
    BY AggregatorAssumption DEF PipelineInv, PipelineTyped, Aggregations
  <2>1. Given(agg[v]) \subseteq Heard(v)
    <3> SUFFICES ASSUME NEW role \in Roles, NEW n \in Attempts,
                        agg[v].replies[role][n] # NoChoice
                 PROVE  <<role, n>> \in Heard(v)
      BY DEF Given
    <3> DEFINE c == agg[v].replies[role][n]
    <3>1. PICK i \in 1..Len(results[v]) : results[v][i] = Reply(role, n, c)
      BY DEF PipelineInv, RepliesReceived, Occurs
    <3>2. results[v][i].role = role /\ results[v][i].attempt = n
      BY <3>1 DEF Reply
    <3> QED
      BY <3>2 DEF Heard
  <2>2. IsFiniteSet(Heard(v))
    BY PairsFinite, FS_Subset DEF Heard
  <2>3. /\ Cardinality(Given(agg[v])) \in Nat /\ Cardinality(Heard(v)) \in Nat
        /\ Cardinality(Given(agg[v])) <= Cardinality(Heard(v))
    BY <2>1, <2>2, FS_Subset, FS_CardinalityType
  <2>4. /\ agg[v].retries > 0 => agg[v].retries < Cardinality(Given(agg[v]))
        /\ agg[v].status = "dead_letter" => agg[v].retries + 1 < Cardinality(Given(agg[v]))
    BY DEF PipelineInv, CountsOnce
  <2> QED
    BY <2>0, <2>3, <2>4
<1> QED
  BY <1>1, PipelineInvariant, PTL

-----------------------------------------------------------------------------
(***************************************************************************)
(* Without a fault the aggregator forgets nothing: every result it has     *)
(* taken up is remembered or its vote is closed, and a vote that both      *)
(* secretaries have answered is decided.                                   *)
(***************************************************************************)

\* How many results of the vote the aggregator has taken up.
TakenUp(v) == IF inflight = <<"result", v>> THEN rpos[v] + 1 ELSE rpos[v]

Remembered(v) ==
  \A i \in 1..Len(results[v]) :
    i <= TakenUp(v) => Closed(agg[v]) \/ Seen(agg[v], results[v][i])

Silent(a, role) == \A n \in Attempts : a.replies[role][n] = NoChoice

\* A vote is undecided only while a secretary has been silent.
DecidedWhenHeard(a) ==
  /\ a.status \notin {"consensus", "disagreement"}
  /\ a.status \in {"unknown", "pending"} => \E role \in Roles : Silent(a, role)

Faultless == faults = 0 => \A v \in VoteIds : Remembered(v) /\ DecidedWhenHeard(agg[v])

LEMMA LatestSilent ==
  ASSUME NEW a \in Aggregations, NEW role \in Roles, Latest(a, role) = NoChoice
  PROVE  Silent(a, role)
<1> DEFINE S == {n \in Attempts : a.replies[role][n] # NoChoice}
<1>1. CASE S # {}
  <2> DEFINE g == CHOOSE i \in S : \A k \in S : k <= i
  <2>1. g \in S
    BY <1>1, Greatest
  <2>2. Latest(a, role) = a.replies[role][g]
    BY <1>1 DEF Latest
  <2>3. a.replies[role][g] # NoChoice
    BY <2>1
  <2> QED
    BY <2>2, <2>3
<1> QED
  BY <1>1 DEF Silent

\* A result that is taken up, and the record of its vote that it leaves.
LEMMA TakenIsRemembered ==
  ASSUME PipelineTyped, Faultless, faults = 0, NEW v \in VoteIds, NEW r \in Results, NEW y,
         Receives(v, r), results' = results, rpos' = rpos, agg' = [agg EXCEPT ![v] = y],
         \A x \in Results : Closed(agg[v]) \/ Seen(agg[v], x) => Closed(y) \/ Seen(y, x),
         Closed(y) \/ Seen(y, r), DecidedWhenHeard(y)
  PROVE  Faultless'
<1>0. /\ agg \in [VoteIds -> Aggregations] /\ results \in LogsOf(Results)
      /\ rpos \in [VoteIds -> Nat]
  BY DEF PipelineTyped, Logs, Offsets
<1>1. /\ inflight = Idle /\ inflight' = <<"result", v>>
      /\ r = results[v][rpos[v] + 1]
  BY DEF Receives, ResultWaits
<1>2. ASSUME NEW w \in VoteIds PROVE (Remembered(w) /\ DecidedWhenHeard(agg[w]))'
  <2>1. CASE w = v
    <3>1. agg'[w] = y
      BY <1>0, <2>1
    <3>2. ASSUME NEW i \in 1..Len(results[v]), i <= rpos[v] + 1
          PROVE  Closed(y) \/ Seen(y, results[v][i])
      <4>0. results[v][i] \in Results /\ i \in Nat /\ rpos[v] \in Nat
        BY <1>0 DEF LogsOf
      <4>1. CASE i = rpos[v] + 1
        BY <1>1, <4>1
      <4>2. CASE i <= rpos[v]
        <5>1. TakenUp(v) = rpos[v]
          BY <1>1 DEF TakenUp, Idle
        <5> QED
          BY <4>0, <4>2, <5>1 DEF Faultless, Remembered
      <4> QED
        BY <3>2, <4>0, <4>1, <4>2
    <3>3. TakenUp(w)' = rpos[v] + 1
      BY <1>1, <2>1 DEF TakenUp
    <3> QED
      BY <2>1, <3>1, <3>2, <3>3 DEF Remembered, Closed, Seen
  <2>2. CASE w # v
    <3>1. agg'[w] = agg[w] /\ TakenUp(w)' = TakenUp(w)
      BY <1>0, <1>1, <2>2 DEF TakenUp, Idle
    <3>2. Remembered(w) /\ DecidedWhenHeard(agg[w])
      BY DEF Faultless
    <3>3. Remembered(w)'
      BY <3>1, <3>2 DEF Remembered, Closed, Seen
    <3>4. DecidedWhenHeard(agg[w])'
      BY <3>1, <3>2 DEF DecidedWhenHeard, Silent
    <3> QED
      BY <3>3, <3>4
  <2> QED
    BY <2>1, <2>2
<1> QED
  BY <1>2 DEF Faultless

\* A result that counts is remembered beside those before it.
LEMMA CountedIsRemembered ==
  ASSUME PipelineTyped, Faultless, faults = 0, NEW v \in VoteIds, NEW r \in Results, NEW y,
         Takes(v, r, With(agg[v], r)), results' = results, rpos' = rpos,
         agg' = [agg EXCEPT ![v] = y], y.replies = With(agg[v], r).replies, DecidedWhenHeard(y)
  PROVE  Faultless'
<1>1. Receives(v, r) /\ ~Closed(agg[v])
  BY DEF Takes
<1>2. agg[v] \in Aggregations
  BY DEF PipelineTyped
<1>3. \A role \in Roles, n \in Attempts :
        y.replies[role][n] = IF role = r.role /\ n = r.attempt THEN r.choice
                             ELSE agg[v].replies[role][n]
  BY <1>2, WithAdds
<1>4. r.role \in Roles /\ r.attempt \in Attempts /\ r.choice # NoChoice
  BY Words DEF Results
<1>5. \A x \in Results : Seen(agg[v], x) => Seen(y, x)
  BY <1>3, <1>4 DEF Seen, Results
<1>6. Seen(y, r)
  BY <1>3, <1>4 DEF Seen
<1> QED
  BY <1>1, <1>5, <1>6, TakenIsRemembered

\* No fault so far, so every produce was delivered.
LEMMA FaultlessProduce ==
  ASSUME PipelineTyped, NEW o \in Produces, Produced(o), faults = 0, faults' = 0
  PROVE  o = "delivered"
  BY ProducedTyped

LEMMA TakeFaultless ==
  ASSUME PipelineTyped, Faultless, faults = 0, faults' = 0, NEW v \in VoteIds,
         TakeFirst(v) \/ TakeConsensus(v) \/ TakeRetry(v) \/ TakeDeadLetter(v)
  PROVE  Faultless'
<1>0. agg[v] \in Aggregations
  BY DEF PipelineTyped
<1>1. ASSUME TakeFirst(v) PROVE Faultless'
  <2>1. PICK r \in Results : /\ Takes(v, r, With(agg[v], r))
                             /\ \E role \in Roles : Latest(With(agg[v], r), role) = NoChoice
                             /\ agg' = [agg EXCEPT ![v] = With(agg[v], r)]
                             /\ UNCHANGED <<topics, offsets, faults>>
    BY <1>1 DEF TakeFirst
  <2>2. With(agg[v], r) \in Aggregations
        /\ With(agg[v], r).status = IF agg[v].status = "unknown" THEN "pending" ELSE agg[v].status
    BY <1>0, WithAdds
  <2>3. \E role \in Roles : Silent(With(agg[v], r), role)
    BY <2>1, <2>2, LatestSilent
  <2>4. DecidedWhenHeard(With(agg[v], r))
    BY <2>2, <2>3 DEF Faultless, DecidedWhenHeard
  <2> QED
    BY <2>1, <2>4, CountedIsRemembered DEF topics, offsets
<1>2. ASSUME TakeConsensus(v) PROVE Faultless'
  <2>0. PICK r \in Results, o \in Produces :
          /\ Takes(v, r, With(agg[v], r)) /\ Produced(o) /\ UNCHANGED <<results, offsets>>
          /\ \E c : agg' = [agg EXCEPT ![v] = [With(agg[v], r) EXCEPT
                      !.choice = c,
                      !.status = IF Reported(o) THEN "witness_pending" ELSE "consensus"]]
    BY <1>2 DEF TakeConsensus
  <2>1. PICK c : agg' = [agg EXCEPT ![v] = [With(agg[v], r) EXCEPT
                   !.choice = c,
                   !.status = IF Reported(o) THEN "witness_pending" ELSE "consensus"]]
    BY <2>0
  <2> DEFINE y == [With(agg[v], r) EXCEPT !.choice = c,
                       !.status = IF Reported(o) THEN "witness_pending" ELSE "consensus"]
  <2>2. o = "delivered"
    BY <2>0, FaultlessProduce
  <2>3. With(agg[v], r) \in Aggregations
    BY <1>0, WithAdds
  <2>4. y.replies = With(agg[v], r).replies /\ y.status = "witness_pending"
    BY <2>2, <2>3 DEF Aggregations, Reported
  <2>5. agg' = [agg EXCEPT ![v] = y] /\ results' = results /\ rpos' = rpos
    BY <2>0, <2>1 DEF offsets
  <2> HIDE DEF y
  <2>6. DecidedWhenHeard(y)
    BY <2>4 DEF DecidedWhenHeard
  <2> QED
    BY <2>0, <2>4, <2>5, <2>6, CountedIsRemembered
<1>3. ASSUME TakeRetry(v) PROVE Faultless'
  <2>1. PICK r \in Results :
          /\ Takes(v, r, With(agg[v], r))
          /\ agg' = [agg EXCEPT ![v] = [With(agg[v], r) EXCEPT !.retries = @ + 1,
                                                               !.status = "retry_pending"]]
          /\ UNCHANGED <<topics, offsets>>
    BY <1>3 DEF TakeRetry
  <2> DEFINE y == [With(agg[v], r) EXCEPT !.retries = @ + 1, !.status = "retry_pending"]
  <2>2. With(agg[v], r) \in Aggregations
    BY <1>0, WithAdds
  <2>3. y.replies = With(agg[v], r).replies /\ y.status = "retry_pending"
    BY <2>2 DEF Aggregations
  <2>4. agg' = [agg EXCEPT ![v] = y] /\ results' = results /\ rpos' = rpos
    BY <2>1 DEF topics, offsets
  <2> HIDE DEF y
  <2>5. DecidedWhenHeard(y)
    BY <2>3 DEF DecidedWhenHeard
  <2> QED
    BY <2>1, <2>3, <2>4, <2>5, CountedIsRemembered
<1>4. ASSUME TakeDeadLetter(v) PROVE Faultless'
  <2>1. PICK r \in Results, o \in Produces :
          /\ Takes(v, r, With(agg[v], r))
          /\ agg' = [agg EXCEPT ![v] = [With(agg[v], r) EXCEPT
                       !.status = IF Reported(o) THEN "dead_letter" ELSE "disagreement"]]
          /\ Produced(o)
          /\ UNCHANGED <<results, offsets>>
    BY <1>4 DEF TakeDeadLetter
  <2> DEFINE y == [With(agg[v], r) EXCEPT
                     !.status = IF Reported(o) THEN "dead_letter" ELSE "disagreement"]
  <2>2. o = "delivered"
    BY <2>1, FaultlessProduce
  <2>3. With(agg[v], r) \in Aggregations
    BY <1>0, WithAdds
  <2>4. y.replies = With(agg[v], r).replies /\ y.status = "dead_letter"
    BY <2>2, <2>3 DEF Aggregations, Reported
  <2>5. agg' = [agg EXCEPT ![v] = y] /\ results' = results /\ rpos' = rpos
    BY <2>1 DEF offsets
  <2> HIDE DEF y
  <2>6. DecidedWhenHeard(y)
    BY <2>4 DEF DecidedWhenHeard
  <2> QED
    BY <2>1, <2>4, <2>5, <2>6, CountedIsRemembered
<1> QED
  BY <1>1, <1>2, <1>3, <1>4

\* Steps that take nothing up and change no record leave it so.
LEMMA QuietFaultless ==
  ASSUME PipelineTyped, Faultless, faults = 0, UNCHANGED agg,
         \A v \in VoteIds : TakenUp(v)' = TakenUp(v),
         Extends(results, results')
  PROVE  Faultless'
<1>1. ASSUME NEW v \in VoteIds PROVE (Remembered(v) /\ DecidedWhenHeard(agg[v]))'
  <2>0. /\ TakenUp(v) \in Nat /\ TakenUp(v) <= Len(results[v]) /\ Len(results[v]) \in Nat
        /\ TakenUp(v)' = TakenUp(v)
    BY DEF PipelineTyped, Logs, LogsOf, Offsets, Within, InFlight, TakenUp
  <2>1. ASSUME NEW i \in 1..Len(results'[v]), i <= TakenUp(v)'
        PROVE  Closed(agg[v]) \/ Seen(agg[v], results'[v][i])
    <3>1. i \in 1..Len(results[v]) /\ i <= TakenUp(v)
      BY <2>0, <2>1
    <3> QED
      BY <3>1 DEF Faultless, Remembered, Extends
  <2>2. DecidedWhenHeard(agg[v])
    BY DEF Faultless
  <2> QED
    BY <2>1, <2>2 DEF Remembered, DecidedWhenHeard, Closed, Seen, Silent
<1> QED
  BY <1>1 DEF Faultless

\* The pipeline's faults only add up.
LEMMA FaultsGrow ==
  ASSUME PipelineTyped, PipelineNext, faults' = 0
  PROVE  faults = 0
<1> DEFINE Counts == UNCHANGED faults \/ Fault \/ \E o \in Produces : Produced(o)
<1>1. ASSUME NEW v \in VoteIds, AggregatorStep(v) PROVE Counts
  <2>1. CASE SkipResult(v) \/ TakeFirst(v) \/ IgnoreVerdict(v)
    BY <2>1 DEF SkipResult, TakeFirst, IgnoreVerdict
  <2>2. CASE TakeRetry(v) \/ TakeVerdict(v)
    BY <2>2 DEF TakeRetry, TakeVerdict
  <2>3. CASE TakeConsensus(v)
    BY <2>3 DEF TakeConsensus
  <2>4. CASE TakeDeadLetter(v)
    BY <2>4 DEF TakeDeadLetter
  <2> QED
    BY <1>1, <2>1, <2>2, <2>3, <2>4 DEF AggregatorStep
<1>2. ASSUME NEW v \in VoteIds,
             \/ \E n \in Attempts : Redispatch(v, n)
             \/ WitnessObserves(v) \/ WitnessFails(v) \/ VerdictRepeated(v)
      PROVE  Counts
  BY <1>2 DEF Redispatch, WitnessObserves, WitnessFails, VerdictRepeated
<1>3. ASSUME NEW q \in queued \cup answered,
             \/ \E role \in Roles, c \in Readings : Determine(q, role, c)
             \/ DetermineFails(q) \/ RequestRedelivered(q)
      PROVE  Counts
  BY <1>3 DEF Determine, DetermineFails, RequestRedelivered
<1>4. CommitMessage \/ AggregatorCrashes => Counts
  BY DEF CommitMessage, AggregatorCrashes
<1>5. Counts
  BY <1>1, <1>2, <1>3, <1>4 DEF PipelineNext
<1> QED
  BY <1>5, FaultTyped, ProducedTyped

LEMMA OthersFaultless ==
  ASSUME PipelineTyped, Faultless, faults = 0, faults' = 0, PipelineNext,
         \A v \in VoteIds : ~(TakeFirst(v) \/ TakeConsensus(v) \/ TakeRetry(v) \/ TakeDeadLetter(v))
  PROVE  Faultless'
<1>0. /\ results \in LogsOf(Results) /\ Extends(results, results)
      /\ rpos \in [VoteIds -> Nat] /\ \A v \in VoteIds : TakenUp(v) \in Nat
      /\ agg \in [VoteIds -> Aggregations]
  BY Unmoved DEF PipelineTyped, Logs, Offsets, TakenUp
<1>1. ASSUME NEW v \in VoteIds, NEW n \in Attempts, Redispatch(v, n) PROVE Faultless'
  <2>1. UNCHANGED <<agg, results, rpos, inflight>>
    BY <1>1 DEF Redispatch, offsets
  <2> QED
    BY <1>0, <2>1, QuietFaultless DEF TakenUp
<1>2. ASSUME NEW v \in VoteIds, WitnessObserves(v) \/ WitnessFails(v) \/ VerdictRepeated(v)
      PROVE  Faultless'
  <2>1. UNCHANGED <<agg, results, rpos, inflight>>
    BY <1>2 DEF WitnessObserves, WitnessFails, VerdictRepeated, topics, offsets
  <2> QED
    BY <1>0, <2>1, QuietFaultless DEF TakenUp
<1>3. ASSUME NEW q \in queued \cup answered, DetermineFails(q) \/ RequestRedelivered(q)
      PROVE  Faultless'
  <2>1. UNCHANGED <<agg, results, rpos, inflight>>
    BY <1>3 DEF DetermineFails, RequestRedelivered, offsets
  <2> QED
    BY <1>0, <2>1, QuietFaultless DEF TakenUp
<1>4. ASSUME NEW q \in queued \cup answered, NEW role \in Roles, NEW c \in Readings,
             Determine(q, role, c)
      PROVE  Faultless'
  <2> DEFINE x == [role |-> role, choice |-> c, attempt |-> q.attempt]
  <2>1. UNCHANGED <<agg, rpos, inflight>> /\ results' = Logged(results, q.vote, x, "delivered")
    BY <1>4, DetermineTyped DEF Determine, offsets
  <2>2. q.vote \in VoteIds /\ x \in Results
    BY DEF PipelineTyped, Requests, Results
  <2> HIDE DEF x
  <2>3. Extends(results, results')
    BY <1>0, <2>1, <2>2, Grown
  <2> QED
    BY <1>0, <2>1, <2>3, QuietFaultless DEF TakenUp
<1>5. ASSUME NEW v \in VoteIds, SkipResult(v) PROVE Faultless'
  <2>1. PICK r \in Results : Receives(v, r) /\ (Closed(agg[v]) \/ Seen(agg[v], r))
    BY <1>5 DEF SkipResult
  <2>2. UNCHANGED <<agg, results, rpos>>
    BY <1>5 DEF SkipResult, topics, offsets
  <2>3. agg' = [agg EXCEPT ![v] = agg[v]] /\ DecidedWhenHeard(agg[v])
    BY <1>0, <2>2 DEF Faultless
  <2> QED
    BY <2>1, <2>2, <2>3, TakenIsRemembered
<1>6. ASSUME NEW v \in VoteIds, IgnoreVerdict(v) PROVE Faultless'
  <2>1. UNCHANGED <<agg, results, rpos>> /\ inflight = Idle /\ inflight' = <<"event", v>>
    BY <1>6 DEF IgnoreVerdict, ReceivesEvent, topics, offsets
  <2> QED
    BY <1>0, <2>1, QuietFaultless DEF TakenUp, Idle
<1>7. ASSUME NEW v \in VoteIds, TakeVerdict(v) PROVE Faultless'
  <2>1. PICK o \in Produces :
          agg' = [agg EXCEPT ![v].status = IF Reported(o) THEN "validated" ELSE @] /\ Produced(o)
    BY <1>7 DEF TakeVerdict
  <2>2. /\ UNCHANGED <<results, rpos>> /\ inflight = Idle /\ inflight' = <<"event", v>>
        /\ o = "delivered"
    BY <1>7, <2>1, FaultlessProduce DEF TakeVerdict, ReceivesEvent, offsets
  <2>3. /\ agg'[v].status = "validated"
        /\ \A w \in VoteIds \ {v} : agg'[w] = agg[w]
    BY <1>0, <2>1, <2>2 DEF Reported, Aggregations
  <2>4. \A w \in VoteIds : TakenUp(w)' = TakenUp(w)
    BY <2>2 DEF TakenUp, Idle
  <2>5. ASSUME NEW w \in VoteIds PROVE (Remembered(w) /\ DecidedWhenHeard(agg[w]))'
    <3>1. CASE w = v
      BY <2>3, <3>1 DEF Remembered, DecidedWhenHeard, Closed, Finalised
    <3>2. CASE w # v
      <4>1. Remembered(w) /\ DecidedWhenHeard(agg[w]) /\ agg'[w] = agg[w]
        BY <2>3, <3>2 DEF Faultless
      <4>2. Remembered(w)'
        BY <2>2, <2>4, <4>1 DEF Remembered, Closed, Seen
      <4> QED
        BY <4>1, <4>2 DEF DecidedWhenHeard, Silent
    <3> QED
      BY <3>1, <3>2
  <2> QED
    BY <2>5 DEF Faultless
<1>8. CASE CommitMessage
  <2>1. /\ UNCHANGED <<agg, results>> /\ inflight # Idle /\ inflight' = Idle
        /\ rpos' = IF inflight[1] = "result" THEN [rpos EXCEPT ![inflight[2]] = @ + 1] ELSE rpos
    BY <1>8 DEF CommitMessage, topics
  <2>2. PICK w \in VoteIds : inflight = <<"result", w>> \/ inflight = <<"event", w>>
    BY <2>1 DEF PipelineTyped, InFlight
  <2>3. \A v \in VoteIds : TakenUp(v)' = TakenUp(v)
    BY <1>0, <2>1, <2>2 DEF TakenUp, Idle
  <2> QED
    BY <1>0, <2>1, <2>3, QuietFaultless
<1>9. CASE AggregatorCrashes
  BY <1>9, FaultTyped DEF AggregatorCrashes
<1> QED
  BY <1>1, <1>2, <1>3, <1>4, <1>5, <1>6, <1>7, <1>8, <1>9 DEF PipelineNext, AggregatorStep

LEMMA FaultlessInvariant == Spec => []Faultless
<1>1. Init => Faultless
  <2> SUFFICES ASSUME AggregatorInit, NEW v \in VoteIds
               PROVE  Remembered(v) /\ DecidedWhenHeard(agg[v])
    BY DEF Init, Faultless
  <2>1. results[v] = <<>> /\ agg[v] = Unknown /\ "text" \in Roles
    BY DEF AggregatorInit, Roles
  <2> QED
    BY <2>1 DEF Remembered, DecidedWhenHeard, Silent, Unknown, NoReplies
<1>2. PipelineInv /\ PipelineInv' /\ Faultless /\ [Next]_vars => Faultless'
  <2> SUFFICES ASSUME PipelineTyped, PipelineTyped', Faultless, [Next]_vars, faults' = 0
               PROVE  Faultless'
    BY DEF PipelineInv, Faultless
  <2>0. Extends(results, results) /\ (\A v \in VoteIds : TakenUp(v) \in Nat)
    BY Unmoved DEF PipelineTyped, Offsets, TakenUp
  <2>1. CASE PipelineStep
    <3>1. PipelineNext
      BY <2>1 DEF PipelineStep
    <3>2. faults = 0
      BY <3>1, FaultsGrow
    <3> QED
      BY <3>1, <3>2, TakeFaultless, OthersFaultless
  <2>2. CASE (Next /\ ~PipelineStep) \/ UNCHANGED vars
    <3>1. UNCHANGED <<results, rpos, agg, inflight>> /\ (UNCHANGED faults \/ Fault)
      BY <2>2, Outside DEF OutsideKept, vars, aggVars, topics, offsets
    <3>2. faults = 0
      BY <3>1, FaultTyped
    <3> QED
      BY <2>0, <3>1, <3>2, QuietFaultless DEF TakenUp
  <2> QED
    BY <2>1, <2>2
<1> QED
  BY <1>1, <1>2, PipelineInvariant, PTL DEF Spec

\* The aggregator has committed a response of each secretary.
HeardFromBoth(v) == \A role \in Roles : \E i \in 1..rpos[v] : results[v][i].role = role

(***************************************************************************)
(* Without a fault no response is lost between a commit and the memory of  *)
(* the aggregator: a vote of which both secretaries' responses are         *)
(* committed awaits its witness or its retry, or is finalised, whatever    *)
(* the attempts, and in whatever order their responses came.               *)
(***************************************************************************)
THEOREM BothHeardIsDecided ==
  Spec => [](faults = 0 => \A v \in VoteIds : HeardFromBoth(v) =>
               agg[v].status \in {"witness_pending", "retry_pending"} \cup Finalised)
<1>1. PipelineInv /\ Faultless /\ faults = 0 => \A v \in VoteIds : HeardFromBoth(v) =>
        agg[v].status \in {"witness_pending", "retry_pending"} \cup Finalised
  <2> SUFFICES ASSUME PipelineTyped, Faultless, faults = 0, NEW v \in VoteIds, HeardFromBoth(v),
                      ~Closed(agg[v])
               PROVE  agg[v].status \in {"witness_pending", "retry_pending"}
    BY DEF PipelineInv, Closed
  <2>0. /\ results \in LogsOf(Results) /\ rpos[v] \in Nat /\ rpos[v] <= Len(results[v])
        /\ agg[v].status \in Statuses /\ rpos[v] <= TakenUp(v)
    BY DEF PipelineTyped, Logs, Offsets, Within, Aggregations, TakenUp
  <2>1. ASSUME NEW role \in Roles PROVE ~Silent(agg[v], role)
    <3>1. PICK i \in 1..rpos[v] : results[v][i].role = role
      BY DEF HeardFromBoth
    <3>2. i \in 1..Len(results[v]) /\ i <= TakenUp(v) /\ results[v][i] \in Results
      <4>1. Len(results[v]) \in Nat /\ TakenUp(v) \in Nat
        BY <2>0 DEF LogsOf, TakenUp
      <4>2. i \in 1..Len(results[v]) /\ i <= TakenUp(v)
        BY <2>0, <4>1
      <4> QED
        BY <2>0, <4>2 DEF LogsOf
    <3>3. Seen(agg[v], results[v][i])
      BY <3>2 DEF Faultless, Remembered
    <3> QED
      BY <3>1, <3>2, <3>3 DEF Seen, Silent, Results
  <2>2. DecidedWhenHeard(agg[v])
    BY DEF Faultless
  <2> QED
    BY <2>0, <2>1, <2>2 DEF DecidedWhenHeard, Statuses, Closed, Finalised
<1> QED
  BY <1>1, FaultlessInvariant, PipelineInvariant, PTL

-----------------------------------------------------------------------------
(***************************************************************************)
(* The session.  Every step of it is one of the following, stated by what  *)
(* it does to the session's variables; the pipeline's matter to it only    *)
(* by the final messages.                                                  *)
(***************************************************************************)
fixed == <<mode, present>>

\* A motion advances, or finds no second.
Advances(m) ==
  /\ phase = "open" /\ current' \in {m, NoMotion}
  /\ \/ current = NoMotion /\ mstatus[m] = "none"
     \/ current = m /\ mstatus[m] \in {"proposed", "seconded", "debating", "called"}
  /\ \E s \in {"proposed", "seconded", "debating", "called", "voting"} :
       mstatus' = [mstatus EXCEPT ![m] = s]
  /\ \/ saved' = saved
     \/ saved' = Snapshot(mstatus', votes) /\ mstatus'[m] # "voting" /\ mstatus[m] # "none"
        /\ current' = m
  /\ UNCHANGED <<fixed, phase, votes, payload, jobVars, trackVars, history, finals>>

\* A vote is recorded.
Records(m, a) ==
  /\ phase = "open" /\ current = m /\ mstatus[m] = "voting" /\ votes[m][a] = NoChoice
  /\ \E c \in Choices : votes' = [votes EXCEPT ![m][a] = c]
  /\ \/ payload' = payload
     \/ mode = "inprocess" /\ payload' = payload \cup {<<m, a>>}
  /\ \/ track' = track
     \/ mode = "kafka" /\ track' = [track EXCEPT ![<<m, a>>] = "pending"]
  /\ breaker' \in BOOLEAN
  /\ UNCHANGED <<fixed, phase, current, mstatus, jobVars, saved, validated, mpos, history, finals>>

Submits(m) ==
  /\ phase = "open" /\ current = m /\ mstatus[m] = "voting"
  /\ job' = [v \in VoteIds |-> IF v \in payload THEN "running" ELSE job[v]]
  /\ submitted' = submitted \cup payload
  /\ payload' = {} /\ payload # {}
  /\ UNCHANGED <<fixed, phase, current, mstatus, votes, heard, verdict, saved, trackVars,
                 ungated, lost, finals>>

\* The motion is tallied with its recorded votes.
Tallies(m) ==
  /\ phase = "open" /\ current = m /\ mstatus[m] = "voting"
  /\ \/ mode # "kafka" /\ payload = {} /\ ungated' = ungated
     \/ mode = "kafka" /\ ungated' = ungated \cup {m}
  /\ Concludes(m, votes[m])
  /\ UNCHANGED <<fixed, phase, payload, jobVars, trackVars, submitted, lost, finals>>

\* The motion is tallied after the gate.
Gated(m) ==
  /\ phase = "open" /\ current = m /\ mstatus[m] = "voting" /\ mode = "kafka"
  /\ \A v \in VoteIds : track[v] # "pending"
  /\ track' = [v \in VoteIds |-> IF track[v] = "dlq" THEN "fallback" ELSE track[v]]
  /\ \E ballot \in [Archons -> Choices \cup {NoChoice}] :
       /\ \A a \in Archons : ballot[a] = votes[m][a] \/ ballot[a] \in Overrides(a)
       /\ Concludes(m, ballot)
  /\ UNCHANGED <<fixed, phase, payload, jobVars, validated, mpos, breaker, history, finals>>

session == <<fixed, phase, motionVars, jobVars, saved, trackVars, history>>

\* The final messages grow; nothing of the session changes.
PipelineMoves == Extends(finals, finals') /\ UNCHANGED session

SessionStep ==
  \/ \E m \in Motions : Advances(m) \/ Submits(m) \/ Tallies(m) \/ Gated(m)
  \/ \E m \in Motions, a \in Archons : Records(m, a)
  \/ \E v \in VoteIds :
       Mark(v) \/ (\E d \in Deliberators : DeliberatorReturns(v, d)) \/ Adjudicate(v)
  \/ BreakerCloses
  \/ AdjournDirectly \/ BeginDrain \/ FinishAdjourn
  \/ EndStep \/ Resume
  \/ PipelineMoves

LEMMA AdvanceStep ==
  ASSUME NEW m \in Motions, SessionTypeOK,
         \/ ProposeMotion(m) \/ SecondMotion(m) \/ NoSecond(m)
         \/ DebateRound(m) \/ CallQuestion(m) \/ BeginVoting(m)
  PROVE  Advances(m)
<1>0. mstatus \in [Motions -> MotionStatus]
  BY DEF SessionTypeOK
<1>1. UNCHANGED <<fixed, phase, votes, payload, jobVars, trackVars, history, finals>>
  BY DEF ProposeMotion, SecondMotion, NoSecond, DebateRound, CallQuestion, BeginVoting,
         fixed, aggVars, topics
<1>2. CASE NoSecond(m)
  <2>1. mstatus' = [mstatus EXCEPT ![m] = "proposed"]
    BY <1>0, <1>2 DEF NoSecond
  <2> QED
    BY <1>1, <1>2, <2>1 DEF NoSecond, Advances
<1>3. CASE DebateRound(m)
  BY <1>0, <1>1, <1>3 DEF DebateRound, Advances
<1>4. CASE ProposeMotion(m) \/ SecondMotion(m) \/ CallQuestion(m) \/ BeginVoting(m)
  BY <1>1, <1>4 DEF ProposeMotion, SecondMotion, CallQuestion, BeginVoting, Advances
<1> QED
  BY <1>2, <1>3, <1>4

LEMMA RecordStep ==
  ASSUME NEW m \in Motions, NEW a \in Archons, SessionTypeOK, CastStep(m, a)
  PROVE  Records(m, a)
<1>1. /\ UNCHANGED <<fixed, phase, current, mstatus, jobVars, saved, validated, mpos, history, finals>>
      /\ breaker' \in BOOLEAN
  BY DEF CastStep, CastParsed, CastFailed, CastDispatched, CastFallsBack, CastSync,
         fixed, aggVars, topics, trackVars, SessionTypeOK
<1>2. Awaited(m, a) /\ \E c \in Choices : Recorded(m, a, c)
  BY VoteAssumption
  DEF CastStep, CastParsed, CastFailed, CastDispatched, CastFallsBack, CastSync, Choices
<1>3. /\ \/ payload' = payload
         \/ mode = "inprocess" /\ payload' = payload \cup {<<m, a>>}
      /\ \/ track' = track
         \/ mode = "kafka" /\ track' = [track EXCEPT ![<<m, a>>] = "pending"]
  BY DEF CastStep, CastParsed, CastFailed, CastDispatched, CastFallsBack, CastSync, trackVars
<1> QED
  BY <1>1, <1>2, <1>3 DEF Awaited, Recorded, Records

LEMMA TallyStep ==
  ASSUME NEW m \in Motions, SubmitBatch(m) \/ TallyParsed(m) \/ TallyGated(m) \/ TallyUngated(m)
  PROVE  Submits(m) \/ Tallies(m) \/ Gated(m)
<1>1. CASE SubmitBatch(m)
  BY <1>1 DEF SubmitBatch, AllCast, Submits, fixed, aggVars, topics
<1>2. CASE TallyParsed(m)
  BY <1>2 DEF TallyParsed, AllCast, Tallies, fixed, aggVars, topics, history
<1>3. CASE TallyUngated(m)
  BY <1>3 DEF TallyUngated, AllCast, Tallies, fixed, aggVars, topics
<1>4. CASE TallyGated(m)
  <2>1. /\ phase = "open" /\ current = m /\ mstatus[m] = "voting" /\ mode = "kafka"
        /\ \A v \in VoteIds : track[v] # "pending"
        /\ track' = [v \in VoteIds |-> IF track[v] = "dlq" THEN "fallback" ELSE track[v]]
        /\ UNCHANGED <<fixed, phase, payload, jobVars, validated, mpos, breaker, history, finals>>
    BY <1>4 DEF TallyGated, AllCast, GateOpens, fixed, aggVars, topics
  <2>2. PICK ballot \in [Archons -> Choices \cup {NoChoice}] :
          /\ \A a \in Archons : IF Overrides(a) = {} \/ a \notin present
                                THEN ballot[a] = votes[m][a] ELSE ballot[a] \in Overrides(a)
          /\ Concludes(m, ballot)
    BY <1>4, Zenon DEF TallyGated
  <2>3. \A a \in Archons : ballot[a] = votes[m][a] \/ ballot[a] \in Overrides(a)
    BY <2>2
  <2> QED
    BY <2>1, <2>2, <2>3 DEF Gated
<1> QED
  BY <1>1, <1>2, <1>3, <1>4

LEMMA FinalsGrow ==
  ASSUME PipelineInv, PipelineStep
  PROVE  Extends(finals, finals')
<1>0. PipelineTyped /\ finals \in LogsOf(Readings \cup {Dead})
  BY DEF PipelineInv, PipelineTyped, Logs
<1>1. CASE finals' = finals
  BY <1>0, <1>1, Still
<1>2. ASSUME NEW v \in VoteIds, TakeDeadLetter(v) PROVE Extends(finals, finals')
  BY <1>0, <1>2, LoggedGrows DEF TakeDeadLetter
<1>3. ASSUME NEW v \in VoteIds, TakeVerdict(v) PROVE Extends(finals, finals')
  <2>1. agg[v].choice \in Readings
    BY <1>3 DEF TakeVerdict, AwaitsWitness, PipelineInv, AwaitingAsked
  <2>2. PICK o \in Produces : finals' = Logged(finals, v, agg[v].choice, o)
    BY <1>3 DEF TakeVerdict
  <2> QED
    BY <1>0, <2>1, <2>2, LoggedGrows
<1>4. ASSUME NEW v \in VoteIds,
             \/ SkipResult(v) \/ TakeFirst(v) \/ TakeConsensus(v) \/ TakeRetry(v)
             \/ IgnoreVerdict(v) \/ WitnessObserves(v) \/ WitnessFails(v) \/ VerdictRepeated(v)
             \/ \E n \in Attempts : Redispatch(v, n)
      PROVE  finals' = finals
  BY <1>4 DEF SkipResult, TakeFirst, TakeConsensus, TakeRetry, IgnoreVerdict, WitnessObserves,
              WitnessFails, VerdictRepeated, Redispatch, topics
<1>5. ASSUME NEW q \in queued \cup answered,
             \/ \E role \in Roles, c \in Readings : Determine(q, role, c)
             \/ DetermineFails(q) \/ RequestRedelivered(q)
      PROVE  finals' = finals
  BY <1>5 DEF Determine, DetermineFails, RequestRedelivered
<1>6. CASE CommitMessage \/ AggregatorCrashes
  BY <1>1, <1>6 DEF CommitMessage, AggregatorCrashes, topics
<1> QED
  BY <1>1, <1>2, <1>3, <1>4, <1>5, <1>6 DEF PipelineStep, PipelineNext, AggregatorStep

LEMMA SessionSteps ==
  ASSUME PipelineInv, SessionTypeOK, Next
  PROVE  SessionStep
<1>1. ASSUME NEW m \in Motions, MotionStep(m) PROVE SessionStep
  BY <1>1, AdvanceStep, TallyStep DEF MotionStep, SessionStep
<1>2. ASSUME NEW m \in Motions, NEW a \in Archons, CastStep(m, a) PROVE SessionStep
  BY <1>2, RecordStep DEF SessionStep
<1>3. CASE PipelineStep
  <2>1. UNCHANGED session
    BY <1>3 DEF PipelineStep, session, fixed
  <2> QED
    BY <1>3, <2>1, FinalsGrow DEF SessionStep, PipelineMoves
<1>4. ASSUME NEW v \in VoteIds, ValidationStep(v) PROVE SessionStep
  BY <1>4 DEF ValidationStep, SessionStep
<1>5. CASE ClosingStep \/ BreakerCloses \/ EndStep \/ Resume
  BY <1>5 DEF ClosingStep, SessionStep
<1> QED
  BY Steps, <1>1, <1>2, <1>3, <1>4, <1>5

-----------------------------------------------------------------------------
(***************************************************************************)
(* The inductive invariant of the session.                                 *)
(***************************************************************************)
At(vs, v) == vs[v[1]][v[2]]
UnderVote == {"voting"} \cup Decided

\* What is tallied is tallied from the votes that stand, in the checkpoint too.
ResultsMatch ==
  /\ ResultMatchesVotes
  /\ \A m \in Motions : saved.mstatus[m] \in Decided => saved.mstatus[m] = Tally(saved.votes[m])

\* Votes are cast in the vote on their motion, and no checkpoint falls into it.
MotionsInOrder ==
  /\ \A v \in VoteIds : mstatus[v[1]] \notin UnderVote =>
                          At(votes, v) = NoChoice /\ At(saved.votes, v) = NoChoice
  /\ \A v \in VoteIds : saved.mstatus[v[1]] \notin UnderVote => At(saved.votes, v) = NoChoice
  /\ \A v \in VoteIds : current = v[1] => At(saved.votes, v) = NoChoice
  /\ phase # "open" => current = NoMotion
  /\ phase = "down" => votes = saved.votes /\ mstatus = saved.mstatus

\* What waits to be submitted is a recorded vote on the current motion.
PayloadFresh ==
  \A v \in payload : /\ mode = "inprocess" /\ v[1] = current
                     /\ mstatus[v[1]] = "voting" /\ At(votes, v) # NoChoice

\* A job that is not lost runs, is done, or waits in the checkpoint.
JobsKnown ==
  /\ mode # "inprocess" => /\ submitted = {} /\ saved.pending = {}
                           /\ \A v \in VoteIds : job[v] = "none"
  /\ \A v \in VoteIds : job[v] # "none" => At(votes, v) # NoChoice
  /\ \A v \in VoteIds : job[v] = "done" => verdict[v] # NoChoice
  /\ \A v \in saved.pending : At(saved.votes, v) # NoChoice
  /\ \A v \in VoteIds : job[v] = "running" => At(saved.votes, v) = NoChoice \/ v \in saved.pending
  /\ \A v \in submitted \ lost : IF phase = "down" THEN v \in saved.pending
                                 ELSE job[v] \in {"running", "done"}
  /\ phase = "down" => \A v \in VoteIds : job[v] = "none"
  /\ phase = "draining" => mode = "inprocess"
  /\ phase = "adjourned" => Running = {}

\* A job changes a vote only to what both secretaries found.
VerdictsSound ==
  /\ \A v \in VoteIds, role \in Roles : heard[v][role] \in Readings \cup {"unread", NoChoice}
  /\ \A v \in VoteIds : job[v] = "done" =>
       \/ verdict[v] = At(votes, v)
       \/ Agreed(heard[v]["text"], heard[v]["json"]) /\ heard[v]["text"] = verdict[v]

\* What the reconciliation has as validated is in a final message.
TrackSound ==
  /\ mode # "kafka" => \A v \in VoteIds : track[v] = "none"
  /\ \A v \in VoteIds : track[v] = "validated" => Occurs(finals, v, validated[v])

SessionInv ==
  /\ PipelineInv
  /\ SessionTypeOK
  /\ ResultsMatch
  /\ GateHolds
  /\ MotionsInOrder
  /\ PayloadFresh
  /\ JobsKnown
  /\ ValidationKept
  /\ VerdictsSound
  /\ TrackSound

LEMMA TallyDecides == \A ballot : Tally(ballot) \in Decided
  BY DEF Tally, Decided

LEMMA SnapshotTyped ==
  ASSUME NEW ms \in [Motions -> MotionStatus], NEW vs \in [Motions -> [Archons -> Choices \cup {NoChoice}]]
  PROVE  /\ Snapshot(ms, vs) \in Checkpoints
         /\ Snapshot(ms, vs).mstatus = ms /\ Snapshot(ms, vs).votes = vs
         /\ Snapshot(ms, vs).pending = Running
  BY DEF Snapshot, Checkpoints, Running

LEMMA SavedTyped ==
  ASSUME SessionTypeOK
  PROVE  /\ saved.mstatus \in [Motions -> MotionStatus]
         /\ saved.votes \in [Motions -> [Archons -> Choices \cup {NoChoice}]]
         /\ saved.pending \in SUBSET VoteIds
  BY DEF SessionTypeOK, Checkpoints

LEMMA VoteParts ==
  /\ \A v \in VoteIds : v[1] \in Motions /\ v[2] \in Archons /\ v = <<v[1], v[2]>>
  /\ \A m \in Motions, a \in Archons : <<m, a>> \in VoteIds
  /\ NoMotion \notin Motions
  BY VoteAssumption DEF VoteIds, NoMotion

\* The checkpoint a process leaves.
LEMMA EndsWith ==
  ASSUME SessionTypeOK, EndStep
  PROVE  \E cp \in Checkpoints : Ends(cp) /\ InSession /\ (cp = saved \/ cp = Snapshot(mstatus, votes))
<1>1. saved \in Checkpoints /\ Snapshot(mstatus, votes) \in Checkpoints
  BY SnapshotTyped DEF SessionTypeOK
<1> QED
  BY <1>1 DEF EndStep

LEMMA ConcludesTyped ==
  ASSUME SessionTypeOK, NEW m \in Motions, NEW ballot \in [Archons -> Choices \cup {NoChoice}],
         Concludes(m, ballot)
  PROVE  /\ votes' \in [Motions -> [Archons -> Choices \cup {NoChoice}]]
         /\ mstatus' \in [Motions -> MotionStatus]
         /\ saved' \in Checkpoints /\ saved' = Snapshot(mstatus', votes')
         /\ current' \in Motions \cup {NoMotion} /\ current' = NoMotion
         /\ \A x \in Motions : /\ votes'[x] = IF x = m THEN ballot ELSE votes[x]
                               /\ mstatus'[x] = IF x = m THEN Tally(ballot) ELSE mstatus[x]
<1>1. Tally(ballot) \in MotionStatus
  BY TallyDecides DEF MotionStatus
<1>2. /\ votes' = [votes EXCEPT ![m] = ballot] /\ mstatus' = [mstatus EXCEPT ![m] = Tally(ballot)]
      /\ saved' = Snapshot(mstatus', votes') /\ current' = NoMotion
  BY DEF Concludes
<1>3. /\ votes' \in [Motions -> [Archons -> Choices \cup {NoChoice}]]
      /\ mstatus' \in [Motions -> MotionStatus]
      /\ \A x \in Motions : /\ votes'[x] = IF x = m THEN ballot ELSE votes[x]
                            /\ mstatus'[x] = IF x = m THEN Tally(ballot) ELSE mstatus[x]
  BY <1>1, <1>2 DEF SessionTypeOK
<1>4. saved' \in Checkpoints
  BY <1>2, <1>3, SnapshotTyped
<1> QED
  BY <1>2, <1>3, <1>4

\* The adjournment overrides votes with verdicts.
LEMMA FinishTyped ==
  ASSUME SessionTypeOK, FinishAdjourn
  PROVE  /\ votes' \in [Motions -> [Archons -> Choices \cup {NoChoice}]]
         /\ mstatus' \in [Motions -> MotionStatus]
         /\ saved' \in Checkpoints /\ saved' = Snapshot(mstatus', votes')
         /\ \A v \in VoteIds : At(votes', v) = IF Overriding(v) THEN verdict[v] ELSE At(votes, v)
         /\ \A m \in Motions : IF \E v \in VoteIds : v[1] = m /\ Overriding(v)
                               THEN mstatus'[m] = Tally(votes'[m])
                               ELSE mstatus'[m] = mstatus[m] /\ votes'[m] = votes[m]
<1>0. /\ votes \in [Motions -> [Archons -> Choices \cup {NoChoice}]]
      /\ mstatus \in [Motions -> MotionStatus]
      /\ verdict \in [VoteIds -> Choices \cup {NoChoice}]
  BY DEF SessionTypeOK
<1>1. votes' = [m \in Motions |-> [a \in Archons |->
                 IF Overriding(<<m, a>>) THEN verdict[<<m, a>>] ELSE votes[m][a]]]
  BY DEF FinishAdjourn
<1>2. \A m \in Motions, a \in Archons :
         votes'[m][a] = IF Overriding(<<m, a>>) THEN verdict[<<m, a>>] ELSE votes[m][a]
  BY <1>1
<1>3. votes' \in [Motions -> [Archons -> Choices \cup {NoChoice}]]
  BY <1>0, <1>1, VoteParts
<1>4. \A v \in VoteIds : At(votes', v) = IF Overriding(v) THEN verdict[v] ELSE At(votes, v)
  BY <1>2, VoteParts DEF At
<1> DEFINE touched == {v[1] : v \in {x \in VoteIds : Overriding(x)}}
<1>5. mstatus' = [m \in Motions |-> IF m \in touched THEN Tally(votes'[m]) ELSE mstatus[m]]
  BY DEF FinishAdjourn, Affected
<1>6. \A m \in Motions : m \in touched <=> \E v \in VoteIds : v[1] = m /\ Overriding(v)
  OBVIOUS
<1> HIDE DEF touched
<1>7. mstatus' \in [Motions -> MotionStatus]
  BY <1>0, <1>5, TallyDecides DEF MotionStatus
<1>8. ASSUME NEW m \in Motions, ~ \E v \in VoteIds : v[1] = m /\ Overriding(v)
      PROVE  votes'[m] = votes[m]
  <2>1. \A a \in Archons : ~Overriding(<<m, a>>)
    BY <1>8, VoteParts
  <2>2. \A a \in Archons : votes'[m][a] = votes[m][a]
    BY <1>2, <2>1
  <2> QED
    BY <1>0, <1>3, <2>2
<1>9. \A m \in Motions : IF \E v \in VoteIds : v[1] = m /\ Overriding(v)
                          THEN mstatus'[m] = Tally(votes'[m])
                          ELSE mstatus'[m] = mstatus[m] /\ votes'[m] = votes[m]
  BY <1>5, <1>6, <1>8
<1>10. saved' = Snapshot(mstatus', votes') /\ saved' \in Checkpoints
  BY <1>3, <1>7, SnapshotTyped DEF FinishAdjourn
<1> QED
  BY <1>3, <1>4, <1>7, <1>9, <1>10

LEMMA SessionTyped ==
  ASSUME SessionTypeOK, finals \in LogsOf(Readings \cup {Dead}), VerdictsSound, SessionStep
  PROVE  SessionTypeOK'
<1> USE DEF SessionTypeOK
<1>1. ASSUME NEW m \in Motions, Advances(m) PROVE SessionTypeOK'
  <2>1. UNCHANGED <<mode, present, phase, votes, payload, job, heard, verdict,
                    track, validated, mpos, breaker, ungated, submitted, lost>>
    BY <1>1 DEF Advances, fixed, jobVars, trackVars, history
  <2>2. mstatus' \in [Motions -> MotionStatus]
    BY <1>1 DEF Advances, MotionStatus
  <2>3. saved' \in Checkpoints
    <3>1. Snapshot(mstatus', votes) \in Checkpoints
      BY <2>2, SnapshotTyped
    <3> QED
      BY <1>1, <3>1 DEF Advances
  <2>4. current' \in Motions \cup {NoMotion}
    BY <1>1 DEF Advances
  <2> QED
    BY <2>1, <2>2, <2>3, <2>4
<1>2. ASSUME NEW m \in Motions, NEW a \in Archons, Records(m, a) PROVE SessionTypeOK'
  <2>1. UNCHANGED <<mode, present, phase, current, mstatus, job, heard, verdict, saved,
                    validated, mpos, ungated, submitted, lost>>
    BY <1>2 DEF Records, fixed, jobVars, history
  <2>2. votes' \in [Motions -> [Archons -> Choices \cup {NoChoice}]]
    BY <1>2 DEF Records
  <2>3. payload' \in SUBSET VoteIds
    BY <1>2, VoteParts DEF Records
  <2>4. track' \in [VoteIds -> {"none", "pending", "validated", "dlq", "fallback"}]
        /\ breaker' \in BOOLEAN
    BY <1>2, Zenon DEF Records
  <2> QED
    BY <2>1, <2>2, <2>3, <2>4
<1>3. ASSUME NEW m \in Motions, Submits(m) PROVE SessionTypeOK'
  <2>1. UNCHANGED <<mode, present, phase, current, mstatus, votes, heard, verdict, saved,
                    track, validated, mpos, breaker, ungated, lost>>
    BY <1>3 DEF Submits, fixed, trackVars
  <2>2. /\ job' \in [VoteIds -> {"none", "running", "done"}]
        /\ payload' \in SUBSET VoteIds /\ submitted' \in SUBSET VoteIds
    BY <1>3 DEF Submits
  <2> QED
    BY <2>1, <2>2
<1>4. ASSUME NEW m \in Motions, Tallies(m) PROVE SessionTypeOK'
  <2>1. UNCHANGED <<mode, present, phase, payload, job, heard, verdict,
                    track, validated, mpos, breaker, submitted, lost>>
        /\ ungated' \in SUBSET Motions
    BY <1>4 DEF Tallies, fixed, jobVars, trackVars
  <2>2. Concludes(m, votes[m]) /\ votes[m] \in [Archons -> Choices \cup {NoChoice}]
    BY <1>4 DEF Tallies
  <2>3. /\ votes' \in [Motions -> [Archons -> Choices \cup {NoChoice}]]
        /\ mstatus' \in [Motions -> MotionStatus] /\ saved' \in Checkpoints
        /\ current' \in Motions \cup {NoMotion}
    BY <2>2, ConcludesTyped
  <2> QED
    BY <2>1, <2>3
<1>5. ASSUME NEW m \in Motions, Gated(m) PROVE SessionTypeOK'
  <2>1. UNCHANGED <<mode, present, phase, payload, job, heard, verdict,
                    validated, mpos, breaker, ungated, submitted, lost>>
        /\ track' \in [VoteIds -> {"none", "pending", "validated", "dlq", "fallback"}]
    BY <1>5 DEF Gated, fixed, jobVars, history
  <2>2. PICK ballot \in [Archons -> Choices \cup {NoChoice}] : Concludes(m, ballot)
    BY <1>5 DEF Gated
  <2>3. /\ votes' \in [Motions -> [Archons -> Choices \cup {NoChoice}]]
        /\ mstatus' \in [Motions -> MotionStatus] /\ saved' \in Checkpoints
        /\ current' \in Motions \cup {NoMotion}
    BY <2>2, ConcludesTyped
  <2> QED
    BY <2>1, <2>3
<1>6. ASSUME NEW v \in VoteIds, Mark(v) PROVE SessionTypeOK'
  <2>1. UNCHANGED <<mode, present, phase, current, mstatus, votes, payload, job, heard, verdict,
                    saved, breaker, ungated, submitted, lost>>
    BY <1>6 DEF Mark, motionVars, jobVars, history
  <2>2. mpos' \in [VoteIds -> Nat]
    BY <1>6 DEF Mark
  <2>3. finals[v][mpos[v] + 1] \in Readings \cup {Dead}
    <3>1. finals[v] \in Seq(Readings \cup {Dead}) /\ mpos[v] \in Nat
          /\ mpos[v] < Len(finals[v])
      BY <1>6 DEF LogsOf, Mark
    <3> QED
      BY <3>1
  <2>4. /\ track' \in [VoteIds -> {"none", "pending", "validated", "dlq", "fallback"}]
        /\ validated' \in [VoteIds -> Choices \cup {NoChoice}]
    BY <1>6, <2>3, Words DEF Mark
  <2> QED
    BY <2>1, <2>2, <2>4
<1>7. ASSUME NEW v \in VoteIds, NEW d \in Deliberators, DeliberatorReturns(v, d)
      PROVE  SessionTypeOK'
  <2>1. UNCHANGED <<mode, present, phase, current, mstatus, votes, payload, job, verdict,
                    saved, track, validated, mpos, breaker, ungated, submitted, lost>>
    BY <1>7 DEF DeliberatorReturns, motionVars, trackVars, history
  <2>2. heard' \in [VoteIds -> [Deliberators -> Readings \cup {"unread", "observed", NoChoice}]]
    BY <1>7 DEF DeliberatorReturns, Outcomes
  <2> QED
    BY <2>1, <2>2
<1>8. ASSUME NEW v \in VoteIds, Adjudicate(v) PROVE SessionTypeOK'
  <2>1. UNCHANGED <<mode, present, phase, current, mstatus, votes, payload, heard,
                    saved, track, validated, mpos, breaker, ungated, submitted, lost>>
    BY <1>8 DEF Adjudicate, motionVars, trackVars, history
  <2>2. job' \in [VoteIds -> {"none", "running", "done"}]
    BY <1>8 DEF Adjudicate
  <2>3. Adjudicated(votes[v[1]][v[2]], heard[v]["text"], heard[v]["json"]) \in Choices \cup {NoChoice}
    <3>1. heard[v]["text"] \in Readings \cup {NoChoice}
      BY <1>8 DEF Adjudicate, Gathered, Deliberators, Roles, VerdictsSound
    <3>2. votes[v[1]][v[2]] \in Choices \cup {NoChoice}
      BY VoteParts
    <3> QED
      BY <3>1, <3>2, Words DEF Adjudicated
  <2>4. verdict' \in [VoteIds -> Choices \cup {NoChoice}]
    BY <1>8, <2>3 DEF Adjudicate
  <2> QED
    BY <2>1, <2>2, <2>4
<1>9. CASE BreakerCloses
  BY <1>9 DEF BreakerCloses, motionVars, jobVars, history
<1>10. CASE AdjournDirectly
  <2>1. saved' \in Checkpoints
    BY <1>10, SnapshotTyped DEF AdjournDirectly
  <2> QED
    BY <1>10, <2>1 DEF AdjournDirectly, motionVars, jobVars, trackVars, history
<1>11. CASE BeginDrain \/ Resume
  BY <1>11 DEF BeginDrain, Resume, motionVars, jobVars, trackVars, history
<1>12. CASE FinishAdjourn
  BY <1>12, FinishTyped DEF FinishAdjourn, jobVars, trackVars, history
<1>13. CASE EndStep
  <2>1. PICK cp \in Checkpoints : Ends(cp)
    BY <1>13, EndsWith
  <2>2. cp.mstatus \in [Motions -> MotionStatus]
        /\ cp.votes \in [Motions -> [Archons -> Choices \cup {NoChoice}]]
    BY DEF Checkpoints
  <2>3. /\ phase' = "down" /\ saved' = cp /\ current' = NoMotion
        /\ mstatus' = cp.mstatus /\ votes' = cp.votes /\ payload' = {} /\ breaker' = FALSE
        /\ UNCHANGED <<mode, present, mpos>>
    BY <2>1 DEF Ends
  <2>4. /\ lost' \in SUBSET VoteIds /\ submitted' \in SUBSET VoteIds /\ ungated' \in SUBSET Motions
    BY <2>1 DEF Ends
  <2>5. /\ job' \in [VoteIds -> {"none", "running", "done"}]
        /\ heard' \in [VoteIds -> [Deliberators -> Readings \cup {"unread", "observed", NoChoice}]]
        /\ verdict' \in [VoteIds -> Choices \cup {NoChoice}]
        /\ track' \in [VoteIds -> {"none", "pending", "validated", "dlq", "fallback"}]
        /\ validated' \in [VoteIds -> Choices \cup {NoChoice}]
    BY <2>1 DEF Ends, NotHeard
  <2> QED
    BY <2>2, <2>3, <2>4, <2>5
<1>14. CASE PipelineMoves
  BY <1>14 DEF PipelineMoves, session, fixed, motionVars, jobVars, trackVars, history
<1> QED
  BY <1>1, <1>2, <1>3, <1>4, <1>5, <1>6, <1>7, <1>8, <1>9, <1>10, <1>11, <1>12, <1>13, <1>14
  DEF SessionStep

\* What each step leaves alone.
LEMMA Frames ==
  /\ \A m \in Motions :
       /\ Advances(m) => UNCHANGED <<mode, phase, votes, payload, job, heard, verdict,
                                     track, validated, ungated, submitted, lost, finals>>
       /\ Submits(m) => UNCHANGED <<mode, phase, current, mstatus, votes, heard, verdict, saved,
                                    track, validated, ungated, lost, finals>>
       /\ Tallies(m) => UNCHANGED <<mode, phase, payload, job, heard, verdict,
                                    track, validated, submitted, lost, finals>>
       /\ Gated(m) => UNCHANGED <<mode, phase, payload, job, heard, verdict,
                                  validated, ungated, submitted, lost, finals>>
  /\ \A m \in Motions, a \in Archons :
       Records(m, a) => UNCHANGED <<mode, phase, current, mstatus, job, heard, verdict, saved,
                                    validated, ungated, submitted, lost, finals>>
  /\ \A v \in VoteIds :
       /\ Mark(v) => UNCHANGED <<mode, phase, current, mstatus, votes, payload, job, heard, verdict,
                                 saved, ungated, submitted, lost, finals>>
       /\ Adjudicate(v) => UNCHANGED <<mode, phase, current, mstatus, votes, payload, heard, saved,
                                       track, validated, ungated, submitted, lost, finals>>
       /\ \A d \in Deliberators : DeliberatorReturns(v, d) =>
            UNCHANGED <<mode, phase, current, mstatus, votes, payload, job, verdict, saved,
                        track, validated, ungated, submitted, lost, finals>>
  /\ BreakerCloses => UNCHANGED <<mode, phase, current, mstatus, votes, payload, job, heard,
                                  verdict, saved, track, validated, ungated, submitted, lost, finals>>
  /\ AdjournDirectly => UNCHANGED <<mode, current, mstatus, votes, payload, job, heard,
                                    verdict, track, validated, ungated, submitted, lost, finals>>
  /\ BeginDrain => UNCHANGED <<mode, current, mstatus, votes, payload, job, heard,
                               verdict, saved, track, validated, ungated, submitted, lost, finals>>
  /\ FinishAdjourn => UNCHANGED <<mode, current, payload, job, heard, verdict, track, validated,
                                  ungated, submitted, lost, finals>>
  /\ Resume => UNCHANGED <<mode, current, mstatus, votes, payload, heard, verdict, saved,
                           track, validated, ungated, submitted, lost, finals>>
  /\ PipelineMoves => UNCHANGED <<mode, phase, current, mstatus, votes, payload, job, heard,
                                  verdict, saved, track, validated, ungated, submitted, lost>>
<1> USE DEF fixed, motionVars, jobVars, trackVars, history, aggVars, topics
<1>1. \A m \in Motions :
        /\ Advances(m) => UNCHANGED <<mode, phase, votes, payload, job, heard, verdict,
                                      track, validated, ungated, submitted, lost, finals>>
        /\ Submits(m) => UNCHANGED <<mode, phase, current, mstatus, votes, heard, verdict, saved,
                                     track, validated, ungated, lost, finals>>
  BY DEF Advances, Submits
<1>2. \A m \in Motions :
        /\ Tallies(m) => UNCHANGED <<mode, phase, payload, job, heard, verdict,
                                     track, validated, submitted, lost, finals>>
        /\ Gated(m) => UNCHANGED <<mode, phase, payload, job, heard, verdict,
                                   validated, ungated, submitted, lost, finals>>
  BY DEF Tallies, Gated
<1>3. \A m \in Motions, a \in Archons :
        Records(m, a) => UNCHANGED <<mode, phase, current, mstatus, job, heard, verdict, saved,
                                     validated, ungated, submitted, lost, finals>>
  BY DEF Records
<1>4. \A v \in VoteIds :
       /\ Mark(v) => UNCHANGED <<mode, phase, current, mstatus, votes, payload, job, heard, verdict,
                                 saved, ungated, submitted, lost, finals>>
       /\ Adjudicate(v) => UNCHANGED <<mode, phase, current, mstatus, votes, payload, heard, saved,
                                       track, validated, ungated, submitted, lost, finals>>
  BY DEF Mark, Adjudicate
<1>5. \A v \in VoteIds, d \in Deliberators : DeliberatorReturns(v, d) =>
            UNCHANGED <<mode, phase, current, mstatus, votes, payload, job, verdict, saved,
                        track, validated, ungated, submitted, lost, finals>>
  BY DEF DeliberatorReturns
<1>6. /\ BreakerCloses => UNCHANGED <<mode, phase, current, mstatus, votes, payload, job, heard,
                                  verdict, saved, track, validated, ungated, submitted, lost, finals>>
      /\ AdjournDirectly => UNCHANGED <<mode, current, mstatus, votes, payload, job, heard,
                                    verdict, track, validated, ungated, submitted, lost, finals>>
  BY DEF BreakerCloses, AdjournDirectly
<1>7. /\ BeginDrain => UNCHANGED <<mode, current, mstatus, votes, payload, job, heard,
                               verdict, saved, track, validated, ungated, submitted, lost, finals>>
      /\ FinishAdjourn => UNCHANGED <<mode, current, payload, job, heard, verdict, track, validated,
                                  ungated, submitted, lost, finals>>
  BY DEF BeginDrain, FinishAdjourn
<1>8. /\ Resume => UNCHANGED <<mode, current, mstatus, votes, payload, heard, verdict, saved,
                           track, validated, ungated, submitted, lost, finals>>
      /\ PipelineMoves => UNCHANGED <<mode, phase, current, mstatus, votes, payload, job, heard,
                                  verdict, saved, track, validated, ungated, submitted, lost>>
  BY DEF Resume, PipelineMoves, session
<1> QED
  BY <1>1, <1>2, <1>3, <1>4, <1>5, <1>6, <1>7, <1>8, Zenon

LEMMA EndsFrames ==
  ASSUME NEW cp \in Checkpoints, Ends(cp)
  PROVE  /\ phase' = "down" /\ saved' = cp /\ current' = NoMotion
         /\ mstatus' = cp.mstatus /\ votes' = cp.votes /\ payload' = {}
         /\ \A v \in VoteIds : job'[v] = "none" /\ track'[v] = "none"
                               /\ \A d \in Deliberators : heard'[v][d] = "unread"
         /\ lost' = Standing(cp.votes) \cap
                      (lost \cup {v \in VoteIds : job[v] = "done" /\ v \notin cp.pending})
         /\ submitted' = submitted \cap Standing(cp.votes)
         /\ UNCHANGED <<mode, finals>>
  BY DEF Ends, topics, NotHeard

-----------------------------------------------------------------------------
(***************************************************************************)
(* The parts of the session's invariant, one at a time.                    *)
(***************************************************************************)
LEMMA RecordsOne ==
  ASSUME SessionTypeOK, NEW m \in Motions, NEW a \in Archons, Records(m, a)
  PROVE  /\ At(votes, <<m, a>>) = NoChoice /\ At(votes', <<m, a>>) \in Choices
         /\ \A v \in VoteIds \ {<<m, a>>} : At(votes', v) = At(votes, v)
         /\ \A x \in Motions \ {m} : votes'[x] = votes[x]
<1>1. votes \in [Motions -> [Archons -> Choices \cup {NoChoice}]]
  BY DEF SessionTypeOK
<1>2. PICK c \in Choices : votes' = [votes EXCEPT ![m][a] = c]
  BY DEF Records
<1>3. /\ votes'[m][a] = c /\ \A x \in Motions \ {m} : votes'[x] = votes[x]
      /\ \A b \in Archons \ {a} : votes'[m][b] = votes[m][b]
  BY <1>1, <1>2
<1>4. ASSUME NEW v \in VoteIds \ {<<m, a>>} PROVE At(votes', v) = At(votes, v)
  <2>1. v[1] \in Motions /\ v[2] \in Archons /\ (v[1] # m \/ v[2] # a)
    BY VoteParts
  <2> QED
    BY <1>3, <2>1 DEF At
<1> QED
  BY <1>3, <1>4 DEF Records, At

LEMMA ResultsKept ==
  ASSUME SessionTypeOK, ResultsMatch, SessionStep
  PROVE  ResultsMatch'
<1>0. /\ \A m \in Motions : mstatus[m] \in Decided => mstatus[m] = Tally(votes[m])
      /\ \A m \in Motions : saved.mstatus[m] \in Decided => saved.mstatus[m] = Tally(saved.votes[m])
      /\ votes \in [Motions -> [Archons -> Choices \cup {NoChoice}]]
      /\ mstatus \in [Motions -> MotionStatus]
  BY DEF ResultsMatch, ResultMatchesVotes, SessionTypeOK
<1>1. ASSUME \A m \in Motions : mstatus'[m] \in Decided => mstatus'[m] = Tally(votes'[m]),
             saved' = saved \/ (saved'.mstatus = mstatus' /\ saved'.votes = votes')
      PROVE  ResultsMatch'
  BY <1>0, <1>1 DEF ResultsMatch, ResultMatchesVotes, Tally, Count
<1>2. ASSUME UNCHANGED <<mstatus, votes>>,
             saved' = saved \/ (saved'.mstatus = mstatus /\ saved'.votes = votes)
      PROVE  ResultsMatch'
  BY <1>0, <1>1, <1>2
<1>3. \A ms, vs : Snapshot(ms, vs).mstatus = ms /\ Snapshot(ms, vs).votes = vs
  BY DEF Snapshot
<1>4. ASSUME NEW m \in Motions, Advances(m) PROVE ResultsMatch'
  <2>1. /\ votes' = votes
        /\ \A x \in Motions : x # m => mstatus'[x] = mstatus[x]
        /\ mstatus'[m] \notin Decided
    BY <1>0, <1>4, Frames DEF Advances, Decided
  <2>2. saved' = saved \/ saved' = Snapshot(mstatus', votes)
    BY <1>4 DEF Advances
  <2>3. \A x \in Motions : mstatus'[x] \in Decided => mstatus'[x] = Tally(votes'[x])
    BY <1>0, <2>1
  <2> QED
    BY <1>1, <1>3, <2>1, <2>2, <2>3
<1>5. ASSUME NEW m \in Motions, NEW a \in Archons, Records(m, a) PROVE ResultsMatch'
  <2>1. /\ mstatus' = mstatus /\ saved' = saved /\ mstatus[m] \notin Decided
        /\ \A x \in Motions \ {m} : votes'[x] = votes[x]
    BY <1>5, Frames, RecordsOne DEF Records, Decided
  <2> QED
    BY <1>0, <1>1, <2>1
<1>6. ASSUME NEW m \in Motions, Tallies(m) \/ Gated(m) PROVE ResultsMatch'
  <2>1. PICK ballot \in [Archons -> Choices \cup {NoChoice}] : Concludes(m, ballot)
    BY <1>0, <1>6 DEF Tallies, Gated
  <2>2. /\ saved' = Snapshot(mstatus', votes')
        /\ \A x \in Motions : /\ votes'[x] = IF x = m THEN ballot ELSE votes[x]
                              /\ mstatus'[x] = IF x = m THEN Tally(ballot) ELSE mstatus[x]
    BY <2>1, ConcludesTyped
  <2>3. \A x \in Motions : mstatus'[x] \in Decided => mstatus'[x] = Tally(votes'[x])
    BY <1>0, <2>2
  <2> QED
    BY <1>1, <2>2, <2>3 DEF Snapshot
<1>7. CASE FinishAdjourn
  <2>1. /\ saved' = Snapshot(mstatus', votes')
        /\ \A m \in Motions : \/ mstatus'[m] = Tally(votes'[m])
                              \/ mstatus'[m] = mstatus[m] /\ votes'[m] = votes[m]
    BY <1>7, FinishTyped
  <2> QED
    BY <1>0, <1>1, <2>1 DEF Snapshot
<1>8. CASE EndStep
  <2>1. PICK cp \in Checkpoints : Ends(cp) /\ (cp = saved \/ cp = Snapshot(mstatus, votes))
    BY <1>8, EndsWith
  <2>2. mstatus' = cp.mstatus /\ votes' = cp.votes /\ saved' = cp
    BY <2>1, EndsFrames
  <2>3. \A m \in Motions : cp.mstatus[m] \in Decided => cp.mstatus[m] = Tally(cp.votes[m])
    BY <1>0, <1>3, <2>1
  <2> QED
    BY <1>1, <2>2, <2>3
<1>9. CASE AdjournDirectly
  BY <1>2, <1>3, <1>9, Frames DEF AdjournDirectly
<1>10. ASSUME UNCHANGED <<mstatus, votes, saved>> PROVE ResultsMatch'
  BY <1>2, <1>10
<1> QED
  BY <1>4, <1>5, <1>6, <1>7, <1>8, <1>9, <1>10, Frames DEF SessionStep

LEMMA GateKept ==
  ASSUME SessionTypeOK, GateHolds, TrackSound, JobsKnown, SessionStep
  PROVE  GateHolds'
<1>0. /\ \A v \in VoteIds : mstatus[v[1]] \in Decided /\ track[v] = "pending" => v[1] \in ungated
      /\ mode # "kafka" => \A v \in VoteIds : track[v] = "none"
      /\ mstatus \in [Motions -> MotionStatus]
      /\ track \in [VoteIds -> {"none", "pending", "validated", "dlq", "fallback"}]
  BY DEF GateHolds, TrackSound, SessionTypeOK
<1>1. ASSUME NEW m \in Motions, Advances(m) PROVE GateHolds'
  <2>1. /\ track' = track /\ ungated' = ungated
        /\ \A x \in Motions : x # m => mstatus'[x] = mstatus[x]
        /\ mstatus'[m] \notin Decided
    BY <1>0, <1>1, Frames DEF Advances, Decided
  <2> QED
    BY <1>0, <2>1, VoteParts DEF GateHolds
<1>2. ASSUME NEW m \in Motions, NEW a \in Archons, Records(m, a) PROVE GateHolds'
  <2>1. /\ mstatus' = mstatus /\ ungated' = ungated /\ mstatus[m] \notin Decided
        /\ <<m, a>> \in VoteIds /\ <<m, a>>[1] = m
    BY <1>2, Frames, VoteParts DEF Records, Decided
  <2>2. \A v \in VoteIds : v # <<m, a>> => track'[v] = track[v]
    BY <1>0, <1>2 DEF Records
  <2> QED
    BY <1>0, <2>1, <2>2 DEF GateHolds
<1>3. ASSUME NEW m \in Motions, Tallies(m) PROVE GateHolds'
  <2>1. votes[m] \in [Archons -> Choices \cup {NoChoice}] /\ Concludes(m, votes[m])
    BY <1>3 DEF Tallies, SessionTypeOK
  <2>2. \A x \in Motions : x # m => mstatus'[x] = mstatus[x]
    BY <2>1, ConcludesTyped
  <2>3. track' = track
    BY <1>3, Frames
  <2>4. \/ \A v \in VoteIds : track[v] = "none"
        \/ ungated' = ungated \cup {m}
    BY <1>0, <1>3 DEF Tallies
  <2>5. ungated \subseteq ungated'
    BY <1>3 DEF Tallies
  <2> QED
    BY <1>0, <2>2, <2>3, <2>4, <2>5, VoteParts DEF GateHolds
<1>4. ASSUME NEW m \in Motions, Gated(m) PROVE GateHolds'
  <2>1. \A v \in VoteIds : track'[v] # "pending"
    BY <1>0, <1>4 DEF Gated
  <2> QED
    BY <2>1 DEF GateHolds
<1>5. ASSUME NEW v \in VoteIds, Mark(v) PROVE GateHolds'
  <2>1. \A w \in VoteIds : track'[w] = "pending" => track[w] = "pending"
    BY <1>0, <1>5 DEF Mark
  <2>2. UNCHANGED <<mstatus, ungated>>
    BY <1>5, Frames
  <2> QED
    BY <1>0, <2>1, <2>2 DEF GateHolds
<1>6. CASE FinishAdjourn
  <2>1. \A v \in VoteIds : track[v] = "none"
    BY <1>0, <1>6 DEF JobsKnown, FinishAdjourn
  <2> QED
    BY <1>6, <2>1, Frames DEF GateHolds
<1>7. CASE EndStep
  BY <1>7, EndsWith, EndsFrames DEF GateHolds
<1>8. ASSUME UNCHANGED <<mstatus, track, ungated>> PROVE GateHolds'
  BY <1>0, <1>8 DEF GateHolds
<1> QED
  BY <1>1, <1>2, <1>3, <1>4, <1>5, <1>6, <1>7, <1>8, Frames DEF SessionStep

LEMMA OrderKept ==
  ASSUME SessionTypeOK, MotionsInOrder, JobsKnown, SessionStep
  PROVE  MotionsInOrder'
<1>0. /\ \A v \in VoteIds : mstatus[v[1]] \notin UnderVote =>
                              At(votes, v) = NoChoice /\ At(saved.votes, v) = NoChoice
      /\ \A v \in VoteIds : saved.mstatus[v[1]] \notin UnderVote => At(saved.votes, v) = NoChoice
      /\ \A v \in VoteIds : current = v[1] => At(saved.votes, v) = NoChoice
      /\ phase # "open" => current = NoMotion
      /\ phase = "down" => votes = saved.votes /\ mstatus = saved.mstatus
      /\ mstatus \in [Motions -> MotionStatus]
      /\ \A v \in VoteIds : v[1] # NoMotion /\ v[1] \in Motions
  BY VoteParts DEF MotionsInOrder, SessionTypeOK
<1>s. \A ms, vs : Snapshot(ms, vs).mstatus = ms /\ Snapshot(ms, vs).votes = vs
  BY DEF Snapshot
<1>a. ASSUME \A v \in VoteIds : mstatus'[v[1]] \notin UnderVote => At(votes', v) = NoChoice,
             saved'.mstatus = mstatus', saved'.votes = votes',
             \A v \in VoteIds : current' = v[1] => At(votes', v) = NoChoice,
             phase' # "open" => current' = NoMotion
      PROVE  MotionsInOrder'
  BY <1>a DEF MotionsInOrder, At
<1>1. ASSUME NEW m \in Motions, Advances(m) PROVE MotionsInOrder'
  <2>1. /\ votes' = votes /\ phase' = "open" /\ current' \in {m, NoMotion}
        /\ \A x \in Motions : x # m => mstatus'[x] = mstatus[x]
        /\ mstatus[m] \notin UnderVote
        /\ saved' = saved \/ saved' = Snapshot(mstatus', votes)
    BY <1>0, <1>1, Frames DEF Advances, UnderVote, Decided
  <2>2. \A v \in VoteIds : mstatus'[v[1]] \notin UnderVote => mstatus[v[1]] \notin UnderVote
    BY <1>0, <2>1
  <2>3. CASE saved' = saved
    BY <1>0, <2>1, <2>2, <2>3 DEF MotionsInOrder, At
  <2>4. CASE saved' = Snapshot(mstatus', votes)
    BY <1>0, <1>s, <1>a, <2>1, <2>2, <2>4
  <2> QED
    BY <2>1, <2>3, <2>4
<1>2. ASSUME NEW m \in Motions, NEW a \in Archons, Records(m, a) PROVE MotionsInOrder'
  <2>1. /\ UNCHANGED <<mstatus, saved, current, phase>> /\ phase = "open"
        /\ mstatus[m] \in UnderVote /\ <<m, a>>[1] = m
        /\ \A v \in VoteIds \ {<<m, a>>} : At(votes', v) = At(votes, v)
    BY <1>2, Frames, RecordsOne DEF Records, UnderVote
  <2>2. \A v \in VoteIds : mstatus[v[1]] \notin UnderVote => At(votes', v) = At(votes, v)
    BY <2>1
  <2> QED
    BY <1>0, <2>1, <2>2 DEF MotionsInOrder, At
<1>3. ASSUME NEW m \in Motions, Tallies(m) \/ Gated(m) PROVE MotionsInOrder'
  <2>1. PICK ballot \in [Archons -> Choices \cup {NoChoice}] : Concludes(m, ballot)
    BY <1>3 DEF Tallies, Gated, SessionTypeOK
  <2>2. /\ saved' = Snapshot(mstatus', votes') /\ current' = NoMotion
        /\ \A x \in Motions : /\ votes'[x] = IF x = m THEN ballot ELSE votes[x]
                              /\ mstatus'[x] = IF x = m THEN Tally(ballot) ELSE mstatus[x]
    BY <2>1, ConcludesTyped
  <2>3. Tally(ballot) \in UnderVote
    BY TallyDecides DEF UnderVote
  <2>4. \A v \in VoteIds : mstatus'[v[1]] \notin UnderVote => At(votes', v) = NoChoice
    BY <1>0, <2>2, <2>3 DEF At
  <2> QED
    BY <1>0, <1>s, <1>a, <2>2, <2>4
<1>4. CASE FinishAdjourn
  <2>1. /\ saved' = Snapshot(mstatus', votes')
        /\ current' = NoMotion
        /\ \A m \in Motions : \/ mstatus'[m] = Tally(votes'[m])
                              \/ mstatus'[m] = mstatus[m] /\ votes'[m] = votes[m]
    BY <1>0, <1>4, FinishTyped, Frames DEF FinishAdjourn
  <2>2. \A m \in Motions : Tally(votes'[m]) \in UnderVote
    BY TallyDecides DEF UnderVote
  <2>3. \A v \in VoteIds : mstatus'[v[1]] \notin UnderVote => At(votes', v) = NoChoice
    BY <1>0, <2>1, <2>2 DEF At
  <2> QED
    BY <1>0, <1>s, <1>a, <2>1, <2>3
<1>5. CASE EndStep
  <2>1. PICK cp \in Checkpoints : Ends(cp) /\ (cp = saved \/ cp = Snapshot(mstatus, votes))
    BY <1>5, EndsWith
  <2>2. mstatus' = cp.mstatus /\ votes' = cp.votes /\ saved' = cp /\ current' = NoMotion
    BY <2>1, EndsFrames
  <2>3. \A v \in VoteIds : cp.mstatus[v[1]] \notin UnderVote => At(cp.votes, v) = NoChoice
    BY <1>0, <1>s, <2>1
  <2>4. \A v \in VoteIds : current' # v[1]
    BY <1>0, <2>2
  <2> QED
    BY <1>a, <2>2, <2>3, <2>4
<1>6. CASE AdjournDirectly
  <2>1. UNCHANGED <<mstatus, votes, current>> /\ saved' = Snapshot(mstatus, votes) /\ current = NoMotion
    BY <1>6, Frames DEF AdjournDirectly, ReadyToAdjourn
  <2> QED
    BY <1>0, <1>s, <1>a, <2>1
<1>7. ASSUME UNCHANGED <<mstatus, votes, saved, current>>,
             phase' = phase \/ phase' = "open" \/ (phase' = "draining" /\ current = NoMotion)
      PROVE  MotionsInOrder'
  BY <1>0, <1>7 DEF MotionsInOrder, At
<1>8. CASE BeginDrain \/ Resume
  BY <1>7, <1>8, Frames DEF BeginDrain, Resume, ReadyToAdjourn
<1> QED
  BY <1>1, <1>2, <1>3, <1>4, <1>5, <1>6, <1>7, <1>8, Frames DEF SessionStep

LEMMA PayloadKept ==
  ASSUME SessionTypeOK, MotionsInOrder, PayloadFresh, SessionStep
  PROVE  PayloadFresh'
<1>0. /\ \A v \in payload : /\ mode = "inprocess" /\ v[1] = current
                            /\ mstatus[v[1]] = "voting" /\ At(votes, v) # NoChoice
      /\ payload \subseteq VoteIds
      /\ \A v \in VoteIds : v[1] # NoMotion /\ v[1] \in Motions
  BY VoteParts DEF PayloadFresh, SessionTypeOK
<1>1. current = NoMotion => payload = {}
  BY <1>0
<1>e. payload' = {} => PayloadFresh'
  BY DEF PayloadFresh
<1>2. ASSUME NEW m \in Motions, Advances(m) PROVE PayloadFresh'
  <2>1. payload = {}
    BY <1>0, <1>1, <1>2 DEF Advances
  <2> QED
    BY <1>2, <1>e, <2>1, Frames
<1>3. ASSUME NEW m \in Motions, NEW a \in Archons, Records(m, a) PROVE PayloadFresh'
  <2>1. /\ UNCHANGED <<mstatus, current, mode>> /\ current = m /\ mstatus[m] = "voting"
        /\ \/ payload' = payload
           \/ mode = "inprocess" /\ payload' = payload \cup {<<m, a>>}
        /\ At(votes', <<m, a>>) \in Choices /\ <<m, a>>[1] = m
        /\ \A v \in VoteIds \ {<<m, a>>} : At(votes', v) = At(votes, v)
    BY <1>3, Frames, RecordsOne DEF Records
  <2>2. ASSUME NEW v \in payload' PROVE At(votes', v) # NoChoice
    BY <1>0, <2>1, Words
  <2> QED
    BY <1>0, <2>1, <2>2 DEF PayloadFresh, At
<1>4. ASSUME NEW m \in Motions, Submits(m) PROVE PayloadFresh'
  BY <1>4, <1>e DEF Submits
<1>5. ASSUME NEW m \in Motions, Tallies(m) \/ Gated(m) PROVE PayloadFresh'
  <2>1. payload = {}
    BY <1>0, <1>5 DEF Tallies, Gated
  <2> QED
    BY <1>5, <1>e, <2>1, Frames
<1>6. CASE FinishAdjourn \/ AdjournDirectly \/ BeginDrain
  <2>1. current = NoMotion
    BY <1>6 DEF FinishAdjourn, AdjournDirectly, BeginDrain, ReadyToAdjourn, MotionsInOrder
  <2> QED
    BY <1>1, <1>6, <1>e, <2>1, Frames
<1>7. CASE EndStep
  BY <1>7, <1>e, EndsWith, EndsFrames
<1>8. ASSUME UNCHANGED <<mode, payload, mstatus, votes, current>> PROVE PayloadFresh'
  BY <1>0, <1>8 DEF PayloadFresh, At
<1> QED
  BY <1>2, <1>3, <1>4, <1>5, <1>6, <1>7, <1>8, Frames DEF SessionStep

LEMMA JobsKept ==
  ASSUME SessionTypeOK, MotionsInOrder, PayloadFresh, JobsKnown, VerdictsSound, SessionStep
  PROVE  JobsKnown'
<1>0. /\ mode # "inprocess" => /\ submitted = {} /\ saved.pending = {}
                               /\ \A v \in VoteIds : job[v] = "none"
      /\ \A v \in VoteIds : job[v] # "none" => At(votes, v) # NoChoice
      /\ \A v \in VoteIds : job[v] = "done" => verdict[v] # NoChoice
      /\ \A v \in saved.pending : At(saved.votes, v) # NoChoice
      /\ \A v \in VoteIds : job[v] = "running" => At(saved.votes, v) = NoChoice \/ v \in saved.pending
      /\ \A v \in submitted \ lost : IF phase = "down" THEN v \in saved.pending
                                     ELSE job[v] \in {"running", "done"}
      /\ phase = "down" => \A v \in VoteIds : job[v] = "none"
      /\ phase = "draining" => mode = "inprocess"
      /\ phase = "adjourned" => \A v \in VoteIds : job[v] # "running"
      /\ submitted \subseteq VoteIds /\ saved.pending \subseteq VoteIds
      /\ payload \subseteq VoteIds
      /\ job \in [VoteIds -> {"none", "running", "done"}]
  BY SavedTyped DEF JobsKnown, SessionTypeOK, Running
<1>s. \A ms, vs : Snapshot(ms, vs).pending = Running /\ Snapshot(ms, vs).votes = vs
  BY DEF Snapshot
<1>a. ASSUME UNCHANGED <<mode, job, verdict, submitted, lost>>,
             mode = "inprocess" => \A v \in VoteIds : At(votes, v) # NoChoice => At(votes', v) # NoChoice,
             \/ saved' = saved
             \/ saved'.pending = Running /\ saved'.votes = votes',
             phase' = phase \/ (phase # "down" /\ phase' # "down"),
             phase' = "down" => saved' = saved,
             phase' = "draining" => mode = "inprocess",
             phase' = "adjourned" => Running = {}
      PROVE  JobsKnown'
  <2>1. /\ mode' # "inprocess" => /\ submitted' = {} /\ saved'.pending = {}
                                  /\ \A v \in VoteIds : job'[v] = "none"
        /\ \A v \in VoteIds : job'[v] # "none" => At(votes', v) # NoChoice
        /\ \A v \in VoteIds : job'[v] = "done" => verdict'[v] # NoChoice
    BY <1>0, <1>a DEF Running
  <2>2. /\ \A v \in saved'.pending : At(saved'.votes, v) # NoChoice
        /\ \A v \in VoteIds : job'[v] = "running" => At(saved'.votes, v) = NoChoice \/ v \in saved'.pending
    <3>1. CASE saved' = saved
      BY <1>0, <1>a, <3>1
    <3>2. CASE saved'.pending = Running /\ saved'.votes = votes'
      BY <1>a, <2>1, <3>2 DEF Running
    <3> QED
      BY <1>a, <3>1, <3>2
  <2>3. /\ \A v \in submitted' \ lost' : IF phase' = "down" THEN v \in saved'.pending
                                         ELSE job'[v] \in {"running", "done"}
        /\ phase' = "down" => \A v \in VoteIds : job'[v] = "none"
        /\ phase' = "draining" => mode' = "inprocess"
        /\ phase' = "adjourned" => Running' = {}
    BY <1>0, <1>a DEF Running
  <2> QED
    BY <2>1, <2>2, <2>3 DEF JobsKnown, At
<1>1. ASSUME NEW m \in Motions, Advances(m) PROVE JobsKnown'
  <2>1. UNCHANGED <<mode, phase, votes, job, verdict, submitted, lost>> /\ phase = "open"
    BY <1>1, Frames DEF Advances
  <2>2. saved' = saved \/ saved' = Snapshot(mstatus', votes)
    BY <1>1 DEF Advances
  <2> QED
    BY <1>s, <1>a, <2>1, <2>2
<1>2. ASSUME NEW m \in Motions, NEW a \in Archons, Records(m, a) PROVE JobsKnown'
  <2>1. \A v \in VoteIds : At(votes, v) # NoChoice => At(votes', v) # NoChoice
    BY <1>2, RecordsOne, Words
  <2>2. phase = "open"
    BY <1>2 DEF Records
  <2> QED
    BY <1>a, <1>2, <2>1, <2>2, Frames
<1>3. ASSUME NEW m \in Motions, Tallies(m) \/ Gated(m) PROVE JobsKnown'
  <2>1. PICK ballot \in [Archons -> Choices \cup {NoChoice}] :
          /\ Concludes(m, ballot)
          /\ mode # "kafka" => ballot = votes[m]
    BY <1>3 DEF Tallies, Gated, SessionTypeOK
  <2>2. /\ saved' = Snapshot(mstatus', votes')
        /\ \A x \in Motions : votes'[x] = IF x = m THEN ballot ELSE votes[x]
    BY <2>1, ConcludesTyped
  <2>3. mode = "inprocess" => \A v \in VoteIds : At(votes', v) = At(votes, v)
    BY <2>1, <2>2, VoteParts DEF At
  <2>4. phase = "open"
    BY <1>3 DEF Tallies, Gated
  <2> QED
    BY <1>s, <1>a, <1>3, <2>2, <2>3, <2>4, Frames
<1>4. ASSUME NEW m \in Motions, Submits(m) PROVE JobsKnown'
  <2>1. /\ UNCHANGED <<mode, phase, votes, verdict, saved, lost>> /\ phase = "open"
        /\ \A v \in VoteIds : job'[v] = IF v \in payload THEN "running" ELSE job[v]
        /\ submitted' = submitted \cup payload /\ payload # {}
    BY <1>4, Frames DEF Submits
  <2>2. \A v \in payload : /\ mode = "inprocess" /\ At(votes, v) # NoChoice
                           /\ At(saved.votes, v) = NoChoice
    BY <1>0 DEF PayloadFresh, MotionsInOrder
  <2> QED
    BY <1>0, <2>1, <2>2 DEF JobsKnown, At, Running
<1>5. ASSUME NEW v \in VoteIds, Adjudicate(v) PROVE JobsKnown'
  <2>1. /\ UNCHANGED <<mode, phase, votes, saved, lost, submitted>> /\ phase # "down"
        /\ job[v] = "running" /\ Gathered(v)
        /\ job' = [job EXCEPT ![v] = "done"]
        /\ verdict' = [verdict EXCEPT ![v] =
             Adjudicated(votes[v[1]][v[2]], heard[v]["text"], heard[v]["json"])]
    BY <1>5, Frames DEF Adjudicate
  <2>2. \A w \in VoteIds : /\ w # v => job'[w] = job[w] /\ verdict'[w] = verdict[w]
                           /\ w = v => job'[w] = "done"
    BY <1>0, <2>1 DEF SessionTypeOK
  <2>3. verdict'[v] # NoChoice
    <3>1. verdict'[v] = Adjudicated(At(votes, v), heard[v]["text"], heard[v]["json"])
      BY <2>1 DEF SessionTypeOK, At
    <3>2. At(votes, v) # NoChoice
      BY <1>0, <2>1
    <3> QED
      BY <3>1, <3>2 DEF Adjudicated, Agreed
  <2> QED
    BY <1>0, <2>1, <2>2, <2>3 DEF JobsKnown, At, Running
<1>6. CASE AdjournDirectly
  <2>1. Running = {} /\ saved' = Snapshot(mstatus, votes) /\ phase # "down" /\ phase' = "adjourned"
    BY <1>0, <1>6 DEF AdjournDirectly, ReadyToAdjourn, Running
  <2> QED
    BY <1>s, <1>a, <1>6, <2>1, Frames
<1>7. CASE FinishAdjourn
  <2>1. /\ saved' = Snapshot(mstatus', votes')
        /\ \A v \in VoteIds : At(votes', v) = IF Overriding(v) THEN verdict[v] ELSE At(votes, v)
    BY <1>7, FinishTyped
  <2>2. \A v \in VoteIds : At(votes, v) # NoChoice => At(votes', v) # NoChoice
    BY <1>0, <2>1 DEF Overriding
  <2>3. Running = {} /\ phase # "down" /\ phase' = "adjourned"
    BY <1>7 DEF FinishAdjourn, Drained
  <2> QED
    BY <1>s, <1>a, <1>7, <2>1, <2>2, <2>3, Frames
<1>8. CASE BeginDrain
  <2>1. mode = "inprocess" /\ phase # "down" /\ phase' = "draining"
    BY <1>8 DEF BeginDrain, ReadyToAdjourn
  <2> QED
    BY <1>a, <1>8, <2>1, Frames
<1>9. CASE Resume
  <2>1. /\ UNCHANGED <<mode, votes, verdict, saved, submitted, lost>>
        /\ phase = "down" /\ phase' = "open"
        /\ \A v \in VoteIds : job'[v] = IF v \in saved.pending THEN "running" ELSE "none"
    BY <1>9, Frames DEF Resume
  <2>2. votes = saved.votes
    BY <2>1 DEF MotionsInOrder
  <2> QED
    BY <1>0, <2>1, <2>2 DEF JobsKnown, At, Running
<1>10. CASE EndStep
  <2>1. PICK cp \in Checkpoints : Ends(cp) /\ InSession /\ (cp = saved \/ cp = Snapshot(mstatus, votes))
    BY <1>10, EndsWith
  <2>2. /\ phase' = "down" /\ saved' = cp /\ votes' = cp.votes /\ mode' = mode
        /\ \A v \in VoteIds : job'[v] = "none"
        /\ lost' = Standing(cp.votes) \cap
                     (lost \cup {v \in VoteIds : job[v] = "done" /\ v \notin cp.pending})
        /\ submitted' = submitted \cap Standing(cp.votes)
    BY <2>1, EndsFrames
  <2>3. phase # "down" /\ cp.pending \subseteq VoteIds
    BY <2>1 DEF InSession, Checkpoints
  <2>4. \A v \in cp.pending : At(cp.votes, v) # NoChoice
    BY <1>0, <1>s, <2>1 DEF Running
  <2>5. mode # "inprocess" => cp.pending = {}
    BY <1>0, <1>s, <2>1 DEF Running
  <2>6. ASSUME NEW v \in submitted' \ lost' PROVE v \in cp.pending
    <3>1. /\ v \in VoteIds /\ v \in submitted /\ v \notin lost
          /\ At(cp.votes, v) # NoChoice
          /\ ~(job[v] = "done" /\ v \notin cp.pending)
      BY <1>0, <2>2, <2>6 DEF Standing, At
    <3>2. job[v] \in {"running", "done"}
      BY <1>0, <2>3, <3>1
    <3> QED
      BY <1>0, <1>s, <2>1, <3>1, <3>2 DEF Running
  <2> QED
    BY <2>2, <2>3, <2>4, <2>5, <2>6 DEF JobsKnown, At, Running
<1>11. ASSUME UNCHANGED <<mode, phase, votes, job, verdict, saved, submitted, lost>> PROVE JobsKnown'
  BY <1>0, <1>11 DEF JobsKnown, At, Running
<1> QED
  BY <1>1, <1>2, <1>3, <1>4, <1>5, <1>6, <1>7, <1>8, <1>9, <1>10, <1>11, Frames DEF SessionStep

LEMMA ValidationStands ==
  ASSUME SessionTypeOK, JobsKnown, ValidationKept, SessionStep
  PROVE  ValidationKept'
<1>0. /\ phase = "adjourned" =>
           \A v \in submitted \ lost : job[v] = "done" /\ At(votes, v) = verdict[v]
      /\ phase = "adjourned" => \A v \in VoteIds : job[v] # "running"
      /\ mode # "inprocess" => submitted = {}
      /\ \A v \in submitted \ lost : v \in VoteIds /\
           (phase # "down" => job[v] \in {"running", "done"})
  BY DEF ValidationKept, JobsKnown, SessionTypeOK, Running, At
<1>1. CASE FinishAdjourn
  <2>1. /\ \A v \in VoteIds : At(votes', v) = IF Overriding(v) THEN verdict[v] ELSE At(votes, v)
        /\ UNCHANGED <<job, verdict, submitted, lost>> /\ phase = "draining"
        /\ \A v \in VoteIds : job[v] # "running"
    BY <1>1, FinishTyped, Frames DEF FinishAdjourn, Drained, Running
  <2>2. \A v \in submitted \ lost : job[v] = "done" /\ At(votes', v) = verdict[v]
    BY <1>0, <2>1 DEF Overriding, At
  <2> QED
    BY <2>1, <2>2 DEF ValidationKept, At
<1>2. CASE AdjournDirectly
  BY <1>0, <1>2, Frames DEF AdjournDirectly, ValidationKept
<1>3. ASSUME phase' # "adjourned" PROVE ValidationKept'
  BY <1>3 DEF ValidationKept
<1>4. ASSUME UNCHANGED <<phase, votes, job, verdict, submitted, lost>> PROVE ValidationKept'
  BY <1>0, <1>4 DEF ValidationKept, At
<1>5. ASSUME NEW m \in Motions, Advances(m) \/ Submits(m) \/ Tallies(m) \/ Gated(m)
      PROVE  phase' # "adjourned"
  BY <1>5, Frames DEF Advances, Submits, Tallies, Gated
<1>6. ASSUME NEW m \in Motions, NEW a \in Archons, Records(m, a) PROVE phase' # "adjourned"
  BY <1>6, Frames DEF Records
<1>7. ASSUME NEW v \in VoteIds, Adjudicate(v) PROVE phase' # "adjourned"
  BY <1>0, <1>7, Frames DEF Adjudicate
<1>8. CASE EndStep
  BY <1>8, <1>3, EndsWith, EndsFrames
<1>9. CASE BeginDrain \/ Resume
  BY <1>3, <1>9 DEF BeginDrain, Resume
<1> QED
  BY <1>1, <1>2, <1>3, <1>4, <1>5, <1>6, <1>7, <1>8, <1>9, Frames DEF SessionStep

LEMMA VerdictsKept ==
  ASSUME SessionTypeOK, JobsKnown, VerdictsSound, SessionStep
  PROVE  VerdictsSound'
<1>0. /\ \A v \in VoteIds, role \in Roles : heard[v][role] \in Readings \cup {"unread", NoChoice}
      /\ \A v \in VoteIds : job[v] = "done" =>
           \/ verdict[v] = At(votes, v)
           \/ Agreed(heard[v]["text"], heard[v]["json"]) /\ heard[v]["text"] = verdict[v]
      /\ mode # "inprocess" => \A v \in VoteIds : job[v] = "none"
      /\ \A v \in VoteIds : job[v] # "none" => At(votes, v) # NoChoice
  BY DEF VerdictsSound, JobsKnown
<1>a. ASSUME UNCHANGED <<heard, verdict>>,
             \A v \in VoteIds : job'[v] = "done" =>
               job[v] = "done" /\ (At(votes', v) = At(votes, v) \/ At(votes', v) = verdict[v])
      PROVE  VerdictsSound'
  BY <1>0, <1>a DEF VerdictsSound, At
<1>1. ASSUME NEW m \in Motions, Advances(m) PROVE VerdictsSound'
  BY <1>1, <1>a, Frames
<1>2. ASSUME NEW m \in Motions, NEW a \in Archons, Records(m, a) PROVE VerdictsSound'
  BY <1>0, <1>2, <1>a, Frames, RecordsOne
<1>3. ASSUME NEW m \in Motions, Submits(m) PROVE VerdictsSound'
  <2>1. \A v \in VoteIds : job'[v] = IF v \in payload THEN "running" ELSE job[v]
    BY <1>3 DEF Submits
  <2> QED
    BY <1>3, <1>a, <2>1, Frames
<1>4. ASSUME NEW m \in Motions, Tallies(m) \/ Gated(m) PROVE VerdictsSound'
  <2>1. CASE mode # "inprocess"
    BY <1>0, <1>4, <1>a, <2>1, Frames
  <2>2. CASE mode = "inprocess"
    <3>1. votes[m] \in [Archons -> Choices \cup {NoChoice}] /\ Concludes(m, votes[m])
      BY <1>4, <2>2 DEF Tallies, Gated, SessionTypeOK
    <3>2. \A v \in VoteIds : At(votes', v) = At(votes, v)
      BY <3>1, ConcludesTyped, VoteParts DEF At
    <3> QED
      BY <1>4, <1>a, <3>2, Frames
  <2> QED
    BY <2>1, <2>2
<1>5. ASSUME NEW v \in VoteIds, NEW d \in Deliberators, DeliberatorReturns(v, d)
      PROVE  VerdictsSound'
  <2>1. PICK c \in Outcomes(d) \cup {NoChoice} : heard' = [heard EXCEPT ![v][d] = c]
    BY <1>5 DEF DeliberatorReturns
  <2>2. heard \in [VoteIds -> [Deliberators -> Readings \cup {"unread", "observed", NoChoice}]]
    BY DEF SessionTypeOK
  <2>3. ASSUME NEW w \in VoteIds, NEW role \in Roles
        PROVE  heard'[w][role] \in Readings \cup {"unread", NoChoice}
    <3>1. role \in Deliberators /\ role # "witness"
      BY DEF Deliberators, Roles
    <3>2. heard'[w][role] = IF w = v /\ role = d THEN c ELSE heard[w][role]
      BY <2>1, <2>2, <3>1
    <3> QED
      BY <1>0, <3>1, <3>2 DEF Outcomes
  <2>4. \A w \in VoteIds : w # v => heard'[w] = heard[w]
    BY <2>1, <2>2
  <2>5. job[v] = "running" /\ UNCHANGED <<job, votes, verdict>>
    BY <1>5, Frames DEF DeliberatorReturns
  <2> QED
    BY <1>0, <2>3, <2>4, <2>5 DEF VerdictsSound, At
<1>6. ASSUME NEW v \in VoteIds, Adjudicate(v) PROVE VerdictsSound'
  <2>1. /\ UNCHANGED <<votes, heard>>
        /\ job' = [job EXCEPT ![v] = "done"]
        /\ verdict' = [verdict EXCEPT ![v] =
             Adjudicated(votes[v[1]][v[2]], heard[v]["text"], heard[v]["json"])]
    BY <1>6, Frames DEF Adjudicate
  <2>2. \A w \in VoteIds : w # v => job'[w] = job[w] /\ verdict'[w] = verdict[w]
    BY <2>1 DEF SessionTypeOK
  <2>3. verdict'[v] = Adjudicated(At(votes, v), heard[v]["text"], heard[v]["json"])
    BY <2>1 DEF SessionTypeOK, At
  <2>4. \/ verdict'[v] = At(votes, v)
        \/ Agreed(heard[v]["text"], heard[v]["json"]) /\ heard[v]["text"] = verdict'[v]
    BY <2>3 DEF Adjudicated
  <2> QED
    BY <1>0, <2>1, <2>2, <2>4 DEF VerdictsSound, At
<1>7. CASE FinishAdjourn
  <2>1. \A v \in VoteIds : At(votes', v) = At(votes, v) \/ At(votes', v) = verdict[v]
    BY <1>7, FinishTyped
  <2> QED
    BY <1>7, <1>a, <2>1, Frames
<1>8. CASE EndStep
  <2>1. \A v \in VoteIds : /\ job'[v] = "none"
                           /\ \A d \in Deliberators : heard'[v][d] = "unread"
    BY <1>8, EndsWith, EndsFrames
  <2> QED
    BY <2>1 DEF VerdictsSound, Deliberators
<1>9. CASE Resume
  <2>1. \A v \in VoteIds : job'[v] # "done"
    BY <1>9 DEF Resume
  <2> QED
    BY <1>9, <1>a, <2>1, Frames
<1>10. ASSUME UNCHANGED <<votes, job, heard, verdict>> PROVE VerdictsSound'
  BY <1>a, <1>10
<1> QED
  BY <1>1, <1>2, <1>3, <1>4, <1>5, <1>6, <1>7, <1>8, <1>9, <1>10, Frames DEF SessionStep

LEMMA TrackKept ==
  ASSUME SessionTypeOK, finals \in LogsOf(Readings \cup {Dead}), TrackSound, SessionStep
  PROVE  TrackSound'
<1>0. /\ mode # "kafka" => \A v \in VoteIds : track[v] = "none"
      /\ \A v \in VoteIds : track[v] = "validated" => Occurs(finals, v, validated[v])
      /\ track \in [VoteIds -> {"none", "pending", "validated", "dlq", "fallback"}]
      /\ validated \in [VoteIds -> Choices \cup {NoChoice}]
      /\ mpos \in [VoteIds -> Nat]
  BY DEF TrackSound, SessionTypeOK
<1>a. ASSUME UNCHANGED <<mode, validated, finals>>, mode # "kafka" => track' = track,
             \A v \in VoteIds : track'[v] = "validated" => track[v] = "validated"
      PROVE  TrackSound'
  BY <1>0, <1>a DEF TrackSound, Occurs
<1>1. ASSUME NEW m \in Motions, NEW a \in Archons, Records(m, a) PROVE TrackSound'
  <2>1. \/ track' = track
        \/ mode = "kafka" /\ track' = [track EXCEPT ![<<m, a>>] = "pending"]
    BY <1>1 DEF Records
  <2>2. \A v \in VoteIds : track'[v] = "validated" => track[v] = "validated"
    BY <1>0, <2>1
  <2>3. UNCHANGED <<mode, validated, finals>>
    BY <1>1, Frames
  <2>4. mode # "kafka" => track' = track
    BY <2>1
  <2> QED
    BY <1>a, <2>2, <2>3, <2>4
<1>2. ASSUME NEW m \in Motions, Gated(m) PROVE TrackSound'
  <2>1. mode = "kafka" /\ \A v \in VoteIds : track'[v] = "validated" => track[v] = "validated"
    BY <1>2 DEF Gated
  <2> QED
    BY <1>2, <1>a, <2>1, Frames
<1>3. ASSUME NEW v \in VoteIds, Mark(v) PROVE TrackSound'
  <2> DEFINE x == finals[v][mpos[v] + 1]
  <2>1. Occurs(finals, v, x)
    <3>1. mpos[v] \in Nat /\ Len(finals[v]) \in Nat /\ mpos[v] < Len(finals[v])
      BY <1>0, <1>3 DEF Mark, LogsOf
    <3>2. mpos[v] + 1 \in 1..Len(finals[v])
      BY <3>1
    <3> QED
      BY <3>2 DEF Occurs
  <2>2. \/ UNCHANGED <<track, validated>>
        \/ /\ track[v] # "none"
           /\ track' = [track EXCEPT ![v] = IF x = Dead THEN "dlq" ELSE "validated"]
           /\ validated' = IF x = Dead THEN validated ELSE [validated EXCEPT ![v] = x]
    BY <1>3 DEF Mark
  <2>3. UNCHANGED <<mode, finals>>
    BY <1>3, Frames
  <2> HIDE DEF x
  <2>4. CASE UNCHANGED <<track, validated>>
    BY <1>a, <2>3, <2>4
  <2>5. CASE /\ track[v] # "none"
             /\ track' = [track EXCEPT ![v] = IF x = Dead THEN "dlq" ELSE "validated"]
             /\ validated' = IF x = Dead THEN validated ELSE [validated EXCEPT ![v] = x]
    <3>1. \A w \in VoteIds : w # v => track'[w] = track[w] /\ validated'[w] = validated[w]
      BY <1>0, <2>5
    <3>2. track'[v] = "validated" => validated'[v] = x
      BY <1>0, <2>5
    <3>3. mode = "kafka"
      BY <1>0, <2>5
    <3>4. \A w \in VoteIds : track'[w] = "validated" => Occurs(finals, w, validated'[w])
      BY <1>0, <2>1, <3>1, <3>2
    <3> QED
      BY <2>3, <3>3, <3>4 DEF TrackSound, Occurs
  <2> QED
    BY <2>2, <2>4, <2>5
<1>4. CASE PipelineMoves
  <2>1. UNCHANGED <<mode, track, validated>> /\ Extends(finals, finals')
    BY <1>4, Frames DEF PipelineMoves
  <2>2. \A v \in VoteIds : track[v] = "validated" => Occurs(finals', v, validated[v])
    BY <1>0, <2>1, OccursStays
  <2> QED
    BY <1>0, <2>1, <2>2 DEF TrackSound, Occurs
<1>5. CASE EndStep
  BY <1>5, EndsWith, EndsFrames DEF TrackSound
<1>6. ASSUME UNCHANGED <<mode, track, validated, finals>> PROVE TrackSound'
  BY <1>a, <1>6
<1> QED
  BY <1>1, <1>2, <1>3, <1>4, <1>5, <1>6, Frames DEF SessionStep

-----------------------------------------------------------------------------
(***************************************************************************)
(* The theorems of the session.                                            *)
(***************************************************************************)
LEMMA SessionStarts == Init => SessionInv
<1> SUFFICES ASSUME Init PROVE SessionInv
  OBVIOUS
<1>1. PipelineInv
  BY PipelineStarts DEF Init
<1>2. /\ votes = Empty /\ saved = [mstatus |-> mstatus, votes |-> Empty, pending |-> {}]
      /\ mstatus \in [Motions -> {"none", "proposed"}]
      /\ phase = "open" /\ current = NoMotion /\ payload = {} /\ submitted = {} /\ lost = {}
      /\ \A v \in VoteIds : /\ job[v] = "none" /\ track[v] = "none"
                            /\ \A d \in Deliberators : heard[v][d] = "unread"
  BY DEF Init, NotHeard
<1>3. \A v \in VoteIds : At(Empty, v) = NoChoice
  BY VoteParts DEF At, Empty
<1>4. SessionTypeOK
  <2>1. Empty \in [Motions -> [Archons -> Choices \cup {NoChoice}]]
    BY DEF Empty
  <2>2. mstatus \in [Motions -> MotionStatus]
    BY <1>2 DEF MotionStatus
  <2>3. saved \in Checkpoints
    BY <1>2, <2>1, <2>2 DEF Checkpoints
  <2>4. /\ job \in [VoteIds -> {"none", "running", "done"}]
        /\ heard \in [VoteIds -> [Deliberators -> Readings \cup {"unread", "observed", NoChoice}]]
        /\ verdict \in [VoteIds -> Choices \cup {NoChoice}]
        /\ track \in [VoteIds -> {"none", "pending", "validated", "dlq", "fallback"}]
        /\ validated \in [VoteIds -> Choices \cup {NoChoice}]
        /\ mpos \in [VoteIds -> Nat]
    BY DEF Init, NotHeard
  <2>5. /\ mode \in Modes /\ present \in SUBSET Archons
        /\ phase \in {"open", "draining", "adjourned", "down"} /\ current \in Motions \cup {NoMotion}
        /\ payload \in SUBSET VoteIds /\ breaker \in BOOLEAN /\ ungated \in SUBSET Motions
        /\ submitted \in SUBSET VoteIds /\ lost \in SUBSET VoteIds
    BY DEF Init
  <2> QED
    BY <1>2, <2>1, <2>2, <2>3, <2>4, <2>5 DEF SessionTypeOK
<1>5. ResultsMatch
  BY <1>2 DEF ResultsMatch, ResultMatchesVotes, Decided
<1>6. GateHolds /\ ValidationKept /\ TrackSound
  BY <1>2 DEF GateHolds, ValidationKept, TrackSound
<1>7. MotionsInOrder
  BY <1>2, <1>3, VoteParts DEF MotionsInOrder
<1>8. PayloadFresh /\ JobsKnown /\ VerdictsSound
  BY <1>2 DEF PayloadFresh, JobsKnown, VerdictsSound, Deliberators, Running
<1> QED
  BY <1>1, <1>4, <1>5, <1>6, <1>7, <1>8 DEF SessionInv

LEMMA SessionMoves ==
  ASSUME SessionInv, SessionStep, PipelineInv'
  PROVE  SessionInv'
<1>1. /\ PipelineInv /\ SessionTypeOK /\ ResultsMatch /\ GateHolds /\ MotionsInOrder
      /\ PayloadFresh /\ JobsKnown /\ ValidationKept /\ VerdictsSound /\ TrackSound
  BY DEF SessionInv
<1>2. finals \in LogsOf(Readings \cup {Dead})
  BY <1>1 DEF PipelineInv, PipelineTyped, Logs
<1>3. SessionTypeOK' /\ ResultsMatch' /\ GateHolds'
  BY <1>1, <1>2, SessionTyped, ResultsKept, GateKept
<1>4. MotionsInOrder' /\ PayloadFresh' /\ JobsKnown'
  BY <1>1, OrderKept, PayloadKept, JobsKept
<1>5. ValidationKept' /\ VerdictsSound' /\ TrackSound'
  BY <1>1, <1>2, ValidationStands, VerdictsKept, TrackKept
<1> QED
  BY <1>3, <1>4, <1>5 DEF SessionInv

LEMMA SessionStutters ==
  ASSUME SessionInv, UNCHANGED vars
  PROVE  PipelineMoves
<1>1. UNCHANGED session /\ finals' = finals
  BY DEF vars, session, fixed, aggVars, topics
<1>2. finals \in LogsOf(Readings \cup {Dead})
  BY DEF SessionInv, PipelineInv, PipelineTyped, Logs
<1> QED
  BY <1>1, <1>2, Still DEF PipelineMoves

(***************************************************************************)
(* The invariant of the session.                                           *)
(***************************************************************************)
THEOREM SessionInvariant == Spec => []SessionInv
<1>1. Init => SessionInv
  BY SessionStarts
<1>2. SessionInv /\ PipelineInv' /\ [Next]_vars => SessionInv'
  <2> SUFFICES ASSUME SessionInv, PipelineInv', [Next]_vars PROVE SessionInv'
    OBVIOUS
  <2>1. CASE Next
    BY <2>1, SessionSteps, SessionMoves DEF SessionInv
  <2>2. CASE UNCHANGED vars
    BY <2>2, SessionStutters, SessionMoves DEF SessionStep
  <2> QED
    BY <2>1, <2>2
<1> QED
  BY <1>1, <1>2, PipelineInvariant, PTL DEF Spec

(***************************************************************************)
(* Every variable of the pipeline and of the session has its type.         *)
(***************************************************************************)
THEOREM VotesTyped == Spec => []VotesTypeOK
<1>1. SessionInv => VotesTypeOK
  BY TypedImplies DEF SessionInv, PipelineInv, VotesTypeOK
<1> QED
  BY <1>1, SessionInvariant, PTL

(***************************************************************************)
(* No motion is decided with a vote of it pending, but past an open        *)
(* breaker (_await_reconciliation_gate of ConclaveService).                *)
(***************************************************************************)
THEOREM GateIsHeld == Spec => []GateHolds
<1>1. SessionInv => GateHolds
  BY DEF SessionInv
<1> QED
  BY <1>1, SessionInvariant, PTL

(***************************************************************************)
(* A decided motion's result is the tally of its votes, after overrides    *)
(* (_recompute_motion_result), checkpoints and restarts.                   *)
(***************************************************************************)
THEOREM ResultsAreTallies == Spec => []ResultMatchesVotes
<1>1. SessionInv => ResultMatchesVotes
  BY DEF SessionInv, ResultsMatch
<1> QED
  BY <1>1, SessionInvariant, PTL

(***************************************************************************)
(* At adjournment the votes submitted for validation stand as adjudicated, *)
(* but those whose finished job a restart forgot (drain and                *)
(* _apply_validation_overrides, load_session).                             *)
(***************************************************************************)
THEOREM ValidationsKept == Spec => []ValidationKept
<1>1. SessionInv => ValidationKept
  BY DEF SessionInv
<1> QED
  BY <1>1, SessionInvariant, PTL

(***************************************************************************)
(* Only validation changes a recorded vote: the two secretaries of its job *)
(* agreed, or a final message for a vote of the same archon has the choice *)
(* (_apply_validation_overrides, await_all_validations).                   *)
(***************************************************************************)
LEMMA ChangesValidated ==
  ASSUME SessionInv, SessionStep, NEW m \in Motions, NEW a \in Archons
  PROVE  ChangedByValidation(m, a)
<1> DEFINE v == <<m, a>>
<1>0. v \in VoteIds /\ At(votes, v) = votes[m][a] /\ At(votes', v) = votes'[m][a]
  BY VoteParts DEF At
<1> HIDE DEF v
<1>1. SUFFICES ASSUME At(votes, v) # NoChoice, At(votes', v) # At(votes, v), phase' # "down"
               PROVE  \/ Agreed(heard[v]["text"], heard[v]["json"]) /\ heard[v]["text"] = At(votes', v)
                      \/ \E x \in Motions : Occurs(finals, <<x, a>>, At(votes', v))
  BY <1>0 DEF ChangedByValidation, Occurs, v
<1>2. /\ SessionTypeOK /\ VerdictsSound /\ TrackSound
  BY DEF SessionInv
<1>3. CASE FinishAdjourn
  <2>1. Overriding(v) /\ At(votes', v) = verdict[v]
    BY <1>0, <1>1, <1>2, <1>3, FinishTyped
  <2> QED
    BY <1>0, <1>2, <2>1 DEF Overriding, VerdictsSound, At
<1>4. ASSUME NEW n \in Motions, Gated(n)
      PROVE  \E x \in Motions : Occurs(finals, <<x, a>>, At(votes', v))
  <2>1. PICK ballot \in [Archons -> Choices \cup {NoChoice}] :
          /\ \A b \in Archons : ballot[b] = votes[n][b] \/ ballot[b] \in Overrides(b)
          /\ Concludes(n, ballot)
    BY <1>4 DEF Gated
  <2>2. \A x \in Motions : votes'[x] = IF x = n THEN ballot ELSE votes[x]
    BY <1>2, <2>1, ConcludesTyped
  <2>3. m = n /\ votes'[m][a] \in Overrides(a)
    BY <1>0, <1>1, <2>1, <2>2
  <2>4. PICK w \in VoteIds : w[2] = a /\ track[w] = "validated" /\ validated[w] = votes'[m][a]
    BY <2>3 DEF Overrides
  <2>5. w = <<w[1], a>> /\ w[1] \in Motions
    BY <2>4, VoteParts
  <2>6. Occurs(finals, w, votes'[m][a])
    BY <1>2, <2>4 DEF TrackSound
  <2> QED
    BY <1>0, <2>5, <2>6
<1>5. ASSUME NEW n \in Motions, Tallies(n) PROVE FALSE
  <2>1. votes[n] \in [Archons -> Choices \cup {NoChoice}] /\ Concludes(n, votes[n])
    BY <1>2, <1>5 DEF Tallies, SessionTypeOK
  <2>2. \A x \in Motions : votes'[x] = votes[x]
    BY <1>2, <2>1, ConcludesTyped
  <2> QED
    BY <1>0, <1>1, <2>2
<1>6. ASSUME NEW n \in Motions, NEW b \in Archons, Records(n, b) PROVE FALSE
  <2>1. v # <<n, b>>
    BY <1>1, <1>2, <1>6, RecordsOne
  <2> QED
    BY <1>0, <1>1, <1>2, <1>6, <2>1, RecordsOne
<1>7. CASE EndStep
  BY <1>1, <1>2, <1>7, EndsWith, EndsFrames
<1>8. CASE votes' = votes
  BY <1>1, <1>8
<1> QED
  BY <1>3, <1>4, <1>5, <1>6, <1>7, <1>8, Frames DEF SessionStep

(***************************************************************************)
(* A vote on record is changed only by what validation said of it: the     *)
(* in-process overrides, an adjudicated record or the override of the      *)
(* dead-letter fallback (cast_vote, apply_overrides).                      *)
(***************************************************************************)
THEOREM ChangesOnlyValidated == Spec => VotesOnlyValidated
<1>1. SessionInv /\ [Next]_vars => [\A m \in Motions, a \in Archons : ChangedByValidation(m, a)]_vars
  <2> SUFFICES ASSUME SessionInv, Next, NEW m \in Motions, NEW a \in Archons
               PROVE  ChangedByValidation(m, a)
    OBVIOUS
  <2>1. SessionStep
    BY SessionSteps DEF SessionInv
  <2> QED
    BY <2>1, ChangesValidated
<1> QED
  BY <1>1, SessionInvariant, PTL DEF Spec, VotesOnlyValidated
=============================================================================
