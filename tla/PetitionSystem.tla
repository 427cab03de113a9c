--------------------------- MODULE PetitionSystem ---------------------------
(***************************************************************************)
(* What happens to a petition: submission, withdrawal, co-signing and      *)
(* automatic escalation, the start of deliberation, acknowledgment,        *)
(* referral to a Knight, the Knight's work on the referral, and the        *)
(* deadline job that expires it.  Composed with the job queue: the         *)
(* deadline job of a petition has the petition's name, and the handler of  *)
(* that job is ReferralTimeoutService.process_timeout.                     *)
(*                                                                         *)
(* An actor is a request in flight or a worker inside the handler; one     *)
(* action is what happens between two awaits that matter.  A request that  *)
(* its first checks refuse changes nothing and is not a step.  assign_fate *)
(* _cas compares and swaps; every other write of a petition or a referral  *)
(* is unconditional and carries what was read some awaits ago.             *)
(*                                                                         *)
(* Faults: a request fails or its process dies between any two steps, the  *)
(* emission of a fate event is refused, a handler raises, mark_completed   *)
(* raises, a worker's loop ends; MaxFaults of them in a behaviour.         *)
(***************************************************************************)
EXTENDS PetitionRules, JobQueue

CONSTANTS
  Petitions,    \* petitions, which also name their deadline jobs
  Requests,     \* requests, each made at most once
  Signers,      \* who may co-sign
  Threshold,    \* co-signers that escalate a petition of this type
  MaxFaults     \* bound on the number of faults

ASSUME PetitionAssumption ==
  /\ Petitions \subseteq Jobs
  /\ Requests \cap Workers = {}
  /\ "earlier" \notin Requests \cup Workers
  /\ Threshold \in Nat \ {0}
  /\ MaxFaults \in Nat

VARIABLES
  state,        \* state[p]: the petition's row
  session,      \* session[p]: a deliberation session is stored
  ack,          \* ack[p]: which operation's acknowledgment is stored
  ref,          \* ref[p]: the referral of the petition
  signed,       \* signed[p]: who has co-signed
  op,           \* op[a]: the operation actor a performs
  pet,          \* pet[a]: the petition it is about
  pc,           \* pc[a]: its next step
  seen,         \* seen[a]: the petition state it has read
  seenRef,      \* seenRef[a]: the referral it has read
  signer,       \* signer[a]: who co-signs
  saveReplaces, \* whether the referral storage lets save() replace a record
  overlap,      \* whether operations may overlap in this behaviour
  faults,       \* faults so far
  fates,        \* fates[p]: <<a, f>>: a gave p the fate f and it stands (history)
  announced,    \* announced[p]: <<a, f>> with an event in the ledger (history)
  stale,        \* stale[p]: a write of p found another state than the one read
  refStale,     \* refStale[p]: the same for p's referral
  dropped,      \* dropped[p]: steps at which an operation on p was given up (history)
  outcome       \* outcome[p]: outcomes of the referral in the ledger (history)

storeVars   == <<state, session, ack, ref, signed>>
actorVars   == <<op, pet, pc, seen, seenRef, signer>>
runVars     == <<saveReplaces, overlap>>
historyVars == <<fates, announced, stale, refStale, dropped, outcome>>
petitionVars == <<storeVars, actorVars, runVars, faults, historyVars>>
vars == <<queueVars, petitionVars>>

Actors == Requests \cup Workers
Ops == {"none", "withdraw", "cosign", "archons", "acknowledge", "refer", "timeout"}
       \cup RefOps
Pc == {"ready", "done", "swap", "emit", "rollback", "create", "escalate", "escalate_swap",
       "start_session", "ack_find", "ack_save", "ack_write", "ack_event", "ref_save",
       "ref_state", "ref_job", "ref_event", "ref_update", "rec_event", "exp_read",
       "exp_save", "exp_event"}
Busy(a) == pc[a] \notin {"ready", "done"}
Decisions == (Actors \cup {"earlier"}) \X Fates

TypeOK ==
  /\ QueueTypeOK
  /\ state \in [Petitions -> PetitionState]
  /\ session \in [Petitions -> BOOLEAN]
  /\ ack \in [Petitions -> {"none"} \cup Ops]
  /\ ref \in [Petitions -> Referral]
  /\ signed \in [Petitions -> SUBSET Signers]
  /\ op \in [Actors -> Ops]
  /\ pet \in [Actors -> Petitions]
  /\ pc \in [Actors -> Pc]
  /\ seen \in [Actors -> PetitionState]
  /\ seenRef \in [Actors -> Referral]
  /\ signer \in [Actors -> Signers]
  /\ saveReplaces \in BOOLEAN /\ overlap \in BOOLEAN
  /\ faults \in 0..MaxFaults
  /\ fates \in [Petitions -> SUBSET Decisions]
  /\ announced \in [Petitions -> SUBSET Decisions]
  /\ stale \in [Petitions -> BOOLEAN]
  /\ refStale \in [Petitions -> BOOLEAN]
  /\ dropped \in [Petitions -> SUBSET Pc]
  /\ outcome \in [Petitions -> SUBSET {"completed", "expired"}]

(***************************************************************************)
(* A petition starts unsubmitted, just received, in deliberation, or       *)
(* referred with its deadline job pending.  A request that is done from    *)
(* the start is never made.                                                *)
(***************************************************************************)
Init ==
  /\ QueueInit
  /\ state \in [Petitions -> {"none", "RECEIVED", "DELIBERATING", "REFERRED"}]
  /\ \A p \in Petitions : status[p] = IF state[p] = "REFERRED" THEN "pending" ELSE "none"
  /\ session = [p \in Petitions |-> state[p] \in {"DELIBERATING", "REFERRED"}]
  /\ ack = [p \in Petitions |-> "none"]
  /\ ref \in [Petitions -> {NoReferral} \cup [st : Expirable, ext : {0}]]
  /\ \A p \in Petitions : ref[p] = NoReferral <=> state[p] # "REFERRED"
  /\ signed = [p \in Petitions |-> {}]
  /\ op = [a \in Actors |-> "none"]
  /\ pet \in [Actors -> Petitions]
  /\ pc \in [Actors -> {"ready", "done"}]
  /\ \A w \in Workers : pc[w] = "done"
  /\ seen = [a \in Actors |-> "none"]
  /\ seenRef = [a \in Actors |-> NoReferral]
  /\ signer \in [Actors -> Signers]
  /\ saveReplaces \in BOOLEAN /\ overlap \in BOOLEAN
  /\ faults = 0
  /\ fates = [p \in Petitions |->
                IF state[p] = "REFERRED" THEN {<<"earlier", "REFERRED">>} ELSE {}]
  /\ announced = fates
  /\ stale = [p \in Petitions |-> FALSE]
  /\ refStale = [p \in Petitions |-> FALSE]
  /\ dropped = [p \in Petitions |-> {}]
  /\ outcome = [p \in Petitions |-> {}]

-----------------------------------------------------------------------------
(***************************************************************************)
(* Steps of an actor.                                                      *)
(***************************************************************************)

Quiet == \A a \in Actors : ~Busy(a)

Goto(a, l) == pc' = [pc EXCEPT ![a] = l]

\* The operation ends: a request is over, a worker is back in its loop.
Returns(a) ==
  /\ Goto(a, "done")
  /\ IF a \in Workers THEN HandlerReturns(a) ELSE UNCHANGED queueVars
Raises(a) ==
  /\ Goto(a, "done")
  /\ IF a \in Workers THEN HandlerRaises(a) ELSE UNCHANGED queueVars

Fault == faults < MaxFaults /\ faults' = faults + 1

\* Request r starts operation o on petition p: it has made its reads.
Begin(r, o, p, l) ==
  /\ pc[r] = "ready"
  /\ overlap \/ Quiet
  /\ Goto(r, l)
  /\ op' = [op EXCEPT ![r] = o]
  /\ pet' = [pet EXCEPT ![r] = p]
  /\ seen' = [seen EXCEPT ![r] = state[p]]
  /\ seenRef' = [seenRef EXCEPT ![r] = ref[p]]
  /\ UNCHANGED <<queueVars, runVars, faults>>

\* An unconditional write of the petition's state by a.
Write(a, s) ==
  LET p == pet[a] IN
  /\ state' = [state EXCEPT ![p] = s]
  /\ stale' = [stale EXCEPT ![p] = @ \/ state[p] # seen[a]]

\* An unconditional write of the petition's referral by a.
WriteReferral(a, x) ==
  LET p == pet[a] IN
  /\ ref' = [ref EXCEPT ![p] = x]
  /\ refStale' = [refStale EXCEPT ![p] = @ \/ ref[p] # seenRef[a]]

\* An operation ends without the steps from a's present one on.
Drop(a) == dropped' = [dropped EXCEPT ![pet[a]] = @ \cup {pc[a]}]

Decide(a, f)   == fates' = [fates EXCEPT ![pet[a]] = @ \cup {<<a, f>>}]
Announce(a, f) == announced' = [announced EXCEPT ![pet[a]] = @ \cup {<<a, f>>}]

\* submit_petition: save under a fresh identifier.
Submit(p) ==
  /\ ~halted
  /\ state[p] = "none"
  /\ state' = [state EXCEPT ![p] = "RECEIVED"]
  /\ UNCHANGED <<queueVars, session, ack, ref, signed, actorVars, runVars, faults,
                 historyVars>>

(***************************************************************************)
(* assign_fate_cas: the swap succeeds only on the state that was read, and *)
(* only along the transition matrix.                                       *)
(***************************************************************************)
\* Mutant: the update does not compare with the expected state.
SwapsBlind(p, expected, f) == f \in ValidFates(expected)

Swaps(p, expected, f) == state[p] = expected /\ f \in ValidFates(expected)

-----------------------------------------------------------------------------
(***************************************************************************)
(* Withdrawal: withdraw_petition and assign_fate_transactional.            *)
(***************************************************************************)
Withdraw(r, p) ==
  /\ ~halted
  /\ state[p] \in OpenStates
  /\ Begin(r, "withdraw", p, "swap")
  /\ UNCHANGED <<storeVars, signer, historyVars>>

WithdrawSwap(r) ==
  LET p == pet[r] IN
  /\ pc[r] = "swap"
  /\ IF ~halted /\ Swaps(p, seen[r], "ACKNOWLEDGED")
     THEN /\ state' = [state EXCEPT ![p] = "ACKNOWLEDGED"]
          /\ Decide(r, "ACKNOWLEDGED")
          /\ Goto(r, "emit")
     ELSE Goto(r, "done") /\ UNCHANGED <<state, fates>>
  /\ UNCHANGED <<queueVars, session, ack, ref, signed, op, pet, seen, seenRef, signer,
                 runVars, faults, announced, stale, refStale, dropped, outcome>>

\* Mutant: a refused event is logged and the fate stays.
EmitRefusedLogged == "done"

EmitRefused == "rollback"

WithdrawEmit(r) ==
  /\ pc[r] = "emit"
  /\ \/ Announce(r, "ACKNOWLEDGED") /\ Goto(r, "done") /\ UNCHANGED faults
     \/ Goto(r, EmitRefused) /\ Fault /\ UNCHANGED announced
  /\ UNCHANGED <<queueVars, storeVars, op, pet, seen, seenRef, signer, runVars, fates,
                 stale, refStale, dropped, outcome>>

\* Mutant: a rollback reopens the petition from the start.
RolledBackToStart(r) == "RECEIVED"

RolledBack(r) == seen[r]

\* The fate's event was refused: back to the expected state, whatever is there.
WithdrawRollback(r) ==
  LET p == pet[r] IN
  /\ pc[r] = "rollback"
  /\ state' = [state EXCEPT ![p] = RolledBack(r)]
  /\ stale' = [stale EXCEPT ![p] = @ \/ state[p] # "ACKNOWLEDGED"]
  /\ fates' = [fates EXCEPT ![p] = @ \ {<<r, "ACKNOWLEDGED">>}]
  /\ Goto(r, "done")
  /\ UNCHANGED <<queueVars, session, ack, ref, signed, op, pet, seen, seenRef, signer,
                 runVars, faults, announced, refStale, dropped, outcome>>

-----------------------------------------------------------------------------
(***************************************************************************)
(* Co-signing (CoSignSubmissionService.submit_co_sign) and automatic       *)
(* escalation (AutoEscalationExecutorService.execute).                     *)
(***************************************************************************)
CoSign(r, p, s) ==
  /\ ~halted
  /\ state[p] \in OpenStates
  /\ s \notin signed[p]
  /\ Begin(r, "cosign", p, "create")
  /\ signer' = [signer EXCEPT ![r] = s]
  /\ UNCHANGED <<storeVars, historyVars>>

\* Mutant: the threshold is compared with the count before this signature.
ReachesBefore(p, s) == Cardinality(signed[p]) >= Threshold

\* check_threshold on the count that create returned.
Reaches(p, s) == Cardinality(signed[p] \cup {s}) >= Threshold

(***************************************************************************)
(* create: the unique constraint refuses a second signature, the count it  *)
(* returns includes this one.                                              *)
(***************************************************************************)
CoSignCreate(r) ==
  LET p == pet[r]  s == signer[r] IN
  /\ pc[r] = "create"
  /\ IF s \in signed[p]
     THEN Goto(r, "done") /\ UNCHANGED signed
     ELSE /\ signed' = [signed EXCEPT ![p] = @ \cup {s}]
          /\ Goto(r, IF Reaches(p, s) THEN "escalate" ELSE "done")
  /\ UNCHANGED <<queueVars, state, session, ack, ref, op, pet, seen, seenRef, signer,
                 runVars, faults, historyVars>>

\* The executor: refused in a halt, pointless on a petition with a fate.
EscalateRead(r) ==
  LET p == pet[r] IN
  /\ pc[r] = "escalate"
  /\ seen' = [seen EXCEPT ![r] = state[p]]
  /\ IF ~halted /\ state[p] \in OpenStates
     THEN Goto(r, "escalate_swap") /\ UNCHANGED dropped
     ELSE Goto(r, "done") /\ Drop(r)
  /\ UNCHANGED <<queueVars, storeVars, op, pet, seenRef, signer, runVars, faults, fates,
                 announced, stale, refStale, outcome>>

\* A lost race is logged; the co-sign request succeeds all the same.
EscalateSwap(r) ==
  LET p == pet[r] IN
  /\ pc[r] = "escalate_swap"
  /\ IF Swaps(p, seen[r], "ESCALATED")
     THEN /\ state' = [state EXCEPT ![p] = "ESCALATED"]
          /\ Decide(r, "ESCALATED")
          /\ UNCHANGED dropped
     ELSE Drop(r) /\ UNCHANGED <<state, fates>>
  /\ Goto(r, "done")
  /\ UNCHANGED <<queueVars, session, ack, ref, signed, op, pet, seen, seenRef, signer,
                 runVars, faults, announced, stale, refStale, outcome>>

-----------------------------------------------------------------------------
(***************************************************************************)
(* Deliberation starts: ArchonAssignmentService.assign_archons keeps the   *)
(* session, then writes the petition it has read back with a new state.    *)
(***************************************************************************)
AssignArchons(r, p) ==
  /\ ~session[p]
  /\ state[p] = "RECEIVED"
  /\ Begin(r, "archons", p, "start_session")
  /\ session' = [session EXCEPT ![p] = TRUE]
  /\ UNCHANGED <<state, ack, ref, signed, signer, historyVars>>

StartSession(r) ==
  /\ pc[r] = "start_session"
  /\ Write(r, "DELIBERATING")
  /\ Goto(r, "done")
  /\ UNCHANGED <<queueVars, session, ack, ref, signed, op, pet, seen, seenRef, signer,
                 runVars, faults, fates, announced, refStale, dropped, outcome>>

-----------------------------------------------------------------------------
(***************************************************************************)
(* Acknowledgment (AcknowledgmentExecutionService.execute), reached by the *)
(* Marquis' request, by a Knight's recommendation and by the timeout.      *)
(***************************************************************************)
Acknowledge(r, p) ==
  /\ state[p] \in Acknowledgeable("acknowledge")
  /\ session[p]
  /\ Begin(r, "acknowledge", p, "ack_find")
  /\ UNCHANGED <<storeVars, signer, historyVars>>

AckFind(a) ==
  /\ pc[a] = "ack_find"
  /\ IF ack[pet[a]] # "none" THEN Returns(a)
     ELSE Goto(a, "ack_save") /\ UNCHANGED queueVars
  /\ UNCHANGED <<storeVars, op, pet, seen, seenRef, signer, runVars, faults, historyVars>>

\* Mutant: the storage takes a second acknowledgment of a petition.
AckFreeAlways(p) == TRUE

\* save: the storage refuses a second acknowledgment.
AckFree(p) == ack[p] = "none"

AckSave(a) ==
  LET p == pet[a] IN
  /\ pc[a] = "ack_save"
  /\ IF AckFree(p)
     THEN ack' = [ack EXCEPT ![p] = op[a]] /\ Goto(a, "ack_write") /\ UNCHANGED queueVars
     ELSE Raises(a) /\ UNCHANGED ack
  /\ UNCHANGED <<state, session, ref, signed, op, pet, seen, seenRef, signer, runVars,
                 faults, historyVars>>

AckWrite(a) ==
  /\ pc[a] = "ack_write"
  /\ Write(a, "ACKNOWLEDGED")
  /\ Decide(a, "ACKNOWLEDGED")
  /\ Goto(a, "ack_event")
  /\ UNCHANGED <<queueVars, session, ack, ref, signed, op, pet, seen, seenRef, signer,
                 runVars, faults, announced, refStale, dropped, outcome>>

AckEvent(a) ==
  /\ pc[a] = "ack_event"
  /\ Announce(a, "ACKNOWLEDGED")
  /\ Returns(a)
  /\ UNCHANGED <<storeVars, op, pet, seen, seenRef, signer, runVars, faults, fates,
                 stale, refStale, dropped, outcome>>

-----------------------------------------------------------------------------
(***************************************************************************)
(* Referral (ReferralExecutionService.execute): the record, the petition,  *)
(* the deadline job, the event, with nothing undone when one fails.        *)
(***************************************************************************)
Refer(r, p) ==
  /\ ref[p] = NoReferral
  /\ state[p] = "DELIBERATING"
  /\ Begin(r, "refer", p, "ref_save")
  /\ UNCHANGED <<storeVars, signer, historyVars>>

ReferSave(r) ==
  LET p == pet[r] IN
  /\ pc[r] = "ref_save"
  /\ IF ref[p] = NoReferral
     THEN ref' = [ref EXCEPT ![p] = [st |-> "PENDING", ext |-> 0]] /\ Goto(r, "ref_state")
     ELSE Goto(r, "done") /\ UNCHANGED ref
  /\ UNCHANGED <<queueVars, state, session, ack, signed, op, pet, seen, seenRef, signer,
                 runVars, faults, historyVars>>

ReferState(r) ==
  /\ pc[r] = "ref_state"
  /\ Write(r, "REFERRED")
  /\ Decide(r, "REFERRED")
  /\ Goto(r, "ref_job")
  /\ UNCHANGED <<queueVars, session, ack, ref, signed, op, pet, seen, seenRef, signer,
                 runVars, faults, announced, refStale, dropped, outcome>>

ReferJob(r) ==
  /\ pc[r] = "ref_job"
  /\ ScheduleJob(pet[r])
  /\ Goto(r, "ref_event")
  /\ UNCHANGED <<storeVars, op, pet, seen, seenRef, signer, runVars, faults, historyVars>>

ReferEvent(r) ==
  /\ pc[r] = "ref_event"
  /\ Announce(r, "REFERRED")
  /\ Goto(r, "done")
  /\ UNCHANGED <<queueVars, storeVars, op, pet, seen, seenRef, signer, runVars, faults,
                 fates, stale, refStale, dropped, outcome>>

-----------------------------------------------------------------------------
(***************************************************************************)
(* The Knight: assignment (KnightConcurrentLimitService), extension        *)
(* (ExtensionRequestService), recommendation (RecommendationSubmission-    *)
(* Service).  Each reads the referral, computes a witness hash and then    *)
(* writes back the record it read, changed.                                *)
(***************************************************************************)
KnightReads(r, o, p) ==
  /\ AcceptsReferral(o, ref[p])
  /\ Begin(r, o, p, "ref_update")
  /\ UNCHANGED <<storeVars, signer, historyVars>>

\* with_in_review, which no service calls: the Knight opens the referral.
Review(p) ==
  /\ overlap \/ Quiet
  /\ ref[p].st = "ASSIGNED"
  /\ ref' = [ref EXCEPT ![p].st = "IN_REVIEW"]
  /\ UNCHANGED <<queueVars, state, session, ack, signed, actorVars, runVars, faults,
                 historyVars>>

(***************************************************************************)
(* An extension cancels a job under a name no job has and schedules with   *)
(* arguments schedule() does not take; both are logged and ignored, so the *)
(* deadline job keeps its time.                                            *)
(***************************************************************************)
KnightWrites(r) ==
  /\ pc[r] = "ref_update"
  /\ WriteReferral(r, Updated(op[r], seenRef[r]))
  /\ Goto(r, IF op[r] \in {"advise_ack", "advise_esc"} THEN "rec_event" ELSE "done")
  /\ UNCHANGED <<queueVars, state, session, ack, signed, op, pet, seen, seenRef, signer,
                 runVars, faults, fates, announced, stale, dropped, outcome>>

(***************************************************************************)
(* The completion event, the same vain cancellation, and the routing: to   *)
(* acknowledgment, which reads the petition, or to escalation, which is    *)
(* only logged.                                                            *)
(***************************************************************************)
Recommended(r) ==
  LET p == pet[r] IN
  /\ pc[r] = "rec_event"
  /\ outcome' = [outcome EXCEPT ![p] = @ \cup {"completed"}]
  /\ seen' = [seen EXCEPT ![r] = state[p]]
  /\ Goto(r, IF op[r] = "advise_ack" /\ state[p] \in Acknowledgeable(op[r])
             THEN "ack_find" ELSE "done")
  /\ UNCHANGED <<queueVars, storeVars, op, pet, seenRef, signer, runVars, faults, fates,
                 announced, stale, refStale, dropped>>

-----------------------------------------------------------------------------
(***************************************************************************)
(* The deadline: a worker claims the job and runs process_timeout.         *)
(***************************************************************************)
TimeoutClaim(w, p) ==
  /\ overlap \/ Quiet
  /\ p \in handled
  /\ Claim(w, p)
  /\ Goto(w, "exp_read")
  /\ op' = [op EXCEPT ![w] = "timeout"]
  /\ pet' = [pet EXCEPT ![w] = p]
  /\ UNCHANGED <<storeVars, seen, seenRef, signer, runVars, faults, historyVars>>

\* Mutants: a referral under review is left to its Knight; a completed one expires.
ProceedsUnlessReviewed(x) == x.st \in {"PENDING", "ASSIGNED"}
ProceedsCompleted(x) == x.st \notin {"none", "EXPIRED"}

\* A referral that is missing, completed or expired already is done with.
Proceeds(x) == x.st \in Expirable

TimeoutRead(w) ==
  LET p == pet[w] IN
  /\ pc[w] = "exp_read"
  /\ seenRef' = [seenRef EXCEPT ![w] = ref[p]]
  /\ IF Proceeds(ref[p])
     THEN Goto(w, "exp_save") /\ UNCHANGED queueVars
     ELSE Returns(w)
  /\ UNCHANGED <<storeVars, op, pet, seen, signer, runVars, faults, historyVars>>

(***************************************************************************)
(* The expired record is stored with save(), which a storage may refuse    *)
(* because the petition has a referral already.                            *)
(***************************************************************************)
TimeoutSave(w) ==
  /\ pc[w] = "exp_save"
  /\ IF saveReplaces
     THEN /\ WriteReferral(w, [seenRef[w] EXCEPT !.st = "EXPIRED"])
          /\ Goto(w, "exp_event")
          /\ UNCHANGED queueVars
     ELSE Raises(w) /\ UNCHANGED <<ref, refStale>>
  /\ UNCHANGED <<state, session, ack, signed, op, pet, seen, seenRef, signer, runVars,
                 faults, fates, announced, stale, dropped, outcome>>

TimeoutEvent(w) ==
  LET p == pet[w] IN
  /\ pc[w] = "exp_event"
  /\ outcome' = [outcome EXCEPT ![p] = @ \cup {"expired"}]
  /\ seen' = [seen EXCEPT ![w] = state[p]]
  /\ IF state[p] \in Acknowledgeable("timeout")
     THEN Goto(w, "ack_find") /\ UNCHANGED queueVars
     ELSE Raises(w)
  /\ UNCHANGED <<storeVars, op, pet, seenRef, signer, runVars, faults, fates, announced,
                 stale, refStale, dropped>>

-----------------------------------------------------------------------------
(***************************************************************************)
(* Faults.                                                                 *)
(***************************************************************************)

\* A request fails at its next await, or its process dies there.
RequestFails(r) ==
  /\ Busy(r) /\ Fault
  /\ Goto(r, "done")
  /\ Drop(r)
  /\ UNCHANGED <<queueVars, storeVars, op, pet, seen, seenRef, signer, runVars, fates,
                 announced, stale, refStale, outcome>>

\* The handler raises at its next await.
TimeoutFails(w) ==
  /\ Busy(w) /\ Fault
  /\ Raises(w)
  /\ Drop(w)
  /\ UNCHANGED <<storeVars, op, pet, seen, seenRef, signer, runVars, fates, announced,
                 stale, refStale, outcome>>

WorkerStops(w) ==
  /\ Fault
  /\ StopWorker(w)
  /\ IF Busy(w) THEN Drop(w) ELSE UNCHANGED dropped
  /\ Goto(w, "done")
  /\ UNCHANGED <<storeVars, op, pet, seen, seenRef, signer, runVars, fates, announced,
                 stale, refStale, outcome>>

CompletionFails(w) ==
  /\ Fault
  /\ MarkCompletedRaises(w)
  /\ UNCHANGED <<storeVars, actorVars, runVars, historyVars>>

(***************************************************************************)
(* The queue's own steps, and jobs that are not deadlines of referrals.    *)
(***************************************************************************)
QueueStep ==
  /\ \/ \E j \in Jobs : DeadlinePasses(j) \/ RegisterHandler(j)
     \/ \E j \in Jobs \ Petitions : ScheduleJob(j) \/ CancelJob(j)
     \/ \E w \in Workers :
          \/ StartWorker(w) \/ Poll(w) \/ MarkCompleted(w) \/ MarkFailed(w)
          \/ \E j \in Jobs : SkipClaimed(w, j)
          \/ \E j \in Jobs : ~(j \in Petitions /\ j \in handled) /\ Claim(w, j)
          \/ current[w] \notin Petitions /\ (HandlerReturns(w) \/ HandlerRaises(w))
     \/ ToggleHalt
  /\ UNCHANGED petitionVars

RequestStep(r) ==
  \/ WithdrawSwap(r) \/ WithdrawEmit(r) \/ WithdrawRollback(r)
  \/ CoSignCreate(r) \/ EscalateRead(r) \/ EscalateSwap(r)
  \/ StartSession(r)
  \/ ReferSave(r) \/ ReferState(r) \/ ReferJob(r) \/ ReferEvent(r)
  \/ KnightWrites(r) \/ Recommended(r)

AckStep(a) == AckFind(a) \/ AckSave(a) \/ AckWrite(a) \/ AckEvent(a)

TimeoutStep(w) == TimeoutRead(w) \/ TimeoutSave(w) \/ TimeoutEvent(w)

NewRequest(r, p) ==
  \/ Withdraw(r, p) \/ AssignArchons(r, p) \/ Acknowledge(r, p) \/ Refer(r, p)
  \/ \E s \in Signers : CoSign(r, p, s)
  \/ \E o \in RefOps : KnightReads(r, o, p)

Next ==
  \/ QueueStep
  \/ \E p \in Petitions : Submit(p) \/ Review(p)
  \/ \E r \in Requests :
       (\E p \in Petitions : NewRequest(r, p)) \/ RequestStep(r) \/ RequestFails(r)
  \/ \E a \in Actors : AckStep(a)
  \/ \E w \in Workers :
       \/ \E p \in Petitions : TimeoutClaim(w, p)
       \/ TimeoutStep(w) \/ TimeoutFails(w) \/ WorkerStops(w) \/ CompletionFails(w)

Spec == Init /\ [][Next]_vars

(***************************************************************************)
(* A worker's event loop keeps running it: every step of its poll cycle,   *)
(* and of the handler it is in, is taken.  A request that has been made    *)
(* runs to its end.  Nothing makes anybody call, a deadline pass, a worker *)
(* start or a fault happen.                                                *)
(***************************************************************************)
WorkerRuns(w) ==
  \/ (Poll(w) \/ MarkCompleted(w) \/ MarkFailed(w)) /\ UNCHANGED petitionVars
  \/ \E j \in Jobs : SkipClaimed(w, j) /\ UNCHANGED petitionVars
  \/ \E j \in Jobs : /\ ~(j \in Petitions /\ j \in handled)
                     /\ Claim(w, j) /\ UNCHANGED petitionVars
  \/ /\ current[w] \notin Petitions
     /\ HandlerReturns(w) \/ HandlerRaises(w)
     /\ UNCHANGED petitionVars
  \/ \E p \in Petitions : TimeoutClaim(w, p)
  \/ TimeoutStep(w) \/ AckStep(w)

Fairness ==
  /\ \A w \in Workers : WF_vars(WorkerRuns(w))
  /\ \A r \in Requests : WF_vars(RequestStep(r) \/ AckStep(r))

FairSpec == Spec /\ Fairness

-----------------------------------------------------------------------------
(***************************************************************************)
(* AT-1, "exactly one fate per petition", as far as the code has it: as    *)
(* long as no unconditional write has met a state other than the one its   *)
(* operation read, an open petition carries no fate (none that was decided *)
(* has been undone), a fated one carries the fate its row shows, and the   *)
(* only second fate is the acknowledgment that ends a referral.  Several   *)
(* withdrawals, escalations and their rollbacks may race.                  *)
(***************************************************************************)
SingleFate ==
  \A p \in Petitions : ~stale[p] =>
    /\ state[p] \notin Fates => fates[p] = {}
    /\ state[p] \in Fates => \E d \in fates[p] : d[2] = state[p]
    /\ \A d, e \in fates[p] :
         d # e => {d[2], e[2]} = {"REFERRED", "ACKNOWLEDGED"}

(***************************************************************************)
(* HC-1, no silent fate and no announced fate that was taken back: a fate  *)
(* in the ledger stands, and once nobody works on the petition every       *)
(* standing acknowledgment and referral is in the ledger, unless an        *)
(* operation was cut off between its write and its event or rollback.      *)
(* Escalations are left out: the code builds their event and never writes  *)
(* it.                                                                     *)
(***************************************************************************)
FateWitnessed ==
  \A p \in Petitions :
    /\ announced[p] \subseteq fates[p]
    /\ (\A a \in Actors : Busy(a) => pet[a] # p)
       /\ dropped[p] \cap {"emit", "rollback", "ack_event", "ref_job", "ref_event"} = {}
       => \A d \in fates[p] : d[2] # "ESCALATED" => d \in announced[p]

(***************************************************************************)
(* FR-2.5 for the acknowledgment service: whoever races (the Marquis, a    *)
(* Knight's recommendation, the timeout and its retries), one of them      *)
(* publishes an acknowledgment of the petition, and only the one whose     *)
(* record is stored.  Withdrawals are not acknowledgments of this service. *)
(***************************************************************************)
OneAcknowledgment ==
  \A p \in Petitions : \A a, b \in Actors :
    /\ <<a, "ACKNOWLEDGED">> \in announced[p] /\ op[a] # "withdraw"
    /\ <<b, "ACKNOWLEDGED">> \in announced[p] /\ op[b] # "withdraw"
    => a = b /\ ack[p] # "none"

(***************************************************************************)
(* FR-5.1: a petition that has its co-signers is escalated by the request  *)
(* that brought the last one: it does not stay open with the threshold     *)
(* reached and nobody on the way to escalate it, unless the executor gave  *)
(* up (halt, a fate it saw, a lost race) or the request was cut off.       *)
(***************************************************************************)
ThresholdNotMissed ==
  \A p \in Petitions :
    /\ Cardinality(signed[p]) >= Threshold
    /\ state[p] \in OpenStates
    /\ ~stale[p]
    => \/ \E r \in Requests : pet[r] = p /\ pc[r] \in {"escalate", "escalate_swap"}
       \/ dropped[p] \cap {"escalate", "escalate_swap"} # {}

(***************************************************************************)
(* HP-1: a referral somebody is still to answer has a deadline job that    *)
(* has not completed, or is being made, or its making was cut off, or a    *)
(* stale write has brought the referral back.                              *)
(***************************************************************************)
DeadlineKept ==
  \A p \in Petitions :
    ref[p].st \in Expirable =>
      \/ status[p] \in {"pending", "processing", "dead"}
      \/ \E r \in Requests : pet[r] = p /\ pc[r] \in {"ref_state", "ref_job"}
      \/ dropped[p] \cap {"ref_state", "ref_job"} # {}
      \/ refStale[p]

(***************************************************************************)
(* A referral ends in one way: the ledger does not say both that a Knight  *)
(* completed it and that it expired, unless one of the two wrote over a    *)
(* record that had changed since it was read.                              *)
(***************************************************************************)
OneOutcome ==
  \A p \in Petitions : ~refStale[p] => outcome[p] # {"completed", "expired"}

(***************************************************************************)
(* FR-4.5: an expired referral leaves the petition acknowledged once the   *)
(* handler is out of it.  The exceptions are the steps after the record    *)
(* was saved: a retry of the job finds the referral expired and ends.      *)
(***************************************************************************)
ExpiryAcknowledges ==
  \A p \in Petitions :
    /\ ref[p].st = "EXPIRED"
    /\ \A a \in Actors : Busy(a) => pet[a] # p
    /\ ~stale[p] /\ ~refStale[p]
    /\ dropped[p] \cap {"exp_event", "ack_find", "ack_save", "ack_write"} = {}
    => state[p] = "ACKNOWLEDGED"

(***************************************************************************)
(* Without overlap a fate is final: whatever fails, the row of a fated     *)
(* petition changes only when a withdrawal takes back its own fate or when *)
(* a referral ends in an acknowledgment.                                   *)
(***************************************************************************)
FateFinal ==
  [][\A p \in Petitions :
       state[p] \in Fates /\ state'[p] # state[p] /\ ~overlap
       => \/ state[p] = "REFERRED" /\ state'[p] = "ACKNOWLEDGED"
          \/ \E r \in Requests :
               /\ pet[r] = p /\ pc[r] = "rollback"
               /\ state[p] = "ACKNOWLEDGED" /\ state'[p] = seen[r]]_vars

(***************************************************************************)
(* A due deadline with a registered handler is answered: the referral      *)
(* ends, or its job goes to the dead letter queue, unless the system is    *)
(* halted, no worker is left or one died holding the job.                  *)
(***************************************************************************)
DeadlineAnswered ==
  \A p \in Petitions :
    (status[p] = "pending" /\ due[p] /\ p \in handled)
    ~> \/ ref[p].st \notin Expirable
       \/ status[p] = "dead" \/ Stranded(p) \/ halted
       \/ \A w \in Workers : wpc[w] \in {"new", "stopped"}
=============================================================================
