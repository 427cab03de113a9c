----------------------- MODULE PetitionReferralProofs -----------------------
(***************************************************************************)
(* Referrals, deadlines and escalations, for any number of petitions,      *)
(* requests, signers and workers, any threshold and any number of faults:  *)
(* a referral ends one way, keeps its deadline job until it ends, leaves   *)
(* its petition acknowledged when it expires, and a threshold that is      *)
(* reached is acted upon.                                                  *)
(***************************************************************************)
EXTENDS PetitionFateProofs, FiniteSetTheorems

Making    == {"ref_state", "ref_job"}
Expiring  == {"exp_event", "ack_find", "ack_save", "ack_write", "ack_event"}
Answering == {"exp_event", "ack_find", "ack_save"}

(***************************************************************************)
(* The outcome in the ledger is the one the record has, ...                *)
(***************************************************************************)
OutcomeIsRecord ==
  \A p \in Petitions : ~refStale[p] =>
    /\ "completed" \in outcome[p] => ref[p].st = "COMPLETED"
    /\ "expired" \in outcome[p] => ref[p].st = "EXPIRED"

(***************************************************************************)
(* ... and so it is for those who are about to put it there, and for the   *)
(* worker that goes on to acknowledge.                                     *)
(***************************************************************************)
AboutToTell(a) ==
  ~refStale[pet[a]] =>
    /\ pc[a] = "rec_event" => ref[pet[a]].st = "COMPLETED"
    /\ a \in Workers /\ pc[a] \in Expiring => ref[pet[a]].st = "EXPIRED"

(***************************************************************************)
(* A deadline job is completed only when its referral has ended, ...       *)
(***************************************************************************)
EndedFirst ==
  \A w \in Workers, p \in Petitions :
    wpc[w] = "completing" /\ current[w] = p /\ ~refStale[p] => ref[p].st \notin Expirable

(***************************************************************************)
(* ... there is no deadline without a referral, ...                        *)
(***************************************************************************)
MakingFor(p) == \E r \in Requests : pet[r] = p /\ pc[r] \in Making

DeadlineOfReferral ==
  \A p \in Petitions : status[p] # "none" \/ MakingFor(p) => ref[p].st # "none"

(***************************************************************************)
(* ... and a petition with a deadline, or with an expired referral, was    *)
(* decided to be referred.                                                 *)
(***************************************************************************)
DecidedToRefer ==
  \A p \in Petitions : status[p] # "none" \/ ref[p].st = "EXPIRED"
                       => \E x : <<x, "REFERRED">> \in fates[p]

(***************************************************************************)
(* A stored acknowledgment has made its decision, or is about to, or was   *)
(* cut off before it.                                                      *)
(***************************************************************************)
Stored(p) ==
  \/ \E a \in Actors : <<a, "ACKNOWLEDGED">> \in fates[p] /\ op[a] # "withdraw"
  \/ \E a \in Actors : pet[a] = p /\ pc[a] = "ack_write"
  \/ "ack_write" \in dropped[p]

StoredDecides == \A p \in Petitions : ack[p] # "none" => Stored(p)

DecidersBegan ==
  \A p \in Petitions, r \in Requests, f \in Fates : <<r, f>> \in fates[p] => pc[r] # "ready"

(***************************************************************************)
(* An expired referral has brought an acknowledgment about, or a worker is *)
(* at it, or it was cut off.                                               *)
(***************************************************************************)
ExpiredAnswered ==
  \A p \in Petitions :
    ~stale[p] /\ ~refStale[p] /\ ref[p].st = "EXPIRED" =>
      \/ ack[p] # "none" \/ state[p] = "ACKNOWLEDGED"
      \/ \E w \in Workers : pet[w] = p /\ pc[w] \in Answering
      \/ dropped[p] \cap Answering # {}

(***************************************************************************)
(* Who brought the last signature escalates, has escalated or gave up.     *)
(***************************************************************************)
EscalatedOrGivenUp ==
  \A p \in Petitions :
    Cardinality(signed[p]) >= Threshold =>
      \/ \E r \in Requests : pet[r] = p /\ pc[r] \in {"escalate", "escalate_swap"}
      \/ dropped[p] \cap {"escalate", "escalate_swap"} # {}
      \/ \E x : <<x, "ESCALATED">> \in fates[p]

ReferralInv ==
  /\ OutcomeIsRecord /\ EndedFirst /\ DeadlineOfReferral /\ DeadlineKept
  /\ DecidedToRefer /\ StoredDecides /\ DecidersBegan /\ ExpiredAnswered
  /\ EscalatedOrGivenUp
  /\ \A a \in Actors : AboutToTell(a)

-----------------------------------------------------------------------------
(***************************************************************************)
(* The invariant says what the checked properties say.                     *)
(***************************************************************************)
LEMMA ReferralInvImplies ==
  PetitionInv /\ FateInv /\ ReferralInv =>
    OneOutcome /\ DeadlineKept /\ ExpiryAcknowledges /\ ThresholdNotMissed
<1> SUFFICES ASSUME PetitionInv, FateInv, ReferralInv
             PROVE  OneOutcome /\ DeadlineKept /\ ExpiryAcknowledges /\ ThresholdNotMissed
  OBVIOUS
<1> USE DEF ReferralInv
<1>0. ASSUME NEW p \in Petitions, ~stale[p]
      PROVE  /\ \A x : <<x, "ACKNOWLEDGED">> \in fates[p] => state[p] = "ACKNOWLEDGED"
             /\ \A x : <<x, "ESCALATED">> \in fates[p] => state[p] = "ESCALATED"
  <2>1. ShapeOf(state[p], fates[p])
    BY <1>0 DEF FateInv, Shape
  <2> QED
    BY <2>1 DEF ShapeOf
<1>1. OneOutcome
  BY DEF OneOutcome, OutcomeIsRecord
<1>2. ExpiryAcknowledges
  <2> SUFFICES ASSUME NEW p \in Petitions, ref[p].st = "EXPIRED",
                      \A a \in Actors : Busy(a) => pet[a] # p,
                      ~stale[p], ~refStale[p],
                      dropped[p] \cap {"exp_event", "ack_find", "ack_save", "ack_write"} = {}
               PROVE  state[p] = "ACKNOWLEDGED"
    BY DEF ExpiryAcknowledges
  <2>1. \A a \in Actors : pet[a] = p => pc[a] \in {"ready", "done"}
    BY DEF Busy
  <2>2. ack[p] # "none" \/ state[p] = "ACKNOWLEDGED"
    BY <2>1 DEF ExpiredAnswered, Answering, Actors
  <2>3. ack[p] # "none" => \E a \in Actors : <<a, "ACKNOWLEDGED">> \in fates[p]
    BY <2>1 DEF StoredDecides, Stored
  <2> QED
    BY <1>0, <2>2, <2>3
<1>3. ThresholdNotMissed
  BY <1>0 DEF ThresholdNotMissed, EscalatedOrGivenUp, OpenStates
<1> QED
  BY <1>1, <1>2, <1>3

LEMMA InitReferral == Init => ReferralInv
<1> SUFFICES ASSUME Init PROVE ReferralInv
  OBVIOUS
<1>1. /\ \A a \in Actors : pc[a] \in {"ready", "done"}
      /\ \A w \in Workers : wpc[w] \in {"new", "stopped"}
      /\ \A p \in Petitions :
           /\ outcome[p] = {} /\ ack[p] = "none" /\ signed[p] = {}
           /\ state[p] = "REFERRED" <=> status[p] # "none"
           /\ status[p] \in {"none", "pending"}
           /\ ref[p] = NoReferral <=> state[p] # "REFERRED"
           /\ ref[p] \in {NoReferral} \cup [st : Expirable, ext : {0}]
           /\ fates[p] = IF state[p] = "REFERRED" THEN {<<"earlier", "REFERRED">>} ELSE {}
  BY DEF Init, QueueInit
<1>2. \A p \in Petitions : /\ ref[p].st \in Expirable <=> state[p] = "REFERRED"
                           /\ ref[p].st \in Expirable \cup {"none"}
                           /\ ref[p].st # "EXPIRED"
  BY <1>1 DEF NoReferral, Expirable
<1>3. OutcomeIsRecord /\ EndedFirst /\ StoredDecides /\ ExpiredAnswered
  BY <1>1, <1>2 DEF OutcomeIsRecord, EndedFirst, StoredDecides, ExpiredAnswered
<1>4. DeadlineOfReferral /\ DeadlineKept /\ DecidedToRefer
  BY <1>1, <1>2 DEF DeadlineOfReferral, MakingFor, Making, DeadlineKept, DecidedToRefer, Actors,
     Expirable
<1>5. DecidersBegan /\ \A a \in Actors : AboutToTell(a)
  BY <1>1, PetitionAssumption DEF DecidersBegan, AboutToTell, Expiring, Actors
<1>6. EscalatedOrGivenUp
  BY <1>1, FS_EmptySet, PetitionAssumption DEF EscalatedOrGivenUp
<1> QED
  BY <1>3, <1>4, <1>5, <1>6 DEF ReferralInv

-----------------------------------------------------------------------------
(***************************************************************************)
(* An actor stays where it is unless it takes a step of its own.           *)
(***************************************************************************)
OwnStep(a) ==
  \/ /\ a \in Requests
     /\ (\E p \in Petitions : NewRequest(a, p)) \/ RequestStep(a) \/ RequestFails(a)
  \/ AckStep(a)
  \/ /\ a \in Workers
     /\ \/ \E p \in Petitions : TimeoutClaim(a, p)
        \/ TimeoutStep(a) \/ TimeoutFails(a) \/ WorkerStops(a)

LEMMA Moves ==
  ASSUME PetitionInv, [Next]_vars, NEW a \in Actors
  PROVE  (pc'[a] = pc[a] /\ pet'[a] = pet[a] /\ op'[a] = op[a]) \/ OwnStep(a)
<1> USE DEF PetitionInv, Control, ActorsTyped
<1>1. CASE UNCHANGED petitionVars
  BY <1>1 DEF petitionVars, actorVars
<1>2. ASSUME NEW p \in Petitions, Submit(p) \/ Review(p)
      PROVE  UNCHANGED <<pc, pet, op>>
  BY <1>2 DEF Submit, Review, actorVars
<1>3. ASSUME NEW r \in Requests, NEW p \in Petitions, NewRequest(r, p), a # r
      PROVE  pc'[a] = pc[a] /\ pet'[a] = pet[a] /\ op'[a] = op[a]
  BY <1>3 DEF NewRequest, Withdraw, AssignArchons, Acknowledge, Refer, CoSign, KnightReads,
     Begin, Goto, Actors
<1>4. ASSUME NEW r \in Requests, RequestStep(r) \/ RequestFails(r), a # r
      PROVE  pc'[a] = pc[a] /\ pet'[a] = pet[a] /\ op'[a] = op[a]
  BY <1>4 DEF RequestStep, RequestFails, WithdrawSwap, WithdrawEmit, WithdrawRollback,
     CoSignCreate, EscalateRead, EscalateSwap, StartSession, ReferSave, ReferState, ReferJob,
     ReferEvent, KnightWrites, Recommended, Goto, Actors
<1>5. ASSUME NEW b \in Actors, AckStep(b), a # b
      PROVE  pc'[a] = pc[a] /\ pet'[a] = pet[a] /\ op'[a] = op[a]
  BY <1>5 DEF AckStep, AckFind, AckSave, AckWrite, AckEvent, Returns, Raises, Goto
<1>6. ASSUME NEW w \in Workers, a # w,
             \/ \E p \in Petitions : TimeoutClaim(w, p)
             \/ TimeoutStep(w) \/ TimeoutFails(w) \/ WorkerStops(w)
      PROVE  pc'[a] = pc[a] /\ pet'[a] = pet[a] /\ op'[a] = op[a]
  BY <1>6 DEF TimeoutClaim, TimeoutStep, TimeoutRead, TimeoutSave, TimeoutEvent, TimeoutFails,
     WorkerStops, Returns, Raises, Goto, Actors
<1>7. ASSUME NEW w \in Workers, CompletionFails(w)
      PROVE  UNCHANGED <<pc, pet, op>>
  BY <1>7 DEF CompletionFails, actorVars
<1> QED
  BY <1>1, <1>2, <1>3, <1>4, <1>5, <1>6, <1>7 DEF Next, QueueStep, vars, OwnStep

(***************************************************************************)
(* What a step may do to a referral that nobody writes over blindly.       *)
(***************************************************************************)
Expires(p) ==
  /\ status[p] = "processing"
  /\ \E w \in Workers : pet'[w] = p /\ pc'[w] = "exp_event"

LEMMA ReferralSteps ==
  ASSUME PetitionInv, [Next]_vars, NEW p \in Petitions
  PROVE  /\ refStale[p] => refStale'[p]
         /\ ref[p].st # "none" => ref'[p].st # "none"
         /\ ref'[p].st = "EXPIRED" => ref[p].st = "EXPIRED" \/ Expires(p)
         /\ ~refStale'[p] =>
              \/ ref'[p].st = ref[p].st
              \/ /\ ref[p].st = "none" /\ ref'[p].st = "PENDING"
                 /\ \E r \in Requests : pet'[r] = p /\ pc'[r] = "ref_state"
              \/ ref[p].st \in Expirable /\ ref'[p].st \in Expirable \cup {"COMPLETED"}
              \/ ref[p].st \in Expirable /\ ref'[p].st = "EXPIRED" /\ Expires(p)
<1> USE DEF PetitionInv, Control, StoreTyped, ActorsTyped, HistoryTyped
<1>1. CASE UNCHANGED <<ref, refStale>>
  BY <1>1
<1>2. ASSUME NEW q \in Petitions, Review(q)
      PROVE  /\ UNCHANGED refStale
             /\ \/ ref'[p] = ref[p]
                \/ ref[p].st = "ASSIGNED" /\ ref'[p].st = "IN_REVIEW"
  BY <1>2 DEF Review, historyVars, Referral
<1>3. ASSUME NEW r \in Requests, ReferSave(r)
      PROVE  /\ UNCHANGED refStale
             /\ \/ ref'[p] = ref[p]
                \/ /\ ref[p].st = "none" /\ ref'[p].st = "PENDING"
                   /\ pet'[r] = p /\ pc'[r] = "ref_state"
  BY <1>3 DEF ReferSave, historyVars, NoReferral, Goto, Actors
<1>4. ASSUME NEW r \in Requests, KnightWrites(r)
      PROVE  /\ refStale[p] => refStale'[p]
             /\ \/ ref'[p] = ref[p]
                \/ /\ ref'[p].st \in Expirable \cup {"COMPLETED"}
                   /\ ~refStale'[p] => ref[p].st \in Expirable
  <2>1. /\ r \in Actors /\ op[r] \in RefOps /\ AcceptsReferral(op[r], seenRef[r])
        /\ seenRef[r] \in Referral /\ pet[r] \in Petitions
    BY <1>4 DEF KnightWrites, ActorFits, Actors
  <2>2. /\ ref' = [ref EXCEPT ![pet[r]] = Updated(op[r], seenRef[r])]
        /\ refStale' = [refStale EXCEPT ![pet[r]] = @ \/ ref[pet[r]] # seenRef[r]]
    BY <1>4 DEF KnightWrites, WriteReferral
  <2>3. /\ seenRef[r].st \in Expirable
        /\ Updated(op[r], seenRef[r]).st \in Expirable \cup {"COMPLETED"}
    BY <2>1 DEF AcceptsReferral, Updated, Expirable, Referral, ReferralStatus, RefOps
  <2> QED
    BY <2>1, <2>2, <2>3
<1>5. ASSUME NEW w \in Workers, TimeoutSave(w)
      PROVE  /\ refStale[p] => refStale'[p]
             /\ \/ ref'[p] = ref[p]
                \/ /\ ref'[p].st = "EXPIRED" /\ Expires(p)
                   /\ ~refStale'[p] => ref[p].st \in Expirable
  <2>0. /\ w \in Actors /\ pet[w] \in Petitions /\ pc[w] = "exp_save"
        /\ seenRef[w] \in Referral /\ seenRef[w].st \in Expirable
    BY <1>5 DEF TimeoutSave, ActorFits, Actors
  <2>1. CASE ~saveReplaces
    BY <1>5, <2>1 DEF TimeoutSave
  <2>2. CASE saveReplaces /\ pet[w] = p
    <3>1. /\ ref' = [ref EXCEPT ![p] = [seenRef[w] EXCEPT !.st = "EXPIRED"]]
          /\ refStale' = [refStale EXCEPT ![p] = @ \/ ref[p] # seenRef[w]]
          /\ pc' = [pc EXCEPT ![w] = "exp_event"] /\ pet' = pet
      BY <1>5, <2>2 DEF TimeoutSave, WriteReferral, Goto
    <3>2. wpc[w] = "handler" /\ current[w] = p /\ p \in Jobs
      BY <2>0, <2>2, PetitionAssumption DEF InHandler, Busy
    <3>3. status[p] = "processing"
      BY <3>2 DEF QueueInv, HeldByItsWorker, Executing
    <3>4. ref'[p].st = "EXPIRED"
      BY <2>0, <3>1 DEF Referral
    <3> QED
      BY <2>0, <2>2, <3>1, <3>3, <3>4 DEF Expires
  <2>3. CASE saveReplaces /\ pet[w] # p
    BY <1>5, <2>0, <2>3 DEF TimeoutSave, WriteReferral
  <2> QED
    BY <2>1, <2>2, <2>3
<1> QED
  BY <1>1, <1>2, <1>3, <1>4, <1>5, Frames DEF Expires, Expirable

(***************************************************************************)
(* What a step may do to a deadline job: it is made for a referral, never  *)
(* unmade, and completed only by the worker that holds it.                 *)
(***************************************************************************)
Unfinished == {"pending", "processing", "dead"}

LEMMA DeadlineSteps ==
  ASSUME PetitionInv, [Next]_vars, NEW p \in Petitions
  PROVE  /\ status[p] # "none" => status'[p] # "none"
         /\ status'[p] # "none" =>
              status[p] # "none" \/ \E r \in Requests : pet[r] = p /\ ReferJob(r)
         /\ status[p] \in Unfinished =>
              \/ status'[p] \in Unfinished
              \/ \E w \in Workers : /\ wpc[w] = "completing" /\ current[w] = p
                                    /\ UNCHANGED petitionVars
         /\ \A r \in Requests : pet[r] = p /\ ReferJob(r) => status'[p] = "pending"
<1> USE DEF PetitionInv, QueueInv, QueueTypeOK, JobStatus, Unfinished
<1>0. p \in Jobs
  BY PetitionAssumption
<1>1. CASE UNCHANGED status
  BY <1>0, <1>1 DEF ReferJob, ScheduleJob
<1>2. CASE QueueStep
  <2>1. UNCHANGED petitionVars
    BY <1>2 DEF QueueStep
  <2>2. \A r \in Requests : ~ReferJob(r)
    <3> SUFFICES ASSUME NEW r \in Requests, ReferJob(r) PROVE FALSE
      OBVIOUS
    <3>1. pc' = pc
      BY <2>1 DEF petitionVars, actorVars
    <3> QED
      BY <3>1 DEF ReferJob, Goto, Control, ActorsTyped, Actors
  <2>3. CASE \E j \in Jobs : DeadlinePasses(j) \/ RegisterHandler(j)
    BY <1>1, <2>3 DEF DeadlinePasses, RegisterHandler
  <2>4. CASE \E j \in Jobs \ Petitions : ScheduleJob(j) \/ CancelJob(j)
    BY <1>0, <2>2, <2>4 DEF ScheduleJob, CancelJob
  <2>5. ASSUME NEW w \in Workers, MarkCompleted(w)
        PROVE  status'[p] = status[p] \/ (wpc[w] = "completing" /\ current[w] = p
                                          /\ status'[p] = "completed" /\ status[p] # "none")
    <3>1. /\ wpc[w] = "completing" /\ status' = [status EXCEPT ![current[w]] = "completed"]
      BY <2>5 DEF MarkCompleted
    <3>2. current[w] = p => status[p] = "processing"
      BY <1>0, <3>1 DEF HeldByItsWorker, Executing
    <3> QED
      BY <1>0, <3>1, <3>2
  <2>6. ASSUME NEW w \in Workers, MarkFailed(w)
        PROVE  \/ status'[p] = status[p]
               \/ status[p] # "none" /\ status'[p] \in {"pending", "dead"}
    <3>1. /\ wpc[w] = "failing"
          /\ \/ status' = [status EXCEPT ![current[w]] = "pending"]
             \/ status' = [status EXCEPT ![current[w]] = "dead"]
      BY <2>6 DEF MarkFailed, AfterFailure
    <3>2. current[w] = p => status[p] = "processing"
      BY <1>0, <3>1 DEF HeldByItsWorker, Executing
    <3> QED
      BY <1>0, <3>1, <3>2
  <2>7. ASSUME NEW w \in Workers, NEW j \in Jobs, Claim(w, j)
        PROVE  status'[p] = status[p] \/ (status[p] = "pending" /\ status'[p] = "processing")
    BY <1>0, <2>7 DEF Claim, Claimable
  <2>8. ASSUME NEW w \in Workers,
               \/ StartWorker(w) \/ Poll(w) \/ (\E j \in Jobs : SkipClaimed(w, j))
               \/ HandlerReturns(w) \/ HandlerRaises(w)
        PROVE  UNCHANGED status
    BY <2>8 DEF StartWorker, Poll, SkipClaimed, HandlerReturns, HandlerRaises
  <2>9. ToggleHalt => UNCHANGED status
    BY DEF ToggleHalt
  <2> QED
    BY <1>0, <1>1, <1>2, <2>1, <2>2, <2>3, <2>4, <2>5, <2>6, <2>7, <2>8, <2>9 DEF QueueStep
<1>3. ASSUME NEW q \in Petitions, Submit(q) \/ Review(q) PROVE UNCHANGED status
  BY <1>3 DEF Submit, Review, queueVars
<1>4. ASSUME NEW r \in Requests, NEW q \in Petitions, NewRequest(r, q) PROVE UNCHANGED status
  BY <1>4 DEF NewRequest, Withdraw, AssignArchons, Acknowledge, Refer, CoSign, KnightReads, Begin,
     queueVars
<1>5. ASSUME NEW r \in Requests, RequestStep(r) \/ RequestFails(r), ~ReferJob(r)
      PROVE  UNCHANGED status
  BY <1>5 DEF RequestStep, RequestFails, WithdrawSwap, WithdrawEmit, WithdrawRollback,
     CoSignCreate, EscalateRead, EscalateSwap, StartSession, ReferSave, ReferState, ReferEvent,
     KnightWrites, Recommended, queueVars
<1>6. ASSUME NEW r \in Requests, ReferJob(r)
      PROVE  \/ UNCHANGED status
             \/ status' = [status EXCEPT ![pet[r]] = "pending"] /\ status[pet[r]] = "none"
  BY <1>6 DEF ReferJob, ScheduleJob
<1>7. ASSUME NEW a \in Actors, AckStep(a) PROVE UNCHANGED status
  BY <1>7 DEF AckStep, AckFind, AckSave, AckWrite, AckEvent, Returns, Raises, HandlerReturns,
     HandlerRaises, queueVars
<1>8. ASSUME NEW w \in Workers,
             TimeoutStep(w) \/ TimeoutFails(w) \/ WorkerStops(w) \/ CompletionFails(w)
      PROVE  UNCHANGED status
  BY <1>8 DEF TimeoutStep, TimeoutRead, TimeoutSave, TimeoutEvent, TimeoutFails, WorkerStops,
     CompletionFails, Returns, Raises, HandlerReturns, HandlerRaises, StopWorker,
     MarkCompletedRaises, queueVars
<1>9. ASSUME NEW w \in Workers, NEW q \in Petitions, TimeoutClaim(w, q)
      PROVE  status'[p] = status[p] \/ (status[p] = "pending" /\ status'[p] = "processing")
  BY <1>0, <1>9 DEF TimeoutClaim, Claim, Claimable
<1>10. \A r \in Requests : ReferJob(r) => pet'[r] = pet[r] /\ pet[r] \in Jobs
  BY PetitionAssumption DEF ReferJob, Control, ActorsTyped, Actors
<1>11. \A r \in Requests : pet[r] = p /\ ReferJob(r) => status'[p] = "pending"
  BY <1>0 DEF ReferJob, ScheduleJob
<1> QED
  BY <1>0, <1>1, <1>2, <1>3, <1>4, <1>5, <1>6, <1>7, <1>8, <1>9, <1>10, <1>11 DEF Next, vars, queueVars

(***************************************************************************)
(* Decisions are made by who has begun, and only a rollback unmakes one.   *)
(***************************************************************************)
LEMMA DecisionSteps ==
  ASSUME PetitionInv, [Next]_vars, NEW p \in Petitions, NEW x, NEW f
  PROVE  /\ <<x, f>> \in fates'[p] /\ <<x, f>> \notin fates[p] /\ x \in Requests
            => pc[x] \notin {"ready", "done"} /\ pc'[x] # "ready"
         /\ <<x, f>> \in fates[p] /\ <<x, f>> \notin fates'[p] =>
              /\ x \in Requests /\ f = "ACKNOWLEDGED"
              /\ pc[x] = "rollback" /\ op[x] = "withdraw" /\ pet[x] = p
<1> USE DEF PetitionInv, Control, ActorsTyped, HistoryTyped
<1>1. ASSUME NEW a \in Actors, NEW g \in Fates, NEW l \in Pc, Decide(a, g), Goto(a, l), pc[a] # "ready",
             pc[a] # "done", l # "ready"
      PROVE  /\ fates[p] \subseteq fates'[p]
             /\ <<x, f>> \in fates'[p] /\ <<x, f>> \notin fates[p]
                => x = a /\ pc[x] \notin {"ready", "done"} /\ pc'[x] # "ready"
  BY <1>1 DEF Decide, Goto
<1>2. CASE UNCHANGED fates
  BY <1>2
<1>3. ASSUME NEW r \in Requests, WithdrawSwap(r) \/ EscalateSwap(r) \/ ReferState(r)
      PROVE  \/ UNCHANGED fates
             \/ \E g \in Fates, l \in Pc : /\ Decide(r, g) /\ Goto(r, l) /\ l # "ready"
                                           /\ pc[r] # "ready" /\ pc[r] # "done"
  BY <1>3 DEF WithdrawSwap, EscalateSwap, ReferState, Fates, Pc
<1>4. ASSUME NEW a \in Actors, AckWrite(a)
      PROVE  /\ Decide(a, "ACKNOWLEDGED") /\ Goto(a, "ack_event")
             /\ pc[a] = "ack_write"
  BY <1>4 DEF AckWrite
<1>5. ASSUME NEW r \in Requests, WithdrawRollback(r)
      PROVE  /\ fates'[p] \subseteq fates[p]
             /\ <<x, f>> \in fates[p] /\ <<x, f>> \notin fates'[p]
                => x = r /\ f = "ACKNOWLEDGED" /\ pet[r] = p /\ pc[r] = "rollback"
                   /\ op[r] = "withdraw"
  BY <1>5 DEF WithdrawRollback, ActorFits, Actors
<1>6. Requests \subseteq Actors /\ "ACKNOWLEDGED" \in Fates /\ "ack_event" \in Pc
  BY DEF Actors, Fates, Pc
<1>7. ASSUME NEW r \in Requests, WithdrawSwap(r) \/ EscalateSwap(r) \/ ReferState(r)
      PROVE  /\ fates[p] \subseteq fates'[p]
             /\ <<x, f>> \in fates'[p] /\ <<x, f>> \notin fates[p]
                => x = r /\ pc[x] \notin {"ready", "done"} /\ pc'[x] # "ready"
  BY <1>1, <1>3, <1>6, <1>7
<1>8. ASSUME NEW a \in Actors, AckWrite(a)
      PROVE  /\ fates[p] \subseteq fates'[p]
             /\ <<x, f>> \in fates'[p] /\ <<x, f>> \notin fates[p]
                => x = a /\ pc[x] \notin {"ready", "done"} /\ pc'[x] # "ready"
  BY <1>1, <1>4, <1>6, <1>8
<1> QED
  BY <1>2, <1>5, <1>7, <1>8, Frames

(***************************************************************************)
(* What is only ever added to.                                             *)
(***************************************************************************)
LEMMA Grows ==
  ASSUME PetitionInv, [Next]_vars, NEW p \in Petitions
  PROVE  /\ dropped[p] \subseteq dropped'[p]
         /\ ack[p] # "none" => ack'[p] # "none"
         /\ stale[p] => stale'[p]
<1> USE DEF PetitionInv, Control, StoreTyped, ActorsTyped, HistoryTyped
<1>0. Requests \subseteq Actors /\ Workers \subseteq Actors
  BY DEF Actors
<1>1. dropped[p] \subseteq dropped'[p]
  <2>1. ASSUME NEW a \in Actors, Drop(a) PROVE dropped[p] \subseteq dropped'[p]
    BY <2>1 DEF Drop
  <2>2. ASSUME NEW r \in Requests, EscalateRead(r) \/ EscalateSwap(r) \/ RequestFails(r)
        PROVE  UNCHANGED dropped \/ Drop(r)
    BY <2>2 DEF EscalateRead, EscalateSwap, RequestFails
  <2>3. ASSUME NEW w \in Workers, TimeoutFails(w) \/ WorkerStops(w)
        PROVE  UNCHANGED dropped \/ Drop(w)
    BY <2>3 DEF TimeoutFails, WorkerStops
  <2> QED
    BY <1>0, <2>1, <2>2, <2>3, Frames
<1>2. ack[p] # "none" => ack'[p] # "none"
  <2>1. ASSUME NEW a \in Actors, AckSave(a) PROVE ack[p] # "none" => ack'[p] = ack[p]
    BY <2>1 DEF AckSave, AckFree
  <2> QED
    BY <2>1, Frames
<1>3. stale[p] => stale'[p]
  <2>1. ASSUME NEW a \in Actors, NEW s, Write(a, s) PROVE stale[p] => stale'[p]
    BY <2>1 DEF Write
  <2>2. ASSUME NEW q \in Petitions, Submit(q) PROVE UNCHANGED stale
    BY <2>2 DEF Submit, historyVars
  <2>3. ASSUME NEW r \in Requests,
               \/ WithdrawSwap(r) \/ WithdrawRollback(r) \/ EscalateSwap(r) \/ ReferState(r)
               \/ StartSession(r)
        PROVE  stale[p] => stale'[p]
    BY <1>0, <2>1, <2>3 DEF WithdrawSwap, WithdrawRollback, EscalateSwap, ReferState, StartSession
  <2>4. ASSUME NEW a \in Actors, AckWrite(a) PROVE stale[p] => stale'[p]
    BY <2>1, <2>4 DEF AckWrite
  <2> QED
    BY <2>2, <2>3, <2>4, Frames
<1> QED
  BY <1>1, <1>2, <1>3

-----------------------------------------------------------------------------
(***************************************************************************)
(* Every step keeps each part of the invariant.                            *)
(***************************************************************************)
LEMMA OutcomeKept == PetitionInv /\ ReferralInv /\ [Next]_vars => OutcomeIsRecord'
<1> SUFFICES ASSUME PetitionInv, ReferralInv, [Next]_vars,
                    NEW p \in Petitions, ~refStale'[p]
             PROVE  /\ "completed" \in outcome'[p] => ref'[p].st = "COMPLETED"
                    /\ "expired" \in outcome'[p] => ref'[p].st = "EXPIRED"
  BY DEF OutcomeIsRecord
<1>1. ASSUME NEW s \in {"COMPLETED", "EXPIRED"}, ref[p].st = s PROVE ref'[p].st = s
  BY <1>1, ReferralSteps DEF Expirable
<1>2. ~refStale[p]
  BY ReferralSteps
<1>3. CASE UNCHANGED outcome
  BY <1>1, <1>2, <1>3 DEF ReferralInv, OutcomeIsRecord
<1>4. ASSUME NEW r \in Requests, Recommended(r)
      PROVE  \/ outcome'[p] = outcome[p]
             \/ outcome'[p] = outcome[p] \cup {"completed"} /\ ref[p].st = "COMPLETED"
  <2>1. /\ pc[r] = "rec_event" /\ AboutToTell(r)
        /\ outcome' = [outcome EXCEPT ![pet[r]] = @ \cup {"completed"}]
    BY <1>4 DEF Recommended, ReferralInv, Actors
  <2> QED
    BY <1>2, <2>1 DEF AboutToTell, PetitionInv, Control, HistoryTyped
<1>5. ASSUME NEW w \in Workers, TimeoutEvent(w)
      PROVE  \/ outcome'[p] = outcome[p]
             \/ outcome'[p] = outcome[p] \cup {"expired"} /\ ref[p].st = "EXPIRED"
  <2>1. /\ pc[w] = "exp_event" /\ AboutToTell(w)
        /\ outcome' = [outcome EXCEPT ![pet[w]] = @ \cup {"expired"}]
    BY <1>5 DEF TimeoutEvent, ReferralInv, Actors
  <2> QED
    BY <1>2, <2>1 DEF AboutToTell, PetitionInv, Control, HistoryTyped, Expiring
<1> QED
  BY <1>1, <1>2, <1>3, <1>4, <1>5, Frames DEF ReferralInv, OutcomeIsRecord

LEMMA TellKept ==
  PetitionInv /\ ReferralInv /\ [Next]_vars => \A a \in Actors : AboutToTell(a)'
<1> SUFFICES ASSUME PetitionInv, ReferralInv, [Next]_vars, NEW a \in Actors, ~refStale'[pet'[a]]
             PROVE  /\ pc'[a] = "rec_event" => ref'[pet'[a]].st = "COMPLETED"
                    /\ a \in Workers /\ pc'[a] \in Expiring => ref'[pet'[a]].st = "EXPIRED"
  BY DEF AboutToTell
<1> USE DEF PetitionInv, Control, ActorsTyped, HistoryTyped
<1>0. pet[a] \in Petitions /\ pet'[a] \in Petitions /\ ActorFits(a)
  BY PetitionInvKept
<1>1. ASSUME pet'[a] = pet[a],
             pc'[a] = "rec_event" => pc[a] = "rec_event",
             a \in Workers /\ pc'[a] \in Expiring => pc[a] \in Expiring
      PROVE  /\ pc'[a] = "rec_event" => ref'[pet'[a]].st = "COMPLETED"
             /\ a \in Workers /\ pc'[a] \in Expiring => ref'[pet'[a]].st = "EXPIRED"
  <2>1. ASSUME NEW s \in {"COMPLETED", "EXPIRED"}, ref[pet[a]].st = s PROVE ref'[pet[a]].st = s
    BY <1>0, <1>1, <2>1, ReferralSteps DEF Expirable
  <2>2. ~refStale[pet[a]]
    BY <1>0, <1>1, ReferralSteps
  <2> QED
    BY <1>1, <2>1, <2>2 DEF ReferralInv, AboutToTell
<1>2. CASE a \in Requests
  <2>0. a \notin Workers
    BY <1>2, PetitionAssumption
  <2>1. ASSUME NEW p \in Petitions, NewRequest(a, p) PROVE pc'[a] # "rec_event"
    BY <2>1 DEF NewRequest, Withdraw, AssignArchons, Acknowledge, Refer, CoSign, KnightReads,
       Begin, Goto
  <2>2. CASE KnightWrites(a)
    <3>1. /\ ref'[pet[a]] = Updated(op[a], seenRef[a]) /\ pet' = pet
          /\ pc'[a] = "rec_event" => op[a] \in {"advise_ack", "advise_esc"}
          /\ seenRef[a] \in Referral
      BY <1>0, <2>2 DEF KnightWrites, WriteReferral, Goto, StoreTyped
    <3>2. op[a] \in {"advise_ack", "advise_esc"} => Updated(op[a], seenRef[a]).st = "COMPLETED"
      BY <3>1 DEF Updated, Referral
    <3> QED
      BY <2>0, <3>1, <3>2
  <2>3. CASE (RequestStep(a) \/ RequestFails(a)) /\ ~KnightWrites(a)
    <3>1. pet'[a] = pet[a] /\ pc'[a] # "rec_event"
      BY <2>3 DEF RequestStep, RequestFails, WithdrawSwap, WithdrawEmit, EmitRefused,
         WithdrawRollback, CoSignCreate, EscalateRead, EscalateSwap, StartSession, ReferSave,
         ReferState, ReferJob, ReferEvent, Recommended, Goto
    <3> QED
      BY <2>0, <3>1
  <2>4. CASE AckStep(a)
    <3>1. pc'[a] # "rec_event"
      BY <2>4 DEF AckStep, AckFind, AckSave, AckWrite, AckEvent, Returns, Raises, Goto
    <3> QED
      BY <2>0, <3>1
  <2>5. CASE pc'[a] = pc[a] /\ pet'[a] = pet[a]
    BY <1>1, <2>5
  <2> QED
    BY <2>0, <2>1, <2>2, <2>3, <2>4, <2>5, Moves DEF OwnStep
<1>3. CASE a \in Workers
  <2>0. a \notin Requests
    BY <1>3, PetitionAssumption
  <2>1. ASSUME NEW p \in Petitions, TimeoutClaim(a, p) PROVE pc'[a] = "exp_read"
    BY <2>1 DEF TimeoutClaim, Goto
  <2>2. CASE TimeoutSave(a)
    <3>1. pet' = pet /\ (pc'[a] = "exp_event" => saveReplaces) /\ pc'[a] \in {"exp_event", "done"}
      BY <2>2 DEF TimeoutSave, Goto, Raises
    <3>2. saveReplaces => ref'[pet[a]].st = "EXPIRED"
      BY <1>0, <2>2 DEF TimeoutSave, WriteReferral, StoreTyped, Referral
    <3> QED
      BY <3>1, <3>2 DEF Expiring
  <2>3. CASE TimeoutRead(a) \/ TimeoutFails(a) \/ WorkerStops(a)
    BY <2>3 DEF TimeoutRead, TimeoutFails, WorkerStops, Returns, Raises, Goto, Expiring
  <2>4. CASE TimeoutEvent(a) \/ AckStep(a)
    <3>1. pet'[a] = pet[a] /\ pc[a] \in Expiring /\ pc'[a] # "rec_event"
      BY <2>4 DEF TimeoutEvent, AckStep, AckFind, AckSave, AckWrite, AckEvent, Returns, Raises,
         Goto, Expiring
    <3> QED
      BY <1>1, <3>1
  <2>5. CASE pc'[a] = pc[a] /\ pet'[a] = pet[a]
    BY <1>1, <2>5
  <2> QED
    BY <2>0, <2>1, <2>2, <2>3, <2>4, <2>5, Moves DEF OwnStep, TimeoutStep, Expiring
<1> QED
  BY <1>2, <1>3 DEF Actors

(***************************************************************************)
(* A worker that is to mark its deadline job completed found the referral  *)
(* ended, or has ended it.                                                 *)
(***************************************************************************)
LEMMA CompletingSteps ==
  ASSUME PetitionInv, [Next]_vars, NEW w \in Workers, NEW p \in Petitions,
         wpc'[w] = "completing", current'[w] = p
  PROVE  \/ wpc[w] = "completing" /\ current[w] = p
         \/ /\ UNCHANGED ref /\ pet[w] = p
            /\ ref[p].st \notin Expirable \/ pc[w] \in Expiring
<1> USE DEF PetitionInv, QueueInv, QueueTypeOK
<1>0. w \in Actors /\ w \notin Requests /\ ActorsTyped /\ pet[w] \in Petitions
  BY PetitionAssumption DEF Actors, Control, ActorsTyped
<1>1. CASE wpc'[w] = wpc[w] /\ current'[w] = current[w]
  BY <1>1
<1>2. CASE QueueStep
  <2>1. ASSUME NEW v \in Workers, HandlerReturns(v) \/ HandlerRaises(v), current[v] \notin Petitions
        PROVE  wpc'[w] = wpc[w] /\ current'[w] = current[w]
    BY <2>1 DEF HandlerReturns, HandlerRaises
  <2>2. ASSUME NEW v \in Workers,
               \/ StartWorker(v) \/ Poll(v) \/ MarkCompleted(v) \/ MarkFailed(v)
               \/ \E j \in Jobs : SkipClaimed(v, j) \/ Claim(v, j)
        PROVE  wpc'[w] = wpc[w] /\ current'[w] = current[w]
    BY <2>2 DEF StartWorker, Poll, MarkCompleted, MarkFailed, SkipClaimed, Claim, NextJob
  <2>3. ASSUME NEW j \in Jobs,
               DeadlinePasses(j) \/ RegisterHandler(j) \/ ScheduleJob(j) \/ CancelJob(j)
        PROVE  wpc'[w] = wpc[w] /\ current'[w] = current[w]
    BY <2>3 DEF DeadlinePasses, RegisterHandler, ScheduleJob, CancelJob
  <2>4. ASSUME ToggleHalt PROVE wpc'[w] = wpc[w] /\ current'[w] = current[w]
    BY <2>4 DEF ToggleHalt
  <2> QED
    BY <1>1, <1>2, <2>1, <2>2, <2>3, <2>4 DEF QueueStep
<1>3. CASE UNCHANGED queueVars
  BY <1>1, <1>3 DEF queueVars
<1>4. ASSUME NEW r \in Requests, \/ \E q \in Petitions : NewRequest(r, q)
                                 \/ RequestStep(r) \/ RequestFails(r)
      PROVE  wpc'[w] = wpc[w] /\ current'[w] = current[w]
  BY <1>4 DEF NewRequest, Withdraw, AssignArchons, Acknowledge, Refer, CoSign, KnightReads, Begin,
     RequestStep, RequestFails, WithdrawSwap, WithdrawEmit, WithdrawRollback, CoSignCreate,
     EscalateRead, EscalateSwap, StartSession, ReferSave, ReferState, ReferJob, ScheduleJob,
     ReferEvent, KnightWrites, Recommended, queueVars
<1>5. ASSUME NEW a \in Actors, a # w, AckStep(a)
      PROVE  wpc'[w] = wpc[w] /\ current'[w] = current[w]
  BY <1>5 DEF AckStep, AckFind, AckSave, AckWrite, AckEvent, Returns, Raises, HandlerReturns,
     HandlerRaises, queueVars
<1>6. ASSUME NEW v \in Workers, v # w,
             \/ \E q \in Petitions : TimeoutClaim(v, q)
             \/ TimeoutStep(v) \/ TimeoutFails(v) \/ WorkerStops(v) \/ CompletionFails(v)
      PROVE  wpc'[w] = wpc[w] /\ current'[w] = current[w]
  BY <1>6 DEF TimeoutClaim, Claim, TimeoutStep, TimeoutRead, TimeoutSave, TimeoutEvent,
     TimeoutFails, WorkerStops, CompletionFails, Returns, Raises, HandlerReturns, HandlerRaises,
     StopWorker, MarkCompletedRaises, queueVars
<1>7. ASSUME \/ \E q \in Petitions : TimeoutClaim(w, q)
             \/ TimeoutFails(w) \/ WorkerStops(w) \/ CompletionFails(w)
             \/ TimeoutSave(w) \/ TimeoutEvent(w) \/ AckSave(w) \/ AckWrite(w)
      PROVE  wpc'[w] # "completing" \/ (wpc'[w] = wpc[w] /\ current'[w] = current[w])
  BY <1>0, <1>7 DEF TimeoutClaim, Claim, TimeoutFails, WorkerStops, CompletionFails, TimeoutSave,
     TimeoutEvent, AckSave, AckWrite, Raises, HandlerRaises, StopWorker, MarkCompletedRaises,
     queueVars
<1>8. ASSUME TimeoutRead(w) \/ AckFind(w) \/ AckEvent(w)
      PROVE  /\ UNCHANGED ref
             /\ ref[pet[w]].st \notin Expirable \/ pc[w] \in Expiring \/ UNCHANGED queueVars
             /\ Busy(w)
  BY <1>8 DEF TimeoutRead, AckFind, AckEvent, Proceeds, Expiring, storeVars, Busy
<1>9. ASSUME TimeoutRead(w) \/ AckFind(w) \/ AckEvent(w)
      PROVE  UNCHANGED queueVars \/ (current'[w] = current[w] /\ current[w] = pet[w])
  BY <1>0, <1>8, <1>9 DEF TimeoutRead, AckFind, AckEvent, Returns, HandlerReturns, InHandler
<1>10. ASSUME NEW p1 \in Petitions, Submit(p1) \/ Review(p1) PROVE UNCHANGED queueVars
  BY <1>10 DEF Submit, Review
<1>11. AckStep(w) \/ TimeoutStep(w) =>
         \/ TimeoutRead(w) \/ AckFind(w) \/ AckEvent(w)
         \/ TimeoutSave(w) \/ TimeoutEvent(w) \/ AckSave(w) \/ AckWrite(w)
  BY DEF AckStep, TimeoutStep
<1> QED
  BY <1>1, <1>2, <1>3, <1>4, <1>5, <1>6, <1>7, <1>8, <1>9, <1>10, <1>11 DEF Next, vars

LEMMA EndedKept == PetitionInv /\ ReferralInv /\ [Next]_vars => EndedFirst'
<1> SUFFICES ASSUME PetitionInv, ReferralInv, [Next]_vars, NEW w \in Workers, NEW p \in Petitions,
                    wpc'[w] = "completing", current'[w] = p, ~refStale'[p]
             PROVE  ref'[p].st \notin Expirable
  BY DEF EndedFirst
<1>1. ~refStale[p] /\ w \in Actors
  BY ReferralSteps DEF Actors
<1>2. CASE wpc[w] = "completing" /\ current[w] = p
  <2>1. ref[p].st \notin Expirable
    BY <1>1, <1>2 DEF ReferralInv, EndedFirst
  <2>2. status[p] = "processing"
    BY <1>2, PetitionAssumption DEF PetitionInv, QueueInv, HeldByItsWorker, Executing
  <2>3. ref[p].st # "none"
    BY <2>2 DEF ReferralInv, DeadlineOfReferral
  <2> QED
    BY <2>1, <2>3, ReferralSteps DEF Expirable
<1>3. CASE /\ UNCHANGED ref /\ pet[w] = p
           /\ ref[p].st \notin Expirable \/ pc[w] \in Expiring
  <2>1. pc[w] \in Expiring => ref[p].st = "EXPIRED"
    BY <1>1, <1>3 DEF ReferralInv, AboutToTell
  <2> QED
    BY <1>3, <2>1 DEF Expirable
<1> QED
  BY <1>2, <1>3, CompletingSteps

(***************************************************************************)
(* The making of a deadline starts with a referral and ends with the job,  *)
(* unless it is cut off.                                                   *)
(***************************************************************************)
LEMMA MakingSteps ==
  ASSUME PetitionInv, [Next]_vars, NEW r \in Requests
  PROVE  /\ pc'[r] \in Making => \/ pet'[r] = pet[r] /\ pc[r] \in Making
                                 \/ ref'[pet'[r]].st # "none"
         /\ pc[r] \in Making => /\ pet'[r] = pet[r]
                                /\ \/ pc'[r] \in Making
                                   \/ ReferJob(r)
                                   \/ pc[r] \in dropped'[pet[r]]
<1> USE DEF PetitionInv, Control, ActorsTyped, HistoryTyped, StoreTyped
<1>0. r \in Actors /\ r \notin Workers /\ pet[r] \in Petitions /\ pc[r] \in Pc
  BY PetitionAssumption DEF Actors
<1>1. CASE pc'[r] = pc[r] /\ pet'[r] = pet[r]
  BY <1>1
<1>2. ASSUME NEW p \in Petitions, NewRequest(r, p)
      PROVE  pc[r] = "ready" /\ pc'[r] \notin Making
  BY <1>0, <1>2 DEF NewRequest, Withdraw, AssignArchons, Acknowledge, Refer, CoSign, KnightReads,
     Begin, Goto, Making
<1>3. CASE ReferSave(r)
  BY <1>0, <1>3 DEF ReferSave, NoReferral, Goto, Making
<1>4. CASE ReferState(r) \/ ReferJob(r)
  BY <1>0, <1>4 DEF ReferState, ReferJob, Goto, Making
<1>5. CASE RequestFails(r)
  BY <1>0, <1>5 DEF RequestFails, Drop, Goto, Making
<1>6. CASE AckStep(r)
  BY <1>0, <1>6 DEF AckStep, AckFind, AckSave, AckWrite, AckEvent, Returns, Raises, Goto, Making
<1>7. CASE /\ RequestStep(r)
           /\ ~ReferSave(r) /\ ~ReferState(r) /\ ~ReferJob(r)
  BY <1>0, <1>7 DEF RequestStep, WithdrawSwap, WithdrawEmit, EmitRefused, WithdrawRollback,
     CoSignCreate, EscalateRead, EscalateSwap, StartSession, ReferEvent, KnightWrites, Recommended,
     Goto, Making
<1> QED
  BY <1>0, <1>1, <1>2, <1>3, <1>4, <1>5, <1>6, <1>7, Moves DEF OwnStep, Making

LEMMA DeadlineOfKept == PetitionInv /\ ReferralInv /\ [Next]_vars => DeadlineOfReferral'
<1> SUFFICES ASSUME PetitionInv, ReferralInv, [Next]_vars, NEW p \in Petitions,
                    (status[p] # "none" \/ MakingFor(p))'
             PROVE  ref'[p].st # "none"
  BY DEF DeadlineOfReferral
<1>1. CASE status[p] # "none" \/ MakingFor(p)
  BY <1>1, ReferralSteps DEF ReferralInv, DeadlineOfReferral
<1>2. ASSUME NEW r \in Requests, pet[r] = p, ReferJob(r) PROVE MakingFor(p)
  BY <1>2 DEF ReferJob, MakingFor, Making
<1>3. ASSUME NEW r \in Requests, pet'[r] = p, pc'[r] \in Making
      PROVE  MakingFor(p) \/ ref'[p].st # "none"
  BY <1>3, MakingSteps DEF MakingFor
<1> QED
  BY <1>1, <1>2, <1>3, DeadlineSteps DEF MakingFor

LEMMA DeadlineKeptKept == PetitionInv /\ ReferralInv /\ [Next]_vars => DeadlineKept'
<1> SUFFICES ASSUME PetitionInv, ReferralInv, [Next]_vars, NEW p \in Petitions,
                    ref'[p].st \in Expirable, ~refStale'[p],
                    dropped'[p] \cap Making = {}
             PROVE  status'[p] \in Unfinished \/ MakingFor(p)'
  BY DEF DeadlineKept, Unfinished, MakingFor, Making
<1>1. CASE ref[p].st = "none"
  BY <1>1, ReferralSteps DEF Expirable, MakingFor, Making
<1>2. CASE ref[p].st # "none"
  <2>1. ref[p].st \in Expirable /\ ~refStale[p]
    BY <1>2, ReferralSteps DEF Expirable
  <2>2. dropped[p] \cap Making = {}
    BY Grows
  <2>3. status[p] \in Unfinished \/ MakingFor(p)
    BY <2>1, <2>2 DEF ReferralInv, DeadlineKept, Unfinished, MakingFor, Making
  <2>4. CASE status[p] \in Unfinished
    <3>1. ASSUME NEW w \in Workers, wpc[w] = "completing", current[w] = p PROVE FALSE
      BY <2>1, <3>1 DEF ReferralInv, EndedFirst
    <3> QED
      BY <2>4, <3>1, DeadlineSteps
  <2>5. ASSUME NEW r \in Requests, pet[r] = p, pc[r] \in Making
        PROVE  status'[p] \in Unfinished \/ MakingFor(p)'
    <3>1. CASE ReferJob(r)
      BY <2>5, <3>1, DeadlineSteps DEF Unfinished
    <3>2. CASE pc[r] \in dropped'[pet[r]]
      BY <2>5, <3>2
    <3>3. CASE pet'[r] = p /\ pc'[r] \in Making
      BY <3>3 DEF MakingFor
    <3> QED
      BY <2>5, <3>1, <3>2, <3>3, MakingSteps
  <2> QED
    BY <2>3, <2>4, <2>5 DEF MakingFor
<1> QED
  BY <1>1, <1>2

LEMMA DecidedToReferKept ==
  PetitionInv /\ FateInv /\ ReferralInv /\ [Next]_vars => DecidedToRefer'
<1> SUFFICES ASSUME PetitionInv, FateInv, ReferralInv, [Next]_vars, NEW p \in Petitions,
                    (status[p] # "none" \/ ref[p].st = "EXPIRED")'
             PROVE  \E x : <<x, "REFERRED">> \in fates'[p]
  BY DEF DecidedToRefer
<1>1. ASSUME NEW x, <<x, "REFERRED">> \in fates[p] PROVE <<x, "REFERRED">> \in fates'[p]
  BY <1>1, DecisionSteps
<1>2. CASE status[p] # "none" \/ ref[p].st = "EXPIRED"
  BY <1>1, <1>2 DEF ReferralInv, DecidedToRefer
<1>3. ASSUME NEW r \in Requests, pet[r] = p, ReferJob(r) PROVE <<r, "REFERRED">> \in fates[p]
  BY <1>3 DEF ReferJob, FateInv, Decided, RefDecided, Actors
<1> QED
  <2>1. CASE status'[p] # "none"
    BY <1>1, <1>2, <1>3, <2>1, DeadlineSteps
  <2>2. CASE ref'[p].st = "EXPIRED"
    BY <1>2, <2>2, ReferralSteps DEF Expires
  <2> QED
    BY <2>1, <2>2

LEMMA DecidersBeganKept == PetitionInv /\ ReferralInv /\ [Next]_vars => DecidersBegan'
<1> SUFFICES ASSUME PetitionInv, ReferralInv, [Next]_vars, NEW p \in Petitions,
                    NEW r \in Requests, NEW f \in Fates, <<r, f>> \in fates'[p]
             PROVE  pc'[r] # "ready"
  BY DEF DecidersBegan
<1>0. r \in Actors /\ r \notin Workers
  BY PetitionAssumption DEF Actors
<1>1. CASE <<r, f>> \notin fates[p]
  BY <1>1, DecisionSteps
<1>2. CASE <<r, f>> \in fates[p]
  <2>1. pc[r] # "ready"
    BY <1>2 DEF ReferralInv, DecidersBegan
  <2>2. ASSUME NEW q \in Petitions, NewRequest(r, q) PROVE pc[r] = "ready"
    BY <2>2 DEF NewRequest, Withdraw, AssignArchons, Acknowledge, Refer, CoSign, KnightReads, Begin
  <2>3. ASSUME RequestStep(r) \/ RequestFails(r) \/ AckStep(r) PROVE pc'[r] # "ready"
    BY <1>0, <2>3 DEF RequestStep, RequestFails, AckStep, WithdrawSwap, WithdrawEmit, EmitRefused,
       WithdrawRollback, CoSignCreate, EscalateRead, EscalateSwap, StartSession, ReferSave,
       ReferState, ReferJob, ReferEvent, KnightWrites, Recommended, AckFind, AckSave, AckWrite,
       AckEvent, Returns, Raises, Goto, PetitionInv, Control, ActorsTyped
  <2> QED
    BY <1>0, <2>1, <2>2, <2>3, Moves DEF OwnStep
<1> QED
  BY <1>1, <1>2

LEMMA StoredDecidesKept ==
  PetitionInv /\ ReferralInv /\ [Next]_vars => StoredDecides'
<1> SUFFICES ASSUME PetitionInv, ReferralInv, [Next]_vars, NEW p \in Petitions, ack'[p] # "none"
             PROVE  Stored(p)'
  BY DEF StoredDecides
<1> USE DEF PetitionInv, Control, ActorsTyped, HistoryTyped, StoreTyped
<1>1. CASE ack[p] = "none"
  <2>1. PICK a \in Actors : AckSave(a)
    BY <1>1, Frames
  <2>2. pet'[a] = p /\ pc'[a] = "ack_write"
    BY <1>1, <2>1 DEF AckSave, Goto
  <2> QED
    BY <2>2 DEF Stored
<1>2. ASSUME NEW a \in Actors, <<a, "ACKNOWLEDGED">> \in fates[p], op[a] # "withdraw"
      PROVE  Stored(p)'
  <2>1. <<a, "ACKNOWLEDGED">> \in fates'[p]
    BY <1>2, DecisionSteps
  <2>2. a \in Requests => pc[a] # "ready"
    BY <1>2 DEF ReferralInv, DecidersBegan, Fates
  <2>3. ASSUME NEW q \in Petitions, a \in Requests, NewRequest(a, q) PROVE pc[a] = "ready"
    BY <2>3 DEF NewRequest, Withdraw, AssignArchons, Acknowledge, Refer, CoSign, KnightReads, Begin
  <2>4. ASSUME NEW q \in Petitions, TimeoutClaim(a, q) PROVE op'[a] = "timeout"
    BY <2>4 DEF TimeoutClaim
  <2>5. ASSUME \/ RequestStep(a) \/ RequestFails(a) \/ AckStep(a)
               \/ TimeoutStep(a) \/ TimeoutFails(a) \/ WorkerStops(a)
        PROVE  op'[a] = op[a]
    BY <2>5 DEF RequestStep, RequestFails, AckStep, WithdrawSwap, WithdrawEmit,
       WithdrawRollback, CoSignCreate, EscalateRead, EscalateSwap, StartSession, ReferSave,
       ReferState, ReferJob, ReferEvent, KnightWrites, Recommended, AckFind, AckSave, AckWrite,
       AckEvent, TimeoutStep, TimeoutRead, TimeoutSave, TimeoutEvent, TimeoutFails, WorkerStops
  <2>6. op'[a] = op[a] \/ op'[a] = "timeout"
    BY <2>2, <2>3, <2>4, <2>5, Moves DEF OwnStep
  <2> QED
    BY <1>2, <2>1, <2>6 DEF Stored
<1>3. ASSUME NEW a \in Actors, pet[a] = p, pc[a] = "ack_write"
      PROVE  Stored(p)'
  <2>1. CASE pc'[a] = pc[a] /\ pet'[a] = pet[a]
    BY <1>3, <2>1 DEF Stored
  <2>2. CASE AckWrite(a)
    <3>1. /\ <<a, "ACKNOWLEDGED">> \in fates'[p] /\ op'[a] = op[a] /\ op[a] \in AckOps
      BY <1>3, <2>2 DEF AckWrite, Decide, ActorFits, AckSteps
    <3> QED
      BY <3>1 DEF Stored, AckOps
  <2>3. CASE RequestFails(a) \/ TimeoutFails(a) \/ WorkerStops(a)
    <3>1. Drop(a)
      BY <1>3, <2>3 DEF RequestFails, TimeoutFails, WorkerStops, Busy
    <3> QED
      BY <1>3, <3>1 DEF Drop, Stored
  <2>4. ASSUME NEW q \in Petitions, NewRequest(a, q) PROVE FALSE
    BY <1>3, <2>4 DEF NewRequest, Withdraw, AssignArchons, Acknowledge, Refer, CoSign,
       KnightReads, Begin
  <2>5. ASSUME RequestStep(a) \/ TimeoutStep(a) PROVE FALSE
    BY <1>3, <2>5 DEF RequestStep, TimeoutStep, WithdrawSwap, WithdrawEmit,
       WithdrawRollback, CoSignCreate, EscalateRead, EscalateSwap, StartSession, ReferSave,
       ReferState, ReferJob, ReferEvent, KnightWrites, Recommended, TimeoutRead, TimeoutSave,
       TimeoutEvent
  <2>6. ASSUME NEW q \in Petitions, a \in Workers, TimeoutClaim(a, q) PROVE FALSE
    BY <1>3, <2>6 DEF TimeoutClaim, Claim, InHandler, Busy
  <2>7. AckStep(a) => AckWrite(a)
    BY <1>3 DEF AckStep, AckFind, AckSave, AckEvent
  <2> QED
    BY <2>1, <2>2, <2>3, <2>4, <2>5, <2>6, <2>7, Moves DEF OwnStep
<1>4. ASSUME "ack_write" \in dropped[p] PROVE Stored(p)'
  BY <1>4, Grows DEF Stored
<1> QED
  BY <1>1, <1>2, <1>3, <1>4 DEF ReferralInv, StoredDecides, Stored

(***************************************************************************)
(* An acknowledged petition whose referral was decided stays acknowledged: *)
(* a rollback would have to be alone with its own decision.                *)
(***************************************************************************)
LEMMA AcknowledgedStays ==
  ASSUME PetitionInv, FateInv, [Next]_vars, NEW p \in Petitions, ~stale'[p],
         state[p] = "ACKNOWLEDGED", NEW x, <<x, "REFERRED">> \in fates[p]
  PROVE  state'[p] = "ACKNOWLEDGED"
<1> USE DEF PetitionInv, Control, ActorsTyped, HistoryTyped, StoreTyped
<1>0. ~stale[p] /\ Requests \subseteq Actors
  BY Grows DEF Actors
<1>1. ASSUME NEW a \in Actors, NEW s, Write(a, s), seen[a] # "ACKNOWLEDGED"
      PROVE  state'[p] = state[p]
  BY <1>1 DEF Write
<1>2. ASSUME NEW q \in Petitions, Submit(q) PROVE state'[p] = state[p]
  BY <1>2 DEF Submit
<1>3. ASSUME NEW r \in Requests, WithdrawSwap(r) \/ EscalateSwap(r) PROVE state'[p] = state[p]
  BY <1>0, <1>3 DEF WithdrawSwap, EscalateSwap, Swaps, ActorFits, OpenStates
<1>4. ASSUME NEW r \in Requests, ReferState(r) \/ StartSession(r) PROVE state'[p] = state[p]
  BY <1>0, <1>1, <1>4 DEF ReferState, StartSession, ActorFits
<1>5. ASSUME NEW a \in Actors, AckWrite(a) PROVE state'[p] = state[p]
  BY <1>1, <1>5 DEF AckWrite, ActorFits, AckSteps
<1>6. ASSUME NEW r \in Requests, WithdrawRollback(r) PROVE state'[p] = state[p]
  <2>1. pet[r] = p => fates[p] = {<<r, "ACKNOWLEDGED">>}
    BY <1>0, <1>6 DEF WithdrawRollback, FateInv, Alone, Withdrawn
  <2>2. pet[r] # p
    BY <2>1
  <2> QED
    BY <1>6, <2>2 DEF WithdrawRollback
<1> QED
  BY <1>2, <1>3, <1>4, <1>5, <1>6, Frames

(***************************************************************************)
(* The worker that expired a referral goes on until it has acknowledged,   *)
(* finds an acknowledgment, finds the petition acknowledged or is cut off. *)
(***************************************************************************)
LEMMA AnsweringSteps ==
  ASSUME PetitionInv, [Next]_vars, NEW w \in Workers, pc[w] \in Answering
  PROVE  \/ pet'[w] = pet[w] /\ pc'[w] \in Answering
         \/ ack[pet[w]] # "none" \/ ack'[pet[w]] # "none"
         \/ UNCHANGED state /\ state[pet[w]] \notin {"DELIBERATING", "REFERRED"}
         \/ pc[w] \in dropped'[pet[w]]
<1> USE DEF PetitionInv, Control, ActorsTyped, HistoryTyped, StoreTyped, Answering
<1>0. w \in Actors /\ w \notin Requests /\ op[w] \in {"none", "timeout"}
  BY PetitionAssumption DEF Actors, ActorFits
<1>1. CASE pc'[w] = pc[w] /\ pet'[w] = pet[w]
  BY <1>1
<1>2. CASE TimeoutEvent(w)
  BY <1>0, <1>2 DEF TimeoutEvent, Acknowledgeable, Raises, Goto, storeVars
<1>3. CASE AckFind(w)
  BY <1>0, <1>3 DEF AckFind, Returns, Goto
<1>4. CASE AckSave(w)
  BY <1>0, <1>4 DEF AckSave, AckFree, Raises, Goto, ActorFits, AckSteps, AckOps
<1>5. CASE TimeoutFails(w) \/ WorkerStops(w)
  <2>1. Drop(w)
    BY <1>5 DEF TimeoutFails, WorkerStops, Busy
  <2> QED
    BY <1>0, <2>1 DEF Drop
<1>6. ASSUME NEW p \in Petitions, TimeoutClaim(w, p) PROVE FALSE
  BY <1>0, <1>6 DEF TimeoutClaim, Claim, InHandler, Busy
<1>7. ~TimeoutRead(w) /\ ~TimeoutSave(w) /\ ~AckWrite(w) /\ ~AckEvent(w)
  BY DEF TimeoutRead, TimeoutSave, AckWrite, AckEvent
<1> QED
  BY <1>0, <1>1, <1>2, <1>3, <1>4, <1>5, <1>6, <1>7, Moves DEF OwnStep, AckStep, TimeoutStep

LEMMA ExpiredAnsweredKept ==
  PetitionInv /\ FateInv /\ ReferralInv /\ [Next]_vars => ExpiredAnswered'
<1> SUFFICES ASSUME PetitionInv, FateInv, ReferralInv, [Next]_vars, NEW p \in Petitions,
                    ~stale'[p], ~refStale'[p], ref'[p].st = "EXPIRED",
                    ack'[p] = "none", dropped'[p] \cap Answering = {}
             PROVE  \/ state'[p] = "ACKNOWLEDGED"
                    \/ \E w \in Workers : pet'[w] = p /\ pc'[w] \in Answering
  BY DEF ExpiredAnswered
<1>0. ~stale[p] /\ ~refStale[p] /\ ack[p] = "none" /\ dropped[p] \cap Answering = {}
  BY Grows, ReferralSteps
<1>1. CASE ref[p].st # "EXPIRED"
  BY <1>1, ReferralSteps DEF Expires, Answering
<1>2. CASE ref[p].st = "EXPIRED"
  <2>1. PICK x : <<x, "REFERRED">> \in fates[p]
    BY <1>2 DEF ReferralInv, DecidedToRefer
  <2>2. ShapeOf(state[p], fates[p])
    BY <1>0 DEF FateInv, Shape
  <2>3. state[p] \in {"REFERRED", "ACKNOWLEDGED"}
    BY <2>1, <2>2 DEF ShapeOf
  <2>4. state[p] = "ACKNOWLEDGED" => state'[p] = "ACKNOWLEDGED"
    BY <2>1, AcknowledgedStays
  <2>5. ASSUME NEW w \in Workers, pet[w] = p, pc[w] \in Answering
        PROVE  state[p] = "ACKNOWLEDGED" \/ (pet'[w] = p /\ pc'[w] \in Answering)
    BY <1>0, <2>3, <2>5, AnsweringSteps
  <2> QED
    BY <1>0, <1>2, <2>4, <2>5 DEF ReferralInv, ExpiredAnswered
<1> QED
  BY <1>1, <1>2

LEMMA EscalatingSteps ==
  ASSUME PetitionInv, [Next]_vars, NEW r \in Requests, pc[r] \in {"escalate", "escalate_swap"}
  PROVE  \/ pet'[r] = pet[r] /\ pc'[r] \in {"escalate", "escalate_swap"}
         \/ <<r, "ESCALATED">> \in fates'[pet[r]]
         \/ pc[r] \in dropped'[pet[r]]
<1> USE DEF PetitionInv, Control, ActorsTyped, HistoryTyped, StoreTyped
<1>0. r \in Actors /\ r \notin Workers /\ pet[r] \in Petitions
  BY PetitionAssumption DEF Actors
<1>1. CASE pc'[r] = pc[r] /\ pet'[r] = pet[r]
  BY <1>1
<1>2. CASE EscalateRead(r)
  BY <1>0, <1>2 DEF EscalateRead, Drop, Goto
<1>3. CASE EscalateSwap(r)
  BY <1>0, <1>3 DEF EscalateSwap, Decide, Drop
<1>4. CASE RequestFails(r)
  BY <1>0, <1>4 DEF RequestFails, Drop
<1>5. ASSUME NEW p \in Petitions, NewRequest(r, p) PROVE FALSE
  BY <1>5 DEF NewRequest, Withdraw, AssignArchons, Acknowledge, Refer, CoSign, KnightReads, Begin
<1>6. ASSUME \/ WithdrawSwap(r) \/ WithdrawEmit(r) \/ WithdrawRollback(r) \/ CoSignCreate(r)
             \/ StartSession(r) \/ ReferSave(r) \/ ReferState(r) \/ ReferJob(r) \/ ReferEvent(r)
             \/ KnightWrites(r) \/ Recommended(r) \/ AckStep(r)
      PROVE  FALSE
  BY <1>6 DEF WithdrawSwap, WithdrawEmit, WithdrawRollback, CoSignCreate, StartSession, ReferSave,
     ReferState, ReferJob, ReferEvent, KnightWrites, Recommended, AckStep, AckFind, AckSave,
     AckWrite, AckEvent
<1> QED
  BY <1>0, <1>1, <1>2, <1>3, <1>4, <1>5, <1>6, Moves DEF OwnStep, RequestStep

LEMMA EscalatedKept == PetitionInv /\ ReferralInv /\ [Next]_vars => EscalatedOrGivenUp'
<1> DEFINE E == {"escalate", "escalate_swap"}
<1> SUFFICES ASSUME PetitionInv, ReferralInv, [Next]_vars, NEW p \in Petitions,
                    Cardinality(signed'[p]) >= Threshold, dropped'[p] \cap E = {}
             PROVE  \/ \E r \in Requests : pet'[r] = p /\ pc'[r] \in E
                    \/ \E x : <<x, "ESCALATED">> \in fates'[p]
  BY DEF EscalatedOrGivenUp
<1>1. CASE signed'[p] = signed[p]
  <2>1. \/ \E r \in Requests : pet[r] = p /\ pc[r] \in E
        \/ \E x : <<x, "ESCALATED">> \in fates[p]
    BY <1>1, Grows DEF ReferralInv, EscalatedOrGivenUp
  <2>2. ASSUME NEW x, <<x, "ESCALATED">> \in fates[p] PROVE <<x, "ESCALATED">> \in fates'[p]
    BY <2>2, DecisionSteps
  <2> QED
    BY <2>1, <2>2, EscalatingSteps
<1>2. CASE signed'[p] # signed[p]
  <2>1. PICK r \in Requests : CoSignCreate(r)
    BY <1>2, Frames
  <2>2. pet[r] = p /\ pet'[r] = p /\ signed'[p] = signed[p] \cup {signer[r]}
        /\ signer[r] \notin signed[p]
    BY <1>2, <2>1 DEF CoSignCreate, PetitionInv, Control, StoreTyped
  <2>3. Reaches(p, signer[r])
    BY <2>2 DEF Reaches
  <2>4. pc'[r] = "escalate"
    BY <2>1, <2>2, <2>3 DEF CoSignCreate, Goto, PetitionInv, Control, ActorsTyped, Actors
  <2> QED
    BY <2>2, <2>4
<1> QED
  BY <1>1, <1>2

LEMMA ReferralInvKept == PetitionInv /\ FateInv /\ ReferralInv /\ [Next]_vars => ReferralInv'
  BY OutcomeKept, TellKept, EndedKept, DeadlineOfKept, DeadlineKeptKept, DecidedToReferKept,
     DecidersBeganKept, StoredDecidesKept, ExpiredAnsweredKept, EscalatedKept
  DEF ReferralInv

-----------------------------------------------------------------------------
THEOREM ReferralInvariant == Spec => [](PetitionInv /\ FateInv /\ ReferralInv)
<1>1. Init => PetitionInv /\ FateInv /\ ReferralInv
  BY InitReferral, InitFate, InitControl, QueueInitInv DEF Init, PetitionInv, InHandler, Busy
<1>2. PetitionInv /\ FateInv /\ ReferralInv /\ [Next]_vars => (PetitionInv /\ FateInv /\ ReferralInv)'
  BY PetitionInvKept, FateInvKept, ReferralInvKept
<1> QED
  BY <1>1, <1>2, PTL DEF Spec

(***************************************************************************)
(* The ledger never has two outcomes of one referral, unless a Knight or   *)
(* the timeout wrote over a record that had changed since it was read.     *)
(***************************************************************************)
THEOREM OneEnding == Spec => []OneOutcome
  BY ReferralInvariant, ReferralInvImplies, PTL

(***************************************************************************)
(* A referral that is still to be answered keeps its deadline job.         *)
(***************************************************************************)
THEOREM DeadlinesKept == Spec => []DeadlineKept
  BY ReferralInvariant, ReferralInvImplies, PTL

(***************************************************************************)
(* An expired referral leaves its petition acknowledged.                   *)
(***************************************************************************)
THEOREM ExpiryAnswered == Spec => []ExpiryAcknowledges
  BY ReferralInvariant, ReferralInvImplies, PTL

(***************************************************************************)
(* A threshold that is reached is acted upon by the request that reached   *)
(* it.                                                                     *)
(***************************************************************************)
THEOREM ThresholdActedOn == Spec => []ThresholdNotMissed
  BY ReferralInvariant, ReferralInvImplies, PTL

(***************************************************************************)
(* Without overlap the exceptions for stale writes fall away: an open      *)
(* petition has no fate, a fated one the fate of its row and no second one *)
(* but the acknowledgment that ends a referral, and a referral ends once.  *)
(***************************************************************************)
ExactlyOneFate(p) ==
  /\ state[p] \notin Fates => fates[p] = {}
  /\ state[p] \in Fates => \E d \in fates[p] : d[2] = state[p]
  /\ \A d, e \in fates[p] : d # e => {d[2], e[2]} = {"REFERRED", "ACKNOWLEDGED"}
  /\ outcome[p] # {"completed", "expired"}

(***************************************************************************)
(* Exactly one fate and one ending, whatever fails and whoever dies, as    *)
(* long as operations on petitions do not overlap.                         *)
(***************************************************************************)
THEOREM ExactWithoutOverlap == Spec => [](overlap \/ \A p \in Petitions : ExactlyOneFate(p))
<1>1. (overlap \/ NothingStale) /\ SingleFate /\ OneOutcome
      => overlap \/ \A p \in Petitions : ExactlyOneFate(p)
  BY DEF NothingStale, SingleFate, OneOutcome, ExactlyOneFate
<1> QED
  BY <1>1, StaleOnlyByOverlap, OneFate, OneEnding, PTL
=============================================================================
