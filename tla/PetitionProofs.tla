--------------------------- MODULE PetitionProofs ---------------------------
(***************************************************************************)
(* The petition system for any number of petitions, requests, signers and  *)
(* workers: its types are kept, every actor stands where its operation     *)
(* leads, and the job queue is used as the queue's own specification       *)
(* allows, so that the queue's safety carries over.                        *)
(***************************************************************************)
EXTENDS PetitionSystem, JobQueueProofs

(***************************************************************************)
(* TypeOK without the queue's part.                                        *)
(***************************************************************************)
StoreTyped ==
  /\ state \in [Petitions -> PetitionState]
  /\ session \in [Petitions -> BOOLEAN]
  /\ ack \in [Petitions -> {"none"} \cup Ops]
  /\ ref \in [Petitions -> Referral]
  /\ signed \in [Petitions -> SUBSET Signers]

ActorsTyped ==
  /\ op \in [Actors -> Ops]
  /\ pet \in [Actors -> Petitions]
  /\ pc \in [Actors -> Pc]
  /\ seen \in [Actors -> PetitionState]
  /\ seenRef \in [Actors -> Referral]
  /\ signer \in [Actors -> Signers]
  /\ saveReplaces \in BOOLEAN /\ overlap \in BOOLEAN

HistoryTyped ==
  /\ faults \in 0..MaxFaults
  /\ fates \in [Petitions -> SUBSET Decisions]
  /\ announced \in [Petitions -> SUBSET Decisions]
  /\ stale \in [Petitions -> BOOLEAN]
  /\ refStale \in [Petitions -> BOOLEAN]
  /\ dropped \in [Petitions -> SUBSET Pc]
  /\ outcome \in [Petitions -> SUBSET {"completed", "expired"}]

(***************************************************************************)
(* Where an actor stands, which operation it performs and what it has read.*)
(***************************************************************************)
AckOps   == {"acknowledge", "advise_ack", "timeout"}
AckSteps == {"ack_find", "ack_save", "ack_write"}

ActorFits(a) ==
  /\ pc[a] = "ready" => op[a] = "none"
  /\ pc[a] \in {"swap", "emit", "rollback"} => op[a] = "withdraw" /\ seen[a] \in OpenStates
  /\ pc[a] = "escalate_swap" => seen[a] \in OpenStates
  /\ pc[a] = "start_session" => seen[a] = "RECEIVED"
  /\ pc[a] \in AckSteps \cup {"ack_event"} => op[a] \in AckOps
  /\ pc[a] \in AckSteps => seen[a] \in {"DELIBERATING", "REFERRED"}
  /\ pc[a] \in {"ref_save", "ref_state"} => seen[a] = "DELIBERATING"
  /\ pc[a] = "ref_update" => op[a] \in RefOps /\ AcceptsReferral(op[a], seenRef[a])
  /\ pc[a] = "rec_event" => op[a] \in {"advise_ack", "advise_esc"}
  /\ pc[a] \in {"exp_save", "exp_event"} => seenRef[a].st \in Expirable
  /\ pc[a] \in {"exp_read", "exp_save", "exp_event"} => op[a] = "timeout"
  /\ op[a] = "timeout" => a \in Workers
  /\ a \in Workers => op[a] \in {"none", "timeout"} /\ pc[a] # "ready"
  /\ pc[a] \in {"swap", "emit", "rollback", "create", "escalate", "escalate_swap",
                "start_session", "ref_save", "ref_state", "ref_job", "ref_event",
                "ref_update", "rec_event"} => a \in Requests

Control == StoreTyped /\ ActorsTyped /\ HistoryTyped /\ \A a \in Actors : ActorFits(a)

LEMMA TypeOKSplits == TypeOK <=> QueueTypeOK /\ StoreTyped /\ ActorsTyped /\ HistoryTyped
  BY DEF TypeOK, StoreTyped, ActorsTyped, HistoryTyped

-----------------------------------------------------------------------------
LEMMA InitControl == Init => Control
<1> SUFFICES ASSUME Init PROVE Control
  OBVIOUS
<1>1. StoreTyped
  BY DEF Init, StoreTyped, PetitionState, OpenStates, Fates, Referral, NoReferral,
     ReferralStatus, Expirable, MaxExtensions
<1>2. ActorsTyped
  BY DEF Init, ActorsTyped, Ops, Pc, PetitionState, Referral, NoReferral, ReferralStatus,
     MaxExtensions
<1>3. HistoryTyped
  BY PetitionAssumption DEF Init, HistoryTyped, Decisions, Fates
<1>4. \A a \in Actors : ActorFits(a)
  BY DEF Init, ActorFits, AckSteps, Actors
<1> QED
  BY <1>1, <1>2, <1>3, <1>4 DEF Control

(***************************************************************************)
(* A request that begins has read what it will act on.                     *)
(***************************************************************************)
LEMMA BeginFits ==
  ASSUME Control, NEW r \in Requests, NEW p \in Petitions, NewRequest(r, p)
  PROVE  Control'
<1> USE DEF Control
<1> r \in Actors /\ r \notin Workers
  BY PetitionAssumption DEF Actors
<1>1. ASSUME NEW o \in Ops \ {"none", "timeout"}, NEW l \in Pc, Begin(r, o, p, l),
             StoreTyped', HistoryTyped', signer' \in [Actors -> Signers],
             \/ l = "swap" /\ o = "withdraw" /\ state[p] \in OpenStates
             \/ l = "create"
             \/ l = "start_session" /\ state[p] = "RECEIVED"
             \/ l = "ack_find" /\ o = "acknowledge" /\ state[p] = "DELIBERATING"
             \/ l = "ref_save" /\ state[p] = "DELIBERATING"
             \/ l = "ref_update" /\ o \in RefOps /\ AcceptsReferral(o, ref[p])
      PROVE  Control'
  <2>1. /\ pc' = [pc EXCEPT ![r] = l] /\ op' = [op EXCEPT ![r] = o]
        /\ pet' = [pet EXCEPT ![r] = p] /\ seen' = [seen EXCEPT ![r] = state[p]]
        /\ seenRef' = [seenRef EXCEPT ![r] = ref[p]] /\ runVars' = runVars
    BY <1>1 DEF Begin, Goto
  <2>2. ActorsTyped'
    BY <1>1, <2>1 DEF ActorsTyped, StoreTyped, runVars
  <2>3. ActorFits(r)'
    BY <1>1, <2>1 DEF ActorsTyped, ActorFits, AckSteps, AckOps
  <2>4. \A a \in Actors \ {r} : ActorFits(a)'
    BY <2>1 DEF ActorsTyped, ActorFits
  <2> QED
    BY <1>1, <2>2, <2>3, <2>4
<1> USE DEF NewRequest, storeVars, historyVars, StoreTyped, HistoryTyped
<1>2. CASE Withdraw(r, p)
  BY <1>1, <1>2 DEF Withdraw, Begin, Ops, Pc, ActorsTyped
<1>3. CASE AssignArchons(r, p)
  BY <1>1, <1>3 DEF AssignArchons, Begin, Ops, Pc, ActorsTyped
<1>4. CASE Acknowledge(r, p)
  BY <1>1, <1>4 DEF Acknowledge, Begin, Ops, Pc, ActorsTyped, Acknowledgeable
<1>5. CASE Refer(r, p)
  BY <1>1, <1>5 DEF Refer, Begin, Ops, Pc, ActorsTyped
<1>6. ASSUME NEW s \in Signers, CoSign(r, p, s) PROVE Control'
  BY <1>1, <1>6 DEF CoSign, Begin, Ops, Pc, ActorsTyped
<1>7. ASSUME NEW o \in RefOps, KnightReads(r, o, p) PROVE Control'
  BY <1>1, <1>7 DEF KnightReads, Begin, Ops, RefOps, Pc, ActorsTyped
<1> QED
  BY <1>2, <1>3, <1>4, <1>5, <1>6, <1>7 DEF NewRequest

(***************************************************************************)
(* A step that moves actor a to l and leaves what it knows alone.          *)
(***************************************************************************)
LEMMA MoveFits ==
  ASSUME Control, NEW a \in Actors, NEW l \in Pc \ {"ready"}, Goto(a, l),
         UNCHANGED <<op, pet, seen, seenRef, signer, runVars>>,
         StoreTyped', HistoryTyped',
         \/ l = "done"
         \/ l \in {"emit", "rollback"} /\ pc[a] \in {"swap", "emit"}
         \/ l = "escalate" /\ pc[a] = "create"
         \/ l = "ack_save" /\ pc[a] = "ack_find"
         \/ l = "ack_write" /\ pc[a] = "ack_save"
         \/ l = "ack_event" /\ pc[a] = "ack_write"
         \/ l = "ref_state" /\ pc[a] = "ref_save"
         \/ l = "ref_job" /\ pc[a] = "ref_state"
         \/ l = "ref_event" /\ pc[a] = "ref_job"
         \/ l = "rec_event" /\ pc[a] = "ref_update" /\ op[a] \in {"advise_ack", "advise_esc"}
         \/ l = "exp_event" /\ pc[a] = "exp_save"
  PROVE  Control'
<1> USE DEF Control
<1>1. pc' = [pc EXCEPT ![a] = l]
  BY DEF Goto
<1>2. ActorsTyped'
  BY <1>1 DEF ActorsTyped, runVars
<1>3. ActorFits(a)'
  BY <1>1 DEF ActorsTyped, ActorFits, AckSteps, AckOps
<1>4. \A b \in Actors \ {a} : ActorFits(b)'
  BY <1>1 DEF ActorsTyped, ActorFits
<1> QED
  BY <1>2, <1>3, <1>4

(***************************************************************************)
(* What the writes the operations share leave in the records they touch.   *)
(***************************************************************************)
LEMMA RecordsTyped ==
  ASSUME ActorsTyped, HistoryTyped, NEW a \in Actors, NEW f \in Fates
  PROVE  /\ Decide(a, f) => fates' \in [Petitions -> SUBSET Decisions]
         /\ Announce(a, f) => announced' \in [Petitions -> SUBSET Decisions]
<1>1. pet[a] \in Petitions /\ <<a, f>> \in Decisions
  BY DEF ActorsTyped, Decisions
<1>2. ASSUME Decide(a, f) PROVE fates' \in [Petitions -> SUBSET Decisions]
  BY <1>1, <1>2 DEF Decide, HistoryTyped
<1>3. ASSUME Announce(a, f) PROVE announced' \in [Petitions -> SUBSET Decisions]
  BY <1>1, <1>3 DEF Announce, HistoryTyped
<1> QED
  BY <1>2, <1>3

LEMMA DropTyped ==
  ASSUME ActorsTyped, HistoryTyped, NEW a \in Actors, Drop(a)
  PROVE  dropped' \in [Petitions -> SUBSET Pc]
  BY DEF Drop, ActorsTyped, HistoryTyped

LEMMA WriteTyped ==
  ASSUME StoreTyped, ActorsTyped, HistoryTyped, NEW a \in Actors, NEW s \in PetitionState,
         Write(a, s)
  PROVE  state' \in [Petitions -> PetitionState] /\ stale' \in [Petitions -> BOOLEAN]
  BY DEF Write, StoreTyped, ActorsTyped, HistoryTyped

LEMMA WriteReferralTyped ==
  ASSUME StoreTyped, ActorsTyped, HistoryTyped, NEW a \in Actors, NEW x \in Referral,
         WriteReferral(a, x)
  PROVE  ref' \in [Petitions -> Referral] /\ refStale' \in [Petitions -> BOOLEAN]
  BY DEF WriteReferral, StoreTyped, ActorsTyped, HistoryTyped

LEMMA RequestStepFits ==
  ASSUME Control, NEW r \in Requests, RequestStep(r) \/ RequestFails(r)
  PROVE  Control'
<1> USE DEF Control
<1>0. r \in Actors
  BY DEF Actors
<1>1. CASE WithdrawSwap(r)
  <2>1. StoreTyped' /\ HistoryTyped'
    <3>1. StoreTyped'
      BY <1>0, <1>1 DEF WithdrawSwap, StoreTyped, ActorsTyped, PetitionState, Fates
    <3>2. HistoryTyped'
      BY <1>0, <1>1, RecordsTyped DEF WithdrawSwap, HistoryTyped, Fates
    <3> QED
      BY <3>1, <3>2
  <2> QED
    BY <1>0, <1>1, <2>1, MoveFits DEF WithdrawSwap, Pc
<1>2. CASE WithdrawEmit(r)
  <2>1. StoreTyped' /\ HistoryTyped'
    BY <1>0, <1>2, RecordsTyped, PetitionAssumption DEF WithdrawEmit, Fault, storeVars, StoreTyped,
       HistoryTyped, Fates
  <2> QED
    BY <1>0, <1>2, <2>1, MoveFits DEF WithdrawEmit, EmitRefused, Pc
<1>3. CASE WithdrawRollback(r)
  <2>1. StoreTyped' /\ HistoryTyped'
    BY <1>0, <1>3 DEF WithdrawRollback, RolledBack, StoreTyped, ActorsTyped, HistoryTyped
  <2> QED
    BY <1>0, <1>3, <2>1, MoveFits DEF WithdrawRollback, Pc
<1>4. CASE CoSignCreate(r)
  <2>1. StoreTyped' /\ HistoryTyped'
    BY <1>0, <1>4 DEF CoSignCreate, historyVars, StoreTyped, ActorsTyped, HistoryTyped
  <2> QED
    BY <1>0, <1>4, <2>1, MoveFits DEF CoSignCreate, Pc
<1>5. CASE EscalateRead(r)
  <2>1. StoreTyped' /\ HistoryTyped'
    BY <1>0, <1>5, DropTyped DEF EscalateRead, storeVars, StoreTyped, HistoryTyped
  <2>2. /\ seen' = [seen EXCEPT ![r] = state[pet[r]]]
        /\ UNCHANGED <<op, pet, seenRef, signer, runVars>>
        /\ \/ pc' = [pc EXCEPT ![r] = "done"]
           \/ pc' = [pc EXCEPT ![r] = "escalate_swap"] /\ state[pet[r]] \in OpenStates
    BY <1>5 DEF EscalateRead, Goto
  <2>3. ActorsTyped'
    BY <1>0, <2>2 DEF ActorsTyped, StoreTyped, runVars, Pc
  <2>4. ActorFits(r)'
    BY <1>0, <2>2 DEF ActorsTyped, ActorFits, AckSteps
  <2>5. \A b \in Actors \ {r} : ActorFits(b)'
    BY <1>0, <2>2 DEF ActorsTyped, ActorFits
  <2> QED
    BY <2>1, <2>3, <2>4, <2>5
<1>6. CASE EscalateSwap(r)
  <2>1. StoreTyped' /\ HistoryTyped'
    <3>1. StoreTyped'
      BY <1>0, <1>6 DEF EscalateSwap, StoreTyped, ActorsTyped, PetitionState, Fates
    <3>2. HistoryTyped'
      BY <1>0, <1>6, RecordsTyped, DropTyped DEF EscalateSwap, HistoryTyped, Fates
    <3> QED
      BY <3>1, <3>2
  <2> QED
    BY <1>0, <1>6, <2>1, MoveFits DEF EscalateSwap, Pc
<1>7. CASE StartSession(r)
  <2>1. StoreTyped' /\ HistoryTyped'
    BY <1>0, <1>7, WriteTyped DEF StartSession, StoreTyped, ActorsTyped, HistoryTyped,
       PetitionState, OpenStates
  <2> QED
    BY <1>0, <1>7, <2>1, MoveFits DEF StartSession, Pc
<1>8. CASE ReferSave(r)
  <2>1. StoreTyped' /\ HistoryTyped'
    BY <1>0, <1>8 DEF ReferSave, historyVars, StoreTyped, ActorsTyped, HistoryTyped, Referral,
       ReferralStatus, MaxExtensions
  <2> QED
    BY <1>0, <1>8, <2>1, MoveFits DEF ReferSave, Pc
<1>9. CASE ReferState(r)
  <2>1. StoreTyped' /\ HistoryTyped'
    BY <1>0, <1>9, WriteTyped, RecordsTyped DEF ReferState, StoreTyped, ActorsTyped, HistoryTyped,
       PetitionState, Fates
  <2> QED
    BY <1>0, <1>9, <2>1, MoveFits DEF ReferState, Pc
<1>10. CASE ReferJob(r)
  <2>1. StoreTyped' /\ HistoryTyped'
    BY <1>10 DEF ReferJob, storeVars, historyVars, StoreTyped, HistoryTyped
  <2> QED
    BY <1>0, <1>10, <2>1, MoveFits DEF ReferJob, Pc
<1>11. CASE ReferEvent(r)
  <2>1. StoreTyped' /\ HistoryTyped'
    BY <1>0, <1>11, RecordsTyped DEF ReferEvent, storeVars, StoreTyped, HistoryTyped, Fates
  <2> QED
    BY <1>0, <1>11, <2>1, MoveFits DEF ReferEvent, Pc
<1>12. CASE KnightWrites(r)
  <2>1. Updated(op[r], seenRef[r]) \in Referral
    BY <1>0, <1>12 DEF KnightWrites, ActorsTyped, ActorFits, Updated, AcceptsReferral, Referral,
       ReferralStatus, MaxExtensions
  <2>2. StoreTyped' /\ HistoryTyped'
    BY <1>0, <1>12, <2>1, WriteReferralTyped DEF KnightWrites, StoreTyped, ActorsTyped, HistoryTyped
  <2> QED
    BY <1>0, <1>12, <2>2, MoveFits DEF KnightWrites, Pc
<1>13. CASE Recommended(r)
  <2>1. StoreTyped' /\ HistoryTyped'
    BY <1>0, <1>13 DEF Recommended, storeVars, StoreTyped, ActorsTyped, HistoryTyped
  <2>2. /\ seen' = [seen EXCEPT ![r] = state[pet[r]]]
        /\ UNCHANGED <<op, pet, seenRef, signer, runVars>>
        /\ \/ pc' = [pc EXCEPT ![r] = "done"]
           \/ /\ pc' = [pc EXCEPT ![r] = "ack_find"] /\ op[r] = "advise_ack"
              /\ state[pet[r]] \in {"DELIBERATING", "REFERRED"}
    BY <1>13 DEF Recommended, Goto, Acknowledgeable
  <2>3. ActorsTyped'
    BY <1>0, <2>2 DEF ActorsTyped, StoreTyped, runVars, Pc
  <2>4. ActorFits(r)'
    BY <1>0, <2>2 DEF ActorsTyped, ActorFits, AckSteps, AckOps
  <2>5. \A b \in Actors \ {r} : ActorFits(b)'
    BY <1>0, <2>2 DEF ActorsTyped, ActorFits
  <2> QED
    BY <2>1, <2>3, <2>4, <2>5
<1>14. CASE RequestFails(r)
  <2>1. StoreTyped' /\ HistoryTyped'
    BY <1>0, <1>14, DropTyped, PetitionAssumption DEF RequestFails, Fault, storeVars, StoreTyped,
       HistoryTyped
  <2> QED
    BY <1>0, <1>14, <2>1, MoveFits DEF RequestFails, Pc
<1> QED
  BY <1>1, <1>2, <1>3, <1>4, <1>5, <1>6, <1>7, <1>8, <1>9, <1>10, <1>11, <1>12, <1>13, <1>14
  DEF RequestStep

LEMMA AckStepFits ==
  ASSUME Control, NEW a \in Actors, AckStep(a)
  PROVE  Control'
<1> USE DEF Control
<1>1. CASE AckFind(a)
  <2>1. StoreTyped' /\ HistoryTyped'
    BY <1>1 DEF AckFind, storeVars, historyVars, StoreTyped, HistoryTyped
  <2> QED
    BY <1>1, <2>1, MoveFits DEF AckFind, Returns, Pc
<1>2. CASE AckSave(a)
  <2>1. StoreTyped' /\ HistoryTyped'
    BY <1>2 DEF AckSave, historyVars, StoreTyped, ActorsTyped, HistoryTyped
  <2> QED
    BY <1>2, <2>1, MoveFits DEF AckSave, Raises, Pc
<1>3. CASE AckWrite(a)
  <2>1. StoreTyped' /\ HistoryTyped'
    BY <1>3, WriteTyped, RecordsTyped DEF AckWrite, StoreTyped, ActorsTyped, HistoryTyped,
       PetitionState, Fates
  <2> QED
    BY <1>3, <2>1, MoveFits DEF AckWrite, Pc
<1>4. CASE AckEvent(a)
  <2>1. StoreTyped' /\ HistoryTyped'
    BY <1>4, RecordsTyped DEF AckEvent, storeVars, StoreTyped, HistoryTyped, Fates
  <2> QED
    BY <1>4, <2>1, MoveFits DEF AckEvent, Returns, Pc
<1> QED
  BY <1>1, <1>2, <1>3, <1>4 DEF AckStep

LEMMA WorkerStepFits ==
  ASSUME Control, NEW w \in Workers,
         \/ \E p \in Petitions : TimeoutClaim(w, p)
         \/ TimeoutStep(w) \/ TimeoutFails(w) \/ WorkerStops(w) \/ CompletionFails(w)
  PROVE  Control'
<1> USE DEF Control
<1> w \in Actors /\ w \notin Requests
  BY PetitionAssumption DEF Actors
<1>1. ASSUME NEW p \in Petitions, TimeoutClaim(w, p) PROVE Control'
  <2>1. StoreTyped' /\ HistoryTyped'
    BY <1>1 DEF TimeoutClaim, storeVars, historyVars, StoreTyped, HistoryTyped
  <2>2. /\ pc' = [pc EXCEPT ![w] = "exp_read"] /\ op' = [op EXCEPT ![w] = "timeout"]
        /\ pet' = [pet EXCEPT ![w] = p] /\ UNCHANGED <<seen, seenRef, signer, runVars>>
    BY <1>1 DEF TimeoutClaim, Goto
  <2>3. ActorsTyped'
    BY <2>2 DEF ActorsTyped, runVars, Pc, Ops
  <2>4. ActorFits(w)'
    BY <2>2 DEF ActorsTyped, ActorFits, AckSteps, AckOps
  <2>5. \A b \in Actors \ {w} : ActorFits(b)'
    BY <2>2 DEF ActorsTyped, ActorFits
  <2> QED
    BY <2>1, <2>3, <2>4, <2>5
<1>2. CASE TimeoutRead(w)
  <2>1. StoreTyped' /\ HistoryTyped'
    BY <1>2 DEF TimeoutRead, storeVars, historyVars, StoreTyped, HistoryTyped
  <2>2. /\ seenRef' = [seenRef EXCEPT ![w] = ref[pet[w]]]
        /\ UNCHANGED <<op, pet, seen, signer, runVars>>
        /\ \/ pc' = [pc EXCEPT ![w] = "done"]
           \/ pc' = [pc EXCEPT ![w] = "exp_save"] /\ ref[pet[w]].st \in Expirable
    BY <1>2 DEF TimeoutRead, Proceeds, Returns, Goto
  <2>3. ActorsTyped'
    BY <2>2 DEF ActorsTyped, StoreTyped, runVars, Pc
  <2>4. ActorFits(w)'
    BY <1>2, <2>2 DEF TimeoutRead, ActorsTyped, ActorFits, AckSteps
  <2>5. \A b \in Actors \ {w} : ActorFits(b)'
    BY <2>2 DEF ActorsTyped, ActorFits
  <2> QED
    BY <2>1, <2>3, <2>4, <2>5
<1>3. CASE TimeoutSave(w)
  <2>1. [seenRef[w] EXCEPT !.st = "EXPIRED"] \in Referral
    BY DEF ActorsTyped, Referral, ReferralStatus
  <2>2. StoreTyped' /\ HistoryTyped'
    BY <1>3, <2>1, WriteReferralTyped DEF TimeoutSave, StoreTyped, ActorsTyped, HistoryTyped
  <2> QED
    BY <1>3, <2>2, MoveFits DEF TimeoutSave, Raises, Pc
<1>4. CASE TimeoutEvent(w)
  <2>1. StoreTyped' /\ HistoryTyped'
    BY <1>4 DEF TimeoutEvent, storeVars, StoreTyped, ActorsTyped, HistoryTyped
  <2>2. /\ seen' = [seen EXCEPT ![w] = state[pet[w]]]
        /\ UNCHANGED <<op, pet, seenRef, signer, runVars>>
        /\ \/ pc' = [pc EXCEPT ![w] = "done"]
           \/ /\ pc' = [pc EXCEPT ![w] = "ack_find"]
              /\ state[pet[w]] \in {"DELIBERATING", "REFERRED"}
    BY <1>4 DEF TimeoutEvent, Raises, Goto, Acknowledgeable
  <2>3. ActorsTyped'
    BY <2>2 DEF ActorsTyped, StoreTyped, runVars, Pc
  <2>4. ActorFits(w)'
    BY <1>4, <2>2 DEF TimeoutEvent, ActorsTyped, ActorFits, AckSteps, AckOps
  <2>5. \A b \in Actors \ {w} : ActorFits(b)'
    BY <2>2 DEF ActorsTyped, ActorFits
  <2> QED
    BY <2>1, <2>3, <2>4, <2>5
<1>5. CASE TimeoutFails(w)
  <2>1. StoreTyped' /\ HistoryTyped'
    BY <1>5, DropTyped, PetitionAssumption DEF TimeoutFails, Fault, storeVars, StoreTyped,
       HistoryTyped
  <2> QED
    BY <1>5, <2>1, MoveFits DEF TimeoutFails, Raises, Pc
<1>6. CASE WorkerStops(w)
  <2>1. StoreTyped' /\ HistoryTyped'
    BY <1>6, DropTyped, PetitionAssumption DEF WorkerStops, Fault, storeVars, StoreTyped,
       HistoryTyped
  <2> QED
    BY <1>6, <2>1, MoveFits DEF WorkerStops, Pc
<1>7. CASE CompletionFails(w)
  BY <1>7, PetitionAssumption DEF CompletionFails, Fault, storeVars, actorVars, runVars,
     historyVars, StoreTyped, ActorsTyped, HistoryTyped, ActorFits
<1> QED
  BY <1>1, <1>2, <1>3, <1>4, <1>5, <1>6, <1>7 DEF TimeoutStep

LEMMA ControlKept == Control /\ [Next]_vars => Control'
<1> SUFFICES ASSUME Control, [Next]_vars PROVE Control'
  OBVIOUS
<1>1. CASE UNCHANGED petitionVars
  BY <1>1 DEF Control, petitionVars, storeVars, actorVars, runVars, historyVars, StoreTyped,
     ActorsTyped, HistoryTyped, ActorFits
<1>2. ASSUME NEW p \in Petitions, Submit(p) \/ Review(p) PROVE Control'
  <2>1. StoreTyped'
    <3>1. CASE Submit(p)
      BY <3>1 DEF Submit, Control, StoreTyped, PetitionState, OpenStates
    <3>2. CASE Review(p)
      BY <3>2 DEF Review, Control, StoreTyped, Referral, ReferralStatus
    <3> QED
      BY <1>2, <3>1, <3>2
  <2>2. UNCHANGED <<actorVars, runVars, faults, historyVars>>
    BY <1>2 DEF Submit, Review
  <2>3. ActorsTyped' /\ HistoryTyped' /\ \A a \in Actors : ActorFits(a)'
    BY <2>2 DEF Control, actorVars, runVars, historyVars, ActorsTyped, HistoryTyped, ActorFits
  <2> QED
    BY <2>1, <2>3 DEF Control
<1>3. ASSUME NEW r \in Requests, NEW p \in Petitions, NewRequest(r, p) PROVE Control'
  BY <1>3, BeginFits
<1>4. ASSUME NEW r \in Requests, RequestStep(r) \/ RequestFails(r) PROVE Control'
  BY <1>4, RequestStepFits
<1>5. ASSUME NEW a \in Actors, AckStep(a) PROVE Control'
  BY <1>5, AckStepFits
<1>6. ASSUME NEW w \in Workers,
             \/ \E p \in Petitions : TimeoutClaim(w, p)
             \/ TimeoutStep(w) \/ TimeoutFails(w) \/ WorkerStops(w) \/ CompletionFails(w)
      PROVE  Control'
  BY <1>6, WorkerStepFits
<1> QED
  BY <1>1, <1>2, <1>3, <1>4, <1>5, <1>6 DEF Next, QueueStep, vars

-----------------------------------------------------------------------------
(***************************************************************************)
(* Every step is a step of the queue or leaves the queue alone.            *)
(***************************************************************************)
LEMMA StepsOnQueue == Control /\ [Next]_vars => [QueueNext]_queueVars
<1> SUFFICES ASSUME Control, [Next]_vars PROVE [QueueNext]_queueVars
  OBVIOUS
<1>0. ASSUME NEW a \in Actors, Returns(a) \/ Raises(a) PROVE [QueueNext]_queueVars
  BY <1>0 DEF Returns, Raises, QueueNext
<1>1. CASE UNCHANGED vars
  BY <1>1 DEF vars
<1>2. CASE QueueStep
  BY <1>2 DEF QueueStep, QueueNext
<1>3. ASSUME NEW p \in Petitions, Submit(p) \/ Review(p) PROVE UNCHANGED queueVars
  BY <1>3 DEF Submit, Review
<1>4. ASSUME NEW r \in Requests, NEW p \in Petitions, NewRequest(r, p)
      PROVE  UNCHANGED queueVars
  BY <1>4 DEF NewRequest, Withdraw, AssignArchons, Acknowledge, Refer, CoSign, KnightReads, Begin
<1>5. ASSUME NEW r \in Requests, RequestStep(r) \/ RequestFails(r) PROVE [QueueNext]_queueVars
  <2>1. CASE ReferJob(r)
    <3>1. pet[r] \in Jobs
      BY PetitionAssumption DEF Control, ActorsTyped, Actors
    <3> QED
      BY <2>1, <3>1 DEF ReferJob, QueueNext
  <2>2. CASE ~ReferJob(r)
    BY <1>5, <2>2 DEF RequestStep, RequestFails, WithdrawSwap, WithdrawEmit, WithdrawRollback,
       CoSignCreate, EscalateRead, EscalateSwap, StartSession, ReferSave, ReferState, ReferEvent,
       KnightWrites, Recommended
  <2> QED
    BY <2>1, <2>2
<1>6. ASSUME NEW a \in Actors, AckStep(a) PROVE [QueueNext]_queueVars
  BY <1>0, <1>6 DEF AckStep, AckFind, AckSave, AckWrite, AckEvent
<1>7. ASSUME NEW w \in Workers,
             \/ \E p \in Petitions : TimeoutClaim(w, p)
             \/ TimeoutStep(w) \/ TimeoutFails(w) \/ WorkerStops(w) \/ CompletionFails(w)
      PROVE  [QueueNext]_queueVars
  <2> w \in Actors /\ Petitions \subseteq Jobs
    BY PetitionAssumption DEF Actors
  <2>1. CASE TimeoutStep(w) \/ TimeoutFails(w)
    BY <1>0, <2>1 DEF TimeoutStep, TimeoutRead, TimeoutSave, TimeoutEvent, TimeoutFails
  <2>2. CASE \/ \E p \in Petitions : TimeoutClaim(w, p)
             \/ WorkerStops(w) \/ CompletionFails(w)
    BY <2>2 DEF TimeoutClaim, WorkerStops, CompletionFails, QueueNext
  <2> QED
    BY <1>7, <2>1, <2>2
<1> QED
  BY <1>1, <1>2, <1>3, <1>4, <1>5, <1>6, <1>7 DEF Next

(***************************************************************************)
(* The petition system implements the job queue's specification: it        *)
(* schedules, claims and settles deadline jobs only as the queue allows.   *)
(***************************************************************************)
THEOREM UsesTheQueue == Spec => QueueSpec
<1>1. Init => QueueInit /\ Control
  BY InitControl DEF Init
<1>2. Control /\ [Next]_vars => Control' /\ [QueueNext]_queueVars
  BY ControlKept, StepsOnQueue
<1> QED
  BY <1>1, <1>2, PTL DEF Spec, QueueSpec

(***************************************************************************)
(* A worker that is inside process_timeout is in its handler, and works on *)
(* the petition whose job it has claimed.                                  *)
(***************************************************************************)
InHandler == \A w \in Workers : Busy(w) => wpc[w] = "handler" /\ current[w] = pet[w]

PetitionInv == QueueInv /\ Control /\ InHandler

LEMMA InHandlerKept == PetitionInv /\ [Next]_vars => InHandler'
<1> SUFFICES ASSUME PetitionInv, [Next]_vars PROVE InHandler'
  OBVIOUS
<1> USE DEF PetitionInv, Busy
<1>0. ActorsTyped /\ Workers \subseteq Actors
  BY DEF Control, Actors
<1>1. CASE UNCHANGED vars
  BY <1>1 DEF vars, petitionVars, actorVars, queueVars, InHandler
<1>2. CASE QueueStep
  <2>1. UNCHANGED <<pc, pet>>
    BY <1>2 DEF QueueStep, petitionVars, actorVars
  <2>2. \A w \in Workers : wpc[w] = "handler" /\ current[w] \in Petitions
                           => wpc'[w] = "handler" /\ current'[w] = current[w]
    BY <1>2 DEF QueueStep, DeadlinePasses, RegisterHandler, ScheduleJob, CancelJob, StartWorker,
       Poll, MarkCompleted, MarkFailed, SkipClaimed, NextJob, Claim, HandlerReturns, HandlerRaises,
       ToggleHalt, QueueInv, QueueTypeOK
  <2>3. \A w \in Workers : pet[w] \in Petitions
    BY <1>0 DEF ActorsTyped
  <2> QED
    BY <2>1, <2>2, <2>3 DEF InHandler
<1>3. ASSUME NEW p \in Petitions, Submit(p) \/ Review(p) PROVE InHandler'
  BY <1>3 DEF Submit, Review, actorVars, queueVars, InHandler
<1>4. ASSUME NEW r \in Requests, NEW p \in Petitions, NewRequest(r, p) PROVE InHandler'
  <2>1. \A w \in Workers : pc'[w] = pc[w] /\ pet'[w] = pet[w]
    BY <1>0, <1>4, PetitionAssumption DEF NewRequest, Withdraw, AssignArchons, Acknowledge, Refer,
       CoSign, KnightReads, Begin, Goto, ActorsTyped
  <2>2. UNCHANGED queueVars
    BY <1>4 DEF NewRequest, Withdraw, AssignArchons, Acknowledge, Refer, CoSign, KnightReads, Begin
  <2> QED
    BY <2>1, <2>2 DEF InHandler, queueVars
<1>5. ASSUME NEW r \in Requests, RequestStep(r) \/ RequestFails(r) PROVE InHandler'
  <2>1. \A w \in Workers : pc'[w] = pc[w] /\ pet'[w] = pet[w]
    BY <1>0, <1>5, PetitionAssumption DEF RequestStep, RequestFails, WithdrawSwap, WithdrawEmit,
       WithdrawRollback, CoSignCreate, EscalateRead, EscalateSwap, StartSession, ReferSave,
       ReferState, ReferJob, ReferEvent, KnightWrites, Recommended, Goto, ActorsTyped
  <2>2. UNCHANGED <<wpc, current>>
    BY <1>5 DEF RequestStep, RequestFails, WithdrawSwap, WithdrawEmit, WithdrawRollback,
       CoSignCreate, EscalateRead, EscalateSwap, StartSession, ReferSave, ReferState, ReferJob,
       ScheduleJob, ReferEvent, KnightWrites, Recommended, queueVars
  <2> QED
    BY <2>1, <2>2 DEF InHandler
<1>6. ASSUME NEW a \in Actors, AckStep(a) PROVE InHandler'
  <2>1. pet' = pet /\ \A w \in Workers \ {a} : pc'[w] = pc[w]
    BY <1>0, <1>6 DEF AckStep, AckFind, AckSave, AckWrite, AckEvent, Returns, Raises, Goto,
       ActorsTyped
  <2>2. \A w \in Workers \ {a} : wpc'[w] = wpc[w] /\ current'[w] = current[w]
    BY <1>6 DEF AckStep, AckFind, AckSave, AckWrite, AckEvent, Returns, Raises, HandlerReturns,
       HandlerRaises, queueVars, QueueInv, QueueTypeOK
  <2>3. pc'[a] = "done" \/ (Busy(a) /\ UNCHANGED <<wpc, current>>)
    BY <1>0, <1>6 DEF AckStep, AckFind, AckSave, AckWrite, AckEvent, Returns, Raises, Goto,
       ActorsTyped, queueVars
  <2> QED
    BY <2>1, <2>2, <2>3 DEF InHandler
<1>7. ASSUME NEW w \in Workers, NEW p \in Petitions, TimeoutClaim(w, p) PROVE InHandler'
  BY <1>0, <1>7 DEF TimeoutClaim, Claim, Goto, InHandler, ActorsTyped, QueueInv, QueueTypeOK
<1>8. ASSUME NEW w \in Workers,
             TimeoutStep(w) \/ TimeoutFails(w) \/ WorkerStops(w) \/ CompletionFails(w)
      PROVE  InHandler'
  <2>1. pet' = pet /\ \A v \in Workers \ {w} : pc'[v] = pc[v]
    BY <1>0, <1>8 DEF TimeoutStep, TimeoutFails, WorkerStops, CompletionFails, TimeoutRead,
       TimeoutSave, TimeoutEvent, Returns, Raises, Goto, ActorsTyped, actorVars
  <2>2. \A v \in Workers \ {w} : wpc'[v] = wpc[v] /\ current'[v] = current[v]
    BY <1>8 DEF TimeoutStep, TimeoutFails, WorkerStops, CompletionFails, TimeoutRead,
       TimeoutSave, TimeoutEvent, Returns, Raises, HandlerReturns, HandlerRaises, StopWorker,
       MarkCompletedRaises, queueVars, QueueInv, QueueTypeOK
  <2>3. CASE CompletionFails(w)
    BY <2>1, <2>2, <2>3 DEF CompletionFails, MarkCompletedRaises, actorVars, InHandler
  <2>4. CASE TimeoutStep(w)
    <3>1. pc'[w] = "done" \/ (Busy(w) /\ UNCHANGED <<wpc, current>>)
      BY <1>0, <2>4 DEF TimeoutStep, TimeoutRead, TimeoutSave, TimeoutEvent, Returns, Raises, Goto,
         ActorsTyped, queueVars
    <3> QED
      BY <2>1, <2>2, <3>1 DEF InHandler
  <2>5. CASE TimeoutFails(w) \/ WorkerStops(w)
    <3>1. pc'[w] = "done"
      BY <1>0, <2>5 DEF TimeoutFails, WorkerStops, Raises, Goto, ActorsTyped
    <3> QED
      BY <2>1, <2>2, <3>1 DEF InHandler
  <2> QED
    BY <1>8, <2>3, <2>4, <2>5
<1> QED
  BY <1>1, <1>2, <1>3, <1>4, <1>5, <1>6, <1>7, <1>8 DEF Next

LEMMA PetitionInvKept == PetitionInv /\ [Next]_vars => PetitionInv'
  BY ControlKept, StepsOnQueue, QueueNextInv, InHandlerKept DEF PetitionInv

(***************************************************************************)
(* What the queue promises and the control invariants hold together.       *)
(***************************************************************************)
THEOREM PetitionInvariant == Spec => []PetitionInv
<1>1. Init => PetitionInv
  BY InitControl, QueueInitInv DEF Init, PetitionInv, InHandler, Busy
<1>2. PetitionInv /\ [Next]_vars => PetitionInv'
  BY PetitionInvKept
<1> QED
  BY <1>1, <1>2, PTL DEF Spec

(***************************************************************************)
(* The petition system keeps its types: in particular an extension is      *)
(* granted at most MaxExtensions times and attempts are bounded.           *)
(***************************************************************************)
THEOREM PetitionsTyped == Spec => []TypeOK
<1>1. PetitionInv => TypeOK
  BY TypeOKSplits DEF PetitionInv, QueueInv, Control
<1> QED
  BY <1>1, PetitionInvariant, PTL

(***************************************************************************)
(* Whatever requests and workers do: a job is executed by one worker at a  *)
(* time, ...                                                               *)
(***************************************************************************)
THEOREM ExecutedAlone == Spec => []OneExecution
<1>1. QueueInv => OneExecution
  BY QueueInvImplies
<1> QED
  BY <1>1, UsesTheQueue, QueueInvariant, PTL

(***************************************************************************)
(* ... its handler is entered at most once per attempt, ...                *)
(***************************************************************************)
THEOREM EnteredOncePerAttempt == Spec => []RunsBounded
<1>1. QueueInv => RunsBounded
  BY QueueInvImplies
<1> QED
  BY <1>1, UsesTheQueue, QueueInvariant, PTL

(***************************************************************************)
(* ... and it is in processing exactly as long as a worker holds it.       *)
(***************************************************************************)
THEOREM HeldByOne == Spec => []HeldByItsWorker
<1>1. QueueInv => HeldByItsWorker
  BY QueueInvImplies
<1> QED
  BY <1>1, UsesTheQueue, QueueInvariant, PTL

-----------------------------------------------------------------------------
(***************************************************************************)
(* Which steps write which variable.                                       *)
(***************************************************************************)
LEMMA Frames ==
  ASSUME [Next]_vars
  PROVE  /\ \/ UNCHANGED <<ref, refStale>>
            \/ \E p \in Petitions : Review(p)
            \/ \E r \in Requests : ReferSave(r) \/ KnightWrites(r)
            \/ \E w \in Workers : TimeoutSave(w)
         /\ \/ UNCHANGED fates
            \/ \E r \in Requests :
                 WithdrawSwap(r) \/ WithdrawRollback(r) \/ EscalateSwap(r) \/ ReferState(r)
            \/ \E a \in Actors : AckWrite(a)
         /\ \/ UNCHANGED <<state, stale>>
            \/ \E p \in Petitions : Submit(p)
            \/ \E r \in Requests :
                 \/ WithdrawSwap(r) \/ WithdrawRollback(r) \/ EscalateSwap(r) \/ ReferState(r)
                 \/ StartSession(r)
            \/ \E a \in Actors : AckWrite(a)
         /\ UNCHANGED ack \/ \E a \in Actors : AckSave(a)
         /\ UNCHANGED signed \/ \E r \in Requests : CoSignCreate(r)
         /\ \/ UNCHANGED outcome
            \/ \E r \in Requests : Recommended(r)
            \/ \E w \in Workers : TimeoutEvent(w)
         /\ \/ UNCHANGED dropped
            \/ \E r \in Requests : EscalateRead(r) \/ EscalateSwap(r) \/ RequestFails(r)
            \/ \E w \in Workers : TimeoutFails(w) \/ WorkerStops(w)
<1>1. CASE UNCHANGED petitionVars
  BY <1>1 DEF petitionVars, storeVars, historyVars
<1>2. CASE \E p \in Petitions : Submit(p) \/ Review(p)
  BY <1>2 DEF Submit, Review, historyVars
<1>3. ASSUME NEW r \in Requests, NEW p \in Petitions, NewRequest(r, p)
      PROVE  UNCHANGED <<ref, refStale, fates, state, stale, ack, signed, outcome, dropped>>
  BY <1>3 DEF NewRequest, Withdraw, AssignArchons, Acknowledge, Refer, CoSign, KnightReads,
     storeVars, historyVars
<1>4. ASSUME NEW r \in Requests, RequestStep(r) \/ RequestFails(r)
      PROVE  /\ UNCHANGED <<ref, refStale>> \/ ReferSave(r) \/ KnightWrites(r)
             /\ \/ UNCHANGED fates \/ WithdrawSwap(r) \/ WithdrawRollback(r) \/ EscalateSwap(r)
                \/ ReferState(r)
             /\ \/ UNCHANGED <<state, stale>> \/ WithdrawSwap(r) \/ WithdrawRollback(r)
                \/ EscalateSwap(r) \/ ReferState(r) \/ StartSession(r)
             /\ UNCHANGED signed \/ CoSignCreate(r)
             /\ UNCHANGED outcome \/ Recommended(r)
             /\ UNCHANGED dropped \/ EscalateRead(r) \/ EscalateSwap(r) \/ RequestFails(r)
             /\ UNCHANGED ack
  BY <1>4 DEF RequestStep, RequestFails, WithdrawSwap, WithdrawEmit, WithdrawRollback,
     CoSignCreate, EscalateRead, EscalateSwap, StartSession, ReferSave, ReferState, ReferJob,
     ReferEvent, KnightWrites, Recommended, storeVars, historyVars
<1>5. ASSUME NEW a \in Actors, AckStep(a)
      PROVE  /\ UNCHANGED <<ref, refStale, signed, outcome, dropped>>
             /\ UNCHANGED <<fates, state, stale>> \/ AckWrite(a)
             /\ UNCHANGED ack \/ AckSave(a)
  BY <1>5 DEF AckStep, AckFind, AckSave, AckWrite, AckEvent, storeVars, historyVars
<1>6. ASSUME NEW w \in Workers,
             \/ \E p \in Petitions : TimeoutClaim(w, p)
             \/ TimeoutStep(w) \/ TimeoutFails(w) \/ WorkerStops(w) \/ CompletionFails(w)
      PROVE  /\ UNCHANGED <<fates, state, stale, ack, signed>>
             /\ UNCHANGED <<ref, refStale>> \/ TimeoutSave(w)
             /\ UNCHANGED outcome \/ TimeoutEvent(w)
             /\ UNCHANGED dropped \/ TimeoutFails(w) \/ WorkerStops(w)
  BY <1>6 DEF TimeoutClaim, TimeoutStep, TimeoutRead, TimeoutSave, TimeoutEvent, TimeoutFails,
     WorkerStops, CompletionFails, storeVars, historyVars
<1> QED
  BY <1>1, <1>2, <1>3, <1>4, <1>5, <1>6 DEF Next, QueueStep, vars
=============================================================================
