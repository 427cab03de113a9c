-------------------------- MODULE TwoPhaseExecution --------------------------
(***************************************************************************)
(* The TwoPhaseExecution context manager, with the operation it wraps left *)
(* abstract: entering emits the intent, the body succeeds or raises, and   *)
(* leaving emits the commit or the failure.  The orphan detector runs      *)
(* beside it, the ledger may refuse an append and the process may restart. *)
(*                                                                         *)
(* This is what a caller of the emitter sees.  TaskService shows that the  *)
(* task services use the emitter in just this way.                         *)
(***************************************************************************)
EXTENDS TwoPhaseEmitter

CONSTANTS
  Faults,    \* may the ledger refuse an append?
  Crashes    \* may the process restart?

ASSUME FaultsAssumption == Faults \in BOOLEAN /\ Crashes \in BOOLEAN

VARIABLE stage   \* where each execution stands

vars == <<stage, emitter>>

(***************************************************************************)
(* "open": the body runs; "commit" and "failing": the emitter has found    *)
(* the intent pending and is appending the outcome; "closed": left, with   *)
(* or without an exception.                                                *)
(***************************************************************************)
Stage == {"new", "open", "commit", "failing", "closed"}

TypeOK ==
  /\ stage \in [Calls -> Stage]
  /\ EmitterTypeOK

Init ==
  /\ stage = [c \in Calls |-> "new"]
  /\ EmitterInit

-----------------------------------------------------------------------------
(***************************************************************************)
(* __aenter__.  When the ledger refuses the intent the body never runs.    *)
(***************************************************************************)
Enter(c) ==
  /\ stage[c] = "new"
  /\ EmitIntent(c)
  /\ stage' = [stage EXCEPT ![c] = "open"]

(***************************************************************************)
(* __aexit__ of a body that returned: emit_commit raises at once when the  *)
(* intent is no longer pending.                                            *)
(***************************************************************************)
Succeed(c) ==
  /\ stage[c] = "open"
  /\ stage' = [stage EXCEPT ![c] = IF c \in pending THEN "commit" ELSE "closed"]
  /\ UNCHANGED emitter

(***************************************************************************)
(* __aexit__ of a body that raised: emit_failure, its errors swallowed.    *)
(***************************************************************************)
Raise(c) ==
  /\ stage[c] = "open"
  /\ stage' = [stage EXCEPT ![c] = IF c \in pending THEN "failing" ELSE "closed"]
  /\ UNCHANGED emitter

AppendCommit(c) ==
  /\ stage[c] = "commit"
  /\ AppendOutcome(c, "commit")
  /\ stage' = [stage EXCEPT ![c] = "closed"]
  /\ UNCHANGED <<intents, aged, orphans, resolving, lost>>

AppendFailure(c) ==
  /\ stage[c] = "failing"
  /\ AppendOutcome(c, "failure")
  /\ stage' = [stage EXCEPT ![c] = "closed"]
  /\ UNCHANGED <<intents, aged, orphans, resolving, lost>>

(***************************************************************************)
(* The ledger refuses the outcome: the intent stays pending.               *)
(***************************************************************************)
AppendFails(c) ==
  /\ Faults
  /\ stage[c] \in {"commit", "failing"}
  /\ stage' = [stage EXCEPT ![c] = "closed"]
  /\ UNCHANGED emitter

Crash ==
  /\ Crashes
  /\ EmitterCrash
  /\ stage' = [c \in Calls |-> IF stage[c] = "new" THEN "new" ELSE "closed"]

Exit(c) ==
  \/ Succeed(c) \/ Raise(c)
  \/ AppendCommit(c) \/ AppendFailure(c) \/ AppendFails(c)

Detector ==
  \/ OrphanScan /\ UNCHANGED stage
  \/ \E c \in Calls :
       \/ OrphanCheck(c) /\ UNCHANGED stage
       \/ OrphanAppend(c) /\ UNCHANGED stage
       \/ Faults /\ OrphanAppendFails(c) /\ UNCHANGED stage

Next ==
  \/ \E c \in Calls : Enter(c) \/ Exit(c)
  \/ \E c \in Calls : Age(c) /\ UNCHANGED stage
  \/ Detector
  \/ Crash

Spec == Init /\ [][Next]_vars

(***************************************************************************)
(* A body comes to an end, asyncio runs every ready task, the clock        *)
(* advances, the detector is run periodically, and a ledger that is asked  *)
(* again and again to take an orphan's failure takes it some time.         *)
(***************************************************************************)
Fairness ==
  /\ \A c \in Calls : WF_vars(Exit(c))
  /\ \A c \in Calls : WF_vars(Age(c) /\ UNCHANGED stage)
  /\ WF_vars(OrphanScan /\ UNCHANGED stage)
  /\ \A c \in Calls : WF_vars(OrphanCheck(c) /\ UNCHANGED stage)
  /\ \A c \in Calls : WF_vars((OrphanAppend(c) \/ OrphanAppendFails(c)) /\ UNCHANGED stage)
  /\ \A c \in Calls : SF_vars(OrphanAppend(c) /\ UNCHANGED stage)

FairSpec == Spec /\ Fairness

-----------------------------------------------------------------------------
(***************************************************************************)
(* An intent that the emitter still tracks has no outcome in the ledger:   *)
(* emit_commit, emit_failure and the detector never leave a resolved       *)
(* intent behind to be resolved once more by a later scan.                 *)
(***************************************************************************)
PendingIsUnresolved == \A c \in pending : outcome[c] = {}

(***************************************************************************)
(* An intent without outcome is still tracked, so that a scan can find it, *)
(* unless a restart made the emitter forget it: _pending_intents is never  *)
(* rebuilt from the ledger.  Refused appends and the overlap of the        *)
(* detector with an execution lose none.                                   *)
(***************************************************************************)
UnresolvedIsTracked ==
  \A c \in intents : outcome[c] = {} => c \in pending \cup lost

(***************************************************************************)
(* An execution never leaves both verdicts of its own body in the ledger,  *)
(* and only an intent older than orphan_timeout is ever written off as an  *)
(* orphan, whatever the overlap of the detector with the execution.        *)
(***************************************************************************)
VerdictsAgree ==
  \A c \in Calls :
    /\ ~ {"commit", "failure"} \subseteq outcome[c]
    /\ "orphan" \in outcome[c] => c \in aged

(***************************************************************************)
(* Every intent gets an outcome, by its own execution or by a later scan   *)
(* of the detector, unless a restart made the emitter forget it.           *)
(***************************************************************************)
TrackedIsResolved ==
  \A c \in Calls : c \in intents ~> (outcome[c] # {} \/ c \in lost)

(***************************************************************************)
(* "No intent remains unresolved indefinitely", the guarantee of the       *)
(* detector as its documentation states it.                                *)
(***************************************************************************)
EveryIntentResolved == \A c \in Calls : c \in intents ~> outcome[c] # {}

(***************************************************************************)
(* "commit_confirmed OR failure_recorded": an intent has at most one       *)
(* outcome.                                                                *)
(***************************************************************************)
OneOutcome == \A c \in Calls : \A j, k \in outcome[c] : j = k
=============================================================================
