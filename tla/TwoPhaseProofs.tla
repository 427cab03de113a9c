---------------------------- MODULE TwoPhaseProofs ----------------------------
(***************************************************************************)
(* Safety of two-phase execution for any number of executions, with or     *)
(* without refused appends and restarts.                                   *)
(***************************************************************************)
EXTENDS TwoPhaseExecution, TLAPS

(***************************************************************************)
(* The strengthening.  What the emitter and the detector hold are intents  *)
(* of the ledger; the detector only ever holds aged ones; and an execution *)
(* that has its own verdict in the ledger is over.                         *)
(***************************************************************************)
IntentsAreEntered ==
  /\ \A c \in Calls : c \in intents <=> stage[c] # "new"
  /\ pending \subseteq intents
  /\ \A c \in Calls : outcome[c] # {} => c \in intents

DetectorHoldsAged ==
  /\ orphans \subseteq aged /\ resolving \subseteq aged
  /\ aged \subseteq intents

VerdictEndsExecution ==
  \A c \in Calls :
    "commit" \in outcome[c] \/ "failure" \in outcome[c] => stage[c] = "closed"

Inv ==
  /\ TypeOK
  /\ IntentsAreEntered
  /\ DetectorHoldsAged
  /\ VerdictEndsExecution
  /\ PendingIsUnresolved
  /\ UnresolvedIsTracked
  /\ VerdictsAgree

(***************************************************************************)
(* Type correctness: the emitter, its dictionary and the detector of       *)
(* TwoPhaseExecution always hold calls and outcomes.                       *)
(***************************************************************************)
THEOREM TypeCorrect == Spec => []TypeOK
<1>1. Init => TypeOK
  BY DEF Init, TypeOK, EmitterInit, EmitterTypeOK, Stage
<1>2. TypeOK /\ [Next]_vars => TypeOK'
  <2> SUFFICES ASSUME TypeOK, [Next]_vars PROVE TypeOK'
    OBVIOUS
  <2> USE AgingAssumption DEF TypeOK, EmitterTypeOK, Stage, Outcome
  <2>1. ASSUME NEW c \in Calls, Enter(c) PROVE TypeOK'
    BY <2>1 DEF Enter, EmitIntent
  <2>2. ASSUME NEW c \in Calls, Exit(c) PROVE TypeOK'
    BY <2>2 DEF Exit, Succeed, Raise, AppendCommit, AppendFailure, AppendFails,
                AppendOutcome, emitter
  <2>3. ASSUME NEW c \in Calls, Age(c) /\ UNCHANGED stage PROVE TypeOK'
    BY <2>3 DEF Age
  <2>4. CASE Detector
    BY <2>4 DEF Detector, OrphanScan, OrphanCheck, OrphanAppend,
                OrphanAppendFails, AppendOutcome
  <2>5. CASE Crash
    BY <2>5 DEF Crash, EmitterCrash
  <2>6. CASE UNCHANGED vars
    BY <2>6 DEF vars, emitter
  <2> QED
    BY <2>1, <2>2, <2>3, <2>4, <2>5, <2>6 DEF Next
<1> QED
  BY <1>1, <1>2, PTL DEF Spec

-----------------------------------------------------------------------------
LEMMA InitInv == Init => Inv
  BY DEF Init, Inv, TypeOK, EmitterInit, EmitterTypeOK, Stage,
         IntentsAreEntered, DetectorHoldsAged, VerdictEndsExecution,
         PendingIsUnresolved, UnresolvedIsTracked, VerdictsAgree

(***************************************************************************)
(* What appending an outcome does to one intent, whoever appends it.       *)
(***************************************************************************)
LEMMA AppendedOnce ==
  ASSUME NEW c \in Calls, NEW kind, TypeOK, AppendOutcome(c, kind)
  PROVE  /\ outcome'[c] = outcome[c] \cup {kind}
         /\ \A d \in Calls \ {c} : outcome'[d] = outcome[d]
         /\ pending' = pending \ {c}
  BY DEF AppendOutcome, TypeOK, EmitterTypeOK

LEMMA EnterInv ==
  ASSUME Inv, TypeOK', NEW c \in Calls, Enter(c)
  PROVE  Inv'
  BY DEF Inv, Enter, EmitIntent, TypeOK, EmitterTypeOK, IntentsAreEntered,
         DetectorHoldsAged, VerdictEndsExecution, PendingIsUnresolved,
         UnresolvedIsTracked, VerdictsAgree

(***************************************************************************)
(* Leaving: the verdict is the first one, because an execution that has    *)
(* one is closed.                                                          *)
(***************************************************************************)
LEMMA VerdictInv ==
  ASSUME Inv, TypeOK', NEW c \in Calls, AppendCommit(c) \/ AppendFailure(c)
  PROVE  Inv'
<1> DEFINE kind == IF AppendCommit(c) THEN "commit" ELSE "failure"
<1>1. /\ AppendOutcome(c, kind)
      /\ stage[c] \in {"commit", "failing"}
      /\ stage' = [stage EXCEPT ![c] = "closed"]
      /\ UNCHANGED <<intents, aged, orphans, resolving, lost>>
  BY DEF AppendCommit, AppendFailure
<1>2. /\ outcome'[c] = outcome[c] \cup {kind}
      /\ \A d \in Calls \ {c} : outcome'[d] = outcome[d]
      /\ pending' = pending \ {c}
  BY <1>1, AppendedOnce DEF Inv
<1>3. /\ stage'[c] = "closed"
      /\ \A d \in Calls \ {c} : stage'[d] = stage[d]
  BY <1>1 DEF Inv, TypeOK
<1>4. "commit" \notin outcome[c] /\ "failure" \notin outcome[c]
  BY <1>1 DEF Inv, VerdictEndsExecution
<1>5. kind \in {"commit", "failure"}
  OBVIOUS
<1> HIDE DEF kind
<1>6. IntentsAreEntered' /\ DetectorHoldsAged' /\ VerdictEndsExecution'
  BY <1>1, <1>2, <1>3 DEF Inv, IntentsAreEntered, DetectorHoldsAged,
                          VerdictEndsExecution
<1>7. PendingIsUnresolved' /\ UnresolvedIsTracked'
  BY <1>1, <1>2 DEF Inv, TypeOK, EmitterTypeOK, PendingIsUnresolved,
                    UnresolvedIsTracked
<1>8. VerdictsAgree'
  BY <1>1, <1>2, <1>4, <1>5 DEF Inv, VerdictsAgree
<1> QED
  BY <1>6, <1>7, <1>8 DEF Inv

LEMMA LeaveInv ==
  ASSUME Inv, TypeOK', NEW c \in Calls, Succeed(c) \/ Raise(c) \/ AppendFails(c)
  PROVE  Inv'
  BY DEF Inv, Succeed, Raise, AppendFails, TypeOK, EmitterTypeOK, emitter,
         IntentsAreEntered, DetectorHoldsAged, VerdictEndsExecution,
         PendingIsUnresolved, UnresolvedIsTracked, VerdictsAgree

(***************************************************************************)
(* The detector: what it resolves was pending, and so an intent, and aged. *)
(***************************************************************************)
LEMMA OrphanInv ==
  ASSUME Inv, TypeOK', NEW c \in Calls, OrphanAppend(c), UNCHANGED stage
  PROVE  Inv'
<1>1. /\ outcome'[c] = outcome[c] \cup {"orphan"}
      /\ \A d \in Calls \ {c} : outcome'[d] = outcome[d]
      /\ pending' = pending \ {c}
  BY AppendedOnce DEF Inv, OrphanAppend
<1>2. c \in aged /\ c \in intents
  BY DEF Inv, OrphanAppend, DetectorHoldsAged
<1>3. /\ UNCHANGED <<intents, aged, orphans, lost>>
      /\ resolving' = {}
  BY DEF OrphanAppend
<1>4. IntentsAreEntered' /\ DetectorHoldsAged' /\ VerdictEndsExecution'
  BY <1>1, <1>2, <1>3 DEF Inv, IntentsAreEntered, DetectorHoldsAged,
                          VerdictEndsExecution
<1>5. PendingIsUnresolved' /\ UnresolvedIsTracked'
  BY <1>1, <1>3 DEF Inv, TypeOK, EmitterTypeOK, PendingIsUnresolved,
                    UnresolvedIsTracked
<1>6. VerdictsAgree'
  BY <1>1, <1>2, <1>3 DEF Inv, VerdictsAgree
<1> QED
  BY <1>4, <1>5, <1>6 DEF Inv

LEMMA WatchInv ==
  ASSUME Inv, TypeOK', UNCHANGED stage,
         \/ OrphanScan
         \/ \E c \in Calls : Age(c) \/ OrphanCheck(c) \/ OrphanAppendFails(c)
  PROVE  Inv'
  BY DEF Inv, OrphanScan, Age, OrphanCheck, OrphanAppendFails, TypeOK,
         EmitterTypeOK, IntentsAreEntered, DetectorHoldsAged,
         VerdictEndsExecution, PendingIsUnresolved, UnresolvedIsTracked,
         VerdictsAgree

(***************************************************************************)
(* A restart moves the whole dictionary to lost.                           *)
(***************************************************************************)
LEMMA CrashInv ==
  ASSUME Inv, TypeOK', Crash
  PROVE  Inv'
  BY DEF Inv, Crash, EmitterCrash, TypeOK, EmitterTypeOK, IntentsAreEntered,
         DetectorHoldsAged, VerdictEndsExecution, PendingIsUnresolved,
         UnresolvedIsTracked, VerdictsAgree

(***************************************************************************)
(* The strengthening is an invariant.                                      *)
(***************************************************************************)
THEOREM InvHolds == Spec => []Inv
<1>1. Inv /\ TypeOK' /\ [Next]_vars => Inv'
  <2> SUFFICES ASSUME Inv, TypeOK', [Next]_vars PROVE Inv'
    OBVIOUS
  <2>1. ASSUME NEW c \in Calls, Enter(c) PROVE Inv'
    BY <2>1, EnterInv
  <2>2. ASSUME NEW c \in Calls, Exit(c) PROVE Inv'
    BY <2>2, VerdictInv, LeaveInv DEF Exit
  <2>3. ASSUME NEW c \in Calls, Age(c) /\ UNCHANGED stage PROVE Inv'
    BY <2>3, WatchInv
  <2>4. CASE Detector
    BY <2>4, OrphanInv, WatchInv DEF Detector
  <2>5. CASE Crash
    BY <2>5, CrashInv
  <2>6. CASE UNCHANGED vars
    BY <2>6 DEF vars, emitter, Inv, TypeOK, EmitterTypeOK, IntentsAreEntered,
                DetectorHoldsAged, VerdictEndsExecution, PendingIsUnresolved,
                UnresolvedIsTracked, VerdictsAgree
  <2> QED
    BY <2>1, <2>2, <2>3, <2>4, <2>5, <2>6 DEF Next
<1> QED
  BY <1>1, InitInv, TypeCorrect, PTL DEF Spec

(***************************************************************************)
(* No intent is resolved and still tracked, so that no later scan resolves *)
(* it again.                                                               *)
(***************************************************************************)
THEOREM NeverResolvedTwiceByScans == Spec => []PendingIsUnresolved
  BY InvHolds, PTL DEF Inv

(***************************************************************************)
(* No intent without outcome escapes the detector but by a restart.        *)
(***************************************************************************)
THEOREM NoneEscapes == Spec => []UnresolvedIsTracked
  BY InvHolds, PTL DEF Inv

(***************************************************************************)
(* One verdict of the body at most, and orphan only after the timeout.     *)
(***************************************************************************)
THEOREM Verdicts == Spec => []VerdictsAgree
  BY InvHolds, PTL DEF Inv

(***************************************************************************)
(* "commit_confirmed OR failure_recorded" holds of every intent younger    *)
(* than orphan_timeout: only the overlap of an execution with the detector *)
(* leaves two outcomes, a verdict and an orphan's failure.                 *)
(***************************************************************************)
THEOREM OneOutcomeUnlessAged ==
  Spec => [](\A c \in Calls \ aged : \A j, k \in outcome[c] : j = k)
<1>1. Inv => \A c \in Calls \ aged : \A j, k \in outcome[c] : j = k
  BY DEF Inv, TypeOK, EmitterTypeOK, Outcome, VerdictsAgree
<1> QED
  BY <1>1, InvHolds, PTL

(***************************************************************************)
(* Where no execution outlives orphan_timeout the guarantee holds as the   *)
(* documentation of the emitter states it.  (The run in which one does     *)
(* refutes it.)                                                            *)
(***************************************************************************)
THEOREM OneOutcomeWithoutAging ==
  ASSUME Aging = {}
  PROVE  Spec => []OneOutcome
<1>1. Inv => OneOutcome
  BY DEF Inv, TypeOK, EmitterTypeOK, Outcome, VerdictsAgree, OneOutcome
<1> QED
  BY <1>1, InvHolds, PTL
=============================================================================
