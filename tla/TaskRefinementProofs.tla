------------------------ MODULE TaskRefinementProofs -------------------------
(***************************************************************************)
(* The two abstract specifications the task services implement: they use   *)
(* the emitter as TwoPhaseExecution does, always, and they move a task     *)
(* along the state machine of TaskFsm, as long as what an operation has    *)
(* read holds when it saves.  The same conditions make the system halt     *)
(* account for every task and the timeouts due.                            *)
(***************************************************************************)
EXTENDS TaskServiceProofs

(***************************************************************************)
(* The strengthening: a call has an intent exactly when its operation is   *)
(* two-phase and it has got beyond __aenter__.                             *)
(***************************************************************************)
NoIntentOps == PlainOps \cup BatchOps

IntentFits(c) ==
  /\ op[c] \notin ScanOps
  /\ pc[c] \in {"idle", "intent"} \/ op[c] \in NoIntentOps => c \notin intents
  /\ pc[c] \in {"read", "write", "event", "filter", "send"} /\ op[c] \notin NoIntentOps
       => c \in intents
  /\ pc[c] \in {"commit", "failing"} \/ c \in pending => c \in intents

IntentsFit == \A c \in Calls : IntentFits(c)

LEMMA StartIntents ==
  ASSUME Control, IntentsFit, NEW c \in Calls, Start(c)
  PROVE  IntentsFit'
<1> c \in Actor
  BY DEF Actor
<1>1. \A d \in Calls \ {c} : /\ pc'[d] = pc[d] /\ op'[d] = op[d]
                             /\ d \in intents' <=> d \in intents
                             /\ d \in pending' <=> d \in pending
  BY DEF Start, Begin, BeginPlain, Create, BeginBatch, EmitIntent, Goto, emitter,
         Control, TypeOK, Actor
<1>2. c \notin intents /\ c \notin pending
  BY DEF Start, Begin, BeginPlain, Create, BeginBatch, IntentsFit, IntentFits
<1>3. IntentFits(c)'
  BY <1>2 DEF Start, Begin, BeginPlain, Create, BeginBatch, EmitIntent, Goto, emitter,
     Control, TypeOK, IntentFits, NoIntentOps, ClusterOps, SettleOps, PlainOps, BatchOps, ScanOps
<1> QED
  BY <1>1, <1>3 DEF IntentsFit, IntentFits

LEMMA CallIntents ==
  ASSUME Control, IntentsFit, NEW c \in Calls, Call(c)
  PROVE  IntentsFit'
<1> c \in Actor
  BY DEF Actor
<1>1. \A d \in Calls \ {c} : /\ pc'[d] = pc[d] /\ op'[d] = op[d]
                             /\ d \in intents' <=> d \in intents
                             /\ d \in pending' => d \in pending
  BY DEF Call, Read, Refuse, Write, WritePlain, Event, BodyRaises, Commit, Failure,
         OutcomeRefused, ActivationIntent, ActivationIntentFails, Activate, FilterRejects,
         Route, Send, EndBatch, Leave, Forget, EmitIntent, AppendOutcome, Goto, emitter,
         Control, TypeOK, Actor
<1>2. IntentFits(c)'
  <2>1. CASE ActivationIntent(c)
    BY <2>1 DEF ActivationIntent, EmitIntent, Goto, Control, TypeOK, OpFits, IntentsFit,
                IntentFits, NoIntentOps, PlainOps, BatchOps
  <2>2. CASE Commit(c) \/ Failure(c)
    BY <2>2 DEF Commit, Failure, AppendOutcome, Goto, Control, TypeOK, IntentsFit, IntentFits
  <2>3. CASE \/ Refuse(c) \/ WritePlain(c) \/ Event(c) \/ BodyRaises(c) \/ OutcomeRefused(c)
             \/ ActivationIntentFails(c) \/ FilterRejects(c) \/ Send(c) \/ EndBatch(c)
    <3>1. /\ op' = op /\ UNCHANGED emitter
          /\ pc'[c] \in {"done", "commit", "failing"}
          /\ pc'[c] # "done" => c \in pending
      BY <2>3 DEF Refuse, WritePlain, Event, BodyRaises, OutcomeRefused,
                  ActivationIntentFails, FilterRejects, Send, EndBatch, Leave, Forget, Goto,
                  Control, TypeOK
    <3> QED
      BY <3>1 DEF IntentsFit, IntentFits, emitter
  <2>4. CASE Read(c) \/ Write(c) \/ Activate(c) \/ Route(c)
    <3>1. /\ op' = op /\ UNCHANGED emitter
          /\ pc[c] \in {"read", "write", "filter"}
          /\ pc'[c] \in {"event", "write", "filter", "send"}
      BY <2>4 DEF Read, Write, Activate, Route, Goto, Control, TypeOK
    <3> QED
      BY <3>1 DEF IntentsFit, IntentFits, emitter
  <2> QED
    BY <2>1, <2>2, <2>3, <2>4 DEF Call
<1> QED
  BY <1>1, <1>2 DEF IntentsFit, IntentFits

LEMMA OtherIntents ==
  ASSUME Control, IntentsFit,
         \/ (\E a \in Actor : Batch(a)) \/ Loop \/ (\E t \in Tasks : Expire(t))
         \/ Detector \/ Crash \/ UNCHANGED vars
  PROVE  IntentsFit'
<1> Calls \subseteq Actor \ {Scheduler}
  BY TaskServiceAssumption DEF Actor
<1>1. ASSUME NEW a \in Actor, Batch(a) PROVE IntentsFit'
  <2>1. /\ op' = op /\ UNCHANGED emitter
        /\ \A b \in Actor \ {a} : pc'[b] = pc[b]
        /\ pc'[a] \in {"event", "batch", "done"}
        /\ op[a] \in ListOps
    BY <1>1 DEF Batch, Expel, ExpelFails, HaltTask, HaltConflict, BatchEvent,
                BatchEventFails, Strike, Forget, Goto, Control, TypeOK, ListOps, BatchOps
  <2> QED
    BY <2>1 DEF IntentsFit, IntentFits, emitter, ListOps, NoIntentOps
<1>2. CASE Loop
  BY <1>2 DEF Loop, Wake, NextScan, Sleep, Scan, Goto, emitter, Control, TypeOK,
              IntentsFit, IntentFits
<1>3. CASE \E t \in Tasks : Expire(t)
  BY <1>3 DEF Expire, control, emitter, IntentsFit, IntentFits
<1>4. CASE Detector
  BY <1>4 DEF Detector, OrphanScan, Age, OrphanCheck, OrphanAppend, OrphanAppendFails,
              AppendOutcome, control, IntentsFit, IntentFits
<1>5. CASE Crash
  BY <1>5 DEF Crash, EmitterCrash, IntentsFit, IntentFits
<1>6. CASE UNCHANGED vars
  BY <1>6 DEF vars, control, emitter, IntentsFit, IntentFits
<1> QED
  BY <1>1, <1>2, <1>3, <1>4, <1>5, <1>6

LEMMA IntentsInvariant == Spec => []IntentsFit
<1>1. Init => IntentsFit
  BY DEF Init, EmitterInit, IntentsFit, IntentFits, Actor, ScanOps
<1>2. Control /\ IntentsFit /\ [Next]_vars => IntentsFit'
  BY StartIntents, CallIntents, OtherIntents DEF Next
<1> QED
  BY <1>1, <1>2, ControlInvariant, PTL DEF Spec

-----------------------------------------------------------------------------
(***************************************************************************)
(* The mapping.  A step of call c moves its stage to p and leaves the      *)
(* others alone.                                                           *)
(***************************************************************************)
Stages == [c \in Calls |-> StageOf(c)]

StageTo(c, p) ==
  /\ StageOf(c)' = p
  /\ \A d \in Calls \ {c} : StageOf(d)' = StageOf(d)

LEMMA StageMoves ==
  ASSUME NEW c \in Calls, NEW p, StageTo(c, p)
  PROVE  Stages' = [Stages EXCEPT ![c] = p]
  BY DEF Stages, StageTo

LEMMA StageStays ==
  ASSUME \A d \in Calls : StageOf(d)' = StageOf(d)
  PROVE  Stages' = Stages
  BY DEF Stages

(***************************************************************************)
(* The steps of a call, seen as steps of its two-phase execution.          *)
(***************************************************************************)
LEMMA EnterMaps ==
  ASSUME Control, IntentsFit, NEW c \in Calls,
         EmitIntent(c), pc[c] \in {"idle", "intent"},
         pc'[c] \in {"read", "write"}, \A d \in Calls \ {c} : pc'[d] = pc[d]
  PROVE  TwoPhase!Next
<1>1. StageOf(c) = "new"
  BY DEF IntentsFit, IntentFits, StageOf
<1>2. StageTo(c, "open")
  BY DEF StageTo, StageOf, EmitIntent
<1>3. Stages' = [Stages EXCEPT ![c] = "open"]
  BY <1>2, StageMoves
<1>4. TwoPhase!Enter(c)
  BY <1>1, <1>3 DEF TwoPhase!Enter, TwoPhase!EmitIntent, EmitIntent, Stages
<1> QED
  BY <1>4 DEF TwoPhase!Next

LEMMA LeaveMaps ==
  ASSUME Control, IntentsFit, NEW c \in Calls, NEW p \in {"commit", "failing"},
         Leave(c, p), pc[c] \in {"read", "write", "event", "filter", "send"},
         op[c] \notin NoIntentOps
  PROVE  TwoPhase!Next
<1>1. StageOf(c) = "open"
  BY DEF IntentsFit, IntentFits, StageOf
<1>2. StageTo(c, IF c \in pending THEN p ELSE "closed")
  BY DEF Leave, Goto, Control, TypeOK, Actor, IntentsFit, IntentFits, StageTo, StageOf, emitter
<1>3. Stages' = [Stages EXCEPT ![c] = IF c \in pending THEN p ELSE "closed"]
  BY <1>2, StageMoves
<1>4. TwoPhase!Succeed(c) \/ TwoPhase!Raise(c)
  BY <1>1, <1>3 DEF Leave, emitter, TwoPhase!Succeed, TwoPhase!Raise, TwoPhase!emitter, Stages
<1> QED
  BY <1>4 DEF TwoPhase!Next, TwoPhase!Exit

LEMMA OutcomeMaps ==
  ASSUME Control, IntentsFit, NEW c \in Calls,
         Commit(c) \/ Failure(c) \/ OutcomeRefused(c)
  PROVE  TwoPhase!Next
<1>1. StageOf(c) = pc[c] /\ pc[c] \in {"commit", "failing"}
  BY DEF Commit, Failure, OutcomeRefused, IntentsFit, IntentFits, StageOf
<1>2. StageTo(c, "closed")
  BY DEF Commit, Failure, OutcomeRefused, Goto, emitter, Control, TypeOK, Actor,
         IntentsFit, IntentFits, StageTo, StageOf
<1>3. Stages' = [Stages EXCEPT ![c] = "closed"]
  BY <1>2, StageMoves
<1>4. TwoPhase!AppendCommit(c) \/ TwoPhase!AppendFailure(c) \/ TwoPhase!AppendFails(c)
  BY <1>1, <1>3 DEF Commit, Failure, OutcomeRefused, AppendOutcome, emitter, Stages,
     TwoPhase!AppendCommit, TwoPhase!AppendFailure, TwoPhase!AppendFails,
     TwoPhase!AppendOutcome, TwoPhase!emitter
<1> QED
  BY <1>4 DEF TwoPhase!Next, TwoPhase!Exit

(***************************************************************************)
(* Every other step of an actor leaves the stages as they are: the body is *)
(* running, or the operation has no intent.                                *)
(***************************************************************************)
LEMMA BodyMaps ==
  ASSUME Control, IntentsFit, NEW a \in Actor, UNCHANGED emitter,
         \A b \in Actor \ {a} : pc'[b] = pc[b],
         a \in Calls =>
           \/ a \notin intents
           \/ /\ pc[a] \in {"read", "write", "filter"}
              /\ pc'[a] \in {"write", "event", "filter", "send"}
  PROVE  UNCHANGED TwoPhase!vars
<1>1. \A d \in Calls : StageOf(d)' = StageOf(d)
  BY DEF StageOf, emitter, Actor
<1>2. Stages' = Stages
  BY <1>1, StageStays
<1> QED
  BY <1>2 DEF TwoPhase!vars, TwoPhase!emitter, emitter, Stages

LEMMA StartMaps ==
  ASSUME Control, IntentsFit, NEW c \in Calls, Start(c)
  PROVE  [TwoPhase!Next]_TwoPhase!vars
<1> c \in Actor
  BY DEF Actor
<1>1. ASSUME NEW o \in Ops, NEW t \in Tasks, Begin(c, o, t) PROVE TwoPhase!Next
  BY <1>1, EnterMaps DEF Begin, Goto, Control, TypeOK, Actor
<1>2. ASSUME NEW o \in Ops, NEW t \in Tasks, BeginPlain(c, o, t)
      PROVE  UNCHANGED TwoPhase!vars
  <2>1. /\ UNCHANGED emitter /\ c \notin intents
        /\ \A b \in Actor \ {c} : pc'[b] = pc[b]
    BY <1>2 DEF BeginPlain, Goto, Control, TypeOK, IntentsFit, IntentFits
  <2> QED
    BY <2>1, BodyMaps
<1>3. ASSUME NEW t \in Tasks, Create(c, t) PROVE UNCHANGED TwoPhase!vars
  <2>1. /\ UNCHANGED emitter /\ c \notin intents
        /\ \A b \in Actor \ {c} : pc'[b] = pc[b]
    BY <1>3 DEF Create, Goto, Control, TypeOK, IntentsFit, IntentFits
  <2> QED
    BY <2>1, BodyMaps
<1>4. ASSUME NEW o \in Ops, NEW mine \in SUBSET Tasks, BeginBatch(c, o, mine) PROVE UNCHANGED TwoPhase!vars
  <2>1. /\ UNCHANGED emitter /\ c \notin intents
        /\ \A b \in Actor \ {c} : pc'[b] = pc[b]
    BY <1>4 DEF BeginBatch, Goto, Control, TypeOK, IntentsFit, IntentFits
  <2> QED
    BY <2>1, BodyMaps
<1> QED
  BY <1>1, <1>2, <1>3, <1>4 DEF Start

LEMMA CallMaps ==
  ASSUME Control, IntentsFit, NEW c \in Calls, Call(c)
  PROVE  [TwoPhase!Next]_TwoPhase!vars
<1> c \in Actor
  BY DEF Actor
<1>1. CASE ActivationIntent(c)
  BY <1>1, EnterMaps DEF ActivationIntent, Goto, Control, TypeOK, Actor
<1>2. CASE Commit(c) \/ Failure(c) \/ OutcomeRefused(c)
  BY <1>2, OutcomeMaps
<1>3. CASE Read(c) \/ Write(c) \/ Activate(c) \/ Route(c)
  <2>1. /\ UNCHANGED emitter
        /\ \A b \in Actor \ {c} : pc'[b] = pc[b]
        /\ pc[c] \in {"read", "write", "filter"}
        /\ pc'[c] \in {"write", "event", "filter", "send"}
    BY <1>3 DEF Read, Write, Activate, Route, Goto, Control, TypeOK
  <2> QED
    BY <2>1, BodyMaps
<1>4. CASE WritePlain(c) \/ ActivationIntentFails(c) \/ EndBatch(c)
  <2>1. /\ UNCHANGED emitter
        /\ \A b \in Actor \ {c} : pc'[b] = pc[b]
        /\ c \notin intents
    BY <1>4 DEF WritePlain, ActivationIntentFails, EndBatch, Goto, Control, TypeOK,
                IntentsFit, IntentFits, NoIntentOps
  <2> QED
    BY <2>1, BodyMaps
<1>5. CASE Event(c) \/ FilterRejects(c) \/ Send(c)
  <2>1. /\ Leave(c, "commit") /\ pc[c] \in {"event", "filter", "send"}
        /\ op[c] \notin NoIntentOps
    BY <1>5 DEF Event, FilterRejects, Send, Control, OpFits, NoIntentOps, PlainOps, BatchOps,
                ClusterOps, SettleOps
  <2> QED
    BY <2>1, LeaveMaps
<1>6. CASE Refuse(c) \/ BodyRaises(c)
  <2>1. CASE op[c] \in PlainOps
    <3>1. /\ UNCHANGED emitter
          /\ \A b \in Actor \ {c} : pc'[b] = pc[b]
          /\ c \notin intents
      BY <1>6, <2>1 DEF Refuse, BodyRaises, Goto, Control, TypeOK, IntentsFit, IntentFits,
                        NoIntentOps
    <3> QED
      BY <3>1, BodyMaps
  <2>2. CASE op[c] \notin PlainOps
    <3>1. /\ Leave(c, "failing")
          /\ pc[c] \in {"read", "write", "event", "filter", "send"}
          /\ op[c] \notin NoIntentOps
      BY <1>6, <2>2 DEF Refuse, BodyRaises, Control, OpFits, NoIntentOps, BodyOps, BatchOps,
                        ClusterOps, SettleOps, PlainOps
    <3> QED
      BY <3>1, LeaveMaps
  <2> QED
    BY <2>1, <2>2
<1> QED
  BY <1>1, <1>2, <1>3, <1>4, <1>5, <1>6 DEF Call

LEMMA BatchMaps ==
  ASSUME Control, IntentsFit, NEW a \in Actor, Batch(a)
  PROVE  UNCHANGED TwoPhase!vars
<1>1. /\ UNCHANGED emitter /\ op[a] \in ListOps
      /\ \A b \in Actor \ {a} : pc'[b] = pc[b]
  BY DEF Batch, Expel, ExpelFails, HaltTask, HaltConflict, BatchEvent, BatchEventFails,
         Strike, Forget, Goto, Control, TypeOK, ListOps, BatchOps
<1>2. a \in Calls => a \notin intents
  BY <1>1 DEF IntentsFit, IntentFits, ListOps, NoIntentOps
<1> QED
  BY <1>1, <1>2, BodyMaps

LEMMA OtherMaps ==
  ASSUME Control, IntentsFit,
         \/ Loop \/ (\E t \in Tasks : Expire(t)) \/ Detector \/ Crash \/ UNCHANGED vars
  PROVE  [TwoPhase!Next]_TwoPhase!vars
<1> Calls \subseteq Actor \ {Scheduler} /\ Scheduler \in Actor
  BY TaskServiceAssumption DEF Actor
<1>1. CASE Loop
  <2>1. UNCHANGED emitter /\ \A b \in Actor \ {Scheduler} : pc'[b] = pc[b]
    BY <1>1 DEF Loop, Wake, NextScan, Sleep, Scan, Goto, Control, TypeOK
  <2> QED
    BY <2>1, BodyMaps
<1>2. CASE (\E t \in Tasks : Expire(t)) \/ UNCHANGED vars
  <2>1. UNCHANGED <<pc, emitter>>
    BY <1>2 DEF Expire, control, vars
  <2>2. \A d \in Calls : StageOf(d)' = StageOf(d)
    BY <2>1 DEF StageOf, emitter
  <2>3. Stages' = Stages
    BY <2>2, StageStays
  <2> QED
    BY <2>1, <2>3 DEF TwoPhase!vars, TwoPhase!emitter, emitter, Stages
<1>3. CASE Detector
  <2>1. UNCHANGED <<pc, intents>>
    BY <1>3 DEF Detector, OrphanScan, Age, OrphanCheck, OrphanAppend, OrphanAppendFails, control
  <2>2. \A d \in Calls : StageOf(d)' = StageOf(d)
    BY <2>1 DEF StageOf
  <2>3. Stages' = Stages
    BY <2>2, StageStays
  <2> QED
    BY <1>3, <2>3 DEF Detector, OrphanScan, Age, OrphanCheck, OrphanAppend,
       OrphanAppendFails, AppendOutcome, Stages, TwoPhase!Next, TwoPhase!Detector,
       TwoPhase!OrphanScan, TwoPhase!Age, TwoPhase!OrphanCheck, TwoPhase!OrphanAppend,
       TwoPhase!OrphanAppendFails, TwoPhase!AppendOutcome
<1>4. CASE Crash
  <2>1. \A d \in Calls : StageOf(d)' = IF StageOf(d) = "new" THEN "new" ELSE "closed"
    BY <1>4 DEF Crash, EmitterCrash, StageOf, IntentsFit, IntentFits
  <2>2. Stages' = [d \in Calls |-> IF Stages[d] = "new" THEN "new" ELSE "closed"]
    BY <2>1 DEF Stages
  <2> QED
    BY <1>4, <2>2 DEF Crash, EmitterCrash, Stages, TwoPhase!Next, TwoPhase!Crash,
       TwoPhase!EmitterCrash
<1> QED
  BY <1>1, <1>2, <1>3, <1>4

(***************************************************************************)
(* Every behaviour of the services is, seen through the mapping, a         *)
(* behaviour of two-phase execution: an intent before anything is done, at *)
(* most one verdict after it, and nothing else between the two.            *)
(***************************************************************************)
THEOREM ServicesImplementTwoPhase == Spec => ImplementsTwoPhase
<1>1. Init => TwoPhase!Init
  BY DEF Init, EmitterInit, TwoPhase!Init, TwoPhase!EmitterInit, StageOf
<1>2. Control /\ IntentsFit /\ [Next]_vars => [TwoPhase!Next]_TwoPhase!vars
  BY StartMaps, CallMaps, BatchMaps, OtherMaps DEF Next
<1> QED
  BY <1>1, <1>2, ControlInvariant, IntentsInvariant, PTL
  DEF Spec, ImplementsTwoPhase, TwoPhase!Spec

(***************************************************************************)
(* The theorems of two-phase execution, under the same mapping.            *)
(***************************************************************************)
Proved == INSTANCE TwoPhaseProofs WITH stage <- [c \in Calls |-> StageOf(c)]

LEMMA SameSpecification == TwoPhase!Spec => Proved!Spec
<1>1. TwoPhase!Init => Proved!Init
  BY DEF TwoPhase!Init, Proved!Init, TwoPhase!EmitterInit, Proved!EmitterInit
<1>2. \A c \in Calls : TwoPhase!Enter(c) \/ TwoPhase!Exit(c) => Proved!Enter(c) \/ Proved!Exit(c)
  BY DEF TwoPhase!Enter, Proved!Enter, TwoPhase!Exit, Proved!Exit,
     TwoPhase!EmitIntent, Proved!EmitIntent, TwoPhase!Succeed, Proved!Succeed,
     TwoPhase!Raise, Proved!Raise, TwoPhase!AppendCommit, Proved!AppendCommit,
     TwoPhase!AppendFailure, Proved!AppendFailure, TwoPhase!AppendFails, Proved!AppendFails,
     TwoPhase!AppendOutcome, Proved!AppendOutcome, TwoPhase!emitter, Proved!emitter
<1>3. TwoPhase!Detector \/ TwoPhase!Crash => Proved!Detector \/ Proved!Crash
  BY DEF TwoPhase!Detector, Proved!Detector, TwoPhase!OrphanScan, Proved!OrphanScan,
     TwoPhase!OrphanCheck, Proved!OrphanCheck, TwoPhase!OrphanAppend, Proved!OrphanAppend,
     TwoPhase!OrphanAppendFails, Proved!OrphanAppendFails, TwoPhase!AppendOutcome,
     Proved!AppendOutcome, TwoPhase!Crash, Proved!Crash, TwoPhase!EmitterCrash,
     Proved!EmitterCrash
<1>4. \A c \in Calls : TwoPhase!Age(c) => Proved!Age(c)
  BY DEF TwoPhase!Age, Proved!Age
<1>5. TwoPhase!Next => Proved!Next
  BY <1>2, <1>3, <1>4 DEF TwoPhase!Next, Proved!Next
<1>6. [TwoPhase!Next]_(TwoPhase!vars) => [Proved!Next]_(Proved!vars)
  BY <1>5 DEF TwoPhase!vars, Proved!vars, TwoPhase!emitter, Proved!emitter
<1> QED
  BY <1>1, <1>6, PTL DEF TwoPhase!Spec, Proved!Spec

(***************************************************************************)
(* The emitter's guarantees hold as the services use it: an intent of a    *)
(* service that is still tracked has no outcome, one without outcome is    *)
(* tracked or was lost in a restart, no service call leaves both a commit  *)
(* and a failure, and two outcomes need an intent past orphan_timeout.     *)
(***************************************************************************)
THEOREM ServicesKeepTheGuarantees ==
  Spec => []( /\ TwoPhase!PendingIsUnresolved
              /\ TwoPhase!UnresolvedIsTracked
              /\ TwoPhase!VerdictsAgree
              /\ \A c \in Calls \ aged : \A j, k \in outcome[c] : j = k )
<1>1. Proved!Spec => []Proved!PendingIsUnresolved
  BY Proved!NeverResolvedTwiceByScans, AgingAssumption, TaskServiceAssumption
<1>2. Proved!Spec => []Proved!UnresolvedIsTracked
  BY Proved!NoneEscapes, AgingAssumption, TaskServiceAssumption
<1>3. Proved!Spec => []Proved!VerdictsAgree
  BY Proved!Verdicts, AgingAssumption, TaskServiceAssumption
<1>4. Proved!Spec => [](\A c \in Calls \ aged : \A j, k \in outcome[c] : j = k)
  BY Proved!OneOutcomeUnlessAged, AgingAssumption, TaskServiceAssumption
<1>5. /\ Proved!PendingIsUnresolved => TwoPhase!PendingIsUnresolved
      /\ Proved!UnresolvedIsTracked => TwoPhase!UnresolvedIsTracked
      /\ Proved!VerdictsAgree => TwoPhase!VerdictsAgree
  BY DEF Proved!PendingIsUnresolved, Proved!UnresolvedIsTracked, Proved!VerdictsAgree,
     TwoPhase!PendingIsUnresolved, TwoPhase!UnresolvedIsTracked, TwoPhase!VerdictsAgree
<1> QED
  BY <1>1, <1>2, <1>3, <1>4, <1>5, SameSpecification, ServicesImplementTwoPhase, PTL
  DEF ImplementsTwoPhase

-----------------------------------------------------------------------------
(***************************************************************************)
(* The state machine.  What an operation saves over a status it goes ahead *)
(* from is a transition of the domain layer.                               *)
(***************************************************************************)
LEMMA BodyTargets ==
  ASSUME NEW o \in BodyOps, NEW s \in Accepts(o)
  PROVE  /\ <<s, Target(o, s)>> \in ValidTransitions \/ Target(o, s) = s
         /\ s \in Active
  BY DEF BodyOps, ClusterOps, SettleOps, PlainOps, Accepts, Target, ValidTransitions,
     BatchOps, ScanOps, HaltTarget, ReleaseTarget, ScanTarget, Active, PreConsent, PostConsent

LEMMA ScanTargets ==
  ASSUME NEW o \in ScanOps
  PROVE  <<ScanStatus(o), Target(o, ScanStatus(o))>> \in ValidTransitions
  BY DEF ScanOps, Target, ScanStatus, ScanTarget, ValidTransitions

LEMMA StopTargets ==
  ASSUME NEW s
  PROVE  Target("release", s) = HaltTarget(s) /\ HaltTarget(s) \notin Active
  BY DEF Target, ReleaseTarget, HaltTarget, ScanOps, Active, PreConsent, PostConsent

(***************************************************************************)
(* What an actor is about to save from still is what the store holds.  The *)
(* system halt is left out: its save is a compare-and-set.                 *)
(***************************************************************************)
Current(a) ==
  /\ pc[a] = "write" /\ op[a] # "activate" => status[task[a]] = snap[a][task[a]]
  /\ pc[a] = "write" /\ op[a] = "activate" => status[task[a]] = "authorized"
  /\ pc[a] = "filter" => status[task[a]] = "activated"
  /\ pc[a] = "batch" /\ op[a] # "system_halt" =>
       \A t \in Tasks : snap[a][t] \in {"none", status[t]}

LEMMA SaveMaps ==
  ASSUME NEW t \in Tasks, NEW s, status' = [status EXCEPT ![t] = s],
         \/ <<status[t], s>> \in ValidTransitions
         \/ status[t] \in Active /\ s = HaltTarget(status[t])
  PROVE  Fsm!Next
<1>1. CASE <<status[t], s>> \in ValidTransitions
  <2>1. s \in Fsm!TaskStatus /\ <<status[t], s>> \in Fsm!ValidTransitions
    BY <1>1 DEF ValidTransitions, Fsm!ValidTransitions, Fsm!TaskStatus, Fsm!PreConsent,
       Fsm!PostConsent, Fsm!Terminal
  <2> QED
    BY <2>1 DEF Fsm!Next, Fsm!Move
<1>2. CASE status[t] \in Active /\ s = HaltTarget(status[t])
  BY <1>2 DEF Fsm!Next, Fsm!Stop, Fsm!HaltTarget, HaltTarget, Active, PreConsent, PostConsent,
     Fsm!PreConsent, Fsm!PostConsent
<1> QED
  BY <1>1, <1>2

(***************************************************************************)
(* Every step is a step of the state machine as long as what is saved from *)
(* is current.                                                             *)
(***************************************************************************)
LEMMA CallFollows ==
  ASSUME Control, NEW c \in Calls, Current(c), Call(c)
  PROVE  [Fsm!Next]_status
<1> c \in Actor
  BY DEF Actor
<1>1. CASE Write(c) \/ WritePlain(c)
  <2>1. /\ task[c] \in Tasks /\ op[c] \in BodyOps /\ op[c] # "activate"
        /\ status' = [status EXCEPT ![task[c]] = Target(op[c], snap[c][task[c]])]
    BY <1>1 DEF Write, WritePlain, SaveTask, Control, TaskHeld, OpFits, BodyOps, PlainOps
  <2>2. snap[c][task[c]] = status[task[c]] /\ snap[c][task[c]] \in Accepts(op[c])
    BY <1>1, <2>1 DEF Write, WritePlain, Current, Control, SnapFits
  <2>3. CASE Target(op[c], snap[c][task[c]]) = status[task[c]]
    BY <2>1, <2>3 DEF Control, TypeOK
  <2> QED
    BY <2>1, <2>2, <2>3, BodyTargets, SaveMaps
<1>2. CASE Activate(c) \/ Route(c)
  <2>1. PICK s : /\ status' = [status EXCEPT ![task[c]] = s]
                 /\ <<status[task[c]], s>> \in ValidTransitions
    BY <1>2 DEF Activate, Route, SaveTask, Current, ValidTransitions
  <2>2. task[c] \in Tasks
    BY <1>2 DEF Activate, Route, Control, TaskHeld
  <2> QED
    BY <2>1, <2>2, SaveMaps
<1>3. CASE ~(Write(c) \/ WritePlain(c) \/ Activate(c) \/ Route(c))
  BY <1>3 DEF Call, Read, Refuse, Event, BodyRaises, Commit, Failure, OutcomeRefused,
     ActivationIntent, ActivationIntentFails, FilterRejects, Send, EndBatch, store
<1> QED
  BY <1>1, <1>2, <1>3

LEMMA BatchFollows ==
  ASSUME Control, NEW a \in Actor, Current(a), Batch(a)
  PROVE  [Fsm!Next]_status
<1>1. ASSUME NEW t \in Tasks, Expel(a, t) PROVE Fsm!Next
  <2>1. /\ snap[a][t] = status[t] /\ op[a] \in ScanOps \cup {"release"} /\ snap[a][t] # "none"
        /\ status' = [status EXCEPT ![t] = Target(op[a], status[t])]
    BY <1>1 DEF Expel, SaveTask, Current, ScanOps
  <2>2. CASE op[a] \in ScanOps
    <3>1. status[t] = ScanStatus(op[a])
      BY <2>1, <2>2 DEF Control, SnapFits
    <3> QED
      BY <2>1, <2>2, <3>1, ScanTargets, SaveMaps
  <2>3. CASE op[a] = "release"
    <3>1. status[t] \in Active /\ Target(op[a], status[t]) = HaltTarget(status[t])
      BY <2>1, <2>3, StopTargets DEF Control, SnapFits, BatchOps
    <3> QED
      BY <2>1, <3>1, SaveMaps
  <2> QED
    BY <2>1, <2>2, <2>3
<1>2. ASSUME NEW t \in Tasks, HaltTask(a, t) PROVE Fsm!Next
  <2>1. /\ status[t] \in Active /\ status' = [status EXCEPT ![t] = HaltTarget(status[t])]
    BY <1>2 DEF HaltTask, SaveTask, Control, SnapFits, BatchOps
  <2> QED
    BY <2>1, SaveMaps
<1>3. CASE \/ \E t \in Tasks : ExpelFails(a, t) \/ HaltConflict(a, t)
           \/ BatchEvent(a) \/ BatchEventFails(a)
  BY <1>3 DEF ExpelFails, HaltConflict, BatchEvent, BatchEventFails, store
<1> QED
  BY <1>1, <1>2, <1>3 DEF Batch

LEMMA StepFollows ==
  ASSUME Control, \A a \in Actor : Current(a), [Next]_vars
  PROVE  [Fsm!Next]_status
<1>1. ASSUME NEW c \in Calls, Start(c) PROVE [Fsm!Next]_status
  BY <1>1 DEF Start, Begin, BeginPlain, Create, BeginBatch, store, Fsm!Next, Fsm!Create
<1>2. ASSUME NEW c \in Calls, Call(c) PROVE [Fsm!Next]_status
  BY <1>2, CallFollows DEF Actor
<1>3. ASSUME NEW a \in Actor, Batch(a) PROVE [Fsm!Next]_status
  BY <1>3, BatchFollows
<1>4. CASE \/ Loop \/ (\E t \in Tasks : Expire(t)) \/ Detector \/ Crash \/ UNCHANGED vars
  BY <1>4 DEF Loop, Wake, NextScan, Sleep, Scan, Expire, Detector, Crash, vars, store
<1> QED
  BY <1>1, <1>2, <1>3, <1>4 DEF Next

LEMMA InitFollows == Init => Fsm!Init
  BY TaskServiceAssumption DEF Init, Fsm!Init, Fsm!Slot, Fsm!TaskStatus, Fsm!PreConsent,
     Fsm!PostConsent, Fsm!Terminal, PreConsent, PostConsent

(***************************************************************************)
(* The halt's list and its record of failures hold every active task.      *)
(***************************************************************************)
Accounted(a) ==
  op[a] = "system_halt" /\ pc[a] \in {"batch", "event"} =>
    \A t \in Tasks : status[t] \in Active => snap[a][t] # "none" \/ <<a, t>> \in failed

LEMMA AccountedIsEnough ==
  ASSUME \A a \in Actor : Accounted(a)
  PROVE  HaltAccountsForAll
  BY DEF Accounted, HaltAccountsForAll, Drained, NothingRead, Actor

(***************************************************************************)
(* What the halt has moved is at rest.                                     *)
(***************************************************************************)
Stopped(a) ==
  op[a] = "system_halt" /\ pc[a] \in {"batch", "event"} =>
    \A t \in Tasks : <<a, t>> \in wrote => status[t] \in Terminal

(***************************************************************************)
(* A call that has not begun has saved nothing.                            *)
(***************************************************************************)
Fresh == \A c \in Calls : pc[c] = "idle" => \A t \in Tasks : <<c, t>> \notin wrote

LEMMA FreshInvariant == Spec => []Fresh
<1>1. Init => Fresh
  BY DEF Init, Fresh
<1>2. ASSUME Control, Fresh, [Next]_vars PROVE Fresh'
  <2>1. ASSUME NEW c \in Calls, Start(c) PROVE Fresh'
    BY <1>2, <2>1 DEF Start, Begin, BeginPlain, Create, BeginBatch, Goto, history, Fresh,
       Control, TypeOK, Actor
  <2>2. ASSUME NEW c \in Calls, Call(c) PROVE Fresh'
    <3>1. /\ pc'[c] # "idle" /\ \A d \in Calls \ {c} : pc'[d] = pc[d]
      BY <1>2, <2>2 DEF Call, Read, Refuse, Write, WritePlain, Event, BodyRaises, Commit,
         Failure, OutcomeRefused, ActivationIntent, ActivationIntentFails, Activate,
         FilterRejects, Route, Send, EndBatch, Leave, Goto, Control, TypeOK, Actor
    <3>2. wrote' \subseteq wrote \cup {<<c, task[c]>>}
      BY <2>2 DEF Call, Read, Refuse, Write, WritePlain, Event, BodyRaises, Commit,
         Failure, OutcomeRefused, ActivationIntent, ActivationIntentFails, Activate,
         FilterRejects, Route, Send, EndBatch, SaveTask, history
    <3> QED
      BY <1>2, <3>1, <3>2 DEF Fresh
  <2>3. ASSUME NEW a \in Actor, Batch(a) PROVE Fresh'
    <3>1. /\ pc'[a] # "idle" /\ \A d \in Actor \ {a} : pc'[d] = pc[d]
          /\ \E t \in Tasks \cup {NoTask} : wrote' \subseteq wrote \cup {<<a, t>>}
      BY <1>2, <2>3 DEF Batch, Expel, ExpelFails, HaltTask, HaltConflict, BatchEvent,
         BatchEventFails, Strike, SaveTask, Goto, history, Control, TypeOK
    <3> QED
      BY <1>2, <3>1 DEF Fresh, Actor
  <2>4. CASE \/ Loop \/ (\E t \in Tasks : Expire(t)) \/ Detector \/ Crash \/ UNCHANGED vars
    <3>1. \A c \in Calls : c \in Actor /\ c # Scheduler
      BY TaskServiceAssumption DEF Actor
    <3>2. wrote' = wrote /\ \A c \in Calls : pc'[c] = "idle" => pc[c] = "idle"
      BY <1>2, <2>4, <3>1 DEF Loop, Wake, NextScan, Sleep, Scan, Goto, Expire, Detector,
         Crash, vars, control, history, Control, TypeOK
    <3> QED
      BY <1>2, <3>2 DEF Fresh
  <2> QED
    BY <1>2, <2>1, <2>2, <2>3, <2>4 DEF Next
<1> QED
  BY <1>1, <1>2, ControlInvariant, PTL DEF Spec

-----------------------------------------------------------------------------
(***************************************************************************)
(* One call at a time.  Without overlap whoever works is alone, so what it *)
(* has read cannot go stale; the scheduler never takes up a call's work.   *)
(***************************************************************************)
InTurnAt(a) ==
  /\ Current(a)
  /\ pc[a] = "intent" => status[task[a]] = "authorized"
  /\ pc[a] \in {"batch", "event"} /\ op[a] \in ListOps =>
       \A t \in Tasks : /\ snap[a][t] \in {"none", status[t]}
                        /\ op[a] \in ScanOps /\ snap[a][t] # "none" => t \in expired
  /\ Accounted(a) /\ Stopped(a)

InTurn ==
  /\ \A a, b \in Actor : ~Quiet(a) /\ ~Quiet(b) => a = b
  /\ \A a \in Actor : InTurnAt(a)
  /\ op[Scheduler] \in ScanOps \cup {"none"}

LEMMA AloneKeeps ==
  ASSUME InTurn, NEW a \in Actor,
         \A b \in Actor \ {a} : Quiet(b) /\ pc'[b] = pc[b],
         InTurnAt(a)', (op[Scheduler] \in ScanOps \cup {"none"})'
  PROVE  InTurn'
<1>1. ASSUME NEW b \in Actor, b # a PROVE Quiet(b)' /\ InTurnAt(b)'
  BY <1>1 DEF Quiet, InTurnAt, Current, Accounted, Stopped
<1>2. ASSUME NEW b \in Actor PROVE InTurnAt(b)'
  BY <1>1
<1>3. \A b, d \in Actor : ~Quiet(b)' /\ ~Quiet(d)' => b = d
  BY <1>1
<1> QED
  BY <1>2, <1>3 DEF InTurn

LEMMA StartInTurn ==
  ASSUME ~Overlap, Control, Fresh, InTurn, NEW c \in Calls, Start(c)
  PROVE  InTurn'
<1> c \in Actor /\ c # Scheduler /\ Scheduler \in Actor
  BY TaskServiceAssumption DEF Actor
<1>1. \A b \in Actor \ {c} : Quiet(b) /\ pc'[b] = pc[b]
  BY DEF Start, Begin, BeginPlain, Create, BeginBatch, Free, Goto, Control, TypeOK
<1>2. op'[Scheduler] \in ScanOps \cup {"none"}
  BY DEF Start, Begin, BeginPlain, Create, BeginBatch, InTurn, Control, TypeOK
<1>3. InTurnAt(c)'
  <2>1. ASSUME NEW o \in Ops, NEW t \in Tasks, Begin(c, o, t) \/ BeginPlain(c, o, t)
        PROVE  InTurnAt(c)'
    <3>1. pc'[c] = "read"
      BY <2>1 DEF Begin, BeginPlain, Goto, Control, TypeOK
    <3> QED
      BY <3>1 DEF InTurnAt, Current, Accounted, Stopped
  <2>2. ASSUME NEW t \in Tasks, Create(c, t) PROVE InTurnAt(c)'
    <3>1. pc'[c] = "intent" /\ task'[c] = t /\ status'[t] = "authorized"
      BY <2>2 DEF Create, Goto, Control, TypeOK
    <3> QED
      BY <3>1 DEF InTurnAt, Current, Accounted, Stopped
  <2>3. ASSUME NEW o \in Ops, NEW mine \in SUBSET Tasks, BeginBatch(c, o, mine)
        PROVE  InTurnAt(c)'
    <3>1. /\ pc[c] = "idle" /\ pc'[c] = "batch" /\ op'[c] = o /\ o \in BatchOps
          /\ o = "system_halt" => mine = Tasks
          /\ \A t \in Tasks : snap'[c][t] =
               IF t \in mine /\ status[t] \in Active THEN status[t] ELSE "none"
          /\ status' = status /\ wrote' = wrote
      BY <2>3 DEF BeginBatch, Goto, store, history, Control, TypeOK
    <3>2. "none" \notin Active
      BY DEF Active, PreConsent, PostConsent
    <3>3. Accounted(c)' /\ Stopped(c)'
      BY <3>1, <3>2 DEF Accounted, Stopped, Fresh
    <3>4. o \notin ScanOps
      BY <3>1 DEF BatchOps, ScanOps
    <3> QED
      BY <3>1, <3>3, <3>4 DEF InTurnAt, Current
  <2> QED
    BY <2>1, <2>2, <2>3 DEF Start
<1> QED
  BY <1>1, <1>2, <1>3, AloneKeeps

LEMMA CallInTurn ==
  ASSUME ~Overlap, Control, InTurn, NEW c \in Calls, Call(c)
  PROVE  InTurn'
<1> c \in Actor /\ c # Scheduler /\ Scheduler \in Actor
  BY TaskServiceAssumption DEF Actor
<1>1. \A b \in Actor \ {c} : pc'[b] = pc[b]
  BY DEF Call, Read, Refuse, Write, WritePlain, Event, BodyRaises, Commit,
     Failure, OutcomeRefused, ActivationIntent, ActivationIntentFails, Activate,
     FilterRejects, Route, Send, EndBatch, Leave, Goto, Control, TypeOK
<1>2. ~Quiet(c) /\ op' = op
  BY DEF Call, Read, Refuse, Write, WritePlain, Event, BodyRaises, Commit,
     Failure, OutcomeRefused, ActivationIntent, ActivationIntentFails, Activate,
     FilterRejects, Route, Send, EndBatch, Leave, Forget, Quiet
<1>3. InTurnAt(c)'
  <2>1. CASE Read(c)
    <3>1. /\ op[c] \in BodyOps /\ task[c] \in Tasks
          /\ pc'[c] \in {"write", "event"} /\ task' = task /\ status' = status
          /\ snap'[c][task[c]] = status[task[c]]
      BY <2>1 DEF Read, Goto, store, Control, TypeOK, TaskHeld, OpFits
    <3> QED
      BY <1>2, <3>1 DEF InTurnAt, Current, Accounted, Stopped, BodyOps, ClusterOps, SettleOps,
         PlainOps, ListOps, BatchOps, ScanOps
  <2>2. CASE Write(c)
    <3>1. op[c] \in BodyOps /\ pc'[c] = "event"
      BY <2>2 DEF Write, Goto, Control, TypeOK, OpFits
    <3> QED
      BY <1>2, <3>1 DEF InTurnAt, Current, Accounted, Stopped, BodyOps, ClusterOps, SettleOps,
         PlainOps, ListOps, BatchOps, ScanOps
  <2>3. CASE ActivationIntent(c)
    <3>1. /\ op[c] = "activate" /\ pc[c] = "intent" /\ pc'[c] = "write"
          /\ task' = task /\ status' = status
      BY <2>3 DEF ActivationIntent, Goto, store, Control, TypeOK, OpFits
    <3>2. status[task[c]] = "authorized"
      BY <3>1 DEF InTurn, InTurnAt
    <3> QED
      BY <1>2, <3>1, <3>2 DEF InTurnAt, Current, Accounted, Stopped
  <2>4. CASE Activate(c)
    <3>1. pc'[c] = "filter" /\ task' = task /\ status'[task[c]] = "activated"
      BY <2>4 DEF Activate, SaveTask, Goto, Control, TypeOK, TaskHeld
    <3> QED
      BY <3>1 DEF InTurnAt, Current, Accounted, Stopped
  <2>5. CASE \/ Refuse(c) \/ WritePlain(c) \/ Event(c) \/ BodyRaises(c) \/ Commit(c)
             \/ Failure(c) \/ OutcomeRefused(c) \/ ActivationIntentFails(c)
             \/ FilterRejects(c) \/ Route(c) \/ Send(c) \/ EndBatch(c)
    <3>1. pc'[c] \in {"done", "commit", "failing", "send"}
      BY <2>5 DEF Refuse, WritePlain, Event, BodyRaises, Commit, Failure, OutcomeRefused,
         ActivationIntentFails, FilterRejects, Route, Send, EndBatch, Leave, Goto,
         Control, TypeOK
    <3> QED
      BY <3>1 DEF InTurnAt, Current, Accounted, Stopped
  <2> QED
    BY <2>1, <2>2, <2>3, <2>4, <2>5 DEF Call
<1>4. \A b \in Actor \ {c} : Quiet(b)
  BY <1>2 DEF InTurn
<1>5. op'[Scheduler] \in ScanOps \cup {"none"}
  BY <1>2 DEF InTurn
<1> QED
  BY <1>1, <1>3, <1>4, <1>5, AloneKeeps

LEMMA BatchInTurn ==
  ASSUME Control, InTurn, NEW a \in Actor, Batch(a)
  PROVE  InTurn'
<1>1. ~Quiet(a) /\ \A b \in Actor \ {a} : pc'[b] = pc[b]
  BY DEF Batch, Expel, ExpelFails, HaltTask, HaltConflict, BatchEvent, BatchEventFails,
     Strike, Goto, Quiet, Control, TypeOK
<1>2. op' = op /\ op[a] \in ListOps
  BY DEF Batch, Expel, ExpelFails, HaltTask, HaltConflict, BatchEvent, BatchEventFails,
     Strike, Forget, ListOps, BatchOps
<1>3. /\ pc[a] \in {"batch", "event"} /\ Accounted(a) /\ Stopped(a)
      /\ \A t \in Tasks : /\ snap[a][t] \in {"none", status[t]}
                          /\ op[a] \in ScanOps /\ snap[a][t] # "none" => t \in expired
  BY <1>2 DEF Batch, Expel, ExpelFails, HaltTask, HaltConflict, BatchEvent, BatchEventFails,
     InTurn, InTurnAt
<1>4. InTurnAt(a)'
  <2>1. ASSUME NEW t \in Tasks, Expel(a, t) PROVE InTurnAt(a)'
    <3>1. /\ pc'[a] = "event" /\ op[a] # "system_halt" /\ snap'[a][t] = "none"
          /\ \A u \in Tasks \ {t} : /\ snap'[a][u] = snap[a][u] /\ status'[u] = status[u]
                                    /\ u \in expired => u \in expired'
      BY <2>1 DEF Expel, Strike, SaveTask, Goto, Control, TypeOK, ScanOps
    <3> QED
      BY <1>2, <1>3, <3>1 DEF InTurnAt, Current, Accounted, Stopped
  <2>2. ASSUME NEW t \in Tasks, HaltTask(a, t) PROVE InTurnAt(a)'
    <3>1. /\ pc'[a] = "event" /\ op[a] = "system_halt" /\ snap'[a][t] = "none"
          /\ \A u \in Tasks \ {t} : snap'[a][u] = snap[a][u] /\ status'[u] = status[u]
          /\ status'[t] = HaltTarget(snap[a][t]) /\ failed' = failed
          /\ wrote' = wrote \cup {<<a, t>>}
      BY <2>2 DEF HaltTask, Strike, SaveTask, Goto, records, Control, TypeOK
    <3>2. status'[t] \notin Active /\ status'[t] \in Terminal
      BY <3>1, StopTargets DEF HaltTarget, Terminal
    <3>3. Accounted(a)' /\ Stopped(a)'
      BY <1>2, <1>3, <3>1, <3>2 DEF Accounted, Stopped
    <3> QED
      BY <1>2, <1>3, <3>1, <3>3 DEF InTurnAt, Current, ScanOps
  <2>3. ASSUME NEW t \in Tasks, HaltConflict(a, t) PROVE InTurnAt(a)'
    <3>1. /\ pc'[a] = "batch" /\ op[a] = "system_halt" /\ snap'[a][t] = "none"
          /\ \A u \in Tasks \ {t} : snap'[a][u] = snap[a][u]
          /\ status' = status /\ failed' = failed \cup {<<a, t>>} /\ wrote' = wrote
      BY <2>3 DEF HaltConflict, Strike, Goto, store, history, Control, TypeOK
    <3>2. Accounted(a)' /\ Stopped(a)'
      BY <1>2, <1>3, <3>1 DEF Accounted, Stopped
    <3> QED
      BY <1>2, <1>3, <3>1, <3>2 DEF InTurnAt, Current, ScanOps
  <2>4. ASSUME NEW t \in Tasks, ExpelFails(a, t) PROVE InTurnAt(a)'
    <3>1. CASE pc'[a] = "done"
      BY <3>1 DEF InTurnAt, Current, Accounted, Stopped
    <3>2. CASE pc'[a] # "done"
      <4>1. /\ pc'[a] = "batch" /\ op[a] # "system_halt" /\ snap'[a][t] = "none"
            /\ \A u \in Tasks \ {t} : snap'[a][u] = snap[a][u]
            /\ status' = status /\ expired' = expired
        BY <2>4, <3>2 DEF ExpelFails, Strike, Goto, store, Control, TypeOK, ScanOps
      <4> QED
        BY <1>2, <1>3, <4>1 DEF InTurnAt, Current, Accounted, Stopped
    <3> QED
      BY <3>1, <3>2
  <2>5. CASE BatchEvent(a) \/ BatchEventFails(a)
    <3>1. CASE pc'[a] = "done"
      BY <3>1 DEF InTurnAt, Current, Accounted, Stopped
    <3>2. CASE pc'[a] # "done"
      <4>1. /\ pc[a] = "event" /\ pc'[a] = "batch" /\ snap'[a] = snap[a]
            /\ status' = status /\ expired' = expired
            /\ failed \subseteq failed' /\ wrote' = wrote
        BY <2>5, <3>2 DEF BatchEvent, BatchEventFails, Forget, Goto, store, history,
           Control, TypeOK
      <4>2. Accounted(a)' /\ Stopped(a)'
        BY <1>2, <1>3, <4>1 DEF Accounted, Stopped
      <4> QED
        BY <1>2, <1>3, <4>1, <4>2 DEF InTurnAt, Current
    <3> QED
      BY <3>1, <3>2
  <2> QED
    BY <2>1, <2>2, <2>3, <2>4, <2>5 DEF Batch
<1>5. (\A b \in Actor \ {a} : Quiet(b)) /\ op'[Scheduler] \in ScanOps \cup {"none"}
  BY <1>1, <1>2 DEF InTurn
<1> QED
  BY <1>1, <1>4, <1>5, AloneKeeps

LEMMA LoopInTurn ==
  ASSUME ~Overlap, Control, InTurn, Loop
  PROVE  InTurn'
<1> Scheduler \in Actor
  BY DEF Actor
<1>1. \A b \in Actor \ {Scheduler} : Quiet(b) /\ pc'[b] = pc[b]
  <2>1. \A b \in Actor \ {Scheduler} : pc'[b] = pc[b]
    BY DEF Loop, Wake, NextScan, Sleep, Scan, Goto, Control, TypeOK
  <2>2. (\A b \in Actor : Quiet(b)) \/ ~Quiet(Scheduler)
    BY DEF Loop, Wake, NextScan, Sleep, Free, Quiet
  <2> QED
    BY <2>1, <2>2 DEF InTurn
<1>2. ASSUME NEW o \in ScanOps, Scan(o)
      PROVE  InTurnAt(Scheduler)' /\ op'[Scheduler] \in ScanOps \cup {"none"}
  <2>1. \A list \in Reached(o) : list \subseteq expired
    BY DEF Reached, Due
  <2>2. /\ pc'[Scheduler] = "batch" /\ op'[Scheduler] = o
        /\ status' = status /\ expired' = expired
        /\ \A t \in Tasks : snap'[Scheduler][t] \in {"none", status[t]}
    BY <1>2 DEF Scan, Goto, store, Control, TypeOK
  <2>3. \A t \in Tasks : snap'[Scheduler][t] # "none" => t \in expired
    BY <1>2, <2>1 DEF Scan, Control, TypeOK
  <2>4. o # "system_halt"
    BY DEF ScanOps
  <2> QED
    BY <2>2, <2>3, <2>4 DEF InTurnAt, Current, Accounted, Stopped
<1>3. CASE Wake \/ NextScan
  BY <1>1, <1>2, <1>3, AloneKeeps DEF Wake, NextScan, ScanOps
<1>4. CASE Sleep
  <2>1. pc'[Scheduler] = "idle" /\ op' = op
    BY <1>4 DEF Sleep, Goto, Control, TypeOK
  <2>2. InTurnAt(Scheduler)'
    BY <2>1 DEF InTurnAt, Current, Accounted, Stopped
  <2>3. op'[Scheduler] \in ScanOps \cup {"none"}
    BY <2>1 DEF InTurn
  <2> QED
    BY <1>1, <2>2, <2>3, AloneKeeps
<1> QED
  BY <1>3, <1>4 DEF Loop

LEMMA OtherInTurn ==
  ASSUME Control, InTurn,
         (\E t \in Tasks : Expire(t)) \/ Detector \/ Crash \/ UNCHANGED vars
  PROVE  InTurn'
<1>1. CASE (\E t \in Tasks : Expire(t)) \/ Detector \/ UNCHANGED vars
  <2>1. /\ UNCHANGED <<pc, op, task, snap, status, wrote, failed>> /\ expired \subseteq expired'
    BY <1>1 DEF Expire, Detector, vars, store, control, history, records
  <2>2. ASSUME NEW a \in Actor PROVE InTurnAt(a)'
    BY <2>1 DEF InTurn, InTurnAt, Current, Accounted, Stopped
  <2>3. \A a, b \in Actor : ~Quiet(a)' /\ ~Quiet(b)' => a = b
    BY <2>1 DEF InTurn, Quiet
  <2> QED
    BY <2>1, <2>2, <2>3 DEF InTurn
<1>2. CASE Crash
  <2>1. op' = op /\ \A a \in Actor : pc'[a] \in {"idle", "done"}
    BY <1>2 DEF Crash
  <2>2. ASSUME NEW a \in Actor PROVE InTurnAt(a)' /\ Quiet(a)'
    BY <2>1 DEF InTurnAt, Current, Accounted, Stopped, Quiet
  <2> QED
    BY <2>1, <2>2 DEF InTurn
<1> QED
  BY <1>1, <1>2

LEMMA InTurnInvariant ==
  ASSUME ~Overlap
  PROVE  Spec => []InTurn
<1>1. Init => InTurn
  BY DEF Init, InTurn, InTurnAt, Current, Accounted, Stopped, Quiet, Actor
<1>2. Control /\ Fresh /\ InTurn /\ [Next]_vars => InTurn'
  BY StartInTurn, CallInTurn, BatchInTurn, LoopInTurn, OtherInTurn DEF Next
<1> QED
  BY <1>1, <1>2, ControlInvariant, FreshInvariant, PTL DEF Spec

(***************************************************************************)
(* One call at a time, and the services move every task along the state    *)
(* machine of the domain layer, through refusals, faults and restarts: no  *)
(* transition that is saved is one VALID_TRANSITIONS forbids.              *)
(***************************************************************************)
THEOREM InTurnImplementsFsm ==
  ASSUME ~Overlap
  PROVE  Spec => ImplementsFsm
<1>1. InTurn => \A a \in Actor : Current(a)
  BY DEF InTurn, InTurnAt
<1>2. Control /\ InTurn /\ [Next]_vars => [Fsm!Next]_status
  BY <1>1, StepFollows
<1> QED
  BY <1>2, InitFollows, ControlInvariant, InTurnInvariant, PTL
  DEF Spec, ImplementsFsm, Fsm!Spec

(***************************************************************************)
(* A move along the state machine leaves terminal states alone.            *)
(***************************************************************************)
LEMMA FsmKeepsTerminal ==
  ASSUME TypeOK, [Fsm!Next]_status
  PROVE  \A t \in Tasks : status[t] \in Terminal => status'[t] = status[t]
<1>1. CASE UNCHANGED status
  BY <1>1
<1>2. ASSUME NEW t \in Tasks, Fsm!Create(t) \/ Fsm!Move(t) \/ Fsm!Stop(t)
      PROVE  status[t] \notin Terminal /\ \A u \in Tasks \ {t} : status'[u] = status[u]
  BY <1>2 DEF Fsm!Create, Fsm!Move, Fsm!Stop, Fsm!PreConsent, Fsm!PostConsent,
     Fsm!ValidTransitions, Terminal, TypeOK
<1> QED
  BY <1>1, <1>2 DEF Fsm!Next

(***************************************************************************)
(* One call at a time, a terminal status never changes, whatever the       *)
(* timeout scheduler does in its turn.  (The run in which the calls        *)
(* overlap refutes the same property: the turn is what it needs.)          *)
(***************************************************************************)
THEOREM InTurnTerminalIsFinal ==
  ASSUME ~Overlap
  PROVE  Spec => TerminalIsFinal
<1>1. InTurn => \A a \in Actor : Current(a)
  BY DEF InTurn, InTurnAt
<1>2. Control /\ InTurn /\ [Next]_vars
        => [\A t \in Tasks : status[t] \in Terminal => status'[t] = status[t]]_vars
  BY <1>1, StepFollows, FsmKeepsTerminal DEF Control
<1> QED
  BY <1>2, ControlInvariant, InTurnInvariant, PTL DEF Spec, TerminalIsFinal

(***************************************************************************)
(* One call at a time, the system halt accounts for every active task when *)
(* it has worked through its list, also when its appends are refused.      *)
(***************************************************************************)
THEOREM InTurnHaltAccounts ==
  ASSUME ~Overlap
  PROVE  Spec => []HaltAccountsForAll
<1>1. InTurn => HaltAccountsForAll
  BY AccountedIsEnough DEF InTurn, InTurnAt
<1> QED
  BY <1>1, InTurnInvariant, PTL

(***************************************************************************)
(* And what it has moved is still where it put it when it ends.            *)
(***************************************************************************)
THEOREM InTurnHaltStops ==
  ASSUME ~Overlap
  PROVE  Spec => HaltStopsEveryTask
<1> DEFINE Ends == \A c \in Calls :
             op[c] = "system_halt" /\ pc[c] = "batch" /\ pc'[c] = "done" =>
               \A t \in Tasks : <<c, t>> \in wrote => status[t] \in Terminal
<1>1. InTurn => [Ends]_vars
  BY DEF InTurn, InTurnAt, Stopped, Actor
<1> QED
  BY <1>1, InTurnInvariant, PTL DEF HaltStopsEveryTask

(***************************************************************************)
(* Only the pass itself takes the scheduler from its list to the event of  *)
(* a task.                                                                 *)
(***************************************************************************)
LEMMA OnlyThePassMoves ==
  ASSUME Control, [Next]_vars, op[Scheduler] \in ScanOps \cup {"none"},
         pc[Scheduler] = "batch", pc'[Scheduler] = "event"
  PROVE  \E t \in Tasks : Expel(Scheduler, t)
<1> Scheduler \in Actor /\ Scheduler \notin Calls
  BY TaskServiceAssumption DEF Actor
<1>1. ASSUME NEW c \in Calls, Start(c) \/ Call(c) PROVE FALSE
  <2>1. pc'[Scheduler] = pc[Scheduler]
    BY <1>1 DEF Start, Begin, BeginPlain, Create, BeginBatch, Call, Read, Refuse, Write,
       WritePlain, Event, BodyRaises, Commit, Failure, OutcomeRefused, ActivationIntent,
       ActivationIntentFails, Activate, FilterRejects, Route, Send, EndBatch, Leave, Goto,
       Control, TypeOK
  <2> QED
    BY <2>1
<1>2. ASSUME NEW a \in Actor, Batch(a) PROVE \E t \in Tasks : Expel(Scheduler, t)
  <2>1. a = Scheduler
    BY <1>2 DEF Batch, Expel, ExpelFails, HaltTask, HaltConflict, BatchEvent,
                BatchEventFails, Strike, Goto, Control, TypeOK
  <2> QED
    BY <1>2, <2>1 DEF Batch, ExpelFails, HaltTask, HaltConflict, BatchEvent,
                      BatchEventFails, Strike, Goto, Control, TypeOK, ScanOps
<1>3. CASE \/ Loop \/ (\E t \in Tasks : Expire(t)) \/ Detector \/ Crash \/ UNCHANGED vars
  BY <1>3 DEF Loop, Wake, NextScan, Sleep, Scan, Goto, Expire, Detector, Crash, control, vars,
     Control, TypeOK
<1> QED
  BY <1>1, <1>2, <1>3 DEF Next

(***************************************************************************)
(* One call at a time, a timeout moves only a task that is in the status   *)
(* of its pass and whose time has run out.                                 *)
(***************************************************************************)
THEOREM InTurnTimeoutsAreDue ==
  ASSUME ~Overlap
  PROVE  Spec => TimeoutsAreDue
<1> DEFINE Due1 == pc[Scheduler] = "batch" /\ pc'[Scheduler] = "event" =>
             \A t \in Tasks : status'[t] # status[t] =>
               t \in expired /\ status[t] = ScanStatus(op[Scheduler])
<1>1. Control /\ InTurn /\ [Next]_vars => [Due1]_vars
  <2> SUFFICES ASSUME Control, InTurn, [Next]_vars,
                      pc[Scheduler] = "batch", pc'[Scheduler] = "event",
                      NEW u \in Tasks, status'[u] # status[u]
               PROVE  u \in expired /\ status[u] = ScanStatus(op[Scheduler])
    OBVIOUS
  <2> Scheduler \in Actor
    BY DEF Actor
  <2>1. op[Scheduler] \in ScanOps
    BY DEF Control, OpFits, InTurn, ListOps, BatchOps, ScanOps
  <2>2. PICK t \in Tasks : Expel(Scheduler, t)
    BY OnlyThePassMoves DEF InTurn
  <2>3. u = t /\ snap[Scheduler][t] # "none"
    BY <2>2 DEF Expel, SaveTask, Control, TypeOK
  <2>4. snap[Scheduler][t] = status[t] /\ t \in expired
    BY <2>1, <2>3 DEF InTurn, InTurnAt, ListOps
  <2>5. snap[Scheduler][t] = ScanStatus(op[Scheduler])
    BY <2>1, <2>3 DEF Control, SnapFits
  <2> QED
    BY <2>3, <2>4, <2>5
<1> QED
  BY <1>1, ControlInvariant, InTurnInvariant, PTL DEF Spec, TimeoutsAreDue

-----------------------------------------------------------------------------
(***************************************************************************)
(* Calls that overlap over the in-memory store.  Its methods never         *)
(* suspend, so from the moment a coroutine has the store in hand until its *)
(* next append nobody else runs.  The scheduler is not started: it would   *)
(* work on with its list after an append.                                  *)
(***************************************************************************)
InMemory == ~RemoteStore /\ ~Scheduled

AtStore(a) == pc[a] \in {"read", "write", "batch"}

AtStoreFits(a) ==
  /\ op[a] \in Ops \cup {"none"}
  /\ pc[a] = "write" /\ op[a] # "activate" => status[task[a]] = snap[a][task[a]]
  /\ Accounted(a) /\ Stopped(a)

OneAtStore ==
  /\ \A a, b \in Actor : AtStore(a) /\ AtStore(b) => a = b
  /\ \A a \in Actor : AtStoreFits(a)
  /\ pc[Scheduler] = "idle"

(***************************************************************************)
(* A step of actor a that the others do not notice: it touches the store   *)
(* only while nobody else is at it, makes no task active that was not, and *)
(* takes none out of a terminal status.                                    *)
(***************************************************************************)
Unnoticed(a) ==
  /\ \A b \in Actor \ {a} :
       /\ pc'[b] = pc[b] /\ op'[b] = op[b] /\ task'[b] = task[b] /\ snap'[b] = snap[b]
       /\ \A t \in Tasks : <<b, t>> \in wrote' => <<b, t>> \in wrote
  /\ status' = status \/ CanRun(a)
  /\ AtStore(a)' => CanRun(a)
  /\ \A t \in Tasks : /\ status'[t] \in Active => status[t] \in Active
                      /\ status[t] \in Terminal => status'[t] \in Terminal
  /\ failed \subseteq failed'

LEMMA UnnoticedKeeps ==
  ASSUME InMemory, Control, OneAtStore, NEW a \in Actor, Unnoticed(a), AtStoreFits(a)',
         pc'[Scheduler] = "idle"
  PROVE  OneAtStore'
<1>1. CanRun(a) => \A b \in Actor \ {a} : ~AtStore(b)
  BY DEF CanRun, AtStore, InMemory
<1>2. ASSUME NEW b \in Actor, b # a PROVE AtStoreFits(b)'
  <2>1. /\ pc'[b] = pc[b] /\ op'[b] = op[b] /\ task'[b] = task[b] /\ snap'[b] = snap[b]
        /\ AtStoreFits(b)
    BY <1>2 DEF Unnoticed, OneAtStore
  <2>2. pc[b] = "write" => status' = status
    BY <1>1, <1>2 DEF Unnoticed, AtStore
  <2>3. Accounted(b)'
    BY <2>1 DEF Unnoticed, AtStoreFits, Accounted
  <2>4. Stopped(b)'
    BY <1>2, <2>1 DEF Unnoticed, AtStoreFits, Stopped
  <2> QED
    BY <2>1, <2>2, <2>3, <2>4 DEF AtStoreFits
<1>3. \A b, d \in Actor : AtStore(b)' /\ AtStore(d)' => b = d
  BY <1>1 DEF Unnoticed, OneAtStore, AtStore
<1>4. \A b \in Actor : AtStoreFits(b)'
  BY <1>2
<1> QED
  BY <1>3, <1>4 DEF OneAtStore

LEMMA StartUnnoticed ==
  ASSUME InMemory, "activate" \notin Ops, Control, NEW c \in Calls, Start(c)
  PROVE  Unnoticed(c)
<1> c \in Actor
  BY DEF Actor
<1>1. CanRun(c) /\ UNCHANGED <<status, wrote, failed>>
  BY DEF Start, Begin, BeginPlain, Create, BeginBatch, store, history, records
<1>2. \A b \in Actor \ {c} :
        pc'[b] = pc[b] /\ op'[b] = op[b] /\ task'[b] = task[b] /\ snap'[b] = snap[b]
  BY DEF Start, Begin, BeginPlain, Create, BeginBatch, Goto, Control, TypeOK
<1> QED
  BY <1>1, <1>2 DEF Unnoticed

LEMMA CallUnnoticed ==
  ASSUME InMemory, "activate" \notin Ops, Control, OneAtStore, NEW c \in Calls, Call(c)
  PROVE  Unnoticed(c)
<1> c \in Actor
  BY DEF Actor
<1>1. CanRun(c) /\ failed' = failed
  BY DEF Call, Read, Refuse, Write, WritePlain, Event, BodyRaises, Commit,
     Failure, OutcomeRefused, ActivationIntent, ActivationIntentFails, Activate,
     FilterRejects, Route, Send, EndBatch, records
<1>2. /\ op' = op
      /\ \A b \in Actor \ {c} : pc'[b] = pc[b] /\ task'[b] = task[b] /\ snap'[b] = snap[b]
  BY DEF Call, Read, Refuse, Write, WritePlain, Event, BodyRaises, Commit,
     Failure, OutcomeRefused, ActivationIntent, ActivationIntentFails, Activate,
     FilterRejects, Route, Send, EndBatch, Leave, Forget, Goto, Control, TypeOK
<1>3. wrote' \subseteq wrote \cup {<<c, task[c]>>}
  BY DEF Call, Read, Refuse, Write, WritePlain, Event, BodyRaises, Commit,
     Failure, OutcomeRefused, ActivationIntent, ActivationIntentFails, Activate,
     FilterRejects, Route, Send, EndBatch, SaveTask, history
<1>4. \A t \in Tasks : /\ status'[t] \in Active => status[t] \in Active
                       /\ status[t] \in Terminal => status'[t] \in Terminal
  <2>1. op[c] # "activate"
    BY DEF OneAtStore, AtStoreFits
  <2>2. CASE Write(c) \/ WritePlain(c)
    <3>1. /\ task[c] \in Tasks /\ op[c] \in BodyOps
          /\ status' = [status EXCEPT ![task[c]] = Target(op[c], snap[c][task[c]])]
      BY <2>1, <2>2 DEF Write, WritePlain, SaveTask, Control, TaskHeld, OpFits
    <3>2. status[task[c]] \in Accepts(op[c])
      BY <2>1, <2>2 DEF Write, WritePlain, OneAtStore, AtStoreFits, Control, SnapFits
    <3>3. status[task[c]] \in Active
      BY <3>1, <3>2, BodyTargets
    <3>4. status[task[c]] \notin Terminal
      BY <3>3 DEF Active, PreConsent, PostConsent, Terminal
    <3> QED
      BY <3>1, <3>3, <3>4 DEF Control, TypeOK
  <2>3. CASE ~(Write(c) \/ WritePlain(c))
    BY <2>1, <2>3 DEF Call, Read, Refuse, Event, BodyRaises, Commit, Failure, OutcomeRefused,
       ActivationIntent, ActivationIntentFails, Activate, FilterRejects, Route, Send, EndBatch,
       store, Control, OpFits
  <2> QED
    BY <2>2, <2>3
<1> QED
  BY <1>1, <1>2, <1>3, <1>4 DEF Unnoticed

LEMMA BatchUnnoticed ==
  ASSUME InMemory, Control, OneAtStore, NEW a \in Actor, Batch(a)
  PROVE  /\ Unnoticed(a) /\ op[a] \in BatchOps /\ a \in Calls
         /\ \A t \in Tasks : ~ExpelFails(a, t)
<1>1. \A t \in Tasks : ~ExpelFails(a, t)
  BY DEF ExpelFails, InMemory
<1>2. op[a] \in BatchOps
  <2>1. op[a] \in ListOps /\ op[a] \in CallOps \cup {"none"}
    BY TaskServiceAssumption DEF Batch, Expel, ExpelFails, HaltTask, HaltConflict, BatchEvent,
       BatchEventFails, ListOps, BatchOps, OneAtStore, AtStoreFits
  <2> QED
    BY <2>1 DEF ListOps, ScanOps, BatchOps, CallOps, ClusterOps, SettleOps, PlainOps
<1>3. CanRun(a) /\ failed \subseteq failed'
  BY <1>1 DEF Batch, Expel, HaltTask, HaltConflict, BatchEvent, BatchEventFails, records
<1>4. /\ op' = op
      /\ \A b \in Actor \ {a} : pc'[b] = pc[b] /\ task'[b] = task[b] /\ snap'[b] = snap[b]
  BY DEF Batch, Expel, ExpelFails, HaltTask, HaltConflict, BatchEvent, BatchEventFails,
     Strike, Forget, Goto, Control, TypeOK
<1>5. \E t \in Tasks \cup {NoTask} : wrote' \subseteq wrote \cup {<<a, t>>}
  BY DEF Batch, Expel, ExpelFails, HaltTask, HaltConflict, BatchEvent, BatchEventFails,
     SaveTask, history
<1>6. \A t \in Tasks : /\ status'[t] \in Active => status[t] \in Active
                       /\ status[t] \in Terminal => status'[t] \in Terminal
  <2>1. ASSUME NEW u \in Tasks, Expel(a, u) \/ HaltTask(a, u)
        PROVE  \E s \in Terminal \ Active : status' = [status EXCEPT ![u] = s]
    <3>1. status' = [status EXCEPT ![u] = HaltTarget(snap[a][u])]
      BY <1>2, <2>1, StopTargets DEF Expel, HaltTask, SaveTask, BatchOps, ScanOps
    <3>2. HaltTarget(snap[a][u]) \in Terminal \ Active
      BY StopTargets DEF HaltTarget, Terminal
    <3> QED
      BY <3>1, <3>2
  <2>2. CASE ~\E u \in Tasks : Expel(a, u) \/ HaltTask(a, u)
    BY <2>2 DEF Batch, ExpelFails, HaltConflict, BatchEvent, BatchEventFails, store
  <2> QED
    BY <2>1, <2>2 DEF Control, TypeOK
<1>7. a \in Calls
  <2>1. pc[a] # "idle"
    BY DEF Batch, Expel, ExpelFails, HaltTask, HaltConflict, BatchEvent, BatchEventFails
  <2> QED
    BY <2>1 DEF OneAtStore, Actor
<1>8. Unnoticed(a)
  BY <1>3, <1>4, <1>5, <1>6 DEF Unnoticed
<1> QED
  BY <1>1, <1>2, <1>7, <1>8

LEMMA StartAtStore ==
  ASSUME InMemory, "activate" \notin Ops, Control, Fresh, OneAtStore, NEW c \in Calls, Start(c)
  PROVE  OneAtStore'
<1> c \in Actor /\ Scheduler \in Actor /\ c # Scheduler
  BY TaskServiceAssumption DEF Actor
<1>1. AtStoreFits(c)'
  <2>1. ASSUME NEW o \in Ops, NEW t \in Tasks, Begin(c, o, t) \/ BeginPlain(c, o, t)
        PROVE  AtStoreFits(c)'
    <3>1. pc'[c] = "read" /\ op'[c] = o
      BY <2>1 DEF Begin, BeginPlain, Goto, Control, TypeOK
    <3> QED
      BY <3>1 DEF AtStoreFits, Accounted, Stopped
  <2>2. ASSUME NEW t \in Tasks, Create(c, t) PROVE FALSE
    BY <2>2 DEF Create
  <2>3. ASSUME NEW o \in Ops, NEW mine \in SUBSET Tasks, BeginBatch(c, o, mine)
        PROVE  AtStoreFits(c)'
    <3>1. /\ pc[c] = "idle" /\ pc'[c] = "batch" /\ op'[c] = o
          /\ o = "system_halt" => mine = Tasks
          /\ \A t \in Tasks : snap'[c][t] =
               IF t \in mine /\ status[t] \in Active THEN status[t] ELSE "none"
          /\ status' = status /\ wrote' = wrote
      BY <2>3 DEF BeginBatch, Goto, store, history, Control, TypeOK
    <3>2. "none" \notin Active
      BY DEF Active, PreConsent, PostConsent
    <3>3. Accounted(c)' /\ Stopped(c)'
      BY <3>1, <3>2 DEF Accounted, Stopped, Fresh
    <3> QED
      BY <3>1, <3>3 DEF AtStoreFits
  <2> QED
    BY <2>1, <2>2, <2>3 DEF Start
<1>2. pc'[Scheduler] = "idle"
  BY StartUnnoticed DEF Unnoticed, OneAtStore
<1> QED
  BY <1>1, <1>2, StartUnnoticed, UnnoticedKeeps

LEMMA CallAtStore ==
  ASSUME InMemory, "activate" \notin Ops, Control, OneAtStore, NEW c \in Calls, Call(c)
  PROVE  OneAtStore'
<1> c \in Actor /\ Scheduler \in Actor /\ c # Scheduler
  BY TaskServiceAssumption DEF Actor
<1>1. op'[c] = op[c] /\ op[c] \in Ops \cup {"none"}
  BY DEF Call, Read, Refuse, Write, WritePlain, Event, BodyRaises, Commit,
     Failure, OutcomeRefused, ActivationIntent, ActivationIntentFails, Activate,
     FilterRejects, Route, Send, EndBatch, Leave, Forget, OneAtStore, AtStoreFits
<1>2. CASE Read(c)
  <2>1. /\ op[c] \in BodyOps /\ task' = task /\ status' = status
        /\ snap'[c][task[c]] = status[task[c]]
    BY <1>2 DEF Read, store, Control, TypeOK, TaskHeld, OpFits
  <2>2. op[c] # "system_halt"
    BY <2>1 DEF BodyOps, ClusterOps, SettleOps, PlainOps
  <2>3. AtStoreFits(c)'
    BY <1>1, <2>1, <2>2 DEF AtStoreFits, Accounted, Stopped
  <2> QED
    BY <2>3, CallUnnoticed, UnnoticedKeeps DEF Unnoticed, OneAtStore
<1>3. CASE Write(c)
  <2>1. op[c] \in BodyOps /\ pc'[c] = "event"
    BY <1>3 DEF Write, Goto, Control, TypeOK, OpFits
  <2>2. op[c] # "system_halt"
    BY <2>1 DEF BodyOps, ClusterOps, SettleOps, PlainOps
  <2>3. AtStoreFits(c)'
    BY <1>1, <2>1, <2>2 DEF AtStoreFits, Accounted, Stopped
  <2> QED
    BY <2>3, CallUnnoticed, UnnoticedKeeps DEF Unnoticed, OneAtStore
<1>4. CASE ~(Read(c) \/ Write(c))
  <2>1. op[c] # "activate"
    BY <1>1
  <2>2. pc'[c] \in {"done", "commit", "failing"}
    BY <1>4, <2>1 DEF Call, Refuse, WritePlain, Event, BodyRaises, Commit,
       Failure, OutcomeRefused, ActivationIntent, ActivationIntentFails, Activate,
       FilterRejects, Route, Send, EndBatch, Leave, Goto, Control, TypeOK, OpFits
  <2>3. AtStoreFits(c)'
    BY <1>1, <2>2 DEF AtStoreFits, Accounted, Stopped
  <2> QED
    BY <2>3, CallUnnoticed, UnnoticedKeeps DEF Unnoticed, OneAtStore
<1> QED
  BY <1>2, <1>3, <1>4

LEMMA BatchAtStore ==
  ASSUME InMemory, Control, OneAtStore, NEW a \in Actor, Batch(a)
  PROVE  OneAtStore'
<1> Scheduler \in Actor /\ a # Scheduler
  BY BatchUnnoticed, TaskServiceAssumption DEF Actor
<1>1. /\ Unnoticed(a) /\ op[a] \in BatchOps
      /\ \A t \in Tasks : ~ExpelFails(a, t)
  BY BatchUnnoticed
<1>2. op' = op /\ op[a] \in Ops \cup {"none"}
  BY DEF Batch, Expel, ExpelFails, HaltTask, HaltConflict, BatchEvent, BatchEventFails,
     Strike, Forget, OneAtStore, AtStoreFits
<1>3. pc[a] \in {"batch", "event"} /\ Accounted(a) /\ Stopped(a)
  BY DEF Batch, Expel, ExpelFails, HaltTask, HaltConflict, BatchEvent, BatchEventFails,
     OneAtStore, AtStoreFits
<1>4. AtStoreFits(a)'
  <2>1. CASE op[a] # "system_halt"
    <3>1. pc'[a] # "write"
      BY <1>1 DEF Batch, Expel, HaltTask, HaltConflict, BatchEvent, BatchEventFails, Strike,
         Goto, Control, TypeOK
    <3> QED
      BY <1>2, <2>1, <3>1 DEF AtStoreFits, Accounted, Stopped
  <2>2. ASSUME NEW t \in Tasks, HaltTask(a, t) PROVE AtStoreFits(a)'
    <3>1. /\ pc'[a] = "event" /\ op[a] = "system_halt"
          /\ \A u \in Tasks \ {t} : snap'[a][u] = snap[a][u] /\ status'[u] = status[u]
          /\ status'[t] = HaltTarget(snap[a][t]) /\ failed' = failed
          /\ wrote' = wrote \cup {<<a, t>>}
      BY <2>2 DEF HaltTask, Strike, SaveTask, Goto, records, Control, TypeOK
    <3>2. status'[t] \notin Active /\ status'[t] \in Terminal
      BY <3>1, StopTargets DEF HaltTarget, Terminal
    <3>3. Accounted(a)' /\ Stopped(a)'
      BY <1>2, <1>3, <3>1, <3>2 DEF Accounted, Stopped
    <3> QED
      BY <1>2, <3>1, <3>3 DEF AtStoreFits
  <2>3. ASSUME NEW t \in Tasks, HaltConflict(a, t) PROVE AtStoreFits(a)'
    <3>1. /\ pc'[a] = "batch" /\ op[a] = "system_halt"
          /\ \A u \in Tasks \ {t} : snap'[a][u] = snap[a][u]
          /\ status' = status /\ failed' = failed \cup {<<a, t>>} /\ wrote' = wrote
      BY <2>3 DEF HaltConflict, Strike, Goto, store, history, Control, TypeOK
    <3>2. Accounted(a)' /\ Stopped(a)'
      BY <1>2, <1>3, <3>1 DEF Accounted, Stopped
    <3> QED
      BY <1>2, <3>1, <3>2 DEF AtStoreFits
  <2>4. CASE op[a] = "system_halt" /\ (BatchEvent(a) \/ BatchEventFails(a))
    <3>1. /\ pc'[a] = "batch" /\ snap'[a] = snap[a] /\ status' = status
          /\ failed \subseteq failed' /\ wrote' = wrote
      BY <2>4 DEF BatchEvent, BatchEventFails, Goto, store, history, Control, TypeOK
    <3>2. Accounted(a)' /\ Stopped(a)'
      BY <1>2, <1>3, <3>1 DEF Accounted, Stopped
    <3> QED
      BY <1>2, <3>1, <3>2 DEF AtStoreFits
  <2> QED
    BY <1>1, <2>1, <2>2, <2>3, <2>4 DEF Batch, Expel, ScanOps
<1> QED
  BY <1>1, <1>4, UnnoticedKeeps DEF Unnoticed, OneAtStore

LEMMA OtherAtStore ==
  ASSUME InMemory, Control, OneAtStore,
         \/ Loop \/ (\E t \in Tasks : Expire(t)) \/ Detector \/ Crash \/ UNCHANGED vars
  PROVE  OneAtStore'
<1>1. ~Loop /\ ~Crash
  BY DEF Loop, Wake, NextScan, Sleep, Crash, InMemory, OneAtStore
<1>2. UNCHANGED <<pc, op, task, snap, status, wrote, failed>>
  BY <1>1 DEF Expire, Detector, vars, store, control, history, records
<1> QED
  BY <1>2 DEF OneAtStore, AtStore, AtStoreFits, Accounted, Stopped

LEMMA OneAtStoreInvariant ==
  ASSUME InMemory, "activate" \notin Ops
  PROVE  Spec => []OneAtStore
<1>1. Init => OneAtStore
  BY DEF Init, OneAtStore, AtStore, AtStoreFits, Accounted, Stopped, Actor
<1>2. Control /\ Fresh /\ OneAtStore /\ [Next]_vars => OneAtStore'
  BY StartAtStore, CallAtStore, BatchAtStore, OtherAtStore DEF Next
<1> QED
  BY <1>1, <1>2, ControlInvariant, FreshInvariant, PTL DEF Spec

(***************************************************************************)
(* Over the in-memory store, with any number of overlapping calls of the   *)
(* Clusters and of the Earl, exits included, the halt accounts for every   *)
(* active task when it has worked through its list.  Activations are left  *)
(* out: a task created meanwhile is in nobody's list.                      *)
(***************************************************************************)
THEOREM InMemoryHaltAccounts ==
  ASSUME InMemory, "activate" \notin Ops
  PROVE  Spec => []HaltAccountsForAll
<1>1. OneAtStore => HaltAccountsForAll
  BY AccountedIsEnough DEF OneAtStore, AtStoreFits
<1> QED
  BY <1>1, OneAtStoreInvariant, PTL

(***************************************************************************)
(* And what it has moved has not been moved on by any of them when it      *)
(* ends.  (With activations the run of the halt race refutes this.)        *)
(***************************************************************************)
THEOREM InMemoryHaltStops ==
  ASSUME InMemory, "activate" \notin Ops
  PROVE  Spec => HaltStopsEveryTask
<1> DEFINE Ends == \A c \in Calls :
             op[c] = "system_halt" /\ pc[c] = "batch" /\ pc'[c] = "done" =>
               \A t \in Tasks : <<c, t>> \in wrote => status[t] \in Terminal
<1>1. OneAtStore => [Ends]_vars
  BY DEF OneAtStore, AtStoreFits, Stopped, Actor
<1> QED
  BY <1>1, OneAtStoreInvariant, PTL DEF HaltStopsEveryTask

(***************************************************************************)
(* Over the in-memory store overlapping calls move every task along the    *)
(* state machine: what an operation has read is what it saves over.  The   *)
(* exit of a Cluster is left out too: it computes its targets from a list  *)
(* that has aged by the time of its second task.                           *)
(***************************************************************************)
THEOREM InMemoryImplementsFsm ==
  ASSUME InMemory, {"activate", "release"} \cap Ops = {}
  PROVE  Spec => ImplementsFsm
<1>1. Control /\ OneAtStore => \A a \in Actor : Current(a)
  <2> SUFFICES ASSUME Control, OneAtStore, NEW a \in Actor PROVE Current(a)
    OBVIOUS
  <2>1. op[a] \in CallOps \cup {"none"} /\ op[a] \notin {"activate", "release"}
    BY TaskServiceAssumption DEF OneAtStore, AtStoreFits
  <2>2. pc[a] = "batch" => op[a] = "system_halt"
    BY <2>1 DEF Control, OpFits, ListOps, BatchOps, ScanOps, CallOps, ClusterOps, SettleOps,
       PlainOps
  <2>3. pc[a] # "filter"
    BY <2>1 DEF Control, OpFits
  <2> QED
    BY <2>1, <2>2, <2>3 DEF OneAtStore, AtStoreFits, Current
<1>2. Control /\ OneAtStore /\ [Next]_vars => [Fsm!Next]_status
  BY <1>1, StepFollows
<1>3. Spec => []OneAtStore
  BY OneAtStoreInvariant
<1> QED
  BY <1>2, <1>3, InitFollows, ControlInvariant, PTL
  DEF Spec, ImplementsFsm, Fsm!Spec

(***************************************************************************)
(* In the same circumstances a terminal status never changes.              *)
(***************************************************************************)
THEOREM InMemoryTerminalIsFinal ==
  ASSUME InMemory, {"activate", "release"} \cap Ops = {}
  PROVE  Spec => TerminalIsFinal
<1>1. TypeOK /\ [Fsm!Next]_status
        => [\A t \in Tasks : status[t] \in Terminal => status'[t] = status[t]]_vars
  BY FsmKeepsTerminal
<1> QED
  BY <1>1, TypeCorrect, InMemoryImplementsFsm, PTL
  DEF TerminalIsFinal, ImplementsFsm, Fsm!Spec
=============================================================================
