--------------------------- MODULE TaskServiceProofs ---------------------------
(***************************************************************************)
(* Safety of the task services for any number of tasks and of concurrent   *)
(* calls, over either task store, with or without faults and restarts.     *)
(***************************************************************************)
EXTENDS TaskService, TLAPS

BodyOps == ClusterOps \cup SettleOps \cup PlainOps
ListOps == BatchOps \cup ScanOps

-----------------------------------------------------------------------------
(***************************************************************************)
(* The control invariant: an actor that works on a task holds one, ...     *)
(***************************************************************************)
TaskHeld ==
  \A a \in Actor :
    pc[a] \in {"intent", "read", "write", "filter", "send", "event"} =>
      task[a] \in Tasks

(***************************************************************************)
(* ... stands only where its operation leads, ...                          *)
(***************************************************************************)
OpFits ==
  \A a \in Actor :
    /\ pc[a] \in {"intent", "filter", "send"} => op[a] = "activate"
    /\ pc[a] = "read"  => op[a] \in BodyOps
    /\ pc[a] = "write" => op[a] \in BodyOps \cup {"activate"}
    /\ pc[a] = "event" => op[a] \in ClusterOps \cup SettleOps \cup ListOps
    /\ pc[a] = "batch" => op[a] \in ListOps

(***************************************************************************)
(* ... and has read a status its operation goes ahead from.                *)
(***************************************************************************)
SnapFits ==
  \A a \in Actor :
    /\ pc[a] = "write" /\ op[a] # "activate" => snap[a][task[a]] \in Accepts(op[a])
    /\ op[a] \in ScanOps  => \A t \in Tasks : snap[a][t] \in {"none", ScanStatus(op[a])}
    /\ op[a] \in BatchOps => \A t \in Tasks : snap[a][t] \in Active \cup {"none"}

Control == TypeOK /\ TaskHeld /\ OpFits /\ SnapFits

-----------------------------------------------------------------------------
(***************************************************************************)
(* Facts about the rules.                                                  *)
(***************************************************************************)
LEMMA TargetInSlot ==
  ASSUME NEW o, NEW s \in Slot
  PROVE  Target(o, s) \in Slot
  BY DEF Target, HaltTarget, ReleaseTarget, ScanTarget, Slot, TaskStatus,
         PreConsent, PostConsent, Terminal

LEMMA ScanStatusInSlot ==
  ASSUME NEW o
  PROVE  ScanStatus(o) \in Slot
  BY DEF ScanStatus, Slot, TaskStatus, PreConsent, PostConsent, Terminal

(***************************************************************************)
(* Only an acceptance leads from before consent to work, ...               *)
(***************************************************************************)
LEMMA WorkNeedsConsent ==
  ASSUME NEW o \in BodyOps, NEW s \in Accepts(o),
         Target(o, s) \in PostConsent \cup {"completed"}
  PROVE  o = "accept" \/ s \in PostConsent
  BY DEF BodyOps, ClusterOps, SettleOps, PlainOps, Accepts, Target, PostConsent,
         BatchOps, ScanOps, HaltTarget, ReleaseTarget, ScanTarget

(***************************************************************************)
(* ... and only a result leads to what may be settled.                     *)
(***************************************************************************)
LEMMA SettlementNeedsResult ==
  ASSUME NEW o \in BodyOps, NEW s \in Accepts(o),
         Target(o, s) \in {"reported", "aggregated", "completed"}
  PROVE  o = "result" \/ s \in {"reported", "aggregated"}
  BY DEF BodyOps, ClusterOps, SettleOps, PlainOps, Accepts, Target,
         BatchOps, ScanOps, HaltTarget, ReleaseTarget, ScanTarget

(***************************************************************************)
(* No timeout and no batch leads to work without consent, or to a report.  *)
(***************************************************************************)
LEMMA ListsNeedConsent ==
  ASSUME NEW o \in ListOps, NEW s,
         o \in ScanOps => s = ScanStatus(o)
  PROVE  /\ Target(o, s) \in PostConsent \cup {"completed"} => s \in PostConsent
         /\ Target(o, s) \notin {"reported", "aggregated", "completed"}
  BY DEF ListOps, BatchOps, ScanOps, Target, HaltTarget, ReleaseTarget,
         ScanTarget, ScanStatus, PostConsent, PreConsent

-----------------------------------------------------------------------------
LEMMA InitControl == Init => Control
  BY TaskServiceAssumption
  DEF Init, Control, TypeOK, TaskHeld, OpFits, SnapFits, EmitterInit, EmitterTypeOK,
      Actor, PC, NothingRead, Slot, TaskStatus, CallOps, ScanOps, BatchOps

(***************************************************************************)
(* What a step that takes actor a out of its work leaves of the control    *)
(* invariant: all of it.                                                   *)
(***************************************************************************)
LEMMA OutKeeps ==
  ASSUME Control, NEW a \in Actor, NEW p \in {"done", "commit", "failing"},
         Goto(a, p), Forget(a)
  PROVE  /\ pc' \in [Actor -> PC]
         /\ op' \in [Actor -> CallOps \cup ScanOps \cup {"none"}]
         /\ task' \in [Actor -> Tasks \cup {NoTask}]
         /\ snap' \in [Actor -> [Tasks -> Slot]]
         /\ TaskHeld' /\ OpFits' /\ SnapFits'
<1> USE DEF Control
<1>1. /\ pc' = [pc EXCEPT ![a] = p] /\ op' = op
      /\ task' = [task EXCEPT ![a] = NoTask] /\ snap' = [snap EXCEPT ![a] = NothingRead]
  BY DEF Goto, Forget
<1>2. NothingRead \in [Tasks -> Slot] /\ p \in PC
  BY DEF NothingRead, Slot, PC
<1>3. pc' \in [Actor -> PC] /\ snap' \in [Actor -> [Tasks -> Slot]]
  BY <1>1, <1>2 DEF TypeOK
<1>4. /\ op' \in [Actor -> CallOps \cup ScanOps \cup {"none"}]
      /\ task' \in [Actor -> Tasks \cup {NoTask}]
  BY <1>1 DEF TypeOK
<1>5. /\ pc'[a] = p /\ snap'[a] = NothingRead
      /\ \A b \in Actor \ {a} : pc'[b] = pc[b] /\ task'[b] = task[b] /\ snap'[b] = snap[b]
  BY <1>1 DEF TypeOK
<1>6. TaskHeld' /\ OpFits'
  BY <1>1, <1>5 DEF TaskHeld, OpFits
<1>7. SnapFits'
  BY <1>1, <1>5 DEF SnapFits, NothingRead
<1> QED
  BY <1>3, <1>4, <1>6, <1>7

(***************************************************************************)
(* And a step that strikes a task off the list of a batch.                 *)
(***************************************************************************)
LEMMA StrikeKeeps ==
  ASSUME Control, NEW a \in Actor, NEW t \in Tasks, NEW next, NEW p,
         op[a] \in ListOps, Strike(a, t, next, p),
         (next = t /\ p = "event") \/ (next = NoTask /\ p = "batch")
  PROVE  /\ pc' \in [Actor -> PC]
         /\ op' \in [Actor -> CallOps \cup ScanOps \cup {"none"}]
         /\ task' \in [Actor -> Tasks \cup {NoTask}]
         /\ snap' \in [Actor -> [Tasks -> Slot]]
         /\ TaskHeld' /\ OpFits' /\ SnapFits'
<1> USE DEF Control
<1>1. /\ pc' = [pc EXCEPT ![a] = p] /\ op' = op
      /\ task' = [task EXCEPT ![a] = next] /\ snap' = [snap EXCEPT ![a][t] = "none"]
  BY DEF Goto, Strike
<1>2. pc' \in [Actor -> PC] /\ task' \in [Actor -> Tasks \cup {NoTask}]
  BY <1>1 DEF TypeOK, PC
<1>3. snap' \in [Actor -> [Tasks -> Slot]]
  BY <1>1 DEF TypeOK, Slot
<1>4. /\ pc'[a] = p /\ task'[a] = next
      /\ \A u \in Tasks : snap'[a][u] \in {snap[a][u], "none"}
      /\ \A b \in Actor \ {a} : pc'[b] = pc[b] /\ task'[b] = task[b] /\ snap'[b] = snap[b]
  BY <1>1 DEF TypeOK
<1>5. TaskHeld' /\ OpFits'
  BY <1>1, <1>4 DEF TaskHeld, OpFits
<1>6. SnapFits'
  BY <1>1, <1>4 DEF SnapFits
<1> QED
  BY <1>1, <1>2, <1>3, <1>5, <1>6 DEF TypeOK

(***************************************************************************)
(* A save keeps the store and the histories typed.                         *)
(***************************************************************************)
LEMMA SaveTyped ==
  ASSUME TypeOK, NEW a \in Actor, NEW t \in Tasks, NEW s \in Slot, SaveTask(a, t, s)
  PROVE  /\ status' \in [Tasks -> Slot] /\ expired' \subseteq Tasks /\ naive' \subseteq Tasks
         /\ consented' \subseteq Tasks /\ reported' \subseteq Tasks
         /\ wrote' \subseteq Actor \X Tasks
  BY DEF SaveTask, TypeOK

(***************************************************************************)
(* The steps of one call.                                                  *)
(***************************************************************************)
LEMMA StartControl ==
  ASSUME Control, NEW c \in Calls, Start(c)
  PROVE  Control'
<1> USE DEF Control, Actor
<1>1. ASSUME NEW o \in Ops, NEW t \in Tasks, Begin(c, o, t) PROVE Control'
  BY <1>1 DEF Begin, EmitIntent, Goto, store, history, records, TypeOK, EmitterTypeOK,
     TaskHeld, OpFits, SnapFits, PC, BodyOps, ClusterOps, SettleOps, CallOps, ScanOps, BatchOps
<1>2. ASSUME NEW o \in Ops, NEW t \in Tasks, BeginPlain(c, o, t) PROVE Control'
  BY <1>2 DEF BeginPlain, Goto, store, history, records, emitter, TypeOK, EmitterTypeOK,
     TaskHeld, OpFits, SnapFits, PC, BodyOps, PlainOps, CallOps, ScanOps, BatchOps
<1>3. ASSUME NEW t \in Tasks, Create(c, t) PROVE Control'
  BY <1>3 DEF Create, Goto, store, history, records, emitter, TypeOK, EmitterTypeOK,
     TaskHeld, OpFits, SnapFits, PC, CallOps, ScanOps, BatchOps, Slot, TaskStatus, PreConsent
<1>4. ASSUME NEW o \in Ops, NEW mine \in SUBSET Tasks, BeginBatch(c, o, mine) PROVE Control'
  BY <1>4 DEF BeginBatch, Goto, store, history, records, emitter, TypeOK, EmitterTypeOK,
     TaskHeld, OpFits, SnapFits, PC, ListOps, CallOps, ScanOps, BatchOps, Slot, Active, TaskStatus
<1> QED
  BY <1>1, <1>2, <1>3, <1>4 DEF Start

LEMMA CallControl ==
  ASSUME Control, NEW c \in Calls, Call(c)
  PROVE  Control'
<1> c \in Actor
  BY DEF Actor
<1> USE DEF Control
<1>1. CASE Read(c)
  BY <1>1 DEF Read, Goto, store, history, records, emitter, TypeOK, EmitterTypeOK,
     TaskHeld, OpFits, SnapFits, PC, BodyOps, ClusterOps, SettleOps, PlainOps, ScanOps, BatchOps
<1>2. CASE Refuse(c)
  BY <1>2, OutKeeps DEF Refuse, Leave, store, history, records, emitter, TypeOK, EmitterTypeOK
<1>3. CASE Write(c) \/ WritePlain(c)
  <2>1. task[c] \in Tasks /\ op[c] \in BodyOps
    BY <1>3 DEF Write, WritePlain, TaskHeld, OpFits, BodyOps
  <2>2. snap[c][task[c]] \in Slot
    BY <2>1 DEF TypeOK
  <2>3. Target(op[c], snap[c][task[c]]) \in Slot
    BY <2>2, TargetInSlot
  <2>4. /\ status' \in [Tasks -> Slot] /\ expired' \subseteq Tasks /\ naive' \subseteq Tasks
        /\ consented' \subseteq Tasks /\ reported' \subseteq Tasks
        /\ wrote' \subseteq Actor \X Tasks
    BY <1>3, <2>1, <2>3, SaveTyped DEF Write, WritePlain
  <2>5. CASE Write(c)
    <3>1. /\ pc' = [pc EXCEPT ![c] = "event"]
          /\ snap' = [snap EXCEPT ![c] = NothingRead]
          /\ UNCHANGED <<op, task, records, emitter>>
      BY <2>5 DEF Write, Goto
    <3>2. TypeOK'
      BY <3>1, <2>4 DEF TypeOK, EmitterTypeOK, records, emitter, NothingRead, PC, Slot
    <3>3. op[c] \in ClusterOps \cup SettleOps
      BY <2>1, <2>5 DEF Write, BodyOps
    <3>4. TaskHeld' /\ OpFits'
      BY <3>1, <3>3, <2>1 DEF TypeOK, TaskHeld, OpFits
    <3>5. SnapFits'
      BY <3>1 DEF TypeOK, SnapFits, NothingRead
    <3> QED
      BY <3>2, <3>4, <3>5
  <2>6. CASE WritePlain(c)
    BY <2>4, <2>6, OutKeeps DEF WritePlain, records, emitter, TypeOK, EmitterTypeOK
  <2> QED
    BY <1>3, <2>5, <2>6
<1>4. CASE Event(c)
  <2>1. task[c] \in Tasks
    BY <1>4 DEF Event, TaskHeld
  <2> QED
    BY <1>4, <2>1, OutKeeps DEF Event, Leave, store, history, emitter, TypeOK, EmitterTypeOK
<1>5. CASE BodyRaises(c)
  BY <1>5, OutKeeps DEF BodyRaises, Leave, store, history, records, emitter,
     TypeOK, EmitterTypeOK
<1>6. CASE Commit(c) \/ Failure(c) \/ OutcomeRefused(c)
  <2>1. /\ pc' = [pc EXCEPT ![c] = "done"]
        /\ UNCHANGED <<op, task, snap, store, history, records>>
    BY <1>6 DEF Commit, Failure, OutcomeRefused, Goto
  <2>2. EmitterTypeOK'
    BY <1>6 DEF Commit, Failure, OutcomeRefused, AppendOutcome, emitter, TypeOK,
                EmitterTypeOK, Outcome
  <2>3. TypeOK'
    BY <2>1, <2>2 DEF TypeOK, store, history, records, PC
  <2>4. TaskHeld' /\ OpFits' /\ SnapFits'
    BY <2>1 DEF TypeOK, TaskHeld, OpFits, SnapFits
  <2> QED
    BY <2>3, <2>4
<1>7. CASE ActivationIntent(c)
  BY <1>7 DEF ActivationIntent, EmitIntent, Goto, store, history, records,
     TypeOK, EmitterTypeOK, TaskHeld, OpFits, SnapFits, PC
<1>8. CASE ActivationIntentFails(c) \/ FilterRejects(c) \/ Send(c)
  BY <1>8, OutKeeps DEF ActivationIntentFails, FilterRejects, Send, Leave, store, history,
     records, emitter, TypeOK, EmitterTypeOK
<1>9. CASE Activate(c) \/ Route(c)
  <2>1. task[c] \in Tasks /\ op[c] = "activate"
    BY <1>9 DEF Activate, Route, TaskHeld, OpFits
  <2>2. {"activated", "routed"} \subseteq Slot
    BY DEF Slot, TaskStatus, PreConsent
  <2>3. /\ status' \in [Tasks -> Slot] /\ expired' \subseteq Tasks /\ naive' \subseteq Tasks
        /\ consented' \subseteq Tasks /\ reported' \subseteq Tasks
        /\ wrote' \subseteq Actor \X Tasks
    BY <1>9, <2>1, <2>2, SaveTyped DEF Activate, Route
  <2>4. PICK p \in {"filter", "send"}, r \in [Tasks -> Slot] :
          /\ pc' = [pc EXCEPT ![c] = p] /\ snap' = [snap EXCEPT ![c] = r]
          /\ UNCHANGED <<op, task, records, emitter>>
    <3>1. NothingRead \in [Tasks -> Slot]
      BY DEF NothingRead, Slot
    <3>2. [snap[c] EXCEPT ![task[c]] = "activated"] \in [Tasks -> Slot]
      BY <2>1, <2>2 DEF TypeOK
    <3> QED
      BY <1>9, <3>1, <3>2 DEF Activate, Route, Goto
  <2>5. TypeOK'
    BY <2>3, <2>4 DEF TypeOK, EmitterTypeOK, records, emitter, PC
  <2>6. TaskHeld' /\ OpFits'
    BY <2>1, <2>4 DEF TypeOK, TaskHeld, OpFits
  <2>7. SnapFits'
    BY <2>1, <2>4 DEF TypeOK, SnapFits, ScanOps, BatchOps
  <2> QED
    BY <2>5, <2>6, <2>7
<1>10. CASE EndBatch(c)
  BY <1>10 DEF EndBatch, Goto, store, history, records, emitter, TypeOK, EmitterTypeOK,
     TaskHeld, OpFits, SnapFits, PC
<1> QED
  BY <1>1, <1>2, <1>3, <1>4, <1>5, <1>6, <1>7, <1>8, <1>9, <1>10 DEF Call

(***************************************************************************)
(* The steps of the batches and of the scheduler's loop.                   *)
(***************************************************************************)
LEMMA BatchControl ==
  ASSUME Control, NEW a \in Actor, Batch(a)
  PROVE  Control'
<1> USE DEF Control
<1>1. ASSUME NEW t \in Tasks, Expel(a, t) \/ HaltTask(a, t) PROVE Control'
  <2>1. snap[a][t] \in Slot /\ op[a] \in ListOps
    BY <1>1 DEF TypeOK, Expel, HaltTask, ListOps, BatchOps
  <2>2. Target(op[a], snap[a][t]) \in Slot /\ HaltTarget(snap[a][t]) \in Slot
    BY <2>1, TargetInSlot DEF HaltTarget, Slot, TaskStatus, Terminal
  <2>3. /\ status' \in [Tasks -> Slot] /\ expired' \subseteq Tasks /\ naive' \subseteq Tasks
        /\ consented' \subseteq Tasks /\ reported' \subseteq Tasks
        /\ wrote' \subseteq Actor \X Tasks
    BY <1>1, <2>2, SaveTyped DEF Expel, HaltTask
  <2>4. Strike(a, t, t, "event") /\ UNCHANGED records
    BY <1>1 DEF Expel, HaltTask
  <2> QED
    BY <2>1, <2>3, <2>4, StrikeKeeps DEF Strike, records, emitter, TypeOK, EmitterTypeOK
<1>2. ASSUME NEW t \in Tasks, ExpelFails(a, t) PROVE Control'
  <2>1. CASE op[a] \in ScanOps /\ Strike(a, t, NoTask, "batch")
    BY <1>2, <2>1, StrikeKeeps DEF ExpelFails, Strike, ListOps, store, history, records,
       emitter, TypeOK, EmitterTypeOK
  <2>2. CASE Goto(a, "done") /\ Forget(a) /\ UNCHANGED emitter
    BY <1>2, <2>2, OutKeeps DEF ExpelFails, store, history, records, emitter,
       TypeOK, EmitterTypeOK
  <2> QED
    BY <1>2, <2>1, <2>2 DEF ExpelFails
<1>3. ASSUME NEW t \in Tasks, HaltConflict(a, t) PROVE Control'
  <2>1. op[a] \in ListOps
    BY <1>3 DEF HaltConflict, ListOps, BatchOps
  <2>2. Strike(a, t, NoTask, "batch") /\ UNCHANGED <<store, history, events>>
    BY <1>3 DEF HaltConflict
  <2>3. failed' \subseteq Actor \X Tasks
    BY <1>3 DEF HaltConflict, TypeOK
  <2> QED
    BY <2>1, <2>2, <2>3, StrikeKeeps DEF Strike, store, history, emitter,
       TypeOK, EmitterTypeOK
<1>4. CASE BatchEvent(a)
  BY <1>4 DEF BatchEvent, Goto, store, history, emitter,
     TypeOK, EmitterTypeOK, TaskHeld, OpFits, SnapFits, PC, ListOps
<1>5. CASE BatchEventFails(a)
  <2>1. task[a] \in Tasks /\ op[a] \in ListOps
    BY <1>5 DEF BatchEventFails, TaskHeld, ListOps
  <2>2. failed' \subseteq Actor \X Tasks
    BY <1>5, <2>1 DEF BatchEventFails, TypeOK
  <2>3. CASE op[a] = "release"
    BY <1>5, <2>2, <2>3, OutKeeps DEF BatchEventFails, store, history, emitter,
       TypeOK, EmitterTypeOK
  <2>4. CASE op[a] # "release"
    <3>1. /\ pc' = [pc EXCEPT ![a] = "batch"]
          /\ task' = [task EXCEPT ![a] = NoTask]
          /\ UNCHANGED <<op, snap, store, history, events, emitter>>
      BY <1>5, <2>4 DEF BatchEventFails, Goto
    <3>2. TypeOK'
      BY <2>2, <3>1 DEF TypeOK, EmitterTypeOK, store, history, emitter, PC
    <3>3. TaskHeld' /\ OpFits' /\ SnapFits'
      BY <2>1, <3>1 DEF TypeOK, TaskHeld, OpFits, SnapFits
    <3> QED
      BY <3>2, <3>3
  <2> QED
    BY <2>3, <2>4
<1> QED
  BY <1>1, <1>2, <1>3, <1>4, <1>5 DEF Batch

LEMMA LoopControl ==
  ASSUME Control, Loop
  PROVE  Control'
<1> Scheduler \in Actor
  BY DEF Actor
<1> USE DEF Control
<1>1. ASSUME NEW o \in ScanOps, Scan(o) PROVE Control'
  <2>1. ScanStatus(o) \in Slot
    BY ScanStatusInSlot
  <2>2. \A list \in Reached(o) : \A t \in list : t \in Tasks /\ status[t] = ScanStatus(o)
    BY DEF Reached, Due
  <2> QED
    BY <1>1, <2>1, <2>2 DEF Scan, Goto, store, history, records, emitter, TypeOK, EmitterTypeOK,
       TaskHeld, OpFits, SnapFits, PC, ListOps, ScanOps, BatchOps, Slot
<1>2. CASE Wake \/ NextScan
  BY <1>1, <1>2 DEF Wake, NextScan, ScanOps
<1>3. CASE Sleep
  BY <1>3 DEF Sleep, Goto, store, history, records, emitter, TypeOK, EmitterTypeOK,
     TaskHeld, OpFits, SnapFits, PC
<1> QED
  BY <1>2, <1>3 DEF Loop

(***************************************************************************)
(* The steps of the environment and of the detector.                       *)
(***************************************************************************)
LEMMA OtherControl ==
  ASSUME Control, (\E t \in Tasks : Expire(t)) \/ Detector \/ Crash \/ UNCHANGED vars
  PROVE  Control'
<1> USE DEF Control
<1>1. ASSUME NEW t \in Tasks, Expire(t) PROVE Control'
  BY <1>1 DEF Expire, control, history, records, emitter, TypeOK, EmitterTypeOK,
     TaskHeld, OpFits, SnapFits
<1>2. CASE Detector
  BY <1>2, AgingAssumption DEF Detector, OrphanScan, Age, OrphanCheck, OrphanAppend,
     OrphanAppendFails, AppendOutcome, Outcome, store, control, history, records,
     TypeOK, EmitterTypeOK, TaskHeld, OpFits, SnapFits
<1>3. CASE Crash
  BY <1>3 DEF Crash, EmitterCrash, NothingRead, store, history, records,
     TypeOK, EmitterTypeOK, TaskHeld, OpFits, SnapFits, PC, Slot
<1>4. CASE UNCHANGED vars
  BY <1>4 DEF vars, store, control, history, records, emitter,
     TypeOK, EmitterTypeOK, TaskHeld, OpFits, SnapFits
<1> QED
  BY <1>1, <1>2, <1>3, <1>4

LEMMA ControlInvariant == Spec => []Control
<1>1. Control /\ [Next]_vars => Control'
  BY StartControl, CallControl, BatchControl, LoopControl, OtherControl DEF Next
<1> QED
  BY <1>1, InitControl, PTL DEF Spec

(***************************************************************************)
(* Type correctness: no service ever saves a status that is not one of the *)
(* eleven, or works on a task it does not hold.                            *)
(***************************************************************************)
THEOREM TypeCorrect == Spec => []TypeOK
  BY ControlInvariant, PTL DEF Control

-----------------------------------------------------------------------------
(***************************************************************************)
(* Consent and reports.  What an actor has read stays backed by history    *)
(* however stale it grows, because neither history ever shrinks.           *)
(***************************************************************************)
SnapTold ==
  \A a \in Actor, t \in Tasks :
    /\ snap[a][t] \in PostConsent => t \in consented
    /\ snap[a][t] \in {"reported", "aggregated"} => t \in reported

Consent == ConsentBeforeWork /\ SettledWasReported /\ SnapTold

(***************************************************************************)
(* A step that saves nothing may at most read, forget or strike off.       *)
(***************************************************************************)
NoSave ==
  /\ UNCHANGED <<status, consented, reported>>
  /\ \A a \in Actor, t \in Tasks : snap'[a][t] \in {snap[a][t], "none", status[t]}

LEMMA NoSaveKeeps ==
  ASSUME Consent, NoSave
  PROVE  Consent'
  BY DEF Consent, NoSave, ConsentBeforeWork, SettledWasReported, SnapTold, PostConsent

LEMMA SaveKeeps ==
  ASSUME Control, Consent, NEW a \in Actor, NEW t \in Tasks, NEW s \in Slot,
         SaveTask(a, t, s),
         s \in PostConsent \cup {"completed"} => op[a] = "accept" \/ t \in consented,
         s \in {"reported", "aggregated", "completed"} => op[a] = "result" \/ t \in reported,
         \A b \in Actor, u \in Tasks : snap'[b][u] \in {snap[b][u], "none", "activated"}
  PROVE  Consent'
<1>1. /\ status'[t] = s
      /\ \A u \in Tasks \ {t} : status'[u] = status[u]
  BY DEF SaveTask, Control, TypeOK
<1>2. /\ consented \subseteq consented' /\ reported \subseteq reported'
      /\ op[a] = "accept" => t \in consented'
      /\ op[a] = "result" => t \in reported'
  BY DEF SaveTask
<1>3. ConsentBeforeWork' /\ SettledWasReported'
  BY <1>1, <1>2 DEF Consent, ConsentBeforeWork, SettledWasReported
<1>4. SnapTold'
  BY <1>2 DEF Consent, SnapTold, PostConsent
<1> QED
  BY <1>3, <1>4 DEF Consent

LEMMA ForgetReadsNothing ==
  ASSUME TypeOK, NEW a \in Actor, Forget(a) \/ UNCHANGED snap
  PROVE  \A b \in Actor, t \in Tasks : snap'[b][t] \in {snap[b][t], "none"}
  BY DEF TypeOK, Forget, NothingRead

-----------------------------------------------------------------------------
LEMMA StartConsent ==
  ASSUME Control, Consent, NEW c \in Calls, Start(c)
  PROVE  Consent'
<1> c \in Actor
  BY DEF Actor
<1>1. ASSUME NEW o \in Ops, NEW t \in Tasks, Begin(c, o, t) \/ BeginPlain(c, o, t)
      PROVE  Consent'
  BY <1>1, NoSaveKeeps DEF Begin, BeginPlain, store, history, NoSave
<1>2. ASSUME NEW t \in Tasks, Create(c, t) PROVE Consent'
  <2>1. /\ status'[t] = "authorized"
        /\ \A u \in Tasks \ {t} : status'[u] = status[u]
        /\ UNCHANGED <<consented, reported>>
    BY <1>2 DEF Create, history, Control, TypeOK
  <2>2. \A b \in Actor, u \in Tasks : snap'[b][u] \in {snap[b][u], "authorized"}
    BY <1>2 DEF Create, Control, TypeOK
  <2> QED
    BY <2>1, <2>2 DEF Consent, ConsentBeforeWork, SettledWasReported, SnapTold, PostConsent
<1>3. ASSUME NEW o \in Ops, NEW mine \in SUBSET Tasks, BeginBatch(c, o, mine) PROVE Consent'
  BY <1>3, NoSaveKeeps DEF BeginBatch, store, history, NoSave, Control, TypeOK
<1> QED
  BY <1>1, <1>2, <1>3 DEF Start

LEMMA CallConsent ==
  ASSUME Control, Consent, NEW c \in Calls, Call(c)
  PROVE  Consent'
<1> c \in Actor
  BY DEF Actor
<1>1. CASE Read(c)
  BY <1>1, NoSaveKeeps DEF Read, store, history, NoSave, Control, TypeOK
<1>2. CASE Write(c) \/ WritePlain(c)
  <2> DEFINE t == task[c]
             s == Target(op[c], snap[c][t])
  <2>1. t \in Tasks /\ op[c] \in BodyOps /\ op[c] # "activate"
    BY <1>2 DEF Write, WritePlain, Control, TaskHeld, OpFits, BodyOps, PlainOps
  <2>2. snap[c][t] \in Accepts(op[c]) /\ snap[c][t] \in Slot
    BY <1>2, <2>1 DEF Write, WritePlain, Control, SnapFits, TypeOK
  <2>3. s \in Slot
    BY <2>2, TargetInSlot
  <2>4. s \in PostConsent \cup {"completed"} => op[c] = "accept" \/ t \in consented
    BY <2>1, <2>2, WorkNeedsConsent DEF Consent, SnapTold
  <2>5. s \in {"reported", "aggregated", "completed"} => op[c] = "result" \/ t \in reported
    BY <2>1, <2>2, SettlementNeedsResult DEF Consent, SnapTold
  <2>6. SaveTask(c, t, s)
    BY <1>2 DEF Write, WritePlain
  <2>7. \A b \in Actor, u \in Tasks : snap'[b][u] \in {snap[b][u], "none"}
    BY <1>2 DEF Write, WritePlain, Forget, NothingRead, Control, TypeOK
  <2> HIDE DEF t, s
  <2> QED
    BY <2>1, <2>3, <2>4, <2>5, <2>6, <2>7, SaveKeeps
<1>3. CASE Activate(c) \/ Route(c)
  <2>1. task[c] \in Tasks
    BY <1>3 DEF Activate, Route, Control, TaskHeld
  <2>2. PICK s \in {"activated", "routed"} : SaveTask(c, task[c], s)
    BY <1>3 DEF Activate, Route
  <2>3. \A b \in Actor, u \in Tasks : snap'[b][u] \in {snap[b][u], "none", "activated"}
    BY <1>3 DEF Activate, Route, NothingRead, Control, TypeOK
  <2>4. s \in Slot /\ s \notin PostConsent \cup {"completed"}
    BY DEF Slot, TaskStatus, PreConsent, PostConsent
  <2>5. s \notin {"reported", "aggregated", "completed"}
    OBVIOUS
  <2> QED
    BY <2>1, <2>2, <2>3, <2>4, <2>5, SaveKeeps
<1>4. CASE \/ Refuse(c) \/ Event(c) \/ BodyRaises(c) \/ ActivationIntentFails(c)
           \/ FilterRejects(c) \/ Send(c)
  <2>1. Forget(c) /\ UNCHANGED <<status, consented, reported>>
    BY <1>4 DEF Refuse, Event, BodyRaises, ActivationIntentFails, FilterRejects, Send,
                Leave, store, history
  <2> QED
    BY <2>1, NoSaveKeeps, ForgetReadsNothing DEF NoSave, Control
<1>5. CASE Commit(c) \/ Failure(c) \/ OutcomeRefused(c) \/ ActivationIntent(c) \/ EndBatch(c)
  BY <1>5, NoSaveKeeps DEF Commit, Failure, OutcomeRefused, ActivationIntent, EndBatch,
                           store, history, NoSave
<1> QED
  BY <1>1, <1>2, <1>3, <1>4, <1>5 DEF Call

(***************************************************************************)
(* Batches: the scheduler starts work only on what was accepted, and the   *)
(* halt and the exit start none.                                           *)
(***************************************************************************)
LEMMA BatchConsent ==
  ASSUME Control, Consent, NEW a \in Actor, Batch(a)
  PROVE  Consent'
<1>1. ASSUME NEW t \in Tasks, NEW next, NEW p, Strike(a, t, next, p)
      PROVE  \A b \in Actor, u \in Tasks : snap'[b][u] \in {snap[b][u], "none"}
  BY <1>1 DEF Strike, Control, TypeOK
<1>2. ASSUME NEW t \in Tasks, Expel(a, t) PROVE Consent'
  <2> DEFINE s == Target(op[a], snap[a][t])
  <2>1. op[a] \in ListOps /\ snap[a][t] \in Slot /\ snap[a][t] # "none"
    BY <1>2 DEF Expel, Control, TypeOK, ListOps, BatchOps
  <2>2. op[a] \in ScanOps => snap[a][t] = ScanStatus(op[a])
    BY <2>1 DEF Control, SnapFits
  <2>3. /\ s \in PostConsent \cup {"completed"} => snap[a][t] \in PostConsent
        /\ s \notin {"reported", "aggregated", "completed"}
    BY <2>1, <2>2, ListsNeedConsent
  <2>4. s \in PostConsent \cup {"completed"} => t \in consented
    BY <2>3 DEF Consent, SnapTold
  <2>5. s \in Slot
    BY <2>1, TargetInSlot
  <2>6. SaveTask(a, t, s) /\ Strike(a, t, t, "event")
    BY <1>2 DEF Expel
  <2> HIDE DEF s
  <2> QED
    BY <1>1, <2>3, <2>4, <2>5, <2>6, SaveKeeps
<1>3. ASSUME NEW t \in Tasks, HaltTask(a, t) PROVE Consent'
  <2>1. SaveTask(a, t, HaltTarget(snap[a][t])) /\ Strike(a, t, t, "event")
    BY <1>3 DEF HaltTask
  <2>2. HaltTarget(snap[a][t]) \in {"nullified", "quarantined"}
    BY DEF HaltTarget
  <2> QED
    BY <1>1, <2>1, <2>2, SaveKeeps DEF Slot, TaskStatus, Terminal, PostConsent
<1>4. ASSUME NEW t \in Tasks, ExpelFails(a, t) \/ HaltConflict(a, t) PROVE Consent'
  <2>1. UNCHANGED <<status, consented, reported>>
    BY <1>4 DEF ExpelFails, HaltConflict, store, history
  <2>2. Strike(a, t, NoTask, "batch") \/ Forget(a)
    BY <1>4 DEF ExpelFails, HaltConflict
  <2> QED
    BY <1>1, <2>1, <2>2, NoSaveKeeps, ForgetReadsNothing DEF NoSave, Control
<1>5. CASE BatchEvent(a) \/ BatchEventFails(a)
  <2>1. UNCHANGED <<status, consented, reported>>
    BY <1>5 DEF BatchEvent, BatchEventFails, store, history
  <2>2. Forget(a) \/ UNCHANGED snap
    BY <1>5 DEF BatchEvent, BatchEventFails
  <2> QED
    BY <2>1, <2>2, NoSaveKeeps, ForgetReadsNothing DEF NoSave, Control
<1> QED
  BY <1>2, <1>3, <1>4, <1>5 DEF Batch

LEMMA OtherConsent ==
  ASSUME Control, Consent,
         \/ Loop \/ (\E t \in Tasks : Expire(t)) \/ Detector \/ Crash \/ UNCHANGED vars
  PROVE  Consent'
<1> Scheduler \in Actor
  BY DEF Actor
<1>1. ASSUME NEW o, Scan(o) PROVE Consent'
  BY <1>1, NoSaveKeeps DEF Scan, store, history, NoSave, Control, TypeOK
<1>2. CASE Loop
  BY <1>1, <1>2, NoSaveKeeps DEF Loop, Wake, NextScan, Sleep, store, history, NoSave
<1>3. CASE \E t \in Tasks : Expire(t)
  BY <1>3, NoSaveKeeps DEF Expire, control, history, NoSave
<1>4. CASE Detector
  BY <1>4, NoSaveKeeps DEF Detector, store, control, history, NoSave
<1>5. CASE Crash
  BY <1>5, NoSaveKeeps DEF Crash, NothingRead, store, history, NoSave, Control, TypeOK
<1>6. CASE UNCHANGED vars
  BY <1>6, NoSaveKeeps DEF vars, store, control, history, NoSave
<1> QED
  BY <1>2, <1>3, <1>4, <1>5, <1>6

LEMMA ConsentInvariant == Spec => []Consent
<1>1. Init => Consent
  BY TaskServiceAssumption
  DEF Init, Consent, ConsentBeforeWork, SettledWasReported, SnapTold, NothingRead,
      PreConsent, PostConsent
<1>2. Control /\ Consent /\ [Next]_vars => Consent'
  BY StartConsent, CallConsent, BatchConsent, OtherConsent DEF Next
<1> QED
  BY <1>1, <1>2, ControlInvariant, PTL DEF Spec

(***************************************************************************)
(* No work without consent, for any number of calls in flight, with        *)
(* timeouts, halts and exits beside them, lost updates included.           *)
(***************************************************************************)
THEOREM NoWorkWithoutConsent == Spec => []ConsentBeforeWork
  BY ConsentInvariant, PTL DEF Consent

(***************************************************************************)
(* No settlement without a report.                                         *)
(***************************************************************************)
THEOREM NoSettlementWithoutReport == Spec => []SettledWasReported
  BY ConsentInvariant, PTL DEF Consent

-----------------------------------------------------------------------------
(***************************************************************************)
(* Commits.  Along the body of a call the saving and the event pile up in  *)
(* the ledger before the commit is appended.                               *)
(***************************************************************************)
EventOps == ClusterOps \cup SettleOps

Recorded(c) ==
  \E t \in Tasks : <<c, t>> \in events /\ (op[c] = "problem" \/ <<c, t>> \in wrote)

BackedAt(c) ==
  /\ pc[c] = "event" /\ op[c] \in EventOps => op[c] = "problem" \/ <<c, task[c]>> \in wrote
  /\ pc[c] = "commit" /\ op[c] # "activate" => Recorded(c)
  /\ pc[c] = "idle" => "commit" \notin outcome[c]
  /\ "commit" \in outcome[c] /\ op[c] # "activate" => Recorded(c)

Backed == \A c \in Calls : BackedAt(c)

(***************************************************************************)
(* A step that brings call d no further.                                   *)
(***************************************************************************)
NoFurther(d) ==
  /\ op'[d] = op[d] /\ events \subseteq events' /\ wrote \subseteq wrote'
  /\ pc'[d] = "event" /\ op[d] \in EventOps => pc[d] = "event" /\ task'[d] = task[d]
  /\ pc'[d] = "commit" => pc[d] = "commit" \/ op[d] = "activate"
  /\ pc'[d] = "idle" => pc[d] = "idle"
  /\ "commit" \in outcome'[d] => "commit" \in outcome[d]

LEMMA NoFurtherKeeps ==
  ASSUME NEW d \in Calls, BackedAt(d), NoFurther(d)
  PROVE  BackedAt(d)'
<1>1. Recorded(d) => Recorded(d)'
  BY DEF Recorded, NoFurther
<1> QED
  BY <1>1 DEF BackedAt, NoFurther

LEMMA StartBacked ==
  ASSUME Control, Backed, NEW c \in Calls, Start(c)
  PROVE  Backed'
<1> c \in Actor
  BY DEF Actor
<1>1. /\ pc[c] = "idle" /\ pc'[c] \in {"read", "intent", "batch"}
      /\ UNCHANGED <<outcome, events, wrote>>
      /\ \A d \in Calls \ {c} : pc'[d] = pc[d] /\ op'[d] = op[d] /\ task'[d] = task[d]
  BY DEF Start, Begin, BeginPlain, Create, BeginBatch, EmitIntent, Goto, history, records,
         emitter, Control, TypeOK, Actor
<1>2. "commit" \notin outcome[c]
  BY <1>1 DEF Backed, BackedAt
<1>3. BackedAt(c)'
  BY <1>1, <1>2 DEF BackedAt
<1>4. ASSUME NEW d \in Calls \ {c} PROVE BackedAt(d)'
  BY <1>1, NoFurtherKeeps DEF NoFurther, Backed
<1> QED
  BY <1>3, <1>4 DEF Backed

LEMMA CallBacked ==
  ASSUME Control, Backed, NEW c \in Calls, Call(c)
  PROVE  Backed'
<1> c \in Actor /\ Calls \subseteq Actor
  BY DEF Actor
<1>1. CASE Read(c) \/ Write(c)
  <2>1. /\ op' = op /\ task' = task /\ outcome' = outcome
        /\ events' = events /\ wrote \subseteq wrote'
        /\ pc'[c] \in {"event", "write"} /\ \A d \in Calls \ {c} : pc'[d] = pc[d]
        /\ pc'[c] = "event" => op[c] = "problem" \/ <<c, task[c]>> \in wrote'
        /\ pc[c] # "idle"
    BY <1>1 DEF Read, Write, SaveTask, Goto, history, records, emitter, Control, TypeOK
  <2>2. Recorded(c) => Recorded(c)'
    BY <2>1 DEF Recorded
  <2>3. BackedAt(c)'
    BY <2>1, <2>2 DEF Backed, BackedAt
  <2>4. ASSUME NEW d \in Calls \ {c} PROVE BackedAt(d)'
    BY <2>1, NoFurtherKeeps DEF NoFurther, Backed
  <2> QED
    BY <2>3, <2>4 DEF Backed
<1>2. CASE Event(c)
  <2>1. /\ op' = op /\ outcome' = outcome /\ wrote' = wrote
        /\ events' = events \cup {<<c, task[c]>>} /\ task[c] \in Tasks
        /\ pc'[c] \in {"commit", "done"}
        /\ \A d \in Calls \ {c} : pc'[d] = pc[d] /\ task'[d] = task[d]
        /\ op[c] = "problem" \/ <<c, task[c]>> \in wrote
    BY <1>2 DEF Event, Leave, Forget, Goto, history, emitter, Control, TypeOK, TaskHeld,
                Backed, BackedAt, EventOps
  <2>2. Recorded(c)'
    BY <2>1 DEF Recorded
  <2>3. BackedAt(c)'
    BY <2>1, <2>2 DEF BackedAt
  <2>4. ASSUME NEW d \in Calls \ {c} PROVE BackedAt(d)'
    BY <2>1, NoFurtherKeeps DEF NoFurther, Backed
  <2> QED
    BY <2>3, <2>4 DEF Backed
<1>3. CASE Commit(c)
  <2>1. /\ UNCHANGED <<op, task, events, wrote>>
        /\ pc[c] = "commit" /\ pc'[c] = "done" /\ \A d \in Calls \ {c} : pc'[d] = pc[d]
        /\ \A d \in Calls \ {c} : outcome'[d] = outcome[d]
    BY <1>3 DEF Commit, AppendOutcome, Goto, history, records, Control, TypeOK, EmitterTypeOK
  <2>2. Recorded(c) => Recorded(c)'
    BY <2>1 DEF Recorded
  <2>3. BackedAt(c)'
    BY <2>1, <2>2 DEF Backed, BackedAt
  <2>4. ASSUME NEW d \in Calls \ {c} PROVE BackedAt(d)'
    BY <2>1, NoFurtherKeeps DEF NoFurther, Backed
  <2> QED
    BY <2>3, <2>4 DEF Backed
<1>4. CASE \/ Refuse(c) \/ WritePlain(c) \/ BodyRaises(c)
           \/ ActivationIntentFails(c) \/ FilterRejects(c) \/ Send(c)
  <2>1. /\ op' = op /\ outcome' = outcome /\ events' = events /\ wrote \subseteq wrote'
        /\ pc'[c] \in {"commit", "failing", "done"}
        /\ pc'[c] = "commit" => op[c] = "activate"
        /\ \A d \in Calls \ {c} : pc'[d] = pc[d] /\ task'[d] = task[d]
    BY <1>4 DEF Refuse, WritePlain, BodyRaises, ActivationIntentFails, FilterRejects, Send,
                Leave, Forget, SaveTask, Goto, history, records, emitter, Control, TypeOK, OpFits
  <2>2. \A d \in Calls : NoFurther(d)
    BY <2>1 DEF NoFurther
  <2> QED
    BY <2>2, NoFurtherKeeps DEF Backed
<1>5. CASE \/ Failure(c) \/ OutcomeRefused(c) \/ ActivationIntent(c)
           \/ Activate(c) \/ Route(c) \/ EndBatch(c)
  <2>1. /\ op' = op /\ task' = task /\ events' = events /\ wrote \subseteq wrote'
        /\ pc'[c] \in {"done", "write", "filter", "send"}
        /\ \A d \in Calls \ {c} : pc'[d] = pc[d]
    BY <1>5 DEF Failure, OutcomeRefused, ActivationIntent, Activate, Route, EndBatch,
                SaveTask, Goto, history, records, Control, TypeOK
  <2>2. \A d \in Calls : "commit" \in outcome'[d] => "commit" \in outcome[d]
    BY <1>5 DEF Failure, OutcomeRefused, ActivationIntent, Activate, Route, EndBatch,
                AppendOutcome, EmitIntent, emitter, Control, TypeOK, EmitterTypeOK
  <2>3. \A d \in Calls : NoFurther(d)
    BY <2>1, <2>2 DEF NoFurther
  <2> QED
    BY <2>3, NoFurtherKeeps DEF Backed
<1> QED
  BY <1>1, <1>2, <1>3, <1>4, <1>5 DEF Call

LEMMA BatchBacked ==
  ASSUME Control, Backed, NEW a \in Actor, Batch(a)
  PROVE  Backed'
<1> Calls \subseteq Actor
  BY DEF Actor
<1>1. /\ op' = op /\ outcome' = outcome /\ events \subseteq events' /\ wrote \subseteq wrote'
      /\ pc'[a] \in {"event", "batch", "done"} /\ op[a] \in ListOps
      /\ \A b \in Actor \ {a} : pc'[b] = pc[b] /\ task'[b] = task[b]
  BY DEF Batch, Expel, ExpelFails, HaltTask, HaltConflict, BatchEvent, BatchEventFails,
         Strike, Forget, SaveTask, Goto, history, records, emitter, Control, TypeOK,
         ListOps, BatchOps
<1>2. op[a] \notin EventOps
  BY <1>1 DEF EventOps, ListOps, ClusterOps, SettleOps, BatchOps, ScanOps
<1>3. \A d \in Calls : NoFurther(d)
  BY <1>1, <1>2 DEF NoFurther
<1> QED
  BY <1>3, NoFurtherKeeps DEF Backed

LEMMA OtherBacked ==
  ASSUME Control, Backed,
         \/ Loop \/ (\E t \in Tasks : Expire(t)) \/ Detector \/ Crash \/ UNCHANGED vars
  PROVE  Backed'
<1> Calls \subseteq Actor \ {Scheduler}
  BY TaskServiceAssumption DEF Actor
<1>1. \A d \in Calls : NoFurther(d)
  <2>1. CASE Loop
    BY <2>1 DEF Loop, Wake, NextScan, Sleep, Scan, Goto, history, records, emitter,
                NoFurther, Control, TypeOK
  <2>2. CASE \E t \in Tasks : Expire(t)
    BY <2>2 DEF Expire, control, history, records, emitter, NoFurther
  <2>3. CASE Detector
    BY <2>3 DEF Detector, OrphanScan, Age, OrphanCheck, OrphanAppend, OrphanAppendFails,
                AppendOutcome, control, history, records, NoFurther, Control, TypeOK,
                EmitterTypeOK
  <2>4. CASE Crash
    BY <2>4 DEF Crash, EmitterCrash, history, records, NoFurther
  <2>5. CASE UNCHANGED vars
    BY <2>5 DEF vars, control, history, records, emitter, NoFurther
  <2> QED
    BY <2>1, <2>2, <2>3, <2>4, <2>5
<1> QED
  BY <1>1, NoFurtherKeeps DEF Backed

(***************************************************************************)
(* A commit in the ledger tells the truth, whatever is refused, lost or    *)
(* interrupted.                                                            *)
(***************************************************************************)
THEOREM CommitsTellTheTruth == Spec => []CommitMeansRecorded
<1>1. Init => Backed
  BY DEF Init, EmitterInit, Backed, BackedAt, Actor
<1>2. Control /\ Backed /\ [Next]_vars => Backed'
  BY StartBacked, CallBacked, BatchBacked, OtherBacked DEF Next
<1>3. Backed => CommitMeansRecorded
  BY DEF Backed, BackedAt, Recorded, CommitMeansRecorded
<1> QED
  BY <1>1, <1>2, <1>3, ControlInvariant, PTL DEF Spec

-----------------------------------------------------------------------------
(***************************************************************************)
(* The halt.  Only the halt itself takes its call from its list to the     *)
(* event of a task.                                                        *)
(***************************************************************************)
LEMMA OnlyTheHaltMoves ==
  ASSUME Control, [Next]_vars, NEW c \in Calls,
         op[c] = "system_halt", pc[c] = "batch", pc'[c] = "event"
  PROVE  \E t \in Tasks : HaltTask(c, t)
<1> c \in Actor /\ Scheduler \in Actor /\ c # Scheduler
  BY TaskServiceAssumption DEF Actor
<1>1. ASSUME NEW d \in Calls, Start(d) \/ Call(d) PROVE FALSE
  BY <1>1 DEF Start, Begin, BeginPlain, Create, BeginBatch, Call, Read, Refuse, Write,
     WritePlain, Event, BodyRaises, Commit, Failure, OutcomeRefused, ActivationIntent,
     ActivationIntentFails, Activate, FilterRejects, Route, Send, EndBatch, Leave, Goto,
     Control, TypeOK, Actor, BatchOps, ClusterOps, SettleOps, PlainOps
<1>2. ASSUME NEW a \in Actor, Batch(a) PROVE \E t \in Tasks : HaltTask(c, t)
  <2>1. a = c
    BY <1>2 DEF Batch, Expel, ExpelFails, HaltTask, HaltConflict, BatchEvent,
                BatchEventFails, Strike, Goto, Control, TypeOK
  <2> QED
    BY <1>2, <2>1 DEF Batch, Expel, ExpelFails, HaltConflict, BatchEvent, BatchEventFails,
                      Strike, Goto, Control, TypeOK, ScanOps
<1>3. CASE Loop
  BY <1>3 DEF Loop, Wake, NextScan, Sleep, Scan, Goto, Control, TypeOK
<1>4. CASE (\E t \in Tasks : Expire(t)) \/ Detector \/ UNCHANGED vars
  BY <1>4 DEF Expire, Detector, control, vars
<1>5. CASE Crash
  BY <1>5 DEF Crash
<1> QED
  BY <1>1, <1>2, <1>3, <1>4, <1>5 DEF Next

(***************************************************************************)
(* Whatever the other calls and the scheduler have done since the halt     *)
(* drew up its list, it moves a task only from the status it categorised   *)
(* the task by.                                                            *)
(***************************************************************************)
THEOREM HaltKeepsToConsent == Spec => HaltRespectsConsent
<1>1. Control /\ [Next]_vars => [HaltMovesByConsent]_vars
  <2> SUFFICES ASSUME Control, [Next]_vars, NEW c \in Calls,
                      op[c] = "system_halt", pc[c] = "batch", pc'[c] = "event",
                      NEW u \in Tasks, status'[u] # status[u]
               PROVE  /\ status[u] \in Active
                      /\ status'[u] = "nullified" <=> status[u] \in PreConsent
    BY DEF HaltMovesByConsent
  <2>1. PICK t \in Tasks : HaltTask(c, t)
    BY OnlyTheHaltMoves
  <2>2. u = t /\ status'[u] = HaltTarget(status[u])
    BY <2>1 DEF HaltTask, SaveTask, Control, TypeOK
  <2>3. status[u] \in Active
    BY <2>1, <2>2 DEF HaltTask, Control, SnapFits, BatchOps, Actor
  <2> QED
    BY <2>2, <2>3 DEF HaltTarget
<1> QED
  BY <1>1, ControlInvariant, PTL DEF Spec, HaltRespectsConsent
=============================================================================
