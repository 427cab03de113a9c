------------------------------- MODULE TaskFsm -------------------------------
(***************************************************************************)
(* What the task services promise of a task's status, without saying how:  *)
(* a task is created as authorized, every later change is a pair of        *)
(* VALID_TRANSITIONS or a halt or an exit of an active task, and a         *)
(* terminal status never changes.                                          *)
(***************************************************************************)
EXTENDS TaskRules

CONSTANT Tasks

VARIABLE status

Init == status \in [Tasks -> Slot]

Create(t) ==
  /\ status[t] = "none"
  /\ status' = [status EXCEPT ![t] = "authorized"]

Move(t) ==
  \E s \in TaskStatus :
    /\ <<status[t], s>> \in ValidTransitions
    /\ status' = [status EXCEPT ![t] = s]

Stop(t) ==
  /\ status[t] \in PreConsent \cup PostConsent
  /\ status' = [status EXCEPT ![t] = HaltTarget(status[t])]

Next == \E t \in Tasks : Create(t) \/ Move(t) \/ Stop(t)

Spec == Init /\ [][Next]_status
=============================================================================
