------------------------------ MODULE TaskRules ------------------------------
(***************************************************************************)
(* The statuses of a governance task and the rules by which each kind of   *)
(* operation moves a task from one status to another.  Everything here is  *)
(* constant: it is the domain layer (domain/governance/task) plus, for     *)
(* every operation of the application services, the statuses it accepts    *)
(* and the status it writes.                                               *)
(***************************************************************************)

PreConsent  == {"authorized", "activated", "routed"}
PostConsent == {"accepted", "in_progress", "reported", "aggregated"}
Terminal    == {"completed", "declined", "quarantined", "nullified"}
TaskStatus  == PreConsent \cup PostConsent \cup Terminal

(***************************************************************************)
(* "none" is a task nobody has created yet, or the absence of a status in  *)
(* what an operation has read.                                             *)
(***************************************************************************)
Slot == TaskStatus \cup {"none"}

(***************************************************************************)
(* TaskTransitionRules.VALID_TRANSITIONS: TaskState.transition() raises    *)
(* IllegalStateTransitionError for every pair that is not in it.           *)
(***************************************************************************)
ValidTransitions ==
  {<<"authorized", "activated">>, <<"authorized", "nullified">>,
   <<"activated", "routed">>, <<"activated", "nullified">>,
   <<"routed", "accepted">>, <<"routed", "declined">>, <<"routed", "nullified">>,
   <<"accepted", "in_progress">>, <<"accepted", "declined">>,
   <<"accepted", "quarantined">>,
   <<"in_progress", "reported">>, <<"in_progress", "quarantined">>,
   <<"reported", "aggregated">>, <<"reported", "completed">>,
   <<"aggregated", "completed">>}

\* Mutant: a halt leaves tasks in a status of its own.
HaltTargetOwnStatus(s) == "halted"

(***************************************************************************)
(* get_halt_target: where a system halt puts a task, by consent category.  *)
(* Exit of a Cluster uses the same split (RELEASE_CATEGORIES).             *)
(***************************************************************************)
HaltTarget(s) == IF s \in PreConsent THEN "nullified" ELSE "quarantined"
ReleaseTarget(s) == IF s \in PreConsent THEN "nullified" ELSE "quarantined"

(***************************************************************************)
(* The operations.  ClusterOps check that the caller is the Cluster the    *)
(* task is addressed to; SettleOps are the Earl's settlement of a reported *)
(* result; these two kinds run inside a two-phase execution.  PlainOps     *)
(* read, transition and save with neither intent nor event.                *)
(***************************************************************************)
ClusterOps  == {"accept", "decline", "halt", "result", "problem"}
SettleOps   == {"complete", "aggregate"}
PlainOps    == {"start", "route"}
BatchOps    == {"system_halt", "release"}
ScanOps     == {"ttl", "inactivity", "reporting"}
CallOps     == ClusterOps \cup SettleOps \cup PlainOps \cup BatchOps \cup {"activate"}

\* Mutant: work may be settled before it is reported.
AcceptsEarly(o) ==
  CASE o = "accept"    -> {"routed"}
    [] o = "decline"   -> {"routed", "accepted"}
    [] o \in {"halt", "result", "problem"} -> {"in_progress"}
    [] o = "complete"  -> {"in_progress", "reported", "aggregated"}
    [] o = "aggregate" -> {"reported"}
    [] o = "start"     -> {"accepted"}
    [] o = "route"     -> {"activated"}
    [] OTHER           -> {}

(***************************************************************************)
(* The statuses in which an operation goes ahead, and the status it saves  *)
(* when it read s.  A problem report leaves the status as it is.           *)
(***************************************************************************)
Accepts(o) ==
  CASE o = "accept"    -> {"routed"}
    [] o = "decline"   -> {"routed", "accepted"}
    [] o \in {"halt", "result", "problem"} -> {"in_progress"}
    [] o = "complete"  -> {"reported", "aggregated"}
    [] o = "aggregate" -> {"reported"}
    [] o = "start"     -> {"accepted"}
    [] o = "route"     -> {"activated"}
    [] OTHER           -> {}

\* Mutant: the reporting deadline is looked for among reported tasks.
ScanStatusTooLate(o) ==
  CASE o = "ttl"        -> "routed"
    [] o = "inactivity" -> "accepted"
    [] OTHER            -> "reported"

ScanStatus(o) ==
  CASE o = "ttl"        -> "routed"
    [] o = "inactivity" -> "accepted"
    [] OTHER            -> "in_progress"

\* Mutant: silence is taken for consent.
ScanTargetImplied(o) ==
  CASE o = "ttl"        -> "accepted"
    [] o = "inactivity" -> "in_progress"
    [] OTHER            -> "quarantined"

ScanTarget(o) ==
  CASE o = "ttl"        -> "declined"
    [] o = "inactivity" -> "in_progress"
    [] OTHER            -> "quarantined"

Target(o, s) ==
  CASE o = "accept"      -> "accepted"
    [] o = "decline"     -> "declined"
    [] o = "halt"        -> "quarantined"
    [] o = "result"      -> "reported"
    [] o = "complete"    -> "completed"
    [] o = "aggregate"   -> "aggregated"
    [] o = "start"       -> "in_progress"
    [] o = "route"       -> "routed"
    [] o = "activate"    -> "activated"
    [] o = "system_halt" -> HaltTarget(s)
    [] o = "release"     -> ReleaseTarget(s)
    [] o \in ScanOps     -> ScanTarget(o)
    [] OTHER             -> s
=============================================================================
