---------------------------- MODULE PetitionRules ----------------------------
(***************************************************************************)
(* The states of a petition and of a Knight referral, and the transitions  *)
(* the domain layer allows (domain/models/petition_submission.py and       *)
(* domain/models/referral.py).  Everything here is constant.               *)
(***************************************************************************)
EXTENDS Naturals

Fates    == {"ACKNOWLEDGED", "REFERRED", "ESCALATED", "DEFERRED", "NO_RESPONSE"}
OpenStates == {"RECEIVED", "DELIBERATING"}
\* "none" is a petition nobody has submitted yet.
PetitionState == OpenStates \cup Fates \cup {"none"}

\* STATE_TRANSITION_MATRIX: what assign_fate_cas accepts.
ValidFates(s) ==
  CASE s = "RECEIVED"     -> {"DELIBERATING", "ACKNOWLEDGED", "ESCALATED"}
    [] s = "DELIBERATING" -> Fates
    [] OTHER              -> {}

ReferralStatus == {"none", "PENDING", "ASSIGNED", "IN_REVIEW", "COMPLETED", "EXPIRED"}
MaxExtensions  == 2
Referral == [st : ReferralStatus, ext : 0..MaxExtensions]
NoReferral == [st |-> "none", ext |-> 0]

\* Operations that write the referral they read earlier, and what they need.
RefOps == {"assign", "extend", "advise_ack", "advise_esc"}
AcceptsReferral(o, x) ==
  CASE o = "assign" -> x.st = "PENDING"
    [] o = "extend" -> x.st \in {"ASSIGNED", "IN_REVIEW"} /\ x.ext < MaxExtensions
    [] OTHER        -> x.st = "IN_REVIEW"

\* with_assignment, with_extension, with_recommendation of the record read.
Updated(o, x) ==
  CASE o = "assign" -> [x EXCEPT !.st = "ASSIGNED"]
    [] o = "extend" -> [x EXCEPT !.ext = @ + 1]
    [] OTHER        -> [x EXCEPT !.st = "COMPLETED"]

\* process_timeout goes on only with a referral in one of these.
Expirable == {"PENDING", "ASSIGNED", "IN_REVIEW"}

\* Mutant: an expired referral does not acknowledge a REFERRED petition.
AcknowledgeableOnce(o) == {"DELIBERATING"}

(***************************************************************************)
(* AcknowledgmentExecutionService.execute: the petition states accepted.   *)
(* A Knight's recommendation (advise_ack) and an expired referral          *)
(* (timeout) may also acknowledge a petition that is already REFERRED.     *)
(***************************************************************************)
Acknowledgeable(o) ==
  IF o \in {"advise_ack", "timeout"} THEN {"DELIBERATING", "REFERRED"}
  ELSE {"DELIBERATING"}
=============================================================================
