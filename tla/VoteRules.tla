----------------------------- MODULE VoteRules ------------------------------
(***************************************************************************)
(* What a vote of the Conclave is and when it counts: the choices, the     *)
(* agreement of the two secretaries, the adjudicated vote and the two      *)
(* thirds that carry a motion.  Shared by the Kafka pipeline of vote       *)
(* validation and by the Conclave session.                                 *)
(***************************************************************************)
EXTENDS Naturals, FiniteSets

CONSTANTS
  Motions,      \* motions put to the Conclave, numbered as the script lists them
  Archons,      \* archons marked present
  Readings      \* what an archon or a secretary may say of one response

Choices  == {"aye", "nay", "abstain"}
NoChoice == "none"

ASSUME VoteAssumption ==
  /\ Motions \subseteq Nat \ {0}
  /\ Readings \subseteq Choices
  /\ IsFiniteSet(Archons)

\* One vote per archon and motion.
VoteIds == Motions \X Archons

\* The two secretaries; the witness only observes.
Roles == {"text", "json"}

\* Mutant: one secretary's word is enough when the other has none.
AgreedByAny(text, json) == text # NoChoice /\ json \in {text, NoChoice}

\* check_secretary_consensus, _witness_adjudicate: both spoke and said the same.
Agreed(text, json) == text # NoChoice /\ text = json

\* Mutant: without agreement the text secretary decides.
AdjudicatedByText(optimistic, text, json) ==
  IF text # NoChoice THEN text ELSE optimistic

\* The final vote of an adjudication: without agreement the optimistic one stays.
Adjudicated(optimistic, text, json) ==
  IF Agreed(text, json) THEN text ELSE optimistic

Count(ballot, c) == Cardinality({a \in Archons : ballot[a] = c})

(***************************************************************************)
(* tally_votes and _recompute_motion_result: two thirds of the ayes and    *)
(* nays; with nothing but abstentions a motion fails.                      *)
(***************************************************************************)
Tally(ballot) ==
  LET ayes == Count(ballot, "aye")
      cast == ayes + Count(ballot, "nay") IN
  IF cast > 0 /\ 3 * ayes >= 2 * cast THEN "passed" ELSE "failed"
=============================================================================
