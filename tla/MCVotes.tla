------------------------------- MODULE MCVotes ------------------------------
(***************************************************************************)
(* Instances of ConclaveVoting for TLC: two motions, two archons, and the  *)
(* ways of validation as families of initial states.                       *)
(***************************************************************************)
EXTENDS ConclaveVoting

CONSTANTS a1, a2

TwoMotions == {1, 2}
TwoArchons == {a1, a2}
AyeNay     == {"aye", "nay"}
AllModes   == {"inprocess", "kafka", "direct"}

\* Motion 2 found no second in the session that was loaded.
OneMotion == mstatus = [m \in Motions |-> IF m = 2 THEN "proposed" ELSE "none"]
BothMotions == mstatus = [m \in Motions |-> "none"]

\* Background validation: two votes of one motion, or one vote of each of two.
InProcess ==
  /\ mode = "inprocess"
  /\ \/ OneMotion /\ present = {a1, a2}
     \/ BothMotions /\ present = {a1}

\* The Kafka pipeline: a vote of each of two motions, or one vote that is retried.
Kafka ==
  /\ mode = "kafka"
  /\ \/ BothMotions /\ present = {a1}
     \/ OneMotion /\ present = {a2}

VotesOfA2 == TwoMotions \X {a2}

Direct ==
  /\ mode = "direct"
  /\ OneMotion
  /\ present = {a1, a2}

MCInit == Init /\ (InProcess \/ Kafka \/ Direct)

MCSpec == MCInit /\ [][Next]_vars
MCFairSpec == MCSpec /\ Fairness
=============================================================================
