------------------------------ MODULE MCTwoPhase ------------------------------
(* The instances of TwoPhaseExecution for TLC: three executions.           *)
EXTENDS TwoPhaseExecution
CONSTANTS c1, c2, c3
=============================================================================
