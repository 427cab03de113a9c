----------------------------- MODULE MCPetitions -----------------------------
(***************************************************************************)
(* One petition, p1, with its deadline job, and one job of another kind.   *)
(* Two families of behaviours: two requests at any stage of the petition   *)
(* and one worker; two workers on the two jobs, with no request.           *)
(***************************************************************************)
EXTENDS PetitionSystem

CONSTANTS p1, j2, r1, r2, s1, s2, w1, w2

MCJobs       == {p1, j2}
MCPetitionSet == {p1}
MCRequests   == {r1, r2}
MCSigners    == {s1, s2}
MCWorkers    == {w1, w2}

TakesPart(a) == IF a \in Workers THEN wpc[a] = "new" ELSE pc[a] = "ready"

TwoRequestsAndAWorker ==
  /\ {a \in Actors : TakesPart(a)} = {r1, r2, w1}
  /\ status[j2] = "completed" /\ handled = MCJobs

TwoWorkers ==
  /\ {a \in Actors : TakesPart(a)} = {w1, w2}
  /\ state[p1] = "REFERRED" /\ ref[p1].st = "IN_REVIEW"
  /\ status[j2] = "none" /\ p1 \in handled
  /\ overlap

MCInit ==
  /\ Init
  /\ pet = [a \in Actors |-> p1]
  /\ signer = [a \in Actors |-> s1]
  /\ TwoRequestsAndAWorker \/ TwoWorkers
MCSpec == MCInit /\ [][Next]_vars
MCFairSpec == MCSpec /\ Fairness
=============================================================================
