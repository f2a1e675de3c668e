--------------------------- MODULE MCTaxisRestart ---------------------------
(* Four validators for TLC, none Byzantine, one of which restarts.          *)
EXTENDS TaxisRestart, TLC

CONSTANTS v1, v2, v3, v4, A, B

\* v1 leads, restarts, and having forgotten its proposal makes another.
MCLeader == [r \in Rounds |-> v1]
MCProposer == [b \in Blocks |-> v1]

\* Nothing tells the followers apart.
Followers == Permutations({v2, v3, v4})
============================================================================
