---------------------------- MODULE MCTaxisTimely ----------------------------
(* Cells of three and of four validators for TLC.                            *)
EXTENDS TaxisTimely

CONSTANTS v1, v2, v3, v4, A, B

MCLeader == [r \in Rounds |-> IF r = 0 THEN v1 ELSE v2]
MCProposer == [b \in Blocks |-> IF b = A THEN v1 ELSE v2]
=============================================================================
