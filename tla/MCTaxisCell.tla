---------------------------- MODULE MCTaxisCell ----------------------------
(* A cell of four validators for TLC, one of them Byzantine.                *)
EXTENDS TaxisCell, TLC

CONSTANTS v1, v2, v3, v4, A, B

\* The Byzantine v4 leads round 0 with A, the honest v1 round 1 with B.
MCLeader == [r \in Rounds |-> IF r = 0 THEN v4 ELSE v1]
MCProposer == [b \in Blocks |-> IF b = A THEN v4 ELSE v1]

\* v4 equivocates: both blocks are its own.
MCOneProposer == [b \in Blocks |-> v4]

\* Nothing tells the two followers apart.
Followers == Permutations({v2, v3})
============================================================================
