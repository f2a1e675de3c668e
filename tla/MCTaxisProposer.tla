-------------------------- MODULE MCTaxisProposer --------------------------
(* Three honest validators for TLC; v1 leads the even rounds, v2 the others. *)
EXTENDS TaxisProposer

CONSTANTS v1, v2, v3, c1, c2

MCLeader == [r \in Rounds |-> IF r % 2 = 0 THEN v1 ELSE v2]

\* Each proposer's mempool, under either certificate of the parent.
MCBlocks == [proposer : {v1, v2}, txs : {"t"}, last_commit : {c1, c2}]
MCProposer == [b \in Blocks |-> b.proposer]
MCLastCert == [v \in Validators |-> IF v = v1 THEN c1 ELSE c2]

\* At height 0 there is no certificate to differ in.
MCGenesisBlocks == [proposer : {v1, v2}, txs : {"t"}, last_commit : {c1}]
MCGenesisCert == [v \in Validators |-> c1]

\* The tickets of round 0 put v2 first.
MCTicket == [v \in Validators |-> IF v = v2 THEN 1 ELSE IF v = v1 THEN 2 ELSE 3]
=============================================================================
