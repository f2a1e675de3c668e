-------------------------- MODULE MCTaxisExecution --------------------------
(* Instances of TaxisExecution for TLC.                                     *)
EXTENDS TaxisExecution, SequencesExt, TLC

CONSTANTS v1, v2, v3, a, b

\* One transaction; b after a in the other instances, and before it in blocks.
MCAlone == [x \in Txs |-> None]
MCAfter == [x \in Txs |-> IF x = b THEN a ELSE None]
MCBlindOrder == <<b, a>>
MCOneTx == <<a>>

\* A Byzantine proposer's choices: any transactions, and shares for itself, for the
\* others, for all or for none, every one real or every one made up.
MCAnyBlock ==
  [txs : UNION {SetToSeqs(s) : s \in SUBSET Txs},
   reveals : {[x \in Txs |-> [m \in Members |-> IF m \in s THEN share ELSE None]] :
                s \in {{}, Byzantine, Honest, Members}, share \in Shares}]

\* A Byzantine proposer that leaves everything out.
MCEmptyBlock == {[txs |-> <<>>, reveals |-> NoOpenings]}

\* Byzantine members gossip shares that do not authenticate, or nothing.
MCGarbage == [tx : Txs, member : Byzantine, share : {"garbage"}]

\* Nothing tells the honest validators apart.
Peers == Permutations({v1, v2})
=============================================================================
