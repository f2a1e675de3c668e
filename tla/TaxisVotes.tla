------------------------------ MODULE TaxisVotes ------------------------------
(***************************************************************************)
(* Votes and certificates at one height (fanos-taxis/vote.rs).             *)
(*                                                                         *)
(* A signature is unforgeable, so a vote is the record it signs and exists *)
(* exactly when its voter signed it; a certificate exists exactly when a   *)
(* quorum of matching votes does.                                          *)
(***************************************************************************)
EXTENDS CellQuorum

CONSTANTS Blocks,     \* the blocks that can be proposed, standing for their hashes
          Nil,        \* the hash of a vote for nothing (vote.rs, NIL)
          None        \* the absence of a value

ASSUME VotesAssumption == Nil \notin Blocks /\ None \notin Blocks

Vote == [phase : {"prepare", "commit"}, round : Nat,
         block : Blocks \cup {Nil}, voter : Validators]

MkVote(ph, r, b, v) == [phase |-> ph, round |-> r, block |-> b, voter |-> v]

\* The validators whose vote for b in phase ph of round r is among vs.
VotersIn(vs, ph, r, b) == {v \in Validators : MkVote(ph, r, b, v) \in vs}

\* A PREPARE certificate for b at round r can be assembled from vs.
Polka(vs, r, b) == IsQuorum(VotersIn(vs, "prepare", r, b))

\* A COMMIT certificate for b at round r can be assembled from vs.
CommitCert(vs, r, b) == IsQuorum(VotersIn(vs, "commit", r, b))
=============================================================================
