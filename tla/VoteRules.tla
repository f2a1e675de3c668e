------------------------------ MODULE VoteRules ------------------------------
(***************************************************************************)
(* What a TAXIS cell promises about votes, at one height.                  *)
(*                                                                         *)
(* This is the abstract specification of the consensus engine: it does not *)
(* say when a validator votes, only which votes an honest one may add to   *)
(* those already signed.  One step of an honest validator may add several  *)
(* votes, because one call of ConsensusEngine::step cascades: accepting a  *)
(* vote can complete a PREPARE quorum, send a COMMIT, end the round, and   *)
(* re-prepare the locked block in the next one.                            *)
(***************************************************************************)
EXTENDS TaxisVotes

VARIABLES round,      \* round[v]: the round honest validator v is in
          votes,      \* every vote signed so far at this height
          decided     \* decided[v]: the block v finalized, or None

vars == <<round, votes, decided>>

\* sent_prepare and sent_commit: one vote per phase and round.
OnePerRound(v, vs, D) ==
  \A x \in D : \A y \in vs \cup D :
     (y.voter = v /\ y.phase = x.phase /\ y.round = x.round) => y.block = x.block

\* check_prepared: a COMMIT needs the PREPARE quorum of its own round.
CommitsBacked(vs, D) ==
  \A x \in D : x.phase = "commit" =>
                 x.block \in Blocks /\ Polka(vs \cup D, x.round, x.block)

\* The lock gate of on_propose, with unlocks_us: having committed to another
\* block, v prepares x only on a PREPARE quorum for it from a later round.
\* The certificate came in a message, so its votes were there before the step.
LockRespected(v, vs, D) ==
  \A x \in D : \A y \in vs \cup D :
     ( /\ x.phase = "prepare" /\ x.block \in Blocks
       /\ y.voter = v /\ y.phase = "commit" /\ y.round < x.round
       /\ y.block # x.block )
     => \E p \in (y.round + 1) .. x.round : Polka(vs, p, x.block)

\* v moves from round lo to round hi and adds the votes D to vs.
Cast(v, lo, hi, vs, D) ==
  /\ lo <= hi
  /\ \A x \in D : x \in Vote /\ x.voter = v /\ lo <= x.round /\ x.round <= hi
  /\ OnePerRound(v, vs, D)
  /\ CommitsBacked(vs, D)
  /\ LockRespected(v, vs, D)

\* finalize: a validator decides on a COMMIT certificate, however it came by it.
MayDecide(b, vs) == b \in Blocks /\ \E x \in vs : CommitCert(vs, x.round, b)

HonestStep(v) ==
  /\ votes \subseteq votes'
  /\ round' = [round EXCEPT ![v] = round'[v]]
  /\ round'[v] \in Nat
  /\ Cast(v, round[v], round'[v], votes, votes' \ votes)
  /\ \/ UNCHANGED decided
     \/ /\ decided[v] = None
        /\ decided' = [decided EXCEPT ![v] = decided'[v]]
        /\ MayDecide(decided'[v], votes')

\* A Byzantine validator signs anything, in its own name.
ByzantineStep ==
  /\ votes \subseteq votes'
  /\ \A x \in votes' \ votes : x \in Vote /\ x.voter \in Byzantine
  /\ UNCHANGED <<round, decided>>

Init ==
  /\ round = [v \in Honest |-> 0]
  /\ \A x \in votes : x \in Vote /\ x.voter \in Byzantine
  /\ decided = [v \in Honest |-> None]

Next == ByzantineStep \/ \E v \in Honest : HonestStep(v)

Spec == Init /\ [][Next]_vars

-----------------------------------------------------------------------------
TypeOK ==
  /\ round \in [Honest -> Nat]
  /\ votes \subseteq Vote
  /\ decided \in [Honest -> Blocks \cup {None}]

\* Two honest validators never finalize different blocks at one height.
Agreement == \A v, w \in Honest : (decided[v] # None /\ decided[w] # None) => decided[v] = decided[w]
=============================================================================
