----------------------------- MODULE TaxisTimely -----------------------------
(***************************************************************************)
(* A TAXIS cell whose network becomes timely (fanos-taxis/consensus.rs).   *)
(*                                                                         *)
(* TaxisCell runs until, at an arbitrary moment, the Byzantine members     *)
(* fall silent and messages start to arrive within the round they are sent *)
(* in.  From then on the cell goes from round to round together, and one   *)
(* action is one round: a locked validator prepares its lock on entering,  *)
(* the leader and every locked validator offer a block, the others prepare *)
(* the first offer to reach them, and a block a quorum prepares is decided.*)
(* The number of these rounds is not bounded.                              *)
(***************************************************************************)
EXTENDS TaxisCell

VARIABLE timely

tvars == <<vars, timely>>

BecomesTimely ==
  /\ ~timely
  /\ timely' = TRUE
  /\ UNCHANGED vars

\* The blocks locked validators offer again, each with the proof of its lock.
Reoffers == {locked[w].block : w \in {u \in Honest : locked[u] # None}}

\* maybe_propose by the leader, if it is one that speaks.
LeaderOffers(l) ==
  IF l \in Byzantine THEN {Nil}
  ELSE IF locked[l] # None THEN {locked[l].block}
  ELSE Blocks

\* Mutant of FirstPrepare: no reprepare_lock.
FirstPrepare_NoLock(v, os) == IF locked[v] # None THEN {Nil} ELSE os

\* What v's one PREPARE of the round can be for, given the offers: its lock, which
\* reprepare_lock prepares before any offer can arrive, or the first offer.
FirstPrepare(v, os) == IF locked[v] # None THEN {locked[v].block} ELSE os

\* The round led by l.  The bodies of locked blocks have been fetched.
TimelyRound(l) ==
  /\ timely
  /\ \A v \in Honest : Active(v)
  /\ \E o \in LeaderOffers(l) :
       LET os == IF Reoffers \cup {o} = {Nil} THEN {Nil} ELSE (Reoffers \cup {o}) \ {Nil}
       IN  \E prepares \in [Honest -> Blocks \cup {Nil}] :
             /\ \A v \in Honest : prepares[v] \in FirstPrepare(v, os)
             /\ decided' =
                  LET won == {b \in Blocks : IsQuorum({v \in Honest : prepares[v] = b})}
                  IN  IF won = {} THEN decided
                      ELSE [v \in Honest |-> CHOOSE b \in won : TRUE]
  /\ UNCHANGED <<round, held, sentPrepare, sentCommit, locked, pending, votes, timely>>

\* A decision made by one validator reaches the others: adopt_commit_cert, on_body.
TimelyCatchUp ==
  /\ timely
  /\ \E v, w \in Honest : Active(v) /\ ~Active(w)
  /\ \E w \in Honest : ~Active(w) /\ decided' = [v \in Honest |-> decided[w]]
  /\ UNCHANGED <<round, held, sentPrepare, sentCommit, locked, pending, votes, timely>>

TInit == Init /\ timely = FALSE

TNext ==
  \/ ~timely /\ Next /\ UNCHANGED timely
  \/ BecomesTimely
  \/ \E l \in Validators : TimelyRound(l)
  \/ TimelyCatchUp

\* The network does become timely, rounds go on, and the rota reaches every
\* validator again and again (committee::leader hashes the round).
TSpec ==
  /\ TInit /\ [][TNext]_tvars
  /\ WF_tvars(BecomesTimely)
  /\ WF_tvars(TimelyCatchUp)
  /\ \A l \in Validators : WF_tvars(TimelyRound(l))

-----------------------------------------------------------------------------
\* CellParams::is_live, "the honest validators alone contain a quorum, so progress
\* never requires a Byzantine vote": however the locks fell before, every honest
\* validator decides.
HonestProgress == <>(\A v \in Honest : ~Active(v))
=============================================================================
