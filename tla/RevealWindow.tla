---------------------------- MODULE RevealWindow ----------------------------
(***************************************************************************)
(* When a finalized block executes, and what it opens: the part of         *)
(* fanos-taxis/consensus.rs that reads only the chain.                     *)
(*                                                                         *)
(* A block orders sealed transactions.  Their openings, one Shamir share   *)
(* per member of the sealing committee, are committed by later blocks.     *)
(* The chain is the sequence of blocks consensus agreed on; heights count  *)
(* from 0, so the block of height h is chain[h + 1].                       *)
(***************************************************************************)
EXTENDS Integers, Sequences, FiniteSets, FiniteSetsExt

CONSTANTS Members,    \* the sealing committee: the whole cell
          Threshold,  \* seal_threshold
          Txs,        \* the sealed transactions, each named by its commitment
          Window,     \* REVEAL_WINDOW
          None

\* A committed share is the member's own, or bytes that do not authenticate.
Shares == {"genuine", "garbage"}

ASSUME RevealConstants ==
  /\ IsFiniteSet(Members)
  /\ Threshold \in Nat \ {0}
  /\ Window \in Nat \ {0}
  /\ None \notin Nat \cup Shares

\* Openings as `member -> share` per transaction; None where there is none.
Openings == [Txs -> [Members -> Shares \cup {None}]]

BlockAt(chain, h) == chain[h + 1]

\* openings_in: the share of m for x committed first in (after, through].
OpeningsIn(chain, after, through, x, m) ==
  LET hs == {h \in after + 1 .. through : BlockAt(chain, h).reveals[x][m] # None}
  IN IF hs = {} THEN None ELSE BlockAt(chain, Min(hs)).reveals[x][m]

\* open_from_subset: some Threshold of the shares authenticates.
Opens(chain, h0, h, x) ==
  Cardinality({m \in Members : OpeningsIn(chain, h0, h, x, m) = "genuine"}) >= Threshold

TxsAt(chain, h) == {BlockAt(chain, h).txs[i] : i \in DOMAIN BlockAt(chain, h).txs}

AllOpen(chain, h0, h) == \A x \in TxsAt(chain, h0) : Opens(chain, h0, h, x)

ExecutionHeight_NoBackstop(chain, next, h0) ==
  LET opening == {h \in h0 + 1 .. next - 1 : AllOpen(chain, h0, h)}
  IN IF opening # {} THEN Min(opening) ELSE None

\* execution_height of block h0 for a validator whose next height is next.
ExecutionHeight(chain, next, h0) ==
  LET opening == {h \in h0 + 1 .. h0 + Window : h < next /\ AllOpen(chain, h0, h)}
  IN IF opening # {} THEN Min(opening)
     ELSE IF h0 + Window < next THEN h0 + Window
     ELSE None

\* try_execute: what block h0 opens to when it executes at height at.
Opened(chain, h0, at) == {x \in TxsAt(chain, h0) : Opens(chain, h0, at, x)}

\* The members with any share committed in the interval, the block's own or not.
Revealers(chain, h0, at) ==
  {m \in Members : \E x \in Txs : OpeningsIn(chain, h0, at, x, m) # None}

\* incentive::reveal_gated_beneficiaries, of a certificate signed by everyone.
Paid(chain, h0, at) ==
  IF TxsAt(chain, h0) = {} THEN Members ELSE Revealers(chain, h0, at)

\* reveals_to_commit at height: what a proposer with the gossip pool and the
\* blocks from `done` on still to execute commits of (x, m).
RevealsToCommit(chain, pool, done, height) ==
  LET floor == IF height > Window THEN height - Window ELSE 0
      after == IF floor > 0 THEN floor - 1 ELSE 0
      waiting == UNION {TxsAt(chain, h) : h \in {h \in done .. height - 1 : h >= floor}}
  IN [x \in Txs |-> [m \in Members |->
        IF x \in waiting /\ OpeningsIn(chain, after, height - 1, x, m) = None
        THEN pool[x][m] ELSE None]]
=============================================================================
