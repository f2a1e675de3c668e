----------------------------- MODULE CellQuorum -----------------------------
(***************************************************************************)
(* The quorum system of one TAXIS consensus cell (fanos-taxis/params.rs).  *)
(*                                                                         *)
(* CellParams::for_order derives, from the number n of validators alone,   *)
(* the fault budget f and the finality quorum Q.  Here n is the size of an *)
(* arbitrary finite set of validators: the projective orders of the code   *)
(* (n = 7, 13, 21, ...) are instances, and so are the smaller cells TLC    *)
(* explores.                                                               *)
(***************************************************************************)
EXTENDS Integers, FiniteSets

CONSTANTS Validators,   \* the validators of the cell
          Byzantine     \* those that do not follow the protocol

N == Cardinality(Validators)

\* The fault budget: fanos_geometry::fault_budget(n).
F == (N - 1) \div 3

\* Mutant of Q: half of n + f, one vote too few.
Q_Floor == (N + F) \div 2

\* The finality quorum: the ceiling of (n + f + 1) / 2.
Q == (N + F + 2) \div 2

Honest == Validators \ Byzantine

\* At least Q distinct validators: what Certificate::verify counts.
IsQuorum(S) == Cardinality(S) >= Q

ASSUME CellAssumption ==
  /\ IsFiniteSet(Validators)
  /\ Validators # {}
  /\ Byzantine \subseteq Validators
  /\ Cardinality(Byzantine) <= F
=============================================================================
