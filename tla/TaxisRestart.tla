---------------------------- MODULE TaxisRestart ----------------------------
(***************************************************************************)
(* A cell whose validators crash and restart (fanos-node/taxis_driver.rs). *)
(*                                                                         *)
(* The driver persists one thing: the last executed-state checkpoint it    *)
(* could serve a peer.  A restarted validator adopts it through on_sync_   *)
(* resp and walks forward like any laggard: of the height after it, it     *)
(* remembers neither the votes it signed, nor its lock, nor its decision.  *)
(***************************************************************************)
EXTENDS TaxisCell

CONSTANTS Crashers,      \* the honest validators that may crash
          MaxRestarts    \* bound: the restarts of each

\* A restart is a fault: it is paid from the same budget as a Byzantine validator.
ASSUME RestartConstants ==
  /\ Crashers \subseteq Honest
  /\ Cardinality(Byzantine \cup Crashers) <= F
  /\ MaxRestarts \in Nat

VARIABLE restarts        \* restarts[v]: how often v has restarted

rvars == <<vars, restarts>>

\* A new engine, fed the persisted checkpoint, which precedes this height.
Restart(v) ==
  /\ restarts[v] < MaxRestarts
  /\ restarts' = [restarts EXCEPT ![v] = @ + 1]
  /\ round' = [round EXCEPT ![v] = 0]
  /\ held' = [held EXCEPT ![v] = {}]
  /\ sentPrepare' = [sentPrepare EXCEPT ![v] = {}]
  /\ sentCommit' = [sentCommit EXCEPT ![v] = {}]
  /\ locked' = [locked EXCEPT ![v] = None]
  /\ pending' = [pending EXCEPT ![v] = None]
  /\ decided' = [decided EXCEPT ![v] = None]
  /\ UNCHANGED votes

RInit == Init /\ restarts = [v \in Crashers |-> 0]

RNext == (Next /\ UNCHANGED restarts) \/ \E v \in Crashers : Restart(v)

RSpec == RInit /\ [][RNext]_rvars

-----------------------------------------------------------------------------
RTypeOK == TypeOK /\ restarts \in [Crashers -> 0 .. MaxRestarts]

\* Certificate::verify, "an honest validator signs at most one block per (height,
\* round, phase)".
SignsOneBlock ==
  \A x, y \in votes :
     ( /\ x.voter \in Honest /\ x.voter = y.voter
       /\ x.phase = y.phase /\ x.round = y.round ) => x.block = y.block
=============================================================================
