---------------------------- MODULE MCTaxisSync ----------------------------
(* Small cells for TaxisSync: the validators are model values.             *)
EXTENDS TaxisSync, TLC

\* The honest validators that no fault set tells apart are interchangeable.
Peers == Permutations(Honest \ (Corruptible \cup UNION Outages))

\* All honest validators are interchangeable where all of them, or none, may fail.
Cell == Permutations(Honest)

\* A cell in which every block changes the state, and an idle one.
NoQuiet == {}

AllQuiet == Heights
=============================================================================
