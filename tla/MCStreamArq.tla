---------------------------- MODULE MCStreamArq ----------------------------
(* Segment s holds the number s, so that no two hold the same. *)
EXTENDS StreamArq

MCPayload == [s \in Seqs |-> s]
=============================================================================
