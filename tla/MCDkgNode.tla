----------------------------- MODULE MCDkgNode -----------------------------
(* Instances of DkgNode.  Commitments are of one width, or one of them is   *)
(* shorter.                                                                *)
EXTENDS DkgNode, TLC

CONSTANTS Other   \* a version that is not of the width agreed on, if any

MCWidth == [v \in Versions |-> IF v = Other THEN Threshold - 1 ELSE Threshold]
Symmetry == Permutations(Honest)
=============================================================================
