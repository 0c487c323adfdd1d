--------------------------- MODULE MCSyncingNode ---------------------------
(* SyncingNode on two workers, which may be exchanged.                      *)
EXTENDS SyncingNode, TLC

CONSTANTS n1, n2

Nodes == {n1, n2}
Symmetry == Permutations(Nodes)
=============================================================================
