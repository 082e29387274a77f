-------------------------- MODULE MC_PeerTracker --------------------------
(* Four nodes with weights 1 or 2, and a 4-bit connected weight: every   *)
(* sum of weights (at most 8) fits, an underflow wraps, and so does     *)
(* 3*bootstrapWeight+3 for a beacon weight of 5 or more.                 *)
EXTENDS PeerTracker, TLC

CONSTANTS n1, n2, n3, n4

MCNodes == {n1, n2, n3, n4}

\* The tracker treats every node alike.
Symmetry == Permutations(MCNodes)

=============================================================================
