-------------------------- MODULE MC_Bootstrapper --------------------------
(* The bootstrapper with two beacons; the chain, Ancestors sizes and the  *)
(* fault and crash budgets are set in each configuration.               *)
EXTENDS Bootstrapper

CONSTANTS p1, p2

MCPeers == {p1, p2}

=============================================================================
