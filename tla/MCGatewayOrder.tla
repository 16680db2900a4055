---------------------------- MODULE MCGatewayOrder ----------------------------
(* Small instances of GatewayOrder for TLC.                                *)
EXTENDS GatewayOrder, TLC

\* Threads, snapshots and revisions are interchangeable.
Symmetry ==
  Permutations(Threads) \cup Permutations(Snapshots) \cup Permutations(Revisions)
=============================================================================
