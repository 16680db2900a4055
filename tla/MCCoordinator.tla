---------------------------- MODULE MCCoordinator ----------------------------
(* Small instances of Coordinator for TLC.  The run checks liveness as well *)
(* as safety, so it declares no symmetry.                                  *)
EXTENDS Coordinator
=============================================================================
