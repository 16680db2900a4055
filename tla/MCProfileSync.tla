---------------------------- MODULE MCProfileSync ----------------------------
(* Instance of ProfileSync for TLC.                                        *)
EXTENDS ProfileSync
=============================================================================
