---------------------------- MODULE MCContinuation ----------------------------
(* Small instances of Continuation for TLC.                                *)
EXTENDS Continuation, TLC

\* Turns, conversations and users are interchangeable.
Symmetry ==
  Permutations(Turns) \cup Permutations(Conversations) \cup Permutations(Users)
=============================================================================
