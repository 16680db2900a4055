------------------------------- MODULE WriteGate -------------------------------
(***************************************************************************)
(* What the profile coordinator promises to whoever is about to call a     *)
(* Home Assistant service: a gate that every registry change it hears of   *)
(* shuts at once, and that only a capability map read no earlier than the  *)
(* last of them opens.                                                     *)
(***************************************************************************)
EXTENDS Naturals

VARIABLES
  heard, \* the last registry change the coordinator was told of
  asOf,  \* the change up to which the published map was read
  open   \* writes are allowed

vars == <<heard, asOf, open>>

Init ==
  /\ heard = 0
  /\ asOf = 0
  /\ open = FALSE

Notice ==
  /\ heard' \in Nat
  /\ heard' > heard
  /\ open' = FALSE
  /\ asOf' = asOf

Publish ==
  /\ asOf' \in Nat
  /\ asOf' >= heard
  /\ open' \in BOOLEAN
  /\ heard' = heard

Shut ==
  /\ open' = FALSE
  /\ UNCHANGED <<heard, asOf>>

Next == Notice \/ Publish \/ Shut

Spec == Init /\ [][Next]_vars
=============================================================================
