----------------------------- MODULE GatewayOrder -----------------------------
(***************************************************************************)
(* What the App's profile gate owes to the order of its requests.  History *)
(* variables number the invalidations and record which of them the last    *)
(* activated reconciliation settles; they follow GatewayProfile's steps    *)
(* and influence none.                                                     *)
(***************************************************************************)
EXTENDS GatewayProfile

\* restored is a revision, or NoProfile.
ASSUME RevisionsAssumption == NoProfile \notin Revisions

VARIABLES
  events,    \* invalidations ingested so far
  number,    \* the one each thread is working on, or 0
  since,     \* value of events when each thread began to compile
  acked,     \* invalidations whose caller has the answer
  covered,   \* those that came before the last activated one began
  straddled, \* those caught between Ingest and Bump by that activation
  restored   \* revision restored by the last restart

history == <<events, number, since, acked, covered, straddled, restored>>

orderVars == <<vars, history>>

OrderInit ==
  /\ Init
  /\ events = 0
  /\ number = [t \in Threads |-> 0]
  /\ since = [t \in Threads |-> 0]
  /\ acked = {}
  /\ covered = {}
  /\ straddled = {}
  /\ restored = NoProfile

\* Thread t takes the step that leads from one place to another.
Goes(t, from, to) == At(t, from) /\ At(t, to)'

Activating == \E t \in Threads : Goes(t, "compile", "publish")

Restarting == restarts' # restarts

Records ==
  /\ events' = IF \E t \in Threads : Goes(t, "invalidate", "bump")
                 THEN events + 1 ELSE events
  /\ number' = [t \in Threads |->
       CASE Goes(t, "invalidate", "bump") -> events'
         [] At(t, "idle")'                -> 0
         [] OTHER                         -> number[t]]
  /\ since' = [t \in Threads |->
       CASE Goes(t, "reconcile", "compile") -> events
         [] At(t, "idle")'                  -> 0
         [] OTHER                           -> since[t]]
  /\ acked' = acked \cup {number[t] : t \in {u \in Threads :
                           Goes(u, "status", "idle") /\ number[u] # 0 /\ ~Restarting}}
  /\ IF Activating
       THEN /\ \E t \in Threads : /\ Goes(t, "compile", "publish")
                                  /\ covered' = 1..since[t]
            /\ straddled' = {number[t] : t \in {u \in Threads : At(u, "bump")}}
       ELSE UNCHANGED <<covered, straddled>>
  /\ restored' =
       CASE Restarting /\ active' # NoProfile      -> active'.rev
         [] Activating /\ latest'.rev = restored   -> NoProfile
         [] OTHER                                  -> restored

OrderNext == Next /\ Records

OrderSpec == OrderInit /\ [][OrderNext]_orderVars

-----------------------------------------------------------------------------
(***************************************************************************)
(* A profile read back from the disk never opens the gate: after a restart *)
(* only a profile activated since then does, in whatever order the threads *)
(* of the new process mark, publish and save.                              *)
(***************************************************************************)
RestoredNeverServes == GateOpen => active.rev # restored

(***************************************************************************)
(* What the generation check of ChangeMonitor.reconcile does achieve: with *)
(* the gate open, an invalidation that came in after the last activated    *)
(* reconciliation began, and was answered, had its two halves (sections    *)
(* pending, generation raised) on either side of the activation.           *)
(***************************************************************************)
OnlyStraddlersAreLost == GateOpen => acked \subseteq covered \cup straddled

(***************************************************************************)
(* The claim that an invalidated profile stays stale until a complete      *)
(* replacement is reconciled: with the gate open, every answered           *)
(* invalidation came before the last activated reconciliation began.       *)
(***************************************************************************)
StaleUntilReplaced == GateOpen => acked \subseteq covered
=============================================================================
