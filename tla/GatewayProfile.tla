---------------------------- MODULE GatewayProfile ----------------------------
(***************************************************************************)
(* The profile lifecycle of the App: Gateway.reconcile, invalidate,        *)
(* profile_status, the freshness gate of process, and the restore after a  *)
(* restart (app/ha_switchboard/gateway.py, change_monitor.py).             *)
(*                                                                         *)
(* Every HTTP request runs in a thread of its own and nothing is locked.   *)
(* The image runs CPython 3.12 (app/Dockerfile), which hands the           *)
(* interpreter from one thread to another only where a call begins or      *)
(* returns or a loop jumps back.  A step of a thread is the code between   *)
(* two such points that touches shared state.                              *)
(*                                                                         *)
(* A profile is the snapshot it was compiled from, its revision and its    *)
(* status.  Sections are not told apart: an event makes some of them       *)
(* pending, and one pending section closes the gate.                       *)
(***************************************************************************)
EXTENDS Naturals

CONSTANTS
  Threads,       \* request handlers that may run at once
  Snapshots,     \* snapshots a client may post
  Revisions,     \* profile revisions
  NoProfile,     \* active_profile is None
  MaxGeneration, \* bound: no invalidation is posted beyond this generation
  MaxRestarts    \* bound: restarts in a behaviour

ASSUME NoProfileAssumption ==
  NoProfile \notin [rev : Revisions, snap : Snapshots, status : {"active", "stale"}]
ASSUME BoundsAssumption ==
  /\ MaxGeneration \in Nat
  /\ MaxRestarts \in Nat

VARIABLES
  generation,    \* monitor.generation
  pending,       \* monitor.pending_sections is not empty
  latest,        \* monitor.active_profile
  active,        \* gateway.active_profile
  disk,          \* the profile file
  thread,        \* where each thread is, with its local variables
  restarts       \* restarts so far

vars == <<generation, pending, latest, active, disk, thread, restarts>>

Profile == [rev : Revisions, snap : Snapshots, status : {"active", "stale"}]
\* Mutant: a status the profile schema does not have.
StaleByName(p) == [p EXCEPT !.status = "invalidated"]
Stale(p) == [p EXCEPT !.status = "stale"]

\* What a thread remembers; prof is the profile it works on.
Thread ==
  [at : {"idle", "reconcile", "compile", "superseded", "publish", "invalidate",
         "bump", "mark", "assign", "save", "status"},
   gen : Nat,
   snap : Snapshots \cup {NoProfile},
   prof : Profile \cup {NoProfile}]

Idle == [at |-> "idle", gen |-> 0, snap |-> NoProfile, prof |-> NoProfile]

TypeOK ==
  /\ generation \in Nat
  /\ pending \in BOOLEAN
  /\ latest \in Profile \cup {NoProfile}
  /\ active \in Profile \cup {NoProfile}
  /\ disk \in Profile \cup {NoProfile}
  /\ thread \in [Threads -> Thread]
  /\ restarts \in Nat

Init ==
  /\ generation = 0
  /\ pending = FALSE
  /\ latest = NoProfile
  /\ active = NoProfile
  /\ disk = NoProfile
  /\ thread = [t \in Threads |-> Idle]
  /\ restarts = 0

At(t, step) == thread[t].at = step

Local(t, new) == thread' = [thread EXCEPT ![t] = new]

GoTo(t, step) == Local(t, [thread[t] EXCEPT !.at = step])

-----------------------------------------------------------------------------
(* Requests arrive.                                                        *)

PostReconcile(t, s) ==
  /\ At(t, "idle")
  /\ Local(t, [Idle EXCEPT !.at = "reconcile", !.snap = s])
  /\ UNCHANGED <<generation, pending, latest, active, disk, restarts>>

\* /v1/profile/invalidate, and /v1/profile/scan with "manual_reconcile".
PostInvalidate(t) ==
  /\ At(t, "idle")
  /\ generation < MaxGeneration
  /\ Local(t, [Idle EXCEPT !.at = "invalidate"])
  /\ UNCHANGED <<generation, pending, latest, active, disk, restarts>>

-----------------------------------------------------------------------------
(* ChangeMonitor.reconcile, then Gateway.reconcile.                        *)

\* Note the generation and compile the snapshot.
BeginCompile(t) ==
  /\ At(t, "reconcile")
  /\ Local(t, [thread[t] EXCEPT !.at = "compile", !.gen = generation])
  /\ UNCHANGED <<generation, pending, latest, active, disk, restarts>>

\* Revisions are made from the time of day and do not come back.  Here one
\* may be used again once nothing in the App refers to it.
Referred ==
  {p.rev : p \in ({latest, active, disk} \cup {thread[t].prof : t \in Threads})
                 \ {NoProfile}}

Fresh(rev) == rev \notin Referred

\* Mutant: the candidate is activated whatever came in meanwhile.
ActivateUnchecked(t, rev) ==
  /\ At(t, "compile")
  /\ Fresh(rev)
  /\ latest' = [rev |-> rev, snap |-> thread[t].snap, status |-> "active"]
  /\ pending' = FALSE
  /\ Local(t, [Idle EXCEPT !.at = "publish", !.prof = latest'])
  /\ UNCHANGED <<generation, active, disk, restarts>>

\* The generation is as it was: the candidate becomes the monitor's profile
\* and whatever is pending is forgotten, all before clear() returns.
Activate(t, rev) ==
  /\ At(t, "compile")
  /\ thread[t].gen = generation
  /\ Fresh(rev)
  /\ latest' = [rev |-> rev, snap |-> thread[t].snap, status |-> "active"]
  /\ pending' = FALSE
  /\ Local(t, [Idle EXCEPT !.at = "publish", !.prof = latest'])
  /\ UNCHANGED <<generation, active, disk, restarts>>

\* An event came in while the snapshot was compiled: everything is pending.
Supersede(t) ==
  /\ At(t, "compile")
  /\ thread[t].gen # generation
  /\ pending' = TRUE
  /\ Local(t, [Idle EXCEPT !.at = "superseded"])
  /\ UNCHANGED <<generation, latest, active, disk, restarts>>

\* The reconciliation then returns the profile it found, or raises.
ReturnLatest(t) ==
  /\ At(t, "superseded")
  /\ IF latest = NoProfile
       THEN Local(t, Idle)
       ELSE Local(t, [Idle EXCEPT !.at = "publish", !.prof = latest])
  /\ UNCHANGED <<generation, pending, latest, active, disk, restarts>>

Publish(t) ==
  /\ At(t, "publish")
  /\ active' = thread[t].prof
  /\ GoTo(t, "save")
  /\ UNCHANGED <<generation, pending, latest, disk, restarts>>

-----------------------------------------------------------------------------
(* ChangeMonitor.ingest, then Gateway.invalidate.                          *)

Ingest(t) ==
  /\ At(t, "invalidate")
  /\ pending' = TRUE
  /\ GoTo(t, "bump")
  /\ UNCHANGED <<generation, latest, active, disk, restarts>>

Bump(t) ==
  /\ At(t, "bump")
  /\ generation' = generation + 1
  /\ GoTo(t, "mark")
  /\ UNCHANGED <<pending, latest, active, disk, restarts>>

\* mark_sections_stale copies the profile it was called with ...
Mark(t) ==
  /\ At(t, "mark")
  /\ IF active = NoProfile
       THEN GoTo(t, "status")
       ELSE Local(t, [Idle EXCEPT !.at = "assign", !.prof = Stale(active)])
  /\ UNCHANGED <<generation, pending, latest, active, disk, restarts>>

\* ... and the copy replaces whatever profile is active by then.
Assign(t) ==
  /\ At(t, "assign")
  /\ active' = thread[t].prof
  /\ latest' = active'
  /\ GoTo(t, "save")
  /\ UNCHANGED <<generation, pending, disk, restarts>>

-----------------------------------------------------------------------------
(* store.save_profile replaces the file atomically, or raises.             *)

Save(t) ==
  /\ At(t, "save")
  /\ disk' = thread[t].prof
  /\ Local(t, [Idle EXCEPT !.at = "status"])
  /\ UNCHANGED <<generation, pending, latest, active, restarts>>

\* Only the directory's fsync can fail after the file was replaced.
SaveFails(t) ==
  /\ At(t, "save")
  /\ disk' \in {disk, thread[t].prof}
  /\ Local(t, Idle)
  /\ UNCHANGED <<generation, pending, latest, active, restarts>>

\* The answer to either request is profile_status.
Answer(t) ==
  /\ At(t, "status")
  /\ Local(t, Idle)
  /\ UNCHANGED <<generation, pending, latest, active, disk, restarts>>

\* The freshness gate of process.
GateOpen ==
  /\ active # NoProfile
  /\ active.status = "active"
  /\ ~pending

-----------------------------------------------------------------------------
\* Mutant: the restored profile keeps its status, and only the pending
\* sections hold it back.
RestartAsIs(usable) ==
  /\ restarts < MaxRestarts
  /\ restarts' = restarts + 1
  /\ LET found == usable /\ disk # NoProfile IN
       /\ active' = IF found THEN disk ELSE NoProfile
       /\ generation' = IF found THEN 1 ELSE 0
       /\ pending' = found
  /\ latest' = active'
  /\ thread' = [t \in Threads |-> Idle]
  /\ UNCHANGED disk

\* The process dies with its threads.  What it finds on disk it restores as
\* stale; a file it cannot use, it ignores.
Restart(usable) ==
  /\ restarts < MaxRestarts
  /\ restarts' = restarts + 1
  /\ LET found == usable /\ disk # NoProfile IN
       /\ active' = IF found THEN Stale(disk) ELSE NoProfile
       /\ generation' = IF found THEN 1 ELSE 0
       /\ pending' = found
  /\ latest' = active'
  /\ thread' = [t \in Threads |-> Idle]
  /\ UNCHANGED disk

-----------------------------------------------------------------------------
Reconcile(t) ==
  \/ BeginCompile(t)
  \/ \E rev \in Revisions : Activate(t, rev)
  \/ Supersede(t)
  \/ ReturnLatest(t)
  \/ Publish(t)

Invalidate(t) ==
  \/ Ingest(t)
  \/ Bump(t)
  \/ Mark(t)
  \/ Assign(t)

Store(t) ==
  \/ Save(t)
  \/ SaveFails(t)

Request(t) ==
  \/ \E s \in Snapshots : PostReconcile(t, s)
  \/ PostInvalidate(t)

Next ==
  \/ \E t \in Threads : \/ Request(t)
                        \/ Reconcile(t)
                        \/ Invalidate(t)
                        \/ Store(t)
                        \/ Answer(t)
  \/ \E usable \in BOOLEAN : Restart(usable)

Spec == Init /\ [][Next]_vars
=============================================================================
