----------------------------- MODULE ProfileSync -----------------------------
(***************************************************************************)
(* The profile coordinator (Coordinator) and the App's profile lifecycle   *)
(* (GatewayProfile) joined by the integration's HTTP client                *)
(* (custom_components/ha_switchboard/client.py).                           *)
(*                                                                         *)
(* A task of the Core has at most one request under way.  The App serves   *)
(* it in the thread of the same name and leaves the answer in reply[t],    *)
(* where the task finds it later.  A request whose caller has given up     *)
(* moves to a thread of its own.                                           *)
(*                                                                         *)
(* A behaviour ends before the next periodic refresh (15 minutes), and     *)
(* nobody asks for a scan: what is at stake is what the flush task and the *)
(* recovery watch achieve by themselves.                                   *)
(*                                                                         *)
(* A snapshot is the number of registry changes that had been made when it *)
(* was read, as in Coordinator.                                            *)
(***************************************************************************)
EXTENDS Naturals, FiniteSets

CONSTANTS
  Ticks, Kinds, Nobody, NoRevision, MaxAttempts, MaxBatches, MaxHome,
  Revisions,   \* revisions, enough for all that may be referred to at once
  NoReply,     \* the request is under way, or there is none
  Broken,      \* the request failed, timed out or was cut off
  Late,        \* threads for requests whose caller has given up
  MaxFailures, \* bound: calls that fail in a behaviour
  MaxRestarts  \* bound: restarts of the App in a behaviour

ASSUME TicksAssumption ==
  Ticks \cap {"start", "flush", "periodic", "scan", "direct"} = {}
ASSUME NobodyAssumption ==
  Nobody \notin {"start", "flush", "periodic", "scan", "direct"} \cup Ticks
ASSUME RevisionAssumption ==
  /\ NoRevision \notin Revisions
  /\ NoReply # Broken
  /\ {NoReply, Broken} \cap (Revisions \cup {NoRevision}) = {}
ASSUME NoProfileAssumption ==
  NoRevision \notin [rev : Revisions, snap : 0..MaxHome, status : {"active", "stale"}]
ASSUME SnapshotAssumption == NoRevision \notin 0..MaxHome
ASSUME LateAssumption == Late \cap ({"start", "flush"} \cup Ticks) = {}
ASSUME BoundAssumption ==
  /\ MaxAttempts \in Nat \ {0}
  /\ MaxBatches \in Nat \ {0}
  /\ MaxHome \in Nat
  /\ MaxFailures \in Nat
  /\ MaxRestarts \in Nat

VARIABLES
  home, heard, life, coreGeneration, stale, published, pendingEvents, outbox,
  batch, pc, run, holder, failures,
  appGeneration, pending, latest, active, disk, thread, restarts,
  reply, \* what each task has got for its last request
  lost   \* calls that failed so far

coreVars == <<home, heard, life, coreGeneration, stale, published,
              pendingEvents, outbox, batch, pc, run, holder, failures>>
appVars == <<appGeneration, pending, latest, active, disk, thread, restarts>>
vars == <<coreVars, appVars, reply, lost>>

Callers == {"start", "flush"} \cup Ticks

Servers == Callers \cup Late

\* Besides the calls that are lost, a first snapshot may be superseded: by
\* every invalidation, for the task that holds the lock and for a flush task
\* that the shutdown cancelled.
Allowance == MaxFailures + 2 * MaxHome

Core == INSTANCE Coordinator WITH
  generation <- coreGeneration,
  MaxFailures <- Allowance

App == INSTANCE GatewayProfile WITH
  generation <- appGeneration,
  Threads <- Servers,
  Snapshots <- 0..MaxHome,
  NoProfile <- NoRevision,
  MaxGeneration <- MaxHome + 1

TypeOK ==
  /\ Core!TypeOK
  /\ App!TypeOK
  /\ reply \in [Callers -> Revisions \cup {NoRevision, NoReply, Broken}]
  /\ \A t \in Callers : reply[t] # NoReply => App!At(t, "idle")
  /\ failures + Cardinality({t \in Callers : reply[t] = Broken}) <= Allowance
  /\ lost \in 0..MaxFailures

Init ==
  /\ Core!Init
  /\ App!Init
  /\ reply = [t \in Callers |-> NoReply]
  /\ lost = 0

Got(t, value) == reply' = [reply EXCEPT ![t] = value]

Answered(t) == reply[t] \notin {NoReply, Broken}

\* n more calls fail.
Loses(n) ==
  /\ lost + n <= MaxFailures
  /\ lost' = lost + n

UnderWay == {t \in Callers : ~App!At(t, "idle")}

-----------------------------------------------------------------------------
(* The Core without the App.                                               *)

Quiet == UNCHANGED <<appVars, reply, lost>>

Changes == (\E k \in Kinds : Core!RegistryChange(k)) /\ Quiet

\* The health check and the options are asked of an App that answers.
Started == Core!StartReply /\ Quiet

Watch(t) == Core!Tick(t) /\ Quiet

\* The status is a read, made while the tick waits for it.
TickReply(t) ==
  /\ Core!TickReply(t, App!GateOpen,
                    IF active = NoRevision THEN NoRevision ELSE active.rev)
  /\ Quiet

Unloads ==
  /\ Core!Shutdown
  /\ reply' = [t \in Callers |->
                IF t \in Core!Cancelled THEN NoReply ELSE reply[t]]
  /\ UNCHANGED <<appVars, lost>>

-----------------------------------------------------------------------------
(* Requests.                                                               *)

Reconciles(t) ==
  /\ Core!Acquire(t)
  /\ App!PostReconcile(t, home)
  /\ UNCHANGED <<reply, lost>>

Retries(t) ==
  /\ Answered(t)
  /\ Core!Superseded(t)
  /\ App!PostReconcile(t, home)
  /\ Got(t, NoReply)
  /\ UNCHANGED lost

\* One invalidation after another, as long as there is one to send.
Invalidates ==
  IF outbox' = {} THEN UNCHANGED appVars ELSE App!PostInvalidate("flush")

Drains ==
  /\ Core!FlushDrain
  /\ Invalidates
  /\ UNCHANGED <<reply, lost>>

HandsOver == Core!FlushHandOver /\ Quiet

\* Mutant: the answer is left where the next request will look for its own.
SentUnread(k) ==
  /\ reply["flush"] # NoReply
  /\ Core!FlushSent(k)
  /\ Invalidates
  /\ UNCHANGED <<reply, lost>>

Sent(k) ==
  /\ reply["flush"] # NoReply
  /\ Core!FlushSent(k)
  /\ Invalidates
  /\ Got("flush", NoReply)
  /\ UNCHANGED lost

-----------------------------------------------------------------------------
(* Answers.                                                                *)

Accepts(t) ==
  /\ Answered(t)
  /\ Core!Accepted(t, reply[t])
  /\ Got(t, NoReply)
  /\ UNCHANGED <<appVars, lost>>

GivesUp(t) ==
  /\ Answered(t)
  /\ Core!Exhausted(t)
  /\ Got(t, NoReply)
  /\ UNCHANGED <<appVars, lost>>

Fails(t) ==
  /\ reply[t] = Broken
  /\ Core!Failed(t)
  /\ Got(t, NoReply)
  /\ UNCHANGED <<appVars, lost>>

\* A status request, which no thread of the model serves, fails.
TickFails(t) ==
  /\ Loses(1)
  /\ Core!TickFails(t)
  /\ UNCHANGED <<appVars, reply>>

-----------------------------------------------------------------------------
(* The App serves.                                                         *)

\* A new profile gets a revision that nothing refers to; any of them will do.
NewRevisions ==
  {r \in Revisions :
     App!Fresh(r) /\ r \notin {published.rev} \cup {reply[t] : t \in Callers}}

Activates(t) ==
  /\ NewRevisions # {}
  /\ App!Activate(t, CHOOSE r \in NewRevisions : TRUE)

Works(t) ==
  /\ \/ App!BeginCompile(t)
     \/ Activates(t)
     \/ App!Supersede(t)
     \/ App!ReturnLatest(t) /\ latest # NoRevision
     \/ App!Publish(t)
     \/ App!Invalidate(t)
     \/ App!Save(t)
  /\ UNCHANGED <<coreVars, reply, lost>>

\* profile_status reads the active profile at the end of the request.
Answers(t) ==
  /\ App!Answer(t)
  /\ IF t \in Callers
       THEN Got(t, IF active = NoRevision THEN NoRevision ELSE active.rev)
       ELSE UNCHANGED reply
  /\ UNCHANGED <<coreVars, lost>>

\* The request ends in an error: the first snapshot was superseded, or the
\* profile could not be saved.
Raises(t) ==
  /\ IF t \in Callers THEN Got(t, Broken) ELSE UNCHANGED reply
  /\ UNCHANGED coreVars

Supersedes(t) ==
  /\ latest = NoRevision
  /\ App!ReturnLatest(t)
  /\ Raises(t)
  /\ UNCHANGED lost

\* The request does not get through, or is refused at the door.
Refused(t) ==
  /\ App!At(t, "reconcile") \/ App!At(t, "invalidate")
  /\ App!Local(t, App!Idle)
  /\ Loses(1)
  /\ Raises(t)
  /\ UNCHANGED <<appGeneration, pending, latest, active, disk, restarts>>

SaveFails(t) ==
  /\ Loses(Cardinality({t} \cap Callers))
  /\ App!SaveFails(t)
  /\ Raises(t)

\* client.timeout: the task goes on, and so does the App.
TimesOut(t) ==
  /\ t \in UnderWay
  /\ Loses(1)
  /\ \E l \in Late :
       /\ App!At(l, "idle")
       /\ thread' = [thread EXCEPT ![l] = thread[t], ![t] = App!Idle]
  /\ Got(t, Broken)
  /\ UNCHANGED <<coreVars, appGeneration, pending, latest, active, disk, restarts>>

AppRestarts ==
  /\ Loses(Cardinality(UnderWay))
  /\ \E usable \in BOOLEAN : App!Restart(usable)
  /\ reply' = [t \in Callers |-> IF t \in UnderWay THEN Broken ELSE reply[t]]
  /\ UNCHANGED coreVars

-----------------------------------------------------------------------------
Environment ==
  \/ Changes
  \/ Unloads
  \/ AppRestarts

Flush ==
  \/ Drains
  \/ HandsOver
  \/ \E k \in Kinds : Sent(k)

Proceeds(t) ==
  \/ Accepts(t)
  \/ Retries(t)
  \/ GivesUp(t)
  \/ Fails(t)
  \/ t \in Ticks /\ TickReply(t)

Serves(t) ==
  \/ Works(t)
  \/ Answers(t)
  \/ Supersedes(t)

Next ==
  \/ Environment
  \/ Started
  \/ Flush
  \/ \E t \in Ticks : Watch(t) \/ TickFails(t)
  \/ \E t \in Callers : \/ Reconciles(t)
                        \/ Proceeds(t)
                        \/ Refused(t)
                        \/ TimesOut(t)
  \/ \E t \in Servers : Serves(t) \/ SaveFails(t)

Spec == Init /\ [][Next]_vars

(* The tasks of the Core's loop run, the lock is fair, the watch fires     *)
(* every ten seconds and the threads of the App run.                       *)
Fairness ==
  /\ WF_vars(Started)
  /\ WF_vars(Flush)
  /\ \A t \in Ticks : WF_vars(Watch(t))
  /\ \A t \in Callers : WF_vars(Proceeds(t)) /\ SF_vars(Reconciles(t))
  /\ \A t \in Servers : WF_vars(Serves(t))

FairSpec == Spec /\ Fairness

-----------------------------------------------------------------------------
BothOpen ==
  /\ Core!WritesAllowed
  /\ App!GateOpen
  /\ published.rev = active.rev

AtRest ==
  /\ \A t \in Callers : pc[t] = "idle"
  /\ \A t \in Servers : App!At(t, "idle")

(***************************************************************************)
(* A revision never stands, in memory or on disk, for a newer snapshot at  *)
(* the App than the map the Core published under it: what the App may      *)
(* decide on, the Core's map already knows.                                *)
(***************************************************************************)
CoreIsNoOlder ==
  \A p \in {latest, active, disk} \ {NoRevision} :
    p.rev = published.rev => p.snap <= published.asOf

(***************************************************************************)
(* Whatever was superseded, saved in part or cut off by a restart: once    *)
(* the tasks and threads have come to rest, if decisions and writes are    *)
(* both allowed under a revision, it stands for one snapshot.              *)
(***************************************************************************)
RestAgrees == AtRest /\ BothOpen => published.asOf = active.snap

(***************************************************************************)
(* With at most one call failing, the flush task and the recovery watch    *)
(* bring Core and App back to one snapshot and both gates open, without    *)
(* the periodic refresh.                                                   *)
(***************************************************************************)
Recovers ==
  life = "running" ~>
    (BothOpen /\ published.asOf = active.snap) \/ life = "closed"
=============================================================================
