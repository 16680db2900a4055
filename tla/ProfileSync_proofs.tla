-------------------------- MODULE ProfileSync_proofs --------------------------
(***************************************************************************)
(* Theorems about Core and App together, for any number of ticks, late     *)
(* requests, changes, failures and restarts.                               *)
(***************************************************************************)
EXTENDS ProfileSync, FiniteSetTheorems, TLAPS

-----------------------------------------------------------------------------
(***************************************************************************)
(* What is proved of either component alone.                               *)
(***************************************************************************)
CoreProofs == INSTANCE Coordinator_proofs WITH
  generation <- coreGeneration,
  MaxFailures <- Allowance

AppProofs == INSTANCE GatewayProfile_proofs WITH
  generation <- appGeneration,
  Threads <- Servers,
  Snapshots <- 0..MaxHome,
  NoProfile <- NoRevision,
  MaxGeneration <- MaxHome + 1

LEMMA AllowanceTyped == Allowance \in Nat
  BY BoundAssumption DEF Allowance

LEMMA SameCoreNext == Core!Next <=> CoreProofs!Next
  BY DEF Core!Next, Core!Environment, Core!Timers, Core!Setup, Core!Flush,
         Core!Answers, Core!Answered, Core!Failure, Core!Tasks, Core!Cancelled,
         Core!NoRun, Core!Moved, Core!Leave, Core!Attempt, Core!GiveUp,
         Core!RegistryChange, Core!OnEvent, Core!DirectEvent, Core!Scan,
         Core!Shutdown, Core!Tick, Core!Periodic, Core!StartReply,
         Core!StartFails, Core!FlushDrain, Core!FlushHandOver, Core!FlushSent,
         Core!TickReply, Core!CallReply, Core!Acquire, Core!Accepted,
         Core!Superseded, Core!Exhausted, Core!Failed, Core!TickFails,
         Core!CallFails,
         CoreProofs!Next, CoreProofs!Environment, CoreProofs!Timers,
         CoreProofs!Setup, CoreProofs!Flush, CoreProofs!Answers,
         CoreProofs!Answered, CoreProofs!Failure, CoreProofs!Tasks,
         CoreProofs!Cancelled, CoreProofs!NoRun, CoreProofs!Moved,
         CoreProofs!Leave, CoreProofs!Attempt, CoreProofs!GiveUp,
         CoreProofs!RegistryChange, CoreProofs!OnEvent, CoreProofs!DirectEvent,
         CoreProofs!Scan, CoreProofs!Shutdown, CoreProofs!Tick,
         CoreProofs!Periodic, CoreProofs!StartReply, CoreProofs!StartFails,
         CoreProofs!FlushDrain, CoreProofs!FlushHandOver, CoreProofs!FlushSent,
         CoreProofs!TickReply, CoreProofs!CallReply, CoreProofs!Acquire,
         CoreProofs!Accepted, CoreProofs!Superseded, CoreProofs!Exhausted,
         CoreProofs!Failed, CoreProofs!TickFails, CoreProofs!CallFails

LEMMA SameCore ==
  /\ Core!Init <=> CoreProofs!Init
  /\ Core!vars = CoreProofs!vars /\ Core!vars = coreVars
  /\ Core!Tasks = CoreProofs!Tasks
  /\ Core!TypeOK <=> CoreProofs!TypeOK
  /\ Core!LockDiscipline <=> CoreProofs!LockDiscipline
  /\ Core!FreshWrites <=> CoreProofs!FreshWrites
  /\ Core!NoEventForgotten <=> CoreProofs!NoEventForgotten
  BY DEF Core!Init, CoreProofs!Init, Core!NoMap, CoreProofs!NoMap, Core!NoRun,
         CoreProofs!NoRun, Core!Tasks, CoreProofs!Tasks, Core!vars,
         CoreProofs!vars, coreVars, Core!TypeOK, CoreProofs!TypeOK,
         Core!LockDiscipline, CoreProofs!LockDiscipline, Core!FreshWrites,
         CoreProofs!FreshWrites, Core!WritesAllowed, CoreProofs!WritesAllowed,
         Core!NoEventForgotten, CoreProofs!NoEventForgotten

(***************************************************************************)
(* The Core's laws, in the names of this module.                           *)
(***************************************************************************)
CoreSpec == Core!Init /\ [][Core!Next]_coreVars

LEMMA CoreTypes ==
  /\ Core!Init => Core!TypeOK
  /\ Core!TypeOK /\ [Core!Next]_coreVars => Core!TypeOK'
  <1>1. CoreProofs!Init => CoreProofs!TypeOK
    BY CoreProofs!InitTyped, TicksAssumption, NobodyAssumption,
       RevisionAssumption, BoundAssumption, AllowanceTyped
  <1>2. CoreProofs!TypeOK /\ [CoreProofs!Next]_CoreProofs!vars => CoreProofs!TypeOK'
    BY CoreProofs!NextTyped, TicksAssumption, NobodyAssumption,
       RevisionAssumption, BoundAssumption, AllowanceTyped
  <1>3. Core!TypeOK' <=> CoreProofs!TypeOK'
    BY DEF Core!TypeOK, CoreProofs!TypeOK, Core!Tasks, CoreProofs!Tasks
  <1>4. UNCHANGED coreVars <=> UNCHANGED CoreProofs!vars
    BY DEF coreVars, CoreProofs!vars
  <1>5. QED
    BY <1>1, <1>2, <1>3, <1>4, SameCore, SameCoreNext

LEMMA SameApp ==
  /\ App!Init <=> AppProofs!Init
  /\ App!TypeOK <=> AppProofs!TypeOK
  /\ App!vars = AppProofs!vars /\ App!vars = appVars
  /\ App!Thread = AppProofs!Thread /\ App!Idle = AppProofs!Idle
  /\ App!Profile = AppProofs!Profile
  /\ \A t, r : App!Activate(t, r) <=> AppProofs!Activate(t, r)
  /\ \A t, s : App!PostReconcile(t, s) <=> AppProofs!PostReconcile(t, s)
  /\ \A usable : App!Restart(usable) <=> AppProofs!Restart(usable)
  /\ \A t : /\ App!PostInvalidate(t) <=> AppProofs!PostInvalidate(t)
            /\ App!BeginCompile(t) <=> AppProofs!BeginCompile(t)
            /\ App!Supersede(t) <=> AppProofs!Supersede(t)
            /\ App!ReturnLatest(t) <=> AppProofs!ReturnLatest(t)
            /\ App!Publish(t) <=> AppProofs!Publish(t)
            /\ App!Invalidate(t) <=> AppProofs!Invalidate(t)
            /\ App!Save(t) <=> AppProofs!Save(t)
            /\ App!SaveFails(t) <=> AppProofs!SaveFails(t)
            /\ App!Answer(t) <=> AppProofs!Answer(t)
  BY DEF App!Init, App!TypeOK, App!vars, App!Thread, App!Idle, App!Profile,
         App!Activate, App!PostReconcile, App!Restart, App!PostInvalidate,
         App!BeginCompile, App!Supersede, App!ReturnLatest, App!Publish,
         App!Invalidate, App!Ingest, App!Bump, App!Mark, App!Assign, App!Save,
         App!SaveFails, App!Answer, App!At, App!Local, App!GoTo, App!Fresh,
         App!Referred, App!Stale, appVars,
         AppProofs!Init, AppProofs!TypeOK, AppProofs!vars, AppProofs!Thread,
         AppProofs!Idle, AppProofs!Profile, AppProofs!Activate,
         AppProofs!PostReconcile, AppProofs!Restart, AppProofs!PostInvalidate,
         AppProofs!BeginCompile, AppProofs!Supersede, AppProofs!ReturnLatest,
         AppProofs!Publish, AppProofs!Invalidate, AppProofs!Ingest,
         AppProofs!Bump, AppProofs!Mark, AppProofs!Assign, AppProofs!Save,
         AppProofs!SaveFails, AppProofs!Answer, AppProofs!At, AppProofs!Local,
         AppProofs!GoTo, AppProofs!Fresh, AppProofs!Referred, AppProofs!Stale

-----------------------------------------------------------------------------
(***************************************************************************)
(* A task is engaged when its request may be under way, or answered and    *)
(* not yet looked at.  A flush task that was cancelled by the shutdown     *)
(* leaves its request behind.                                              *)
(***************************************************************************)
Engaged(t) ==
  \/ pc[t] = "reply"
  \/ t = "flush" /\ (pc[t] = "call" \/ life = "closed")

Waits(t) ==
  /\ reply[t] # NoReply => thread[t].at = "idle"
  /\ reply[t] # NoReply \/ thread[t].at # "idle" => Engaged(t)
  /\ pc[t] = "reply" =>
       reply[t] # NoRevision /\ AppProofs!Reconciling(thread[t], active)

LifeInv ==
  /\ pc["start"] # "idle" => life = "setup"
  /\ life # "running" => pc["flush"] = "idle"
  /\ pc["flush"] # "call" => outbox = {}

RepliesTyped == reply \in [Callers -> Revisions \cup {NoRevision, NoReply, Broken}]

SyncInv ==
  /\ Core!TypeOK /\ Core!LockDiscipline
  /\ AppProofs!TypeInv
  /\ home <= MaxHome
  /\ RepliesTyped
  /\ LifeInv
  /\ \A t \in Callers : Waits(t)

LEMMA NamesApart ==
  /\ Callers \subseteq Core!Tasks /\ Callers \subseteq Servers
  /\ \A l \in Late : l \notin Callers /\ l \in Servers
  /\ "start" \in Callers /\ "flush" \in Callers /\ Ticks \subseteq Callers
  /\ "flush" \notin Ticks /\ "start" \notin Ticks /\ "scan" \notin Ticks
  /\ NoReply \notin Revisions \cup {NoRevision}
  /\ Broken \notin Revisions \cup {NoRevision, NoReply}
  /\ NoRevision \notin Revisions
  BY TicksAssumption, LateAssumption, RevisionAssumption
  DEF Callers, Servers, Core!Tasks

LEMMA AppBounds == MaxHome + 1 \in Nat /\ MaxRestarts \in Nat
  BY BoundAssumption

LEMMA Typed ==
  ASSUME SyncInv
  PROVE  /\ thread \in [Servers -> AppProofs!Thread]
         /\ active \in AppProofs!Profile \cup {NoRevision}
         /\ active # NoRevision => active.rev \in Revisions
         /\ reply \in [Callers -> Revisions \cup {NoRevision, NoReply, Broken}]
         /\ pc \in [Core!Tasks -> {"idle", "drain", "call", "lock", "reply"}]
         /\ home \in 0..MaxHome
  <1>1. AppProofs!TypeOK
    BY DEF SyncInv, AppProofs!TypeInv
  <1>2. home \in Nat /\ MaxHome \in Nat /\ home <= MaxHome
    BY BoundAssumption DEF SyncInv, Core!TypeOK
  <1>3. QED
    BY <1>1, <1>2 DEF SyncInv, Core!TypeOK, RepliesTyped, AppProofs!TypeOK, AppProofs!Profile

-----------------------------------------------------------------------------
(***************************************************************************)
(* Every step is a step of the Core as its own module has it: what the App *)
(* answers here is among the answers the Core was proved correct for.      *)
(***************************************************************************)
LEMMA RunsCore ==
  ASSUME SyncInv, [Next]_vars
  PROVE  [Core!Next]_coreVars
  <1> USE NamesApart
  <1>1. CASE Changes
    BY <1>1 DEF Changes, Core!Next, Core!Environment
  <1>2. CASE Unloads
    BY <1>2 DEF Unloads, Core!Next, Core!Environment
  <1>3. CASE Started
    BY <1>3 DEF Started, Core!Next, Core!Setup
  <1>4. CASE Drains \/ HandsOver \/ \E k \in Kinds : Sent(k)
    BY <1>4 DEF Drains, HandsOver, Sent, Core!Next, Core!Flush
  <1>5. ASSUME NEW t \in Ticks, Watch(t) PROVE Core!Next
    BY <1>5 DEF Watch, Core!Next, Core!Timers
  <1>6. ASSUME NEW t \in Ticks, TickFails(t) PROVE Core!Next
    BY <1>6 DEF TickFails, Core!Next, Core!Failure
  <1>7. ASSUME NEW t \in Ticks, TickReply(t) PROVE Core!Next
    <2> DEFINE rev == IF active = NoRevision THEN NoRevision ELSE active.rev
    <2>1. rev \in Revisions \cup {NoRevision}
      BY Typed
    <2>2. App!GateOpen \in BOOLEAN
      BY DEF App!GateOpen
    <2>3. Core!TickReply(t, App!GateOpen, rev)
      BY <1>7 DEF TickReply
    <2>4. Core!Answers(t)
      BY <2>1, <2>2, <2>3 DEF Core!Answers
    <2>5. QED
      BY <2>4 DEF Core!Next
  <1>8. ASSUME NEW t \in Callers, Reconciles(t) PROVE Core!Next
    BY <1>8 DEF Reconciles, Core!Next
  <1>9. ASSUME NEW t \in Callers, Accepts(t) PROVE Core!Next
    <2>1. pc[t] = "reply" /\ Core!Accepted(t, reply[t])
      BY <1>9 DEF Accepts, Core!Accepted
    <2>2. reply[t] \in Revisions
      BY <1>9, <2>1, Typed DEF Accepts, Answered, SyncInv, Waits
    <2>3. QED
      BY <2>1, <2>2 DEF Core!Next, Core!Answered
  <1>10. ASSUME NEW t \in Callers, Retries(t) \/ GivesUp(t) \/ Fails(t)
         PROVE  Core!Next
    BY <1>10 DEF Retries, GivesUp, Fails, Core!Next, Core!Answered, Core!Failure
  <1>11. CASE AppRestarts
    BY <1>11 DEF AppRestarts
  <1>12. ASSUME NEW t \in Callers, Refused(t) \/ TimesOut(t) PROVE UNCHANGED coreVars
    BY <1>12 DEF Refused, TimesOut, Raises
  <1>13. ASSUME NEW t \in Servers, Serves(t) \/ SaveFails(t) PROVE UNCHANGED coreVars
    BY <1>13 DEF Serves, Works, Answers, Supersedes, SaveFails, Raises
  <1>14. CASE UNCHANGED vars
    BY <1>14 DEF vars
  <1>15. QED
    BY <1>1, <1>2, <1>3, <1>4, <1>5, <1>6, <1>7, <1>8, <1>9, <1>10, <1>11, <1>12,
       <1>13, <1>14
    DEF Next, Environment, Flush, Proceeds

-----------------------------------------------------------------------------
(***************************************************************************)
(* A step of a thread is one of the App's.                                 *)
(***************************************************************************)
ThreadRuns(t) ==
  \/ AppProofs!Reconcile(t) \/ AppProofs!Invalidate(t)
  \/ AppProofs!Store(t) \/ AppProofs!Answer(t)

LEMMA ServesRuns ==
  ASSUME NEW t \in Servers, Serves(t) \/ SaveFails(t)
  PROVE  ThreadRuns(t)
  <1>1. ASSUME Activates(t) PROVE \E rev \in Revisions : AppProofs!Activate(t, rev)
    <2>1. \A r \in NewRevisions : r \in Revisions
      BY DEF NewRevisions
    <2>2. App!Activate(t, CHOOSE r \in NewRevisions : TRUE) /\ NewRevisions # {}
      BY <1>1 DEF Activates
    <2>3. (CHOOSE r \in NewRevisions : TRUE) \in Revisions
      BY <2>1, <2>2
    <2>4. QED
      BY <2>2, <2>3, SameApp
  <1>2. CASE Works(t)
    BY <1>1, <1>2, SameApp
    DEF Works, ThreadRuns, AppProofs!Reconcile, AppProofs!Store
  <1>3. CASE Answers(t) \/ Supersedes(t) \/ SaveFails(t)
    BY <1>3, SameApp
    DEF Answers, Supersedes, SaveFails, ThreadRuns, AppProofs!Reconcile, AppProofs!Store
  <1>4. QED
    BY <1>2, <1>3 DEF Serves

(***************************************************************************)
(* A request that is refused, or whose caller gives up on it, changes the  *)
(* threads alone: one becomes idle, and at most one takes its work over.   *)
(***************************************************************************)
Drops(t) ==
  /\ thread[t].at # "idle"
  /\ thread'[t] = AppProofs!Idle
  /\ thread' \in [Servers -> AppProofs!Thread]
  /\ \A u \in Servers : thread'[u] \in {AppProofs!Idle, thread[u], thread[t]}
  /\ \A u \in Callers \ {t} : thread'[u] = thread[u]
  /\ UNCHANGED <<appGeneration, pending, latest, active, disk, restarts>>

LEMMA IdleIsTyped ==
  /\ AppProofs!Idle \in AppProofs!Thread
  /\ AppProofs!Equipped(AppProofs!Idle)
  /\ AppProofs!Idle.at = "idle" /\ AppProofs!Idle.snap = NoRevision
  /\ AppProofs!Idle.prof = NoRevision
  BY DEF AppProofs!Idle, AppProofs!Thread, AppProofs!Equipped

LEMMA GivenUpDrops ==
  ASSUME SyncInv, NEW t \in Callers, Refused(t) \/ TimesOut(t)
  PROVE  Drops(t)
  <1> USE NamesApart, IdleIsTyped, Typed, SameApp
  <1>1. CASE Refused(t)
    BY <1>1 DEF Refused, App!At, App!Local, Drops
  <1>2. CASE TimesOut(t)
    <2>1. thread[t].at # "idle"
          /\ UNCHANGED <<appGeneration, pending, latest, active, disk, restarts>>
      BY <1>2 DEF TimesOut, UnderWay, App!At
    <2>2. PICK l \in Late :
            thread' = [thread EXCEPT ![l] = thread[t], ![t] = App!Idle]
      BY <1>2 DEF TimesOut
    <2> DEFINE moved == [thread EXCEPT ![l] = thread[t]]
    <2>3. /\ moved \in [Servers -> AppProofs!Thread] /\ moved[l] = thread[t]
          /\ \A u \in Servers \ {l} : moved[u] = thread[u]
      OBVIOUS
    <2>4. thread' = [moved EXCEPT ![t] = App!Idle]
      BY <2>2, Zenon
    <2> HIDE DEF moved
    <2>5. /\ thread' \in [Servers -> AppProofs!Thread] /\ thread'[t] = AppProofs!Idle
          /\ \A u \in Servers \ {t} : thread'[u] = moved[u]
      BY <2>3, <2>4
    <2>6. QED
      BY <2>1, <2>3, <2>5 DEF Drops
  <1>3. QED
    BY <1>1, <1>2

LEMMA PostsInvalidate ==
  ASSUME Invalidates
  PROVE  UNCHANGED appVars \/ AppProofs!PostInvalidate("flush")
  BY SameApp DEF Invalidates

LEMMA AppStaysTyped ==
  ASSUME SyncInv, [Next]_vars
  PROVE  AppProofs!TypeInv'
  <1> USE NamesApart
  <1>0. AppProofs!TypeInv
    BY DEF SyncInv
  <1>1. ASSUME UNCHANGED appVars PROVE AppProofs!TypeInv'
    <2>1. UNCHANGED AppProofs!vars
      BY <1>1 DEF appVars, AppProofs!vars
    <2>2. QED
      BY <1>0, <2>1, AppProofs!NextTyped, NoProfileAssumption, AppBounds
  <1>2. ASSUME AppProofs!Next PROVE AppProofs!TypeInv'
    BY <1>0, <1>2, AppProofs!NextTyped, NoProfileAssumption, AppBounds
  <1>3. CASE Changes \/ Unloads \/ Started \/ HandsOver
    BY <1>1, <1>3 DEF Changes, Unloads, Started, HandsOver, Quiet
  <1>4. ASSUME NEW t \in Ticks, Watch(t) \/ TickFails(t) \/ TickReply(t)
        PROVE  AppProofs!TypeInv'
    BY <1>1, <1>4 DEF Watch, TickFails, TickReply, Quiet
  <1>5. ASSUME NEW t \in Callers, Accepts(t) \/ GivesUp(t) \/ Fails(t)
        PROVE  AppProofs!TypeInv'
    BY <1>1, <1>5 DEF Accepts, GivesUp, Fails
  <1>6. CASE Drains \/ \E k \in Kinds : Sent(k)
    <2>1. Invalidates
      BY <1>6 DEF Drains, Sent
    <2>2. QED
      BY <1>1, <1>2, <2>1, PostsInvalidate DEF AppProofs!Next, AppProofs!Request
  <1>7. ASSUME NEW t \in Callers, Reconciles(t) \/ Retries(t)
        PROVE  AppProofs!TypeInv'
    <2>1. AppProofs!PostReconcile(t, home)
      BY <1>7, SameApp DEF Reconciles, Retries
    <2>2. QED
      BY <1>2, <2>1, Typed DEF AppProofs!Next, AppProofs!Request
  <1>8. ASSUME NEW t \in Callers, Refused(t) \/ TimesOut(t) PROVE AppProofs!TypeInv'
    <2>1. Drops(t)
      BY <1>8, GivenUpDrops
    <2>2. \A u \in Servers : AppProofs!Equipped(thread'[u])
      BY <1>0, <2>1, IdleIsTyped DEF Drops, AppProofs!TypeInv
    <2>3. QED
      BY <1>0, <2>1, <2>2 DEF Drops, AppProofs!TypeInv, AppProofs!TypeOK, AppProofs!Equipped
  <1>9. CASE AppRestarts
    BY <1>2, <1>9, SameApp DEF AppRestarts, AppProofs!Next
  <1>10. ASSUME NEW t \in Servers, Serves(t) \/ SaveFails(t) PROVE AppProofs!TypeInv'
    BY <1>0, <1>10, ServesRuns, AppProofs!TurnTyped, NoProfileAssumption, AppBounds
    DEF ThreadRuns
  <1>11. CASE UNCHANGED vars
    BY <1>1, <1>11 DEF vars
  <1>12. QED
    BY <1>3, <1>4, <1>5, <1>6, <1>7, <1>8, <1>9, <1>10, <1>11
    DEF Next, Environment, Flush, Proceeds

-----------------------------------------------------------------------------
(***************************************************************************)
(* What the answers are.                                                   *)
(***************************************************************************)
LEMMA RepliesStayTyped ==
  ASSUME SyncInv, [Next]_vars
  PROVE  RepliesTyped'
  <1> USE NamesApart, Typed DEF RepliesTyped
  <1> DEFINE Values == Revisions \cup {NoRevision, NoReply, Broken}
  <1>1. ASSUME UNCHANGED reply PROVE RepliesTyped'
    BY <1>1
  <1>2. ASSUME NEW t \in Callers, NEW value \in Values, Got(t, value)
        PROVE  RepliesTyped'
    BY <1>2 DEF Got
  <1>3. CASE Changes \/ Started \/ HandsOver \/ Drains
    BY <1>1, <1>3 DEF Changes, Started, HandsOver, Drains, Quiet
  <1>4. CASE Unloads
    BY <1>4 DEF Unloads
  <1>5. ASSUME NEW t \in Ticks, Watch(t) \/ TickFails(t) \/ TickReply(t)
        PROVE  RepliesTyped'
    BY <1>1, <1>5 DEF Watch, TickFails, TickReply, Quiet
  <1>6. ASSUME NEW t \in Callers,
               Accepts(t) \/ GivesUp(t) \/ Fails(t) \/ Retries(t)
        PROVE  RepliesTyped'
    BY <1>2, <1>6 DEF Accepts, GivesUp, Fails, Retries
  <1>7. CASE \E k \in Kinds : Sent(k)
    BY <1>2, <1>7 DEF Sent
  <1>8. ASSUME NEW t \in Callers, Reconciles(t) PROVE RepliesTyped'
    BY <1>1, <1>8 DEF Reconciles
  <1>9. ASSUME NEW t \in Servers, Raises(t) PROVE RepliesTyped'
    BY <1>1, <1>2, <1>9 DEF Raises
  <1>10. ASSUME NEW t \in Callers, Refused(t) \/ TimesOut(t) PROVE RepliesTyped'
    BY <1>2, <1>9, <1>10 DEF Refused, TimesOut
  <1>11. CASE AppRestarts
    BY <1>11 DEF AppRestarts
  <1>12. ASSUME NEW t \in Servers, Works(t) PROVE RepliesTyped'
    BY <1>1, <1>12 DEF Works
  <1>13. ASSUME NEW t \in Servers, Answers(t) PROVE RepliesTyped'
    BY <1>1, <1>2, <1>13 DEF Answers
  <1>14. ASSUME NEW t \in Servers, Supersedes(t) \/ SaveFails(t) PROVE RepliesTyped'
    BY <1>9, <1>14 DEF Supersedes, SaveFails
  <1>15. CASE UNCHANGED vars
    BY <1>1, <1>15 DEF vars
  <1>16. QED
    BY <1>3, <1>4, <1>5, <1>6, <1>7, <1>8, <1>10, <1>11, <1>12, <1>13, <1>14, <1>15
    DEF Next, Environment, Flush, Proceeds, Serves

-----------------------------------------------------------------------------
(***************************************************************************)
(* How the Core's tasks move.                                              *)
(***************************************************************************)
CoreMoves ==
  /\ LifeInv'
  /\ home <= home' /\ home' <= MaxHome
  /\ life = "closed" => life' = "closed"

LEMMA CoreGoesOn ==
  ASSUME SyncInv, [Next]_vars
  PROVE  CoreMoves
  <1> USE NamesApart, Typed DEF SyncInv, LifeInv, CoreMoves
  <1>0. home \in Nat /\ MaxHome \in Nat
    BY BoundAssumption DEF Core!TypeOK
  <1>1. ASSUME UNCHANGED coreVars PROVE CoreMoves
    BY <1>0, <1>1 DEF coreVars
  <1>2. CASE Changes
    BY <1>0, <1>2 DEF Changes, Core!RegistryChange, Core!OnEvent
  <1>3. CASE Unloads
    BY <1>0, <1>3 DEF Unloads, Core!Shutdown, Core!Cancelled
  <1>4. CASE Started
    BY <1>0, <1>4 DEF Started, Core!StartReply, Core!Moved
  <1>5. CASE Drains
    BY <1>0, <1>5 DEF Drains, Core!FlushDrain, Core!Moved
  <1>6. CASE HandsOver
    BY <1>0, <1>6 DEF HandsOver, Core!FlushHandOver, Core!Moved
  <1>7. ASSUME NEW k \in Kinds, Sent(k) PROVE CoreMoves
    BY <1>0, <1>7 DEF Sent, Core!FlushSent, Core!Moved
  <1>8. ASSUME NEW t \in Ticks, Watch(t) \/ TickFails(t) \/ TickReply(t)
        PROVE  CoreMoves
    BY <1>0, <1>8
    DEF Watch, TickFails, TickReply, Core!Tick, Core!TickFails, Core!TickReply, Core!Moved
  <1>9. ASSUME NEW t \in Callers, Reconciles(t) PROVE CoreMoves
    BY <1>0, <1>9 DEF Reconciles, Core!Acquire, Core!Moved
  <1>10. ASSUME NEW t \in Callers, Accepts(t) PROVE CoreMoves
    BY <1>0, <1>10 DEF Accepts, Core!Accepted, Core!Leave
  <1>11. ASSUME NEW t \in Callers, GivesUp(t) \/ Fails(t) PROVE CoreMoves
    BY <1>0, <1>11
    DEF GivesUp, Fails, Core!Exhausted, Core!Failed, Core!GiveUp, Core!Leave
  <1>12. ASSUME NEW t \in Callers, Retries(t) PROVE CoreMoves
    BY <1>0, <1>12 DEF Retries, Core!Superseded
  <1>13. CASE AppRestarts
    BY <1>1, <1>13 DEF AppRestarts
  <1>14. ASSUME NEW t \in Callers, Refused(t) \/ TimesOut(t) PROVE CoreMoves
    BY <1>1, <1>14 DEF Refused, TimesOut, Raises
  <1>15. ASSUME NEW t \in Servers, Serves(t) \/ SaveFails(t) PROVE CoreMoves
    BY <1>1, <1>15 DEF Serves, Works, Answers, Supersedes, SaveFails, Raises
  <1>16. CASE UNCHANGED vars
    BY <1>1, <1>16 DEF vars
  <1>17. QED
    BY <1>2, <1>3, <1>4, <1>5, <1>6, <1>7, <1>8, <1>9, <1>10, <1>11, <1>12, <1>13,
       <1>14, <1>15, <1>16
    DEF Next, Environment, Flush, Proceeds

-----------------------------------------------------------------------------
(***************************************************************************)
(* Every task waits for its own request only.                              *)
(***************************************************************************)
LEMMA OthersWait ==
  ASSUME SyncInv, NEW t \in Callers,
         reply'[t] = reply[t], thread'[t] = thread[t],
         active # NoRevision => active' # NoRevision,
         Engaged(t) => Engaged(t)',
         pc'[t] = "reply" => pc[t] = "reply"
  PROVE  Waits(t)'
  BY DEF SyncInv, Waits, AppProofs!Reconciling

LEMMA IdleTasksWait ==
  ASSUME NEW t \in Callers,
         reply'[t] = NoReply, thread'[t].at = "idle"
  PROVE  Waits(t)'
  BY NamesApart DEF Waits, AppProofs!Reconciling

LEMMA AnsweredTasksWait ==
  ASSUME SyncInv, NEW t \in Callers, thread[t].at # "idle",
         thread'[t].at = "idle",
         pc'[t] = pc[t], life' = life,
         pc[t] = "reply" => reply'[t] # NoRevision
  PROVE  Waits(t)'
  BY DEF SyncInv, Waits, Engaged, AppProofs!Reconciling

LEMMA NotEngaged ==
  ASSUME SyncInv, NEW t \in Callers, pc[t] # "reply", pc[t] # "idle",
         pc[t] # "call" \/ t # "flush"
  PROVE  ~Engaged(t) /\ reply[t] = NoReply /\ thread[t].at = "idle"
  BY DEF SyncInv, LifeInv, Waits, Engaged

LEMMA QuietTasksWait ==
  ASSUME SyncInv, [Next]_vars, UNCHANGED <<thread, active, reply, life>>,
         NEW t \in Callers,
         pc'[t] = pc[t] \/ ~Engaged(t),
         pc'[t] = "reply" => pc[t] = "reply"
  PROVE  Waits(t)'
  BY OthersWait DEF Engaged

LEMMA TasksStayWaiting ==
  ASSUME SyncInv, [Next]_vars, NEW u \in Callers
  PROVE  Waits(u)'
  <1> USE NamesApart, Typed
  <1>0. LifeInv /\ Waits(u)
    BY DEF SyncInv
  <1>1. CASE UNCHANGED <<coreVars, appVars, reply>>
    <2>1. UNCHANGED <<thread, active, reply, life, pc>>
      BY <1>1 DEF coreVars, appVars
    <2>2. QED
      BY <2>1, QuietTasksWait
  <1>2. ASSUME Quiet, life' = life,
               pc'[u] = pc[u] \/ ~Engaged(u), pc'[u] = "reply" => pc[u] = "reply"
        PROVE  Waits(u)'
    BY <1>2, QuietTasksWait DEF Quiet, appVars
  <1>3. CASE Changes
    BY <1>0, <1>2, <1>3
    DEF Changes, Core!RegistryChange, Core!OnEvent, LifeInv, Engaged
  <1>4. CASE Started
    BY <1>2, <1>4 DEF Started, Core!StartReply, Core!Moved, Engaged
  <1>5. CASE HandsOver
    BY <1>0, <1>2, <1>5 DEF HandsOver, Core!FlushHandOver, Core!Moved, LifeInv, Engaged
  <1>6. ASSUME NEW t \in Ticks, Watch(t) \/ TickReply(t) PROVE Waits(u)'
    BY <1>2, <1>6
    DEF Watch, TickReply, Core!Tick, Core!TickReply, Core!Moved, Engaged
  <1>7. ASSUME NEW t \in Ticks, TickFails(t) PROVE Waits(u)'
    BY <1>7, QuietTasksWait DEF TickFails, Core!TickFails, Core!Moved, Engaged, appVars
  <1>8. CASE Unloads
    <2>1. CASE u = "flush"
      BY <1>0, <1>8, <2>1
      DEF Unloads, Core!Shutdown, Core!Cancelled, Waits, Engaged, appVars
    <2>2. CASE u # "flush"
      BY <1>8, <2>2, OthersWait
      DEF Unloads, Core!Shutdown, Core!Cancelled, Engaged, appVars, Callers
    <2>3. QED
      BY <2>1, <2>2
  <1>9. ASSUME NEW t \in Callers, Accepts(t) \/ GivesUp(t) \/ Fails(t)
        PROVE  Waits(u)'
    <2>1. /\ UNCHANGED <<thread, active>> /\ reply[t] # NoReply
          /\ reply' = [reply EXCEPT ![t] = NoReply]
      BY <1>9 DEF Accepts, GivesUp, Fails, Answered, Got, appVars
    <2>2. pc' = [pc EXCEPT ![t] = IF t = "flush" THEN "drain" ELSE "idle"]
      BY <1>9
      DEF Accepts, GivesUp, Fails, Core!Accepted, Core!Exhausted, Core!Failed,
          Core!GiveUp, Core!Leave
    <2>3. CASE u = t
      BY <1>0, <2>1, <2>3, IdleTasksWait DEF Waits
    <2>4. CASE u # t
      <3>1. reply'[u] = reply[u] /\ pc'[u] = pc[u] /\ thread'[u] = thread[u]
        BY <2>1, <2>2, <2>4
      <3>2. life = "closed" => life' = "closed"
        BY CoreGoesOn DEF CoreMoves
      <3>3. QED
        BY <2>1, <3>1, <3>2, OthersWait DEF Engaged
    <2>5. QED
      BY <2>3, <2>4
  <1>10. ASSUME NEW t \in Callers, Reconciles(t) \/ Retries(t) PROVE Waits(u)'
    <2>1. /\ active' = active /\ life' = life
          /\ pc' = [pc EXCEPT ![t] = "reply"]
          /\ \A w \in Callers \ {t} : reply'[w] = reply[w]
      BY <1>10
      DEF Reconciles, Retries, Core!Acquire, Core!Superseded, Core!Moved,
          App!PostReconcile, Got
    <2>2. reply'[t] = NoReply
      <3>1. CASE Reconciles(t)
        BY <3>1, NotEngaged DEF Reconciles, Core!Acquire, Core!Moved
      <3>2. CASE Retries(t)
        BY <3>2 DEF Retries, Got
      <3>3. QED
        BY <1>10, <3>1, <3>2
    <2>3. AppProofs!PostReconcile(t, home) /\ AppProofs!TypeInv
      BY <1>10, SameApp DEF Reconciles, Retries, SyncInv
    <2>4. /\ thread'[t].at = "reconcile"
          /\ \A w \in Servers \ {t} : thread'[w] = thread[w]
      BY <2>3, AppProofs!PostReconcileAdds, NoProfileAssumption, AppBounds
    <2>5. CASE u = t
      BY <2>1, <2>2, <2>4, <2>5 DEF Waits, Engaged, AppProofs!Reconciling
    <2>6. CASE u # t
      BY <2>1, <2>4, <2>6, OthersWait DEF Engaged
    <2>7. QED
      BY <2>5, <2>6
  <1>11. ASSUME NEW t \in Callers, Refused(t) \/ TimesOut(t) PROVE Waits(u)'
    <2>1. Drops(t)
      BY <1>11, GivenUpDrops
    <2>2. /\ reply' = [reply EXCEPT ![t] = Broken]
          /\ pc' = pc /\ life' = life /\ active' = active
      BY <1>11, <2>1 DEF Refused, TimesOut, Raises, Got, coreVars, Drops
    <2>3. CASE u = t
      BY <2>1, <2>2, <2>3, AnsweredTasksWait, IdleIsTyped DEF Drops
    <2>4. CASE u # t
      BY <2>1, <2>2, <2>4, OthersWait DEF Drops, Engaged
    <2>5. QED
      BY <2>3, <2>4
  <1>12. CASE AppRestarts
    <2>1. /\ pc' = pc /\ life' = life
          /\ reply'[u] = IF thread[u].at # "idle" THEN Broken ELSE reply[u]
          /\ thread'[u].at = "idle"
      BY <1>12 DEF AppRestarts, coreVars, UnderWay, App!At, App!Restart, App!Idle
    <2>2. CASE thread[u].at # "idle"
      BY <2>1, <2>2, AnsweredTasksWait
    <2>3. CASE thread[u].at = "idle"
      BY <1>0, <2>1, <2>3 DEF Waits, Engaged, AppProofs!Reconciling
    <2>4. QED
      BY <2>2, <2>3
  <1>13. CASE UNCHANGED vars
    BY <1>1, <1>13 DEF vars
  <1>14. ASSUME Invalidates, UNCHANGED life,
                thread["flush"].at = "idle",
                reply' = [reply EXCEPT !["flush"] = NoReply],
                pc' = [pc EXCEPT !["flush"] = pc'["flush"]],
                pc'["flush"] # "reply",
                outbox' # {} => pc'["flush"] = "call"
         PROVE  Waits(u)'
    <2>1. CASE outbox' = {}
      <3>1. thread' = thread /\ active' = active
        BY <1>14, <2>1 DEF Invalidates, appVars
      <3>2. CASE u = "flush"
        BY <1>14, <3>1, <3>2, IdleTasksWait
      <3>3. CASE u # "flush"
        BY <1>14, <3>1, <3>3, OthersWait DEF Engaged
      <3>4. QED
        BY <3>2, <3>3
    <2>2. CASE outbox' # {}
      <3>1. /\ active' = active
            /\ \A w \in Servers \ {"flush"} : thread'[w] = thread[w]
        BY <1>14, <2>2 DEF Invalidates, App!PostInvalidate, App!Local
      <3>2. CASE u = "flush"
        BY <1>14, <2>2, <3>2 DEF Waits, Engaged
      <3>3. CASE u # "flush"
        BY <1>14, <3>1, <3>3, OthersWait DEF Engaged
      <3>4. QED
        BY <3>2, <3>3
    <2>3. QED
      BY <2>1, <2>2
  <1>15. CASE Drains
    <2>1. pc["flush"] = "drain" /\ outbox = {}
      BY <1>0, <1>15 DEF Drains, Core!FlushDrain, Core!Moved, LifeInv
    <2>2. reply["flush"] = NoReply /\ thread["flush"].at = "idle"
      BY <2>1, NotEngaged
    <2>3. /\ pc' = [pc EXCEPT !["flush"] = pc'["flush"]] /\ pc'["flush"] # "reply"
          /\ outbox' # {} => pc'["flush"] = "call"
          /\ life' = life
      BY <1>15, <2>1 DEF Drains, Core!FlushDrain, Core!Moved
    <2>4. Invalidates /\ reply' = [reply EXCEPT !["flush"] = NoReply]
      BY <1>15, <2>2 DEF Drains
    <2>5. QED
      BY <1>14, <2>2, <2>3, <2>4
  <1>16. ASSUME NEW k \in Kinds, Sent(k) PROVE Waits(u)'
    <2>1. thread["flush"].at = "idle"
      BY <1>16 DEF Sent, SyncInv, Waits
    <2>2. /\ pc' = [pc EXCEPT !["flush"] = pc'["flush"]] /\ pc'["flush"] # "reply"
          /\ outbox' # {} => pc'["flush"] = "call"
          /\ life' = life
      BY <1>16 DEF Sent, Core!FlushSent, Core!Moved
    <2>3. QED
      BY <1>14, <1>16, <2>1, <2>2 DEF Sent, Got
  <1>17. ASSUME NEW t \in Servers, Works(t) PROVE Waits(u)'
    <2>1. /\ thread[t].at # "idle"
          /\ \A w \in Servers \ {t} : thread'[w] = thread[w]
          /\ active # NoRevision => active' # NoRevision
          /\ AppProofs!Reconciling(thread[t], active)
               => AppProofs!Reconciling(thread'[t], active')
      BY <1>17, ServesRuns, AppProofs!TurnGoesOn, NoProfileAssumption, AppBounds
      DEF Serves, ThreadRuns, SyncInv
    <2>2. UNCHANGED <<pc, life, reply>>
      BY <1>17 DEF Works, coreVars
    <2>3. CASE u = t
      BY <1>0, <2>1, <2>2, <2>3 DEF Waits, Engaged
    <2>4. CASE u # t
      BY <2>1, <2>2, <2>4, OthersWait DEF Engaged
    <2>5. QED
      BY <2>3, <2>4
  <1>18. ASSUME NEW t \in Servers, NEW step \in {"status", "superseded", "save"},
                thread[t].at = step, App!Local(t, App!Idle),
                UNCHANGED coreVars, active' = active,
                IF t \in Callers
                  THEN \E value : /\ reply' = [reply EXCEPT ![t] = value]
                                  /\ pc[t] = "reply" => value # NoRevision
                  ELSE reply' = reply
         PROVE  Waits(u)'
    <2>1. /\ thread[t].at # "idle" /\ thread'[t].at = "idle"
          /\ \A w \in Servers \ {t} : thread'[w] = thread[w]
          /\ pc' = pc /\ life' = life
      BY <1>18 DEF App!Local, App!Idle, coreVars
    <2>2. CASE u = t
      <3>1. pc[u] = "reply" => reply'[u] # NoRevision
        BY <1>18, <2>2
      <3>2. QED
        BY <2>1, <2>2, <3>1, AnsweredTasksWait
    <2>3. CASE u # t
      <3>1. reply'[u] = reply[u]
        BY <1>18, <2>3
      <3>2. QED
        BY <1>18, <2>1, <2>3, <3>1, OthersWait DEF Engaged
    <2>4. QED
      BY <2>2, <2>3
  <1>19. ASSUME NEW t \in Servers, Answers(t) PROVE Waits(u)'
    <2> DEFINE value == IF active = NoRevision THEN NoRevision ELSE active.rev
    <2>1. /\ thread[t].at = "status" /\ App!Local(t, App!Idle) /\ active' = active
          /\ UNCHANGED coreVars
          /\ IF t \in Callers THEN reply' = [reply EXCEPT ![t] = value] ELSE reply' = reply
      BY <1>19 DEF Answers, App!Answer, App!At, Got
    <2>2. t \in Callers /\ pc[t] = "reply" => value # NoRevision
      BY <2>1 DEF SyncInv, Waits, AppProofs!Reconciling
    <2> HIDE DEF value
    <2>3. QED
      BY <1>18, <2>1, <2>2
  <1>20. ASSUME NEW t \in Servers, Supersedes(t) \/ SaveFails(t) PROVE Waits(u)'
    <2>1. /\ thread[t].at \in {"superseded", "save"} /\ App!Local(t, App!Idle)
          /\ active' = active /\ UNCHANGED coreVars
          /\ IF t \in Callers THEN reply' = [reply EXCEPT ![t] = Broken] ELSE reply' = reply
      BY <1>20
      DEF Supersedes, SaveFails, App!ReturnLatest, App!SaveFails, App!At, Raises, Got
    <2>2. QED
      BY <1>18, <2>1
  <1>21. QED
    BY <1>3, <1>4, <1>5, <1>6, <1>7, <1>8, <1>9, <1>10, <1>11, <1>12, <1>13, <1>15,
       <1>16, <1>17, <1>19, <1>20
    DEF Next, Environment, Flush, Proceeds, Serves

-----------------------------------------------------------------------------
LEMMA SyncStarts == Init => SyncInv
  <1> SUFFICES ASSUME Init PROVE SyncInv
    OBVIOUS
  <1> USE NamesApart
  <1>1. Core!TypeOK
    BY CoreTypes DEF Init
  <1>2. Core!LockDiscipline
    BY CoreProofs!InitLock, SameCore, TicksAssumption, NobodyAssumption,
       RevisionAssumption, BoundAssumption, AllowanceTyped
    DEF Init
  <1>3. AppProofs!TypeInv
    BY AppProofs!InitTyped, SameApp, NoProfileAssumption, AppBounds DEF Init
  <1>4. /\ \A t \in Callers : reply[t] = NoReply /\ thread[t].at = "idle"
        /\ \A t \in Callers : pc[t] # "reply"
        /\ home = 0 /\ LifeInv /\ RepliesTyped
    BY DEF Init, Core!Init, App!Init, App!Idle, LifeInv, RepliesTyped
  <1>5. home <= MaxHome
    BY <1>4, BoundAssumption
  <1>6. \A t \in Callers : Waits(t)
    BY <1>4 DEF Waits
  <1>7. QED
    BY <1>1, <1>2, <1>3, <1>4, <1>5, <1>6 DEF SyncInv

LEMMA CoreKeepsLock ==
  Core!TypeOK /\ Core!LockDiscipline /\ [Core!Next]_coreVars => Core!LockDiscipline'
  <1>1. CoreProofs!TypeOK /\ CoreProofs!LockDiscipline
          /\ [CoreProofs!Next]_CoreProofs!vars => CoreProofs!LockDiscipline'
    BY CoreProofs!NextLock, TicksAssumption, NobodyAssumption,
       RevisionAssumption, BoundAssumption, AllowanceTyped
  <1>2. Core!LockDiscipline' <=> CoreProofs!LockDiscipline'
    BY DEF Core!LockDiscipline, CoreProofs!LockDiscipline, Core!Tasks, CoreProofs!Tasks
  <1>3. UNCHANGED coreVars <=> UNCHANGED CoreProofs!vars
    BY DEF coreVars, CoreProofs!vars
  <1>4. QED
    BY <1>1, <1>2, <1>3, SameCore, SameCoreNext

LEMMA SyncGoesOn == SyncInv /\ [Next]_vars => SyncInv'
  <1> SUFFICES ASSUME SyncInv, [Next]_vars PROVE SyncInv'
    OBVIOUS
  <1>1. Core!TypeOK' /\ Core!LockDiscipline'
    BY RunsCore, CoreTypes, CoreKeepsLock DEF SyncInv
  <1>2. AppProofs!TypeInv' /\ RepliesTyped' /\ CoreMoves
    BY AppStaysTyped, RepliesStayTyped, CoreGoesOn
  <1>3. \A t \in Callers : Waits(t)'
    BY TasksStayWaiting
  <1>4. QED
    BY <1>1, <1>2, <1>3 DEF SyncInv, CoreMoves

LEMMA SyncInvHolds == Spec => []SyncInv
  BY SyncStarts, SyncGoesOn, PTL DEF Spec

(***************************************************************************)
(* Joined to the App, the Core behaves as in its own module.               *)
(***************************************************************************)
THEOREM CoreRunsAlone == Spec => CoreSpec
  <1>1. Init => Core!Init
    BY DEF Init
  <1>2. QED
    BY <1>1, RunsCore, SyncInvHolds, PTL DEF Spec, CoreSpec

(***************************************************************************)
(* So what was proved of the Core alone holds of it here: no write under a *)
(* map older than the last change it heard of.                             *)
(***************************************************************************)
THEOREM WritesAreFreshTogether == Spec => []Core!FreshWrites
  <1>1. Core!Init => CoreProofs!FreshInv
    BY CoreProofs!InitFresh, SameCore, TicksAssumption, NobodyAssumption,
       RevisionAssumption, BoundAssumption, AllowanceTyped
  <1>2. SyncInv /\ CoreProofs!FreshInv /\ [Next]_vars => CoreProofs!FreshInv'
    <2>1. CoreProofs!TypeOK /\ CoreProofs!FreshInv
            /\ [CoreProofs!Next]_CoreProofs!vars => CoreProofs!FreshInv'
      BY CoreProofs!NextFresh, TicksAssumption, NobodyAssumption,
         RevisionAssumption, BoundAssumption, AllowanceTyped
    <2>2. UNCHANGED coreVars <=> UNCHANGED CoreProofs!vars
      BY DEF coreVars, CoreProofs!vars
    <2>3. QED
      BY <2>1, <2>2, RunsCore, SameCore, SameCoreNext DEF SyncInv
  <1>3. CoreProofs!FreshInv => Core!FreshWrites
    BY DEF CoreProofs!FreshInv, Core!FreshWrites, Core!WritesAllowed
  <1>4. Init => Core!Init
    BY DEF Init
  <1>5. QED
    BY <1>1, <1>2, <1>3, <1>4, SyncInvHolds, PTL DEF Spec

-----------------------------------------------------------------------------
(***************************************************************************)
(* Nothing in the App is newer than n.                                     *)
(***************************************************************************)
UpTo(n, profiles, threads) ==
  /\ \A p \in profiles : p.snap <= n
  /\ \A u \in Servers : threads[u].snap = NoRevision \/ threads[u].snap <= n

AllUpTo(n) == UpTo(n, AppProofs!Profiles, thread)

(***************************************************************************)
(* Nothing in the App is newer than the registries, or than the build of   *)
(* a reconciliation under way: it holds the lock, and no other posts.      *)
(***************************************************************************)
OlderInv ==
  /\ AllUpTo(home)
  /\ \A t \in Callers : pc[t] = "reply" => AllUpTo(run[t].asOf)
  /\ \A p \in AppProofs!Profiles : p.rev = published.rev => p.snap <= published.asOf

Posts == \E t \in Callers : Reconciles(t) \/ Retries(t)

LEMMA PostAdds ==
  ASSUME SyncInv, NEW t \in Callers, Reconciles(t) \/ Retries(t)
  PROVE  /\ thread'[t].snap = home
         /\ \A u \in Servers \ {t} : thread'[u] = thread[u]
         /\ \A p \in AppProofs!Profiles' : AppProofs!Derived(p)
  <1>1. AppProofs!PostReconcile(t, home) /\ AppProofs!TypeInv
    BY SameApp DEF Reconciles, Retries, SyncInv
  <1>2. QED
    BY <1>1, NamesApart, Typed, AppProofs!PostReconcileAdds, NoProfileAssumption, AppBounds

(***************************************************************************)
(* A profile that was not there before has a new revision, and a snapshot  *)
(* that a thread had been working on.                                      *)
(***************************************************************************)
Made(p) ==
  /\ p.rev # published.rev
  /\ \E u \in Servers : thread[u].snap = p.snap /\ thread[u].snap \in 0..MaxHome

Follows ==
  /\ \A p \in AppProofs!Profiles' : AppProofs!Derived(p) \/ Made(p)
  /\ AppProofs!SnapsKept

LEMMA SameFollows ==
  ASSUME SyncInv, UNCHANGED <<latest, active, disk, thread>>
  PROVE  Follows
  BY DEF Follows, AppProofs!Profiles, AppProofs!Derived, AppProofs!SnapsKept

LEMMA DropFollows ==
  ASSUME SyncInv, NEW t \in Callers, Drops(t)
  PROVE  Follows
  <1>1. \A u \in Servers : /\ thread'[u].snap = NoRevision \/ thread'[u].snap = thread[u].snap
                                \/ thread'[u].snap = thread[t].snap
                           /\ thread'[u].prof = NoRevision \/ thread'[u].prof = thread[u].prof
                                \/ thread'[u].prof = thread[t].prof
    BY IdleIsTyped DEF Drops
  <1>2. AppProofs!Profiles' \subseteq AppProofs!Profiles
    BY <1>1, NamesApart DEF AppProofs!Profiles, Drops
  <1>3. QED
    BY <1>1, <1>2, NamesApart DEF Follows, AppProofs!Derived, AppProofs!SnapsKept

LEMMA ActivateFollows ==
  ASSUME SyncInv, NEW t \in Servers, Activates(t)
  PROVE  Follows
  <1>1. /\ NewRevisions # {}
        /\ App!Activate(t, CHOOSE r \in NewRevisions : TRUE)
    BY DEF Activates
  <1>2. PICK rev \in NewRevisions : AppProofs!Activate(t, rev)
    BY <1>1, SameApp
  <1>3. rev \in Revisions /\ rev # published.rev
    BY DEF NewRevisions
  <1>4. AppProofs!TypeInv
    BY DEF SyncInv
  <1>5. /\ AppProofs!SnapsKept
        /\ latest'.rev = rev
        /\ latest'.snap = thread[t].snap /\ thread[t].snap \in 0..MaxHome
        /\ \A p \in AppProofs!Profiles' : p = latest' \/ AppProofs!Derived(p)
    BY <1>2, <1>3, <1>4, AppProofs!ActivateAdds, NoProfileAssumption, AppBounds
  <1>6. QED
    BY <1>3, <1>5 DEF Follows, Made

LEMMA StepFollows ==
  ASSUME SyncInv, [Next]_vars, ~Posts
  PROVE  Follows
  <1> USE NamesApart
  <1>0. AppProofs!TypeInv
    BY DEF SyncInv
  <1>1. ASSUME UNCHANGED appVars PROVE Follows
    BY <1>1, SameFollows DEF appVars
  <1>2. ASSUME AppProofs!Inherits PROVE Follows
    BY <1>2 DEF Follows, AppProofs!Inherits
  <1>3. CASE Changes \/ Unloads \/ Started \/ HandsOver
    BY <1>1, <1>3 DEF Changes, Unloads, Started, HandsOver, Quiet
  <1>4. ASSUME NEW t \in Ticks, Watch(t) \/ TickFails(t) \/ TickReply(t)
        PROVE  Follows
    BY <1>1, <1>4 DEF Watch, TickFails, TickReply, Quiet
  <1>5. ASSUME NEW t \in Callers, Accepts(t) \/ GivesUp(t) \/ Fails(t)
        PROVE  Follows
    BY <1>1, <1>5 DEF Accepts, GivesUp, Fails
  <1>6. CASE Drains \/ \E k \in Kinds : Sent(k)
    <2>1. Invalidates
      BY <1>6 DEF Drains, Sent
    <2>2. QED
      BY <1>0, <1>1, <1>2, <2>1, PostsInvalidate, AppProofs!QuietInherits,
         NoProfileAssumption, AppBounds
  <1>7. ASSUME NEW t \in Callers, Reconciles(t) \/ Retries(t) PROVE Follows
    BY <1>7 DEF Posts
  <1>8. ASSUME NEW t \in Callers, Refused(t) \/ TimesOut(t) PROVE Follows
    BY <1>8, GivenUpDrops, DropFollows
  <1>9. CASE AppRestarts
    <2>1. PICK usable \in BOOLEAN : AppProofs!Restart(usable)
      BY <1>9, SameApp DEF AppRestarts
    <2>2. QED
      BY <1>0, <1>2, <2>1, AppProofs!RestartInherits, NoProfileAssumption, AppBounds
  <1>10. ASSUME NEW t \in Servers, Serves(t) \/ SaveFails(t) PROVE Follows
    <2>1. CASE Activates(t)
      BY <2>1, ActivateFollows
    <2>2. CASE ~Activates(t)
      <3>1. \/ AppProofs!BeginCompile(t) \/ AppProofs!Supersede(t)
            \/ AppProofs!ReturnLatest(t) \/ AppProofs!Publish(t)
            \/ AppProofs!Invalidate(t) \/ AppProofs!Store(t) \/ AppProofs!Answer(t)
        BY <1>10, <2>2, SameApp
        DEF Serves, Works, Answers, Supersedes, SaveFails, AppProofs!Store
      <3>2. QED
        BY <1>0, <1>2, <3>1, AppProofs!QuietInherits, NoProfileAssumption, AppBounds
    <2>3. QED
      BY <2>1, <2>2
  <1>11. CASE UNCHANGED vars
    BY <1>1, <1>11 DEF vars
  <1>12. QED
    BY <1>3, <1>4, <1>5, <1>6, <1>7, <1>8, <1>9, <1>10, <1>11
    DEF Next, Environment, Flush, Proceeds

LEMMA StaysUpTo ==
  ASSUME SyncInv, [Next]_vars, NEW n, AllUpTo(n), Posts => home <= n
  PROVE  UpTo(n, AppProofs!Profiles', thread')
  <1>1. CASE Posts
    <2>1. PICK t \in Callers : Reconciles(t) \/ Retries(t)
      BY <1>1 DEF Posts
    <2>2. QED
      BY <1>1, <2>1, PostAdds DEF AllUpTo, UpTo, AppProofs!Derived, AppProofs!Profiles
  <1>2. CASE ~Posts
    <2>1. \A p \in AppProofs!Profiles' : p # NoRevision
      BY DEF AppProofs!Profiles
    <2>2. Follows
      BY <1>2, StepFollows
    <2>3. \A p \in AppProofs!Profiles' : p.snap <= n
      BY <2>1, <2>2, SnapshotAssumption
      DEF Follows, Made, AllUpTo, UpTo, AppProofs!Derived
    <2>4. QED
      BY <2>2, <2>3 DEF Follows, AllUpTo, UpTo, AppProofs!SnapsKept
  <1>3. QED
    BY <1>1, <1>2

LEMMA PublishedByAccepts ==
  ASSUME SyncInv, [Next]_vars
  PROVE  published' = published \/ \E t \in Callers : Accepts(t)
  BY DEF Next, Environment, Flush, Proceeds, Serves, vars, coreVars,
         Changes, Core!RegistryChange, Unloads, Core!Shutdown, AppRestarts,
         Started, Core!StartReply, Drains, Core!FlushDrain,
         HandsOver, Core!FlushHandOver, Sent, Core!FlushSent,
         Watch, Core!Tick, TickFails, Core!TickFails, TickReply, Core!TickReply,
         Reconciles, Core!Acquire, Retries, Core!Superseded,
         GivesUp, Core!Exhausted, Fails, Core!Failed, Core!GiveUp,
         Refused, TimesOut, Works, Answers, Supersedes, SaveFails, Raises

(***************************************************************************)
(* Unless it is just posting one, a task that awaits an answer awaited it  *)
(* before, for the same build.                                             *)
(***************************************************************************)
LEMMA KeepsBuild ==
  ASSUME SyncInv, [Next]_vars, ~Posts, NEW t \in Callers, pc'[t] = "reply"
  PROVE  pc[t] = "reply" /\ run'[t] = run[t]
  <1> USE NamesApart, Typed
  <1>0. run \in [Core!Tasks -> [gen : Nat, asOf : Nat, attempt : Nat]]
    BY DEF SyncInv, Core!TypeOK
  <1> DEFINE Kept == pc[t] = "reply" /\ run'[t] = run[t]
  <1>1. ASSUME UNCHANGED coreVars PROVE Kept
    BY <1>1 DEF coreVars
  <1>2. ASSUME Changes PROVE Kept
    BY <1>2 DEF Changes, Core!RegistryChange, Core!OnEvent
  <1>3. ASSUME Unloads PROVE Kept
    BY <1>3 DEF Unloads, Core!Shutdown, Core!Cancelled
  <1>4. ASSUME Started PROVE Kept
    BY <1>4 DEF Started, Core!StartReply, Core!Moved
  <1>5. ASSUME Drains \/ HandsOver PROVE Kept
    BY <1>5 DEF Drains, HandsOver, Core!FlushDrain, Core!FlushHandOver, Core!Moved
  <1>6. ASSUME NEW k \in Kinds, Sent(k) PROVE Kept
    BY <1>6 DEF Sent, Core!FlushSent, Core!Moved
  <1>7. ASSUME NEW u \in Ticks, Watch(u) \/ TickFails(u) \/ TickReply(u) PROVE Kept
    BY <1>7
    DEF Watch, TickFails, TickReply, Core!Tick, Core!TickFails, Core!TickReply,
        Core!Moved
  <1>8. ASSUME NEW u \in Callers, Accepts(u) \/ GivesUp(u) \/ Fails(u) PROVE Kept
    BY <1>0, <1>8
    DEF Accepts, GivesUp, Fails, Core!Accepted, Core!Exhausted, Core!Failed,
        Core!GiveUp, Core!Leave
  <1>9. ASSUME AppRestarts PROVE Kept
    BY <1>1, <1>9 DEF AppRestarts
  <1>10. ASSUME NEW u \in Callers, Refused(u) \/ TimesOut(u) PROVE Kept
    BY <1>1, <1>10 DEF Refused, TimesOut, Raises
  <1>11. ASSUME NEW u \in Servers, Serves(u) \/ SaveFails(u) PROVE Kept
    BY <1>1, <1>11 DEF Serves, Works, Answers, Supersedes, SaveFails, Raises
  <1>12. ASSUME NEW u \in Callers, Reconciles(u) \/ Retries(u) PROVE Kept
    BY <1>12 DEF Posts
  <1>13. ASSUME UNCHANGED vars PROVE Kept
    BY <1>1, <1>13 DEF vars
  <1>14. QED
    BY <1>2, <1>3, <1>4, <1>5, <1>6, <1>7, <1>8, <1>9, <1>10, <1>11, <1>12, <1>13
    DEF Next, Environment, Flush, Proceeds

(***************************************************************************)
(* A task that awaits an answer after the step has just posted its build,  *)
(* or awaited it before, and then nobody else has posted one.              *)
(***************************************************************************)
LEMMA Builds ==
  ASSUME SyncInv, [Next]_vars, NEW t \in Callers, pc'[t] = "reply"
  PROVE  \/ run'[t].asOf = home /\ home' = home
         \/ pc[t] = "reply" /\ run'[t] = run[t] /\ ~Posts
  <1> USE NamesApart, Typed
  <1>0. run \in [Core!Tasks -> [gen : Nat, asOf : Nat, attempt : Nat]]
    BY DEF SyncInv, Core!TypeOK
  <1>1. CASE Posts
    <2>1. PICK u \in Callers : Reconciles(u) \/ Retries(u)
      BY <1>1 DEF Posts
    <2>2. CASE u = t
      BY <1>0, <2>1, <2>2
      DEF Reconciles, Retries, Core!Acquire, Core!Superseded, Core!Attempt
    <2>3. CASE u # t
      <3>1. pc[t] = "reply"
        BY <2>1, <2>3
        DEF Reconciles, Retries, Core!Acquire, Core!Superseded, Core!Moved
      <3>2. holder = t /\ t # Nobody
        BY <3>1, NobodyAssumption DEF SyncInv, Core!LockDiscipline, Callers
      <3>3. holder = u \/ holder = Nobody
        BY <2>1
        DEF Reconciles, Retries, Core!Acquire, Core!Superseded, SyncInv,
            Core!LockDiscipline
      <3>4. QED
        BY <2>3, <3>2, <3>3
    <2>4. QED
      BY <2>2, <2>3
  <1>2. CASE ~Posts
    BY <1>2, KeepsBuild
  <1>3. QED
    BY <1>1, <1>2

-----------------------------------------------------------------------------
LEMMA OlderStarts == Init => OlderInv
  <1> SUFFICES ASSUME Init PROVE OlderInv
    OBVIOUS
  <1>1. /\ latest = NoRevision /\ active = NoRevision /\ disk = NoRevision
        /\ \A u \in Servers : thread[u].snap = NoRevision /\ thread[u].prof = NoRevision
        /\ \A t \in Callers : pc[t] # "reply"
    BY NamesApart DEF Init, App!Init, App!Idle, Core!Init
  <1>2. AppProofs!Profiles = {}
    BY <1>1 DEF AppProofs!Profiles
  <1>3. QED
    BY <1>1, <1>2 DEF OlderInv, AllUpTo, UpTo

LEMMA OlderGoesOn == SyncInv /\ SyncInv' /\ OlderInv /\ [Next]_vars => OlderInv'
  <1> SUFFICES ASSUME SyncInv, SyncInv', OlderInv, [Next]_vars PROVE OlderInv'
    OBVIOUS
  <1>1. AllUpTo(home)'
    <2>1. UpTo(home, AppProofs!Profiles', thread')
      BY StaysUpTo, Typed DEF OlderInv
    <2>2. home \in Nat /\ home' \in Nat /\ home <= home'
      BY CoreGoesOn DEF CoreMoves, SyncInv, Core!TypeOK
    <2>3. /\ \A p \in AppProofs!Profiles' : p.snap \in Nat
          /\ \A u \in Servers : thread'[u].snap \in Nat \cup {NoRevision}
      <3>1. AppProofs!TypeOK'
        BY DEF SyncInv, AppProofs!TypeInv
      <3>2. QED
        BY <3>1
        DEF AppProofs!TypeOK, AppProofs!Profiles, AppProofs!Profile, AppProofs!Thread
    <2>4. QED
      BY <2>1, <2>2, <2>3 DEF AllUpTo, UpTo
  <1>2. ASSUME NEW t \in Callers, pc'[t] = "reply" PROVE AllUpTo(run[t].asOf)'
    <2>1. CASE run'[t].asOf = home /\ home' = home
      BY <1>1, <2>1 DEF AllUpTo
    <2>2. CASE pc[t] = "reply" /\ run'[t] = run[t] /\ ~Posts
      <3>1. AllUpTo(run[t].asOf)
        BY <2>2 DEF OlderInv
      <3>2. UpTo(run[t].asOf, AppProofs!Profiles', thread')
        BY <2>2, <3>1, StaysUpTo
      <3>3. QED
        BY <2>2, <3>2 DEF AllUpTo
    <2>3. QED
      BY <1>2, <2>1, <2>2, Builds
  <1>3. ASSUME NEW p \in AppProofs!Profiles', p.rev = published'.rev
        PROVE  p.snap <= published'.asOf
    <2>1. CASE published' = published
      <3>1. CASE Posts
        <4>1. AppProofs!Derived(p)
          BY <3>1, PostAdds DEF Posts
        <4>2. QED
          BY <1>3, <2>1, <4>1 DEF OlderInv, AppProofs!Derived, AppProofs!Profiles
      <3>2. CASE ~Posts
        BY <1>3, <2>1, <3>2, StepFollows
        DEF Follows, Made, OlderInv, AppProofs!Derived, AppProofs!Profiles
      <3>3. QED
        BY <3>1, <3>2
    <2>2. ASSUME NEW t \in Callers, Accepts(t) PROVE p.snap <= published'.asOf
      <3>1. /\ pc[t] = "reply" /\ published'.asOf = run[t].asOf
            /\ AppProofs!Profiles' = AppProofs!Profiles
        BY <2>2 DEF Accepts, Core!Accepted, appVars, AppProofs!Profiles
      <3>2. QED
        BY <1>3, <3>1 DEF OlderInv, AllUpTo, UpTo
    <2>3. QED
      BY <2>1, <2>2, PublishedByAccepts
  <1>4. QED
    BY <1>1, <1>2, <1>3 DEF OlderInv

(***************************************************************************)
(* No revision stands, in the App's memory or on its disk, for a newer     *)
(* snapshot than the map the Core published under it: however requests are *)
(* lost, cut off, given up or overtaken, and whenever the App restarts.    *)
(***************************************************************************)
THEOREM CoreNeverOlder == Spec => []CoreIsNoOlder
  <1>1. OlderInv => CoreIsNoOlder
    BY DEF OlderInv, CoreIsNoOlder, AppProofs!Profiles
  <1>2. QED
    BY <1>1, SyncInvHolds, OlderStarts, OlderGoesOn, PTL DEF Spec

-----------------------------------------------------------------------------
(***************************************************************************)
(* What a step of a thread does to the threads, in the names of the App's  *)
(* own proofs.                                                             *)
(***************************************************************************)
LEMMA ServesMoves ==
  ASSUME SyncInv, NEW t \in Servers, Serves(t) \/ SaveFails(t)
  PROVE  /\ AppProofs!MovesOn(t) /\ AppProofs!Touches(t)
         /\ thread[t].at # "idle"
         /\ \A u \in Servers \ {t} : thread'[u] = thread[u]
  BY ServesRuns, AppProofs!TurnMoves, AppProofs!TurnGoesOn, NoProfileAssumption,
     AppBounds
  DEF ThreadRuns, SyncInv

(***************************************************************************)
(* The tasks whose request has failed, or is bound to unless it finds an   *)
(* older profile to return: at most the holder of the lock and the flush   *)
(* task wait for a request at all.                                         *)
(***************************************************************************)
Charged ==
  {t \in Callers :
     \/ reply[t] = Broken
     \/ thread[t].at = "superseded"
     \/ thread[t].at = "compile" /\ thread[t].gen # appGeneration}

\* The invalidations that have yet to move the generation on ...
Invalidating == {u \in Servers : thread[u].at \in {"invalidate", "bump"}}

\* ... and all that may do so.  Of a batch, one is under way.
Rest(events) == IF events = {} THEN 0 ELSE Cardinality(events) - 1

ToCome == Cardinality(pendingEvents) + Rest(outbox) + Cardinality(Invalidating)

(***************************************************************************)
(* Every call that fails was lost or superseded, and every change brings   *)
(* one invalidation, which supersedes two requests at most.                *)
(***************************************************************************)
AccountInv ==
  /\ IsFiniteSet(pendingEvents) /\ IsFiniteSet(outbox) /\ IsFiniteSet(Invalidating)
  /\ lost \in 0..MaxFailures
  /\ failures + Cardinality(Charged) + 2 * ToCome <= lost + 2 * home

LEMMA FewWait ==
  ASSUME SyncInv
  PROVE  /\ Charged \cup UnderWay \subseteq {holder, "flush"}
         /\ IsFiniteSet(Charged) /\ Cardinality(Charged) \in 0..2
         /\ IsFiniteSet(UnderWay)
  <1>1. ASSUME NEW t \in Charged \cup UnderWay PROVE t \in {holder, "flush"}
    <2>1. t \in Callers /\ Waits(t) /\ t \in Core!Tasks
      BY NamesApart DEF SyncInv, Charged, UnderWay
    <2>2. reply[t] # NoReply \/ thread[t].at # "idle"
      BY RevisionAssumption DEF Charged, UnderWay, App!At
    <2>3. Engaged(t)
      BY <2>1, <2>2 DEF Waits
    <2>4. QED
      BY <2>1, <2>3 DEF Engaged, SyncInv, Core!LockDiscipline
  <1>2. /\ IsFiniteSet({holder, "flush"})
        /\ Cardinality({holder, "flush"}) \in 0..2
    <2>1. IsFiniteSet({holder}) /\ Cardinality({holder}) = 1
      BY FS_Singleton
    <2>2. /\ IsFiniteSet({holder} \cup {"flush"})
          /\ Cardinality({holder} \cup {"flush"}) \in 0..2
      BY <2>1, FS_AddElement
    <2>3. {holder} \cup {"flush"} = {holder, "flush"}
      OBVIOUS
    <2>4. QED
      BY <2>2, <2>3
  <1>3. Charged \in SUBSET {holder, "flush"} /\ UnderWay \in SUBSET {holder, "flush"}
    BY <1>1
  <1>4. /\ IsFiniteSet(Charged) /\ Cardinality(Charged) <= Cardinality({holder, "flush"})
        /\ IsFiniteSet(UnderWay)
    BY <1>2, <1>3, FS_Subset
  <1>5. Cardinality(Charged) \in Nat
    BY <1>4, FS_CardinalityType
  <1>6. QED
    BY <1>1, <1>2, <1>4, <1>5

LEMMA Numbers ==
  ASSUME SyncInv, AccountInv
  PROVE  /\ failures \in Nat /\ home \in Nat /\ lost \in Nat /\ MaxFailures \in Nat
         /\ Cardinality(pendingEvents) \in Nat /\ Rest(outbox) \in Nat
         /\ Cardinality(Invalidating) \in Nat
         /\ Cardinality(Charged) \in Nat
         /\ Rest({}) = 0
  <1>1. Cardinality(outbox) \in Nat /\ (outbox # {} => Cardinality(outbox) # 0)
    BY FS_CardinalityType, FS_EmptySet DEF AccountInv
  <1>2. /\ Cardinality(pendingEvents) \in Nat /\ Cardinality(Invalidating) \in Nat
    BY FS_CardinalityType DEF AccountInv
  <1>3. Rest(outbox) \in Nat /\ Rest({}) = 0
    BY <1>1 DEF Rest
  <1>4. Cardinality(Charged) \in Nat
    BY FewWait, FS_CardinalityType
  <1>5. failures \in Nat /\ home \in Nat /\ lost \in Nat /\ MaxFailures \in Nat
    BY BoundAssumption DEF AccountInv, SyncInv, Core!TypeOK
  <1>6. QED
    BY <1>2, <1>3, <1>4, <1>5

(***************************************************************************)
(* The requests that a step charges are paid for by the calls it loses.    *)
(***************************************************************************)
LEMMA PaidFor ==
  ASSUME SyncInv, AccountInv, NEW new, IsFiniteSet(new), Charged' \subseteq Charged \cup new,
         Loses(Cardinality(new)),
         IsFiniteSet(Invalidating'), Cardinality(Invalidating') <= Cardinality(Invalidating),
         pendingEvents' = pendingEvents, outbox' = outbox \/ outbox' = {},
         failures' = failures, home' = home
  PROVE  AccountInv'
  <1>1. /\ IsFiniteSet(Charged \cup new)
        /\ Cardinality(Charged \cup new) <= Cardinality(Charged) + Cardinality(new)
    <2>1. /\ IsFiniteSet(Charged \cup new)
          /\ Cardinality(Charged \cup new)
               = Cardinality(Charged) + Cardinality(new) - Cardinality(Charged \cap new)
      BY FewWait, FS_Union
    <2>2. Cardinality(Charged \cap new) \in Nat /\ Cardinality(Charged \cup new) \in Nat
          /\ Cardinality(Charged) \in Nat /\ Cardinality(new) \in Nat
      BY <2>1, FewWait, FS_Intersection, FS_CardinalityType
    <2>3. QED
      BY <2>1, <2>2
  <1>2. IsFiniteSet(Charged') /\ Cardinality(Charged') <= Cardinality(Charged \cup new)
    <2>1. Charged' \in SUBSET (Charged \cup new)
      OBVIOUS
    <2>2. QED
      BY <1>1, <2>1, FS_Subset
  <1>3. /\ Cardinality(Charged') \in Nat /\ Cardinality(Charged \cup new) \in Nat
        /\ Cardinality(new) \in Nat /\ Cardinality(Invalidating') \in Nat
    BY <1>1, <1>2, FS_CardinalityType
  <1>4. IsFiniteSet(outbox') /\ Rest(outbox') \in Nat /\ Rest(outbox') <= Rest(outbox)
    BY Numbers, FS_EmptySet DEF AccountInv, Rest
  <1>5. ToCome' <= ToCome /\ ToCome \in Nat /\ ToCome' \in Nat
    BY <1>3, <1>4, Numbers DEF ToCome, Rest
  <1>6. lost' = lost + Cardinality(new) /\ lost' \in 0..MaxFailures
    BY <1>3, Numbers DEF Loses
  <1>7. failures' + Cardinality(Charged') + 2 * ToCome' <= lost' + 2 * home'
    BY <1>1, <1>2, <1>3, <1>5, <1>6, Numbers DEF AccountInv
  <1>8. QED
    BY <1>4, <1>6, <1>7 DEF AccountInv

LEMMA NothingLost == ASSUME SyncInv, AccountInv, UNCHANGED lost PROVE Loses(0)
  BY Numbers DEF Loses, AccountInv

LEMMA SameInvalidating ==
  ASSUME SyncInv, AccountInv, Invalidating' \subseteq Invalidating
  PROVE  /\ IsFiniteSet(Invalidating')
         /\ Cardinality(Invalidating') <= Cardinality(Invalidating)
  <1>1. Invalidating' \in SUBSET Invalidating
    OBVIOUS
  <1>2. QED
    BY <1>1, FS_Subset DEF AccountInv

(***************************************************************************)
(* Nothing is lost, nothing is charged.                                    *)
(***************************************************************************)
LEMMA NothingDue ==
  ASSUME SyncInv, AccountInv, Charged' \subseteq Charged,
         Invalidating' \subseteq Invalidating, UNCHANGED lost,
         pendingEvents' = pendingEvents, outbox' = outbox \/ outbox' = {},
         failures' = failures, home' = home
  PROVE  AccountInv'
  <1>1. Loses(Cardinality({})) /\ IsFiniteSet({})
    BY NothingLost, FS_EmptySet
  <1>2. Charged' \subseteq Charged \cup {}
    OBVIOUS
  <1>3. QED
    BY <1>1, <1>2, SameInvalidating, PaidFor

LEMMA SameThreads ==
  ASSUME SyncInv, UNCHANGED <<thread, appGeneration>>,
         \A t \in Callers : reply'[t] = Broken => reply[t] = Broken
  PROVE  Charged' \subseteq Charged /\ Invalidating' = Invalidating
  BY DEF Charged, Invalidating

LEMMA QuietPays ==
  ASSUME SyncInv, AccountInv,
         \/ Started \/ HandsOver \/ Unloads
         \/ \E t \in Ticks : Watch(t) \/ TickReply(t)
         \/ \E t \in Callers : Accepts(t) \/ GivesUp(t)
         \/ UNCHANGED vars
  PROVE  AccountInv'
  <1> USE NamesApart, Typed
  <1>1. /\ UNCHANGED <<thread, appGeneration, lost, failures, home, pendingEvents>>
        /\ outbox' = outbox \/ outbox' = {}
        /\ \A t \in Callers : reply'[t] = Broken => reply[t] = Broken
    <2>1. CASE Started \/ HandsOver \/ UNCHANGED vars
      BY <2>1
      DEF Started, HandsOver, Quiet, Core!StartReply, Core!FlushHandOver, vars,
          coreVars, appVars
    <2>2. CASE Unloads
      BY <2>2 DEF Unloads, Core!Shutdown, appVars
    <2>3. ASSUME NEW t \in Ticks, Watch(t) \/ TickReply(t)
          PROVE  UNCHANGED <<thread, appGeneration, lost, failures, home,
                             pendingEvents, outbox, reply>>
      BY <2>3 DEF Watch, TickReply, Quiet, Core!Tick, Core!TickReply, appVars
    <2>4. ASSUME NEW t \in Callers, Accepts(t) \/ GivesUp(t)
          PROVE  /\ UNCHANGED <<thread, appGeneration, lost, failures, home,
                                pendingEvents, outbox>>
                 /\ reply' = [reply EXCEPT ![t] = NoReply]
      BY <2>4
      DEF Accepts, GivesUp, Core!Accepted, Core!Exhausted, Core!GiveUp, appVars, Got
    <2>5. QED
      BY <2>1, <2>2, <2>3, <2>4
  <1>2. QED
    BY <1>1, SameThreads, NothingDue

(***************************************************************************)
(* A change brings one more event to send at most.                         *)
(***************************************************************************)
LEMMA ChangePays ==
  ASSUME SyncInv, AccountInv, Changes
  PROVE  AccountInv'
  <1>1. /\ UNCHANGED <<thread, appGeneration, reply, lost, failures, outbox>>
        /\ home' = home + 1
        /\ \E k \in Kinds :
             pendingEvents' = pendingEvents \/ pendingEvents' = pendingEvents \cup {k}
    BY DEF Changes, Quiet, appVars, Core!RegistryChange, Core!OnEvent
  <1>2. Charged' = Charged /\ Invalidating' = Invalidating
    BY <1>1 DEF Charged, Invalidating
  <1>3. /\ IsFiniteSet(pendingEvents')
        /\ Cardinality(pendingEvents') <= Cardinality(pendingEvents) + 1
        /\ Cardinality(pendingEvents') \in Nat
    <2>1. PICK k \in Kinds :
            pendingEvents' = pendingEvents \/ pendingEvents' = pendingEvents \cup {k}
      BY <1>1
    <2>2. /\ IsFiniteSet(pendingEvents \cup {k})
          /\ Cardinality(pendingEvents \cup {k})
               = IF k \in pendingEvents THEN Cardinality(pendingEvents)
                                        ELSE Cardinality(pendingEvents) + 1
      BY FS_AddElement DEF AccountInv
    <2>3. Cardinality(pendingEvents) \in Nat /\ IsFiniteSet(pendingEvents)
      BY Numbers DEF AccountInv
    <2>4. CASE pendingEvents' = pendingEvents
      BY <2>3, <2>4
    <2>5. CASE pendingEvents' = pendingEvents \cup {k}
      BY <2>2, <2>3, <2>5
    <2>6. QED
      BY <2>1, <2>4, <2>5
  <1>4. ToCome' <= ToCome + 1 /\ ToCome \in Nat /\ ToCome' \in Nat
    BY <1>1, <1>2, <1>3, Numbers DEF ToCome, Rest
  <1>5. failures' + Cardinality(Charged') + 2 * ToCome' <= lost' + 2 * home'
    BY <1>1, <1>2, <1>4, Numbers DEF AccountInv
  <1>6. QED
    BY <1>1, <1>2, <1>3, <1>5 DEF AccountInv

LEMMA TickFailurePays ==
  ASSUME SyncInv, AccountInv, NEW t \in Ticks, TickFails(t)
  PROVE  AccountInv'
  <1>1. /\ UNCHANGED <<thread, appGeneration, reply, home, pendingEvents, outbox>>
        /\ failures' = failures + 1 /\ Loses(1)
    BY DEF TickFails, Core!TickFails, appVars
  <1>2. Charged' = Charged /\ Invalidating' = Invalidating
    BY <1>1 DEF Charged, Invalidating
  <1>3. ToCome' = ToCome /\ ToCome \in Nat
    BY <1>1, <1>2, Numbers DEF ToCome, Rest
  <1>4. lost' = lost + 1 /\ lost' \in 0..MaxFailures
    BY <1>1, Numbers DEF Loses
  <1>5. failures' + Cardinality(Charged') + 2 * ToCome' <= lost' + 2 * home'
    BY <1>1, <1>2, <1>3, <1>4, Numbers DEF AccountInv
  <1>6. QED
    BY <1>1, <1>2, <1>4, <1>5 DEF AccountInv

(***************************************************************************)
(* A failed request is no longer charged once its task has seen it fail.   *)
(***************************************************************************)
LEMMA FailurePays ==
  ASSUME SyncInv, AccountInv, NEW t \in Callers, Fails(t)
  PROVE  AccountInv'
  <1> USE NamesApart, Typed
  <1>1. /\ UNCHANGED <<thread, appGeneration, home, pendingEvents, outbox, lost>>
        /\ failures' = failures + 1
        /\ reply' = [reply EXCEPT ![t] = NoReply] /\ reply[t] = Broken
        /\ pc[t] = "reply"
    BY DEF Fails, Core!Failed, Core!GiveUp, Got, appVars
  <1>2. t \in Charged /\ Charged' = Charged \ {t} /\ Invalidating' = Invalidating
    <2>1. thread[t].at = "idle"
      BY <1>1 DEF SyncInv, Waits
    <2>2. QED
      BY <1>1, <2>1 DEF Charged, Invalidating
  <1>3. Cardinality(Charged') = Cardinality(Charged) - 1
    BY <1>2, FewWait, FS_RemoveElement
  <1>4. ToCome' = ToCome /\ ToCome \in Nat
    BY <1>1, <1>2, Numbers DEF ToCome, Rest
  <1>5. failures' + Cardinality(Charged') + 2 * ToCome' <= lost' + 2 * home'
    BY <1>1, <1>3, <1>4, Numbers DEF AccountInv
  <1>6. QED
    BY <1>1, <1>2, <1>5 DEF AccountInv

LEMMA PostPays ==
  ASSUME SyncInv, AccountInv, NEW t \in Callers, Reconciles(t) \/ Retries(t)
  PROVE  AccountInv'
  <1> USE NamesApart, Typed
  <1>1. /\ UNCHANGED <<appGeneration, home, pendingEvents, outbox, lost, failures>>
        /\ \A u \in Callers : reply'[u] = Broken => reply[u] = Broken
    BY
    DEF Reconciles, Retries, Core!Acquire, Core!Superseded, App!PostReconcile, Got
  <1>2. /\ thread'[t].at = "reconcile"
        /\ \A u \in Servers \ {t} : thread'[u] = thread[u]
    <2>1. AppProofs!PostReconcile(t, home) /\ AppProofs!TypeInv
      BY SameApp DEF Reconciles, Retries, SyncInv
    <2>2. QED
      BY <2>1, AppProofs!PostReconcileAdds, NoProfileAssumption, AppBounds
  <1>3. Charged' \subseteq Charged /\ Invalidating' \subseteq Invalidating
    BY <1>1, <1>2 DEF Charged, Invalidating
  <1>4. QED
    BY <1>1, <1>3, NothingDue

-----------------------------------------------------------------------------
(***************************************************************************)
(* A batch moves from the pending events to the outbox, and its first      *)
(* invalidation to the App; then the next one, until none is left.         *)
(***************************************************************************)
LEMMA BatchPays ==
  ASSUME SyncInv, AccountInv, Invalidates, thread["flush"].at = "idle",
         UNCHANGED <<home, failures, lost>>,
         \A t \in Callers : reply'[t] = Broken => reply[t] = Broken,
         IsFiniteSet(pendingEvents'), IsFiniteSet(outbox'),
         Cardinality(pendingEvents') + Cardinality(outbox')
           <= Cardinality(pendingEvents) + Rest(outbox)
  PROVE  AccountInv'
  <1> USE NamesApart, Typed
  <1>0. Cardinality(pendingEvents') \in Nat /\ Cardinality(outbox') \in Nat
        /\ (outbox' # {} => Cardinality(outbox') # 0)
    BY FS_CardinalityType, FS_EmptySet
  <1>1. CASE outbox' = {}
    <2>1. UNCHANGED <<thread, appGeneration>>
      BY <1>1 DEF Invalidates, appVars
    <2>2. Charged' \subseteq Charged /\ Invalidating' = Invalidating
      BY <2>1, SameThreads
    <2>3. Cardinality(Charged') <= Cardinality(Charged) /\ Cardinality(Charged') \in Nat
      <3>1. Charged' \in SUBSET Charged
        BY <2>2
      <3>2. QED
        BY <3>1, FewWait, FS_Subset, FS_CardinalityType
    <2>4. ToCome' <= ToCome /\ ToCome \in Nat /\ ToCome' \in Nat
      BY <1>0, <1>1, <2>2, Numbers DEF ToCome, Rest
    <2>5. failures' + Cardinality(Charged') + 2 * ToCome' <= lost' + 2 * home'
      BY <2>3, <2>4, Numbers DEF AccountInv
    <2>6. QED
      BY <2>2, <2>5 DEF AccountInv
  <1>2. CASE outbox' # {}
    <2>1. AppProofs!PostInvalidate("flush") /\ AppProofs!TypeOK
      BY <1>2, SameApp DEF Invalidates, SyncInv, AppProofs!TypeInv
    <2>2. AppProofs!Turns("flush", AppProofs!Work("invalidate", 0, NoRevision, NoRevision))
      BY <2>1, AppProofs!PostInvalidateStep, NoProfileAssumption, AppBounds
    <2>3. /\ thread'["flush"].at = "invalidate" /\ appGeneration' = appGeneration
          /\ \A u \in Servers \ {"flush"} : thread'[u] = thread[u]
      BY <2>1, <2>2 DEF AppProofs!Turns, AppProofs!Work, AppProofs!PostInvalidate
    <2>4. Charged' \subseteq Charged /\ Invalidating' = Invalidating \cup {"flush"}
          /\ "flush" \notin Invalidating
      BY <2>3 DEF Charged, Invalidating
    <2>5. /\ IsFiniteSet(Invalidating')
          /\ Cardinality(Invalidating') = Cardinality(Invalidating) + 1
      BY <2>4, FS_AddElement DEF AccountInv
    <2>6. Cardinality(Charged') <= Cardinality(Charged) /\ Cardinality(Charged') \in Nat
      <3>1. Charged' \in SUBSET Charged
        BY <2>4
      <3>2. QED
        BY <3>1, FewWait, FS_Subset, FS_CardinalityType
    <2>7. ToCome' <= ToCome /\ ToCome \in Nat /\ ToCome' \in Nat
      BY <1>0, <1>2, <2>5, Numbers DEF ToCome, Rest
    <2>8. failures' + Cardinality(Charged') + 2 * ToCome' <= lost' + 2 * home'
      BY <2>6, <2>7, Numbers DEF AccountInv
    <2>9. QED
      BY <2>5, <2>8 DEF AccountInv
  <1>3. QED
    BY <1>1, <1>2

LEMMA DrainPays ==
  ASSUME SyncInv, AccountInv, Drains
  PROVE  AccountInv'
  <1>1. /\ Invalidates /\ UNCHANGED <<reply, lost, home, failures>>
        /\ pc["flush"] = "drain"
        /\ \/ outbox' = pendingEvents /\ pendingEvents' = {}
           \/ outbox' = outbox /\ pendingEvents' = pendingEvents
    BY DEF Drains, Core!FlushDrain, Core!Moved
  <1>2. outbox = {} /\ thread["flush"].at = "idle"
    BY <1>1, NamesApart, NotEngaged DEF SyncInv, LifeInv
  <1>3. Cardinality({}) = 0 /\ IsFiniteSet({})
    BY FS_EmptySet
  <1>4. Cardinality(pendingEvents') + Cardinality(outbox')
          <= Cardinality(pendingEvents) + Rest(outbox)
    <2>1. Cardinality(pendingEvents) \in Nat /\ Rest(outbox) = 0
      BY <1>2, Numbers
    <2>2. CASE outbox' = pendingEvents /\ pendingEvents' = {}
      <3>1. Cardinality(outbox') = Cardinality(pendingEvents) /\ Cardinality(pendingEvents') = 0
        BY <1>3, <2>2
      <3>2. QED
        BY <2>1, <3>1
    <2>3. CASE outbox' = outbox /\ pendingEvents' = pendingEvents
      <3>1. Cardinality(outbox') = 0 /\ Cardinality(pendingEvents') = Cardinality(pendingEvents)
        BY <1>2, <1>3, <2>3
      <3>2. QED
        BY <2>1, <3>1
    <2>4. QED
      BY <1>1, <2>2, <2>3
  <1>5. QED
    BY <1>1, <1>2, <1>3, <1>4, BatchPays DEF AccountInv

LEMMA SentPays ==
  ASSUME SyncInv, AccountInv, NEW k \in Kinds, Sent(k)
  PROVE  AccountInv'
  <1> USE NamesApart, Typed
  <1>1. /\ Invalidates /\ UNCHANGED <<lost, home, failures, pendingEvents>>
        /\ reply' = [reply EXCEPT !["flush"] = NoReply]
        /\ reply["flush"] # NoReply
        /\ k \in outbox /\ outbox' = outbox \ {k}
    BY DEF Sent, Core!FlushSent, Got
  <1>2. thread["flush"].at = "idle"
    BY <1>1 DEF SyncInv, Waits
  <1>3. IsFiniteSet(outbox') /\ Cardinality(outbox') = Rest(outbox)
    BY <1>1, FS_RemoveElement DEF AccountInv, Rest
  <1>4. Cardinality(pendingEvents') + Cardinality(outbox')
          <= Cardinality(pendingEvents) + Rest(outbox)
    BY <1>1, <1>3, Numbers
  <1>5. QED
    BY <1>1, <1>2, <1>3, <1>4, BatchPays DEF AccountInv

-----------------------------------------------------------------------------
(***************************************************************************)
(* A request that is refused or given up is one lost call.  One that is    *)
(* given up goes on, as an invalidation too, in another thread.            *)
(***************************************************************************)
LEMMA GivenUpPays ==
  ASSUME SyncInv, AccountInv, NEW t \in Callers, Refused(t) \/ TimesOut(t)
  PROVE  AccountInv'
  <1> USE NamesApart, Typed
  <1>1. /\ Loses(1) /\ reply' = [reply EXCEPT ![t] = Broken]
        /\ UNCHANGED <<coreVars, appGeneration>>
        /\ \A u \in Callers \ {t} : thread'[u] = thread[u]
        /\ thread'[t].at = "idle"
    BY GivenUpDrops, IdleIsTyped DEF Refused, TimesOut, Raises, Got, Drops
  <1>2. Charged' \subseteq Charged \cup {t}
    BY <1>1 DEF Charged
  <1>3. IsFiniteSet({t}) /\ Cardinality({t}) = 1
    BY FS_Singleton
  <1>4. IsFiniteSet(Invalidating') /\ Cardinality(Invalidating') <= Cardinality(Invalidating)
    <2>1. CASE Refused(t)
      <3>1. \A u \in Servers \ {t} : thread'[u] = thread[u]
        BY <2>1 DEF Refused, App!Local
      <3>2. Invalidating' \subseteq Invalidating
        BY <1>1, <3>1 DEF Invalidating
      <3>3. QED
        BY <3>2, SameInvalidating
    <2>2. CASE TimesOut(t)
      <3>1. PICK l \in Late :
              /\ thread[l].at = "idle"
              /\ thread' = [thread EXCEPT ![l] = thread[t], ![t] = App!Idle]
        BY <2>2 DEF TimesOut, App!At
      <3> DEFINE moved == [thread EXCEPT ![l] = thread[t]]
      <3>2. /\ moved[l] = thread[t] /\ l \in Servers /\ l # t
            /\ DOMAIN moved = Servers
            /\ \A u \in Servers \ {l} : moved[u] = thread[u]
        OBVIOUS
      <3>3. thread' = [moved EXCEPT ![t] = App!Idle]
        BY <3>1, Zenon
      <3> HIDE DEF moved
      <3>4. \A u \in Servers \ {t} : thread'[u] = moved[u]
        BY <3>2, <3>3
      <3>5. CASE t \in Invalidating
        <4>1. Invalidating' = (Invalidating \ {t}) \cup {l}
          BY <1>1, <3>1, <3>2, <3>4, <3>5 DEF Invalidating
        <4>2. /\ IsFiniteSet(Invalidating \ {t})
              /\ Cardinality(Invalidating \ {t}) = Cardinality(Invalidating) - 1
          BY <3>5, FS_RemoveElement DEF AccountInv
        <4>3. l \notin Invalidating \ {t}
          BY <3>1 DEF Invalidating
        <4>4. /\ IsFiniteSet(Invalidating')
              /\ Cardinality(Invalidating') = Cardinality(Invalidating \ {t}) + 1
          BY <4>1, <4>2, <4>3, FS_AddElement
        <4>5. QED
          BY <4>2, <4>4, Numbers
      <3>6. CASE t \notin Invalidating
        <4>1. Invalidating' \subseteq Invalidating
          BY <1>1, <3>1, <3>2, <3>4, <3>6 DEF Invalidating
        <4>2. QED
          BY <4>1, SameInvalidating
      <3>7. QED
        BY <3>5, <3>6
    <2>3. QED
      BY <2>1, <2>2
  <1>5. UNCHANGED <<pendingEvents, outbox, failures, home>>
    BY <1>1 DEF coreVars
  <1>6. QED
    BY <1>1, <1>2, <1>3, <1>4, <1>5, PaidFor

(***************************************************************************)
(* A restart loses every request that is under way, the invalidations      *)
(* included.                                                               *)
(***************************************************************************)
LEMMA RestartPays ==
  ASSUME SyncInv, AccountInv, AppRestarts
  PROVE  AccountInv'
  <1> USE NamesApart, Typed
  <1>1. /\ Loses(Cardinality(UnderWay)) /\ UNCHANGED coreVars
        /\ reply' = [u \in Callers |-> IF u \in UnderWay THEN Broken ELSE reply[u]]
        /\ \A u \in Servers : thread'[u].at = "idle"
    BY DEF AppRestarts, App!Restart, App!Idle
  <1>2. Charged' \subseteq Charged \cup UnderWay /\ Invalidating' \subseteq Invalidating
    BY <1>1 DEF Charged, Invalidating
  <1>3. UNCHANGED <<pendingEvents, outbox, failures, home>>
    BY <1>1 DEF coreVars
  <1>4. QED
    BY <1>1, <1>2, <1>3, FewWait, SameInvalidating, PaidFor

(***************************************************************************)
(* A request is charged when it is superseded, not when it raises.         *)
(***************************************************************************)
LEMMA StepPays ==
  ASSUME SyncInv, AccountInv, NEW t \in Servers,
         Serves(t) \/ SaveFails(t), appGeneration' = appGeneration
  PROVE  AccountInv'
  <1> USE NamesApart, Typed
  <1>1. /\ UNCHANGED <<pendingEvents, outbox, failures, home>>
        /\ \A u \in Callers \ {t} : reply'[u] = reply[u]
    BY DEF Serves, Works, Answers, Supersedes, SaveFails, Raises, Got, coreVars
  <1>2. /\ AppProofs!MovesOn(t) /\ \A u \in Servers \ {t} : thread'[u] = thread[u]
    BY ServesMoves
  <1>3. Invalidating' \subseteq Invalidating
    BY <1>2 DEF Invalidating, AppProofs!MovesOn
  <1>4. \A u \in Charged' : u \in Charged \/ (u = t /\ reply'[t] = Broken)
    BY <1>1, <1>2 DEF Charged, AppProofs!MovesOn
  <1>5. CASE SaveFails(t)
    <2>1. Loses(Cardinality({t} \cap Callers)) /\ IsFiniteSet({t} \cap Callers)
      BY <1>5, FS_Singleton, FS_Intersection DEF SaveFails
    <2>2. Charged' \subseteq Charged \cup ({t} \cap Callers)
      BY <1>4 DEF Charged
    <2>3. QED
      BY <1>1, <1>3, <2>1, <2>2, SameInvalidating, PaidFor
  <1>6. CASE Serves(t)
    <2>1. t \in Callers /\ reply'[t] = Broken => t \in Charged
      <3>1. CASE Works(t)
        BY <3>1 DEF Works, Charged
      <3>2. CASE Answers(t)
        BY <3>2, RevisionAssumption DEF Answers, Got
      <3>3. CASE Supersedes(t)
        BY <3>3 DEF Supersedes, App!ReturnLatest, App!At, Charged
      <3>4. QED
        BY <1>6, <3>1, <3>2, <3>3 DEF Serves
    <2>2. Charged' \subseteq Charged
      BY <1>4, <2>1 DEF Charged
    <2>3. lost' = lost
      BY <1>6 DEF Serves, Works, Answers, Supersedes
    <2>4. QED
      BY <1>1, <1>3, <2>2, <2>3, NothingDue
  <1>7. QED
    BY <1>5, <1>6

(***************************************************************************)
(* The one step of an invalidation that supersedes requests.               *)
(***************************************************************************)
LEMMA BumpPays ==
  ASSUME SyncInv, SyncInv', AccountInv, NEW t \in Servers,
         Serves(t) \/ SaveFails(t), appGeneration' # appGeneration
  PROVE  AccountInv'
  <1>1. /\ thread[t].at = "bump" /\ AppProofs!MovesOn(t)
        /\ \A u \in Servers \ {t} : thread'[u] = thread[u]
    BY ServesMoves DEF AppProofs!Touches
  <1>2. /\ UNCHANGED <<pendingEvents, outbox, failures, home, lost>>
    BY <1>1
    DEF Serves, Works, Answers, Supersedes, SaveFails, coreVars,
        App!ReturnLatest, App!Answer, App!SaveFails, App!At
  <1>3. t \in Invalidating /\ Invalidating' = Invalidating \ {t}
    BY <1>1 DEF Invalidating, AppProofs!MovesOn
  <1>4. /\ IsFiniteSet(Invalidating')
        /\ Cardinality(Invalidating') = Cardinality(Invalidating) - 1
    BY <1>3, FS_RemoveElement DEF AccountInv
  <1>5. Cardinality(Charged') \in 0..2
    <2>1. SyncInv => Cardinality(Charged) \in 0..2
      BY FewWait
    <2>2. (SyncInv => Cardinality(Charged) \in 0..2)'
      BY FewWait, PTL
    <2>3. QED
      BY <2>2
  <1>6. Cardinality(Invalidating') \in Nat
    BY <1>4, FS_CardinalityType
  <1>7. /\ ToCome' = Cardinality(pendingEvents) + Rest(outbox) + Cardinality(Invalidating')
        /\ ToCome = Cardinality(pendingEvents) + Rest(outbox) + Cardinality(Invalidating)
    BY <1>2 DEF ToCome, Rest
  <1>8. failures' + Cardinality(Charged') + 2 * ToCome' <= lost' + 2 * home'
    BY <1>2, <1>4, <1>5, <1>6, <1>7, Numbers DEF AccountInv
  <1>9. QED
    BY <1>2, <1>4, <1>8 DEF AccountInv

-----------------------------------------------------------------------------
LEMMA AccountStarts == Init => AccountInv
  <1> SUFFICES ASSUME Init PROVE AccountInv
    OBVIOUS
  <1>1. /\ pendingEvents = {} /\ outbox = {} /\ failures = 0 /\ home = 0 /\ lost = 0
        /\ Invalidating = {} /\ Charged = {}
    BY NamesApart, RevisionAssumption
    DEF Init, Core!Init, App!Init, App!Idle, Invalidating, Charged
  <1>2. IsFiniteSet({}) /\ Cardinality({}) = 0 /\ lost \in 0..MaxFailures
    BY <1>1, FS_EmptySet, BoundAssumption
  <1>3. QED
    BY <1>1, <1>2 DEF AccountInv, ToCome, Rest

LEMMA AccountGoesOn == SyncInv /\ SyncInv' /\ AccountInv /\ [Next]_vars => AccountInv'
  <1> SUFFICES ASSUME SyncInv, SyncInv', AccountInv, [Next]_vars PROVE AccountInv'
    OBVIOUS
  <1>1. ASSUME NEW t \in Servers, Serves(t) \/ SaveFails(t) PROVE AccountInv'
    BY <1>1, StepPays, BumpPays
  <1>2. QED
    BY <1>1, QuietPays, ChangePays, TickFailurePays, FailurePays, PostPays, DrainPays,
       SentPays, GivenUpPays, RestartPays
    DEF Next, Environment, Flush, Proceeds

(***************************************************************************)
(* Every state of Core and App together is well typed, and no more calls   *)
(* fail in a behaviour than are lost and, twice for every change, are      *)
(* superseded: the bound on the Core's failures never keeps a task from    *)
(* seeing its request fail.                                                *)
(***************************************************************************)
THEOREM SyncTyped == Spec => []TypeOK
  <1>1. SyncInv /\ AccountInv => TypeOK
    <2> SUFFICES ASSUME SyncInv, AccountInv PROVE TypeOK
      OBVIOUS
    <2> DEFINE Failed == {t \in Callers : reply[t] = Broken}
    <2>1. Cardinality(Failed) <= Cardinality(Charged) /\ Cardinality(Failed) \in Nat
      <3>1. Failed \in SUBSET Charged
        BY DEF Charged
      <3>2. QED
        BY <3>1, FewWait, FS_Subset, FS_CardinalityType
    <2>2. ToCome \in Nat
      BY Numbers DEF ToCome
    <2>3. home <= MaxHome /\ MaxHome \in Nat /\ lost <= MaxFailures
      BY BoundAssumption DEF SyncInv, AccountInv
    <2>4. failures + Cardinality(Failed) <= Allowance
      BY <2>1, <2>2, <2>3, Numbers DEF AccountInv, Allowance
    <2>5. Core!TypeOK /\ App!TypeOK
      BY SameApp DEF SyncInv, AppProofs!TypeInv
    <2>6. \A t \in Callers : reply[t] # NoReply => App!At(t, "idle")
      BY DEF SyncInv, Waits, App!At
    <2>7. QED
      BY <2>4, <2>5, <2>6 DEF TypeOK, SyncInv, RepliesTyped, AccountInv
  <1>2. QED
    BY <1>1, SyncInvHolds, SyncGoesOn, AccountStarts, AccountGoesOn, PTL DEF Spec

-----------------------------------------------------------------------------
(***************************************************************************)
(* What the App may open its gate with is the build that the task t has    *)
(* posted, under a revision the Core has yet to publish.                   *)
(***************************************************************************)
Told(p, t) ==
  p.status = "active" =>
    pending \/ (p.snap = run[t].asOf /\ p.rev # published.rev)

\* The one task that awaits the answer to its build.
Tells(t) ==
  /\ thread[t].at \in {"reconcile", "compile"} => thread[t].snap = run[t].asOf
  /\ thread[t].at = "superseded" => pending
  /\ thread[t].at = "publish" => Told(thread[t].prof, t)
  /\ thread[t].at \in {"save", "status"} \/ reply[t] \in Revisions =>
       active = NoRevision \/ Told(active, t)

Rebuilding == {"reconcile", "compile", "superseded", "publish"}

Agree ==
  active # NoRevision /\ active.status = "active" /\ active.rev = published.rev
    => pending \/ active.snap = published.asOf

(***************************************************************************)
(* While the Core runs, the flush task rebuilds only when it holds the     *)
(* lock; and a gate that is open on the published revision is open on its  *)
(* snapshot, unless a profile is about to be made the active one.          *)
(***************************************************************************)
RestInv ==
  /\ \A u \in Callers : thread[u].at = "assign" => thread[u].prof.status = "stale"
  /\ life # "closed" =>
       /\ pc["flush"] = "call" => thread["flush"].at \notin Rebuilding
       /\ \A t \in Callers : pc[t] = "reply" => Tells(t)
       /\ (\A t \in Callers : thread[t].at # "publish") => Agree

LEMMA OneBuilds ==
  ASSUME SyncInv, NEW t \in Callers, NEW u \in Callers, pc[t] = "reply", pc[u] = "reply"
  PROVE  t = u
  BY NamesApart DEF SyncInv, Core!LockDiscipline

LEMMA Belongs ==
  ASSUME SyncInv, RestInv, life # "closed", NEW t \in Callers, thread[t].at # "idle"
  PROVE  /\ reply[t] = NoReply
         /\ \/ pc[t] = "reply" /\ AppProofs!Reconciling(thread[t], active)
            \/ t = "flush" /\ pc[t] = "call" /\ thread[t].at \notin Rebuilding
  BY DEF SyncInv, Waits, Engaged, RestInv

(***************************************************************************)
(* The Core alone: nothing that the App does is to be seen.                *)
(***************************************************************************)
LEMMA CalmRests ==
  ASSUME SyncInv, RestInv, [Next]_vars, ~Posts,
         UNCHANGED <<thread, active, pending, published>>,
         \A t \in Callers : reply'[t] \in Revisions => reply'[t] = reply[t],
         pc'["flush"] = "call" => pc["flush"] = "call"
  PROVE  RestInv'
  <1>1. life' # "closed" => life # "closed"
    BY CoreGoesOn DEF CoreMoves
  <1>2. ASSUME life # "closed", NEW t \in Callers, pc'[t] = "reply" PROVE Tells(t)'
    <2>1. Tells(t) /\ run'[t] = run[t]
      BY <1>2, KeepsBuild DEF RestInv
    <2>2. QED
      BY <2>1 DEF Tells, Told
  <1>3. QED
    BY <1>1, <1>2 DEF RestInv, Agree

LEMMA CoreRests ==
  ASSUME SyncInv, RestInv, [Next]_vars, ~Posts,
         \/ Changes \/ Started \/ HandsOver \/ Unloads
         \/ \E t \in Ticks : Watch(t) \/ TickReply(t) \/ TickFails(t)
         \/ \E t \in Callers : GivesUp(t) \/ Fails(t)
         \/ UNCHANGED vars
  PROVE  RestInv'
  <1> USE NamesApart, Typed
  <1> DEFINE Calm == /\ UNCHANGED <<thread, active, pending, published>>
                     /\ \A t \in Callers : reply'[t] \in Revisions => reply'[t] = reply[t]
                     /\ pc'["flush"] = "call" => pc["flush"] = "call"
  <1>1. ASSUME Changes PROVE Calm
    BY <1>1 DEF Changes, Quiet, appVars, Core!RegistryChange, Core!OnEvent
  <1>2. ASSUME Started \/ HandsOver PROVE Calm
    BY <1>2
    DEF Started, HandsOver, Quiet, appVars, Core!StartReply, Core!FlushHandOver,
        Core!Moved
  <1>3. ASSUME Unloads PROVE Calm
    BY <1>3 DEF Unloads, appVars, Core!Shutdown, Core!Cancelled
  <1>4. ASSUME NEW t \in Ticks, Watch(t) \/ TickReply(t) \/ TickFails(t) PROVE Calm
    BY <1>4
    DEF Watch, TickReply, TickFails, Quiet, appVars, Core!Tick, Core!TickReply,
        Core!TickFails, Core!Moved
  <1>5. ASSUME NEW t \in Callers, GivesUp(t) \/ Fails(t) PROVE Calm
    BY <1>5
    DEF GivesUp, Fails, Got, appVars, Core!Exhausted, Core!Failed, Core!GiveUp,
        Core!Leave
  <1>6. ASSUME UNCHANGED vars PROVE Calm
    BY <1>6 DEF vars, coreVars, appVars
  <1>7. Calm
    BY <1>1, <1>2, <1>3, <1>4, <1>5, <1>6
  <1>8. QED
    BY <1>7, CalmRests

(***************************************************************************)
(* Publishing: the App's gate can only be open on the build accepted.      *)
(***************************************************************************)
LEMMA AcceptRests ==
  ASSUME SyncInv, SyncInv', RestInv, [Next]_vars, NEW t \in Callers, Accepts(t)
  PROVE  RestInv'
  <1> USE NamesApart, Typed
  <1>1. /\ UNCHANGED <<thread, active, pending>>
        /\ reply[t] \in Revisions /\ pc[t] = "reply"
        /\ published' = [rev |-> reply[t], asOf |-> run[t].asOf]
        /\ pc' = [pc EXCEPT ![t] = pc'[t]] /\ pc'[t] \notin {"reply", "call"}
    <2>1. pc[t] = "reply" => reply[t] # NoRevision
      BY DEF SyncInv, Waits
    <2>2. QED
      BY <2>1 DEF Accepts, Answered, appVars, Core!Accepted, Core!Leave
  <1>2. life' # "closed" => life # "closed"
    BY CoreGoesOn DEF CoreMoves
  <1>3. \A u \in Callers : pc'[u] # "reply"
    BY <1>1, OneBuilds
  <1>4. ASSUME life # "closed" PROVE Agree'
    <2>1. active = NoRevision \/ Told(active, t)
      BY <1>1, <1>4 DEF RestInv, Tells
    <2>2. QED
      BY <1>1, <2>1 DEF Told, Agree
  <1>5. pc'["flush"] = "call" => pc["flush"] = "call"
    BY <1>1
  <1>6. QED
    BY <1>1, <1>2, <1>3, <1>4, <1>5 DEF RestInv

(***************************************************************************)
(* Posting a build.                                                        *)
(***************************************************************************)
LEMMA PostRests ==
  ASSUME SyncInv, SyncInv', RestInv, [Next]_vars,
         NEW t \in Callers, Reconciles(t) \/ Retries(t)
  PROVE  RestInv'
  <1> USE NamesApart, Typed
  <1>1. /\ UNCHANGED <<active, pending, published, life>>
        /\ pc' = [pc EXCEPT ![t] = "reply"]
        /\ thread[t].at = "idle"
        /\ run'[t].asOf = home
    <2>1. run \in [Core!Tasks -> [gen : Nat, asOf : Nat, attempt : Nat]]
      BY DEF SyncInv, Core!TypeOK
    <2>2. QED
      BY <2>1
      DEF Reconciles, Retries, Core!Acquire, Core!Superseded, Core!Moved, Core!Attempt,
          App!PostReconcile, App!At
  <1>2. reply'[t] \notin Revisions
    <2>1. CASE Reconciles(t)
      BY <2>1, NotEngaged DEF Reconciles, Core!Acquire, Core!Moved
    <2>2. CASE Retries(t)
      BY <2>2 DEF Retries, Got
    <2>3. QED
      BY <2>1, <2>2
  <1>3. /\ thread'[t].at = "reconcile" /\ thread'[t].snap = home
        /\ \A u \in Servers \ {t} : thread'[u] = thread[u]
    <2>1. AppProofs!PostReconcile(t, home) /\ AppProofs!TypeInv
      BY SameApp DEF Reconciles, Retries, SyncInv
    <2>2. QED
      BY <2>1, AppProofs!PostReconcileAdds, NoProfileAssumption, AppBounds
  <1>4. pc'[t] = "reply" /\ (t # "flush" => pc'["flush"] = pc["flush"])
    BY <1>1
  <1>5. \A u \in Callers : pc'[u] = "reply" => u = t
    <2>1. \A u \in Callers : holder' = u <=> pc'[u] = "reply"
      BY DEF SyncInv, Core!LockDiscipline
    <2>2. QED
      BY <1>4, <2>1
  <1>6. Tells(t)'
    BY <1>1, <1>2, <1>3 DEF Tells
  <1>7. (\A u \in Callers : thread'[u].at # "publish")
          => \A u \in Callers : thread[u].at # "publish"
    BY <1>1, <1>3
  <1>8. QED
    BY <1>1, <1>3, <1>4, <1>5, <1>6, <1>7 DEF RestInv, Agree

(***************************************************************************)
(* The flush task posts an invalidation, or waits for the lock.            *)
(***************************************************************************)
LEMMA BatchRests ==
  ASSUME SyncInv, RestInv, [Next]_vars, ~Posts, Invalidates,
         thread["flush"].at = "idle", UNCHANGED <<published, life>>,
         pc'["flush"] # "reply",
         \A u \in Callers \ {"flush"} : reply'[u] = reply[u]
  PROVE  RestInv'
  <1> USE NamesApart, Typed
  <1>1. /\ UNCHANGED <<active, pending>>
        /\ thread'["flush"].at \in {"idle", "invalidate"}
        /\ \A u \in Servers \ {"flush"} : thread'[u] = thread[u]
    <2>1. CASE outbox' = {}
      BY <2>1 DEF Invalidates, appVars
    <2>2. CASE outbox' # {}
      BY <2>2 DEF Invalidates, App!PostInvalidate, App!Local, App!Idle
    <2>3. QED
      BY <2>1, <2>2
  <1>2. ASSUME life # "closed", NEW u \in Callers, pc'[u] = "reply" PROVE Tells(u)'
    <2>1. Tells(u) /\ run'[u] = run[u] /\ u # "flush"
      BY <1>2, KeepsBuild DEF RestInv
    <2>2. QED
      BY <1>1, <2>1 DEF Tells, Told
  <1>3. QED
    BY <1>1, <1>2 DEF RestInv, Agree, Rebuilding

LEMMA FlushRests ==
  ASSUME SyncInv, RestInv, [Next]_vars, ~Posts,
         Drains \/ \E k \in Kinds : Sent(k)
  PROVE  RestInv'
  <1> USE NamesApart, Typed
  <1>1. CASE Drains
    <2>1. /\ Invalidates /\ UNCHANGED <<reply, published, life>>
          /\ pc["flush"] = "drain" /\ pc'["flush"] # "reply"
      BY <1>1 DEF Drains, Core!FlushDrain, Core!Moved
    <2>2. thread["flush"].at = "idle"
      BY <2>1, NotEngaged
    <2>3. QED
      BY <2>1, <2>2, BatchRests
  <1>2. ASSUME NEW k \in Kinds, Sent(k) PROVE RestInv'
    <2>1. /\ Invalidates /\ UNCHANGED <<published, life>>
          /\ pc'["flush"] # "reply" /\ reply["flush"] # NoReply
          /\ reply' = [reply EXCEPT !["flush"] = NoReply]
      BY <1>2 DEF Sent, Core!FlushSent, Core!Moved, Got
    <2>2. thread["flush"].at = "idle"
      BY <2>1 DEF SyncInv, Waits
    <2>3. QED
      BY <2>1, <2>2, BatchRests
  <1>3. QED
    BY <1>1, <1>2

(***************************************************************************)
(* A request that does not get through has changed nothing.                *)
(***************************************************************************)
LEMMA RefusalRests ==
  ASSUME SyncInv, RestInv, [Next]_vars, ~Posts, NEW t \in Callers, Refused(t)
  PROVE  RestInv'
  <1> USE NamesApart, Typed
  <1>1. /\ UNCHANGED <<active, pending, published, life, pc>>
        /\ thread'[t].at = "idle" /\ thread[t].at # "publish"
        /\ \A u \in Servers \ {t} : thread'[u] = thread[u]
        /\ reply' = [reply EXCEPT ![t] = Broken]
    BY DEF Refused, Raises, Got, coreVars, App!At, App!Local, App!Idle
  <1>2. ASSUME life # "closed", NEW u \in Callers, pc'[u] = "reply" PROVE Tells(u)'
    <2>1. Tells(u) /\ run'[u] = run[u]
      BY <1>2, KeepsBuild DEF RestInv
    <2>2. QED
      BY <1>1, <2>1 DEF Tells, Told
  <1>3. QED
    BY <1>1, <1>2 DEF RestInv, Agree, Rebuilding

(***************************************************************************)
(* What is restored is restored stale.                                     *)
(***************************************************************************)
LEMMA RestartRests ==
  ASSUME SyncInv, RestInv, [Next]_vars, ~Posts, AppRestarts
  PROVE  RestInv'
  <1> USE NamesApart, Typed
  <1>1. /\ UNCHANGED coreVars
        /\ \A u \in Callers : thread'[u].at = "idle"
        /\ active' = NoRevision \/ active'.status = "stale"
    <2>1. disk \in AppProofs!Profile \cup {NoRevision}
      BY DEF SyncInv, AppProofs!TypeInv, AppProofs!TypeOK
    <2>2. PICK usable \in BOOLEAN : AppProofs!Restart(usable)
      BY SameApp DEF AppRestarts
    <2>3. \/ active' = NoRevision
          \/ active' = AppProofs!Stale(disk) /\ disk # NoRevision
      BY <2>2 DEF AppProofs!Restart
    <2>4. disk # NoRevision => AppProofs!Stale(disk).status = "stale"
      BY <2>1, AppProofs!StaleTyped, NoProfileAssumption, AppBounds
    <2>5. \A u \in Callers : thread'[u].at = "idle"
      BY DEF AppRestarts, App!Restart, App!Idle
    <2>6. QED
      BY <2>3, <2>4, <2>5 DEF AppRestarts
  <1>2. QED
    BY <1>1 DEF coreVars, RestInv, Tells, Told, Agree, Rebuilding

-----------------------------------------------------------------------------
(***************************************************************************)
(* A thread of the App runs.  The task it runs for either awaits the       *)
(* answer to its build, or is the flush task, sending its batch.           *)
(***************************************************************************)
LEMMA ServesFacts ==
  ASSUME SyncInv, RestInv, NEW t \in Callers, Serves(t) \/ SaveFails(t)
  PROVE  /\ thread[t].at # "idle"
         /\ AppProofs!MovesOn(t) /\ AppProofs!Touches(t)
         /\ \A u \in Servers \ {t} : thread'[u] = thread[u]
         /\ UNCHANGED coreVars
         /\ \A u \in Callers \ {t} : reply'[u] = reply[u]
         /\ reply[t] = NoReply
         /\ reply'[t] \in Revisions => thread[t].at = "status"
  <1> USE NamesApart, Typed
  <1>1. thread[t].at # "idle" /\ reply[t] = NoReply
    BY ServesMoves DEF SyncInv, Waits
  <1>2. UNCHANGED coreVars /\ \A u \in Callers \ {t} : reply'[u] = reply[u]
    BY DEF Serves, Works, Answers, Supersedes, SaveFails, Raises, Got
  <1>3. reply'[t] \in Revisions => thread[t].at = "status"
    <2>1. CASE Works(t)
      BY <1>1, <2>1 DEF Works
    <2>2. CASE Answers(t)
      BY <2>2 DEF Answers, App!Answer, App!At
    <2>3. CASE Supersedes(t) \/ SaveFails(t)
      BY <2>3 DEF Supersedes, SaveFails, Raises, Got
    <2>4. QED
      BY <2>1, <2>2, <2>3 DEF Serves
  <1>4. QED
    BY <1>1, <1>2, <1>3, ServesMoves

LEMMA FlushServes ==
  ASSUME SyncInv, RestInv, [Next]_vars, ~Posts, life # "closed", pc["flush"] = "call",
         thread["flush"].at \notin Rebuilding, Serves("flush") \/ SaveFails("flush")
  PROVE  RestInv'
  <1> USE NamesApart, Typed
  <1> DEFINE here == thread["flush"]
  <1>1. /\ AppProofs!MovesOn("flush") /\ AppProofs!Touches("flush")
        /\ \A u \in Servers \ {"flush"} : thread'[u] = thread[u]
        /\ UNCHANGED <<pc, published, life>>
        /\ \A u \in Callers \ {"flush"} : reply'[u] = reply[u]
    BY ServesFacts DEF coreVars
  <1>2. /\ thread'["flush"].at \notin Rebuilding
        /\ thread'["flush"].at = "assign" => thread'["flush"].prof.status = "stale"
        /\ pending => pending'
        /\ active' = active \/ active'.status = "stale"
    <2>1. thread'["flush"].at = "assign" => thread'["flush"].prof.status = "stale"
      BY <1>1 DEF AppProofs!MovesOn
    <2>2. thread'["flush"].at \notin Rebuilding
      BY <1>1 DEF AppProofs!MovesOn, Rebuilding
    <2>3. pending => pending'
      BY <1>1, <2>2 DEF AppProofs!Touches, Rebuilding
    <2>4. thread'["flush"].at = "save" => here.at = "assign" /\ active' = here.prof
      BY <1>1 DEF AppProofs!MovesOn, Rebuilding
    <2>5. here.at = "assign" => here.prof.status = "stale"
      BY DEF RestInv
    <2>6. QED
      BY <1>1, <2>1, <2>2, <2>3, <2>4, <2>5 DEF AppProofs!Touches
  <1>3. ASSUME NEW u \in Callers, pc'[u] = "reply" PROVE Tells(u)'
    <2>1. Tells(u) /\ run'[u] = run[u] /\ u # "flush"
      BY <1>3, KeepsBuild DEF RestInv
    <2>2. QED
      BY <1>1, <1>2, <2>1 DEF Tells, Told
  <1>4. (\A u \in Callers : thread'[u].at # "publish") => Agree'
    <2>1. \A u \in Callers : thread'[u].at # "publish" => thread[u].at # "publish"
      BY <1>1 DEF Rebuilding
    <2>2. QED
      BY <1>1, <1>2, <2>1 DEF RestInv, Agree
  <1>5. \A u \in Callers : thread'[u].at = "assign" => thread'[u].prof.status = "stale"
    BY <1>1, <1>2 DEF RestInv
  <1>6. QED
    BY <1>1, <1>2, <1>3, <1>4, <1>5 DEF RestInv

LEMMA BuilderServes ==
  ASSUME SyncInv, RestInv, [Next]_vars, ~Posts, life # "closed",
         NEW t \in Callers, pc[t] = "reply", AppProofs!Reconciling(thread[t], active),
         Serves(t) \/ SaveFails(t)
  PROVE  RestInv'
  <1> USE NamesApart, Typed
  <1> DEFINE here == thread[t]
             next == thread'[t]
  <1>1. /\ AppProofs!MovesOn(t) /\ AppProofs!Touches(t) /\ here.at # "idle"
        /\ \A u \in Servers \ {t} : thread'[u] = thread[u]
        /\ UNCHANGED <<pc, published, life, run>>
        /\ reply[t] = NoReply
        /\ reply'[t] \in Revisions => here.at = "status"
    BY ServesFacts DEF coreVars
  <1>2. /\ here.at \notin {"invalidate", "bump", "mark", "assign", "idle"}
        /\ Tells(t)
    BY <1>1 DEF AppProofs!Reconciling, RestInv
  <1>3. next.at \in {"idle", "reconcile", "compile", "superseded", "publish",
                     "invalidate", "bump", "mark", "assign", "save", "status"}
    <2>1. thread' \in [Servers -> AppProofs!Thread]
      BY AppStaysTyped DEF AppProofs!TypeInv, AppProofs!TypeOK
    <2>2. QED
      BY <2>1 DEF AppProofs!Thread
  <1>4. (pending => pending') \/ (next.at = "publish" /\ here.at = "compile")
    BY <1>1 DEF AppProofs!Touches
  <1>5. next.at = "publish" => Told(thread[t].prof, t)'
    <2>1. CASE here.at = "superseded"
      BY <1>1, <1>2, <1>4, <2>1 DEF Tells, Told
    <2>2. ASSUME here.at = "compile", next.at = "publish" PROVE Told(thread[t].prof, t)'
      <3>1. next.prof = latest' /\ next.prof.snap = run[t].asOf
        BY <1>1, <1>2, <2>2 DEF AppProofs!MovesOn, Tells
      <3>2. Activates(t)
        <4>1. ~AppProofs!ReturnLatest(t)
          BY <2>2 DEF AppProofs!ReturnLatest, AppProofs!At
        <4>2. ~ AppProofs!BeginCompile(t) /\ ~ AppProofs!Publish(t) /\ ~ AppProofs!Save(t)
              /\ ~ AppProofs!SaveFails(t) /\ ~ AppProofs!Answer(t)
          BY <2>2
          DEF AppProofs!BeginCompile, AppProofs!Publish, AppProofs!Save,
              AppProofs!SaveFails, AppProofs!Answer, AppProofs!At
        <4>3. ~ AppProofs!Invalidate(t)
          BY <2>2
          DEF AppProofs!Invalidate, AppProofs!Ingest, AppProofs!Bump, AppProofs!Mark,
              AppProofs!Assign, AppProofs!At
        <4>4. ~ AppProofs!Supersede(t)
          <5>1. SUFFICES ASSUME AppProofs!Supersede(t) PROVE FALSE
            OBVIOUS
          <5>2. AppProofs!Turns(t, AppProofs!Work("superseded", 0, NoRevision, NoRevision))
            BY <5>1, AppProofs!SupersedeStep, NoProfileAssumption, AppBounds
            DEF SyncInv, AppProofs!TypeInv
          <5>3. QED
            BY <2>2, <5>2 DEF AppProofs!Turns, AppProofs!Work
        <4>5. QED
          BY <4>1, <4>2, <4>3, <4>4, SameApp DEF Serves, Works, Answers, Supersedes, SaveFails
      <3>3. latest'.rev # published.rev
        <4>1. PICK rev \in NewRevisions : AppProofs!Activate(t, rev)
          BY <3>2, SameApp DEF Activates
        <4>2. rev \in Revisions /\ rev # published.rev
          BY DEF NewRevisions
        <4>3. latest'.rev = rev
          BY <4>1, <4>2, AppProofs!ActivateStep, NoProfileAssumption, AppBounds DEF SyncInv
        <4>4. QED
          BY <4>2, <4>3
      <3>4. QED
        BY <1>1, <3>1, <3>3 DEF Told
    <2>3. QED
      BY <1>1, <2>1, <2>2 DEF AppProofs!MovesOn
  <1>6. next.at = "save" => active' = here.prof /\ Told(active, t)'
    <2>1. ASSUME next.at = "save" PROVE /\ active' = here.prof /\ here.at = "publish"
                                        /\ Told(here.prof, t)
      BY <1>1, <1>2, <2>1 DEF AppProofs!MovesOn, Tells
    <2>2. QED
      BY <1>1, <1>4, <2>1 DEF Told
  <1>7. next.at = "status" \/ reply'[t] \in Revisions =>
          next.at = "save" \/ active' = NoRevision \/ Told(active, t)'
    <2>1. CASE next.at = "save"
      BY <2>1
    <2>2. CASE next.at # "save" /\ here.at \in {"save", "status"}
      <3>1. active' = active /\ (pending => pending')
        BY <1>1, <1>4, <2>2 DEF AppProofs!Touches
      <3>2. active = NoRevision \/ Told(active, t)
        BY <1>2, <2>2 DEF Tells
      <3>3. QED
        BY <1>1, <3>1, <3>2 DEF Told
    <2>3. next.at = "status" \/ reply'[t] \in Revisions => here.at \in {"save", "status"}
      BY <1>1, <1>2 DEF AppProofs!MovesOn
    <2>4. QED
      BY <2>1, <2>2, <2>3
  <1>8. Tells(t)'
    <2>1. next.at \in {"reconcile", "compile"} => next.snap = run[t].asOf
      BY <1>1, <1>2 DEF AppProofs!MovesOn, Tells
    <2>2. next.at = "superseded" => pending'
      BY <1>1 DEF AppProofs!MovesOn
    <2>3. QED
      BY <1>1, <1>5, <1>6, <1>7, <2>1, <2>2 DEF Tells
  <1>9. (\A u \in Callers : thread'[u].at # "publish") => Agree'
    <2> SUFFICES ASSUME \A u \in Callers : thread'[u].at # "publish" PROVE Agree'
      OBVIOUS
    <2>1. CASE next.at = "save"
      BY <1>1, <1>6, <2>1 DEF Agree, Told
    <2>2. CASE next.at # "save"
      <3>1. here.at # "publish"
        BY <1>1, <1>3, <2>2 DEF AppProofs!MovesOn
      <3>2. active' = active /\ (pending => pending')
        BY <1>1, <1>4, <2>2 DEF AppProofs!Touches
      <3>3. \A u \in Callers : thread[u].at # "publish"
        BY <1>1, <3>1
      <3>4. QED
        BY <1>1, <3>2, <3>3 DEF RestInv, Agree
    <2>3. QED
      BY <2>1, <2>2
  <1>10. \A u \in Callers : thread'[u].at = "assign" => thread'[u].prof.status = "stale"
    BY <1>1 DEF RestInv, AppProofs!MovesOn
  <1>11. ASSUME NEW u \in Callers, pc'[u] = "reply" PROVE Tells(u)'
    BY <1>1, <1>8, <1>11, OneBuilds
  <1>12. pc'["flush"] = "call" => thread'["flush"].at \notin Rebuilding
    BY <1>1 DEF RestInv
  <1>13. QED
    BY <1>9, <1>10, <1>11, <1>12 DEF RestInv

LEMMA ServesRests ==
  ASSUME SyncInv, RestInv, [Next]_vars, ~Posts, NEW t \in Callers, Serves(t) \/ SaveFails(t)
  PROVE  RestInv'
  <1>1. CASE life # "closed"
    <2>1. thread[t].at # "idle"
      BY ServesFacts
    <2>2. QED
      BY <1>1, <2>1, Belongs, FlushServes, BuilderServes
  <1>2. CASE life = "closed"
    <2>1. /\ AppProofs!MovesOn(t) /\ life' = "closed"
          /\ \A u \in Servers \ {t} : thread'[u] = thread[u]
      BY <1>2, ServesFacts DEF coreVars
    <2>2. QED
      BY <2>1, NamesApart DEF RestInv, AppProofs!MovesOn
  <1>3. QED
    BY <1>1, <1>2

-----------------------------------------------------------------------------
LEMMA RestStarts == Init => RestInv
  <1> SUFFICES ASSUME Init PROVE RestInv
    OBVIOUS
  <1>1. /\ active = NoRevision
        /\ \A u \in Callers : thread[u].at = "idle" /\ pc[u] # "reply"
    BY NamesApart DEF Init, App!Init, App!Idle, Core!Init
  <1>2. QED
    BY <1>1, NamesApart DEF RestInv, Agree, Rebuilding

LEMMA RestGoesOn ==
  ASSUME Late = {}
  PROVE  SyncInv /\ SyncInv' /\ RestInv /\ [Next]_vars => RestInv'
  <1> SUFFICES ASSUME SyncInv, SyncInv', RestInv, [Next]_vars PROVE RestInv'
    OBVIOUS
  <1>1. CASE Posts
    BY <1>1, PostRests DEF Posts
  <1>2. CASE ~Posts
    <2>1. ASSUME NEW t \in Callers, TimesOut(t) PROVE FALSE
      BY <2>1 DEF TimesOut
    <2>2. ASSUME NEW t \in Servers, Serves(t) \/ SaveFails(t) PROVE RestInv'
      BY <1>2, <2>2, ServesRests DEF Servers
    <2>3. ASSUME NEW t \in Callers, Reconciles(t) \/ Retries(t) PROVE FALSE
      BY <1>2, <2>3 DEF Posts
    <2>4. QED
      BY <1>2, <2>1, <2>2, <2>3, CoreRests, AcceptRests, FlushRests, RefusalRests,
         RestartRests
      DEF Next, Environment, Flush, Proceeds
  <1>3. QED
    BY <1>1, <1>2

(***************************************************************************)
(* As long as no request outlives its caller: however many calls fail,     *)
(* however often the App restarts and whatever else overtakes what, Core   *)
(* and App at rest never decide and write under one revision that stands   *)
(* for two snapshots.                                                      *)
(***************************************************************************)
THEOREM CalmAgrees ==
  ASSUME Late = {}
  PROVE  Spec => []RestAgrees
  <1>1. SyncInv /\ RestInv => RestAgrees
    <2> SUFFICES ASSUME SyncInv, RestInv, AtRest, BothOpen PROVE published.asOf = active.snap
      BY DEF RestAgrees
    <2>1. /\ life # "closed" /\ active # NoRevision /\ active.status = "active" /\ ~pending
          /\ published.rev = active.rev
      BY DEF BothOpen, Core!WritesAllowed, App!GateOpen
    <2>2. \A t \in Callers : thread[t].at # "publish"
      BY NamesApart DEF AtRest, App!At
    <2>3. QED
      BY <2>1, <2>2 DEF RestInv, Agree
  <1>2. QED
    BY <1>1, SyncInvHolds, SyncGoesOn, RestStarts, RestGoesOn, PTL DEF Spec
=============================================================================
