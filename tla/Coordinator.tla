----------------------------- MODULE Coordinator -----------------------------
(***************************************************************************)
(* The profile coordinator of the Home Assistant integration               *)
(* (custom_components/ha_switchboard/coordinator.py).                      *)
(*                                                                         *)
(* The coordinator is single-threaded: its coroutines run on Home          *)
(* Assistant's event loop and interleave only where they await.  A step of *)
(* this module is therefore the code between two awaits.  The App is left  *)
(* open here: a call to it may fail, and an answer may carry any revision, *)
(* so what is shown about the coordinator holds whatever the App does.     *)
(*                                                                         *)
(* home counts the changes made to Home Assistant's registries.  A build   *)
(* of the profile (profile_adapter.py, which never awaits) is known by the *)
(* value of home at which it read the registries.                          *)
(***************************************************************************)
EXTENDS Naturals

CONSTANTS
  Ticks,         \* recovery ticks that may be in flight at once
  Kinds,         \* types of registry events
  Nobody,        \* nobody holds the lock
  Revisions,     \* revisions the App may answer with
  NoRevision,    \* profile_revision is None
  MaxAttempts,   \* builds tried by one reconciliation (3 in the code)
  MaxBatches,    \* batches drained by one flush task (8 in the code)
  MaxHome,       \* bound: registry changes in a behaviour
  MaxFailures    \* bound: App calls that fail in a behaviour

ASSUME TicksAssumption ==
  Ticks \cap {"start", "flush", "periodic", "scan", "direct"} = {}
ASSUME NobodyAssumption ==
  Nobody \notin {"start", "flush", "periodic", "scan", "direct"} \cup Ticks
ASSUME RevisionAssumption == NoRevision \notin Revisions
ASSUME BoundAssumption ==
  /\ MaxAttempts \in Nat \ {0}
  /\ MaxBatches \in Nat \ {0}
  /\ MaxHome \in Nat
  /\ MaxFailures \in Nat

VARIABLES
  home,          \* registry changes so far (the world, not the coordinator)
  heard,         \* value of home at the last change the coordinator was told of
  life,          \* "setup", "running" (_started) or "closed" (shut down)
  generation,    \* _profile_generation
  stale,         \* _stale
  published,     \* profile_revision with capability_map and _build
  pendingEvents, \* _pending_events
  outbox,        \* events the running flush batch has yet to send
  batch,         \* batches the running flush task has finished
  pc,            \* where each task awaits
  run,           \* locals of _async_reconcile_unlocked in each task
  holder,        \* the task that holds _reconcile_lock
  failures       \* failed App calls so far

vars == <<home, heard, life, generation, stale, published, pendingEvents,
          outbox, batch, pc, run, holder, failures>>

Tasks == {"start", "flush", "periodic", "scan", "direct"} \cup Ticks

NoMap == [rev |-> NoRevision, asOf |-> 0]
NoRun == [gen |-> 0, asOf |-> 0, attempt |-> 0]

TypeOK ==
  /\ home \in Nat
  /\ heard \in Nat
  /\ life \in {"setup", "running", "closed"}
  /\ generation \in Nat
  /\ stale \in BOOLEAN
  /\ published \in [rev : Revisions \cup {NoRevision}, asOf : Nat]
  /\ pendingEvents \subseteq Kinds
  /\ outbox \subseteq Kinds
  /\ batch \in Nat
  /\ pc \in [Tasks -> {"idle", "drain", "call", "lock", "reply"}]
  /\ run \in [Tasks -> [gen : Nat, asOf : Nat, attempt : Nat]]
  /\ holder \in Tasks \cup {Nobody}
  /\ failures \in Nat

\* async_start has been called: it first asks the App for its health.
Init ==
  /\ home = 0
  /\ heard = 0
  /\ life = "setup"
  /\ generation = 0
  /\ stale = TRUE
  /\ published = NoMap
  /\ pendingEvents = {}
  /\ outbox = {}
  /\ batch = 0
  /\ pc = [t \in Tasks |-> IF t = "start" THEN "call" ELSE "idle"]
  /\ run = [t \in Tasks |-> NoRun]
  /\ holder = Nobody
  /\ failures = 0

Moved(t, from, to) ==
  /\ pc[t] = from
  /\ pc' = [pc EXCEPT ![t] = to]

-----------------------------------------------------------------------------
(* Registry changes and the callback that hears them.                      *)

\* Mutant: the event is queued, and only the flush task marks the profile stale.
OnEventDeferred(k) ==
  /\ pendingEvents' = pendingEvents \cup {k}
  /\ UNCHANGED stale
  /\ generation' = generation + 1
  /\ heard' = home'
  /\ IF pc["flush"] = "idle"
       THEN /\ pc' = [pc EXCEPT !["flush"] = "drain"]
            /\ batch' = 0
       ELSE UNCHANGED <<pc, batch>>

\* _on_event: runs inside the change itself (a @callback listener), so no
\* step separates the two.  A running flush task picks the event up.
OnEvent(k) ==
  /\ pendingEvents' = pendingEvents \cup {k}
  /\ stale' = TRUE
  /\ generation' = generation + 1
  /\ heard' = home'
  /\ IF pc["flush"] = "idle"
       THEN /\ pc' = [pc EXCEPT !["flush"] = "drain"]
            /\ batch' = 0
       ELSE UNCHANGED <<pc, batch>>

\* The listeners are registered when async_start has finished, and
\* unsubscribed by async_shutdown: a change outside that span is not heard.
RegistryChange(k) ==
  /\ home < MaxHome
  /\ home' = home + 1
  /\ IF life = "running"
       THEN OnEvent(k)
       ELSE UNCHANGED <<pendingEvents, stale, generation, heard, pc, batch>>
  /\ UNCHANGED <<life, published, outbox, run, holder, failures>>

\* async_handle_event: the awaitable form of the same notification.  It does
\* not go through _pending_events.
DirectEvent ==
  /\ home < MaxHome
  /\ life = "running"
  /\ Moved("direct", "idle", "call")
  /\ home' = home + 1
  /\ heard' = home'
  /\ stale' = TRUE
  /\ generation' = generation + 1
  /\ UNCHANGED <<life, published, pendingEvents, outbox, batch, run, holder,
                 failures>>

-----------------------------------------------------------------------------
(* async_reconcile: wait for the lock, then up to MaxAttempts builds.      *)

Attempt(t, n) ==
  run' = [run EXCEPT ![t] = [gen |-> generation, asOf |-> home, attempt |-> n]]

\* Mutant: nothing keeps two reconciliations apart.
AcquireUnlocked(t) ==
  /\ holder' = t
  /\ Moved(t, "lock", "reply")
  /\ Attempt(t, 1)
  /\ UNCHANGED <<home, heard, life, generation, stale, published,
                 pendingEvents, outbox, batch, failures>>

\* The holder notes the generation, reads the registries and calls the App,
\* all before it awaits.  (asyncio.Lock serves its waiters in order; here any
\* of them may be next.)
Acquire(t) ==
  /\ holder = Nobody
  /\ holder' = t
  /\ Moved(t, "lock", "reply")
  /\ Attempt(t, 1)
  /\ UNCHANGED <<home, heard, life, generation, stale, published,
                 pendingEvents, outbox, batch, failures>>

\* Mutant: the flush task ends after one batch.
LeaveSingleShot(t) ==
  /\ holder' = Nobody
  /\ run' = [run EXCEPT ![t] = NoRun]
  /\ pc' = [pc EXCEPT ![t] = "idle"]
  /\ batch' = IF t = "flush" THEN batch + 1 ELSE batch

\* Leaving async_reconcile releases the lock and resumes the caller.
Leave(t) ==
  /\ holder' = Nobody
  /\ run' = [run EXCEPT ![t] = NoRun]
  /\ pc' = [pc EXCEPT ![t] = IF t = "flush" THEN "drain" ELSE "idle"]
  /\ batch' = IF t = "flush" THEN batch + 1 ELSE batch

\* Mutant: a build is published whatever came in meanwhile.
AcceptedUnchecked(t, rev) ==
  /\ pc[t] = "reply"
  /\ published' = [rev |-> rev, asOf |-> run[t].asOf]
  /\ stale' = FALSE
  /\ life' = IF t = "start" THEN "running" ELSE life
  /\ Leave(t)
  /\ UNCHANGED <<home, heard, generation, pendingEvents, outbox, failures>>

\* Mutant: an answer without a revision is published as "".
AcceptedUnnamed(t, rev) ==
  /\ pc[t] = "reply"
  /\ run[t].gen = generation
  /\ published' = [rev |-> "", asOf |-> run[t].asOf]
  /\ stale' = FALSE
  /\ life' = IF t = "start" THEN "running" ELSE life
  /\ Leave(t)
  /\ UNCHANGED <<home, heard, generation, pendingEvents, outbox, failures>>

\* The App answered with a revision and no event came in meanwhile: map,
\* build and revision are replaced together.  The first success ends
\* async_start, which registers the listeners without awaiting again.
Accepted(t, rev) ==
  /\ pc[t] = "reply"
  /\ run[t].gen = generation
  /\ published' = [rev |-> rev, asOf |-> run[t].asOf]
  /\ stale' = FALSE
  /\ life' = IF t = "start" THEN "running" ELSE life
  /\ Leave(t)
  /\ UNCHANGED <<home, heard, generation, pendingEvents, outbox, failures>>

\* Mutant: the new snapshot is posted, the old build kept.
SupersededOldBuild(t) ==
  /\ pc[t] = "reply"
  /\ run[t].gen # generation
  /\ run[t].attempt < MaxAttempts
  /\ stale' = TRUE
  /\ run' = [run EXCEPT ![t].gen = generation, ![t].attempt = run[t].attempt + 1]
  /\ UNCHANGED <<home, heard, life, generation, published, pendingEvents,
                 outbox, batch, pc, holder, failures>>

\* An event arrived while the App worked on the build: try again.
Superseded(t) ==
  /\ pc[t] = "reply"
  /\ run[t].gen # generation
  /\ run[t].attempt < MaxAttempts
  /\ stale' = TRUE
  /\ Attempt(t, run[t].attempt + 1)
  /\ UNCHANGED <<home, heard, life, generation, published, pendingEvents,
                 outbox, batch, pc, holder, failures>>

\* GatewayClientError leaves async_reconcile.  Every caller swallows it but
\* async_start, whose failure shuts the coordinator down.
GiveUp(t) ==
  /\ life' = IF t = "start" THEN "closed" ELSE life
  /\ Leave(t)
  /\ UNCHANGED <<home, heard, generation, published, pendingEvents, outbox>>

\* "profile changed during reconciliation"
Exhausted(t) ==
  /\ pc[t] = "reply"
  /\ run[t].gen # generation
  /\ run[t].attempt = MaxAttempts
  /\ stale' = TRUE
  /\ GiveUp(t)
  /\ UNCHANGED failures

\* The call failed or timed out, or no revision could be had.
Failed(t) ==
  /\ pc[t] = "reply"
  /\ failures < MaxFailures
  /\ failures' = failures + 1
  /\ GiveUp(t)
  /\ UNCHANGED stale

-----------------------------------------------------------------------------
(* The tasks that lead to a reconciliation.                                *)

\* async_start: client.health() and the App's options.
StartReply ==
  /\ Moved("start", "call", "lock")
  /\ UNCHANGED <<home, heard, life, generation, stale, published,
                 pendingEvents, outbox, batch, run, holder, failures>>

StartFails ==
  /\ failures < MaxFailures
  /\ failures' = failures + 1
  /\ Moved("start", "call", "idle")
  /\ life' = "closed"
  /\ UNCHANGED <<home, heard, generation, stale, published, pendingEvents,
                 outbox, batch, run, holder>>

\* _flush_events takes everything pending, or ends.
FlushDrain ==
  /\ batch < MaxBatches
  /\ \/ /\ pendingEvents # {}
        /\ Moved("flush", "drain", "call")
        /\ outbox' = pendingEvents
        /\ pendingEvents' = {}
     \/ /\ pendingEvents = {}
        /\ Moved("flush", "drain", "idle")
        /\ UNCHANGED <<outbox, pendingEvents>>
  /\ UNCHANGED <<home, heard, life, generation, stale, published, batch, run,
                 holder, failures>>

\* Mutant: the task ends after its last batch, whatever is pending.
FlushHandOverDropped ==
  /\ batch >= MaxBatches
  /\ Moved("flush", "drain", "idle")
  /\ batch' = 0
  /\ UNCHANGED <<home, heard, life, generation, stale, published,
                 pendingEvents, outbox, run, holder, failures>>

\* After the last batch the task ends, leaving a successor if events remain.
FlushHandOver ==
  /\ batch >= MaxBatches
  /\ Moved("flush", "drain", IF pendingEvents = {} THEN "idle" ELSE "drain")
  /\ batch' = 0
  /\ UNCHANGED <<home, heard, life, generation, stale, published,
                 pendingEvents, outbox, run, holder, failures>>

\* One client.invalidate of the batch has returned; its failure is ignored.
FlushSent(k) ==
  /\ k \in outbox
  /\ outbox' = outbox \ {k}
  /\ IF outbox = {k}
       THEN Moved("flush", "call", "lock")
       ELSE /\ pc["flush"] = "call"
            /\ UNCHANGED pc
  /\ UNCHANGED <<home, heard, life, generation, stale, published,
                 pendingEvents, batch, run, holder, failures>>

\* _recovery_tick, every 10 s: ask for the App's status ...
Tick(t) ==
  /\ life = "running"
  /\ Moved(t, "idle", "call")
  /\ UNCHANGED <<home, heard, life, generation, stale, published,
                 pendingEvents, outbox, batch, run, holder, failures>>

\* Mutant: the watch looks at the App's status alone.
TickReplyByStatus(t, current, rev) ==
  /\ Moved(t, "call", IF current THEN "idle" ELSE "lock")
  /\ UNCHANGED <<home, heard, life, generation, stale, published,
                 pendingEvents, outbox, batch, run, holder, failures>>

\* ... and reconcile unless the App has this very revision active, with
\* nothing pending.
TickReply(t, current, rev) ==
  /\ Moved(t, "call",
           IF current /\ rev = published.rev THEN "idle" ELSE "lock")
  /\ UNCHANGED <<home, heard, life, generation, stale, published,
                 pendingEvents, outbox, batch, run, holder, failures>>

TickFails(t) ==
  /\ failures < MaxFailures
  /\ failures' = failures + 1
  /\ Moved(t, "call", "idle")
  /\ UNCHANGED <<home, heard, life, generation, stale, published,
                 pendingEvents, outbox, batch, run, holder>>

\* _periodic_refresh, every refresh_minutes.
Periodic ==
  /\ life = "running"
  /\ Moved("periodic", "idle", "lock")
  /\ UNCHANGED <<home, heard, life, generation, stale, published,
                 pendingEvents, outbox, batch, run, holder, failures>>

\* async_scan starts the one scan task; a second request joins it.
Scan ==
  /\ life = "running"
  /\ Moved("scan", "idle", "call")
  /\ UNCHANGED <<home, heard, life, generation, stale, published,
                 pendingEvents, outbox, batch, run, holder, failures>>

\* client.scan (in the scan task) or client.invalidate (in the direct one)
\* has succeeded; if it fails, the task ends without a reconciliation.
CallReply(t) ==
  /\ t \in {"scan", "direct"}
  /\ Moved(t, "call", "lock")
  /\ UNCHANGED <<home, heard, life, generation, stale, published,
                 pendingEvents, outbox, batch, run, holder, failures>>

CallFails(t) ==
  /\ t \in {"scan", "direct"}
  /\ failures < MaxFailures
  /\ failures' = failures + 1
  /\ Moved(t, "call", "idle")
  /\ UNCHANGED <<home, heard, life, generation, stale, published,
                 pendingEvents, outbox, batch, run, holder>>

\* async_shutdown: the flush and scan tasks are cancelled where they await,
\* which also takes them out of the lock; a tick that Home Assistant's timer
\* started, the periodic refresh and a direct call run on.
Cancelled == {"flush", "scan"}

\* Mutant: a cancelled task keeps the lock.
ShutdownLocked ==
  /\ life = "running"
  /\ life' = "closed"
  /\ pc' = [t \in Tasks |-> IF t \in Cancelled THEN "idle" ELSE pc[t]]
  /\ UNCHANGED holder
  /\ outbox' = {}
  /\ run' = [t \in Tasks |-> IF t \in Cancelled THEN NoRun ELSE run[t]]
  /\ UNCHANGED <<home, heard, generation, stale, published, pendingEvents,
                 batch, failures>>

Shutdown ==
  /\ life = "running"
  /\ life' = "closed"
  /\ pc' = [t \in Tasks |-> IF t \in Cancelled THEN "idle" ELSE pc[t]]
  /\ holder' = IF holder \in Cancelled THEN Nobody ELSE holder
  /\ outbox' = {}
  /\ run' = [t \in Tasks |-> IF t \in Cancelled THEN NoRun ELSE run[t]]
  /\ UNCHANGED <<home, heard, generation, stale, published, pendingEvents,
                 batch, failures>>

-----------------------------------------------------------------------------
Environment ==
  \/ \E k \in Kinds : RegistryChange(k)
  \/ DirectEvent
  \/ Scan
  \/ Shutdown

Timers ==
  \/ \E t \in Ticks : Tick(t)
  \/ Periodic

Setup == StartReply \/ StartFails

Flush ==
  \/ FlushDrain
  \/ FlushHandOver
  \/ \E k \in Kinds : FlushSent(k)

Answers(t) ==
  \/ \E current \in BOOLEAN, rev \in Revisions \cup {NoRevision} :
       t \in Ticks /\ TickReply(t, current, rev)
  \/ CallReply(t)

Answered(t) ==
  \/ \E rev \in Revisions : Accepted(t, rev)
  \/ Superseded(t)
  \/ Exhausted(t)

Failure(t) ==
  \/ Failed(t)
  \/ t \in Ticks /\ TickFails(t)
  \/ CallFails(t)

Next ==
  \/ Environment
  \/ Timers
  \/ Setup
  \/ Flush
  \/ \E t \in Tasks : Answers(t) \/ Acquire(t) \/ Answered(t) \/ Failure(t)

(* The event loop runs every task that can run, the lock is fair, and a    *)
(* call to the App ends (client.timeout).  The environment is under no     *)
(* obligation.                                                             *)
LoopFairness ==
  /\ WF_vars(StartReply)
  /\ WF_vars(Flush)
  /\ \A t \in Tasks : /\ WF_vars(Answers(t))
                      /\ WF_vars(Answered(t))
                      /\ SF_vars(Acquire(t))

\* The periodic timer keeps firing while the coordinator runs.
TimerFairness == WF_vars(Periodic)

Spec == Init /\ [][Next]_vars

FairSpec == Spec /\ LoopFairness

TimedSpec == Spec /\ LoopFairness /\ TimerFairness

-----------------------------------------------------------------------------
(* What the execution boundary asks before a service call.                 *)
WritesAllowed ==
  /\ life = "running"
  /\ ~stale
  /\ published.rev # NoRevision

(***************************************************************************)
(* No write is allowed under a capability map built before the last change *)
(* the coordinator heard of, whatever tasks were rebuilding it and however *)
(* the App answered them.                                                  *)
(***************************************************************************)
FreshWrites == WritesAllowed => published.asOf >= heard

(***************************************************************************)
(* A pending event always has a flush task that will drain it: the test in *)
(* _on_event for a finished task and the successor _flush_events leaves    *)
(* after its last batch miss none.                                         *)
(***************************************************************************)
NoEventForgotten ==
  life = "running" /\ pendingEvents # {} => pc["flush"] # "idle"

(***************************************************************************)
(* One reconciliation at a time talks to the App, and on every way out of  *)
(* it, cancellation included, the lock is released.                        *)
(***************************************************************************)
LockDiscipline == \A t \in Tasks : pc[t] = "reply" <=> holder = t

(***************************************************************************)
(* Under LoopFairness alone, and as long as no call to the App has failed: *)
(* once changes stop, the events heard lead to a current map without the   *)
(* help of any timer.                                                      *)
(***************************************************************************)
StaleEnds ==
  (life = "running" /\ stale)
    ~> (WritesAllowed \/ life = "closed" \/ failures > 0)

(***************************************************************************)
(* The coordinator is a write gate: each of its steps is one of the gate's *)
(* or leaves the gate alone.  In particular nothing but a published map    *)
(* ever allows writes again.                                               *)
(***************************************************************************)
Gate == INSTANCE WriteGate WITH asOf <- published.asOf, open <- WritesAllowed

ImplementsWriteGate == Gate!Spec

(***************************************************************************)
(* The claim that writes are refused until a complete *current* snapshot   *)
(* is reconciled, for every change and not only for those heard.           *)
(***************************************************************************)
WritableMapIsCurrent == WritesAllowed => published.asOf = home
=============================================================================
