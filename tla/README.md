# HA Switchboard: formal specification

HA Switchboard lets Home Assistant's Assist talk to a bounded decision service.
It consists of two programs:

* **Core**, a Home Assistant integration (`custom_components/ha_switchboard/`).
  It reads the registries, keeps the only map from opaque capability ids to
  entities, and is the only part that calls services.
* **the App**, an HTTP server (`app/ha_switchboard/`). It keeps a compiled,
  redacted profile of the home, decides what a request means with the help of a
  decision service ("Jev") and of fallback models, and applies policy.

This directory holds TLA+ models of the parts whose correctness depends on the
order of things, TLC runs over small instances, and TLAPS proofs.

## Inventory

### Components, state, operations

| component | source | state | operations |
| --- | --- | --- | --- |
| profile coordinator (Core) | `coordinator.py`, `__init__.py` | `_profile_generation`, `_stale`, `_pending_events`, map + build + revision, `_reconcile_lock`, five kinds of task | start, reconcile, registry event, flush, scan, recovery tick, periodic refresh, shutdown, `writes_allowed` |
| conversation entity (Core) | `conversation.py`, `conversation_context.py` | the store of pending questions | a message: continuation, native intent, local answer, App call, execution |
| execution boundary (Core) | `execution.py`, `capabilities.py` | `_receipts`, the capability map | execute one proposal, execute a batch, verify |
| profile adapter (Core) | `profile_adapter.py` | none | build a snapshot and its targets, without awaiting |
| HTTP client (Core) | `client.py` | none | one call, with a timeout |
| profile lifecycle (App) | `gateway.py`, `change_monitor.py` | `active_profile`, the monitor's profile, `pending_sections`, `generation` | reconcile, invalidate, status, restore at start |
| decision path (App) | `gateway.py`, `policy.py`, `batch.py` | `_seen_requests` | process: memory, freshness gate, decision, policy, delegation |
| decision clients (App) | `jev_client.py` | none | ask, and accept or refuse an answer |
| profile compiler, groups, batches (both) | `profile.py`, `batch.py`, `capabilities.py` | none | compile a snapshot; resolve groups; make a batch of a sentence |
| handoff (App) | `handoff.py`, `route_policy.py`, fallback clients | circuits, handoff ids seen | choose a route, walk the failover graph, dispatch, probe |
| wiring (App) | `server.py` | none | build the gateway from options, migrate older ones |
| persistence (App) | `store.py` | profile, status, options and backup files | atomic replace, load |
| HTTP server (App) | `server.py`, `http_security.py` | worker slots, rate-limiter windows | accept, authorise, dispatch |
| the rest | discovery, web page, diagnostics, sensors, config flow, tools | logs and forms | display and I/O |

### Interactions

Core calls the App over HTTP and the App never calls back. The coordinator posts
invalidations and complete snapshots; the App answers with the revision of its
active profile. The conversation entity posts requests that carry the revision
of the coordinator's map; the App refuses any other revision, and the execution
boundary asks `writes_allowed(revision)` again before a service call. Inside
Core everything runs on one event loop and interleaves where it awaits. Inside
the App every request has a thread and there are no locks around the profile.

### What is hard here, and what makes each component correct

| component | hard behaviour | correct when |
| --- | --- | --- |
| coordinator | events while a build is at the App; five kinds of task over one lock; cancellation; bounded retries | no write under a map older than the last event heard; no event forgotten; lock always released; staleness ends |
| App profile | handler threads without locks; crash between memory and file; failing saves | an invalidation closes the gate until a later snapshot replaces the profile; a restored profile does not decide |
| continuations | turns of a conversation running at once; the request sent again; eviction, expiry, restarts | one answer per question; a risky action only after the yes of the user who was asked, to that action |
| Core and App together | a lost answer, an App restart, either side stale alone | they agree on a revision again; decisions name capabilities of the same map |
| execution | service calls that block while the profile changes; the same request twice; half a batch | at most one effect per request; reports match what was done |
| decision path | a profile that changes while a provider thinks; the same request again; the memory of answers at its limit | what the App says may be executed, the Core can execute; a repeat is answered as before; every request ends |
| groups, batches | groups nested in groups, unsafe or oversized; two catalogues kept by hand | a batch is what was named, or nothing |
| handoff, wiring | circuits shared by threads, a failover graph with cycles, probes, options that are missing or wrong | every usable route within the budget once; nothing leaves the home that should not; no route is attempted twice for a handoff the adapter remembers |

`PROJECT.json` lists every such hazard at its line.

## Plan

Done, in order of importance:

1. `Coordinator` (with `WriteGate`, what it promises): the heart of the write
   boundary. Proved about.
2. `GatewayProfile` and, over it, `GatewayOrder`.
3. `Continuation`.
4. `ProfileSync`: `Core == INSTANCE Coordinator`, `App == INSTANCE
   GatewayProfile`, joined by a client whose calls may fail or be answered too
   late.
5. `Catalogue`: what a home becomes on either side. `Execution` on top of it:
   receipts, single actions and batches as steps between awaits, with the map
   replaced underneath, and `ServiceLedger`, what it promises. Proved about.
6. `Groups`, `Routing`, `Decisions`, `Wiring`: the pure parts of the App's
   decision path. `GatewayProcess` composes them: threads, memory, failover,
   circuits, the compatibility probe.

Theorems were proved of a component once its runs agreed: first `Coordinator`,
then `Execution`, `Continuation`, `GatewayProfile` with `GatewayOrder`,
`ProfileSync` on top of what was proved of its two components, and at last the
decision path, `GatewayProcess`, on lemmas about the operators it is composed of.

Still worth doing: the coordinator's scans, direct events and periodic refresh in
`ProfileSync`, which has them in `Coordinator` only.

## Modules

### `Coordinator`

A step is the code between two awaits. `pc[t]` says where task `t` awaits:
`drain` (`asyncio.sleep(0)` in the flush task), `call` (an App call before the
reconciliation: health, invalidate, scan, status), `lock` (`_reconcile_lock`)
and `reply` (`client.reconcile`). Tasks are `start` (`async_start`), `flush`
(`_flush_events`), `periodic`, `scan`, `direct` (`async_handle_event`) and any
number of recovery `Ticks`. `run[t]` holds the locals of the reconciliation: the
generation noted, the moment the registries were read, the attempt.

| in the model | in the code |
| --- | --- |
| `home` | the registries; it counts their changes |
| `heard` | ghost: `home` at the last change that reached the coordinator |
| `published.rev`, `published.asOf` | `profile_revision`; the moment `_build` and `capability_map` were read |
| `generation`, `stale`, `pendingEvents` | `_profile_generation`, `_stale`, `_pending_events` |
| `life = "running"` | `_started` |
| `outbox`, `batch` | locals of `_flush_events` |
| `Acquire`, `Accepted`, `Superseded`, `Exhausted`, `Failed` | `async_reconcile` and `_async_reconcile_unlocked`: one action per way on |

Every App call may fail or answer with any revision, so the properties hold
whatever the App does. The task of a tick that Home Assistant's timer started is
not cancelled by `async_shutdown`; neither is the periodic refresh.

`WriteGate` is the abstract promise: a gate with a time stamp, closed by every
change it hears of and opened only by a map at least as new. `Coordinator`
implements it with `asOf <- published.asOf, open <- WritesAllowed`.

### `GatewayProfile`, `GatewayOrder`

One record per handler thread (`at` names the next statement). The image runs
CPython 3.12, which switches threads where a call begins or returns or a loop
jumps back; a step is what lies between two such points and touches shared
state. So `ingest` is two steps (`pending_sections.update(...)`, then the
generation), the activation one (everything up to the return of `clear()`), and
`Gateway.invalidate` reads the active profile (`Mark`), and later assigns the
copy (`Assign`).
A save replaces the file, or raises before or after having replaced it. The
client's answers carry no state and `process` is represented by its test,
`GateOpen`. Revisions come from the clock; the model takes one that nothing
refers to.

`GatewayOrder` adds history variables that number the invalidations and record
when each was ingested, answered, and covered by a later snapshot.

### `Continuation`

A turn is a message on its way through `_async_handle_message`. Its name stands
for the `request_id` and the utterance it carries, which always travel together;
`req` is the name it sends, its own or that of the request kept with a question.
`pending` is `ConversationContextStore._pending` in insertion order, `seen` is
the App's `_seen_requests`, `revision` the revision both sides hold.
`question` and `agreed` are ghosts: the turn whose question this one answers and
the action it was about. The decision service is left open: any capability, a
clarification or a refusal.

Left out: the third kind of continuation (`parameter`), whose response key the
App never produces; batches. The Core's own confirmation check in `Execute` is
modelled but never asks in the run: it applies to the same capabilities as the
App's and only meets requests the App let pass as confirmed. The App's memory is
taken as unbounded: it holds 1,024 requests, and the rate limit of 120 a minute
lets fewer through while a question is pending (120 s).

### `ProfileSync`

`Core == INSTANCE Coordinator` and `App == INSTANCE GatewayProfile`, whose
snapshots are the Core's values of `home`. A task of the Core has at most one
request under way, served by the App's thread of the same name, which leaves the
revision of `profile_status` (or `Broken`) in `reply[t]`. Every action is a step
of one component, or one of each joined at the call: `Reconciles` is the Core's
`Acquire` and the App's `PostReconcile`.

| in the model | in the code |
| --- | --- |
| `Reconciles`, `Retries`, `Drains`, `Sent` | the points at which a task posts a request |
| `Accepts`, `GivesUp`, `Fails` | `_read_response` returns or raises in `_async_reconcile_unlocked` |
| `Refused` | a status of 400 or more before a handler ran, or no connection |
| `SaveFails`, `Supersedes` | the handler raises, and the server answers with an error |
| `TimesOut` | the client's timeout: the task goes on, and so does the App's thread, under a name from `Late` |
| `AppRestarts` | every request under way fails |
| `TickReply` | the status, a read of the App in the same step |

`lost` counts the calls that failed. The failure of an invalidation is ignored by
the Core, that of a reconciliation is not. A behaviour ends before the next
periodic refresh, and nobody asks for a scan: `ProfileSync` is about what the
flush task and the watch achieve by themselves. `Allowance` is the bound on
failures that `Coordinator` is instantiated with: one for every lost call, those
that a restart of the App breaks among them, and two for every change, which may
supersede two requests that find no older profile to return. It is proved
(`SyncTyped`) that this bound cuts nothing off.

### `Catalogue`, `Execution`

`Catalogue` has no variables. A home is a record of entities, groups and the
services Home Assistant offers; an entity is known by its reference, and a
capability by reference and operation, for which the code uses opaque ids. From
one home `IsTarget` and `CoreTarget` give the Core's map, `Snapshot` what is sent,
and `Capabilities` what the App compiles. `Executable` and `OperationSpecs` are
the two lists of operations the code keeps by hand. `Normalizes`,
`PolicyAccepts` and `CoreAccepts` are the three validators; a parameter is a
record of its type and its size in units of the tolerance used in verification.

| in `Execution` | in the code |
| --- | --- |
| `rev`, `home`, `stale` | the coordinator's map, and `writes_allowed` |
| `device` | `hass.states` |
| `receipts` | `_receipts`, under `Key` |
| `turn[t].pc = "calling"` | a service call is awaited, the only point at which a turn suspends |
| `turn[t].home` | the targets were resolved in this home; a batch does so once |
| `Decline`, `Start` | `execute` and `execute_batch` up to the first call: refusal, receipt, unavailable target, or the call |
| `SingleReturn`, `BatchReturn`, `Raise`, `Cancel` | the rest, and the ways out of the call |

Whether a call had its effect is left to `DeviceChange`. `before` holds what the
devices showed at submission, for the verification of a toggle. `made`, `kept`
and `settled` are ghosts.

`ServiceLedger` is the abstract promise: a page for every turn and a book of
reports. A call is entered only while its revision is permitted, the first of a
request only if the book has nothing to replay for it; a report counts every call
but the last at least, and goes into the book unless it leaves the request open.
`Execution` implements it with the turns as `page`, `receipts` as `book` and
`WritesAllowed` as `permitted`. Two turns of one request may both call while
neither has reported: the ledger allows it because the code does.

### `Groups`, `Routing`, `Decisions`, `Wiring`

Pure functions of the App. A sentence is what the regular expressions find in it:
the names, the operations and plurals whose words it has, and a few flags.

* `Groups`: `Resolve` (`_compile_groups`), `Compiles` (whether the snapshot
  survives its groups), `BatchGroup` (`build_batch_group`), the fallback's target
  check. `resolve` calls itself at most 32 deep, so `Resolve` is the 32nd of a
  sequence of functions, of which each `Joined` what the one before found.
* `Routing`: `Eligible`, `SelectRoute`; `BreadthFirst`, the order in which
  `ordered_routes` visits what the declared failovers lead to, and `OrderedRoutes`,
  the positions in it that may be tried; what an adapter and the broker make of a
  reply.
* `Decisions`: what each of the three clients makes of an answer.
* `Wiring`: `Wire(options)`, the gateway that `build_gateway` makes of options,
  after their migration: client, routes, adapter, addresses, privacy mode.
  `IsGateway` is what the decision path relies on in it. `Wire` computes the order
  of visits from each route once, as it depends on the registry alone.

### `GatewayProcess`

A thread per request; a step is what a thread does between two waits for a
provider. The memory's trimming is a step of its own, because a second thread may
come between. `case` chooses, at the start, the gateway (from options), the homes
the Core will send, the requests and the answers providers may give; no step
changes it. `IsCase` and `IsHome` say what cases and homes may be: the assumptions
of the module, which TLC evaluates on those of `MCGatewayProcess`. Entities and
groups have references of their own, as in Home Assistant's registries. Requests of
one id are of one sentence: `conversation.py` draws an id for each (`uuid4`), and
what it sends again under that id, after a confirmation, a clarification or a
parameter, carries the utterance it kept. `attempts` and `pos` are positions in
the order of visits.

| in the model | in the code |
| --- | --- |
| `rev`, `current`, `Active` | `active_profile`, its status and pending sections |
| `seen`, `Ends`, `Trim` | `_seen_requests`, `_remember` |
| `circuit` | `RouteRegistry.circuits` |
| `attempted`, `SeenHandoffs` | the attempts the chat adapter has admitted, and `_seen_handoffs`, a deque of the last 256 of them |
| `Drop` | no worker slot: the connection is closed |
| `Replay`, `Refuse`, `Consult` | `process` up to `jev.decide` |
| `Decide` | the decision, policy or batch, and the choice of a first route |
| `Send`, `RouteReply`, `TryNext` | `HandoffBroker.dispatch` around `adapter.invoke`, and what `_delegate` makes of the answer |
| `StartProbe`, `ProbeAnswered`, `ProbeRoute` | `provider_compatibility` |
| `Cooldown` | a circuit's 30 seconds are over |

`under`, `consulted`, `settled` are ghosts: the revision an answer was decided
under if it was current, who was sent something, who was done before. `attempted`
is longer than what the code keeps, which is `SeenHandoffs`.

An attempt is admitted once and may be posted several times: the adapter repeats a
request up to three times when the connection or the provider fails
(`openrouter_fallback.py:50-66`), and sends it again without the response schema
after a status of 400 (`:173-185`, `app/DOCS.md:347-349`). All of this happens
inside one call of `invoke`, which reads no shared state after the admission, and
is one step here. The properties speak of attempts and not of requests on the wire.

## Runs

| run | instance | shows |
| --- | --- | --- |
| `coordinator` | 1 tick, 1 event type, 1 revision, 2 attempts, 2 batches, 3 changes, 1 failing call | `TypeOK`, `FreshWrites`, `NoEventForgotten`, `LockDiscipline`, `ImplementsWriteGate`, `StaleEnds` |
| `coordinator_gap` | 1 change | violation of `WritableMapIsCurrent` |
| `gateway_order` | 2 threads, 2 invalidations, 1 restart, 4 revisions | `TypeOK`, `RestoredNeverServes`, `OnlyStraddlersAreLost` |
| `gateway_lost` | 2 threads, 1 invalidation | violation of `StaleUntilReplaced` |
| `continuation` | 3 turns, 2 users, 2 conversations, a store of 1 entry, 1 new revision or restart | `TypeOK`, `OneAnswerPerQuestion`, `RiskyWritesAreConfirmed` |
| `continuation_yes` | 2 turns | violation of `YesIsNotAskedAgain` |
| `continuation_asked` | 3 turns, 2 risky actions | violation of `ConfirmsWhatWasAsked` |
| `profile_sync` | 1 tick, 1 event type, 1 change, 1 failing call, 1 restart, 1 attempt, 1 batch | `TypeOK`, `RestAgrees`, `Recovers` |
| `profile_sync_late` | no tick, 2 changes, 1 failing call, 1 restart, 2 attempts, 1 late thread | `CoreIsNoOlder` |
| `profile_sync_lost` | 1 tick, 1 change, 1 failing call, 1 late thread | violation of `RestAgrees` |
| `execution` | 2 turns, 2 homes, 1 new build, 3 devices, 9 proposals | `TypeOK`, `CallsAreLawful`, `RepeatsAreReplayed`, `BatchReportsAreHonest`, `ImplementsLedger` |
| `gateway_process` | cases of up to 3 requests, 2 workers, 1 remembered answer, 1 remembered attempt, 2 members in a group, 4 facts | `TypeOK`, `AnswersAreExecutable`, `ConsultsWithinPrivacy`, `EveryRouteOnce`, `RepeatsAreFarApart`, `DuplicatesAreReplayed`, `MemoryIsBounded`, `BatchIsWhatWasNamed`, `AdmittedIsAnswered` |

**Why the bounds are enough.** In `coordinator`, with two attempts a second
change exhausts a reconciliation and a third arrives after it; an event during
each of two batches reaches the hand-over with one pending; one failing call can
hit each call. Five kinds of task already compete for the lock. The event types
are only carried along, so one will do (and the theorems have any number). In
`gateway_order`, every hazard involves one reconciliation and one invalidation,
the second invalidation and the restart put a predecessor behind each; with four
revisions a fresh one always exists (three places hold one, and a thread another).
In `continuation` a store of one entry makes the second conversation evict the
first's question, and three turns are a question, an interfering turn and an
answer. In `profile_sync` one
change and one restart already set a tick's reconciliation, the flush task's and
the invalidation against each other, and with a single attempt a superseded build
gives up; `profile_sync_late` has the second change and attempt that make one try
again. Six revisions always leave a fresh one. In `execution` two turns are an
original and its repeat, or an interfering one; a batch of two has a call before
and one after any change, and two homes differ in what is hidden, unavailable,
and in a climate entity's range. In `gateway_process` every case pits a few things
against each other, and `MCGatewayProcess` says which: a profile that changes
while the service thinks, each client at each kind of address under each privacy
mode, each way to configure the fallback, a request sent twice, a registry whose
failovers branch, cycle, pass through routes that cannot be used and lead to some
over the budget, nested
groups of which one is unsafe and one too large, a memory of one answer with
three requests, and a record of one attempt with a request, another and the first
again, so that the adapter forgets and admits a repetition. Limits of 32, 16, 256
and 1,024 are constants and small here. Deadlock
is checked in the `GatewayOrder` runs; in the coordinator runs
(nothing need happen once a shut-down coordinator's bounds are used up), the
profile runs (the same) and the
continuation, execution and decision-path runs (no more messages) the system may stop.

### Fairness

`LoopFairness`: the event loop runs every task that can run, an App call ends
(`client.py` sets a timeout), and `asyncio.Lock` serves its waiters first in,
first out, hence strong fairness for `Acquire` (a waiter is enabled each time
the lock is free). The environment, the timers and shutdown are under no
obligation. `StaleEnds` needs no timer: the flush task is enough when the App
answers. When a call fails, it is not, and the coordinator waits for a timer;
that is why `StaleEnds` says nothing of a behaviour in which one failed.

`Recovers` assumes the same of the Core, that the watch fires
(`async_track_time_interval`, every ten seconds), and that the App's threads run.
It holds with one failing call. With two, an invalidation and the reconciliation
after it, it does not: the App was told nothing, its status is active under the
revision the Core knows, and the watch finds nothing to do. The Core refuses writes
(`FreshWrites`) until the periodic refresh.

`AdmittedIsAnswered` assumes that a thread of the App runs on and that its
providers answer or time out (every client sets a timeout): weak fairness of
`Step`, for each thread. Requests need not arrive, circuits need not cool down, and
the profile need not change.

## What the violations show

* `coordinator_gap`: `async_start` awaits the first reconciliation and only then
  registers its listeners. A change in between is not heard, and writes are
  allowed under a map that misses it until the next event or periodic refresh.
* `gateway_lost`: a thread that has recorded its pending sections and not yet
  raised the generation is invisible to the generation check of a reconciliation,
  which then clears those sections. `OnlyStraddlersAreLost` shows that this is the
  only way to lose an invalidation.
* `continuation_yes`: the yes to a confirmation resends the request under its old
  id, and the App's memory replays the question.
* `continuation_asked`: a reply that is neither yes nor no replaces the request
  kept with the question, so that a later yes confirms whatever the decision
  service makes of that reply. In `continuation` this is also the only way to a
  confirmed risky action: on the direct way the App's memory answers first.

* `profile_sync_lost`: the App answers a superseded reconciliation with the profile
  it had, and the Core publishes its newer build under that revision. Usually the
  watch repairs it, because the profile is stale. If the older request's caller
  had given up and its thread publishes after the newer activation, nothing is
  pending on either side and equal revisions hide the difference. In
  `profile_sync`, where no request outlives its caller, `RestAgrees` holds
  (`CalmAgrees` proves it for any number of losses and restarts), and
  `CoreIsNoOlder` shows that even here the App's snapshot is the older one.

Modelled as the code has them, and without a run of their own:

* the first route of a handoff is chosen within the policy's budget of latency and
  cost (`policy.py:44-45`), but its failovers with 120,000 ms and an infinite cost
  (`handoff.py:232-233`): they are tried whatever they cost. `route_policy.py:199-201`
  says that the chain "prevents a degraded route from silently widening privacy or
  cost policy", `README.md:74` that a handoff is "subject to privacy, cost, latency",
  and `tests/test_route_policy.py:173` expects `ordered_routes` to skip such routes
  when it is given a budget. `EveryRouteOnce` is about the routes within the budget
  and claims nothing of the others, although the registries of `gateway_process` have
  some and the model tries them. (Today no attempt at a configured registry
  succeeds: `build_gateway` joins an adapter to it that answers for none.)
* a fallback's proposal without parameters is answered with those of the decision
  that was delegated, which belong to another capability (`gateway.py:677`), and
  NaN passes the App's policy; the Core refuses both;
* a request resumed after a clarification has lost its parameter schemas
  (`conversation.py:119`), so an operation with a parameter can not be chosen;
* the circuit of a healthy route opens when the compatibility probe is repeated:
  its handoff ids never change, and a repeated id is a failure of the route;
* a group that exceeds 32 members through a nested one fails the whole snapshot,
  not the group alone (`profile.py:171`; `README.md:412`);
* the deletion of the oldest remembered answer may raise, and then the memory
  exceeds its limit by one for good; `MemoryIsBounded` counts these.

The two continuation traces were replayed against the Python code with the
real conversation entity and a real `Gateway`.

## Proofs

`Coordinator_proofs` proves, for any ticks, event types, revisions and bounds
that satisfy the named assumptions of `Coordinator`:

* `CoordinatorTyped`: `Spec => []TypeOK`;
* `WritesAreFresh`: `Spec => []FreshWrites`;
* `CoordinatorImplementsWriteGate`: `Spec => ImplementsWriteGate`;
* `LockIsDisciplined`: `Spec => []LockDiscipline`;
* `NoEventIsForgotten`: `Spec => []NoEventForgotten`.

`FreshWrites` is not inductive: it says nothing of the builds under way. The
inductive invariant `FreshInv` adds that nothing is heard before it happens
(`heard <= home`), that a build whose generation is still the current one read
the registries no earlier than the last change heard (`BuildsAreDated`: every
event raises the generation, so an equal generation means no event since), and
that a map that is not stale is at least as new as the last change heard,
whether or not writes are allowed. Acceptance then carries the second
fact into the third, and every change heard sets `stale`.

`LockDiscipline` is inductive as it stands, given the types: each step that leaves
`reply` releases the lock (`LeavingReleases`), and only a free lock is taken.
`NoEventForgotten` is not: the step that ends `async_start` would find events from
before. `FlushInv` adds that there are none during set-up, as the listeners are
not there yet.

`Execution_proofs` proves, for any homes, proposals, turns, devices and device
states, from `ProposalsAssumption` (a single proposal names one target) and
`RevisionAssumption`:

* `ExecutionTyped`: `Spec => []TypeOK`;
* `BatchesReportHonestly`: `Spec => []BatchReportsAreHonest`;
* `EveryCallIsLawful`: `Spec => CallsAreLawful`;
* `ReceiptsAreReplayed`: `Spec => []RepeatsAreReplayed`;
* `BoundaryIsLedger`: `Spec => ImplementsLedger`.

`TypeInv` adds to the types that a turn with a call under way has made one call
more than it has verified; the first two follow. The law about calls needs
`LawInv`: the targets of a turn under way were resolved under a revision no newer
than the map's, and in the map itself if the revision is the same, so that asking
for the revision before each call is enough. `ReplayInv` ties receipts to turns:
every turn that was recorded has a receipt under its key, every receipt is the
answer of such a turn, and what a turn saw settled remains so; the invariant
alone would not say that a turn that is submitted finds the receipt. The ledger
needs no more than `TypeInv`: a step that ends a turn, or makes its next call, is
described by `Ends` and `Continues`, and each of the four kinds of step maps to
one of the ledger's.

`Continuation_proofs` proves, for any number of turns, conversations and users and
any size of the store and the App's memory, from `RiskyAssumption`,
`NothingAssumption` and `BoundAssumption`:

* `TurnsTyped`: `Spec => []TypeOK`;
* `QuestionsAreAnsweredOnce`: `Spec => []OneAnswerPerQuestion`;
* `NoRiskWithoutConfirmation`: `Spec => []RiskyWritesAreConfirmed`.

The type invariant has to know that a turn that has begun has a conversation, a
user and a request (`Heard`). `QuestionsInv` says where questions come from: one in the store was
asked by a turn that is over, is kept there once and has no answer yet, and if it
is a confirmation its asker spoke for the same user in the same conversation. A
turn that takes a question out removes it in the same step, so no second turn can
find it. `AnswersInv` follows answers on: what goes to the App confirmed is a yes
to such a confirmation, and only such a turn writes what is risky.

`GatewayProfile_proofs` and `GatewayOrder_proofs` prove, for any threads,
snapshots, revisions, invalidations and restarts, from `NoProfileAssumption`,
`BoundsAssumption` and `RevisionsAssumption`:

* `ProfileTyped`: `Spec => []TypeOK`, and `GateTyped`: `OrderSpec => []TypeOK`;
* `RestoredProfilesNeverServe`: `OrderSpec => []RestoredNeverServes`;
* `OnlyStraddlersGetLost`: `OrderSpec => []OnlyStraddlersAreLost`.

Types need `Equipped`: who compiles has a snapshot, who publishes or saves has a
profile. `Aged` says that whoever holds the restored revision, in memory or in
a thread, holds it as stale; an activation takes a fresh
one. For lost invalidations the state alone is too little: `Pursued` says that a
thread which compiles under the present generation has missed, since it noted it,
only invalidations that have not reached their increment, and `Accounted` that
with nothing pending and a profile present every invalidation is covered by the
activated reconciliation or straddles it. `TurnMoves` says in two formulas what any
step of a thread does: how it goes on (`MovesOn`) and what it makes of the gateway
(`Touches`); the proofs about Core and App together rest on it.

`ProfileSync_proofs` proves about Core and App together, for any ticks, late
requests, changes, failures and restarts, from the named assumptions of
`ProfileSync`:

* `CoreRunsAlone`: `Spec => Core!Init /\ [][Core!Next]_coreVars`: the composition
  is a refinement of `Coordinator`;
* `WritesAreFreshTogether`: `Spec => []Core!FreshWrites`;
* `CoreNeverOlder`: `Spec => []CoreIsNoOlder`;
* `SyncTyped`: `Spec => []TypeOK`;
* `CalmAgrees`: if `Late = {}`, `Spec => []RestAgrees`.

It instantiates the proofs of both components. `SyncInv` adds what joins them: a
task's request is under way, or answered and unread, only while the task waits
for it (or was cancelled by the shutdown), and the answer to a reconciliation
bears a revision, because a request that reached the end of the App's
`reconcile` leaves an active profile behind; without that the App could answer
`null`, which the Core refuses and `Coordinator` does not accept. `OlderInv` makes
`CoreIsNoOlder` inductive: nothing in the App, in its threads included, is newer
than the registries, or than the build of a reconciliation under way. The second
holds because the lock (`LockDiscipline`) lets nobody else post a snapshot
meanwhile, so that what the answer publishes is at least as new as all that may
bear its revision; every other step of the App only hands revisions and snapshots
on (`Inherits`).

The hard part of the types is that `failures` stays within `Allowance`, which takes
a balance (`AccountInv`): the failures seen, the tasks whose request has failed or
is bound to be superseded (`Charged`), and twice the invalidations still to come
(`ToCome`) are never more than the calls lost and twice the changes made. A change
pays for its invalidation in advance; the step that moves the generation on turns
one invalidation into at most two charged tasks, since only the holder of the lock
and the flush task ever wait (`FewWait`); the failure a task sees is one it was
charged for.

`CalmAgrees` assumes that no request outlives its caller, the condition without
which `profile_sync_lost` refutes the property. `RestInv` then follows the one
build that is awaited: until the Core reads the answer, whatever the App may open
its gate with bears that task's snapshot and a revision the Core has yet to publish,
or something is pending (`Told`); a request that was superseded leaves something
pending; and an open gate under the published revision is open on the published
snapshot (`Agree`) unless some thread is about to publish. An App that restarts
comes back with a profile that is stale, so its gate is closed.

`Wiring_proofs` proves what the App's pure functions compute, for every home,
sentence, configuration and answer, and

* `GatewaysAreBuilt`: `IsOptions(options) => IsGateway(Wire(options))`: whatever
  the options, the gateway has unambiguous routes whose few failovers are routes,
  the order of visits from each, and offers a route outside the home only to
  requests that may go there.

Its lemmas are facts of two kinds. Some say that what the App has by hand agrees
with what the Core has by hand: a capability the policy lets through is a target of
the Core's map, of an operation it executes (`PolicyExecutes`), and parameters that
a client and the policy accept are accepted by the Core (`ParametersAccepted`; NaN
passes the policy, but no client). Others say what a computation yields: a decision
or an error, whatever the service answers (`DecidedIsDecision`); a batch of one
operation on distinct references of the home (`BatchIs`, `BatchOfHome`). `Resolve` and
`BreadthFirst` are recursive functions on the natural numbers, about which nothing
follows before such a function exists: `NatRecursion` proves that it does, by
joining its finite beginnings, and `Inductive`, from the least element of a set of
numbers, that what the recursion preserves holds at every depth; `ResolvedKeeps` is
that for the members of a group, with the property as a set for each of the home's
groups. `CapabilityById` says that one capability of a home bears a given
reference and operation, `GroupBatchFinds` what a batch for a named group is. `BreadthFirstIs`
is the one about failovers: the order visits what they lead to from its first route
and nothing else, each route once (`CompleteOrder`). What a visit preserves is in
`Walks`: the failovers of those visited are visited or wait, and whatever set of
routes is closed under failovers and holds the first holds all of them. That
`MaxVisits` visits are enough follows from a count: each takes one that waits, and
only one to a new route, of which there are as many as routes, adds up to eight.

`GatewayProcess_proofs` proves, for any homes, cases, numbers of threads and workers
and limits, from `HomesAre` (finitely many entities, one for each reference, and one group for each),
`CasesAre` (a gateway that satisfies `IsGateway`, requests and answers that are such,
one sentence under each id) and `BoundsAre`:

* `TypeCorrect`: `Spec => []TypeOK`;
* `PrivacyKept`: `Spec => []ConsultsWithinPrivacy`;
* `ExecutableAnswers`: `Spec => []AnswersAreExecutable`;
* `BatchesComplete`: `Spec => []BatchIsWhatWasNamed`;
* `RepeatsFarApart`: `Spec => []RepeatsAreFarApart`;
* `Replayed`: `Spec => []DuplicatesAreReplayed`;
* `MemoryBounded`: `Spec => []MemoryIsBounded`;
* `EveryRouteTried`: `Spec => EveryRouteOnce`.

`Inv` is inductive and implies the first four. An answer is not only kept by its
thread: it is replayed to others, and a thread's decision is used after the wait
for a fallback. So `Inv` says of every answer, in a thread or in the memory, that it
is `Sound` for the requests of its id: if it was decided under the revision its
request was made for, it is executable in that revision's home. And it says of a
thread that its batch is of the home it was made in, that the attempts of a handoff
are positions of routes that admit its mode (`Admits`), and that whoever was
consulted may be (`Private`). A profile that changes meanwhile does no harm
because `Sound` speaks of the revision noted in the answer and not of the present
one. Of a batch `Sound` also says that it was made for what its sentence names
(`Said`), which an answer replayed to another thread keeps, since requests of one id
are of one sentence.

`BatchesComplete` compares the recursion by which the App resolves groups, cut off
at a cycle and at its depth, with the closure of the relation between a group and
its members. The closure is the least set that the relation does not lead out of
(`LeadsToLeast`), so it is the start and what each next step leads to
(`LeadsToSteps`). Hence joining what the groups in a group come to gives nothing at
all or every entity the group leads to (`JoinedIsContents`), if that holds one level
down, and by `ResolvedKeeps` at every depth (`GroupIsContents`). A batch is made only
if as many capabilities are found as the group has members; they are of distinct
references among these, therefore of all (`FoundIsAll`).

The others need what relates threads. `AttemptsOnRecord`: with the chat adapter,
whoever a thread has consulted for its request is at some position of `attempted`,
under the request's id and first route. An attempt that is admitted is not among the
last `HandoffsKept`, so that if it is on record at all, its new position is farther than
that from the old one (`RecordGrows`); positions do not change, as the sequence only
grows. A second thread of the request finds the first one's attempt on record, which
gives `RepeatsAreFarApart`. `Complete`: while the requests' ids are no
more than the memory holds, nobody trims, everyone who is done is remembered, and
every entry is the answer of someone who is done; with `SettledAreDone` this makes a
later arrival find the answer it has to repeat. `ExcessAccounted`: entries beyond the
limit are no more than the threads that trim or failed while trimming; a step that
stores an entry makes its thread one of these exactly when the limit is passed. Of
every step of a thread `OfKind` says which of seven kinds it is, and the lemmas
on these invariants are about kinds instead of actions.

`EveryRouteTried` is about the two steps a handoff starts with (`HandoffStarts`; a
probe's is simple, `ProbesAreSimple`). It puts together that the order kept is
complete (`LeadsToIs`), that eligibility with the budget of a failover is usability,
since no latency and no cost exceeds it (`UsableIs`), and that cutting the order off
after eight usable routes leaves out none if they are no more (`OrderedRoutesAre`);
those within the budget are then among the tried.

Only model-checked:

* liveness (`StaleEnds`, `Recovers`, `AdmittedIsAnswered`), which needs fairness and
  `ENABLED` and is out of the prover's reach.

Every other property of a passing run has a theorem. `RestAgrees` has one where it is
true: with requests that outlive their callers, `profile_sync_lost` refutes it.

## Not modelled

* Parsing, normalisation and redaction of text, prompts, and the reading of HTTP:
  pure functions over strings with no order of steps to get wrong. Sentences and
  replies are records of what the code finds in them.
* The rate limiter, authentication and ingress rules, which refuse a request before
  anything of this happens; the typed HTTP client and the circuit breaker that
  `build_gateway` does not use; options snapshots and backups, which no decision
  reads.
* Discovery, diagnostics, sensors, forms, the web page and the release tools:
  display and I/O.

Known abstractions: `GatewayProcess` takes the profile's change as one step
(`GatewayProfile` has the finer grain) counts a circuit's failures atomically,
and takes the posts of one `invoke` as one attempt;
opaque ids are taken as injective; `Execution` takes every build to come under a
revision of its own (`ProfileSync` has the one way in which it does not). `PROJECT.json` gives the reason for each component.
