--------------------------- MODULE GatewayProcess ---------------------------
(***************************************************************************)
(* The App's decision path (Gateway.process and provider_compatibility in  *)
(* gateway.py, HandoffBroker in handoff.py), with a thread per request and *)
(* no locks: the profile may be replaced or go stale, circuits open, and   *)
(* the same request arrive again while a thread waits for a provider.      *)
(*                                                                         *)
(* What a thread does between two waits for a provider is one step         *)
(* (GatewayProfile has the finer grain of the profile's own fields), and   *)
(* so is, at the end, storing the answer; removing the oldest one is       *)
(* another.  What providers answer is left open: they may also fail, or    *)
(* raise what no handler expects.                                          *)
(***************************************************************************)
EXTENDS Wiring

CONSTANTS
  Homes,          \* what the Core may find, by name
  Cases,          \* gateway, the homes it is told of in their order, how many
                  \* before the start, requests, what providers may answer
  MaxDeliveries,  \* bound: requests delivered in a case
  MaxWorkers,     \* request threads: 32
  RememberLimit,  \* answers remembered: 1024
  HandoffsKept,   \* attempts the chat adapter keeps the ids of: 256
  MaxFacts        \* capabilities in a handoff: 16

VARIABLES
  case,      \* the case, which no step changes
  rev,       \* the revision of the active profile; 0 before the first
  current,   \* it is active, and no sections are pending
  seen,      \* _seen_requests, in order of insertion
  circuit,   \* the registry's circuits
  attempted, \* the attempts the chat adapter has admitted, in their order
  thread     \* where each request is, and its locals

vars == <<case, rev, current, seen, circuit, attempted, thread>>

Threads == 1 .. MaxDeliveries
Delivered == DOMAIN case.deliveries
Request(t) == case.deliveries[t]
Gateway == case.gateway

-----------------------------------------------------------------------------
(* What a home and a case may be.                                          *)

HomesAssumption == \A h \in DOMAIN Homes : IsHome(Homes[h])

\* A request without an id is given one.
IsRequest(request) ==
  /\ request.id # "" /\ request.privacy \in Modes \cup {"unset"}
  /\ {request.valid, request.confirmed, request.compact, request.probe} \subseteq BOOLEAN

\* An id is drawn for every sentence (uuid4); what comes again under it, for a
\* confirmation or a clarification, is the sentence it was drawn for.
IsCase(c) ==
  /\ IsGateway(c.gateway)
  /\ c.homes \in Seq(DOMAIN Homes) /\ c.start \in 0 .. Len(c.homes)
  /\ c.events \in BOOLEAN
  /\ DOMAIN c.deliveries \subseteq Threads
  /\ \A t \in DOMAIN c.deliveries : IsRequest(c.deliveries[t])
  /\ \A t, u \in DOMAIN c.deliveries :
       c.deliveries[t].id = c.deliveries[u].id => c.deliveries[t].says = c.deliveries[u].says
  /\ \A answer \in c.answers : answer.shape \in {"ok", "down", "malformed"}

ASSUME HomesAre == HomesAssumption
ASSUME CasesAre == \A c \in Cases : IsCase(c)
ASSUME BoundsAre ==
  /\ MaxDeliveries \in Nat /\ MaxWorkers \in Nat
  /\ RememberLimit \in Nat /\ HandoffsKept \in Nat

-----------------------------------------------------------------------------
\* What the App compiles of a home.
Profiles ==
  [h \in DOMAIN Homes |->
     [capabilities |-> Capabilities(Snapshot(Homes[h])),
      groups |-> CompiledGroups(Snapshot(Homes[h])),
      compiles |-> Compiles(Snapshot(Homes[h]))]]

Active == Profiles[case.homes[rev]]

\* request_context: the capabilities the Core sends along.
RequestContext(home) ==
  UNION {{<<e.ref, op>> : op \in Operations(home, e)} :
           e \in {x \in home.entities : IsExposed(x)}}

-----------------------------------------------------------------------------
(* The answers.  under is the revision the answer was decided under, if the *)
(* profile was current then: history.                                       *)

Final == {"invalid_request", "profile_stale", "profile_reconciling", "privacy_mode_denied",
          "batch_group_unknown", "batch_scope_ambiguous", "batch_group_invalid",
          "batch_target_unavailable", "batch_no_targets", "batch_too_large",
          "jev_unavailable", "jev_invalid_response", "clarification_required",
          "request_refused", "read_only_answer", "candidate_not_allowed",
          "invalid_parameters", "confirmation_required", "policy_denied",
          "confidence_too_low", "ambiguous_request", "execute", "batch_execute",
          "batch_confirmation_unsupported", "route_not_allowed", "handoff_unavailable",
          "handoff_invalid_response", "delegated_prose", "fallback_target_unverified"}

NoAnswer == [key |-> "none", id |-> << >>, members |-> {}, parameters |-> << >>,
             route |-> "none", rev |-> 0, under |-> 0]

Reply(t, key) ==
  [NoAnswer EXCEPT !.key = key, !.rev = Request(t).rev, !.under = IF current THEN rev ELSE 0]

\* pc: idle, asking (the decision service), sending and waiting (a route),
\* probing, trimming (the memory), done, failed (an error nobody caught),
\* dropped.  attempts are the positions of the routes a handoff may try, in
\* the order from the first one, and probe is the route a probe is at.  History:
\* consulted is who was sent something of this request, settled are the
\* threads that were done when this one began.
NoThread == [pc |-> "idle", batch |-> NoBatch, decision |-> Simple("refuse"),
             first |-> "none", attempts |-> {}, pos |-> 0, probe |-> 0,
             oldest |-> "", answer |-> NoAnswer, consulted |-> {}, settled |-> {}]

Closed == [failures |-> 0, open |-> FALSE]

Init ==
  /\ case \in Cases
  /\ rev = case.start
  /\ current = (case.start > 0)
  /\ seen = << >>
  /\ circuit = [r \in RouteIds(case.gateway) |-> Closed]
  /\ attempted = << >>
  /\ thread = [t \in Threads |-> NoThread]

-----------------------------------------------------------------------------
(* The memory of answers.                                                   *)

IsRemembered(id) == \E i \in DOMAIN seen : seen[i].id = id
Remembered(id) == seen[CHOOSE i \in DOMAIN seen : seen[i].id = id].answer

\* Mutant: the memory is trimmed one entry late.
OverLate(entries) == Len(entries) > RememberLimit + 1

Over(entries) == Len(entries) > RememberLimit

\* Mutant: a refusal is not worth remembering.
StoredIfDone(entry) ==
  IF entry.answer.key \notin {"execute", "batch_execute"} THEN seen
  ELSE Append(SelectSeq(seen, LAMBDA e : e.id # entry.id), entry)

\* A new key goes to the end, a key that is there keeps its place.
Stored(entry) ==
  IF IsRemembered(entry.id)
    THEN [i \in DOMAIN seen |-> IF seen[i].id = entry.id THEN entry ELSE seen[i]]
    ELSE Append(seen, entry)

\* _remember, up to the removal of the oldest; locals are the thread's.
Ends(t, locals, answer) ==
  LET entries == Stored([id |-> Request(t).id, answer |-> answer])
  IN /\ seen' = entries
     /\ thread' = [thread EXCEPT ![t] = [locals EXCEPT !.answer = answer,
          !.pc = IF Over(entries) THEN "trimming" ELSE "done",
          !.oldest = IF Over(entries) THEN Head(entries).id ELSE ""]]

Finish(t, answer) == Ends(t, thread[t], answer)

\* The oldest may be gone by now: the deletion raises, after all was decided.
\* (Looking for the oldest may raise as well, if another thread stores just
\* then; this thread fails as it does here.)
Trim(t) ==
  LET i == CHOOSE n \in DOMAIN seen : seen[n].id = thread[t].oldest
  IN /\ thread[t].pc = "trimming"
     /\ IF IsRemembered(thread[t].oldest)
          THEN /\ seen' = RemoveAt(seen, i)
               /\ thread' = [thread EXCEPT ![t].pc = "done"]
          ELSE /\ thread' = [thread EXCEPT ![t].pc = "failed"]
               /\ UNCHANGED seen
     /\ UNCHANGED <<case, rev, current, circuit, attempted>>

-----------------------------------------------------------------------------
(* From the connection to the decision service.                             *)

Busy == {t \in Threads : thread[t].pc \notin {"idle", "done", "failed", "dropped"}}
Settled == {t \in Threads : thread[t].pc = "done"}

Arrives(t) ==
  /\ t \in Delivered /\ thread[t].pc = "idle"
  /\ Cardinality(Busy) < MaxWorkers

\* No worker is free: the connection is closed without an answer.
Drop(t) ==
  /\ t \in Delivered /\ thread[t].pc = "idle"
  /\ Cardinality(Busy) >= MaxWorkers
  /\ thread' = [thread EXCEPT ![t].pc = "dropped"]
  /\ UNCHANGED <<case, rev, current, seen, circuit, attempted>>

\* A request seen before gets its answer again, before anything is looked at.
Replay(t) ==
  /\ Arrives(t) /\ ~Request(t).probe
  /\ IsRemembered(Request(t).id)
  /\ thread' = [thread EXCEPT ![t] =
       [NoThread EXCEPT !.pc = "done", !.settled = Settled,
                        !.answer = Remembered(Request(t).id)]]
  /\ UNCHANGED <<case, rev, current, seen, circuit, attempted>>

Widths == <<"local_only", "jev_hosted_allowed", "hosted_allowed">>
Width(mode) == CHOOSE n \in 1 .. 3 : Widths[n] = mode

\* The narrower of the App's mode and the request's, if it names one.
Mode(t) ==
  LET asked == Request(t).privacy
  IN  IF asked = "unset" \/ Width(Gateway.privacy) < Width(asked)
        THEN Gateway.privacy ELSE asked

BatchOf(t) ==
  BatchGroup(Request(t).says, Active.capabilities, Active.groups)

EarlyRefusal(t) ==
  IF ~Request(t).valid THEN "invalid_request"
  ELSE IF rev = 0 THEN "profile_stale"
  ELSE IF Request(t).rev # rev THEN "profile_stale"
  ELSE IF ~current THEN "profile_reconciling"
  ELSE IF Mode(t) = "local_only" /\ Hosted(Gateway.jevAt) THEN "privacy_mode_denied"
  ELSE BatchOf(t).error

Refuse(t) ==
  /\ Arrives(t) /\ ~Request(t).probe
  /\ ~IsRemembered(Request(t).id)
  /\ EarlyRefusal(t) # ""
  /\ Ends(t, [NoThread EXCEPT !.settled = Settled], Reply(t, EarlyRefusal(t)))
  /\ UNCHANGED <<case, rev, current, circuit, attempted>>

Consult(t) ==
  /\ Arrives(t) /\ ~Request(t).probe
  /\ ~IsRemembered(Request(t).id)
  /\ EarlyRefusal(t) = ""
  /\ thread' = [thread EXCEPT ![t] =
       [NoThread EXCEPT !.pc = "asking", !.batch = BatchOf(t), !.consulted = {"jev"},
                        !.settled = Settled]]
  /\ UNCHANGED <<case, rev, current, seen, circuit, attempted>>

-----------------------------------------------------------------------------
(* The decision, and what the policy makes of it.                           *)

IsBatch(t) == thread[t].batch.op # ""

\* A batch is the only candidate of its request.
Candidates(t) ==
  IF IsBatch(t) THEN <<BatchId(thread[t].batch)>> ELSE Request(t).candidates

\* What the request says of its candidates.  A request sent again after a
\* clarification has lost their schemas (_pending_request_payload).
Listing(t) ==
  LET home == Homes[case.homes[Request(t).rev]]
  IN [id \in ToSet(Candidates(t)) |->
        [schema |-> IF IsBatch(t) \/ Request(t).compact THEN NoParameter
                    ELSE CoreTarget(home, id).schema,
         available |-> IsBatch(t) \/ \E e \in home.entities : e.ref = id[1] /\ e.available]]

Found(id) == {c \in Active.capabilities : c.id = id}
Schema(id) == (CHOOSE c \in Found(id) : TRUE).schema

Policy(id, sure, clear, confirmed) ==
  IF ~current THEN "profile_stale"
  ELSE EvaluateCapability(Found(id), sure, clear, confirmed)

\* _evaluate_execution reads the active profile again.
Evaluated(t, d) ==
  LET key == Policy(d.id, d.confidence >= 86, d.ambiguity <= 28, Request(t).confirmed)
      answer == [Reply(t, key) EXCEPT !.id = d.id, !.parameters = d.parameters]
  IN  IF d.id \notin ToSet(Request(t).candidates) THEN Reply(t, "candidate_not_allowed")
      ELSE IF Found(d.id) # {} /\ ~PolicyAccepts(Schema(d.id), d.parameters)
        THEN Reply(t, "invalid_parameters")
      ELSE answer

\* _evaluate_batch: the first member that fails decides; which one that is
\* depends on the order of the profile, left open here.
BatchAnswers(t, id, parameters) ==
  LET batch == thread[t].batch
      verdict(m) == Policy(m, TRUE, TRUE, FALSE)
      failing == {verdict(m) : m \in {x \in batch.members : verdict(x) # "execute"}}
  IN  IF id # BatchId(batch) \/ DOMAIN parameters # {} THEN {Reply(t, "candidate_not_allowed")}
     ELSE IF failing # {}
       THEN {Reply(t, IF key = "confirmation_required"
                        THEN "batch_confirmation_unsupported" ELSE key) : key \in failing}
     ELSE IF \E m \in batch.members : ~PolicyAccepts(Schema(m), << >>)
       THEN {Reply(t, "invalid_parameters")}
     ELSE {[Reply(t, "batch_execute") EXCEPT !.id = id, !.members = batch.members]}

\* What process answers if it does not delegate.
Verdicts(t, d) ==
  CASE d.error # "" -> {Reply(t, d.error)}
    [] d.error = "" /\ d.route = "clarify" -> {Reply(t, "clarification_required")}
    [] d.error = "" /\ d.route = "refuse" -> {Reply(t, "request_refused")}
    [] d.error = "" /\ d.route = "read_only" -> {Reply(t, "read_only_answer")}
    [] d.error = "" /\ d.route = "routine_control" ->
         IF IsBatch(t) THEN BatchAnswers(t, d.id, d.parameters) ELSE {Evaluated(t, d)}
    [] d.error = "" /\ d.route = "delegate" -> {Reply(t, "route_not_allowed")}

\* A clarification, a refusal and a failure of the service go to the
\* fallback as well, if there is one.
Delegable == {"jev_unavailable", "jev_invalid_response", "clarification_required",
              "request_refused", "confidence_too_low", "ambiguous_request",
              "invalid_parameters", "route_not_allowed"}

Open == {r \in RouteIds(Gateway) : circuit[r].open}

\* _delegate's choice of a first route, within the policy's budget.
FirstRoute(t, d) ==
  LET within(kind) == Envelope(d.complexity, Mode(t), {kind}, LatencyBudget, CostBudget)
      proposing == SelectRoute(Gateway.routes, Open, within("tool_proposal"))
  IN  IF proposing # "none" THEN proposing
      ELSE SelectRoute(Gateway.routes, Open, within("prose_response"))

ReplyKinds(t) ==
  IF Request(t).probe THEN {"prose_response"} ELSE {"prose_response", "tool_proposal"}

\* dispatch: any budget will do for a failover.
AttemptsFrom(t, complexity, first) ==
  OrderedRoutes(Gateway.routes, Gateway.order[first], Open,
    Envelope(complexity, IF Request(t).probe THEN Gateway.privacy ELSE Mode(t),
             ReplyKinds(t), MaxLatency, NoLimit))

HandedOff(locals, first, attempts) ==
  [locals EXCEPT !.pc = "sending", !.first = first, !.attempts = attempts,
                 !.pos = First(attempts)]

\* What the service decides, and what comes of it.
Decisions(t) ==
  {Decided(Gateway.client, raw, Listing(t)) :
     raw \in IF Gateway.client = "static" THEN {Down} ELSE case.answers}

Decide(t, d) ==
  LET taken == IF d.error = "" THEN d ELSE Simple("delegate")
  IN /\ \E verdict \in Verdicts(t, d), first \in {FirstRoute(t, taken)} :
          IF verdict.key \notin Delegable \/ Gateway.routes = << >> THEN Finish(t, verdict)
          ELSE IF first = "none" THEN Finish(t, Reply(t, "route_not_allowed"))
          ELSE \E attempts \in {AttemptsFrom(t, taken.complexity, first)} :
                 /\ thread' = [thread EXCEPT ![t] =
                      HandedOff([thread[t] EXCEPT !.decision = taken], first, attempts)]
                 /\ UNCHANGED seen
     /\ UNCHANGED <<case, rev, current, circuit, attempted>>

-----------------------------------------------------------------------------
(* The handoff: one route after the other, until one answers.               *)

Attempt(t) == Gateway.order[thread[t].first][thread[t].pos]
Later(t) == {i \in thread[t].attempts : i > thread[t].pos}

\* The identity of a handoff, and with it that of an attempt.
HandoffKey(t) ==
  <<IF Request(t).probe THEN "compatibility" ELSE Request(t).id, thread[t].first, Attempt(t)>>

Failed(c) == [failures |-> IF c.failures < 2 THEN c.failures + 1 ELSE 2,
              open |-> c.open \/ c.failures >= 1]

\* Mutant: the next route is tried, usable or not.
TryNextPast(t, key) ==
  /\ circuit' = [circuit EXCEPT ![Attempt(t)] = Failed(@)]
  /\ IF thread[t].pos < Len(Gateway.order[thread[t].first])
       THEN /\ thread' = [thread EXCEPT ![t].pc = "sending", ![t].pos = @ + 1]
            /\ UNCHANGED seen
       ELSE Finish(t, Reply(t, key))

\* The attempt counts against its route.  The last one's failure is reported.
TryNext(t, key) ==
  /\ circuit' = [circuit EXCEPT ![Attempt(t)] = Failed(@)]
  /\ IF Later(t) # {}
       THEN /\ thread' = [thread EXCEPT ![t].pc = "sending", ![t].pos = First(Later(t))]
            /\ UNCHANGED seen
     ELSE IF Request(t).probe
       THEN /\ thread' = [thread EXCEPT ![t].pc = "probing", ![t].probe = @ + 1]
            /\ UNCHANGED seen
     ELSE Finish(t, Reply(t, key))

\* _seen_handoffs, a deque: of what was admitted only the last is known.
SeenHandoffs == {attempted[i] : i \in {n \in DOMAIN attempted : n > Len(attempted) - HandoffsKept}}

\* The chat adapter takes note of an attempt it admits.
Admitted(t) == IF Gateway.adapter = "chat" THEN Append(attempted, HandoffKey(t)) ELSE attempted

\* Mutant: the replay protection was dropped.
SendAgain(t) ==
  /\ thread[t].pc = "sending"
  /\ attempted' = Admitted(t)
  /\ thread' = [thread EXCEPT ![t].pc = "waiting", ![t].consulted = @ \cup {Attempt(t)}]
  /\ UNCHANGED <<case, rev, current, seen, circuit>>

\* Mutant: an attempt that was refused as a repetition is made again.
SendInsisting(t) ==
  /\ thread[t].pc = "sending"
  /\ Gateway.adapter = "chat" => HandoffKey(t) \notin SeenHandoffs
  /\ attempted' = Admitted(t)
  /\ thread' = [thread EXCEPT ![t].pc = "waiting", ![t].consulted = @ \cup {Attempt(t)}]
  /\ UNCHANGED <<case, rev, current, seen, circuit>>

\* The chat adapter admits an attempt unless it knows it from before; a
\* repetition is a failure of the route.  An admitted attempt is one step
\* here, whatever it takes: it is posted up to three times if the connection
\* or the provider fails, and again without the schema on a status of 400.
Send(t) ==
  /\ thread[t].pc = "sending"
  /\ IF Gateway.adapter = "chat" /\ HandoffKey(t) \in SeenHandoffs
       THEN TryNext(t, "handoff_unavailable") /\ UNCHANGED attempted
       ELSE /\ attempted' = Admitted(t)
            /\ thread' = [thread EXCEPT ![t].pc = "waiting", ![t].consulted = @ \cup {Attempt(t)}]
            /\ UNCHANGED <<seen, circuit>>
  /\ UNCHANGED <<case, rev, current>>

Facts(t) ==
  IF Request(t).probe THEN {<<"fixture", "turn_on">>}
  ELSE HandoffFacts(Request(t).says, Candidates(t), MaxFacts)

\* The gate of a fallback's proposal.  No parameters in the proposal stand
\* for those of the decision that was delegated (_result).
Gated(t, proposal) ==
  LET id == proposal.id
      key == Policy(id, TRUE, TRUE, Request(t).confirmed)
      parameters == IF DOMAIN proposal.parameters = {} THEN thread[t].decision.parameters
                    ELSE proposal.parameters
  IN CASE IsBatch(t) ->
            IF id = BatchId(thread[t].batch) THEN BatchAnswers(t, id, << >>)
            ELSE {Reply(t, "fallback_target_unverified")}
       [] ~IsBatch(t) /\ ~(id \in ToSet(Candidates(t)) /\ FallbackMatches(Request(t).says, id)) ->
            {Reply(t, "fallback_target_unverified")}
       [] ~IsBatch(t) /\ id \in ToSet(Candidates(t)) /\ FallbackMatches(Request(t).says, id) ->
            IF Found(id) = {} THEN {Reply(t, "candidate_not_allowed")}
            ELSE IF ~PolicyAccepts(Schema(id), proposal.parameters)
              THEN {Reply(t, "invalid_parameters")}
            ELSE {[Reply(t, key) EXCEPT !.id = id, !.parameters = parameters]}

Delegated(t, reply) ==
  {[answer EXCEPT !.route = thread[t].first] :
     answer \in IF reply.kind = "prose_response" THEN {Reply(t, "delegated_prose")}
                ELSE Gated(t, reply)}

\* What the adapter returns, or raises ("down", or "crash": nothing that
\* the broker catches), after the checks of adapter and broker.
Replies(t) ==
  LET schemas == [id \in Facts(t) |->
                    IF Request(t).probe THEN NoParameter ELSE Listing(t)[id].schema]
  IN {IF raw.kind \in {"down", "crash"} THEN raw
      ELSE Validated(Translated(Gateway.adapter, raw, Facts(t)), ReplyKinds(t), Facts(t), schemas) :
        raw \in IF Gateway.adapter = "static" THEN {RouteDown} ELSE case.replies}

RouteReply(t, reply) ==
  /\ CASE reply.kind = "crash" ->
            /\ thread' = [thread EXCEPT ![t].pc = "failed"]
            /\ UNCHANGED <<seen, circuit>>
       [] reply.kind = "down" -> TryNext(t, "handoff_unavailable")
       [] reply.kind = "invalid" -> TryNext(t, "handoff_invalid_response")
       [] OTHER ->
            /\ circuit' = [circuit EXCEPT ![Attempt(t)] = Closed]
            /\ IF Request(t).probe
                 THEN thread' = [thread EXCEPT ![t].pc = "done"] /\ UNCHANGED seen
                 ELSE \E answer \in Delegated(t, reply) : Finish(t, answer)
  /\ UNCHANGED <<case, rev, current, attempted>>

-----------------------------------------------------------------------------
(* provider_compatibility: the decision service, then each of the first     *)
(* eight routes with its failovers until one answers.  Nothing of it is     *)
(* remembered.                                                              *)

StartProbe(t) ==
  /\ Arrives(t) /\ Request(t).probe
  /\ thread' = [thread EXCEPT ![t] =
       IF Gateway.client = "static"
         THEN [NoThread EXCEPT !.pc = "probing", !.probe = 1, !.settled = Settled]
         ELSE [NoThread EXCEPT !.pc = "asking", !.consulted = {"jev"}, !.settled = Settled]]
  /\ UNCHANGED <<case, rev, current, seen, circuit, attempted>>

ProbeAnswered(t) ==
  /\ thread[t].pc = "asking" /\ Request(t).probe
  /\ thread' = [thread EXCEPT ![t].pc = "probing", ![t].probe = 1]
  /\ UNCHANGED <<case, rev, current, seen, circuit, attempted>>

ProbeRoute(t) ==
  LET n == thread[t].probe
  IN /\ thread[t].pc = "probing"
     /\ IF n > MaxAttempts \/ n > Len(Gateway.routes)
          THEN thread' = [thread EXCEPT ![t].pc = "done"]
          ELSE \E first \in {Gateway.routes[n].id} :
                 \E attempts \in {AttemptsFrom(t, "simple", first)} :
                   thread' = [thread EXCEPT ![t] =
                     IF attempts = {} THEN [@ EXCEPT !.probe = n + 1]
                     ELSE HandedOff(@, first, attempts)]
     /\ UNCHANGED <<case, rev, current, seen, circuit, attempted>>

-----------------------------------------------------------------------------
(* What happens meanwhile.                                                  *)

Cooldown(r) ==
  /\ circuit[r].open
  /\ circuit' = [circuit EXCEPT ![r].open = FALSE]
  /\ UNCHANGED <<case, rev, current, seen, attempted, thread>>

\* The Core sends the next snapshot; one that does not compile is refused.
Reconcile ==
  /\ rev < Len(case.homes)
  /\ Profiles[case.homes[rev + 1]].compiles
  /\ rev' = rev + 1
  /\ current' = TRUE
  /\ UNCHANGED <<case, seen, circuit, attempted, thread>>

\* Only in cases that mean it to happen.
Invalidate ==
  /\ current /\ case.events
  /\ current' = FALSE
  /\ UNCHANGED <<case, rev, seen, circuit, attempted, thread>>

\* A thread runs on, or its provider answers it.
Step(t) ==
  \/ thread[t].pc = "asking" /\ ~Request(t).probe /\ \E d \in Decisions(t) : Decide(t, d)
  \/ thread[t].pc = "waiting" /\ \E reply \in Replies(t) : RouteReply(t, reply)
  \/ Send(t) \/ Trim(t) \/ ProbeAnswered(t) \/ ProbeRoute(t)

Next ==
  \/ \E t \in Threads : Step(t) \/ Drop(t) \/ Replay(t) \/ Refuse(t) \/ Consult(t) \/ StartProbe(t)
  \/ \E r \in RouteIds(Gateway) : Cooldown(r)
  \/ Reconcile \/ Invalidate

Spec == Init /\ [][Next]_vars

\* A thread runs on, and its providers answer or time out.
FairSpec == Spec /\ \A t \in Threads : WF_vars(Step(t))

-----------------------------------------------------------------------------
TypeOK ==
  /\ rev \in 0 .. Len(case.homes)
  /\ current \in BOOLEAN
  /\ IsInjective([i \in DOMAIN seen |-> seen[i].id])
  /\ \A r \in RouteIds(Gateway) : circuit[r].failures \in 0 .. 2 /\ circuit[r].open \in BOOLEAN
  /\ \A t \in Threads :
       /\ thread[t].answer.key \in Final \cup {"none"}
       /\ thread[t].pc = "done" /\ ~Request(t).probe => thread[t].answer.key # "none"
       /\ thread[t].pc \in {"sending", "waiting"} => thread[t].pos \in thread[t].attempts

(***************************************************************************)
(* An answer that lets the Core act was decided on a profile that was      *)
(* current at that moment, however long the providers took.  If it still   *)
(* was the profile the request was made for, the Core finds in its own map *)
(* of that revision a target it may execute, with the confirmation it      *)
(* needs, and, if no fallback chose them, the parameters it accepts; for a *)
(* batch, distinct entities that need none of this.  Two catalogues, three *)
(* validators and two lists of operations have to agree for that.  (A      *)
(* confirmed request comes under the id of the one it confirms.)           *)
(***************************************************************************)
Confirmed(id) == \E u \in Delivered : Request(u).id = id /\ Request(u).confirmed

AnswersAreExecutable ==
  \A t \in Delivered :
    LET a == thread[t].answer
        home == Homes[case.homes[a.rev]]
        target == CoreTarget(home, a.id)
    IN a.key \in {"execute", "batch_execute", "confirmation_required"} =>
         /\ a.under # 0
         /\ a.under = a.rev /\ a.key = "execute" =>
              /\ IsTarget(home, a.id)
              /\ <<target.domain, target.operation>> \in Executable
              /\ target.risk = "confirm" => Confirmed(Request(t).id)
              /\ a.route = "none" => CoreAccepts(target.schema, a.parameters)
         /\ a.under = a.rev /\ a.key = "batch_execute" =>
              /\ \A m \in a.members : IsTarget(home, m) /\ CoreTarget(home, m).risk = "routine"
              /\ Cardinality({m[1] : m \in a.members}) = Cardinality(a.members)
              /\ Cardinality({m[2] : m \in a.members}) = 1

(***************************************************************************)
(* Whatever the options, a failing service or a failover lead to: nothing  *)
(* of a request goes to a host outside the home if the App or the request  *)
(* says local_only, and nothing goes to an outside fallback unless both    *)
(* allow it.  (The compatibility probe has no such check, and sends only   *)
(* a fixed text.)                                                          *)
(***************************************************************************)
ConsultsWithinPrivacy ==
  \A t \in Delivered :
    LET modes == {Gateway.privacy, Request(t).privacy} \ {"unset"}
        outside == {x \in thread[t].consulted :
                      Hosted(IF x = "jev" THEN Gateway.jevAt ELSE Gateway.at[x])}
    IN ~Request(t).probe =>
         /\ "local_only" \in modes => outside = {}
         /\ modes # {"hosted_allowed"} => outside \subseteq {"jev"}

\* What a route needs at the moment a handoff starts.
Usable(r, t) ==
  /\ r.kinds \cap ReplyKinds(t) # {} /\ r.availability \in {"ready", "degraded"}
  /\ ~circuit[r.id].open
  /\ (IF Request(t).probe THEN Gateway.privacy ELSE Mode(t)) \in r.privacy
  /\ Level(r.ceiling) >= Level(thread'[t].decision.complexity)

\* What a relation, a set of pairs, leads to from a start: what no set that
\* holds the start, and with a first also its second, can do without.
LeadsTo(start, pairs) ==
  LET all == {start} \cup {p[2] : p \in pairs}
  IN  {x \in all : \A S \in SUBSET all :
         start \in S /\ (\A p \in pairs : p[1] \in S => p[2] \in S) => x \in S}

FailsOver ==
  UNION {{<<r, b>> : b \in ToSet(Route(Gateway.routes, r).fallbacks)} : r \in RouteIds(Gateway)}

(***************************************************************************)
(* A handoff that starts will try routes that the operator's failovers     *)
(* lead to from its first one and that are usable at that moment, each     *)
(* once, however the declarations branch, cycle, or pass through routes    *)
(* that cannot be used.  If no more than eight are usable, it tries every  *)
(* one of them that is within the policy's budget of latency and cost.     *)
(* (The code tries the others too, which ordered_routes says it should     *)
(* not: nothing is claimed about them here.)                               *)
(***************************************************************************)
TriesEveryRoute(t) ==
  LET first  == thread'[t].first
      order  == Gateway.order[first]
      tried  == {order[i] : i \in thread'[t].attempts}
      usable == {r \in LeadsTo(first, FailsOver) : Usable(Route(Gateway.routes, r), t)}
  IN /\ \A i, j \in thread'[t].attempts : order[i] = order[j] => i = j
     /\ tried \subseteq usable
     /\ Cardinality(usable) <= MaxAttempts =>
          {r \in usable : WithinBudget(Route(Gateway.routes, r))} \subseteq tried

EveryRouteOnce ==
  [][\A t \in Delivered :
       thread[t].pc \in {"asking", "probing"} /\ thread'[t].pc = "sending"
         => TriesEveryRoute(t)]_vars

(***************************************************************************)
(* A request that arrives twice, and passes the memory twice because the   *)
(* first is not answered yet, is attempted twice at the same route of the  *)
(* chat adapter, as part of the same handoff, only if the adapter has      *)
(* admitted so many other attempts in between that it forgot the first.    *)
(* (All probes share an id, and each of them makes a handoff from each     *)
(* route.)                                                                 *)
(***************************************************************************)
RepeatsAreFarApart ==
  \A t, u \in Delivered :
    /\ t # u /\ Gateway.adapter = "chat"
    /\ ~Request(t).probe /\ ~Request(u).probe /\ Request(t).id = Request(u).id
    /\ thread[t].first = thread[u].first
    => \A r \in (thread[t].consulted \cap thread[u].consulted) \ {"jev"} :
         \E i, j \in DOMAIN attempted :
           /\ attempted[i] = <<Request(t).id, thread[t].first, r>>
           /\ attempted[j] = attempted[i]
           /\ j - i > HandoffsKept

(***************************************************************************)
(* A request that arrives again after it was answered, whatever the answer *)
(* was, is answered at once as before, and nobody is consulted, even if    *)
(* the profile has changed or gone stale.  (As long as no more requests    *)
(* came than are remembered.)                                              *)
(***************************************************************************)
DuplicatesAreReplayed ==
  \A t \in Delivered :
    LET same == {u \in thread[t].settled :
                   ~Request(u).probe /\ Request(u).id = Request(t).id}
        ids  == {Request(u).id : u \in {v \in Delivered : ~Request(v).probe}}
    IN same # {} /\ ~Request(t).probe /\ Cardinality(ids) <= RememberLimit =>
         /\ thread[t].pc = "done" /\ thread[t].consulted = {}
         /\ \E u \in same : thread[t].answer = thread[u].answer

(***************************************************************************)
(* The memory exceeds its limit by the answers that are being trimmed and  *)
(* by those whose trimming raised, because another thread was quicker;     *)
(* these stay in excess for good, and no more than these.                  *)
(***************************************************************************)
MemoryIsBounded ==
  Len(seen) <= RememberLimit
    + Cardinality({t \in Delivered : thread[t].pc = "trimming"})
    + Cardinality({t \in Delivered : thread[t].pc = "failed" /\ thread[t].oldest # ""})

(***************************************************************************)
(* A batch that may be executed for a named group acts on everything that  *)
(* is in the group, through the groups in it, and on nothing else: it is   *)
(* never reduced to the members that happen to be safe.                    *)
(***************************************************************************)
Members(home) == UNION {{<<g.ref, m>> : m \in ToSet(g.members)} : g \in home.groups}

BatchIsWhatWasNamed ==
  \A t \in Delivered :
    LET a == thread[t].answer
        home == Homes[case.homes[a.rev]]
    IN a.key = "batch_execute" /\ Request(t).says.group =>
         \E g \in {x \in home.groups : x.name \in Request(t).says.names} :
           {m[1] : m \in a.members} =
             LeadsTo(g.ref, Members(home)) \ {x.ref : x \in home.groups}

(***************************************************************************)
(* A thread that took a request ends: with an answer, or with an error the *)
(* server turns into one.                                                  *)
(***************************************************************************)
AdmittedIsAnswered ==
  \A t \in Threads : thread[t].pc \in {"asking", "sending", "waiting", "probing", "trimming"}
                       ~> thread[t].pc \in {"done", "failed"}
=============================================================================
