------------------------------ MODULE Routing ------------------------------
(***************************************************************************)
(* The downstream models a request may be handed to: the registry of       *)
(* routes and what makes one eligible (route_policy.py, policy.py), the    *)
(* explicit graph of failovers, and what an adapter's answer is worth      *)
(* (openrouter_fallback.py, handoff.py).                                   *)
(*                                                                         *)
(* A route is a record [id, kinds, ceiling, privacy, latency, cost,        *)
(* availability, fallbacks]; a registry is a sequence of routes, in the    *)
(* operator's order.                                                       *)
(***************************************************************************)
EXTENDS Groups

Modes == {"local_only", "jev_hosted_allowed", "hosted_allowed"}
Complexities == <<"simple", "medium", "complex", "reasoning">>
Level(complexity) == CHOOSE n \in 1 .. 4 : Complexities[n] = complexity

MaxRoutes == 32
MaxFallbacks == 8
MaxAttempts == 8
MaxLatency == 120000
NoLimit == 2147483647   \* no cost exceeds it

\* RouteRegistry.from_dict refuses everything else.
ValidRegistry(routes) ==
  LET ids == {routes[i].id : i \in DOMAIN routes}
  IN /\ Len(routes) <= MaxRoutes /\ Cardinality(ids) = Len(routes)
     /\ \A i \in DOMAIN routes : LET r == routes[i] IN
          /\ r.kinds # {} /\ r.privacy # {} /\ r.privacy \subseteq Modes
          /\ r.latency \in 0 .. MaxLatency /\ r.cost >= 0
          /\ Len(r.fallbacks) <= MaxFallbacks
          /\ ToSet(r.fallbacks) \subseteq ids \ {r.id}

Route(routes, id) == routes[CHOOSE i \in DOMAIN routes : routes[i].id = id]

\* What a request needs of a route; without a budget any latency and cost
\* that the registry allows will do.
Envelope(complexity, mode, kinds, latency, cost) ==
  [complexity |-> complexity, mode |-> mode, kinds |-> kinds,
   latency |-> latency, cost |-> cost]

\* PolicyConfig: ten seconds, and a cost of 1.0, in hundredths.
LatencyBudget == 10000
CostBudget == 100
WithinBudget(r) == r.latency <= LatencyBudget /\ r.cost <= CostBudget

\* ModelRoute.supports, beside the kinds and the circuit.
Supports(r, complexity, mode) ==
  /\ r.availability \in {"ready", "degraded"}
  /\ Level(r.ceiling) >= Level(complexity)
  /\ mode \in r.privacy

RouteAllowed(r, envelope) ==
  /\ envelope.mode \in r.privacy
  /\ Level(r.ceiling) >= Level(envelope.complexity)
  /\ r.latency <= envelope.latency /\ r.cost <= envelope.cost

\* Mutant: a failover is tried whatever its privacy modes are.
EligibleAnyPrivacy(r, open, envelope) ==
  /\ r.kinds \cap envelope.kinds # {}
  /\ r.availability \in {"ready", "degraded"}
  /\ Level(r.ceiling) >= Level(envelope.complexity)
  /\ r.id \notin open
  /\ r.latency <= envelope.latency /\ r.cost <= envelope.cost

Eligible(r, open, envelope) ==
  /\ r.kinds \cap envelope.kinds # {}
  /\ Supports(r, envelope.complexity, envelope.mode)
  /\ r.id \notin open
  /\ RouteAllowed(r, envelope)

First(positions) == CHOOSE i \in positions : \A j \in positions : i <= j

\* select_route: the first eligible route of the registry, or none.
SelectRoute(routes, open, envelope) ==
  LET eligible == {i \in DOMAIN routes : Eligible(routes[i], open, envelope)}
  IN  IF eligible = {} THEN "none" ELSE routes[First(eligible)].id

\* ordered_routes looks at the first route that waits, unless it did before,
\* and lets the failovers it declares wait.
Visit(routes, walk) ==
  LET id == Head(walk.waiting)
  IN  IF walk.waiting = << >> THEN walk
      ELSE IF id \in ToSet(walk.order) THEN [walk EXCEPT !.waiting = Tail(@)]
      ELSE [waiting |-> Tail(walk.waiting) \o Route(routes, id).fallbacks,
            order |-> Append(walk.order, id)]

\* Nothing waits any more after that many visits.
MaxVisits(routes) == 1 + Len(routes) * MaxFallbacks

\* The order in which it visits what the declared failovers lead to, whether
\* it can be used or not: breadth first, each route once.
BreadthFirst(routes, id) ==
  LET walk[n \in Nat] == IF n = 0 THEN [waiting |-> <<id>>, order |-> << >>]
                                  ELSE Visit(routes, walk[n - 1])
  IN  walk[MaxVisits(routes)].order

\* Mutant: a route that cannot be used ends the walk.
UsableUntil(routes, order, open, envelope) ==
  {i \in DOMAIN order : \A j \in 1 .. i : Eligible(Route(routes, order[j]), open, envelope)}

\* ordered_routes: of these the usable ones, eight at most, by position.
OrderedRoutes(routes, order, open, envelope) ==
  LET usable(i) == Eligible(Route(routes, order[i]), open, envelope)
  IN  {i \in DOMAIN order :
         usable(i) /\ Cardinality({j \in 1 .. i : usable(j)}) <= MaxAttempts}

-----------------------------------------------------------------------------
(* What comes back from a provider: "down", "crash" (an exception nobody   *)
(* expects), "invalid", prose, or one proposal.                            *)

Prose == [kind |-> "prose_response", id |-> << >>, parameters |-> << >>]
Proposal(id, parameters) ==
  [kind |-> "tool_proposal", id |-> id, parameters |-> parameters]
Invalid == [Prose EXCEPT !.kind = "invalid"]
RouteDown == [Prose EXCEPT !.kind = "down"]

\* OpenAICompatibleFallbackAdapter._response: only an offered choice passes.
\* The other adapters hand on what they get.
Translated(adapter, reply, facts) ==
  IF adapter = "chat" /\ reply.kind = "tool_proposal" /\ reply.id \notin facts
    THEN Invalid ELSE reply

\* validate_response: the names of the parameters are checked for an
\* offered capability only, their values not at all.  schemas maps the facts.
Validated(reply, kinds, facts, schemas) ==
  IF \/ reply.kind \notin kinds
     \/ /\ reply.kind = "tool_proposal" /\ reply.id \in facts
        /\ \E name \in DOMAIN reply.parameters : name # schemas[reply.id].name
    THEN Invalid ELSE reply
=============================================================================
