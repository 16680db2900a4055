------------------------------- MODULE Wiring -------------------------------
(***************************************************************************)
(* How the App is put together from its options (build_gateway and the     *)
(* migration of older options in server.py): which decision service it     *)
(* asks, which routes it may hand a request to, and where each of them is. *)
(* Every option may be missing ("none") or wrong; none of that may widen   *)
(* what leaves the home.  An environment variable counts as its option.    *)
(*                                                                         *)
(* An endpoint is "none", "local" (a private address), "http" or "https"   *)
(* (a public host), or "decisions", OpenRouter's address for decisions.    *)
(* Costs are in hundredths.                                                *)
(***************************************************************************)
EXTENDS Routing, Decisions

Hosted(at) == at \in {"http", "https", "decisions"}

\* require_secure_provider_endpoint: a request always carries context.
Secure(at) == at \in {"local", "https", "decisions"}

Given(first, second) == IF first # "none" THEN first ELSE second

-----------------------------------------------------------------------------
(* The fallback.                                                            *)

Chat == {"openrouter", "openai_compatible"}

\* The migration infers a provider from an address that came without one; it
\* also copies fallback_endpoint to fallback_base_url, so that an unknown
\* provider with an address ends up as the first kind whichever it was.
FallbackProvider(options) ==
  LET addressed == Given(options.base, options.endpoint) # "none"
  IN CASE options.fallback \in Chat \cup {"typed_http"} -> options.fallback
       [] options.fallback \in {"none", "disabled"} ->
            IF options.base # "none" THEN "openai_compatible"
            ELSE IF addressed THEN "typed_http" ELSE "disabled"
       [] OTHER -> IF addressed THEN "openai_compatible" ELSE "disabled"

FallbackAt(options) ==
  LET given == Given(options.base, options.endpoint)
  IN  IF FallbackProvider(options) = "openrouter" THEN Given(given, "https") ELSE given

FallbackUsable(options) ==
  /\ FallbackProvider(options) # "disabled"
  /\ Secure(FallbackAt(options))
  /\ FallbackProvider(options) \in Chat => options.model

ConfiguredFallback(at) ==
  [id |-> "configured-fallback", kinds |-> {"prose_response", "tool_proposal"},
   ceiling |-> "reasoning", privacy |-> IF Hosted(at) THEN {"hosted_allowed"} ELSE Modes,
   latency |-> 8000, cost |-> 50, availability |-> "ready", fallbacks |-> << >>]

-----------------------------------------------------------------------------
(* The decision service.  A service that cannot be set up is replaced by    *)
(* one that refuses ("static").                                             *)

JevProvider(options) ==
  IF options.jev \in {"none", "disabled"} /\ options.jevAt # "none"
    THEN IF options.jevAt = "decisions" THEN "openrouter" ELSE "compatible"
    ELSE options.jev

JevAt(options) ==
  Given(options.jevAt, CASE JevProvider(options) = "typesafe" -> "https"
                         [] JevProvider(options) = "openrouter" -> "decisions"
                         [] OTHER -> "none")

JevClient(options) ==
  IF /\ JevProvider(options) \in {"typesafe", "openrouter", "compatible"}
     /\ Secure(JevAt(options))
     /\ JevProvider(options) = "openrouter" => JevAt(options) = "decisions"
    THEN JevProvider(options) ELSE "static"

-----------------------------------------------------------------------------
\* build_gateway.  A configured fallback replaces the routes of a registry,
\* and a registry alone comes with an adapter that answers for none of them.
Wire(options) ==
  LET usable == FallbackUsable(options)
      routes == IF usable THEN <<ConfiguredFallback(FallbackAt(options))>>
                ELSE IF ValidRegistry(options.registry) THEN options.registry
                ELSE << >>
      client == JevClient(options)
  IN [client |-> client,
      jevAt |-> IF client = "static" THEN "none" ELSE JevAt(options),
      routes |-> routes,
      order |-> [id \in {routes[i].id : i \in DOMAIN routes} |->
                   BreadthFirst(routes, id)],
      adapter |-> IF ~usable THEN "static"
                  ELSE IF FallbackProvider(options) \in Chat THEN "chat" ELSE "http",
      at |-> [id \in {routes[i].id : i \in DOMAIN routes} |->
                IF usable THEN FallbackAt(options) ELSE "none"],
      privacy |-> IF options.privacy \in Modes THEN options.privacy ELSE "local_only"]

RouteIds(gateway) == {gateway.routes[i].id : i \in DOMAIN gateway.routes}

\* The routes are a registry's, in order, none called like the service, and
\* fail over to each other; a route outside the home is declared for requests
\* that may go there.
IsGateway(gateway) ==
  LET ids == RouteIds(gateway)
  IN /\ gateway.client \in {"static", "compatible", "typesafe", "openrouter"}
     /\ gateway.privacy \in Modes
     /\ gateway.routes \in Seq(ToSet(gateway.routes))
     /\ \A i, j \in DOMAIN gateway.routes :
          gateway.routes[i].id = gateway.routes[j].id => i = j
     /\ \A i \in DOMAIN gateway.routes :
          /\ gateway.routes[i].latency \in Nat /\ gateway.routes[i].cost \in Nat
          /\ gateway.routes[i].latency <= MaxLatency /\ gateway.routes[i].cost <= NoLimit
          /\ gateway.routes[i].privacy \subseteq Modes
          /\ gateway.routes[i].fallbacks \in Seq(ids)
          /\ Len(gateway.routes[i].fallbacks) <= MaxFallbacks
     /\ ids \cap {"jev", "none"} = {}
     /\ \A r \in ids :
          /\ gateway.order[r] = BreadthFirst(gateway.routes, r)
          /\ Hosted(gateway.at[r]) => Route(gateway.routes, r).privacy = {"hosted_allowed"}
=============================================================================
