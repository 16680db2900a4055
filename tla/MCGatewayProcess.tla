-------------------------- MODULE MCGatewayProcess --------------------------
(* Small cases of GatewayProcess: each gives an interaction a gateway, two *)
(* or three requests, and the answers of providers that matter to it.      *)
EXTENDS GatewayProcess, TLC

Place(area) == [NoScopes EXCEPT !.area = {area}]

Entity(ref, domain, area) ==
  [ref |-> ref, domain |-> domain, scopes |-> Place(area), exposed |-> TRUE,
   disabled |-> FALSE, available |-> TRUE, min |-> 50, max |-> 300, modes |-> {}]

Group(ref, members) == [ref |-> ref, name |-> ref, members |-> members]

Lamp == Entity("lamp", "light", "den")
Desk == Entity("desk", "light", "den")
Door == Entity("door", "lock", "hall")
Tv   == Entity("tv", "media_player", "den")

\* In the last home a group cannot be compiled: it holds three lamps.
MCHomes ==
  [day   |-> [entities |-> {Lamp, Desk, Door, Tv}, services |-> {}, groups |-> {}],
   night |-> [entities |-> {Lamp, [Desk EXCEPT !.available = FALSE]}, services |-> {},
              groups |-> {}],
   bright |-> [entities |-> {Lamp, Desk, Entity("spot", "light", "den")}, services |-> {},
               groups |-> {}],
   grouped |-> [entities |-> {Lamp, Desk, Door}, services |-> {},
                groups |-> {Group("desks", <<"desk">>), Group("den", <<"lamp", "desks">>),
                            Group("all", <<"den", "door">>)}],
   crowded |-> [entities |-> {Lamp, Desk, Entity("spot", "light", "den")}, services |-> {},
                groups |-> {Group("two", <<"lamp", "desk">>),
                            Group("three", <<"spot", "two">>)}]]

Silence == [names |-> {}, ops |-> {}, plurals |-> {}, action |-> "none",
            group |-> FALSE, verb |-> FALSE, negated |-> FALSE, all |-> FALSE]
Says(name, op) == [Silence EXCEPT !.names = {name}, !.ops = {op}, !.verb = TRUE]
SaysGroup(name) ==
  [Silence EXCEPT !.names = {name}, !.ops = {"turn_off"}, !.action = "turn_off",
                  !.group = TRUE, !.verb = TRUE]
SaysLights(names, all) ==
  [Silence EXCEPT !.names = names, !.plurals = {"light"}, !.ops = {"turn_off"},
                  !.action = "turn_off", !.verb = TRUE, !.all = all]

Asks(id, says, h, revision) ==
  [id |-> id, says |-> says, rev |-> revision, valid |-> TRUE, privacy |-> "unset",
   confirmed |-> FALSE, compact |-> FALSE, probe |-> FALSE,
   candidates |-> FoldSet(LAMBDA c, listed : Append(listed, c), << >>,
                           RequestContext(MCHomes[h]))]
Probe == [Asks("probe", Silence, "day", 1) EXCEPT !.probe = TRUE]

Bright(v) == "brightness" :> v
Loud(v)   == "volume" :> v
Size(n)   == [type |-> "number", size |-> n]
NaN       == [type |-> "nan"]

Jev(route, id, confidence, ambiguity, parameters) ==
  [shape |-> "ok", route |-> route, complexity |-> "simple", id |-> id,
   confidence |-> confidence, ambiguity |-> ambiguity, parameters |-> parameters,
   values |-> << >>]
Sure(id, parameters) == Jev("routine_control", id, 90, 10, parameters)
Clarifies == Jev("clarify", << >>, 50, 50, << >>)
Answered(raw, brightness, volume) ==
  [raw EXCEPT !.values = [id \in {<<"lamp", "set_brightness">>, <<"desk", "set_brightness">>,
                                  <<"tv", "set_volume">>} |->
                            IF id[1] = "tv" THEN volume ELSE brightness]]

RouteCrash == [Prose EXCEPT !.kind = "crash"]

Options == [fallback |-> "disabled", base |-> "none", endpoint |-> "none", model |-> TRUE,
            registry |-> << >>, jev |-> "disabled", jevAt |-> "local", privacy |-> "local_only"]

RouteOf(id, modes, ceiling, cost, fallbacks) ==
  [id |-> id, kinds |-> {"prose_response"}, ceiling |-> ceiling, privacy |-> modes,
   latency |-> 2000, cost |-> cost, availability |-> "ready", fallbacks |-> fallbacks]

\* r1 is the first of a simple request, and r1 and r2 fail over to each other.
\* r2 costs too much and r5 takes too long to be first, r3 is outside, r4 is
\* down, and r6 is known to r4 alone.
Registered ==
  <<RouteOf("r1", Modes, "simple", 0, <<"r3", "r2">>),
    RouteOf("r2", Modes, "medium", 300, <<"r1", "r5">>),
    RouteOf("r3", {"hosted_allowed"}, "reasoning", 0, <<"r4">>),
    [RouteOf("r4", Modes, "simple", 0, <<"r1", "r6">>) EXCEPT !.availability = "unavailable"],
    [RouteOf("r5", Modes, "simple", 0, << >>) EXCEPT !.kinds = {"tool_proposal"}, !.latency = 20000],
    RouteOf("r6", Modes, "simple", 0, << >>)>>

\* A registry with an adapter that answers, which build_gateway does not make.
Assembled ==
  [Wire([Options EXCEPT !.registry = Registered]) EXCEPT
     !.adapter = "http", !.at = [r \in DOMAIN @ |-> IF r = "r3" THEN "https" ELSE "local"]]

Case(options, homes, deliveries, answers, replies) ==
  [gateway |-> Wire(options), homes |-> homes, start |-> 1, events |-> FALSE,
   deliveries |-> deliveries, answers |-> answers, replies |-> replies]

LampOn == Asks("a", Says("lamp", "turn_on"), "day", 1)
Unlock == Asks("a", Says("door", "unlock"), "day", 1)
Brighten == Asks("a", Says("lamp", "set_brightness"), "day", 1)

\* No route: the profile changes while the service decides.
Direct ==
  {[Case(Options, <<"day", "night">>, <<r>>,
      {Sure(<<"lamp", "turn_on">>, << >>), Sure(<<"desk", "turn_on">>, << >>),
       Sure(<<"door", "unlock">>, << >>), Sure(<<"sofa", "turn_on">>, << >>),
       Sure(<<"lamp", "set_brightness">>, Bright(Size(40))),
       Sure(<<"lamp", "set_brightness">>, Bright(Size(101))),
       Sure(<<"tv", "set_volume">>, Loud(Size(30))), Sure(<<"tv", "set_volume">>, << >>),
       Jev("routine_control", <<"lamp", "turn_on">>, 85, 10, << >>),
       Jev("routine_control", <<"lamp", "turn_on">>, 90, 29, << >>),
       Jev("read_only", << >>, 90, 10, << >>), Jev("delegate", << >>, 90, 10, << >>),
       Clarifies, Jev("refuse", << >>, 0, 0, << >>), Down}, {})
    EXCEPT !.events = TRUE, !.start = s] :
   r \in {LampOn, [Unlock EXCEPT !.confirmed = TRUE], [LampOn EXCEPT !.valid = FALSE],
          [Brighten EXCEPT !.compact = TRUE]}, s \in 0 .. 1}

\* The other clients, at the addresses each may have.
Clients ==
  {Case([Options EXCEPT !.jev = "typesafe"], <<"day">>, <<LampOn>>,
     {Answered(Sure(<<"lamp", "set_brightness">>, << >>), b, v) :
        b \in {Size(40), Size(-1), NaN}, v \in {Size(20)}}
     \cup {Answered(Sure(<<"lamp", "turn_on">>, << >>), Size(0), Size(20)),
           Sure(<<"lamp", "turn_on">>, << >>)}, {})}
  \cup
  {Case([Options EXCEPT !.jev = provider, !.jevAt = at, !.privacy = mode], <<"day">>,
     <<[LampOn EXCEPT !.privacy = asked]>>,
     {Sure(<<"lamp", "turn_on">>, << >>), Sure(<<"tv", "set_volume">>, << >>),
      Sure(<<"sofa", "turn_on">>, << >>), Jev("delegate", << >>, 90, 10, << >>)}, {}) :
     provider \in {"disabled", "openrouter"}, at \in {"none", "http", "decisions"},
     mode \in Modes \cup {"open"}, asked \in {"unset", "local_only", "hosted_allowed"}}

\* The configured fallback, however it was configured, and a request sent twice.
Fallbacks ==
  {Case([Options EXCEPT !.fallback = provider, !.base = base, !.endpoint = endpoint,
                        !.model = model, !.privacy = mode],
     <<"day">>, <<[LampOn EXCEPT !.privacy = asked]>>, {Down}, {Prose, RouteDown}) :
     provider \in {"disabled", "openrouter", "typed_http", "other"}, base \in {"none", "https"},
     endpoint \in {"none", "local", "http", "https"}, model \in BOOLEAN,
     mode \in {"local_only", "hosted_allowed"}, asked \in {"unset", "jev_hosted_allowed"}}
  \cup
  {Case([Options EXCEPT !.fallback = "openai_compatible", !.base = "local"],
     <<"day", "night">>, <<r, r>>,
     {Clarifies, Sure(<<"lamp", "set_brightness">>, Bright(Size(40))),
      Sure(<<"lamp", "set_brightness">>, << >>)},
     {Prose, RouteDown, RouteCrash, Proposal(<<"lamp", "turn_on">>, << >>),
      Proposal(<<"desk", "turn_on">>, << >>), Proposal(<<"door", "unlock">>, << >>),
      Proposal(<<"lamp", "set_brightness">>, Bright(NaN)),
      Proposal(<<"lamp", "set_brightness">>, << >>), Proposal(<<"tv", "set_volume">>, Loud(Size(20)))}) :
     r \in {LampOn, Unlock, Brighten}}
  \cup
  {Case([Options EXCEPT !.fallback = "openai_compatible", !.base = "local"], <<"day">>,
     <<LampOn, [LampOn EXCEPT !.id = "b"], LampOn>>, {Clarifies}, {Prose, RouteDown})}

Delegates == {[Jev("delegate", << >>, 90, 10, << >>) EXCEPT !.complexity = c] : c \in {"simple", "medium"}}

\* A registry as build_gateway takes it from the options.
Registries ==
  {Case([Options EXCEPT !.registry = Registered], <<"day">>, <<LampOn>>, Delegates, {})}

\* The same with an adapter that answers: two requests at once, and a probe.
Failovers ==
  {[Case(Options, <<"day">>, c[1], Delegates, c[2]) EXCEPT
      !.gateway = [Assembled EXCEPT !.privacy = mode]] :
     mode \in {"local_only", "hosted_allowed"},
     c \in {<<<<LampOn, [LampOn EXCEPT !.id = "b"]>>, {Prose, RouteDown}>>,
            <<<<Probe>>, {Prose, RouteDown, Invalid}>>}}

\* What a sentence about several lights becomes.
Batches ==
  {Case([Options EXCEPT !.fallback = provider, !.endpoint = "local"], <<"grouped">>,
     <<Asks("a", says, "grouped", 1)>>,
     {Sure(<<"batch", "turn_off">>, << >>), Sure(<<"lamp", "turn_off">>, << >>), Down},
     {Proposal(<<"batch", "turn_off">>, << >>), Proposal(<<"lamp", "turn_off">>, << >>)}) :
     provider \in {"disabled", "typed_http"},
     says \in {SaysGroup("den"), SaysGroup("all"), SaysGroup("attic"),
               SaysLights({"den"}, FALSE), SaysLights({}, TRUE), SaysLights({}, FALSE),
               [SaysLights({"den"}, FALSE) EXCEPT !.negated = TRUE]}}
  \cup {[Case(Options, <<"crowded">>, <<Asks("a", SaysLights({}, TRUE), "crowded", 1)>>, {Down}, {})
         EXCEPT !.start = 0],
        Case(Options, <<"bright">>, <<Asks("a", SaysLights({}, TRUE), "bright", 1)>>, {Down}, {}),
        Case(Options, <<"night">>, <<Asks("a", SaysLights({"den"}, FALSE), "night", 1)>>, {Down}, {}),
        Case(Options, <<"grouped", "night">>, <<Asks("a", SaysLights({"den"}, FALSE), "grouped", 1)>>,
          {Sure(<<"batch", "turn_off">>, << >>)}, {})}

\* The memory, at its limit of one.
Memories ==
  {Case([Options EXCEPT !.jevAt = "none"], <<"day">>,
     [i \in 1 .. 3 |-> [LampOn EXCEPT !.id = ids[i]]], {}, {}) :
     ids \in {<<"a", "b", "c">>, <<"a", "b", "a">>, <<"a", "a", "a">>}}

MCCases == Direct \cup Clients \cup Fallbacks \cup Registries \cup Failovers \cup Batches \cup Memories
=============================================================================
