------------------------------ MODULE Catalogue ------------------------------
(***************************************************************************)
(* What one discovery of the home becomes on either side of the wire: the  *)
(* Core's targets (profile_adapter.py, capabilities.py), the App's         *)
(* capabilities compiled from the sanitized snapshot (profile.py), and the *)
(* checks each side makes on a proposal before it lets it through.         *)
(*                                                                         *)
(* A home is a record: entities, groups, and the services Home Assistant   *)
(* offers ({} if it could not be asked).  An entity is known by its        *)
(* reference; its scopes are the area, the floor and the labels it is in.  *)
(* A quantity is an integer in units of the tolerance the code compares    *)
(* with: per cent, hundredths or tenths of a degree.                       *)
(***************************************************************************)
EXTENDS Integers, Sequences, FiniteSets

OperationSpecs ==
  ({"light", "switch", "fan"} \X {"turn_on", "turn_off", "toggle"})
  \cup {<<"light", "set_brightness">>}
  \cup ({"media_player"}
        \X {"turn_on", "turn_off", "play", "pause", "stop", "set_volume"})
  \cup ({"climate"} \X {"set_temperature", "set_hvac_mode"})
  \cup ({"lock"} \X {"lock", "unlock"})
  \cup ({"cover", "garage"} \X {"open_cover", "close_cover"})

\* Mutant: an operation the adapter offers was not added to the boundary.
ExecutableWithoutVolume ==
  ({"light", "switch", "fan"} \X {"turn_on", "turn_off", "toggle"})
  \cup {<<"light", "set_brightness">>}
  \cup ({"media_player"} \X {"turn_on", "turn_off", "play", "pause", "stop"})
  \cup ({"climate"} \X {"set_temperature", "set_hvac_mode"})
  \cup ({"lock"} \X {"lock", "unlock"})
  \cup ({"cover", "garage"} \X {"open_cover", "close_cover"})

\* _CORE_EXECUTABLE_OPERATIONS: a second list, kept by hand beside the first.
Executable ==
  ({"light", "switch", "fan"} \X {"turn_on", "turn_off", "toggle"})
  \cup {<<"light", "set_brightness">>}
  \cup ({"media_player"}
        \X {"turn_on", "turn_off", "play", "pause", "stop", "set_volume"})
  \cup ({"climate"} \X {"set_temperature", "set_hvac_mode"})
  \cup ({"lock"} \X {"lock", "unlock"})
  \cup ({"cover", "garage"} \X {"open_cover", "close_cover"})

SpecRisk(domain) ==
  IF domain \in {"lock", "cover", "garage"} THEN "confirm" ELSE "routine"

ServiceOf(domain, op) ==
  <<IF domain = "garage" THEN "cover" ELSE domain,
    CASE op = "set_brightness" -> "turn_on"
      [] op \in {"play", "pause", "stop"} -> "media_" \o op
      [] op = "set_volume" -> "volume_set"
      [] OTHER -> op>>

\* Every parameter is required, and no operation has more than one.
NoParameter == [name |-> "none", type |-> "none", low |-> 0, high |-> 0, enum |-> {}]

Quantity(name, low, high) ==
  [name |-> name, type |-> "number", low |-> low, high |-> high, enum |-> {}]

AllModes == {"off", "heat", "cool", "heat_cool", "auto", "dry", "fan_only"}

\* A climate entity narrows its own range and modes; a range that leaves
\* nothing of the 5 to 35 degrees of the specification is ignored.
ParameterSchema(e, op) ==
  CASE op = "set_brightness" -> Quantity("brightness", 0, 100)
    [] op = "set_volume" -> Quantity("volume", 0, 100)
    [] op = "set_temperature" ->
         LET low  == IF e.min > 50 THEN e.min ELSE 50
             high == IF e.max < 350 THEN e.max ELSE 350
         IN  IF low <= high THEN Quantity("temperature", low, high)
                            ELSE Quantity("temperature", 50, 350)
    [] op = "set_hvac_mode" ->
         [NoParameter EXCEPT !.name = "hvac_mode", !.type = "string",
            !.enum = IF e.modes = {} THEN AllModes ELSE e.modes]
    [] OTHER -> NoParameter

\* References are opaque ids, one for each entity and for each group; HVAC
\* modes are words.
IsHome(home) ==
  /\ IsFiniteSet(home.entities)
  /\ \A e, f \in home.entities : e.ref = f.ref => e = f
  /\ \A g, h \in home.groups : g.ref = h.ref => g = h
  /\ \A e \in home.entities : " " \notin e.modes

-----------------------------------------------------------------------------
(* The Core's build: target map and snapshot from one pass over the states. *)

ServiceAvailable(home, service) == home.services = {} \/ service \in home.services

Offers(home, e, op) ==
  /\ <<e.domain, op>> \in OperationSpecs
  /\ ~e.disabled
  /\ ServiceAvailable(home, ServiceOf(e.domain, op))

AllOperations == {pair[2] : pair \in OperationSpecs}
Operations(home, e) == {op \in AllOperations : Offers(home, e, op)}

IsExposed(e) == e.exposed /\ ~e.disabled

\* Whether the build has a target of this capability id, an entity and an
\* operation, and what is in it.
IsTarget(home, id) ==
  \E e \in home.entities : e.ref = id[1] /\ IsExposed(e) /\ Offers(home, e, id[2])

CoreTarget(home, id) ==
  LET e == CHOOSE x \in home.entities : x.ref = id[1]
  IN  [entity |-> e.ref, domain |-> e.domain, operation |-> id[2],
       risk |-> SpecRisk(e.domain), schema |-> ParameterSchema(e, id[2])]

AdapterRisk(domain) ==
  IF domain \in {"lock", "cover", "garage"} THEN "confirm" ELSE "routine"

Snapshot(home) ==
  [entities |->
     {[ref |-> e.ref, domain |-> e.domain, scopes |-> e.scopes,
       exposed |-> IsExposed(e), available |-> e.available,
       operations |-> Operations(home, e), risk |-> AdapterRisk(e.domain),
       schemas |-> [op \in Operations(home, e) |-> ParameterSchema(e, op)]] :
         e \in {x \in home.entities :
                  \E op \in AllOperations : <<x.domain, op>> \in OperationSpecs}},
   groups |-> home.groups,
   routines |->
     {e.ref : e \in {x \in home.entities :
                       x.domain \in {"script", "scene"} /\ IsExposed(x)}}]

-----------------------------------------------------------------------------
(* The App compiles the snapshot into capabilities, and its policy decides  *)
(* what a decision about one of them leads to.                              *)

NoScopes == [area |-> {}, floor |-> {}, label |-> {}]

Capabilities(snapshot) ==
  (UNION {{[id |-> <<e.ref, op>>, domain |-> e.domain, operation |-> op,
            scopes |-> e.scopes, available |-> e.available, risk |-> e.risk,
            schema |-> e.schemas[op]] : op \in e.operations} :
              e \in {x \in snapshot.entities : x.exposed}})
  \cup
  {[id |-> <<ref, "activate">>, domain |-> "script", operation |-> "activate",
    scopes |-> NoScopes, available |-> TRUE, risk |-> "routine",
    schema |-> NoParameter] : ref \in snapshot.routines}

HighRiskDomains == {"lock", "cover", "garage", "alarm_control_panel", "security"}

AllowedDomains ==
  {"light", "switch", "fan", "media_player", "climate"} \cup HighRiskDomains

AllowedOperations ==
  {"turn_on", "turn_off", "toggle", "set_brightness", "set_volume",
   "set_temperature", "set_hvac_mode", "play", "pause", "stop", "lock",
   "unlock", "open_cover", "close_cover"}

\* evaluate_capability: found is the set of the profile's capabilities with
\* the proposed id; sure and clear are the comparisons with the thresholds.
EvaluateCapability(found, sure, clear, confirmed) ==
  IF found = {} THEN "candidate_not_allowed"
  ELSE LET c == CHOOSE x \in found : TRUE IN
    IF ~c.available THEN "candidate_not_allowed"
    ELSE IF c.domain \notin AllowedDomains THEN "policy_denied"
    ELSE IF c.operation \notin AllowedOperations THEN "policy_denied"
    ELSE IF ~sure THEN "confidence_too_low"
    ELSE IF ~clear THEN "ambiguous_request"
    ELSE IF c.risk = "blocked" THEN "policy_denied"
    ELSE IF (c.risk = "confirm" \/ c.domain \in HighRiskDomains) /\ ~confirmed
      THEN "confirmation_required"
    ELSE "execute"

-----------------------------------------------------------------------------
(* The three validators a parameter passes on its way to a service call.    *)
(* A value is a record of its type and, for a number, its size; "nan" is a  *)
(* number that every comparison rejects, "flag" a bool, which Python counts *)
(* among the integers.  parameters maps names to values.                    *)

SameNames(schema, parameters) ==
  DOMAIN parameters = IF schema.type = "none" THEN {} ELSE {schema.name}

\* normalize_typed_parameters, in the decision and hand-off clients.
Normalizes(schema, parameters) ==
  /\ SameNames(schema, parameters)
  /\ \A name \in DOMAIN parameters : LET v == parameters[name] IN
       CASE schema.type = "number" ->
              v.type = "number" /\ schema.low <= v.size /\ v.size <= schema.high
         [] schema.type = "string" -> v.type = "text" /\ v.text \in schema.enum

\* policy.validate_parameters: NaN is neither below the minimum nor above
\* the maximum.
PolicyAccepts(schema, parameters) ==
  /\ SameNames(schema, parameters)
  /\ \A name \in DOMAIN parameters : LET v == parameters[name] IN
       CASE schema.type = "number" ->
              \/ v.type = "nan"
              \/ v.type = "number" /\ ~(v.size < schema.low) /\ ~(v.size > schema.high)
         [] schema.type = "string" -> v.type = "text" /\ v.text \in schema.enum

\* execution.validate_parameters: finite, in range, and no blank text.
CoreAccepts(schema, parameters) ==
  /\ SameNames(schema, parameters)
  /\ \A name \in DOMAIN parameters : LET v == parameters[name] IN
       CASE schema.type = "number" ->
              v.type = "number" /\ ~(v.size < schema.low) /\ ~(v.size > schema.high)
         [] schema.type = "string" ->
              v.type = "text" /\ v.text # " " /\ v.text \in schema.enum
=============================================================================
