----------------------------- MODULE Decisions -----------------------------
(***************************************************************************)
(* The three clients of the decision service (jev_client.py): what each    *)
(* makes of an answer.  None lets a capability or a parameter through that *)
(* was not offered, but each in its own way: the compatible service sends  *)
(* a decision, System One answers a question per item and parameter, and   *)
(* OpenRouter's Decisions answers two questions and has no parameters.     *)
(*                                                                         *)
(* offers maps the capability ids of the request to what the request says  *)
(* of them: [schema, available].  An answer is a record; probabilities are *)
(* per cent.  No capability is << >>.                                      *)
(***************************************************************************)
EXTENDS Catalogue

RouteKinds == {"routine_control", "read_only", "clarify", "refuse", "delegate"}

Decision(route, complexity, id, confidence, ambiguity, parameters) ==
  [error |-> "", route |-> route, complexity |-> complexity, id |-> id,
   confidence |-> confidence, ambiguity |-> ambiguity, parameters |-> parameters]

Simple(route) == Decision(route, "simple", << >>, 0, 0, << >>)

Fault(code) == [Simple("refuse") EXCEPT !.error = code]
Malformed == Fault("jev_invalid_response")

\* HttpJevClient.decide: the id is checked here only if there are parameters.
Compatible(answer, offers) ==
  IF \/ answer.route \notin RouteKinds
     \/ {answer.confidence, answer.ambiguity} \ (0 .. 100) # {}
     \/ /\ DOMAIN answer.parameters # {}
        /\ ~(/\ answer.id \in DOMAIN offers
             /\ Normalizes(offers[answer.id].schema, answer.parameters))
    THEN Malformed
    ELSE Decision(answer.route, answer.complexity, answer.id, answer.confidence,
                  answer.ambiguity, answer.parameters)

\* TypeSafeJevClient.decide: every question of the request is answered, and
\* no other; the parameter comes from the answer to the chosen candidate's
\* question.  A score is checked against nought before its minimum.
Questions(offers) == {id \in DOMAIN offers : offers[id].schema.type # "none"}

Extracts(schema, value) ==
  CASE schema.type = "number" ->
         value.type = "number" /\ 0 <= value.size /\ value.size <= schema.high
           /\ ~(value.size < schema.low)
    [] schema.type = "string" -> value.type = "text" /\ value.text \in schema.enum

TypeSafe(answer, offers) ==
  LET chosen == answer.id \in DOMAIN offers
      schema == offers[answer.id].schema
      asked  == chosen /\ answer.id \in Questions(offers)
  IN IF \/ answer.route \notin RouteKinds
        \/ {answer.confidence, answer.ambiguity} \ (0 .. 100) # {}
        \/ ~chosen /\ answer.id # << >>
        \/ DOMAIN answer.values # Questions(offers)
        \/ asked /\ ~Extracts(schema, answer.values[answer.id])
       THEN Malformed
       ELSE Decision(answer.route, answer.complexity, answer.id, answer.confidence,
              answer.ambiguity,
              IF asked THEN [name \in {schema.name} |-> answer.values[answer.id]] ELSE << >>)

\* OpenRouterDecisionsClient.decide: an operation with a parameter is never
\* decided here, and doubt about either answer counts as ambiguity.
OpenRouter(answer, offers) ==
  LET allowed == {id \in DOMAIN offers : offers[id].available}
      doubt   == 100 - answer.confidence
  IN  IF answer.route \notin {"routine_control", "clarify", "refuse"} THEN Malformed
      ELSE IF answer.route # "routine_control" THEN Simple(answer.route)
      ELSE IF answer.id \notin allowed THEN Simple("clarify")
      ELSE IF offers[answer.id].schema.type # "none" THEN Simple("clarify")
      ELSE Decision("routine_control", "simple", answer.id, answer.confidence,
                     IF doubt > answer.ambiguity THEN doubt ELSE answer.ambiguity, << >>)

Down == [shape |-> "down"]

\* An answer may also fail to come ("down") or be no answer at all.
Decided(client, answer, offers) ==
  CASE client = "static" -> Simple("refuse")
    [] client # "static" /\ answer.shape = "down" -> Fault("jev_unavailable")
    [] client # "static" /\ answer.shape = "malformed" -> Malformed
    [] client = "compatible" /\ answer.shape = "ok" -> Compatible(answer, offers)
    [] client = "typesafe" /\ answer.shape = "ok" -> TypeSafe(answer, offers)
    [] client = "openrouter" /\ answer.shape = "ok" -> OpenRouter(answer, offers)
=============================================================================
