----------------------------- MODULE MCExecution -----------------------------
(* A small instance of Execution: two lamps, a lock, and entities of the   *)
(* other kinds a home has.                                                 *)
EXTENDS Execution

Entity(ref, domain) ==
  [ref |-> ref, domain |-> domain, scopes |-> NoScopes, exposed |-> TRUE,
   disabled |-> FALSE, available |-> TRUE, min |-> 50, max |-> 300,
   modes |-> {"heat", "off"}]

Lamp == Entity("lamp", "light")
Desk == Entity("desk", "light")
Door == Entity("door", "lock")

\* In the second home the desk lamp is hidden and the player unavailable.
MCRegistry ==
  [day |->
   [services |-> {}, groups |-> {},
    entities |-> {Lamp, Desk, Door, Entity("tv", "media_player"),
                  [Entity("hall", "climate") EXCEPT !.min = 400, !.modes = {}]}],
   night |->
   [services |-> {<<"light", "turn_on">>, <<"lock", "unlock">>,
                  <<"climate", "set_temperature">>, <<"cover", "open_cover">>}, groups |-> {},
    entities |-> {Lamp, [Desk EXCEPT !.disabled = TRUE], Door,
                  [Entity("tv", "media_player") EXCEPT !.available = FALSE],
                  Entity("hall", "climate"), Entity("gate", "garage"),
                  Entity("night", "scene"), Entity("meter", "sensor")}]]

MCDevices == {"lamp", "desk", "door"}

Shows(state, level) == [state |-> state, level |-> level]

MCDeviceStates ==
  [lamp |-> {Shows("on", 40), Shows("off", 0), Shows("unavailable", 0)},
   desk |-> {Shows("on", 40), Shows("off", 0)},
   door |-> {Shows("unlocked", 0)}]

Proposal(request, ids, batch, rv, confirmed, parameters) ==
  [request |-> request, ids |-> ids, batch |-> batch, rev |-> rv,
   confirmed |-> confirmed, parameters |-> parameters]

Bright(n) == [brightness |-> [type |-> "number", size |-> n]]

MCProposals ==
  {Proposal("q1", <<<<"lamp", "turn_on">>, <<"desk", "turn_on">>>>, TRUE, r, FALSE, << >>) : r \in 0 .. 1}
  \cup {Proposal("q1", <<<<"lamp", "turn_on">>>>, FALSE, r, FALSE, << >>) : r \in 0 .. 1}
  \cup {Proposal("q2", <<<<"lamp", "set_brightness">>>>, FALSE, 0, FALSE, Bright(n)) : n \in {42, 101}}
  \cup {Proposal("q2", <<<<"lamp", "toggle">>>>, FALSE, 0, FALSE, << >>)}
  \cup {Proposal("q2", <<<<"door", "unlock">>>>, FALSE, 0, c, << >>) : c \in BOOLEAN}
=============================================================================
