------------------------------ MODULE Execution ------------------------------
(***************************************************************************)
(* The Core's execution boundary (execution.py): the last gate before a    *)
(* Home Assistant service call.  Conversation turns are coroutines on one  *)
(* event loop.  Looking up a target and reading a state never suspend, so  *)
(* a turn runs from its submission to its first service call in one step,  *)
(* and from the return of one call to the next call, or to its answer, in  *)
(* another.  In between the coordinator may go stale or publish another    *)
(* build, other turns run, and devices change as they please: whether a    *)
(* call had its effect when it returned is not the boundary's to decide.   *)
(***************************************************************************)
EXTENDS Catalogue

CONSTANTS
  Turns,        \* conversation turns
  Registry,     \* the homes the adapter may find when it builds, by name
  Devices,      \* references of the entities in them
  DeviceStates, \* states each may show: records [state, level]
  Proposals,    \* what an App may answer to a turn
  MaxRevision   \* bound: builds published after the first

\* What the client's parser lets through: a single proposal names one target.
ASSUME ProposalsAssumption ==
  \A p \in Proposals :
    /\ p.rev \in Nat
    /\ p.batch \in BOOLEAN
    /\ p.confirmed \in BOOLEAN
    /\ p.ids \in Seq(STRING \X STRING)
    /\ ~p.batch => Len(p.ids) = 1
ASSUME RevisionAssumption == MaxRevision \in Nat

VARIABLES
  rev,      \* revision of the published map
  home,     \* the home it was built from
  stale,    \* the coordinator refuses writes
  device,   \* what hass.states shows
  receipts, \* _receipts
  turn,     \* where each turn is, and its locals
  before    \* what its devices showed when it was submitted

vars == <<rev, home, stale, device, receipts, turn, before>>

Refused == {"profile_stale", "candidate_not_allowed", "invalid_parameters",
            "policy_denied", "confirmation_required", "batch_invalid",
            "batch_target_unavailable"}
Ended == {"execute_verified", "post_action_unverified", "execution_failed",
          "batch_execute_verified", "batch_partial_failure", "cancelled"}

Answers == [key : Refused \cup Ended \cup {"none"}, verified : Nat]
NoAnswer == [key |-> "none", verified |-> 0]

MaxBatch == 32

\* writes_allowed(revision), which profile_current asks.
WritesAllowed(r) == ~stale /\ rev = r

Homes == DOMAIN Registry

\* The CapabilityMap: targets are looked up in the published build.
Known(id) == IsTarget(Registry[home], id)
Target(id) == CoreTarget(Registry[home], id)

Available(t) == device[t.entity].state \notin {"unknown", "unavailable"}

-----------------------------------------------------------------------------
(* verify_operation, after a call that Home Assistant took.                 *)

ExpectedStates(op) ==
  CASE op = "turn_on" -> {"on", "playing"}
    [] op = "turn_off" -> {"off"}
    [] op = "play" -> {"playing"}
    [] op = "pause" -> {"paused"}
    [] op = "stop" -> {"idle", "off", "standby"}
    [] op = "lock" -> {"locked"}
    [] op = "unlock" -> {"unlocked"}
    [] op = "open_cover" -> {"open", "opening"}
    [] op = "close_cover" -> {"closed", "closing"}
    [] OTHER -> {}

Verified(t, parameters, was, shown) ==
  /\ shown.state \notin {"unknown", "unavailable"}
  /\ CASE ExpectedStates(t.operation) # {} ->
            shown.state \in ExpectedStates(t.operation)
       [] t.operation = "toggle" -> shown.state # was.state
       [] t.schema.type = "number" ->
            LET wanted == parameters[t.schema.name].size
            IN  wanted - shown.level \in -2 .. 2
       [] t.operation = "set_hvac_mode" ->
            shown.state = parameters["hvac_mode"].text
       [] OTHER -> FALSE

-----------------------------------------------------------------------------
(* The checks before the first call.                                        *)

SingleRefusal(p) ==
  LET id == p.ids[1]
      t  == Target(id)
  IN  IF ~WritesAllowed(p.rev) THEN "profile_stale"
      ELSE IF ~Known(id) THEN "candidate_not_allowed"
      ELSE IF <<t.domain, t.operation>> \notin Executable THEN "candidate_not_allowed"
      ELSE IF ~CoreAccepts(t.schema, p.parameters) THEN "invalid_parameters"
      ELSE IF t.risk = "blocked" THEN "policy_denied"
      ELSE IF t.risk = "confirm" /\ ~p.confirmed THEN "confirmation_required"
      ELSE "none"

\* What every member of a batch must be before any of them is called.
BatchMember(id) ==
  /\ Known(id)
  /\ Target(id).domain \in {"light", "switch", "fan"}
  /\ Target(id).operation \in {"turn_on", "turn_off"}
  /\ Target(id).risk = "routine"
  /\ CoreAccepts(Target(id).schema, << >>)
  /\ Available(Target(id))

BatchRefusal(p) ==
  LET N  == DOMAIN p.ids
  IN  IF Len(p.ids) \notin 1 .. MaxBatch THEN "batch_invalid"
      ELSE IF \E i, j \in N : i # j /\ p.ids[i] = p.ids[j] THEN "batch_invalid"
      ELSE IF ~WritesAllowed(p.rev) THEN "profile_stale"
      ELSE IF \E i \in N : ~BatchMember(p.ids[i]) THEN "batch_target_unavailable"
      ELSE IF \E i, j \in N :
            \/ i # j /\ Target(p.ids[i]).entity = Target(p.ids[j]).entity
            \/ Target(p.ids[i]).operation # Target(p.ids[j]).operation
        THEN "batch_invalid"
      ELSE "none"

Refusal(p) == IF p.batch THEN BatchRefusal(p) ELSE SingleRefusal(p)

\* The receipt key: parameters and revision are no part of it.
Key(p) == <<p.request, p.ids>>
Repeatable(p) == p.ids[1][2] # "toggle"
\* Mutant: a receipt is looked up by the request alone.
PriorByRequest(p) == {r \in receipts : r.key[1] = p.request /\ Repeatable(p)}
Prior(p) == {r \in receipts : r.key = Key(p) /\ Repeatable(p)}

-----------------------------------------------------------------------------
NoProposal == [request |-> "none", ids |-> << >>, batch |-> FALSE, rev |-> 0,
               confirmed |-> FALSE, parameters |-> << >>]

\* home: the map the targets were resolved in, at submission; pos: members of
\* the batch verified so far.  History: made counts the service calls, kept
\* says whether the turn left a receipt, settled which turns had done so when
\* this one was submitted.
NoTurn == [pc |-> "idle", p |-> NoProposal, home |-> "none", pos |-> 0,
           answer |-> NoAnswer, made |-> 0, kept |-> FALSE, settled |-> {}]

Init ==
  /\ rev = 0
  /\ home \in Homes
  /\ stale = FALSE
  /\ \E d \in [Devices -> UNION {DeviceStates[x] : x \in Devices}] :
       /\ \A x \in Devices : d[x] \in DeviceStates[x]
       /\ device = d
  /\ receipts = {}
  /\ turn = [t \in Turns |-> NoTurn]
  /\ before = [t \in Turns |-> << >>]

Settled == {u \in Turns : turn[u].pc = "answered" /\ turn[u].kept}

Submitted(p, pc, where, answer, made) ==
  [pc |-> pc, p |-> p, home |-> where, pos |-> 0, answer |-> answer,
   made |-> made, kept |-> FALSE, settled |-> Settled]

\* How p ends without a service call, if it does: refused, answered from its
\* receipt, or its target found unavailable (the members of a batch were
\* looked at before).
Declined(p) ==
  IF Refusal(p) # "none" THEN {[key |-> Refusal(p), verified |-> 0]}
  ELSE IF Prior(p) # {} THEN {r.answer : r \in Prior(p)}
  ELSE IF p.batch \/ Available(Target(p.ids[1])) THEN {}
  ELSE {[key |-> "candidate_not_allowed", verified |-> 0]}

Decline(t, p) ==
  /\ turn[t].pc = "idle"
  /\ \E answer \in Declined(p) :
       turn' = [turn EXCEPT ![t] = Submitted(p, "answered", "none", answer, 0)]
  /\ UNCHANGED <<rev, home, stale, device, receipts, before>>

\* Every check passed: the first service call is made.
Start(t, p) ==
  /\ turn[t].pc = "idle"
  /\ Declined(p) = {}
  /\ turn' = [turn EXCEPT ![t] = Submitted(p, "calling", home, NoAnswer, 1)]
  /\ before' = [before EXCEPT ![t] =
       [i \in DOMAIN p.ids |-> device[Target(p.ids[i]).entity]]]
  /\ UNCHANGED <<rev, home, stale, device, receipts>>

\* A single action that raised, and a turn that was cancelled, leave no receipt.
Recorded(p, key) == Repeatable(p) /\ key \notin {"execution_failed", "cancelled"}

\* Mutant: only a success is worth a receipt.
SettleSuccess(t, key, verified) ==
  LET p == turn[t].p
      answer == [key |-> key, verified |-> verified]
  IN /\ turn' = [turn EXCEPT ![t].pc = "answered", ![t].pos = verified,
                             ![t].answer = answer, ![t].kept = Recorded(p, key)]
     /\ receipts' =
          IF key \in {"execute_verified", "batch_execute_verified"}
            THEN {r \in receipts : r.key # Key(p)}
                   \cup {[key |-> Key(p), answer |-> answer]}
            ELSE receipts

\* The turn ends, with a receipt whether it succeeded or not.
Settle(t, key, verified) ==
  LET p == turn[t].p
      answer == [key |-> key, verified |-> verified]
  IN /\ turn' = [turn EXCEPT ![t].pc = "answered", ![t].pos = verified,
                             ![t].answer = answer, ![t].kept = Recorded(p, key)]
     /\ receipts' =
          IF Recorded(p, key)
            THEN {r \in receipts : r.key # Key(p)}
                   \cup {[key |-> Key(p), answer |-> answer]}
            ELSE receipts

\* The next call of the batch is made.
Proceed(t) ==
  /\ turn' = [turn EXCEPT ![t].pos = turn[t].pos + 1, ![t].made = turn[t].pos + 2]
  /\ UNCHANGED receipts

\* The i-th target of a turn, as it was resolved.
Resolved(t, i) == CoreTarget(Registry[turn[t].home], turn[t].p.ids[i])

Current(t) == Resolved(t, turn[t].pos + 1)

Holds(t) == Verified(Current(t), turn[t].p.parameters,
                     before[t][turn[t].pos + 1], device[Current(t).entity])

\* A single call has returned: its effect is read and reported.
SingleReturn(t) ==
  /\ turn[t].pc = "calling" /\ ~turn[t].p.batch
  /\ IF Holds(t) THEN Settle(t, "execute_verified", 1)
                 ELSE Settle(t, "post_action_unverified", 0)
  /\ UNCHANGED <<rev, home, stale, device, before>>

\* Mutant: only the first call of a batch asks whether writes are allowed.
BatchReturnUnchecked(t) ==
  LET p == turn[t].p
      done == turn[t].pos + 1
  IN /\ turn[t].pc = "calling" /\ p.batch
     /\ IF ~Holds(t) THEN Settle(t, "batch_partial_failure", turn[t].pos)
        ELSE IF done = Len(p.ids)
          THEN Settle(t, "batch_execute_verified", done)
        ELSE Proceed(t)
     /\ UNCHANGED <<rev, home, stale, device, before>>

\* Mutant: the call that failed is counted with those that did not.
BatchReturnMiscounted(t) ==
  LET p == turn[t].p
      done == turn[t].pos + 1
  IN /\ turn[t].pc = "calling" /\ p.batch
     /\ IF ~Holds(t) THEN Settle(t, "batch_partial_failure", done)
        ELSE IF done = Len(p.ids)
          THEN Settle(t, "batch_execute_verified", done)
        ELSE IF ~WritesAllowed(p.rev)
          THEN Settle(t, "batch_partial_failure", done)
        ELSE Proceed(t)
     /\ UNCHANGED <<rev, home, stale, device, before>>

\* A call of a batch has returned: stop at the first target that does not
\* show its effect, and ask again before the next call.
BatchReturn(t) ==
  LET p == turn[t].p
      done == turn[t].pos + 1
  IN /\ turn[t].pc = "calling" /\ p.batch
     /\ IF ~Holds(t) THEN Settle(t, "batch_partial_failure", turn[t].pos)
        ELSE IF done = Len(p.ids)
          THEN Settle(t, "batch_execute_verified", done)
        ELSE IF ~WritesAllowed(p.rev)
          THEN Settle(t, "batch_partial_failure", done)
        ELSE Proceed(t)
     /\ UNCHANGED <<rev, home, stale, device, before>>

\* Mutant: a failed batch is named as nothing else names it.
RaiseUnnamed(t) ==
  /\ turn[t].pc = "calling"
  /\ IF turn[t].p.batch
       THEN Settle(t, "batch_failed", turn[t].pos)
       ELSE Settle(t, "execution_failed", 0)
  /\ UNCHANGED <<rev, home, stale, device, before>>

\* The service call raised.  A batch leaves a receipt, a single action none.
Raise(t) ==
  /\ turn[t].pc = "calling"
  /\ IF turn[t].p.batch
       THEN Settle(t, "batch_partial_failure", turn[t].pos)
       ELSE Settle(t, "execution_failed", 0)
  /\ UNCHANGED <<rev, home, stale, device, before>>

\* The turn was cancelled where it awaits: no handler catches that.
Cancel(t) ==
  /\ turn[t].pc = "calling"
  /\ Settle(t, "cancelled", 0)
  /\ UNCHANGED <<rev, home, stale, device, before>>

-----------------------------------------------------------------------------
(* The coordinator and the devices, as far as the boundary sees them.       *)

Invalidate ==
  /\ ~stale
  /\ stale' = TRUE
  /\ UNCHANGED <<rev, home, device, receipts, turn, before>>

\* Another build under a revision of its own: the App derives it from the
\* time.  (ProfileSync has the one way in which a revision is used twice.)
Publish(h) ==
  /\ rev < MaxRevision
  /\ rev' = rev + 1
  /\ home' = h
  /\ stale' = FALSE
  /\ UNCHANGED <<device, receipts, turn, before>>

DeviceChange(d, s) ==
  /\ device[d] # s
  /\ device' = [device EXCEPT ![d] = s]
  /\ UNCHANGED <<rev, home, stale, receipts, turn, before>>

Next ==
  \/ \E t \in Turns, p \in Proposals : Decline(t, p) \/ Start(t, p)
  \/ \E t \in Turns : SingleReturn(t) \/ BatchReturn(t) \/ Raise(t) \/ Cancel(t)
  \/ Invalidate
  \/ \E h \in Homes : Publish(h)
  \/ \E d \in Devices : \E s \in DeviceStates[d] : DeviceChange(d, s)

Spec == Init /\ [][Next]_vars

-----------------------------------------------------------------------------
TypeOK ==
  /\ rev \in 0 .. MaxRevision
  /\ home \in Homes
  /\ stale \in BOOLEAN
  /\ device \in [Devices -> UNION {DeviceStates[d] : d \in Devices}]
  /\ \A r \in receipts : r.answer \in Answers
  /\ turn \in [Turns -> [pc : {"idle", "calling", "answered"},
                         p : Proposals \cup {NoProposal},
                         home : Homes \cup {"none"}, pos : Nat,
                         answer : Answers, made : Nat, kept : BOOLEAN,
                         settled : SUBSET Turns]]
  /\ \A t \in Turns : turn[t].pc = "calling" =>
       /\ turn[t].home \in Homes
       /\ turn[t].pos < Len(turn[t].p.ids)

(***************************************************************************)
(* Whenever a service call is made, the first of a turn or the thirty-     *)
(* second of its batch, the coordinator allows writes under the very       *)
(* revision the App decided on, the target is one of the map published     *)
(* now and not of the one the batch was resolved against, and what needs   *)
(* a confirmation has one.                                                 *)
(***************************************************************************)
Lawful(p, id, target) ==
  /\ WritesAllowed(p.rev)
  /\ Known(id) /\ target = Target(id)
  /\ target.risk = "confirm" => p.confirmed /\ ~p.batch

CallsAreLawful ==
  [][\A t \in Turns : turn'[t].made > turn[t].made =>
       LET u  == turn'[t]
           id == u.p.ids[u.made]
       IN  Lawful(u.p, id, CoreTarget(Registry[u.home], id))]_vars

(***************************************************************************)
(* A request that has left a receipt is never acted on again: a repeat of  *)
(* it makes no service call, and is answered as one of the earlier turns   *)
(* was, a failure included, or refused.  (A turn that raised, was          *)
(* cancelled, or is still running leaves nothing to replay.)               *)
(***************************************************************************)
RepeatsAreReplayed ==
  \A t \in Turns :
    LET same == {u \in turn[t].settled : Key(turn[u].p) = Key(turn[t].p)}
    IN  turn[t].pc # "idle" /\ same # {} =>
          /\ turn[t].made = 0
          /\ \/ turn[t].answer.key \in Refused
             \/ \E u \in same : turn[t].answer = turn[u].answer

(***************************************************************************)
(* The count a batch reports is the truth about a half-done batch: of the  *)
(* calls it made all were verified, except the last one at most; it claims *)
(* success exactly when every member was called and verified.              *)
(***************************************************************************)
BatchReportsAreHonest ==
  \A t \in Turns :
    LET n == turn[t].made
        verified == turn[t].answer.verified
    IN  (turn[t].pc = "answered" /\ turn[t].p.batch /\ n > 0
          /\ turn[t].answer.key # "cancelled") =>
          /\ verified \in {n, n - 1}
          /\ turn[t].answer.key = "batch_execute_verified"
               <=> verified = Len(turn[t].p.ids)

(***************************************************************************)
(* The boundary is a service ledger: each of its steps enters one call,    *)
(* one report or one dismissal in it, or leaves it alone.  In particular a *)
(* receipt that is there at the moment of the first call would have been   *)
(* found, and none is ever given for another request.                      *)
(***************************************************************************)
Page(u) ==
  [state |-> u.pc, request |-> Key(u.p), rev |-> u.p.rev,
   replays |-> u.pc # "idle" /\ Repeatable(u.p),
   calls |-> u.made, report |-> u.answer]

Ledger == INSTANCE ServiceLedger WITH
  Refusals <- Refused,
  Unrecorded <- {"execution_failed", "cancelled"},
  permitted <- {r \in {rev} : WritesAllowed(r)},
  page <- [t \in Turns |-> Page(turn[t])],
  book <- receipts

ImplementsLedger == Ledger!Spec
=============================================================================
