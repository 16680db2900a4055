----------------------------- MODULE Continuation -----------------------------
(***************************************************************************)
(* Follow-up turns: the conversation entity of the integration, its store  *)
(* of pending questions, and the App's memory of the requests it answered  *)
(* (custom_components/ha_switchboard/conversation.py and                   *)
(* conversation_context.py; Gateway.process and _remember in               *)
(* app/ha_switchboard/gateway.py).                                         *)
(*                                                                         *)
(* Every message is handled by a coroutine of its own, a turn, which       *)
(* awaits the native intents and then the App.  The turn's name stands     *)
(* for the request_id it mints and for the utterance, which always travel  *)
(* together.  The profile matters only by its revision; what the decision  *)
(* service makes of an utterance is left open.                             *)
(***************************************************************************)
EXTENDS Naturals, SequencesExt

CONSTANTS
  Turns,         \* messages in a behaviour
  Conversations,
  Users,
  Capabilities,
  Risky,         \* capabilities that need a confirmation
  Nothing,       \* no capability, no question, no profile revision yet
  MaxPending,    \* max_entries of the store
  MaxRevision    \* bound: reconciliations in a behaviour

ASSUME RiskyAssumption == Risky \subseteq Capabilities
ASSUME NothingAssumption == Nothing \notin Turns \cup Capabilities \cup Nat
ASSUME BoundAssumption == MaxPending \in Nat \ {0} /\ MaxRevision \in Nat

VARIABLES
  turn,     \* where each turn is, with its request and its result
  pending,  \* the store, oldest entry first
  seen,     \* _seen_requests: the answer given to each request_id
  revision  \* the current profile revision

vars == <<turn, pending, seen, revision>>

Says == {"yes", "no", "choice", "other"}

Answer == [key : {"execute", "confirm", "clarify", "refuse"},
           cap : Capabilities \cup {Nothing}]
NoAnswer == [key |-> "refuse", cap |-> Nothing]

Turn ==
  [at : {"unused", "native", "gateway", "answered", "done"},
   conv : Conversations \cup {Nothing},
   user : Users \cup {Nothing},
   says : Says,
   req : Turns \cup {Nothing},      \* request_id and utterance it sends
   rev : Nat \cup {Nothing},
   confirmed : BOOLEAN,             \* sanitized_state.confirmation
   question : Turns \cup {Nothing}, \* the turn whose question it answers
   agreed : Capabilities \cup {Nothing}, \* what that question was about
   answer : Answer,
   wrote : Capabilities \cup {Nothing}]

Unused ==
  [at |-> "unused", conv |-> Nothing, user |-> Nothing, says |-> "other",
   req |-> Nothing, rev |-> Nothing, confirmed |-> FALSE, question |-> Nothing,
   agreed |-> Nothing, answer |-> NoAnswer, wrote |-> Nothing]

\* PendingConversation; offer: the request kept in it has candidates.
Pending ==
  [conv : Conversations, user : Users, kind : {"confirmation", "clarification"},
   req : Turns, rev : Nat \cup {Nothing}, offer : BOOLEAN, question : Turns,
   cap : Capabilities \cup {Nothing}]

TypeOK ==
  /\ turn \in [Turns -> Turn]
  /\ pending \in Seq(Pending)
  /\ Len(pending) <= MaxPending
  /\ \A i, j \in DOMAIN pending : pending[i].conv = pending[j].conv => i = j
  /\ seen \in [Turns -> Answer \cup {Nothing}]
  /\ revision \in Nat

Init ==
  /\ turn = [t \in Turns |-> Unused]
  /\ pending = <<>>
  /\ seen = [t \in Turns |-> Nothing]
  /\ revision = 0

-----------------------------------------------------------------------------
(* ConversationContextStore.                                               *)

Kept == {pending[i] : i \in DOMAIN pending}

\* Mutant: the entry is found by its conversation alone.
PeekAnyUser(c, u) == {p \in Kept : p.conv = c}

\* peek: the conversation's entry, if it is the user's.
Peek(c, u) == {p \in Kept : p.conv = c /\ p.user = u}

\* consume, clear: a conversation has one entry at most.
Without(c) ==
  LET at == {i \in DOMAIN pending : pending[i].conv = c}
  IN  IF at = {} THEN pending ELSE RemoveAt(pending, CHOOSE i \in at : TRUE)

\* Mutant: nothing is dropped when the store is full.
PutUnbounded(p) == pending' = Append(Without(p.conv), p)

\* put: replaces the conversation's entry, or drops the oldest when full.
Put(p) ==
  LET others == Without(p.conv)
      full == others = pending /\ Len(pending) >= MaxPending
  IN  pending' = Append(IF full THEN Tail(pending) ELSE others, p)

\* Every entry lives equally long, so the oldest is the first to expire.
Expire ==
  /\ pending # <<>>
  /\ pending' = Tail(pending)
  /\ UNCHANGED <<turn, seen, revision>>

-----------------------------------------------------------------------------
(* _async_handle_message up to its first await.                            *)

\* What is said matters only as a reply; anything else is "other".
Hears(t, c, u, says, at, question, answer) ==
  [at |-> at, conv |-> c, user |-> u, says |-> says, req |-> t, rev |-> Nothing,
   confirmed |-> FALSE, question |-> question, agreed |-> Nothing,
   answer |-> answer, wrote |-> Nothing]

Becomes(t, new) == turn' = [turn EXCEPT ![t] = new]

Asked(c, u, kind) == {p \in Peek(c, u) : p.kind = kind}

\* Nothing is pending: the native intents are asked first.
NewRequest(t, c, u) ==
  /\ turn[t].at = "unused"
  /\ Peek(c, u) = {}
  /\ Becomes(t, Hears(t, c, u, "other", "native", Nothing, NoAnswer))
  /\ UNCHANGED <<pending, seen, revision>>

\* The kept request goes out again, under its old request_id.  If it has no
\* revision, request_context supplies the current one.
Resume(t, u, p, says, confirmed) ==
  Becomes(t, [at |-> "gateway", conv |-> p.conv, user |-> u, says |-> says,
              req |-> p.req, rev |-> IF p.rev = Nothing THEN revision ELSE p.rev,
              confirmed |-> confirmed, question |-> p.question, agreed |-> p.cap,
              answer |-> NoAnswer, wrote |-> Nothing])

\* Mutant: the question stays in the store.
ConfirmKept(t, c, u) ==
  /\ turn[t].at = "unused"
  /\ \E p \in Asked(c, u, "confirmation") : Resume(t, u, p, "yes", TRUE)
  /\ UNCHANGED <<pending, seen, revision>>

\* "yes": consumed before the App is called.
Confirm(t, c, u) ==
  /\ turn[t].at = "unused"
  /\ \E p \in Asked(c, u, "confirmation") : Resume(t, u, p, "yes", TRUE)
  /\ pending' = Without(c)
  /\ UNCHANGED <<seen, revision>>

\* "no"
Cancel(t, c, u) ==
  /\ turn[t].at = "unused"
  /\ \E p \in Asked(c, u, "confirmation") :
       Becomes(t, Hears(t, c, u, "no", "done", p.question, NoAnswer))
  /\ pending' = Without(c)
  /\ UNCHANGED <<seen, revision>>

\* A number or name that was offered.
Choose(t, c, u) ==
  /\ turn[t].at = "unused"
  /\ \E p \in Asked(c, u, "clarification") :
       p.offer /\ Resume(t, u, p, "choice", FALSE)
  /\ pending' = Without(c)
  /\ UNCHANGED <<seen, revision>>

\* Any other reply: the question is asked again, without the App, and what
\* is kept for the next reply is the request made of this one.
Repeat(t, c, u) ==
  /\ turn[t].at = "unused"
  /\ \E p \in Peek(c, u) :
       LET key == IF p.kind = "confirmation" THEN "confirm" ELSE "clarify" IN
       /\ Becomes(t, Hears(t, c, u, "other", "done", Nothing,
                           [key |-> key, cap |-> p.cap]))
       /\ Put([conv |-> c, user |-> u, kind |-> p.kind, req |-> t,
               rev |-> Nothing, offer |-> FALSE, question |-> t, cap |-> p.cap])
  /\ UNCHANGED <<seen, revision>>

-----------------------------------------------------------------------------
(* The native intents, the App, and the way back.                          *)

\* Home Assistant handled it, or read_only_answer did.
Local(t) ==
  /\ turn[t].at = "native"
  /\ Becomes(t, [turn[t] EXCEPT !.at = "done"])
  /\ UNCHANGED <<pending, seen, revision>>

Send(t) ==
  /\ turn[t].at = "native"
  /\ Becomes(t, [turn[t] EXCEPT !.at = "gateway", !.rev = revision])
  /\ UNCHANGED <<pending, seen, revision>>

\* evaluate_capability, for a capability that is allowed at all.
Policy(c, confirmed) ==
  [key |-> IF c \in Risky /\ ~confirmed THEN "confirm" ELSE "execute", cap |-> c]

\* What Gateway.process may decide when it has not seen the request.
Decisions(r) ==
  {[key |-> "refuse", cap |-> Nothing]} \cup
  IF r.rev # revision
    THEN {}
    ELSE {[key |-> "clarify", cap |-> Nothing]}
           \cup {Policy(c, r.confirmed) : c \in Capabilities}

\* Gateway.process: a request_id it remembers gets the answer it got before.
\* (A request_id is never sent again while its first answer is outstanding,
\* and 1,024 are remembered, more than the rate limit lets through while a
\* question is pending.)
Decide(t) ==
  /\ turn[t].at = "gateway"
  /\ \E a \in IF seen[turn[t].req] # Nothing
                THEN {seen[turn[t].req]} ELSE Decisions(turn[t]) :
       /\ Becomes(t, [turn[t] EXCEPT !.at = "answered", !.answer = a])
       /\ seen' = [seen EXCEPT ![turn[t].req] = a]
  /\ UNCHANGED <<pending, revision>>

\* GatewayClientError: refused or too late; the turn answers by itself.
ClientFails(t) ==
  /\ turn[t].at = "gateway"
  /\ Becomes(t, [turn[t] EXCEPT !.at = "done"])
  /\ UNCHANGED <<pending, seen, revision>>

Ask(t, kind, cap) ==
  Put([conv |-> turn[t].conv, user |-> turn[t].user, kind |-> kind,
       req |-> turn[t].req, rev |-> turn[t].rev, offer |-> TRUE,
       question |-> t, cap |-> cap])

AskConfirmation(t, cap) ==
  /\ Becomes(t, [turn[t] EXCEPT !.at = "done",
                                !.answer = [key |-> "confirm", cap |-> cap]])
  /\ Ask(t, "confirmation", cap)

\* execute_proposal: revision and writes_allowed, the Core's own view of the
\* risk, and the service call, with nothing awaited before the call is made.
Execute(t) ==
  /\ turn[t].answer.key = "execute"
  /\ LET cap == turn[t].answer.cap IN
       \/ /\ Becomes(t, [turn[t] EXCEPT !.at = "done"])  \* profile_stale
          /\ UNCHANGED pending
       \/ /\ turn[t].rev = revision
          /\ cap \in Risky => turn[t].confirmed
          /\ Becomes(t, [turn[t] EXCEPT !.at = "done", !.wrote = cap])
          /\ UNCHANGED pending
       \/ /\ turn[t].rev = revision
          /\ cap \in Risky /\ ~turn[t].confirmed
          /\ AskConfirmation(t, cap)

\* The App's answer arrives; a question in it is put in the store.
Receive(t) ==
  /\ turn[t].at = "answered"
  /\ \/ Execute(t)
     \/ /\ turn[t].answer.key = "confirm"
        /\ AskConfirmation(t, turn[t].answer.cap)
     \/ /\ turn[t].answer.key = "clarify"
        /\ Becomes(t, [turn[t] EXCEPT !.at = "done"])
        /\ Ask(t, "clarification", Nothing)
     \/ /\ turn[t].answer.key = "refuse"
        /\ Becomes(t, [turn[t] EXCEPT !.at = "done"])
        /\ UNCHANGED pending
  /\ UNCHANGED <<seen, revision>>

-----------------------------------------------------------------------------
\* Core and App agree on a new profile.
Reconcile ==
  /\ revision < MaxRevision
  /\ revision' = revision + 1
  /\ UNCHANGED <<turn, pending, seen>>

\* The App restarts: it remembers no request, and its restored profile stays
\* stale until a reconciliation gives it a new revision.
AppRestart ==
  /\ revision < MaxRevision
  /\ revision' = revision + 1
  /\ seen' = [t \in Turns |-> Nothing]
  /\ UNCHANGED <<turn, pending>>

Message(t) ==
  \E c \in Conversations, u \in Users :
    \/ Confirm(t, c, u)
    \/ Cancel(t, c, u)
    \/ Choose(t, c, u)
    \/ NewRequest(t, c, u)
    \/ Repeat(t, c, u)

Continue(t) ==
  \/ Local(t)
  \/ Send(t)
  \/ Decide(t)
  \/ ClientFails(t)
  \/ Receive(t)

Next ==
  \/ \E t \in Turns : Message(t) \/ Continue(t)
  \/ Expire
  \/ Reconcile
  \/ AppRestart

Spec == Init /\ [][Next]_vars

-----------------------------------------------------------------------------
(***************************************************************************)
(* A question is answered once, however many turns of the conversation run *)
(* at the same time and whatever the App makes of them.                    *)
(***************************************************************************)
OneAnswerPerQuestion ==
  \A t1, t2 \in Turns :
    turn[t1].question # Nothing /\ turn[t1].question = turn[t2].question => t1 = t2

(***************************************************************************)
(* A risky capability is called only for a "yes" to a confirmation that    *)
(* was asked of this user in this conversation, through replays, restarts, *)
(* concurrent turns and evictions from the store.                          *)
(***************************************************************************)
RiskyWritesAreConfirmed ==
  \A t \in Turns : turn[t].wrote \in Risky =>
    /\ turn[t].says = "yes"
    /\ turn[t].question \in Turns
    /\ LET asker == turn[turn[t].question] IN
         /\ asker.answer.key = "confirm"
         /\ asker.conv = turn[t].conv
         /\ asker.user = turn[t].user

(***************************************************************************)
(* "Say yes to continue": a "yes" is not answered by the same question.    *)
(***************************************************************************)
YesIsNotAskedAgain ==
  \A t \in Turns : turn[t].confirmed /\ turn[t].at = "done"
                     => turn[t].answer.key # "confirm"

(***************************************************************************)
(* "This action needs your confirmation": what a "yes" leads to is the     *)
(* action the question was about.                                          *)
(***************************************************************************)
ConfirmsWhatWasAsked ==
  \A t \in Turns : turn[t].wrote \in Risky => turn[t].wrote = turn[t].agreed
=============================================================================
