--------------------------- MODULE Execution_proofs ---------------------------
(***************************************************************************)
(* Theorems about Execution, for any homes, proposals, turns and devices.  *)
(***************************************************************************)
EXTENDS Execution, TLAPS

(***************************************************************************)
(* What types alone do not say of a turn.  One that has a call under way   *)
(* has made exactly one call more than it has verified; a batch that has   *)
(* called anything and was not cancelled reports what it has verified.     *)
(***************************************************************************)
CallUnderWay(u) ==
  u.pc = "calling" => u.p \in Proposals /\ u.made = u.pos + 1

HonestBatch(u) ==
  (u.pc = "answered" /\ u.p.batch /\ u.made > 0
    /\ u.answer.key # "cancelled") =>
    /\ u.answer.verified \in {u.made, u.made - 1}
    /\ u.answer.key = "batch_execute_verified"
         <=> u.answer.verified = Len(u.p.ids)

TypeInv ==
  /\ TypeOK
  /\ \A t \in Turns : CallUnderWay(turn[t]) /\ HonestBatch(turn[t])

-----------------------------------------------------------------------------
(* The steps of a turn, as all the invariants below see them: after a call *)
(* returns, the turn ends or makes its next call.                          *)

EndsWith(t, key, verified) ==
  /\ turn[t].pc = "calling"
  /\ Settle(t, key, verified)
  /\ key # "cancelled" => verified \in {turn[t].made, turn[t].made - 1}
  /\ turn[t].p.batch /\ key # "cancelled" =>
       (key = "batch_execute_verified" <=> verified = Len(turn[t].p.ids))
  /\ UNCHANGED <<rev, home, stale, device, before>>

Ends(t) == \E key \in Ended, verified \in Nat : EndsWith(t, key, verified)

Continues(t) ==
  /\ turn[t].pc = "calling"
  /\ turn[t].p.batch
  /\ turn[t].pos + 1 < Len(turn[t].p.ids)
  /\ WritesAllowed(turn[t].p.rev)
  /\ Proceed(t)
  /\ UNCHANGED <<rev, home, stale, device, before>>

LEMMA LengthsAreNatural ==
  \A p \in Proposals : Len(p.ids) \in Nat /\ DOMAIN p.ids = 1 .. Len(p.ids)
  BY ProposalsAssumption

LEMMA ReturnEndsOrContinues ==
  ASSUME TypeInv, NEW t \in Turns,
         SingleReturn(t) \/ BatchReturn(t) \/ Raise(t) \/ Cancel(t)
  PROVE  Ends(t) \/ Continues(t)
  <1>1. /\ turn[t].p \in Proposals
        /\ turn[t].pos \in Nat
        /\ turn[t].pos < Len(turn[t].p.ids)
        /\ turn[t].made = turn[t].pos + 1
        /\ Len(turn[t].p.ids) \in Nat
        /\ turn[t].pc = "calling"
        /\ ~turn[t].p.batch => turn[t].pos = 0
    <2>1. \A p \in Proposals : ~p.batch => Len(p.ids) = 1
      BY ProposalsAssumption
    <2>2. /\ turn[t].p \in Proposals
          /\ turn[t].pos \in Nat
          /\ turn[t].pos < Len(turn[t].p.ids)
          /\ turn[t].made = turn[t].pos + 1
          /\ Len(turn[t].p.ids) \in Nat
          /\ turn[t].pc = "calling"
      BY LengthsAreNatural
      DEF TypeInv, TypeOK, CallUnderWay, SingleReturn, BatchReturn, Raise, Cancel
    <2>3. ASSUME ~turn[t].p.batch PROVE turn[t].pos = 0
      <3>1. Len(turn[t].p.ids) = 1
        BY <2>1, <2>2, <2>3
      <3>2. QED
        BY <2>2, <3>1
    <2>4. QED
      BY <2>2, <2>3
  <1>2. {"execute_verified", "post_action_unverified", "execution_failed",
         "batch_execute_verified", "batch_partial_failure", "cancelled"}
          \subseteq Ended
    BY DEF Ended
  <1>3. CASE SingleReturn(t)
    <2>1. \/ EndsWith(t, "execute_verified", 1)
          \/ EndsWith(t, "post_action_unverified", 0)
      BY <1>1, <1>3 DEF SingleReturn, EndsWith
    <2>2. QED
      BY <1>2, <2>1 DEF Ends
  <1>4. CASE BatchReturn(t)
    <2>1. CASE ~Holds(t)
      <3>1. EndsWith(t, "batch_partial_failure", turn[t].pos)
        BY <1>1, <1>4, <2>1 DEF BatchReturn, EndsWith
      <3>2. QED
        BY <1>1, <1>2, <3>1 DEF Ends
    <2>2. CASE Holds(t) /\ turn[t].pos + 1 = Len(turn[t].p.ids)
      <3>1. EndsWith(t, "batch_execute_verified", turn[t].pos + 1)
        BY <1>1, <1>4, <2>2 DEF BatchReturn, EndsWith
      <3>2. QED
        BY <1>1, <1>2, <3>1 DEF Ends
    <2>3. CASE /\ Holds(t)
               /\ turn[t].pos + 1 # Len(turn[t].p.ids)
               /\ ~WritesAllowed(turn[t].p.rev)
      <3>1. EndsWith(t, "batch_partial_failure", turn[t].pos + 1)
        BY <1>1, <1>4, <2>3 DEF BatchReturn, EndsWith
      <3>2. QED
        BY <1>1, <1>2, <3>1 DEF Ends
    <2>4. CASE /\ Holds(t)
               /\ turn[t].pos + 1 # Len(turn[t].p.ids)
               /\ WritesAllowed(turn[t].p.rev)
      BY <1>1, <1>4, <2>4 DEF BatchReturn, Continues
    <2>5. QED
      BY <2>1, <2>2, <2>3, <2>4
  <1>5. CASE Raise(t)
    <2>1. \/ EndsWith(t, "batch_partial_failure", turn[t].pos)
          \/ EndsWith(t, "execution_failed", 0)
      BY <1>1, <1>5 DEF Raise, EndsWith
    <2>2. QED
      BY <1>1, <1>2, <2>1 DEF Ends
  <1>6. CASE Cancel(t)
    <2>1. EndsWith(t, "cancelled", 0)
      BY <1>1, <1>6 DEF Cancel, EndsWith
    <2>2. QED
      BY <1>2, <2>1 DEF Ends
  <1>7. QED
    BY <1>3, <1>4, <1>5, <1>6

(***************************************************************************)
(* A turn after it has ended, and after its next call.                     *)
(***************************************************************************)
TurnType ==
  [pc : {"idle", "calling", "answered"}, p : Proposals \cup {NoProposal},
   home : Homes \cup {"none"}, pos : Nat, answer : Answers, made : Nat,
   kept : BOOLEAN, settled : SUBSET Turns]

LEMMA TurnsTyped == TypeOK => turn \in [Turns -> TurnType]
  BY DEF TypeOK, TurnType

LEMMA SettledTurn ==
  ASSUME TypeOK, NEW t \in Turns, NEW key \in Ended, NEW verified \in Nat,
         Settle(t, key, verified)
  PROVE  /\ turn' \in [Turns -> TurnType]
         /\ \A u \in Turns \ {t} : turn'[u] = turn[u]
         /\ turn'[t].pc = "answered"
         /\ turn'[t].p = turn[t].p
         /\ turn'[t].answer = [key |-> key, verified |-> verified]
         /\ turn'[t].made = turn[t].made
         /\ turn'[t].kept = Recorded(turn[t].p, key)
         /\ turn'[t].settled = turn[t].settled
  <1> DEFINE answer == [key |-> key, verified |-> verified]
             kept   == Recorded(turn[t].p, key)
  <1>1. answer \in Answers /\ kept \in BOOLEAN
    BY DEF Answers, Recorded, Repeatable
  <1>2. turn \in [Turns -> TurnType]
    BY TurnsTyped
  <1>3. turn' = [turn EXCEPT ![t].pc = "answered", ![t].pos = verified,
                             ![t].answer = answer, ![t].kept = kept]
    BY Zenon DEF Settle
  <1> HIDE DEF answer, kept
  <1>4. \A u \in Turns \ {t} : turn'[u] = turn[u]
    BY <1>2, <1>3 DEF TurnType
  <1>5. turn'[t] = [turn[t] EXCEPT !.pc = "answered", !.pos = verified,
                                   !.answer = answer, !.kept = kept]
    BY <1>2, <1>3 DEF TurnType
  <1>6. turn[t] \in TurnType
    BY <1>2
  <1>7. turn'[t] \in TurnType
    BY <1>1, <1>5, <1>6 DEF TurnType
  <1>8. /\ turn'[t].pc = "answered"
        /\ turn'[t].answer = answer
        /\ turn'[t].kept = kept
    BY <1>5, <1>6 DEF TurnType
  <1>9. /\ turn'[t].p = turn[t].p
        /\ turn'[t].made = turn[t].made
        /\ turn'[t].settled = turn[t].settled
    BY <1>5, <1>6 DEF TurnType
  <1>10. turn' \in [Turns -> TurnType]
    BY <1>2, <1>3, <1>4, <1>7
  <1>11. QED
    BY <1>4, <1>8, <1>9, <1>10 DEF answer, kept

LEMMA ProceededTurn ==
  ASSUME TypeOK, NEW t \in Turns, Proceed(t)
  PROVE  /\ turn' \in [Turns -> TurnType]
         /\ \A u \in Turns \ {t} : turn'[u] = turn[u]
         /\ turn'[t].pc = turn[t].pc
         /\ turn'[t].p = turn[t].p
         /\ turn'[t].home = turn[t].home
         /\ turn'[t].pos = turn[t].pos + 1
         /\ turn'[t].made = turn[t].pos + 2
         /\ turn'[t].settled = turn[t].settled
  <1>1. turn \in [Turns -> TurnType]
    BY TurnsTyped
  <1> DEFINE pos  == turn[t].pos + 1
             made == turn[t].pos + 2
  <1>2. turn' = [turn EXCEPT ![t].pos = pos, ![t].made = made]
    BY Zenon DEF Proceed
  <1>3. pos \in Nat /\ made \in Nat
    <2>1. turn[t].pos \in Nat
      BY <1>1 DEF TurnType
    <2>2. QED
      BY <2>1
  <1> HIDE DEF pos, made
  <1>4. \A u \in Turns \ {t} : turn'[u] = turn[u]
    BY <1>1, <1>2 DEF TurnType
  <1>5. turn'[t] = [turn[t] EXCEPT !.pos = pos, !.made = made]
    BY <1>1, <1>2 DEF TurnType
  <1>6. turn[t] \in TurnType
    BY <1>1
  <1>7. turn'[t] \in TurnType
    BY <1>3, <1>5, <1>6 DEF TurnType
  <1>8. turn'[t].pos = pos /\ turn'[t].made = made
    BY <1>5, <1>6 DEF TurnType
  <1>9. /\ turn'[t].pc = turn[t].pc
        /\ turn'[t].p = turn[t].p
        /\ turn'[t].home = turn[t].home
        /\ turn'[t].settled = turn[t].settled
    BY <1>5, <1>6 DEF TurnType
  <1>10. turn' \in [Turns -> TurnType]
    BY <1>1, <1>2, <1>4, <1>7
  <1>11. QED
    BY <1>4, <1>8, <1>9, <1>10 DEF pos, made

(***************************************************************************)
(* The first step of a turn: it is refused or answered at once, or its     *)
(* first call is made.                                                     *)
(***************************************************************************)
LEMMA NoTurnTyped == NoTurn \in TurnType
  BY DEF NoTurn, TurnType, Answers, NoAnswer

LEMMA DeclinedAnswer ==
  ASSUME TypeOK, NEW p \in Proposals, NEW answer \in Declined(p)
  PROVE  answer \in Answers
  <1>1. Refusal(p) \in Refused \cup {"none"}
    BY DEF Refusal, SingleRefusal, BatchRefusal, Refused
  <1>2. CASE Refusal(p) # "none"
    BY <1>1, <1>2 DEF Declined, Answers
  <1>3. CASE Refusal(p) = "none" /\ Prior(p) # {}
    BY <1>3 DEF Declined, Prior, TypeOK
  <1>4. CASE Refusal(p) = "none" /\ Prior(p) = {}
    BY <1>4 DEF Declined, Answers, Refused
  <1>5. QED
    BY <1>2, <1>3, <1>4

LEMMA SubmittedTurn ==
  ASSUME NEW p, NEW step, NEW where, NEW answer, NEW made, NEW u,
         u = Submitted(p, step, where, answer, made)
  PROVE  /\ u.pc = step
         /\ u.p = p
         /\ u.home = where
         /\ u.pos = 0
         /\ u.answer = answer
         /\ u.made = made
         /\ ~u.kept
         /\ u.settled = Settled
  BY DEF Submitted

LEMMA DeclinedTurn ==
  ASSUME TypeOK, NEW t \in Turns, NEW p \in Proposals, Decline(t, p)
  PROVE  /\ turn' \in [Turns -> TurnType]
         /\ \A u \in Turns \ {t} : turn'[u] = turn[u]
         /\ turn'[t].pc = "answered"
         /\ turn'[t].p = p
         /\ turn'[t].answer \in Declined(p)
         /\ turn'[t].made = 0
         /\ ~turn'[t].kept
         /\ turn'[t].settled = Settled
  <1>1. PICK answer \in Declined(p) :
          turn' = [turn EXCEPT ![t] = Submitted(p, "answered", "none", answer, 0)]
    BY Zenon DEF Decline
  <1>2. answer \in Answers
    BY DeclinedAnswer
  <1> DEFINE new == Submitted(p, "answered", "none", answer, 0)
  <1>3. new \in TurnType
    BY <1>2 DEF TurnType, Submitted, Settled
  <1> HIDE DEF new
  <1>4. turn \in [Turns -> TurnType]
    BY TurnsTyped
  <1>5. turn' \in [Turns -> TurnType]
    BY <1>1, <1>3, <1>4 DEF new
  <1>6. \A u \in Turns \ {t} : turn'[u] = turn[u]
    BY <1>1, <1>4 DEF new
  <1>7. turn'[t] = Submitted(p, "answered", "none", answer, 0)
    BY <1>1, <1>4 DEF new
  <1>8. /\ turn'[t].pc = "answered"
        /\ turn'[t].p = p
        /\ turn'[t].answer = answer
        /\ turn'[t].made = 0
        /\ turn'[t].settled = Settled
    BY <1>7 DEF Submitted
  <1>9. ~turn'[t].kept
    BY <1>7, SubmittedTurn
  <1>10. QED
    BY <1>5, <1>6, <1>8, <1>9

LEMMA StartedTurn ==
  ASSUME TypeOK, NEW t \in Turns, NEW p \in Proposals, Start(t, p)
  PROVE  /\ turn' \in [Turns -> TurnType]
         /\ \A u \in Turns \ {t} : turn'[u] = turn[u]
         /\ turn'[t].pc = "calling"
         /\ turn'[t].p = p
         /\ turn'[t].home = home
         /\ turn'[t].pos = 0
         /\ turn'[t].made = 1
         /\ turn'[t].settled = Settled
  <1> DEFINE new == Submitted(p, "calling", home, NoAnswer, 1)
  <1>1. turn' = [turn EXCEPT ![t] = new]
    BY Zenon DEF Start
  <1>2. new \in TurnType
    BY DEF TurnType, Submitted, Settled, TypeOK, NoAnswer, Answers
  <1> HIDE DEF new
  <1>3. turn \in [Turns -> TurnType]
    BY TurnsTyped
  <1>4. turn' \in [Turns -> TurnType]
    BY <1>1, <1>2, <1>3
  <1>5. turn'[t] = new /\ \A u \in Turns \ {t} : turn'[u] = turn[u]
    BY <1>1, <1>3
  <1>6. QED
    BY <1>4, <1>5 DEF new, Submitted

-----------------------------------------------------------------------------
(* What passing the checks means for a proposal.                           *)
LEMMA Admission ==
  ASSUME NEW p \in Proposals, Declined(p) = {}
  PROVE  /\ Prior(p) = {}
         /\ Len(p.ids) > 0
         /\ WritesAllowed(p.rev)
         /\ \A i \in DOMAIN p.ids :
              /\ Known(p.ids[i])
              /\ Target(p.ids[i]).risk = "confirm" => p.confirmed /\ ~p.batch
  <1>1. Refusal(p) = "none" /\ Prior(p) = {}
    BY DEF Declined
  <1>2. /\ p.batch \in BOOLEAN /\ p.confirmed \in BOOLEAN
        /\ Len(p.ids) \in Nat /\ DOMAIN p.ids = 1 .. Len(p.ids)
        /\ ~p.batch => Len(p.ids) = 1
    BY ProposalsAssumption, LengthsAreNatural
  <1>3. CASE p.batch
    <2>1. BatchRefusal(p) = "none"
      BY <1>1, <1>3 DEF Refusal
    <2>2. Len(p.ids) \in 1 .. MaxBatch /\ WritesAllowed(p.rev)
      BY <2>1 DEF BatchRefusal
    <2>3. \A i \in DOMAIN p.ids : BatchMember(p.ids[i])
      BY <2>1 DEF BatchRefusal
    <2>4. \A i \in DOMAIN p.ids :
            Known(p.ids[i]) /\ Target(p.ids[i]).risk = "routine"
      BY <2>3 DEF BatchMember
    <2>5. Len(p.ids) > 0
      <3>1. \A n \in 1 .. 32 : n > 0
        OBVIOUS
      <3>2. Len(p.ids) \in 1 .. 32
        BY <2>2 DEF MaxBatch
      <3>3. QED
        BY <3>1, <3>2, Zenon
    <2>6. \A i \in DOMAIN p.ids : Target(p.ids[i]).risk # "confirm"
      BY <2>4
    <2>7. QED
      BY <1>1, <2>2, <2>4, <2>5, <2>6
  <1>4. CASE ~p.batch
    <2>1. SingleRefusal(p) = "none"
      BY <1>1, <1>4 DEF Refusal
    <2>2. /\ WritesAllowed(p.rev)
          /\ Known(p.ids[1])
          /\ ~(Target(p.ids[1]).risk = "confirm" /\ ~p.confirmed)
      BY <2>1 DEF SingleRefusal
    <2>3. Len(p.ids) = 1
      BY <1>2, <1>4, Zenon
    <2>4. \A i \in DOMAIN p.ids : i = 1
      BY <2>3, LengthsAreNatural
    <2>5. Len(p.ids) > 0
      BY <2>3
    <2>6. QED
      BY <1>1, <1>2, <1>4, <2>2, <2>4, <2>5
  <1>5. QED
    BY <1>2, <1>3, <1>4

-----------------------------------------------------------------------------
(***************************************************************************)
(* Types, and what a turn knows of its own calls.                          *)
(***************************************************************************)
LEMMA InitTyped == Init => TypeInv
  <1> SUFFICES ASSUME Init PROVE TypeInv
    OBVIOUS
  <1>1. turn \in [Turns -> TurnType] /\ \A t \in Turns : turn[t].pc = "idle"
    BY NoTurnTyped DEF Init, NoTurn
  <1>2. device \in [Devices -> UNION {DeviceStates[d] : d \in Devices}]
    BY DEF Init
  <1>3. /\ rev \in 0 .. MaxRevision
        /\ home \in Homes
        /\ stale \in BOOLEAN
        /\ receipts = {}
    <2>1. rev \in 0 .. MaxRevision
      BY RevisionAssumption DEF Init
    <2>2. QED
      BY <2>1 DEF Init
  <1>4. TypeOK
    BY <1>1, <1>2, <1>3 DEF TypeOK, TurnType
  <1>5. QED
    BY <1>1, <1>4 DEF TypeInv, CallUnderWay, HonestBatch

(* A step of one turn, and a step of none.                                 *)
LEMMA TurnStepTyped ==
  ASSUME TypeInv, NEW t \in Turns,
         turn' \in [Turns -> TurnType],
         \A u \in Turns \ {t} : turn'[u] = turn[u],
         turn'[t].pc = "calling" => /\ turn'[t].home \in Homes
                                    /\ turn'[t].pos < Len(turn'[t].p.ids),
         CallUnderWay(turn'[t]),
         HonestBatch(turn'[t]),
         \A r \in receipts' : r.answer \in Answers,
         UNCHANGED <<rev, home, stale, device>>
  PROVE  TypeInv'
  <1>1. \A u \in Turns : turn'[u].pc = "calling" =>
          turn'[u].home \in Homes /\ turn'[u].pos < Len(turn'[u].p.ids)
    BY DEF TypeInv, TypeOK
  <1>2. TypeOK'
    BY <1>1 DEF TypeInv, TypeOK, TurnType
  <1>3. \A u \in Turns : CallUnderWay(turn'[u]) /\ HonestBatch(turn'[u])
    BY DEF TypeInv
  <1>4. QED
    BY <1>2, <1>3 DEF TypeInv

LEMMA WorldStepTyped ==
  ASSUME TypeInv, UNCHANGED <<turn, receipts>>,
         rev' \in 0 .. MaxRevision, home' \in Homes, stale' \in BOOLEAN,
         device' \in [Devices -> UNION {DeviceStates[d] : d \in Devices}]
  PROVE  TypeInv'
  BY DEF TypeInv, TypeOK

LEMMA SettledReceipts ==
  ASSUME TypeOK, NEW t \in Turns, NEW key \in Ended, NEW verified \in Nat,
         Settle(t, key, verified)
  PROVE  \A r \in receipts' : r.answer \in Answers
  <1>1. [key |-> key, verified |-> verified] \in Answers
    BY DEF Answers
  <1>2. \A r \in receipts' :
          \/ r \in receipts
          \/ r = [key |-> Key(turn[t].p),
                  answer |-> [key |-> key, verified |-> verified]]
    BY DEF Settle
  <1>3. QED
    BY <1>1, <1>2 DEF TypeOK

LEMMA NextTyped == TypeInv /\ [Next]_vars => TypeInv'
  <1> SUFFICES ASSUME TypeInv, [Next]_vars
               PROVE  TypeInv'
    OBVIOUS
  <1>0. TypeOK
    BY DEF TypeInv
  <1>1. ASSUME NEW t \in Turns, NEW p \in Proposals, Decline(t, p)
        PROVE  TypeInv'
    <2>1. UNCHANGED <<rev, home, stale, device, receipts>>
      BY <1>1 DEF Decline
    <2>2. \A r \in receipts' : r.answer \in Answers
      BY <1>0, <2>1 DEF TypeOK
    <2>3. CallUnderWay(turn'[t]) /\ HonestBatch(turn'[t])
      BY <1>0, <1>1, DeclinedTurn DEF CallUnderWay, HonestBatch
    <2>4. QED
      BY <1>0, <1>1, <2>1, <2>2, <2>3, DeclinedTurn, TurnStepTyped
  <1>2. ASSUME NEW t \in Turns, NEW p \in Proposals, Start(t, p)
        PROVE  TypeInv'
    <2>1. UNCHANGED <<rev, home, stale, device, receipts>> /\ Declined(p) = {}
      BY <1>2 DEF Start
    <2>2. \A r \in receipts' : r.answer \in Answers
      BY <1>0, <2>1 DEF TypeOK
    <2>3. CallUnderWay(turn'[t]) /\ HonestBatch(turn'[t])
      BY <1>0, <1>2, StartedTurn DEF CallUnderWay, HonestBatch
    <2>4. turn'[t].home \in Homes /\ turn'[t].pos < Len(turn'[t].p.ids)
      BY <1>0, <1>2, <2>1, StartedTurn, Admission DEF TypeOK
    <2>5. QED
      BY <1>0, <1>2, <2>1, <2>2, <2>3, <2>4, StartedTurn, TurnStepTyped
  <1>3. ASSUME NEW t \in Turns, Ends(t)
        PROVE  TypeInv'
    <2>1. PICK key \in Ended, verified \in Nat : EndsWith(t, key, verified)
      BY <1>3 DEF Ends
    <2>2. Settle(t, key, verified) /\ UNCHANGED <<rev, home, stale, device>>
      BY <2>1 DEF EndsWith
    <2>3. CallUnderWay(turn'[t])
      BY <1>0, <2>2, SettledTurn DEF CallUnderWay
    <2>4. HonestBatch(turn'[t])
      <3>0. /\ turn'[t].answer = [key |-> key, verified |-> verified]
            /\ turn'[t].p = turn[t].p
            /\ turn'[t].made = turn[t].made
        BY <1>0, <2>2, SettledTurn
      <3>1. turn'[t].answer.key = key /\ turn'[t].answer.verified = verified
        BY <3>0
      <3>2. turn[t].p.batch /\ key # "cancelled" =>
              /\ verified \in {turn[t].made, turn[t].made - 1}
              /\ key = "batch_execute_verified"
                   <=> verified = Len(turn[t].p.ids)
        BY <2>1 DEF EndsWith
      <3>3. QED
        BY <3>0, <3>1, <3>2, Zenon DEF HonestBatch
    <2>5. QED
      BY <1>0, <2>2, <2>3, <2>4, SettledTurn, SettledReceipts, TurnStepTyped
  <1>4. ASSUME NEW t \in Turns, Continues(t)
        PROVE  TypeInv'
    <2>1. Proceed(t) /\ UNCHANGED <<rev, home, stale, device, receipts>>
      BY <1>4 DEF Continues, Proceed
    <2>2. \A r \in receipts' : r.answer \in Answers
      BY <1>0, <2>1 DEF TypeOK
    <2>3. /\ turn[t].p \in Proposals
          /\ turn[t].home \in Homes
          /\ turn[t].pos \in Nat
          /\ turn[t].pc = "calling"
      BY <1>0, <1>4 DEF Continues, TypeInv, TypeOK, CallUnderWay
    <2>4. CallUnderWay(turn'[t]) /\ HonestBatch(turn'[t])
      BY <1>0, <2>1, <2>3, ProceededTurn DEF CallUnderWay, HonestBatch
    <2>5. turn'[t].home \in Homes /\ turn'[t].pos < Len(turn'[t].p.ids)
      BY <1>0, <1>4, <2>1, <2>3, ProceededTurn DEF Continues
    <2>6. QED
      BY <1>0, <2>1, <2>2, <2>4, <2>5, ProceededTurn, TurnStepTyped
  <1>5. CASE Invalidate
    BY <1>5, WorldStepTyped DEF Invalidate, TypeInv, TypeOK
  <1>6. ASSUME NEW h \in Homes, Publish(h)
        PROVE  TypeInv'
    <2>1. rev' \in 0 .. MaxRevision
      BY <1>0, <1>6, RevisionAssumption DEF Publish, TypeOK
    <2>2. home' \in Homes
      BY <1>0, <1>6 DEF Publish, TypeOK
    <2>3. stale' \in BOOLEAN /\ UNCHANGED <<device, turn, receipts>>
      BY <1>6 DEF Publish
    <2>4. QED
      BY <1>0, <2>1, <2>2, <2>3, WorldStepTyped DEF TypeOK
  <1>7. ASSUME NEW d \in Devices, NEW s \in DeviceStates[d], DeviceChange(d, s)
        PROVE  TypeInv'
    BY <1>7, WorldStepTyped DEF DeviceChange, TypeInv, TypeOK
  <1>8. CASE UNCHANGED vars
    BY <1>8, WorldStepTyped DEF vars, TypeInv, TypeOK
  <1>9. ASSUME NEW t \in Turns,
               SingleReturn(t) \/ BatchReturn(t) \/ Raise(t) \/ Cancel(t)
        PROVE  TypeInv'
    BY <1>3, <1>4, <1>9, ReturnEndsOrContinues
  <1>10. QED
    BY <1>1, <1>2, <1>5, <1>6, <1>7, <1>8, <1>9 DEF Next

LEMMA TypeInvHolds == Spec => []TypeInv
  BY InitTyped, NextTyped, PTL DEF Spec

(***************************************************************************)
(* Every variable keeps its type.                                          *)
(***************************************************************************)
THEOREM ExecutionTyped == Spec => []TypeOK
  <1>1. TypeInv => TypeOK
    BY DEF TypeInv
  <1>2. QED
    BY <1>1, TypeInvHolds, PTL

(***************************************************************************)
(* A batch reports exactly the calls it has verified.                      *)
(***************************************************************************)
THEOREM BatchesReportHonestly == Spec => []BatchReportsAreHonest
  <1>1. TypeInv => BatchReportsAreHonest
    BY DEF TypeInv, HonestBatch, BatchReportsAreHonest
  <1>2. QED
    BY <1>1, TypeInvHolds, PTL

-----------------------------------------------------------------------------
(***************************************************************************)
(* The inductive invariant behind CallsAreLawful.  A turn resolved all its *)
(* targets when it was submitted, in the build its revision names: as long *)
(* as that revision is the published one, so is the build.  Each revision  *)
(* is published once, and none is published below the present one; without *)
(* the first conjunct a later build could bear the revision of a turn that *)
(* was resolved in an earlier one.                                         *)
(***************************************************************************)
Resolves(where, p) ==
  \A i \in DOMAIN p.ids :
    /\ IsTarget(Registry[where], p.ids[i])
    /\ CoreTarget(Registry[where], p.ids[i]).risk = "confirm" =>
         p.confirmed /\ ~p.batch

CallInv(u) ==
  u.pc = "calling" =>
    /\ u.p.rev <= rev
    /\ u.p.rev = rev => u.home = home
    /\ Resolves(u.home, u.p)

LawInv == \A t \in Turns : CallInv(turn[t])

LEMMA InitLaw == Init => LawInv
  BY NoTurnTyped DEF Init, LawInv, CallInv, NoTurn

LEMMA StartedCall ==
  ASSUME TypeInv, NEW t \in Turns, NEW p \in Proposals, Start(t, p)
  PROVE  CallInv(turn[t])' /\ rev = p.rev /\ Resolves(home, p)
  <1>1. TypeOK /\ rev \in Nat
    BY RevisionAssumption DEF TypeInv, TypeOK
  <1>2. rev = p.rev
    BY Admission DEF Start, WritesAllowed
  <1>3. Resolves(home, p)
    BY Admission DEF Start, Known, Target, Resolves
  <1>4. UNCHANGED <<rev, home>> /\ turn'[t].p = p /\ turn'[t].home = home
    BY <1>1, StartedTurn DEF Start
  <1>5. CallInv(turn[t])'
    BY <1>1, <1>2, <1>3, <1>4 DEF CallInv, Resolves
  <1>6. QED
    BY <1>2, <1>3, <1>5

LEMMA NextLaw == TypeInv /\ LawInv /\ [Next]_vars => LawInv'
  <1> SUFFICES ASSUME TypeInv, LawInv, [Next]_vars
               PROVE  LawInv'
    OBVIOUS
  <1>0. TypeOK /\ rev \in Nat
    BY RevisionAssumption DEF TypeInv, TypeOK
  <1>1. ASSUME NEW t \in Turns, NEW p \in Proposals, Decline(t, p)
        PROVE  LawInv'
    <2>1. UNCHANGED <<rev, home>> /\ turn'[t].pc = "answered"
      BY <1>0, <1>1, DeclinedTurn DEF Decline
    <2>2. \A u \in Turns \ {t} : turn'[u] = turn[u]
      BY <1>0, <1>1, DeclinedTurn
    <2>3. QED
      BY <2>1, <2>2 DEF LawInv, CallInv, Resolves
  <1>2. ASSUME NEW t \in Turns, NEW p \in Proposals, Start(t, p)
        PROVE  LawInv'
    <2>1. UNCHANGED <<rev, home>>
      BY <1>2 DEF Start
    <2>2. \A u \in Turns \ {t} : turn'[u] = turn[u]
      BY <1>0, <1>2, StartedTurn
    <2>3. CallInv(turn[t])'
      BY <1>2, StartedCall
    <2>4. QED
      BY <2>1, <2>2, <2>3 DEF LawInv, CallInv, Resolves
  <1>3. ASSUME NEW t \in Turns, Ends(t)
        PROVE  LawInv'
    <2>1. PICK key \in Ended, verified \in Nat : EndsWith(t, key, verified)
      BY <1>3 DEF Ends
    <2>2. Settle(t, key, verified) /\ UNCHANGED <<rev, home>>
      BY <2>1 DEF EndsWith
    <2>3. turn'[t].pc = "answered" /\ \A u \in Turns \ {t} : turn'[u] = turn[u]
      BY <1>0, <2>2, SettledTurn
    <2>4. QED
      BY <2>2, <2>3 DEF LawInv, CallInv, Resolves
  <1>4. ASSUME NEW t \in Turns, Continues(t)
        PROVE  LawInv'
    <2>1. Proceed(t) /\ UNCHANGED <<rev, home>>
      BY <1>4 DEF Continues
    <2>2. \A u \in Turns : /\ turn'[u].pc = turn[u].pc
                           /\ turn'[u].p = turn[u].p
                           /\ turn'[u].home = turn[u].home
      BY <1>0, <2>1, ProceededTurn
    <2>3. QED
      BY <2>1, <2>2 DEF LawInv, CallInv, Resolves
  <1>5. ASSUME NEW h \in Homes, Publish(h)
        PROVE  LawInv'
    <2>1. rev' = rev + 1 /\ turn' = turn
      BY <1>5 DEF Publish
    <2>2. \A t \in Turns : turn[t].pc = "calling" => turn[t].p.rev \in Nat
      BY ProposalsAssumption DEF TypeInv, CallUnderWay
    <2>3. QED
      BY <1>0, <2>1, <2>2 DEF LawInv, CallInv, Resolves
  <1>6. CASE UNCHANGED <<rev, home, turn>>
    BY <1>6 DEF LawInv, CallInv, Resolves
  <1>7. ASSUME NEW t \in Turns,
               SingleReturn(t) \/ BatchReturn(t) \/ Raise(t) \/ Cancel(t)
        PROVE  LawInv'
    BY <1>3, <1>4, <1>7, ReturnEndsOrContinues
  <1>8. CASE Invalidate \/ \E d \in Devices : \E s \in DeviceStates[d] : DeviceChange(d, s)
    BY <1>6, <1>8 DEF Invalidate, DeviceChange
  <1>9. CASE UNCHANGED vars
    BY <1>6, <1>9 DEF vars
  <1>10. QED
    BY <1>1, <1>2, <1>5, <1>7, <1>8, <1>9 DEF Next

\* What makes the law about calls inductive holds in every reachable state:
\* targets were resolved in the map that bears their revision.
THEOREM LawInvHolds == Spec => []LawInv
  BY InitTyped, NextTyped, InitLaw, NextLaw, PTL DEF Spec

(* The step behind the action property: only Start and Proceed make calls. *)
LEMMA NextCalls ==
  ASSUME TypeInv, LawInv, [Next]_vars, NEW t \in Turns,
         turn'[t].made > turn[t].made
  PROVE  LET u  == turn'[t]
             id == u.p.ids[u.made]
         IN  Lawful(u.p, id, CoreTarget(Registry[u.home], id))
  <1>0. TypeOK /\ \A u \in Turns : turn[u].made \in Nat
    BY DEF TypeInv, TypeOK
  <1>1. turn'[t] # turn[t]
    BY <1>0
  <1>2. ASSUME NEW p \in Proposals, Start(t, p)
        PROVE  Lawful(p, p.ids[1], CoreTarget(Registry[home], p.ids[1]))
    <2>1. 1 \in DOMAIN p.ids
      BY <1>2, Admission, LengthsAreNatural DEF Start
    <2>2. QED
      BY <1>2, <2>1, Admission DEF Start, Lawful, Target
  <1>3. ASSUME Continues(t)
        PROVE  LET id == turn[t].p.ids[turn[t].pos + 2]
               IN  Lawful(turn[t].p, id, CoreTarget(Registry[turn[t].home], id))
    <2>1. /\ turn[t].p \in Proposals
          /\ turn[t].pos \in Nat
          /\ turn[t].pos + 1 < Len(turn[t].p.ids)
          /\ WritesAllowed(turn[t].p.rev)
          /\ turn[t].pc = "calling"
      BY <1>0, <1>3 DEF Continues, TypeInv, TypeOK, CallUnderWay
    <2>2. turn[t].pos + 2 \in DOMAIN turn[t].p.ids
      BY <2>1, LengthsAreNatural
    <2>3. turn[t].home = home /\ Resolves(home, turn[t].p)
      BY <2>1 DEF LawInv, CallInv, WritesAllowed
    <2>4. QED
      BY <2>1, <2>2, <2>3 DEF Lawful, Resolves, Known, Target
  <1>4. CASE \E p \in Proposals : Start(t, p)
    <2>1. PICK p \in Proposals : Start(t, p)
      BY <1>4
    <2>2. turn'[t].p = p /\ turn'[t].home = home /\ turn'[t].made = 1
      BY <1>0, <2>1, StartedTurn
    <2>3. QED
      BY <1>2, <2>1, <2>2
  <1>5. CASE Continues(t)
    <2>1. /\ turn'[t].p = turn[t].p
          /\ turn'[t].home = turn[t].home
          /\ turn'[t].made = turn[t].pos + 2
      BY <1>0, <1>5, ProceededTurn DEF Continues
    <2>2. QED
      BY <1>3, <1>5, <2>1
  <1>6. ASSUME NEW p \in Proposals, Decline(t, p)
        PROVE  FALSE
    <2>1. turn'[t].made = 0
      BY <1>0, <1>6, DeclinedTurn
    <2>2. QED
      BY <1>0, <2>1
  <1>7. ASSUME Ends(t)
        PROVE  FALSE
    <2>1. turn'[t].made = turn[t].made
      BY <1>0, <1>7, SettledTurn DEF Ends, EndsWith
    <2>2. QED
      BY <1>0, <2>1
  <1>8. ASSUME NEW v \in Turns \ {t},
               \/ \E p \in Proposals : Decline(v, p) \/ Start(v, p)
               \/ Ends(v)
               \/ Continues(v)
        PROVE  FALSE
    <2>1. CASE \E p \in Proposals : Decline(v, p) \/ Start(v, p)
      BY <1>0, <1>1, <2>1, DeclinedTurn, StartedTurn
    <2>2. CASE Ends(v)
      BY <1>0, <1>1, <2>2, SettledTurn DEF Ends, EndsWith
    <2>3. CASE Continues(v)
      BY <1>0, <1>1, <2>3, ProceededTurn DEF Continues
    <2>4. QED
      BY <1>8, <2>1, <2>2, <2>3
  <1>9. ASSUME turn' = turn
        PROVE  FALSE
    BY <1>1, <1>9
  <1>10. ASSUME NEW v \in Turns,
                SingleReturn(v) \/ BatchReturn(v) \/ Raise(v) \/ Cancel(v)
         PROVE  Ends(v) \/ Continues(v)
    BY <1>10, ReturnEndsOrContinues
  <1>11. \E v \in Turns : \/ \E p \in Proposals : Decline(v, p) \/ Start(v, p)
                          \/ Ends(v)
                          \/ Continues(v)
    BY <1>9, <1>10 DEF Next, Invalidate, Publish, DeviceChange, vars
  <1>12. QED
    BY <1>4, <1>5, <1>6, <1>7, <1>8, <1>11

(***************************************************************************)
(* Every service call is lawful when it is made.                           *)
(***************************************************************************)
THEOREM EveryCallIsLawful == Spec => CallsAreLawful
  <1>1. TypeInv /\ LawInv /\ [Next]_vars =>
          [\A t \in Turns : turn'[t].made > turn[t].made =>
             LET u  == turn'[t]
                 id == u.p.ids[u.made]
             IN  Lawful(u.p, id, CoreTarget(Registry[u.home], id))]_vars
    BY NextCalls
  <1>2. QED
    BY <1>1, TypeInvHolds, LawInvHolds, PTL DEF Spec, CallsAreLawful

-----------------------------------------------------------------------------
(***************************************************************************)
(* The inductive invariant behind RepeatsAreReplayed ties receipts and     *)
(* turns together: a turn that was recorded has a receipt under its key,   *)
(* a receipt is the answer of such a turn, and what a turn saw settled     *)
(* when it was submitted stays so.                                         *)
(***************************************************************************)
Recalled(u) ==
  u \in Settled =>
    /\ Repeatable(turn[u].p)
    /\ \E r \in receipts : r.key = Key(turn[u].p)

ReceiptsAreAnswers ==
  \A r \in receipts :
    \E u \in Settled : Key(turn[u].p) = r.key /\ turn[u].answer = r.answer

Same(t) == {u \in turn[t].settled : Key(turn[u].p) = Key(turn[t].p)}

Replays(t) ==
  turn[t].pc # "idle" /\ Same(t) # {} =>
    /\ turn[t].made = 0
    /\ \/ turn[t].answer.key \in Refused
       \/ \E u \in Same(t) : turn[t].answer = turn[u].answer

ReplayInv ==
  /\ \A u \in Turns : Recalled(u)
  /\ ReceiptsAreAnswers
  /\ \A t \in Turns : turn[t].settled \subseteq Settled
  /\ \A t \in Turns : Replays(t)

LEMMA InitReplay == Init => ReplayInv
  BY NoTurnTyped
  DEF Init, ReplayInv, Recalled, ReceiptsAreAnswers, Same, Replays, Settled, NoTurn

(* Requests with the same key are both repeatable, or neither is.          *)
LEMMA KeysAgree ==
  ASSUME NEW p, NEW q, Key(p) = Key(q)
  PROVE  Repeatable(p) <=> Repeatable(q)
  BY DEF Key, Repeatable

(* A step that leaves turns and receipts alone, and what a step of one     *)
(* unsettled turn leaves of the others.                                    *)
LEMMA WorldStepReplays ==
  ASSUME ReplayInv, UNCHANGED <<turn, receipts>>
  PROVE  ReplayInv'
  BY DEF ReplayInv, Recalled, ReceiptsAreAnswers, Same, Replays, Settled, Key,
         Repeatable

LEMMA TurnStepReplays ==
  ASSUME ReplayInv, NEW t \in Turns, t \notin Settled,
         \A u \in Turns \ {t} : turn'[u] = turn[u],
         turn'[t].settled \subseteq Settled
  PROVE  /\ Settled \subseteq Settled'
         /\ Settled' \subseteq Settled \cup {t}
         /\ \A u \in Settled : turn'[u] = turn[u]
         /\ \A v \in Turns : turn'[v].settled \subseteq Settled'
         /\ \A v \in Turns \ {t} : Replays(v)'
         /\ Same(t)' = {u \in turn'[t].settled :
                         Key(turn[u].p) = Key(turn'[t].p)}
  <1>1. \A u \in Settled : u \in Turns \ {t} /\ turn'[u] = turn[u]
    BY DEF Settled
  <1>2. Settled \subseteq Settled' /\ Settled' \subseteq Settled \cup {t}
    BY <1>1 DEF Settled
  <1>3. \A v \in Turns : turn'[v].settled \subseteq Settled
    BY DEF ReplayInv
  <1>4. ASSUME NEW v \in Turns \ {t}
        PROVE  Replays(v)'
    <2>1. Same(v)' = Same(v)
      BY <1>1, <1>3 DEF Same
    <2>2. \A u \in Same(v) : turn'[u] = turn[u]
      BY <1>1, <1>3 DEF Same
    <2>3. Replays(v) /\ turn'[v] = turn[v]
      BY DEF ReplayInv
    <2>4. QED
      BY <2>1, <2>2, <2>3 DEF Replays
  <1>5. Same(t)' = {u \in turn'[t].settled : Key(turn[u].p) = Key(turn'[t].p)}
    BY <1>1 DEF Same
  <1>6. QED
    BY <1>1, <1>2, <1>3, <1>4, <1>5

(* A request that has a settled turn of its own kind finds its receipt.    *)
LEMMA SettledIsPrior ==
  ASSUME ReplayInv, NEW p, NEW u \in Settled, Key(turn[u].p) = Key(p)
  PROVE  Prior(p) # {}
  <1>1. Repeatable(turn[u].p) /\ \E r \in receipts : r.key = Key(turn[u].p)
    BY DEF ReplayInv, Recalled, Settled
  <1>2. Repeatable(p)
    BY <1>1, KeysAgree
  <1>3. QED
    BY <1>1, <1>2 DEF Prior

LEMMA NextReplay == TypeInv /\ ReplayInv /\ [Next]_vars => ReplayInv'
  <1> SUFFICES ASSUME TypeInv, ReplayInv, [Next]_vars
               PROVE  ReplayInv'
    OBVIOUS
  <1>0. TypeOK
    BY DEF TypeInv
  <1>1. ASSUME NEW t \in Turns, NEW p \in Proposals, Decline(t, p)
        PROVE  ReplayInv'
    <2>1. /\ \A u \in Turns \ {t} : turn'[u] = turn[u]
          /\ turn'[t].p = p
          /\ turn'[t].answer \in Declined(p)
          /\ turn'[t].made = 0
          /\ turn'[t].settled = Settled
      BY <1>0, <1>1, DeclinedTurn
    <2>2. ~turn'[t].kept
      BY <1>0, <1>1, DeclinedTurn
    <2>3. t \notin Settled /\ receipts' = receipts
      BY <1>1 DEF Decline, Settled
    <2>4. Settled' = Settled /\ \A u \in Settled : turn'[u] = turn[u]
      <3>1. t \notin Settled'
        BY <2>2 DEF Settled
      <3>2. /\ Settled \subseteq Settled' /\ Settled' \subseteq Settled \cup {t}
            /\ \A u \in Settled : turn'[u] = turn[u]
        BY <2>1, <2>3, TurnStepReplays
      <3>3. QED
        BY <3>1, <3>2
    <2>5. Replays(t)'
      <3> SUFFICES ASSUME NEW u \in Settled, Key(turn[u].p) = Key(p)
                   PROVE  \/ turn'[t].answer.key \in Refused
                          \/ \E w \in Same(t)' : turn'[t].answer = turn'[w].answer
        BY <2>1, <2>3, TurnStepReplays DEF Replays
      <3>1. Prior(p) # {}
        BY SettledIsPrior
      <3>2. CASE Refusal(p) # "none"
        <4>1. Refusal(p) \in Refused
          BY <3>2 DEF Refusal, SingleRefusal, BatchRefusal, Refused
        <4>2. turn'[t].answer = [key |-> Refusal(p), verified |-> 0]
          BY <2>1, <3>2 DEF Declined
        <4>3. QED
          BY <4>1, <4>2
      <3>3. CASE Refusal(p) = "none"
        <4>1. PICK r \in Prior(p) : turn'[t].answer = r.answer
          BY <2>1, <3>1, <3>3 DEF Declined
        <4>2. r \in receipts /\ r.key = Key(p)
          BY DEF Prior
        <4>3. PICK w \in Settled :
                Key(turn[w].p) = Key(p) /\ turn[w].answer = r.answer
          BY <4>2 DEF ReplayInv, ReceiptsAreAnswers
        <4>4. w \in Same(t)' /\ turn'[w].answer = turn'[t].answer
          BY <2>1, <2>3, <2>4, <4>1, <4>3, TurnStepReplays
        <4>5. QED
          BY <4>4
      <3>4. QED
        BY <3>2, <3>3
    <2>6. \A u \in Turns : Recalled(u)'
      BY <2>3, <2>4 DEF ReplayInv, Recalled, Settled
    <2>7. ReceiptsAreAnswers'
      BY <2>3, <2>4 DEF ReplayInv, ReceiptsAreAnswers
    <2>8. QED
      BY <2>1, <2>3, <2>5, <2>6, <2>7, TurnStepReplays DEF ReplayInv
  <1>2. ASSUME NEW t \in Turns, NEW p \in Proposals, Start(t, p)
        PROVE  ReplayInv'
    <2>1. /\ \A u \in Turns \ {t} : turn'[u] = turn[u]
          /\ turn'[t].pc = "calling"
          /\ turn'[t].p = p
          /\ turn'[t].settled = Settled
      BY <1>0, <1>2, StartedTurn
    <2>2. t \notin Settled /\ receipts' = receipts /\ Prior(p) = {}
      BY <1>2, Admission DEF Start, Settled
    <2>3. Settled' = Settled /\ \A u \in Settled : turn'[u] = turn[u]
      <3>1. t \notin Settled'
        BY <2>1 DEF Settled
      <3>2. /\ Settled \subseteq Settled' /\ Settled' \subseteq Settled \cup {t}
            /\ \A u \in Settled : turn'[u] = turn[u]
        BY <2>1, <2>2, TurnStepReplays
      <3>3. QED
        BY <3>1, <3>2
    <2>4. Replays(t)'
      <3>1. \A u \in Settled : Key(turn[u].p) # Key(p)
        BY <2>2, SettledIsPrior
      <3>2. Same(t)' = {}
        BY <2>1, <2>2, <3>1, TurnStepReplays
      <3>3. QED
        BY <3>2 DEF Replays
    <2>5. \A u \in Turns : Recalled(u)'
      BY <2>2, <2>3 DEF ReplayInv, Recalled, Settled
    <2>6. ReceiptsAreAnswers'
      BY <2>2, <2>3 DEF ReplayInv, ReceiptsAreAnswers
    <2>7. QED
      BY <2>1, <2>2, <2>4, <2>5, <2>6, TurnStepReplays DEF ReplayInv
  <1>3. ASSUME NEW t \in Turns, turn[t].pc = "calling"
        PROVE  t \notin Settled /\ Same(t) = {}
    <2>1. turn[t].made # 0
      BY <1>0, <1>3 DEF TypeInv, TypeOK, CallUnderWay
    <2>2. QED
      BY <1>3, <2>1 DEF ReplayInv, Replays, Settled
  <1>4. ASSUME NEW t \in Turns, Ends(t)
        PROVE  ReplayInv'
    <2>1. PICK key \in Ended, verified \in Nat : EndsWith(t, key, verified)
      BY <1>4 DEF Ends
    <2>2. /\ Settle(t, key, verified)
          /\ turn[t].pc = "calling"
          /\ t \notin Settled
          /\ Same(t) = {}
      BY <1>3, <2>1 DEF EndsWith
    <2> DEFINE new == [key |-> Key(turn[t].p),
                       answer |-> [key |-> key, verified |-> verified]]
    <2>3. /\ \A u \in Turns \ {t} : turn'[u] = turn[u]
          /\ turn'[t].pc = "answered"
          /\ turn'[t].p = turn[t].p
          /\ turn'[t].answer = [key |-> key, verified |-> verified]
          /\ turn'[t].settled = turn[t].settled
      BY <1>0, <2>2, SettledTurn
    <2>4. turn'[t].kept <=> Recorded(turn[t].p, key)
      BY <1>0, <2>2, SettledTurn
    <2>5. turn[t].settled \subseteq Settled
      BY DEF ReplayInv
    <2>6. /\ Settled \subseteq Settled'
          /\ \A u \in Settled : turn'[u] = turn[u]
          /\ Settled' \subseteq Settled \cup {t}
      BY <2>2, <2>3, <2>5, TurnStepReplays
    <2>7. Replays(t)'
      <3>1. Same(t)' = {}
        BY <2>2, <2>3, <2>5, TurnStepReplays DEF Same
      <3>2. QED
        BY <3>1 DEF Replays
    <2>8. CASE Recorded(turn[t].p, key)
      <3>1. /\ receipts' = {r \in receipts : r.key # Key(turn[t].p)} \cup {new}
            /\ Repeatable(turn[t].p)
        BY <2>2, <2>8 DEF Settle, Recorded
      <3>2. t \in Settled'
        BY <2>3, <2>4, <2>8 DEF Settled
      <3>3. ASSUME NEW u \in Settled'
            PROVE  /\ Repeatable(turn'[u].p)
                   /\ \E r \in receipts' : r.key = Key(turn'[u].p)
        <4>1. CASE u = t
          <5>1. new \in receipts' /\ new.key = Key(turn[t].p)
            BY <3>1
          <5>2. turn'[u].p = turn[t].p
            BY <2>3, <4>1
          <5>3. QED
            BY <3>1, <5>1, <5>2
        <4>2. CASE u # t
          <5>1. u \in Settled /\ u \in Turns /\ turn'[u] = turn[u]
            BY <2>6, <4>2 DEF Settled
          <5>2. PICK r \in receipts : r.key = Key(turn[u].p)
            BY <5>1 DEF ReplayInv, Recalled
          <5>3. r \in receipts' \/ new.key = Key(turn[u].p)
            BY <3>1, <5>2
          <5>4. QED
            BY <3>1, <5>1, <5>2, <5>3 DEF ReplayInv, Recalled
        <4>3. QED
          BY <4>1, <4>2
      <3>4. ReceiptsAreAnswers'
        <4>1. \A r \in receipts' : r \in receipts \/ r = new
          BY <3>1
        <4>2. Key(turn'[t].p) = new.key /\ turn'[t].answer = new.answer
          BY <2>3
        <4>3. QED
          BY <2>6, <3>2, <4>1, <4>2 DEF ReplayInv, ReceiptsAreAnswers
      <3>5. QED
        BY <2>2, <2>3, <2>5, <2>7, <3>3, <3>4, TurnStepReplays
        DEF ReplayInv, Recalled
    <2>9. CASE ~Recorded(turn[t].p, key)
      <3>1. receipts' = receipts
        BY <2>2, <2>9 DEF Settle
      <3>2. Settled' = Settled
        BY <2>4, <2>6, <2>9 DEF Settled
      <3>3. \A u \in Turns : Recalled(u)'
        BY <2>6, <3>1, <3>2 DEF ReplayInv, Recalled, Settled
      <3>4. ReceiptsAreAnswers'
        BY <2>6, <3>1, <3>2 DEF ReplayInv, ReceiptsAreAnswers
      <3>5. QED
        BY <2>2, <2>3, <2>5, <2>7, <3>3, <3>4, TurnStepReplays DEF ReplayInv
    <2>10. QED
      BY <2>8, <2>9
  <1>5. ASSUME NEW t \in Turns, Continues(t)
        PROVE  ReplayInv'
    <2>1. /\ \A u \in Turns \ {t} : turn'[u] = turn[u]
          /\ turn'[t].pc = turn[t].pc
          /\ turn'[t].p = turn[t].p
          /\ turn'[t].settled = turn[t].settled
      BY <1>0, <1>5, ProceededTurn DEF Continues
    <2>2. /\ turn[t].pc = "calling"
          /\ t \notin Settled
          /\ Same(t) = {}
          /\ receipts' = receipts
      BY <1>3, <1>5 DEF Continues, Proceed
    <2>3. turn[t].settled \subseteq Settled
      BY DEF ReplayInv
    <2>4. Settled' = Settled /\ \A u \in Settled : turn'[u] = turn[u]
      <3>1. t \notin Settled'
        BY <2>1, <2>2 DEF Settled
      <3>2. /\ Settled \subseteq Settled' /\ Settled' \subseteq Settled \cup {t}
            /\ \A u \in Settled : turn'[u] = turn[u]
        BY <2>1, <2>2, <2>3, TurnStepReplays
      <3>3. QED
        BY <3>1, <3>2
    <2>5. Replays(t)'
      <3>1. Same(t)' = {}
        BY <2>1, <2>2, <2>3, TurnStepReplays DEF Same
      <3>2. QED
        BY <3>1 DEF Replays
    <2>6. \A u \in Turns : Recalled(u)'
      BY <2>2, <2>4 DEF ReplayInv, Recalled, Settled
    <2>7. ReceiptsAreAnswers'
      BY <2>2, <2>4 DEF ReplayInv, ReceiptsAreAnswers
    <2>8. QED
      BY <2>1, <2>2, <2>3, <2>5, <2>6, <2>7, TurnStepReplays DEF ReplayInv
  <1>6. CASE UNCHANGED <<turn, receipts>>
    BY <1>6, WorldStepReplays
  <1>7. ASSUME NEW t \in Turns,
               SingleReturn(t) \/ BatchReturn(t) \/ Raise(t) \/ Cancel(t)
        PROVE  ReplayInv'
    BY <1>4, <1>5, <1>7, ReturnEndsOrContinues
  <1>8. QED
    BY <1>1, <1>2, <1>6, <1>7
    DEF Next, Invalidate, Publish, DeviceChange, vars

(***************************************************************************)
(* A request that has left a receipt is not acted on again.                *)
(***************************************************************************)
THEOREM ReceiptsAreReplayed == Spec => []RepeatsAreReplayed
  <1>1. ReplayInv => RepeatsAreReplayed
    BY DEF ReplayInv, Replays, Same, RepeatsAreReplayed
  <1>2. QED
    BY <1>1, InitTyped, NextTyped, InitReplay, NextReplay, PTL DEF Spec

-----------------------------------------------------------------------------
(***************************************************************************)
(* The boundary as a service ledger.                                       *)
(***************************************************************************)
LEMMA LedgerStarts == Init => Ledger!Init
  BY DEF Init, Ledger!Init, Page, NoTurn

LEMMA DeclineIsTurnAway ==
  ASSUME TypeInv, NEW t \in Turns, NEW p \in Proposals, Decline(t, p)
  PROVE  Ledger!TurnAway(t)
  <1>0. TypeOK
    BY DEF TypeInv
  <1>1. /\ turn[t].pc = "idle" /\ turn'[t].pc = "answered" /\ turn'[t].made = 0
        /\ turn'[t].p = p /\ turn'[t].answer \in Declined(p)
        /\ \A u \in Turns \ {t} : turn'[u] = turn[u]
        /\ UNCHANGED <<rev, stale, receipts>>
    BY <1>0, DeclinedTurn DEF Decline
  <1>2. \/ turn'[t].answer.key \in Refused
        \/ \E r \in Prior(p) : r.answer = turn'[t].answer
    <2>1. Refusal(p) \in Refused \cup {"none"}
      BY DEF Refusal, SingleRefusal, BatchRefusal, Refused
    <2>2. "candidate_not_allowed" \in Refused
      BY DEF Refused
    <2>3. QED
      BY <1>1, <2>1, <2>2 DEF Declined
  <1>3. \/ turn'[t].answer.key \in Refused
        \/ \E r \in receipts : /\ r.key = Key(turn'[t].p) /\ Repeatable(turn'[t].p)
                               /\ r.answer = turn'[t].answer
    BY <1>1, <1>2 DEF Prior
  <1>4. QED
    BY <1>1, <1>3 DEF Ledger!TurnAway, Ledger!Entries, Ledger!Only, Page, WritesAllowed

LEMMA StartIsBegin ==
  ASSUME TypeInv, NEW t \in Turns, NEW p \in Proposals, Start(t, p)
  PROVE  Ledger!Begin(t)
  <1>0. TypeOK
    BY DEF TypeInv
  <1>1. /\ turn[t].pc = "idle" /\ turn'[t].pc = "calling" /\ turn'[t].made = 1
        /\ turn'[t].p = p
        /\ \A u \in Turns \ {t} : turn'[u] = turn[u]
        /\ UNCHANGED <<rev, stale, receipts>>
    BY <1>0, StartedTurn DEF Start
  <1>2. WritesAllowed(p.rev) /\ Prior(p) = {}
    BY Admission DEF Start
  <1>3. QED
    BY <1>1, <1>2
    DEF Ledger!Begin, Ledger!Entries, Ledger!Only, Page, WritesAllowed, Prior

LEMMA ContinuesIsContinue ==
  ASSUME TypeInv, NEW t \in Turns, Continues(t)
  PROVE  Ledger!Continue(t)
  <1>0. TypeOK
    BY DEF TypeInv
  <1>1. /\ turn[t].pc = "calling" /\ turn'[t].pc = "calling"
        /\ turn'[t].p = turn[t].p
        /\ turn'[t].made = turn[t].pos + 2 /\ turn[t].made = turn[t].pos + 1
        /\ turn[t].pos \in Nat
        /\ \A u \in Turns \ {t} : turn'[u] = turn[u]
        /\ UNCHANGED <<rev, stale, receipts>>
        /\ WritesAllowed(turn[t].p.rev)
    BY <1>0, ProceededTurn DEF Continues, TypeInv, TypeOK, CallUnderWay, Proceed
  <1>2. turn'[t].made = turn[t].made + 1
    BY <1>1
  <1>3. QED
    BY <1>1, <1>2
    DEF Ledger!Continue, Ledger!SameRequest, Ledger!Only, Page, WritesAllowed

LEMMA EndsIsReport ==
  ASSUME TypeInv, NEW t \in Turns, Ends(t)
  PROVE  Ledger!Report(t)
  <1>0. TypeOK
    BY DEF TypeInv
  <1> SUFFICES ASSUME NEW key \in Ended, NEW verified \in Nat,
                      EndsWith(t, key, verified)
               PROVE  Ledger!Report(t)
    BY DEF Ends
  <1>1. PICK answer : answer = [key |-> key, verified |-> verified]
    OBVIOUS
  <1>2. /\ Settle(t, key, verified)
        /\ turn[t].pc = "calling"
        /\ UNCHANGED <<rev, stale>>
        /\ key # "cancelled" => verified \in {turn[t].made, turn[t].made - 1}
    BY DEF EndsWith
  <1>3. /\ turn'[t].pc = "answered" /\ turn'[t].p = turn[t].p
        /\ turn'[t].made = turn[t].made
        /\ turn'[t].answer = answer
        /\ \A u \in Turns \ {t} : turn'[u] = turn[u]
    BY <1>0, <1>1, <1>2, SettledTurn
  <1>4. key \notin Refused
    BY DEF Ended, Refused
  <1>5. receipts' = IF Recorded(turn[t].p, key)
                      THEN {r \in receipts : r.key # Key(turn[t].p)}
                             \cup {[key |-> Key(turn[t].p), answer |-> answer]}
                      ELSE receipts
    BY <1>1, <1>2, Zenon DEF Settle
  <1>6. answer.key = key /\ answer.verified = verified
    BY <1>1
  <1>7. /\ Page(turn[t]).state = "calling" /\ Page(turn'[t]).state = "answered"
        /\ Page(turn'[t]).request = Page(turn[t]).request
        /\ Page(turn'[t]).rev = Page(turn[t]).rev
        /\ Page(turn'[t]).replays = Page(turn[t]).replays
        /\ Page(turn'[t]).calls = Page(turn[t]).calls
        /\ Page(turn'[t]).report = answer
        /\ Page(turn[t]).calls = turn[t].made
        /\ Page(turn[t]).request = Key(turn[t].p)
        /\ Page(turn[t]).replays = Repeatable(turn[t].p)
    <2>1. \A u : u.pc # "idle" => Page(u).replays = Repeatable(u.p)
      BY DEF Page, Repeatable
    <2>2. \A u : /\ Page(u).state = u.pc /\ Page(u).request = Key(u.p)
                 /\ Page(u).rev = u.p.rev /\ Page(u).calls = u.made
                 /\ Page(u).report = u.answer
      BY DEF Page
    <2>3. /\ Page(turn[t]).replays = Repeatable(turn[t].p)
          /\ Page(turn'[t]).replays = Repeatable(turn[t].p)
      BY <1>2, <1>3, <2>1
    <2>4. QED
      BY <1>2, <1>3, <2>2, <2>3
  <1>8. \A u \in Turns \ {t} : Page(turn'[u]) = Page(turn[u])
    BY <1>3
  <1>9. {r \in {rev} : WritesAllowed(r)}' = {r \in {rev} : WritesAllowed(r)}
    BY <1>2 DEF WritesAllowed
  <1>10. IF key \in {"execution_failed", "cancelled"}
           THEN receipts' = receipts
           ELSE /\ verified \in {turn[t].made - 1, turn[t].made}
                /\ receipts' =
                     IF Repeatable(turn[t].p)
                       THEN {r \in receipts : r.key # Key(turn[t].p)}
                              \cup {[key |-> Key(turn[t].p), answer |-> answer]}
                       ELSE receipts
    <2>1. CASE key \in {"execution_failed", "cancelled"}
      BY <1>5, <2>1, Zenon DEF Recorded
    <2>2. CASE key \notin {"execution_failed", "cancelled"}
      <3>1. Recorded(turn[t].p, key) <=> Repeatable(turn[t].p)
        BY <2>2, Zenon DEF Recorded
      <3>2. verified \in {turn[t].made - 1, turn[t].made}
        BY <1>2, <2>2, Zenon
      <3>3. QED
        BY <1>5, <2>2, <3>1, <3>2, Zenon
    <2>3. QED
      BY <2>1, <2>2
  <1>11. QED
    BY <1>4, <1>6, <1>7, <1>8, <1>9, <1>10, Zenon
    DEF Ledger!Report, Ledger!SameRequest, Ledger!Only

LEMMA LedgerGoesOn == TypeInv /\ [Next]_vars => [Ledger!Next]_(Ledger!vars)
  <1> SUFFICES ASSUME TypeInv, [Next]_vars PROVE Ledger!Next
    OBVIOUS
  <1>1. ASSUME UNCHANGED <<turn, receipts>> PROVE Ledger!Next
    BY <1>1 DEF Ledger!Next, Ledger!Permit
  <1>2. ASSUME NEW t \in Turns, NEW p \in Proposals, Decline(t, p) \/ Start(t, p)
        PROVE  Ledger!Next
    BY <1>2, DeclineIsTurnAway, StartIsBegin DEF Ledger!Next
  <1>3. ASSUME NEW t \in Turns,
               SingleReturn(t) \/ BatchReturn(t) \/ Raise(t) \/ Cancel(t)
        PROVE  Ledger!Next
    BY <1>3, ReturnEndsOrContinues, EndsIsReport, ContinuesIsContinue DEF Ledger!Next
  <1>4. QED
    BY <1>1, <1>2, <1>3 DEF Next, Invalidate, Publish, DeviceChange, vars

(***************************************************************************)
(* Every step of the boundary is a step of the ledger it promises to be,   *)
(* whatever turns run at once and whatever becomes of the profile and the  *)
(* devices meanwhile.                                                      *)
(***************************************************************************)
THEOREM BoundaryIsLedger == Spec => ImplementsLedger
  BY TypeInvHolds, LedgerStarts, LedgerGoesOn, PTL DEF Spec, ImplementsLedger, Ledger!Spec
=============================================================================
