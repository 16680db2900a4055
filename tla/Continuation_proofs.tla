------------------------- MODULE Continuation_proofs -------------------------
(***************************************************************************)
(* Theorems about follow-up turns, for any number of turns, conversations, *)
(* users, capabilities, kept questions and profile revisions.              *)
(***************************************************************************)
EXTENDS Continuation, TLAPS

-----------------------------------------------------------------------------
(***************************************************************************)
(* The store.  Nothing here depends on what an entry is, so it is said of  *)
(* any entries s with one per conversation.                                *)
(***************************************************************************)
OnePerConversation(s) ==
  \A i, j \in DOMAIN s : s[i].conv = s[j].conv => i = j

Members(s) == {s[i] : i \in DOMAIN s}

LEMMA RemoveAtFacts ==
  ASSUME NEW S, NEW s \in Seq(S), NEW n \in 1..Len(s)
  PROVE  /\ RemoveAt(s, n) \in Seq(S)
         /\ Len(RemoveAt(s, n)) = Len(s) - 1
         /\ \A i \in 1..(Len(s) - 1) :
              RemoveAt(s, n)[i] = s[IF i < n THEN i ELSE i + 1]
  <1> DEFINE front == SubSeq(s, 1, n - 1)
             back == SubSeq(s, n + 1, Len(s))
  <1>1. Len(s) \in Nat /\ n \in 1..Len(s)
    OBVIOUS
  <1>2. /\ front \in Seq(S)
        /\ Len(front) = n - 1
        /\ \A i \in 1..(n - 1) : front[i] = s[i]
    BY <1>1
  <1>3. /\ back \in Seq(S)
        /\ Len(back) = Len(s) - n
        /\ \A i \in 1..(Len(s) - n) : back[i] = s[n + i]
    BY <1>1
  <1>4. RemoveAt(s, n) = front \o back
    BY DEF RemoveAt
  <1> HIDE DEF front, back
  <1>5. /\ front \o back \in Seq(S)
        /\ Len(front \o back) = Len(s) - 1
    <2>1. /\ front \o back \in Seq(S)
          /\ Len(front \o back) = Len(front) + Len(back)
      BY <1>2, <1>3
    <2>2. QED
      BY <2>1, <1>1, <1>2, <1>3
  <1>6. ASSUME NEW i \in 1..(Len(s) - 1)
        PROVE  (front \o back)[i] = s[IF i < n THEN i ELSE i + 1]
    <2>1. CASE i < n
      BY <1>1, <1>2, <1>3, <2>1
    <2>2. CASE ~(i < n)
      BY <1>1, <1>2, <1>3, <2>2
    <2>3. QED
      BY <2>1, <2>2
  <1>7. QED
    BY <1>4, <1>5, <1>6

StoreOK(s) ==
  /\ s \in Seq(Pending)
  /\ OnePerConversation(s)

LEMMA WithoutFacts ==
  ASSUME StoreOK(pending), NEW c
  PROVE  /\ StoreOK(Without(c))
         /\ \/ Without(c) = pending
            \/ Len(Without(c)) = Len(pending) - 1
         /\ \A q \in Members(Without(c)) : q \in Kept /\ q.conv # c
  <1> DEFINE at == {i \in DOMAIN pending : pending[i].conv = c}
             n == CHOOSE i \in at : TRUE
  <1>1. CASE at = {}
    <2>1. Without(c) = pending
      BY <1>1 DEF Without
    <2>2. QED
      BY <1>1, <2>1 DEF Members, Kept
  <1>2. CASE at # {}
    <2>1. /\ Without(c) = RemoveAt(pending, n)
          /\ n \in at
      BY <1>2 DEF Without
    <2>2. /\ pending \in Seq(Pending)
          /\ n \in 1..Len(pending)
          /\ pending[n].conv = c
          /\ Len(pending) \in Nat
          /\ DOMAIN pending = 1..Len(pending)
      BY <2>1 DEF StoreOK
    <2> DEFINE rest == RemoveAt(pending, n)
    <2> HIDE DEF at, n
    <2>3. /\ rest \in Seq(Pending)
          /\ Len(rest) = Len(pending) - 1
          /\ \A i \in 1..(Len(pending) - 1) :
               rest[i] = pending[IF i < n THEN i ELSE i + 1]
      BY <2>2, RemoveAtFacts
    <2> HIDE DEF rest
    <2>4. DOMAIN rest = 1..(Len(pending) - 1)
      BY <2>3
    <2>5. ASSUME NEW i \in DOMAIN rest
          PROVE  \E j \in DOMAIN pending :
                   j = (IF i < n THEN i ELSE i + 1) /\ j # n /\ rest[i] = pending[j]
      BY <2>2, <2>3, <2>4
    <2>6. OnePerConversation(rest)
      <3> SUFFICES ASSUME NEW i \in DOMAIN rest, NEW j \in DOMAIN rest,
                          rest[i].conv = rest[j].conv
                   PROVE  i = j
        BY DEF OnePerConversation
      <3>1. PICK k \in DOMAIN pending :
              k = (IF i < n THEN i ELSE i + 1) /\ k # n /\ rest[i] = pending[k]
        BY <2>5
      <3>2. PICK l \in DOMAIN pending :
              l = (IF j < n THEN j ELSE j + 1) /\ l # n /\ rest[j] = pending[l]
        BY <2>5
      <3>3. k = l
        BY <3>1, <3>2 DEF StoreOK, OnePerConversation
      <3>4. QED
        BY <3>1, <3>2, <3>3, <2>2, <2>4
    <2>7. ASSUME NEW q \in Members(rest)
          PROVE  q \in Kept /\ q.conv # c
      <3>1. PICK i \in DOMAIN rest : q = rest[i]
        BY DEF Members
      <3>2. PICK j \in DOMAIN pending : j # n /\ rest[i] = pending[j]
        BY <2>5
      <3>3. QED
        BY <3>1, <3>2, <2>2 DEF Kept, StoreOK, OnePerConversation
    <2>8. Without(c) = rest
      BY <2>1 DEF rest
    <2>9. QED
      BY <2>3, <2>6, <2>7, <2>8 DEF StoreOK
  <1>3. QED
    BY <1>1, <1>2

LEMMA TailFacts ==
  ASSUME StoreOK(pending), pending # <<>>
  PROVE  /\ StoreOK(Tail(pending))
         /\ Len(Tail(pending)) = Len(pending) - 1
         /\ Members(Tail(pending)) \subseteq Kept
  <1>1. /\ Tail(pending) \in Seq(Pending)
        /\ Len(Tail(pending)) = Len(pending) - 1
        /\ Len(pending) \in Nat \ {0}
        /\ DOMAIN pending = 1..Len(pending)
        /\ DOMAIN Tail(pending) = 1..(Len(pending) - 1)
        /\ \A i \in 1..(Len(pending) - 1) : Tail(pending)[i] = pending[i + 1]
    BY DEF StoreOK
  <1>2. OnePerConversation(Tail(pending))
    BY <1>1 DEF StoreOK, OnePerConversation
  <1>3. Members(Tail(pending)) \subseteq Kept
    BY <1>1 DEF Members, Kept
  <1>4. QED
    BY <1>1, <1>2, <1>3 DEF StoreOK

LEMMA AppendFacts ==
  ASSUME NEW s, StoreOK(s), NEW p \in Pending,
         \A q \in Members(s) : q.conv # p.conv
  PROVE  /\ StoreOK(Append(s, p))
         /\ Len(Append(s, p)) = Len(s) + 1
         /\ \A q \in Members(Append(s, p)) : q \in Members(s) \/ q = p
  <1> DEFINE new == Append(s, p)
  <1>1. /\ new \in Seq(Pending)
        /\ Len(new) = Len(s) + 1
        /\ Len(s) \in Nat
        /\ DOMAIN s = 1..Len(s)
        /\ DOMAIN new = 1..(Len(s) + 1)
        /\ \A i \in 1..Len(s) : new[i] = s[i]
        /\ new[Len(s) + 1] = p
    BY DEF StoreOK
  <1> HIDE DEF new
  <1>2. \A i \in DOMAIN new : i \in DOMAIN s \/ i = Len(s) + 1
    BY <1>1
  <1>3. \A i \in DOMAIN s : s[i] \in Members(s)
    BY DEF Members
  <1>4. OnePerConversation(new)
    BY <1>1, <1>2, <1>3 DEF StoreOK, OnePerConversation
  <1>5. \A q \in Members(new) : q \in Members(s) \/ q = p
    BY <1>1, <1>2 DEF Members
  <1>6. QED
    BY <1>1, <1>4, <1>5 DEF StoreOK, new

LEMMA PutFacts ==
  ASSUME StoreOK(pending), Len(pending) <= MaxPending, NEW p \in Pending, Put(p)
  PROVE  /\ StoreOK(pending')
         /\ Len(pending') <= MaxPending
         /\ \A q \in Members(pending') : q \in Kept \/ q = p
  <1> DEFINE others == Without(p.conv)
             full == others = pending /\ Len(pending) >= MaxPending
  <1>1. /\ StoreOK(others)
        /\ others = pending \/ Len(others) = Len(pending) - 1
        /\ \A q \in Members(others) : q \in Kept /\ q.conv # p.conv
    BY WithoutFacts
  <1>2. Len(pending) \in Nat /\ MaxPending \in Nat \ {0}
    BY BoundAssumption DEF StoreOK
  <1>3. pending' = Append(IF full THEN Tail(pending) ELSE others, p)
    BY DEF Put
  <1> HIDE DEF others
  <1>4. CASE full
    <2>1. pending # <<>>
      BY <1>2, <1>4
    <2>2. Members(Tail(pending)) \subseteq Kept /\ StoreOK(Tail(pending))
      BY <2>1, TailFacts
    <2>3. \A q \in Members(Tail(pending)) : q.conv # p.conv
      BY <1>1, <1>4, <2>2 DEF Kept, Members
    <2>4. pending' = Append(Tail(pending), p)
      BY <1>3, <1>4
    <2>5. Len(Tail(pending)) = Len(pending) - 1
      BY <2>1, TailFacts
    <2>6. /\ StoreOK(pending')
          /\ Len(pending') = Len(Tail(pending)) + 1
          /\ \A q \in Members(pending') : q \in Members(Tail(pending)) \/ q = p
      BY <2>2, <2>3, <2>4, AppendFacts
    <2>7. QED
      BY <1>2, <2>2, <2>5, <2>6
  <1>5. CASE ~full
    <2>1. pending' = Append(others, p)
      BY <1>3, <1>5
    <2>2. /\ StoreOK(pending')
          /\ Len(pending') = Len(others) + 1
          /\ \A q \in Members(pending') : q \in Members(others) \/ q = p
      BY <1>1, <2>1, AppendFacts
    <2>3. Len(others) + 1 <= MaxPending
      BY <1>1, <1>2, <1>5
    <2>4. QED
      BY <1>1, <2>2, <2>3
  <1>6. QED
    BY <1>4, <1>5

-----------------------------------------------------------------------------
(***************************************************************************)
(* Types.  A turn that has heard a message has a conversation, a user and  *)
(* a request.                                                              *)
(***************************************************************************)
Heard(r) ==
  r.at # "unused" => r.conv \in Conversations /\ r.user \in Users /\ r.req \in Turns

TypeInv == TypeOK /\ \A t \in Turns : Heard(turn[t])

LEMMA StoreTyped ==
  TypeOK <=> /\ turn \in [Turns -> Turn]
             /\ StoreOK(pending)
             /\ Len(pending) <= MaxPending
             /\ seen \in [Turns -> Answer \cup {Nothing}]
             /\ revision \in Nat
  BY DEF TypeOK, StoreOK, OnePerConversation

LEMMA KeptTyped ==
  ASSUME TypeOK, NEW p \in Kept
  PROVE  p \in Pending
  BY DEF TypeOK, Kept

LEMMA NoAnswerTyped == NoAnswer \in Answer /\ NoAnswer.key = "refuse"
  BY DEF NoAnswer, Answer

LEMMA TurnFields ==
  ASSUME TypeOK, NEW t \in Turns
  PROVE  /\ turn[t] \in Turn
         /\ turn[t].at \in {"unused", "native", "gateway", "answered", "done"}
         /\ turn[t].conv \in Conversations \cup {Nothing}
         /\ turn[t].user \in Users \cup {Nothing}
         /\ turn[t].says \in Says
         /\ turn[t].req \in Turns \cup {Nothing}
         /\ turn[t].rev \in Nat \cup {Nothing}
         /\ turn[t].confirmed \in BOOLEAN
         /\ turn[t].question \in Turns \cup {Nothing}
         /\ turn[t].agreed \in Capabilities \cup {Nothing}
         /\ turn[t].answer \in Answer
         /\ turn[t].wrote \in Capabilities \cup {Nothing}
  <1>1. turn[t] \in Turn
    BY DEF TypeOK
  <1>2. QED
    BY <1>1 DEF Turn

(***************************************************************************)
(* What a step of turn t does to the turns: t becomes new and the others   *)
(* stay what they were.                                                    *)
(***************************************************************************)
Advances(t, new) ==
  /\ turn' \in [Turns -> Turn]
  /\ turn'[t] = new
  /\ \A u \in Turns \ {t} : turn'[u] = turn[u]

LEMMA BecomesTurns ==
  ASSUME TypeOK, NEW t \in Turns, NEW new \in Turn, Becomes(t, new)
  PROVE  Advances(t, new)
  BY DEF TypeOK, Becomes, Advances

(***************************************************************************)
(* What is left of a turn that goes on: all that identifies it.            *)
(***************************************************************************)
GoesOn(old, new) ==
  /\ new \in Turn
  /\ new.at # "unused"
  /\ new.conv = old.conv /\ new.user = old.user /\ new.req = old.req
  /\ new.says = old.says /\ new.confirmed = old.confirmed
  /\ new.question = old.question

LEMMA MoveTyped ==
  ASSUME NEW r \in Turn, NEW at \in {"native", "gateway", "answered", "done"}
  PROVE  /\ GoesOn(r, [r EXCEPT !.at = at])
         /\ [r EXCEPT !.at = at].at = at
         /\ [r EXCEPT !.at = at].wrote = r.wrote
         /\ [r EXCEPT !.at = at].answer = r.answer
  BY DEF Turn, GoesOn

Answering(r, at, a) == [r EXCEPT !.at = at, !.answer = a]

LEMMA AnswerTyped ==
  ASSUME NEW r \in Turn, NEW a \in Answer,
         NEW at \in {"native", "gateway", "answered", "done"}
  PROVE  /\ GoesOn(r, Answering(r, at, a))
         /\ Answering(r, at, a).at = at
         /\ Answering(r, at, a).answer = a
         /\ Answering(r, at, a).wrote = r.wrote
  <1> DEFINE first == [r EXCEPT !.at = at]
             second == [first EXCEPT !.answer = a]
  <1>1. Answering(r, at, a) = second
    BY Zenon DEF Answering
  <1>2. /\ GoesOn(r, first)
        /\ first.at = at
        /\ first.wrote = r.wrote
    BY MoveTyped
  <1> HIDE DEF first
  <1>3. /\ GoesOn(r, second)
        /\ second.at = at
        /\ second.answer = a
        /\ second.wrote = r.wrote
    BY <1>2 DEF Turn, GoesOn
  <1>4. QED
    BY <1>1, <1>3, Zenon

LEMMA SendTyped ==
  ASSUME NEW r \in Turn, NEW v \in Nat
  PROVE  /\ GoesOn(r, [r EXCEPT !.at = "gateway", !.rev = v])
         /\ [r EXCEPT !.at = "gateway", !.rev = v].wrote = r.wrote
         /\ [r EXCEPT !.at = "gateway", !.rev = v].at = "gateway"
  <1> DEFINE first == [r EXCEPT !.at = "gateway"]
             second == [first EXCEPT !.rev = v]
  <1>1. [r EXCEPT !.at = "gateway", !.rev = v] = second
    BY Zenon
  <1>2. GoesOn(r, first) /\ first.wrote = r.wrote /\ first.at = "gateway"
    BY MoveTyped
  <1> HIDE DEF first
  <1>3. GoesOn(r, second) /\ second.wrote = r.wrote /\ second.at = "gateway"
    BY <1>2 DEF Turn, GoesOn
  <1>4. QED
    BY <1>1, <1>3, Zenon

LEMMA WriteTyped ==
  ASSUME NEW r \in Turn, NEW c \in Capabilities \cup {Nothing}
  PROVE  /\ GoesOn(r, [r EXCEPT !.at = "done", !.wrote = c])
         /\ [r EXCEPT !.at = "done", !.wrote = c].wrote = c
         /\ [r EXCEPT !.at = "done", !.wrote = c].at = "done"
  <1> DEFINE first == [r EXCEPT !.at = "done"]
             second == [first EXCEPT !.wrote = c]
  <1>1. [r EXCEPT !.at = "done", !.wrote = c] = second
    BY Zenon
  <1>2. GoesOn(r, first) /\ first.at = "done"
    BY MoveTyped
  <1> HIDE DEF first
  <1>3. GoesOn(r, second) /\ second.wrote = c /\ second.at = "done"
    BY <1>2 DEF Turn, GoesOn
  <1>4. QED
    BY <1>1, <1>3, Zenon
-----------------------------------------------------------------------------
(***************************************************************************)
(* The invariant.  A kept question was asked by a turn that is over, is    *)
(* kept once and nobody has answered it; a confirmation was asked of the   *)
(* user and in the conversation it is kept for.                            *)
(***************************************************************************)
AskedBy(q, c, u) ==
  turn[q].answer.key = "confirm" /\ turn[q].conv = c /\ turn[q].user = u

QuestionsInv ==
  \A p \in Kept :
    /\ turn[p.question].at = "done"
    /\ p.kind = "confirmation" => AskedBy(p.question, p.conv, p.user)
    /\ \A t \in Turns : turn[t].question # p.question
    /\ \A q \in Kept : q.question = p.question => q = p

(***************************************************************************)
(* An answered question is over too; what goes to the App as confirmed is  *)
(* a "yes" to a confirmation, and only that writes what is risky.          *)
(***************************************************************************)
ConfirmedInv(r) ==
  r.confirmed => /\ r.says = "yes"
                 /\ r.question \in Turns
                 /\ AskedBy(r.question, r.conv, r.user)

AnswersInv ==
  /\ OneAnswerPerQuestion
  /\ \A t \in Turns :
       /\ turn[t].question # Nothing => turn[turn[t].question].at = "done"
       /\ ConfirmedInv(turn[t])
       /\ turn[t].wrote \in Risky => turn[t].confirmed

Inv == TypeInv /\ QuestionsInv /\ AnswersInv

(***************************************************************************)
(* What every step of a turn does.  It goes on with the question it has,   *)
(* or it has none, or it takes one out of the store; and what is new in    *)
(* the store is a question that it asks with its last step.                *)
(***************************************************************************)
Origin(old, new) ==
  \/ GoesOn(old, new)
  \/ new.question = Nothing /\ ~new.confirmed
  \/ \E p \in Kept :
       /\ p \notin Members(pending')
       /\ new.question = p.question
       /\ new.confirmed => /\ new.says = "yes" /\ p.kind = "confirmation"
                           /\ new.conv = p.conv /\ new.user = p.user

Asks(t, new, p) ==
  /\ p.question = t
  /\ new.at = "done"
  /\ p.kind = "confirmation" =>
       new.answer.key = "confirm" /\ new.conv = p.conv /\ new.user = p.user

Step(t, new) ==
  /\ turn[t].at # "done"
  /\ Advances(t, new)
  /\ new \in Turn /\ Heard(new)
  /\ Origin(turn[t], new)
  /\ new.wrote \in Risky => new.confirmed

StoreStep(t, new) ==
  /\ StoreOK(pending')
  /\ Len(pending') <= MaxPending
  /\ \E e : \A p \in Members(pending') : p \in Kept \/ (p = e /\ Asks(t, new, p))

LEMMA NothingIsNot == Nothing \notin Turns /\ Nothing \notin Risky
  BY NothingAssumption, RiskyAssumption

LEMMA QuestionTyped ==
  ASSUME TypeOK, NEW p \in Kept
  PROVE  p.question \in Turns
  BY KeptTyped DEF Pending

LEMMA StepKeeps ==
  ASSUME Inv, NEW t \in Turns, NEW new, Step(t, new), StoreStep(t, new),
         seen' \in [Turns -> Answer \cup {Nothing}], revision' \in Nat
  PROVE  Inv'
  <1> USE DEF Step
  <1>0. TypeOK /\ TypeInv /\ QuestionsInv /\ AnswersInv
    BY DEF Inv, TypeInv
  <1>1. Kept' = Members(pending')
    BY DEF Kept, Members
  <1>2. PICK e : \A p \in Kept' : p \in Kept \/ (p = e /\ Asks(t, new, p))
    BY <1>1 DEF StoreStep
  <1>3. TypeInv'
    <2>1. TypeOK'
      BY DEF StoreStep, Advances, TypeOK, StoreOK, OnePerConversation
    <2>2. \A u \in Turns : Heard(turn'[u])
      BY <1>0 DEF TypeInv, Advances
    <2>3. QED
      BY <2>1, <2>2 DEF TypeInv, Heard
  <1>4. \A u \in Turns : turn[u].at = "done" => turn'[u] = turn[u]
    BY DEF Advances
  <1>5. \A p \in Kept : /\ p.question \in Turns \ {t}
                        /\ turn'[p.question] = turn[p.question]
    BY <1>0, <1>4, QuestionTyped DEF QuestionsInv
  <1>6. \A u \in Turns : turn[u].question # Nothing =>
          /\ turn[u].question \in Turns \ {t}
          /\ turn'[turn[u].question] = turn[turn[u].question]
    BY <1>0, <1>4, TurnFields DEF AnswersInv
  <1>7. new.question # t
    <2>1. CASE GoesOn(turn[t], new)
      BY <2>1, <1>6, NothingIsNot DEF GoesOn
    <2>2. CASE new.question = Nothing
      BY <2>2, NothingIsNot
    <2>3. CASE \E p \in Kept : new.question = p.question
      BY <2>3, <1>5
    <2>4. QED
      BY <2>1, <2>2, <2>3 DEF Origin
  <1>8. \A p \in Kept \cap Kept' : new.question # p.question
    <2> SUFFICES ASSUME NEW p \in Kept \cap Kept', new.question = p.question
                 PROVE  FALSE
      OBVIOUS
    <2>1. CASE GoesOn(turn[t], new)
      <3>1. turn[t].question = p.question
        BY <2>1, Zenon DEF GoesOn
      <3>2. QED
        BY <3>1, <1>0 DEF QuestionsInv
    <2>2. CASE new.question = Nothing
      BY <2>2, <1>5, NothingIsNot
    <2>3. CASE \E q \in Kept : q \notin Kept' /\ new.question = q.question
      BY <2>3, <1>0 DEF QuestionsInv
    <2>4. QED
      BY <1>1, <2>1, <2>2, <2>3 DEF Origin
  <1>9. QuestionsInv'
    <2> SUFFICES ASSUME NEW p \in Kept'
                 PROVE  /\ turn'[p.question].at = "done"
                        /\ p.kind = "confirmation" =>
                             /\ turn'[p.question].answer.key = "confirm"
                             /\ turn'[p.question].conv = p.conv
                             /\ turn'[p.question].user = p.user
                        /\ \A u \in Turns : turn'[u].question # p.question
                        /\ \A q \in Kept' : q.question = p.question => q = p
      BY DEF QuestionsInv, AskedBy
    <2>1. CASE p \in Kept
      <3>1. /\ turn'[p.question].at = "done"
            /\ p.kind = "confirmation" =>
                 /\ turn'[p.question].answer.key = "confirm"
                 /\ turn'[p.question].conv = p.conv
                 /\ turn'[p.question].user = p.user
        BY <2>1, <1>0, <1>5 DEF QuestionsInv, AskedBy
      <3>2. \A u \in Turns : turn'[u].question # p.question
        BY <2>1, <1>0, <1>8 DEF QuestionsInv, Advances
      <3>3. \A q \in Kept' : q.question = p.question => q = p
        BY <2>1, <1>0, <1>2, <1>5 DEF QuestionsInv, Asks
      <3>4. QED
        BY <3>1, <3>2, <3>3
    <2>2. CASE p \notin Kept
      <3>1. p = e /\ Asks(t, new, p)
        BY <2>2, <1>2
      <3>2. \A u \in Turns : turn'[u].question # t
        BY <1>6, <1>7, NothingIsNot DEF Advances
      <3>3. \A q \in Kept' : q.question = t => q = p
        BY <3>1, <1>2, <1>5
      <3>4. QED
        BY <3>1, <3>2, <3>3 DEF Asks, Advances
    <2>3. QED
      BY <2>1, <2>2
  <1>10. new.question # Nothing =>
           /\ new.question \in Turns
           /\ turn'[new.question].at = "done"
           /\ \A u \in Turns \ {t} : turn[u].question # new.question
    <2>1. CASE GoesOn(turn[t], new)
      BY <2>1, <1>0, <1>6 DEF GoesOn, AnswersInv, OneAnswerPerQuestion
    <2>2. CASE \E p \in Kept : new.question = p.question
      BY <2>2, <1>0, <1>5 DEF QuestionsInv
    <2>3. QED
      BY <2>1, <2>2 DEF Origin
  <1>11. new.confirmed =>
           /\ new.says = "yes"
           /\ new.question \in Turns
           /\ turn'[new.question].answer.key = "confirm"
           /\ turn'[new.question].conv = new.conv
           /\ turn'[new.question].user = new.user
    <2>1. CASE GoesOn(turn[t], new)
      <3>1. SUFFICES ASSUME new.confirmed
                     PROVE  /\ new.says = "yes"
                            /\ new.question \in Turns
                            /\ turn'[new.question].answer.key = "confirm"
                            /\ turn'[new.question].conv = new.conv
                            /\ turn'[new.question].user = new.user
        OBVIOUS
      <3>2. /\ turn[t].confirmed
            /\ turn[t].says = new.says
            /\ turn[t].question = new.question
            /\ turn[t].conv = new.conv
            /\ turn[t].user = new.user
        BY <2>1, <3>1, Zenon DEF GoesOn
      <3>3. ConfirmedInv(turn[t])
        BY <1>0 DEF AnswersInv
      <3>4. /\ turn[t].says = "yes"
            /\ turn[t].question \in Turns
            /\ AskedBy(turn[t].question, turn[t].conv, turn[t].user)
        BY <3>2, <3>3, Zenon DEF ConfirmedInv
      <3>5. turn'[turn[t].question] = turn[turn[t].question]
        BY <3>4, <1>6, NothingIsNot
      <3>6. QED
        BY <3>2, <3>4, <3>5 DEF AskedBy
    <2>2. CASE new.question = Nothing /\ ~new.confirmed
      BY <2>2
    <2>3. ASSUME NEW p \in Kept, new.question = p.question,
                 new.confirmed => /\ new.says = "yes" /\ p.kind = "confirmation"
                                  /\ new.conv = p.conv /\ new.user = p.user
          PROVE  new.confirmed =>
                   /\ new.says = "yes"
                   /\ new.question \in Turns
                   /\ turn'[new.question].answer.key = "confirm"
                   /\ turn'[new.question].conv = new.conv
                   /\ turn'[new.question].user = new.user
      BY <2>3, <1>0, <1>5 DEF QuestionsInv, AskedBy
    <2>4. QED
      BY <2>1, <2>2, <2>3 DEF Origin
  <1>12. AnswersInv'
    <2>1. OneAnswerPerQuestion'
      BY <1>0, <1>10 DEF AnswersInv, OneAnswerPerQuestion, Advances
    <2>2. \A u \in Turns : turn'[u].question # Nothing =>
                             turn'[turn'[u].question].at = "done"
      BY <1>0, <1>6, <1>10 DEF AnswersInv, Advances
    <2>3. ASSUME NEW u \in Turns, turn'[u].confirmed
          PROVE  /\ turn'[u].says = "yes"
                 /\ turn'[u].question \in Turns
                 /\ turn'[turn'[u].question].answer.key = "confirm"
                 /\ turn'[turn'[u].question].conv = turn'[u].conv
                 /\ turn'[turn'[u].question].user = turn'[u].user
      <3>1. CASE u = t
        BY <2>3, <3>1, <1>11 DEF Advances
      <3>2. CASE u # t
        BY <2>3, <3>2, <1>0, <1>6, NothingIsNot
           DEF Advances, AnswersInv, ConfirmedInv, AskedBy
      <3>3. QED
        BY <3>1, <3>2
    <2>4. \A u \in Turns : turn'[u].wrote \in Risky => turn'[u].confirmed
      BY <1>0 DEF AnswersInv, Advances
    <2>5. QED
      BY <2>1, <2>2, <2>3, <2>4 DEF AnswersInv, ConfirmedInv, AskedBy
  <1>13. QED
    BY <1>3, <1>9, <1>12 DEF Inv

-----------------------------------------------------------------------------
(***************************************************************************)
(* The three things a step does to the store: nothing, taking a            *)
(* conversation's entry out, and asking a question of its own.             *)
(***************************************************************************)
LEMMA SameStore ==
  ASSUME TypeOK, pending' = pending, NEW t, NEW new
  PROVE  StoreStep(t, new)
  BY StoreTyped DEF StoreStep, Members, Kept

LEMMA ConsumeStore ==
  ASSUME TypeOK, NEW p \in Kept, pending' = Without(p.conv), NEW t, NEW new
  PROVE  StoreStep(t, new) /\ p \notin Members(pending')
  <1>1. /\ StoreOK(pending')
        /\ pending' = pending \/ Len(pending') = Len(pending) - 1
        /\ \A q \in Members(pending') : q \in Kept /\ q.conv # p.conv
    BY StoreTyped, WithoutFacts
  <1>2. Len(pending) \in Nat /\ Len(pending) <= MaxPending /\ MaxPending \in Nat
    BY StoreTyped, BoundAssumption DEF StoreOK
  <1>3. Len(pending') <= MaxPending
    BY <1>1, <1>2
  <1>4. QED
    BY <1>1, <1>3 DEF StoreStep

LEMMA AskStore ==
  ASSUME TypeOK, NEW p \in Pending, Put(p), NEW t, NEW new, Asks(t, new, p)
  PROVE  StoreStep(t, new)
  <1>1. /\ StoreOK(pending')
        /\ Len(pending') <= MaxPending
        /\ \A q \in Members(pending') : q \in Kept \/ q = p
    BY StoreTyped, PutFacts
  <1>2. QED
    BY <1>1 DEF StoreStep

-----------------------------------------------------------------------------
(***************************************************************************)
(* Messages.                                                               *)
(***************************************************************************)
LEMMA HearsTyped ==
  ASSUME NEW t \in Turns, NEW c \in Conversations, NEW u \in Users,
         NEW says \in Says, NEW at \in {"native", "done"},
         NEW q \in Turns \cup {Nothing}, NEW a \in Answer
  PROVE  LET new == Hears(t, c, u, says, at, q, a) IN
         /\ new \in Turn /\ Heard(new)
         /\ new.question = q /\ ~new.confirmed
         /\ new.at = at /\ new.conv = c /\ new.user = u /\ new.answer = a
         /\ new.wrote \notin Risky
  <1>1. Nothing \notin Risky
    BY NothingIsNot
  <1>2. QED
    BY <1>1 DEF Hears, Turn, Heard

LEMMA PeekTyped ==
  ASSUME TypeOK, NEW c, NEW u, NEW p \in Peek(c, u)
  PROVE  /\ p \in Kept /\ p.conv = c /\ p.user = u
         /\ p \in Pending
         /\ p.question \in Turns /\ p.req \in Turns /\ p.rev \in Nat \cup {Nothing}
         /\ p.kind \in {"confirmation", "clarification"}
         /\ p.cap \in Capabilities \cup {Nothing}
  <1>1. p \in Kept /\ p.conv = c /\ p.user = u
    BY DEF Peek
  <1>2. QED
    BY <1>1, KeptTyped DEF Pending

LEMMA NewRequestKeeps ==
  ASSUME Inv, NEW t \in Turns, NEW c \in Conversations, NEW u \in Users,
         NewRequest(t, c, u)
  PROVE  Inv'
  <1> DEFINE new == Hears(t, c, u, "other", "native", Nothing, NoAnswer)
  <1>0. TypeOK /\ "other" \in Says
    BY DEF Inv, TypeInv, Says
  <1>1. /\ turn[t].at # "done" /\ Becomes(t, new) /\ pending' = pending
        /\ seen' = seen /\ revision' = revision
    BY DEF NewRequest
  <1>2. /\ new \in Turn /\ Heard(new) /\ new.question = Nothing
        /\ ~new.confirmed /\ new.wrote \notin Risky
    BY <1>0, HearsTyped, NoAnswerTyped
  <1> HIDE DEF new
  <1>3. Step(t, new)
    BY <1>0, <1>1, <1>2, BecomesTurns DEF Step, Origin
  <1>4. StoreStep(t, new)
    BY <1>0, <1>1, SameStore
  <1>5. QED
    BY <1>0, <1>1, <1>3, <1>4, StepKeeps, StoreTyped

LEMMA ResumeKeeps ==
  ASSUME Inv, NEW t \in Turns, NEW c \in Conversations, NEW u \in Users,
         turn[t].at = "unused",
         NEW p \in Peek(c, u), NEW says \in Says, NEW confirmed \in BOOLEAN,
         confirmed => says = "yes" /\ p.kind = "confirmation",
         Resume(t, u, p, says, confirmed),
         pending' = Without(c), UNCHANGED <<seen, revision>>
  PROVE  Inv'
  <1> DEFINE rev == IF p.rev = Nothing THEN revision ELSE p.rev
             new == [at |-> "gateway", conv |-> p.conv, user |-> u, says |-> says,
                     req |-> p.req, rev |-> rev,
                     confirmed |-> confirmed, question |-> p.question,
                     agreed |-> p.cap, answer |-> NoAnswer, wrote |-> Nothing]
  <1>0. TypeOK /\ revision \in Nat
    BY DEF Inv, TypeInv, TypeOK
  <1>1. /\ p \in Kept /\ p.conv = c /\ p.user = u
        /\ p.question \in Turns /\ p.req \in Turns /\ p.rev \in Nat \cup {Nothing}
        /\ p.cap \in Capabilities \cup {Nothing}
    BY <1>0, PeekTyped
  <1>2. rev \in Nat
    BY <1>0, <1>1
  <1>3. Becomes(t, new)
    BY DEF Resume
  <1> HIDE DEF rev
  <1>4. new \in Turn /\ Heard(new)
    BY <1>1, <1>2, NoAnswerTyped DEF Turn, Heard
  <1>5. /\ new.question = p.question /\ new.confirmed = confirmed
        /\ new.says = says /\ new.conv = c /\ new.user = u
        /\ new.wrote = Nothing
    BY <1>1
  <1> HIDE DEF new
  <1>6. StoreStep(t, new) /\ p \notin Members(pending')
    BY <1>0, <1>1, ConsumeStore
  <1>7. Origin(turn[t], new)
    <2>1. new.confirmed => /\ new.says = "yes" /\ p.kind = "confirmation"
                           /\ new.conv = p.conv /\ new.user = p.user
      BY <1>1, <1>5
    <2>2. QED
      BY <1>1, <1>5, <1>6, <2>1 DEF Origin
  <1>8. Step(t, new)
    BY <1>0, <1>3, <1>4, <1>5, <1>7, BecomesTurns, NothingIsNot DEF Step
  <1>9. QED
    BY <1>0, <1>6, <1>8, StepKeeps, StoreTyped

LEMMA ConfirmKeeps ==
  ASSUME Inv, NEW t \in Turns, NEW c \in Conversations, NEW u \in Users,
         Confirm(t, c, u)
  PROVE  Inv'
  <1>1. PICK p \in Peek(c, u) :
          p.kind = "confirmation" /\ Resume(t, u, p, "yes", TRUE)
    BY DEF Confirm, Asked
  <1>2. QED
    BY <1>1, ResumeKeeps DEF Confirm, Says

LEMMA ChooseKeeps ==
  ASSUME Inv, NEW t \in Turns, NEW c \in Conversations, NEW u \in Users,
         Choose(t, c, u)
  PROVE  Inv'
  <1>1. PICK p \in Peek(c, u) : Resume(t, u, p, "choice", FALSE)
    BY DEF Choose, Asked
  <1>2. QED
    BY <1>1, ResumeKeeps DEF Choose, Says

LEMMA CancelKeeps ==
  ASSUME Inv, NEW t \in Turns, NEW c \in Conversations, NEW u \in Users,
         Cancel(t, c, u)
  PROVE  Inv'
  <1>0. TypeOK /\ "no" \in Says
    BY DEF Inv, TypeInv, Says
  <1>1. PICK p \in Peek(c, u) :
          Becomes(t, Hears(t, c, u, "no", "done", p.question, NoAnswer))
    BY DEF Cancel, Asked
  <1> DEFINE new == Hears(t, c, u, "no", "done", p.question, NoAnswer)
  <1>2. p \in Kept /\ p.conv = c /\ p.question \in Turns
    BY <1>0, PeekTyped
  <1>3. /\ new \in Turn /\ Heard(new) /\ new.question = p.question
        /\ ~new.confirmed /\ new.wrote \notin Risky
    BY <1>0, <1>2, HearsTyped, NoAnswerTyped
  <1>4. Becomes(t, new)
    BY <1>1
  <1> HIDE DEF new
  <1>5. StoreStep(t, new) /\ p \notin Members(pending')
    BY <1>0, <1>2, ConsumeStore DEF Cancel
  <1>6. Step(t, new)
    BY <1>0, <1>2, <1>3, <1>4, <1>5, BecomesTurns DEF Step, Origin, Cancel
  <1>7. QED
    BY <1>0, <1>5, <1>6, StepKeeps, StoreTyped DEF Cancel

LEMMA RepeatKeeps ==
  ASSUME Inv, NEW t \in Turns, NEW c \in Conversations, NEW u \in Users,
         Repeat(t, c, u)
  PROVE  Inv'
  <1>0. TypeOK /\ "other" \in Says
    BY DEF Inv, TypeInv, Says
  <1> DEFINE Key(p) == IF p.kind = "confirmation" THEN "confirm" ELSE "clarify"
             New(p) == Hears(t, c, u, "other", "done", Nothing,
                             [key |-> Key(p), cap |-> p.cap])
             Entry(p) == [conv |-> c, user |-> u, kind |-> p.kind, req |-> t,
                          rev |-> Nothing, offer |-> FALSE, question |-> t,
                          cap |-> p.cap]
  <1>1. PICK p \in Peek(c, u) : Becomes(t, New(p)) /\ Put(Entry(p))
    BY DEF Repeat
  <1>2. /\ p.kind \in {"confirmation", "clarification"}
        /\ p.cap \in Capabilities \cup {Nothing}
    BY <1>0, PeekTyped
  <1>3. [key |-> Key(p), cap |-> p.cap] \in Answer
    BY <1>2 DEF Answer
  <1>4. /\ New(p) \in Turn /\ Heard(New(p)) /\ New(p).question = Nothing
        /\ ~New(p).confirmed /\ New(p).wrote \notin Risky
        /\ New(p).at = "done" /\ New(p).conv = c /\ New(p).user = u
        /\ New(p).answer = [key |-> Key(p), cap |-> p.cap]
    BY <1>0, <1>3, HearsTyped
  <1>5. Entry(p) \in Pending
    BY <1>2 DEF Pending
  <1>6. Asks(t, New(p), Entry(p))
    <2> HIDE DEF New
    <2> QED
      BY <1>4 DEF Asks
  <1> HIDE DEF New, Entry
  <1>7. StoreStep(t, New(p))
    BY <1>0, <1>1, <1>5, <1>6, AskStore
  <1>8. Step(t, New(p))
    BY <1>0, <1>1, <1>4, BecomesTurns DEF Step, Origin, Repeat
  <1>9. QED
    BY <1>0, <1>7, <1>8, StepKeeps, StoreTyped DEF Repeat

-----------------------------------------------------------------------------
(***************************************************************************)
(* The way to the App and back.  A turn that goes on keeps its question.   *)
(***************************************************************************)
LEMMA GoesOnStep ==
  ASSUME Inv, NEW t \in Turns, NEW new, turn[t].at \notin {"unused", "done"},
         GoesOn(turn[t], new), Becomes(t, new),
         new.wrote \in Risky => turn[t].confirmed
  PROVE  Step(t, new)
  <1>1. TypeOK /\ Heard(turn[t]) /\ new \in Turn
    BY DEF Inv, TypeInv, GoesOn
  <1>2. Heard(new)
    BY <1>1 DEF Heard, GoesOn
  <1>3. new.wrote \in Risky => new.confirmed
    BY Zenon DEF GoesOn
  <1>4. QED
    BY <1>1, <1>2, <1>3, BecomesTurns DEF Step, Origin

LEMMA GoesOnKeeps ==
  ASSUME Inv, NEW t \in Turns, NEW new, turn[t].at \notin {"unused", "done"},
         GoesOn(turn[t], new), Becomes(t, new),
         new.wrote \in Risky => turn[t].confirmed,
         pending' = pending, revision' = revision,
         seen' \in [Turns -> Answer \cup {Nothing}]
  PROVE  Inv'
  <1>1. TypeOK /\ revision \in Nat
    BY DEF Inv, TypeInv, TypeOK
  <1>2. Step(t, new)
    BY GoesOnStep
  <1>3. StoreStep(t, new)
    BY <1>1, SameStore
  <1>4. QED
    BY <1>1, <1>2, <1>3, StepKeeps

LEMMA Wrote ==
  ASSUME Inv, NEW t \in Turns
  PROVE  /\ TypeOK /\ turn[t] \in Turn /\ revision \in Nat
         /\ seen \in [Turns -> Answer \cup {Nothing}]
         /\ turn[t].wrote \in Risky => turn[t].confirmed
  BY TurnFields DEF Inv, TypeInv, TypeOK, AnswersInv

LEMMA DoneKeeps ==
  ASSUME Inv, NEW t \in Turns, turn[t].at \notin {"unused", "done"},
         Becomes(t, [turn[t] EXCEPT !.at = "done"]),
         UNCHANGED <<pending, seen, revision>>
  PROVE  Inv'
  <1> DEFINE new == [turn[t] EXCEPT !.at = "done"]
  <1>1. GoesOn(turn[t], new) /\ new.wrote = turn[t].wrote
    BY Wrote, MoveTyped
  <1>2. Becomes(t, new)
    OBVIOUS
  <1> HIDE DEF new
  <1>3. QED
    BY <1>1, <1>2, Wrote, GoesOnKeeps

LEMMA SendKeeps ==
  ASSUME Inv, NEW t \in Turns, Send(t)
  PROVE  Inv'
  <1> DEFINE new == [turn[t] EXCEPT !.at = "gateway", !.rev = revision]
  <1>1. GoesOn(turn[t], new) /\ new.wrote = turn[t].wrote
    BY Wrote, SendTyped
  <1>2. Becomes(t, new)
    BY DEF Send
  <1> HIDE DEF new
  <1>3. QED
    BY <1>1, <1>2, Wrote, GoesOnKeeps DEF Send

LEMMA DecisionsTyped ==
  ASSUME NEW r, NEW a \in Decisions(r)
  PROVE  a \in Answer
  BY DEF Decisions, Policy, Answer

LEMMA DecideKeeps ==
  ASSUME Inv, NEW t \in Turns, Decide(t)
  PROVE  Inv'
  <1>1. PICK a \in IF seen[turn[t].req] # Nothing
                     THEN {seen[turn[t].req]} ELSE Decisions(turn[t]) :
          /\ Becomes(t, [turn[t] EXCEPT !.at = "answered", !.answer = a])
          /\ seen' = [seen EXCEPT ![turn[t].req] = a]
    BY DEF Decide
  <1>2. turn[t].at = "gateway" /\ pending' = pending /\ revision' = revision
    BY DEF Decide
  <1>3. turn[t].req \in Turns
    BY <1>2 DEF Inv, TypeInv, Heard
  <1>4. a \in Answer
    BY <1>1, <1>3, Wrote, DecisionsTyped
  <1>5. seen' \in [Turns -> Answer \cup {Nothing}]
    BY <1>1, <1>4, Wrote
  <1> DEFINE new == [turn[t] EXCEPT !.at = "answered", !.answer = a]
  <1>6. GoesOn(turn[t], new) /\ new.wrote = turn[t].wrote
    <2>1. turn[t] \in Turn
      BY Wrote
    <2>2. new = Answering(turn[t], "answered", a)
      BY Zenon DEF Answering
    <2> HIDE DEF new
    <2>3. QED
      BY <1>4, <2>1, <2>2, AnswerTyped
  <1>7. Becomes(t, new)
    BY <1>1
  <1> HIDE DEF new
  <1>8. QED
    BY <1>2, <1>5, <1>6, <1>7, Wrote, GoesOnKeeps

(***************************************************************************)
(* A turn ends with a question of its own in the store.                    *)
(***************************************************************************)
LEMMA AskKeeps ==
  ASSUME Inv, NEW t \in Turns, NEW new, turn[t].at = "answered",
         NEW kind \in {"confirmation", "clarification"},
         NEW cap \in Capabilities \cup {Nothing},
         GoesOn(turn[t], new), Becomes(t, new), new.at = "done",
         new.wrote = turn[t].wrote,
         kind = "confirmation" => new.answer.key = "confirm",
         Ask(t, kind, cap), UNCHANGED <<seen, revision>>
  PROVE  Inv'
  <1> DEFINE entry == [conv |-> turn[t].conv, user |-> turn[t].user,
                       kind |-> kind, req |-> turn[t].req, rev |-> turn[t].rev,
                       offer |-> TRUE, question |-> t, cap |-> cap]
  <1>1. /\ turn[t].conv \in Conversations /\ turn[t].user \in Users
        /\ turn[t].req \in Turns /\ turn[t].rev \in Nat \cup {Nothing}
    BY Wrote, TurnFields DEF Inv, TypeInv, Heard
  <1>2. entry \in Pending
    BY <1>1 DEF Pending
  <1>3. Put(entry)
    BY DEF Ask
  <1>4. Asks(t, new, entry)
    BY DEF Asks, GoesOn
  <1> HIDE DEF entry
  <1>5. StoreStep(t, new)
    BY <1>2, <1>3, <1>4, Wrote, AskStore
  <1>6. Step(t, new)
    BY Wrote, GoesOnStep
  <1>7. QED
    BY <1>5, <1>6, Wrote, StepKeeps

LEMMA AskConfirmationKeeps ==
  ASSUME Inv, NEW t \in Turns, turn[t].at = "answered",
         NEW cap \in Capabilities \cup {Nothing},
         AskConfirmation(t, cap), UNCHANGED <<seen, revision>>
  PROVE  Inv'
  <1> DEFINE a == [key |-> "confirm", cap |-> cap]
             new == [turn[t] EXCEPT !.at = "done", !.answer = a]
  <1>1. a \in Answer
    BY DEF Answer
  <1>2. a.key = "confirm"
    OBVIOUS
  <1>3. Becomes(t, new) /\ Ask(t, "confirmation", cap)
    BY DEF AskConfirmation
  <1> HIDE DEF a
  <1>4. /\ GoesOn(turn[t], new) /\ new.at = "done"
        /\ new.wrote = turn[t].wrote /\ new.answer = a
    <2>1. turn[t] \in Turn
      BY Wrote
    <2>2. new = Answering(turn[t], "done", a)
      BY Zenon DEF Answering
    <2> HIDE DEF new
    <2>3. QED
      BY <1>1, <2>1, <2>2, AnswerTyped
  <1> HIDE DEF new
  <1>5. QED
    BY <1>2, <1>3, <1>4, AskKeeps

LEMMA ClarifyKeeps ==
  ASSUME Inv, NEW t \in Turns, turn[t].at = "answered",
         Becomes(t, [turn[t] EXCEPT !.at = "done"]),
         Ask(t, "clarification", Nothing), UNCHANGED <<seen, revision>>
  PROVE  Inv'
  <1> DEFINE new == [turn[t] EXCEPT !.at = "done"]
  <1>1. GoesOn(turn[t], new) /\ new.at = "done" /\ new.wrote = turn[t].wrote
    BY Wrote, MoveTyped
  <1>2. Becomes(t, new)
    OBVIOUS
  <1> HIDE DEF new
  <1>3. QED
    BY <1>1, <1>2, AskKeeps

LEMMA ExecuteKeeps ==
  ASSUME Inv, NEW t \in Turns, turn[t].at = "answered", Execute(t),
         UNCHANGED <<seen, revision>>
  PROVE  Inv'
  <1> DEFINE cap == turn[t].answer.cap
  <1>1. cap \in Capabilities \cup {Nothing}
    BY Wrote, TurnFields DEF Answer
  <1>2. CASE Becomes(t, [turn[t] EXCEPT !.at = "done"]) /\ pending' = pending
    BY <1>2, DoneKeeps
  <1>3. CASE /\ cap \in Risky => turn[t].confirmed
             /\ Becomes(t, [turn[t] EXCEPT !.at = "done", !.wrote = cap])
             /\ pending' = pending
    <2> HIDE DEF cap
    <2> DEFINE new == [turn[t] EXCEPT !.at = "done", !.wrote = cap]
    <2>1. GoesOn(turn[t], new) /\ new.wrote = cap
      BY <1>1, Wrote, WriteTyped
    <2>2. Becomes(t, new)
      BY <1>3
    <2> HIDE DEF new
    <2>3. new.wrote \in Risky => turn[t].confirmed
      BY <1>3, <2>1
    <2>4. QED
      BY <1>3, <2>1, <2>2, <2>3, Wrote, GoesOnKeeps
  <1>4. CASE AskConfirmation(t, cap)
    BY <1>1, <1>4, AskConfirmationKeeps
  <1>5. QED
    BY <1>2, <1>3, <1>4 DEF Execute

LEMMA ReceiveKeeps ==
  ASSUME Inv, NEW t \in Turns, Receive(t)
  PROVE  Inv'
  <1>1. turn[t].at = "answered" /\ seen' = seen /\ revision' = revision
    BY DEF Receive
  <1>2. CASE Execute(t)
    BY <1>1, <1>2, ExecuteKeeps
  <1>3. CASE AskConfirmation(t, turn[t].answer.cap)
    <2>1. turn[t].answer.cap \in Capabilities \cup {Nothing}
      BY Wrote, TurnFields DEF Answer
    <2>2. QED
      BY <1>1, <1>3, <2>1, AskConfirmationKeeps
  <1>4. CASE /\ Becomes(t, [turn[t] EXCEPT !.at = "done"])
             /\ Ask(t, "clarification", Nothing)
    BY <1>1, <1>4, ClarifyKeeps
  <1>5. CASE /\ Becomes(t, [turn[t] EXCEPT !.at = "done"])
             /\ pending' = pending
    BY <1>1, <1>5, DoneKeeps
  <1>6. QED
    BY <1>2, <1>3, <1>4, <1>5 DEF Receive

-----------------------------------------------------------------------------
(***************************************************************************)
(* Steps of nobody's turn.                                                 *)
(***************************************************************************)
LEMMA KeptShrinks ==
  ASSUME Inv, turn' = turn, StoreOK(pending'), Len(pending') <= MaxPending,
         Members(pending') \subseteq Kept,
         seen' \in [Turns -> Answer \cup {Nothing}], revision' \in Nat
  PROVE  Inv'
  <1>1. TypeOK'
    BY DEF Inv, TypeInv, TypeOK, StoreOK, OnePerConversation
  <1>2. TypeInv'
    BY <1>1 DEF Inv, TypeInv, Heard
  <1>3. Kept' \subseteq Kept
    BY DEF Kept, Members
  <1>4. QuestionsInv'
    BY <1>3 DEF Inv, QuestionsInv, AskedBy
  <1>5. AnswersInv'
    BY DEF Inv, AnswersInv, OneAnswerPerQuestion, ConfirmedInv, AskedBy
  <1>6. QED
    BY <1>2, <1>4, <1>5 DEF Inv

LEMMA ExpireKeeps ==
  ASSUME Inv, Expire
  PROVE  Inv'
  <1>1. TypeOK
    BY DEF Inv, TypeInv
  <1>2. /\ pending # <<>> /\ pending' = Tail(pending)
        /\ turn' = turn /\ seen' = seen /\ revision' = revision
    BY DEF Expire
  <1>3. /\ StoreOK(pending') /\ Members(pending') \subseteq Kept
        /\ Len(pending') = Len(pending) - 1
    BY <1>1, <1>2, StoreTyped, TailFacts
  <1>4. Len(pending') <= MaxPending
    BY <1>1, <1>3, BoundAssumption, StoreTyped DEF StoreOK
  <1>5. QED
    BY <1>1, <1>2, <1>3, <1>4, KeptShrinks, StoreTyped

LEMMA SamePendingKeeps ==
  ASSUME Inv, turn' = turn, pending' = pending,
         seen' \in [Turns -> Answer \cup {Nothing}], revision' \in Nat
  PROVE  Inv'
  <1>1. StoreOK(pending) /\ Len(pending) <= MaxPending
    BY StoreTyped DEF Inv, TypeInv
  <1>2. QED
    BY <1>1, KeptShrinks DEF Members, Kept

LEMMA NextKeeps == Inv /\ [Next]_vars => Inv'
  <1> SUFFICES ASSUME Inv, [Next]_vars PROVE Inv'
    OBVIOUS
  <1>0. seen \in [Turns -> Answer \cup {Nothing}] /\ revision \in Nat
    BY DEF Inv, TypeInv, TypeOK
  <1>1. ASSUME NEW t \in Turns, Message(t)
        PROVE  Inv'
    BY <1>1, ConfirmKeeps, CancelKeeps, ChooseKeeps, NewRequestKeeps, RepeatKeeps
       DEF Message
  <1>2. ASSUME NEW t \in Turns, Continue(t)
        PROVE  Inv'
    <2>1. CASE Local(t)
      BY <2>1, DoneKeeps DEF Local
    <2>2. CASE ClientFails(t)
      BY <2>2, DoneKeeps DEF ClientFails
    <2>3. QED
      BY <1>2, <2>1, <2>2, SendKeeps, DecideKeeps, ReceiveKeeps DEF Continue
  <1>3. CASE Expire
    BY <1>3, ExpireKeeps
  <1>4. CASE Reconcile
    BY <1>0, <1>4, SamePendingKeeps DEF Reconcile
  <1>5. CASE AppRestart
    BY <1>0, <1>5, SamePendingKeeps DEF AppRestart
  <1>6. CASE UNCHANGED vars
    BY <1>0, <1>6, SamePendingKeeps DEF vars
  <1>7. QED
    BY <1>1, <1>2, <1>3, <1>4, <1>5, <1>6 DEF Next

LEMMA InitInv == Init => Inv
  <1> SUFFICES ASSUME Init PROVE Inv
    OBVIOUS
  <1>1. Unused \in Turn
    BY NoAnswerTyped DEF Unused, Turn, Says
  <1>2. turn \in [Turns -> Turn] /\ \A t \in Turns : turn[t] = Unused
    BY <1>1 DEF Init
  <1>3. TypeInv
    <2>1. /\ pending \in Seq(Pending) /\ Len(pending) = 0
          /\ DOMAIN pending = {}
      BY DEF Init
    <2>2. /\ seen \in [Turns -> Answer \cup {Nothing}] /\ revision \in Nat
          /\ Len(pending) <= MaxPending
      BY <2>1, BoundAssumption DEF Init
    <2>3. \A t \in Turns : Heard(turn[t])
      BY <1>2 DEF Heard, Unused
    <2>4. QED
      BY <1>2, <2>1, <2>2, <2>3 DEF TypeInv, TypeOK
  <1>4. Kept = {}
    BY DEF Init, Kept
  <1>5. \A t \in Turns : /\ turn[t].question = Nothing /\ ~turn[t].confirmed
                         /\ turn[t].wrote \notin Risky
    BY <1>2, NothingIsNot DEF Unused
  <1>6. QED
    BY <1>3, <1>4, <1>5 DEF Inv, QuestionsInv, AnswersInv, OneAnswerPerQuestion, ConfirmedInv

LEMMA InvAlways == Spec => []Inv
  BY InitInv, NextKeeps, PTL DEF Spec

-----------------------------------------------------------------------------
(***************************************************************************)
(* Whatever the conversation entity does, its turns, the store of pending  *)
(* questions and the App's memory of answers are what the code takes them  *)
(* to be: in particular one entry per conversation, and no more than       *)
(* max_entries of them.                                                    *)
(***************************************************************************)
THEOREM TurnsTyped == Spec => []TypeOK
  <1>1. Inv => TypeOK
    BY DEF Inv, TypeInv
  <1>2. QED
    BY <1>1, InvAlways, PTL

(***************************************************************************)
(* However many turns of however many conversations run at the same time,  *)
(* a question that was put to the user is answered by one turn at most     *)
(* (consume, before the first await).                                      *)
(***************************************************************************)
THEOREM QuestionsAreAnsweredOnce == Spec => []OneAnswerPerQuestion
  <1>1. Inv => OneAnswerPerQuestion
    BY DEF Inv, AnswersInv
  <1>2. QED
    BY <1>1, InvAlways, PTL

(***************************************************************************)
(* A risky capability is called only in a turn that said "yes" to a        *)
(* confirmation which was put to the same user in the same conversation    *)
(* (peek's comparison of the user, and execute_proposal's own view of the  *)
(* risk).                                                                  *)
(***************************************************************************)
THEOREM NoRiskWithoutConfirmation == Spec => []RiskyWritesAreConfirmed
  <1>1. Inv => RiskyWritesAreConfirmed
    <2> SUFFICES ASSUME Inv, NEW t \in Turns, turn[t].wrote \in Risky
                 PROVE  /\ turn[t].says = "yes"
                        /\ turn[t].question \in Turns
                        /\ AskedBy(turn[t].question, turn[t].conv, turn[t].user)
      BY DEF RiskyWritesAreConfirmed, AskedBy
    <2>1. turn[t].confirmed /\ ConfirmedInv(turn[t])
      BY DEF Inv, AnswersInv
    <2>2. QED
      BY <2>1, Zenon DEF ConfirmedInv
  <1>2. QED
    BY <1>1, InvAlways, PTL
=============================================================================
